-------------------------- MODULE PublishingProofs --------------------------
(***************************************************************************)
(* Proofs about the publication lifecycle, for any number of intents,      *)
(* owners, workers, admins, plans, versions and attempts, under all faults:*)
(* who may send what, then type correctness, for which the dispatch        *)
(* invariant is a lemma (a worker past its claim holds an attempt).        *)
(***************************************************************************)
EXTENDS PublishingIntents, TLAPS

-----------------------------------------------------------------------------
(* Lemmas about the operators *)

\* An approval row is never deleted, so an approved version stays approved.
LEMMA ApprovedIsStable ==
    ASSUME NEW i, NEW v, approvals \subseteq approvals', Approved(i, v)
    PROVE  Approved(i, v)'
  BY DEF Approved

\* The row a claim inserts did not exist.
LEMMA NextAttemptIsNew ==
    ASSUME NEW i, NEW v, NEW a \in NextAttempts(i, v)
    PROVE  /\ a \in Attempts
           /\ IntentOf(a) = i
           /\ VersionOf(a) = v
           /\ attempt[a] = "none"
  <1>1. /\ a \in Attempts /\ IntentOf(a) = i /\ VersionOf(a) = v
        /\ \A b \in VersionAttempts(i, v) : SeqOf(b) < SeqOf(a)
    BY DEF NextAttempts
  <1>2. SeqOf(a) \in Nat
    BY <1>1 DEF Attempts, Seqs, SeqOf
  <1>3. a \notin VersionAttempts(i, v)
    BY <1>1, <1>2
  <1> QED
    BY <1>1, <1>3 DEF VersionAttempts, AttemptsOf

\* A step that leaves attempts, sends, workers and flagged attempts alone, and
\* deletes no approval, preserves the invariant.
LEMMA DispatchInvUntouched ==
    ASSUME DispatchInv,
           UNCHANGED <<attempt, sends, wpc, watt, stuck>>,
           approvals \subseteq approvals'
    PROVE  DispatchInv'
  <1> USE DEF DispatchInv
  <1>1. DispatchTypes'
    BY DEF DispatchTypes
  <1>2. HeldExist'
    BY DEF HeldExist, Exists
  <1>3. ExistingApproved'
    BY ApprovedIsStable DEF ExistingApproved
  <1>4. UnsentUntilClaimed'
    BY DEF UnsentUntilClaimed, AboutToSend
  <1>5. OneSender'
    BY DEF OneSender, AboutToSend
  <1>6. AttemptSentOnce'
    BY DEF AttemptSentOnce
  <1> QED
    BY <1>1, <1>2, <1>3, <1>4, <1>5, <1>6

\* A step that settles one existing attempt by id, and otherwise at most
\* releases a worker or forgets flagged attempts, preserves the invariant: an
\* attempt never comes back to "none" or QUEUED.
LEMMA DispatchInvSettling ==
    ASSUME DispatchInv,
           NEW x \in Attempts, attempt[x] # "none",
           NEW s \in {"SUCCEEDED", "FAILED", "UNKNOWN"},
           attempt' = [attempt EXCEPT ![x] = s],
           UNCHANGED <<sends, approvals>>,
           stuck' \subseteq stuck,
           \/ UNCHANGED <<wpc, watt>>
           \/ \E w \in Workers : /\ wpc' = [wpc EXCEPT ![w] = "idle"]
                                 /\ watt' = [watt EXCEPT ![w] = NoAttempt]
    PROVE  DispatchInv'
  <1> USE DEF DispatchInv
  <1>1. DispatchTypes'
    BY DEF DispatchTypes, AttemptStates, WorkerPcs
  <1>2. \A a \in Attempts : attempt'[a] = IF a = x THEN s ELSE attempt[a]
    BY DEF DispatchTypes
  <1>3. \A w \in Workers :
           wpc'[w] = "idle" \/ (wpc'[w] = wpc[w] /\ watt'[w] = watt[w])
    BY DEF DispatchTypes
  <1>4. \A a : Exists(a) => Exists(a)'
    BY <1>2 DEF Exists
  <1>5. \A a : \A w \in Workers : AboutToSend(w, a)' => AboutToSend(w, a)
    BY <1>3 DEF AboutToSend
  <1>6. HeldExist'
    BY <1>3, <1>4 DEF HeldExist, Holding
  <1>7. ExistingApproved'
    BY <1>2 DEF ExistingApproved, Approved
  <1>8. UnsentUntilClaimed'
    BY <1>2, <1>5 DEF UnsentUntilClaimed
  <1>9. OneSender'
    BY <1>5 DEF OneSender
  <1>10. AttemptSentOnce'
    BY DEF AttemptSentOnce
  <1> QED
    BY <1>1, <1>6, <1>7, <1>8, <1>9, <1>10

\* A step that only moves a worker, to "send" only if it stays there, or gives
\* up its attempt, preserves the invariant.
LEMMA DispatchInvMoving ==
    ASSUME DispatchInv,
           NEW w \in Workers, NEW pc \in WorkerPcs \ {"send"},
           pc \in Holding => wpc[w] \in Holding,
           wpc' = [wpc EXCEPT ![w] = pc],
           watt' = watt \/ (watt' = [watt EXCEPT ![w] = NoAttempt] /\ pc = "idle"),
           UNCHANGED <<attempt, sends, stuck, approvals>>
    PROVE  DispatchInv'
  <1> USE DEF DispatchInv
  <1>1. DispatchTypes'
    BY DEF DispatchTypes, WorkerPcs
  <1>2. \A y \in Workers : y # w => wpc'[y] = wpc[y] /\ watt'[y] = watt[y]
    BY DEF DispatchTypes
  <1>3. wpc'[w] = pc /\ (pc \in Holding => watt'[w] = watt[w])
    BY DEF DispatchTypes, Holding
  <1>4. \A a : \A y \in Workers : AboutToSend(y, a)' => AboutToSend(y, a)
    BY <1>2, <1>3 DEF AboutToSend
  <1>5. HeldExist'
    BY <1>2, <1>3 DEF HeldExist, Exists
  <1>6. ExistingApproved'
    BY DEF ExistingApproved, Approved
  <1>7. UnsentUntilClaimed'
    BY <1>4 DEF UnsentUntilClaimed
  <1>8. OneSender'
    BY <1>4 DEF OneSender
  <1>9. AttemptSentOnce'
    BY DEF AttemptSentOnce
  <1> QED
    BY <1>1, <1>5, <1>6, <1>7, <1>8, <1>9

-----------------------------------------------------------------------------
(* One lemma per component, one step per action *)

\* The owner's requests never touch an attempt or a worker; the approvals grow.
LEMMA OwnerKeepsDispatchInv ==
    ASSUME DispatchInv, NEW o \in Owners, OwnerStep(o)
    PROVE  DispatchInv'
  <1> USE DispatchInvUntouched
  <1> USE DEF Reading, candidateVars, intentVars, attemptVars, queueVars, workerVars,
              sweepVars, adminVars, runVars
  <1>1. ASSUME NEW i \in Intents, BeginCreate(o, i)  PROVE DispatchInv'
    BY <1>1 DEF BeginCreate
  <1>2. ASSUME NEW i \in Intents, NEW p \in Plans, BeginSchedule(o, i, p)  PROVE DispatchInv'
    BY <1>2 DEF BeginSchedule
  <1>3. ASSUME NEW i \in Intents, BeginDecide(o, i)  PROVE DispatchInv'
    BY <1>3 DEF BeginDecide
  <1>4. ASSUME NEW i \in Intents, BeginCancel(o, i)  PROVE DispatchInv'
    BY <1>4 DEF BeginCancel
  <1>5. ASSUME NEW i \in Intents, BeginRetry(o, i)  PROVE DispatchInv'
    BY <1>5 DEF BeginRetry
  <1>6. CASE CommitCreate(o)
    BY <1>6 DEF CommitCreate, Writes
  <1>7. CASE CommitSchedule(o)
    BY <1>7 DEF CommitSchedule, Writes
  <1>8. CASE CommitReschedule(o)
    BY <1>8 DEF CommitReschedule, Writes
  <1>9. CASE CommitApprove(o)
    BY <1>9 DEF CommitApprove, Decides, Writes
  <1>10. CASE CommitReject(o)
    BY <1>10 DEF CommitReject, Decides, Writes
  <1>11. CASE CommitCancel(o)
    BY <1>11 DEF CommitCancel, Writes
  <1>12. CASE CommitRetry(o)
    BY <1>12 DEF CommitRetry, Writes
  <1>13. CASE Abort(o)
    BY <1>13 DEF Abort
  <1>14. CASE Enqueue(o)
    BY <1>14 DEF Enqueue
  <1>15. CASE Prune(o)
    BY <1>15 DEF Prune
  <1> QED
    BY <1>1, <1>2, <1>3, <1>4, <1>5, <1>6, <1>7, <1>8, <1>9, <1>10, <1>11, <1>12,
       <1>13, <1>14, <1>15 DEF OwnerStep

\* The claim creates its attempt QUEUED, approved and never sent.
LEMMA ClaimKeepsDispatchInv ==
    ASSUME DispatchInv, NEW w \in Workers, ClaimIntent(w)
    PROVE  DispatchInv'
  <1> DEFINE i == IntentOf(wjob[w])
             v == VersionOf(wjob[w])
  <1> USE DEF DispatchInv
  <1>1. PICK a \in NextAttempts(i, v) :
           /\ attempt' = [attempt EXCEPT ![a] = "QUEUED"]
           /\ watt' = [watt EXCEPT ![w] = a]
    BY DEF ClaimIntent
  <1>2. /\ a \in Attempts
        /\ attempt[a] = "none"
        /\ IntentOf(a) = i /\ VersionOf(a) = v
    BY NextAttemptIsNew, <1>1
  <1>3. /\ wpc' = [wpc EXCEPT ![w] = "asset"]
        /\ wpc[w] = "check"
        /\ UNCHANGED <<sends, stuck, approvals>>
        /\ Approved(i, v)
    BY DEF ClaimIntent, Revalidates, Elsewhere, sweepVars
  <1> HIDE DEF i, v
  <1>4. DispatchTypes'
    BY <1>1, <1>2, <1>3 DEF DispatchTypes, AttemptStates, WorkerPcs
  <1>5. /\ \A b \in Attempts : attempt'[b] = IF b = a THEN "QUEUED" ELSE attempt[b]
        /\ \A y \in Workers : wpc'[y] = IF y = w THEN "asset" ELSE wpc[y]
        /\ \A y \in Workers : watt'[y] = IF y = w THEN a ELSE watt[y]
    BY <1>1, <1>2, <1>3 DEF DispatchTypes
  <1>6. \A b : \A y \in Workers : AboutToSend(y, b)' => AboutToSend(y, b)
    BY <1>5 DEF AboutToSend
  <1>7. HeldExist'
    BY <1>2, <1>3, <1>5 DEF HeldExist, Exists
  <1>8. ExistingApproved'
    BY <1>2, <1>3, <1>5 DEF ExistingApproved, Approved
  <1>9. UnsentUntilClaimed'
    BY <1>2, <1>3, <1>5, <1>6 DEF UnsentUntilClaimed
  <1>10. OneSender'
    BY <1>3, <1>6 DEF OneSender
  <1>11. AttemptSentOnce'
    BY <1>3 DEF AttemptSentOnce
  <1> QED
    BY <1>4, <1>7, <1>8, <1>9, <1>10, <1>11

\* A redelivered job takes over a QUEUED attempt, and sends nothing yet.
LEMMA RecoverKeepsDispatchInv ==
    ASSUME DispatchInv, NEW w \in Workers, RecoverQueued(w)
    PROVE  DispatchInv'
  <1> USE DEF DispatchInv
  <1>1. PICK a : Recoverable(a) /\ watt' = [watt EXCEPT ![w] = a] /\ a \in Attempts
    BY DEF RecoverQueued, ByKey, VersionAttempts, AttemptsOf
  <1>2. /\ wpc' = [wpc EXCEPT ![w] = "asset"]
        /\ UNCHANGED <<attempt, sends, stuck, approvals>>
    BY DEF RecoverQueued, Elsewhere, sweepVars
  <1>3. DispatchTypes'
    BY <1>1, <1>2 DEF DispatchTypes, WorkerPcs
  <1>4. /\ \A y \in Workers : wpc'[y] = IF y = w THEN "asset" ELSE wpc[y]
        /\ \A y \in Workers : watt'[y] = IF y = w THEN a ELSE watt[y]
    BY <1>1, <1>2 DEF DispatchTypes
  <1>5. \A b : \A y \in Workers : AboutToSend(y, b)' => AboutToSend(y, b)
    BY <1>4 DEF AboutToSend
  <1>6. HeldExist'
    BY <1>1, <1>2, <1>4 DEF HeldExist, Exists, Recoverable
  <1>7. ExistingApproved'
    BY <1>2 DEF ExistingApproved, Approved
  <1>8. UnsentUntilClaimed'
    BY <1>2, <1>5 DEF UnsentUntilClaimed
  <1>9. OneSender'
    BY <1>2, <1>5 DEF OneSender
  <1>10. AttemptSentOnce'
    BY <1>2 DEF AttemptSentOnce
  <1> QED
    BY <1>3, <1>6, <1>7, <1>8, <1>9, <1>10

\* The compare-and-swap lets one worker reach the outbound call.
LEMMA SwapKeepsDispatchInv ==
    ASSUME DispatchInv, NEW w \in Workers, wpc[w] = "asset",
           attempt[watt[w]] = "QUEUED",
           attempt' = [attempt EXCEPT ![watt[w]] = "DISPATCHING"],
           wpc' = [wpc EXCEPT ![w] = "send"],
           UNCHANGED <<watt, sends, stuck, approvals>>
    PROVE  DispatchInv'
  <1> USE DEF DispatchInv
  <1>1. watt[w] \in Attempts
    BY DEF HeldExist, Holding, Exists
  <1>2. DispatchTypes'
    BY DEF DispatchTypes, AttemptStates, WorkerPcs
  <1>3. /\ \A b \in Attempts :
              attempt'[b] = IF b = watt[w] THEN "DISPATCHING" ELSE attempt[b]
        /\ \A y \in Workers : wpc'[y] = IF y = w THEN "send" ELSE wpc[y]
    BY <1>1 DEF DispatchTypes
  <1>4. /\ sends[watt[w]] = 0
        /\ \A y \in Workers : ~AboutToSend(y, watt[w])
    BY <1>1 DEF UnsentUntilClaimed
  <1>5. HeldExist'
    BY <1>1, <1>3 DEF HeldExist, Exists, Holding
  <1>6. ExistingApproved'
    BY <1>3 DEF ExistingApproved, Approved
  <1>7. UnsentUntilClaimed'
    BY <1>3 DEF UnsentUntilClaimed, AboutToSend
  <1>8. OneSender'
    BY <1>3, <1>4 DEF OneSender, AboutToSend
  <1>9. AttemptSentOnce'
    BY DEF AttemptSentOnce
  <1> QED
    BY <1>2, <1>5, <1>6, <1>7, <1>8, <1>9

\* The outbound call is made once and leaves "send".
LEMMA PostKeepsDispatchInv ==
    ASSUME DispatchInv, NEW w \in Workers, Post(w)
    PROVE  DispatchInv'
  <1> USE DEF DispatchInv
  <1>1. /\ wpc[w] = "send"
        /\ sends' = [sends EXCEPT ![watt[w]] = @ + 1]
        /\ UNCHANGED <<attempt, stuck, approvals>>
    BY DEF Post, attemptVars, Elsewhere, sweepVars
  <1>2. PICK pc \in {"ack", "ambiguous", "rejected"} :
           wpc' = [wpc EXCEPT ![w] = pc] /\ watt' = watt
    BY DEF Post, Moves
  <1>3. /\ watt[w] \in Attempts /\ attempt[watt[w]] # "none"
        /\ AboutToSend(w, watt[w])
        /\ sends[watt[w]] = 0
        /\ \A x \in Workers : AboutToSend(x, watt[w]) => x = w
        /\ attempt[watt[w]] \notin {"none", "QUEUED"}
    BY <1>1 DEF HeldExist, Holding, Exists, AboutToSend, OneSender, UnsentUntilClaimed
  <1>4. DispatchTypes'
    BY <1>1, <1>2, <1>3 DEF DispatchTypes, WorkerPcs
  <1>5. /\ \A b \in Attempts : sends'[b] = IF b = watt[w] THEN 1 ELSE sends[b]
        /\ \A y \in Workers : wpc'[y] = IF y = w THEN pc ELSE wpc[y]
    BY <1>1, <1>2, <1>3 DEF DispatchTypes
  <1>6. \A b : \A y \in Workers : AboutToSend(y, b)' => AboutToSend(y, b) /\ b # watt[w]
    BY <1>2, <1>3, <1>5 DEF AboutToSend
  <1>7. HeldExist'
    BY <1>1, <1>2, <1>3, <1>5 DEF HeldExist, Exists
  <1>8. ExistingApproved'
    BY <1>1 DEF ExistingApproved, Approved
  <1>9. UnsentUntilClaimed'
    BY <1>1, <1>3, <1>5, <1>6 DEF UnsentUntilClaimed
  <1>10. OneSender'
    BY <1>5, <1>6 DEF OneSender
  <1>11. AttemptSentOnce'
    BY <1>5 DEF AttemptSentOnce
  <1> QED
    BY <1>4, <1>7, <1>8, <1>9, <1>10, <1>11

\* The dispatch worker, handler by handler.
LEMMA WorkerKeepsDispatchInv ==
    ASSUME DispatchInv, NEW w \in Workers, WorkerStep(w)
    PROVE  DispatchInv'
  <1> USE DispatchInvMoving
  <1> USE DEF WorkerPcs, Holding, Moves, Finish, attemptVars, Elsewhere, sweepVars
  <1>1. ASSUME NEW j \in JobIds, Take(w, j)  PROVE DispatchInv'
    BY <1>1 DEF Take
  <1>2. CASE SyncFails(w)
    BY <1>2 DEF SyncFails
  <1>3. CASE RecordedNoOp(w)
    BY <1>3 DEF RecordedNoOp
  <1>4. CASE Refuse(w)
    BY <1>4 DEF Refuse
  <1>5. CASE ClaimIntent(w)
    BY <1>5, ClaimKeepsDispatchInv
  <1>6. CASE RecoverQueued(w)
    BY <1>6, RecoverKeepsDispatchInv
  <1>7. CASE MarkIntentFailed(w)
    BY <1>7 DEF MarkIntentFailed
  <1>8. CASE AssetFails(w)
    <2>1. watt[w] \in Attempts /\ attempt[watt[w]] # "none"
      BY <1>8 DEF AssetFails, DispatchInv, HeldExist, Exists
    <2> QED
      BY <1>8, <2>1, DispatchInvSettling DEF AssetFails
  <1>9. CASE ClaimAttempt(w)
    <2>1. CASE attempt[watt[w]] = "QUEUED"
      BY <1>9, <2>1, SwapKeepsDispatchInv DEF ClaimAttempt
    <2>2. CASE attempt[watt[w]] # "QUEUED"
      BY <1>9, <2>2 DEF ClaimAttempt
    <2> QED
      BY <2>1, <2>2
  <1>10. CASE Post(w)
    BY <1>10, PostKeepsDispatchInv
  <1>11. CASE Acknowledge(w)
    BY <1>11 DEF Acknowledge
  <1>12. CASE RecordError(w)
    <2>1. watt[w] \in Attempts /\ attempt[watt[w]] # "none"
      BY <1>12 DEF RecordError, DispatchInv, HeldExist, Exists
    <2>2. AttemptStateFor(DeliveryOutcome(wpc[w])) \in {"FAILED", "UNKNOWN"}
      BY DEF AttemptStateFor, DeliveryOutcome
    <2> QED
      BY <1>12, <2>1, <2>2, DispatchInvSettling DEF RecordError
  <1>13. CASE WorkerCrash(w)
    BY <1>13 DEF WorkerCrash
  <1>14. CASE AcknowledgeFails(w)
    BY <1>14 DEF AcknowledgeFails
  <1>15. CASE JobFails(w)
    BY <1>15 DEF JobFails
  <1> QED
    BY <1>1, <1>2, <1>3, <1>4, <1>5, <1>6, <1>7, <1>8, <1>9, <1>10, <1>11, <1>12,
       <1>13, <1>14, <1>15 DEF WorkerStep, Handles

\* BullMQ, the runner's execution and the environment touch no attempt.
LEMMA QueueKeepsDispatchInv ==
    ASSUME DispatchInv, QueueStep
    PROVE  DispatchInv'
  BY DispatchInvUntouched
  DEF QueueStep, Stall, LoseJob, RemoveOrphan, Elsewhere, candidateVars, intentVars,
      attemptVars, workerVars, sweepVars, adminVars, runVars

LEMMA EnvironmentKeepsDispatchInv ==
    ASSUME DispatchInv, ToggleTarget \/ RevokeCandidate
    PROVE  DispatchInv'
  BY DispatchInvUntouched
  DEF ToggleTarget, RevokeCandidate, intentVars, attemptVars, workerVars, sweepVars

\* A callback settles an attempt that exists.
LEMMA RunnerKeepsDispatchInv ==
    ASSUME DispatchInv, RunnerStep
    PROVE  DispatchInv'
  <1>1. PICK a \in Attempts : Execute(a) \/ Callback(a)
    BY DEF RunnerStep
  <1>2. CASE Execute(a)
    BY <1>2, DispatchInvUntouched DEF Execute, Outside, attemptVars, workerVars, sweepVars
  <1>3. CASE Callback(a)
    <2>1. AttemptStateFor(run[a]) \in {"SUCCEEDED", "FAILED", "UNKNOWN"}
      BY <1>3 DEF Callback, AttemptStateFor
    <2> QED
      BY <1>3, <2>1, DispatchInvSettling
      DEF Callback, Outside, workerVars, sweepVars
  <1> QED
    BY <1>1, <1>2, <1>3

\* The sweeps flag attempts that existed when they were read, and still do.
LEMMA SweepKeepsDispatchInv ==
    ASSUME DispatchInv, SweepStep
    PROVE  DispatchInv'
  <1> USE DEF Outside, candidateVars, intentVars, attemptVars, workerVars
  <1>1. ASSUME NEW i \in Intents, NEW origin, SweepReadDue(i, origin)  PROVE DispatchInv'
    BY <1>1, DispatchInvUntouched DEF SweepReadDue
  <1>2. ASSUME NEW d \in due, RecoverMissed(d)  PROVE DispatchInv'
    BY <1>2, DispatchInvUntouched DEF RecoverMissed
  <1>3. ASSUME NEW a \in Attempts, SweepReadStuck(a)  PROVE DispatchInv'
    <2>1. /\ UNCHANGED <<attempt, sends, wpc, watt, approvals>>
          /\ stuck' = stuck \union {a}
          /\ attempt[a] # "none"
      BY <1>3 DEF SweepReadStuck, STUCK
    <2>2. HeldExist'
      BY <2>1 DEF DispatchInv, HeldExist, Exists
    <2> QED
      BY <2>1, <2>2 DEF DispatchInv, DispatchTypes, ExistingApproved, Approved,
         UnsentUntilClaimed, OneSender, AboutToSend, AttemptSentOnce
  <1>4. ASSUME NEW a \in stuck, FlagStuck(a)  PROVE DispatchInv'
    <2>1. a \in Attempts /\ attempt[a] # "none"
      BY DEF DispatchInv, HeldExist, Exists
    <2> QED
      BY <1>4, <2>1, DispatchInvSettling DEF FlagStuck
  <1> QED
    BY <1>1, <1>2, <1>3, <1>4 DEF SweepStep

LEMMA AdminKeepsDispatchInv ==
    ASSUME DispatchInv, NEW d \in Admins, AdminStep(d)
    PROVE  DispatchInv'
  BY DispatchInvUntouched
  DEF AdminStep, BeginResolve, CommitResolve, Outside, attemptVars, workerVars, sweepVars

-----------------------------------------------------------------------------
(* The theorems *)

\* The dispatch invariant holds in every reachable state: each handler of the
\* worker, the callback and the sweep preserves it (dispatch.processor.ts).
THEOREM DispatchInvHolds == Spec => []DispatchInv
  <1>1. Init => DispatchInv
    BY DEF Init, DispatchInv, DispatchTypes, HeldExist, ExistingApproved,
       UnsentUntilClaimed, OneSender, AttemptSentOnce, AboutToSend, Holding,
       AttemptStates, WorkerPcs, NoAttempt
  <1>2. DispatchInv /\ [Next]_vars => DispatchInv'
    <2> SUFFICES ASSUME DispatchInv, [Next]_vars
                 PROVE  DispatchInv'
      OBVIOUS
    <2>1. ASSUME NEW o \in Owners, OwnerStep(o)  PROVE DispatchInv'
      BY <2>1, OwnerKeepsDispatchInv
    <2>2. ASSUME NEW w \in Workers, WorkerStep(w)  PROVE DispatchInv'
      BY <2>2, WorkerKeepsDispatchInv
    <2>3. CASE QueueStep
      BY <2>3, QueueKeepsDispatchInv
    <2>4. CASE RunnerStep
      BY <2>4, RunnerKeepsDispatchInv
    <2>5. CASE SweepStep
      BY <2>5, SweepKeepsDispatchInv
    <2>6. ASSUME NEW d \in Admins, AdminStep(d)  PROVE DispatchInv'
      BY <2>6, AdminKeepsDispatchInv
    <2>7. CASE ToggleTarget \/ RevokeCandidate
      BY <2>7, EnvironmentKeepsDispatchInv
    <2>8. CASE UNCHANGED vars
      BY <2>8, DispatchInvUntouched
      DEF vars, intentVars, attemptVars, workerVars, sweepVars
    <2> QED
      BY <2>1, <2>2, <2>3, <2>4, <2>5, <2>6, <2>7, <2>8 DEF Next
  <1> QED
    BY <1>1, <1>2, PTL DEF Spec

\* No attempt is ever posted twice to the runner, however often its job is
\* delivered and whichever worker dies or stalls (claimAttempt).
THEOREM EveryAttemptIsSentOnce == Spec => []AttemptSentOnce
  <1>1. DispatchInv => AttemptSentOnce
    BY DEF DispatchInv
  <1> QED
    BY <1>1, DispatchInvHolds, PTL

\* Nothing is ever sent for a version without an approval of that version
\* (check 3 of the revalidation, under every interleaving of the requests).
THEOREM OnlyApprovedIsSent == Spec => []SentWasApproved
  <1>1. DispatchInv => SentWasApproved
    BY DEF DispatchInv, DispatchTypes, SentWasApproved, UnsentUntilClaimed, ExistingApproved
  <1> QED
    BY <1>1, DispatchInvHolds, PTL

-----------------------------------------------------------------------------
(* The owner's requests *)

\* What no owner request writes.
LEMMA OwnerLeavesAlone ==
    ASSUME NEW o \in Owners, OwnerStep(o)
    PROVE  UNCHANGED <<candidateVars, attemptVars, workerVars, sweepVars, adminVars,
                       runVars, sends, stalled>>
  BY DEF OwnerStep, BeginCreate, BeginSchedule, BeginDecide, BeginCancel, BeginRetry,
     CommitCreate, CommitSchedule, CommitReschedule, CommitApprove, CommitReject,
     CommitCancel, CommitRetry, Abort, Enqueue, Prune, Reading, Writes, Decides, queueVars

\* A request that only reads, with what it remembers.
LEMMA ReadingKeepsTypes ==
    ASSUME TypeOK, Reading
    PROVE  TypeRows' /\ TypeQueue' /\ TypeHistory'
  BY DEF TypeOK, Reading, TypeRows, TypeQueue, TypeHistory, candidateVars, intentVars,
     queueVars, runVars

\* Recording a request, changing its step, or forgetting it.
LEMMA RequestKeepsTypes ==
    ASSUME TypeRequests, TypeRows, NEW o \in Owners,
           \/ request' = [request EXCEPT ![o] = Idle]
           \/ /\ request[o].op # "idle"
              /\ \E op \in OwnerOps \ {"schedule"} : request' = [request EXCEPT ![o].op = op]
           \/ \E i \in Intents, k \in Keys \union {NoKey}, op \in OwnerOps :
                 op # "schedule" /\ Asks(o, op, i, k)
    PROVE  TypeRequests'
  <1> USE BoundsAssumption DEF TypeRequests, Requests, OwnerOps
  <1>1. CASE request' = [request EXCEPT ![o] = Idle]
    BY <1>1 DEF Idle, IntentStates
  <1>2. ASSUME request[o].op # "idle",
               NEW op \in OwnerOps \ {"schedule"}, request' = [request EXCEPT ![o].op = op]
        PROVE  TypeRequests'
    BY <1>2
  <1>3. ASSUME NEW i \in Intents, NEW k \in Keys \union {NoKey}, NEW op \in OwnerOps,
               op # "schedule", Asks(o, op, i, k)
        PROVE  TypeRequests'
    <2>1. /\ version[i] \in 0..MaxVersion
          /\ status[i] \in IntentStates
          /\ plan[i] \in Plans \union {NoPlan}
      BY DEF TypeRows, Versions
    <2> DEFINE r == [op |-> op, intent |-> i, version |-> version[i],
                     status |-> status[i], plan |-> plan[i], key |-> k]
    <2>2. r \in Requests
      BY <2>1
    <2>3. r.op # "schedule" /\ r.intent \in Intents
      BY <1>3
    <2>4. request' = [request EXCEPT ![o] = r]
      BY <1>3 DEF Asks
    <2> HIDE DEF r
    <2> QED
      BY <2>2, <2>3, <2>4
  <1> QED
    BY <1>1, <1>2, <1>3

\* A write by id changes the status, and records whether it was blind.
LEMMA WritesKeepsTypes ==
    ASSUME TypeOK, NEW o \in Owners, NEW op \in OwnerOps \ {"idle"},
           NEW s \in IntentStates, Writes(o, op, s)
    PROVE  /\ request[o] \in Requests
           /\ request[o].op = op
           /\ request[o].intent \in Intents
           /\ status' \in [Intents -> IntentStates]
           /\ TypeQueue'
           /\ TypeHistory'
  BY DEF TypeOK, TypeRows, TypeQueue, TypeRequests, TypeHistory, Writes, Blind, queueVars,
     runVars, Requests

LEMMA OwnerKeepsTypes ==
    ASSUME TypeOK, NEW o \in Owners, OwnerStep(o)
    PROVE  TypeOK'
  <1> DEFINE Changed == TypeRows' /\ TypeQueue' /\ TypeRequests' /\ TypeHistory'
  <1> USE BoundsAssumption DEF TypeOK
  <1>1. TypeAttempts' /\ TypeWorkers' /\ TypeOthers'
    BY OwnerLeavesAlone
    DEF attemptVars, workerVars, sweepVars, adminVars, runVars, TypeAttempts, TypeWorkers,
        TypeOthers
  <1>2. UNCHANGED <<active, connected>>
    BY OwnerLeavesAlone DEF candidateVars
  <1>3. ASSUME NEW i \in Intents, BeginCreate(o, i)  PROVE Changed
    BY <1>3, ReadingKeepsTypes, RequestKeepsTypes DEF BeginCreate, OwnerOps
  <1>4. ASSUME NEW i \in Intents, NEW p \in Plans, BeginSchedule(o, i, p)  PROVE Changed
    <2>1. TypeRequests'
      BY <1>4 DEF BeginSchedule, TypeRequests, TypeRows, Requests, Versions, OwnerOps
    <2> QED
      BY <1>4, <2>1, ReadingKeepsTypes DEF BeginSchedule
  <1>5. ASSUME NEW i \in Intents, BeginDecide(o, i)  PROVE Changed
    BY <1>5, ReadingKeepsTypes, RequestKeepsTypes DEF BeginDecide, OwnerOps
  <1>6. ASSUME NEW i \in Intents, BeginCancel(o, i)  PROVE Changed
    BY <1>6, ReadingKeepsTypes, RequestKeepsTypes DEF BeginCancel, OwnerOps
  <1>7. ASSUME NEW i \in Intents, BeginRetry(o, i)  PROVE Changed
    <2>1. PICK a \in Attempts : Asks(o, "retry", i, <<o, SeqOf(a)>>)
      BY <1>7 DEF BeginRetry, HighestSeq, AttemptsOf
    <2>2. <<o, SeqOf(a)>> \in Keys
      BY <2>1 DEF Attempts, SeqOf, Keys, RetryKeys
    <2>3. TypeRequests'
      BY <2>1, <2>2, RequestKeepsTypes DEF OwnerOps
    <2> QED
      BY <1>7, <2>3, ReadingKeepsTypes DEF BeginRetry
  <1>8. ASSUME CommitCreate(o)  PROVE Changed
    <2>1. TypeRows' /\ TypeQueue' /\ TypeHistory'
      BY <1>2, <1>8, WritesKeepsTypes DEF CommitCreate, TypeRows, OwnerOps, IntentStates
    <2> QED
      BY <1>8, <2>1, RequestKeepsTypes DEF CommitCreate, Done
  <1>9. ASSUME CommitSchedule(o)  PROVE Changed
    <2>1. TypeQueue' /\ TypeHistory' /\ status' \in [Intents -> IntentStates]
          /\ request[o] \in Requests /\ request[o].op = "schedule"
      BY <1>9, WritesKeepsTypes DEF CommitSchedule, OwnerOps, IntentStates
    <2>2. request[o].version + 1 \in Versions
      BY <2>1 DEF TypeRequests, Requests, Versions
    <2>3. TypeRows'
      BY <1>2, <1>9, <2>1, <2>2 DEF CommitSchedule, TypeRows, Requests
    <2>4. TypeRequests'
      BY <1>9, <2>1, RequestKeepsTypes DEF CommitSchedule, Then, OwnerOps
    <2> QED
      BY <2>1, <2>3, <2>4
  <1>10. ASSUME CommitReschedule(o)  PROVE Changed
    <2>1. TypeQueue' /\ TypeHistory' /\ status' \in [Intents -> IntentStates]
          /\ request[o] \in Requests /\ request[o].op = "reschedule"
          /\ request[o].intent \in Intents
      BY <1>10, WritesKeepsTypes DEF CommitReschedule, OwnerOps, IntentStates
    <2>2. version[request[o].intent] + 1 \in Versions
      BY <1>10, <2>1 DEF CommitReschedule, TypeRows, Versions
    <2>3. version' \in [Intents -> Versions]
      BY <1>10, <2>1, <2>2 DEF CommitReschedule, TypeRows
    <2>4. TypeRows'
      BY <1>2, <1>10, <2>1, <2>3 DEF CommitReschedule, TypeRows, Requests
    <2>5. TypeRequests'
      BY <1>10, <2>1, RequestKeepsTypes DEF CommitReschedule, Then, OwnerOps
    <2> QED
      BY <2>1, <2>4, <2>5
  <1>11. ASSUME NEW op \in {"approve", "reject"}, NEW d \in Decisions,
                NEW s \in IntentStates, Decides(o, op, d, s)
         PROVE  TypeRows' /\ TypeQueue' /\ TypeHistory'
    <2>1. TypeQueue' /\ TypeHistory' /\ status' \in [Intents -> IntentStates]
          /\ request[o] \in Requests /\ request[o].intent \in Intents
      BY <1>11, WritesKeepsTypes DEF Decides, OwnerOps
    <2>2. <<request[o].intent, request[o].version, request[o].plan, d>>
             \in Intents \X (0..MaxVersion) \X (Plans \union {NoPlan}) \X Decisions
      BY <2>1 DEF Requests
    <2>3. approvals' = approvals \union
             {<<request[o].intent, request[o].version, request[o].plan, d>>}
      BY <1>11 DEF Decides
    <2>4. lastDecision' \in [Intents -> 0..MaxVersion]
      BY <1>11, <2>1 DEF Decides, TypeRows, Requests
    <2>5. UNCHANGED <<version, plan>>
      BY <1>11 DEF Decides
    <2>6. TypeRows'
      BY <1>2, <2>1, <2>2, <2>3, <2>4, <2>5 DEF TypeRows
    <2> QED
      BY <2>1, <2>6
  <1>12. ASSUME CommitApprove(o)  PROVE Changed
    <2>1. TypeRows' /\ TypeQueue' /\ TypeHistory'
      BY <1>11, <1>12 DEF CommitApprove, Decisions, IntentStates
    <2>2. request[o] \in Requests /\ request[o].intent \in Intents
      BY <1>12 DEF CommitApprove, Decides, Writes, TypeRequests
    <2>3. /\ version[request[o].intent] \in 0..MaxVersion
          /\ <<"approval", request[o].plan>> \in Keys
      BY <2>2 DEF TypeRows, Requests, Versions, Keys, ApprovalKeys
    <2>4. TypeRequests'
      BY <1>12, <2>2, <2>3 DEF CommitApprove, TypeRequests, Requests, OwnerOps
    <2> QED
      BY <2>1, <2>4
  <1>13. ASSUME CommitReject(o)  PROVE Changed
    BY <1>11, <1>13, RequestKeepsTypes DEF CommitReject, Done, Decisions, IntentStates
  <1>14. ASSUME CommitCancel(o)  PROVE Changed
    <2>1. TypeRows' /\ TypeQueue' /\ TypeHistory' /\ request[o].op = "cancel"
      BY <1>2, <1>14, WritesKeepsTypes DEF CommitCancel, TypeRows, OwnerOps, IntentStates
    <2> QED
      BY <1>14, <2>1, RequestKeepsTypes DEF CommitCancel, Then, OwnerOps
  <1>15. ASSUME CommitRetry(o)  PROVE Changed
    <2>1. TypeRows' /\ TypeQueue' /\ TypeHistory' /\ request[o].intent \in Intents
      BY <1>2, <1>15, WritesKeepsTypes DEF CommitRetry, TypeRows, OwnerOps, IntentStates
    <2>2. version[request[o].intent] \in 0..MaxVersion
      BY <2>1 DEF TypeRows, Versions
    <2>3. request[o] \in Requests
      BY DEF TypeRequests
    <2>4. TypeRequests'
      BY <1>15, <2>1, <2>2, <2>3 DEF CommitRetry, TypeRequests, Requests, OwnerOps
    <2> QED
      BY <2>1, <2>4
  <1>16. ASSUME Abort(o)  PROVE Changed
    BY <1>16, ReadingKeepsTypes, RequestKeepsTypes DEF Abort, Done
  <1>17. ASSUME Enqueue(o)  PROVE Changed
    <2>1. TypeQueue'
      BY <1>17 DEF Enqueue, AddJob, TypeQueue, TypeRequests, Requests
    <2> QED
      BY <1>2, <1>17, <2>1, RequestKeepsTypes
      DEF Enqueue, Done, intentVars, runVars, TypeRows, TypeHistory
  <1>18. ASSUME Prune(o)  PROVE Changed
    <2>1. TypeQueue'
      BY <1>18 DEF Prune, TypeQueue
    <2> QED
      BY <1>2, <1>18, <2>1, RequestKeepsTypes
      DEF Prune, Done, intentVars, runVars, TypeRows, TypeHistory
  <1>19. Changed
    BY <1>3, <1>4, <1>5, <1>6, <1>7, <1>8, <1>9, <1>10, <1>12, <1>13, <1>14, <1>15,
       <1>16, <1>17, <1>18 DEF OwnerStep
  <1> QED
    BY <1>1, <1>19

-----------------------------------------------------------------------------
(* The dispatch worker *)

\* A predicated transition writes an intent state or nothing.
LEMMA PredicatedStatusIsTyped ==
    ASSUME TypeRows, NEW i, NEW v, NEW s \in IntentStates, PredicatedStatus(i, v, s)
    PROVE  status' \in [Intents -> IntentStates]
  BY DEF TypeRows, PredicatedStatus

\* Finishing a job frees the worker; moving on keeps its job.
LEMMA FinishKeepsTypes ==
    ASSUME TypeOK, NEW w \in Workers, Finish(w)
    PROVE  TypeQueue' /\ TypeWorkers'
  BY DEF TypeOK, TypeQueue, TypeWorkers, Finish, WorkerPcs

LEMMA MovesKeepsTypes ==
    ASSUME TypeOK, NEW w \in Workers, wpc[w] # "idle", NEW pc \in WorkerPcs, Moves(w, pc)
    PROVE  TypeQueue' /\ TypeWorkers'
  BY DEF TypeOK, TypeQueue, TypeWorkers, Moves, queueVars

LEMMA WorkerKeepsTypes ==
    ASSUME TypeOK, DispatchInv, NEW w \in Workers, WorkerStep(w)
    PROVE  TypeOK'
  <1> DEFINE a == watt[w]
             j == wjob[w]
             Statuses == status' \in [Intents -> IntentStates]
             Workload == TypeQueue' /\ TypeWorkers'
             Sent == TypeAttempts' /\ run' \in [Attempts -> RunStates] /\ TypeHistory'
             Changed == Statuses /\ Workload /\ Sent
  <1> USE FinishKeepsTypes, MovesKeepsTypes, PredicatedStatusIsTyped
  <1> USE DEF TypeOK
  <1>1. Elsewhere /\ UNCHANGED <<active, connected>>
    BY DEF WorkerStep, Handles, Take, SyncFails, RecordedNoOp, Refuse, ClaimIntent,
       RecoverQueued, MarkIntentFailed, AssetFails, ClaimAttempt, Post, Acknowledge,
       RecordError, AcknowledgeFails, JobFails, WorkerCrash, Elsewhere, candidateVars
  <1>2. wpc[w] # "idle" => j \in JobIds /\ IntentOf(j) \in Intents
    BY DEF TypeWorkers, JobIds, IntentOf
  <1>3. wpc[w] \in Holding => a \in Attempts /\ IntentOf(a) \in Intents
    BY DEF DispatchInv, HeldExist, Exists, Attempts, IntentOf
  <1>4. ASSUME UNCHANGED <<attemptVars, runVars, sends, blind>>  PROVE Sent
    BY <1>4 DEF attemptVars, runVars, TypeAttempts, TypeOthers, TypeHistory
  <1>5. ASSUME UNCHANGED status  PROVE Statuses
    BY <1>5 DEF TypeRows
  <1>6. ASSUME NEW k \in JobIds, Take(w, k)  PROVE Changed
    <2>1. Workload
      BY <1>6 DEF Take, TypeQueue, TypeWorkers, WorkerPcs
    <2> QED
      BY <1>4, <1>5, <1>6, <2>1 DEF Take
  <1>7. ASSUME SyncFails(w)  PROVE Changed
    BY <1>4, <1>5, <1>7 DEF SyncFails, WorkerPcs
  <1>8. ASSUME RecordedNoOp(w)  PROVE Changed
    BY <1>4, <1>5, <1>8 DEF RecordedNoOp
  <1>9. ASSUME Refuse(w)  PROVE Changed
    BY <1>4, <1>5, <1>9 DEF Refuse, WorkerPcs
  <1>10. ASSUME ClaimIntent(w)  PROVE Changed
    <2>1. j \in JobIds /\ IntentOf(j) \in Intents
      BY <1>2, <1>10 DEF ClaimIntent
    <2>2. /\ jobKey[j] \in Keys \union {NoKey}
          /\ plan[IntentOf(j)] \in Plans \union {NoPlan}
      BY <2>1 DEF TypeQueue, TypeRows
    <2>3. PICK b \in Attempts :
             /\ attempt' = [attempt EXCEPT ![b] = "QUEUED"]
             /\ keyOf' = [keyOf EXCEPT ![b] = jobKey[j]]
             /\ body' = [body EXCEPT ![b] = plan[IntentOf(j)]]
             /\ watt' = [watt EXCEPT ![w] = b]
      BY <1>10, NextAttemptIsNew DEF ClaimIntent
    <2>4. Sent
      BY <1>10, <2>2, <2>3
      DEF ClaimIntent, TypeAttempts, AttemptStates, runVars, TypeOthers, TypeHistory
    <2>5. Workload
      BY <1>10, <2>1, <2>3 DEF ClaimIntent, TypeWorkers, WorkerPcs, queueVars, TypeQueue
    <2>6. Statuses
      BY <1>10 DEF ClaimIntent, TypeRows, IntentStates
    <2> QED
      BY <2>4, <2>5, <2>6
  <1>11. ASSUME RecoverQueued(w)  PROVE Changed
    <2>1. j \in JobIds /\ plan[IntentOf(j)] \in Plans \union {NoPlan}
      BY <1>2, <1>11 DEF RecoverQueued, TypeRows
    <2>2. PICK b \in Attempts : /\ body' = [body EXCEPT ![b] = plan[IntentOf(j)]]
                               /\ watt' = [watt EXCEPT ![w] = b]
      BY <1>11 DEF RecoverQueued, ByKey, VersionAttempts, AttemptsOf
    <2>3. Sent
      BY <1>11, <2>1, <2>2
      DEF RecoverQueued, TypeAttempts, runVars, TypeOthers, TypeHistory
    <2>4. Workload
      BY <1>11, <2>1, <2>2 DEF RecoverQueued, TypeWorkers, WorkerPcs, queueVars, TypeQueue
    <2> QED
      BY <1>5, <1>11, <2>3, <2>4 DEF RecoverQueued
  <1>12. ASSUME MarkIntentFailed(w)  PROVE Changed
    <2>1. Statuses
      BY <1>5, <1>12 DEF MarkIntentFailed, IntentStates
    <2> QED
      BY <1>4, <1>12, <2>1 DEF MarkIntentFailed
  <1>13. ASSUME AssetFails(w)  PROVE Changed
    <2>1. Statuses
      BY <1>13 DEF AssetFails, IntentStates
    <2>2. Sent
      BY <1>3, <1>13
      DEF AssetFails, Holding, TypeAttempts, AttemptStates, runVars, TypeOthers, TypeHistory
    <2> QED
      BY <1>13, <2>1, <2>2 DEF AssetFails
  <1>14. ASSUME ClaimAttempt(w)  PROVE Changed
    <2>1. Sent
      BY <1>14 DEF ClaimAttempt, TypeAttempts, AttemptStates, runVars, TypeOthers, TypeHistory
    <2>2. Workload
      BY <1>14 DEF ClaimAttempt, WorkerPcs
    <2> QED
      BY <1>5, <1>14, <2>1, <2>2 DEF ClaimAttempt
  <1>15. ASSUME Post(w)  PROVE Changed
    <2>1. a \in Attempts
      BY <1>3, <1>15 DEF Post, Holding
    <2>2. sends' \in [Attempts -> Nat] /\ run' \in [Attempts -> RunStates]
      BY <1>15, <2>1 DEF Post, TypeHistory, TypeOthers, RunStates
    <2>3. Sent
      BY <1>15, <2>2 DEF Post, attemptVars, TypeAttempts, TypeHistory
    <2>4. Workload
      BY <1>15 DEF Post, WorkerPcs
    <2> QED
      BY <1>5, <1>15, <2>3, <2>4 DEF Post
  <1>16. ASSUME Acknowledge(w)  PROVE Changed
    <2>1. Statuses
      BY <1>16 DEF Acknowledge, IntentStates
    <2>2. blind' \subseteq Intents
      BY <1>3, <1>16 DEF Acknowledge, Holding, TypeHistory
    <2>3. Sent
      BY <1>16, <2>2 DEF Acknowledge, attemptVars, runVars, TypeAttempts, TypeOthers, TypeHistory
    <2> QED
      BY <1>16, <2>1, <2>3 DEF Acknowledge
  <1>17. ASSUME RecordError(w)  PROVE Changed
    <2>1. PICK o \in {"FAILED", "UNKNOWN"} : o = DeliveryOutcome(wpc[w])
      BY DEF DeliveryOutcome
    <2>2. /\ AttemptStateFor(o) \in AttemptStates
          /\ IntentStateFor(o) \in IntentStates
          /\ o \in Outcomes
      BY DEF AttemptStateFor, IntentStateFor, AttemptStates, IntentStates, Outcomes
    <2>3. Statuses
      BY <1>17, <2>1, <2>2 DEF RecordError
    <2>4. TypeAttempts'
      BY <1>17, <2>1, <2>2 DEF RecordError, RecordOnce, TypeAttempts
    <2>5. run' \in [Attempts -> RunStates] /\ TypeHistory'
      BY <1>3, <1>17 DEF RecordError, Holding, runVars, TypeOthers, TypeHistory
    <2> QED
      BY <1>17, <2>3, <2>4, <2>5 DEF RecordError
  <1>18. ASSUME WorkerCrash(w)  PROVE Changed
    <2>1. Workload
      BY <1>18 DEF WorkerCrash, TypeWorkers, TypeQueue, WorkerPcs, queueVars
    <2> QED
      BY <1>4, <1>5, <1>18, <2>1 DEF WorkerCrash
  <1>19. ASSUME AcknowledgeFails(w)  PROVE Changed
    <2>1. a \in Attempts
      BY <1>3, <1>19 DEF AcknowledgeFails, Holding
    <2>2. Sent
      BY <1>19, <2>1
      DEF AcknowledgeFails, attemptVars, TypeAttempts, TypeOthers, TypeHistory
    <2> QED
      BY <1>5, <1>19, <2>2 DEF AcknowledgeFails, WorkerPcs
  <1>20. ASSUME JobFails(w)  PROVE Changed
    BY <1>4, <1>5, <1>20 DEF JobFails
  <1>21. Changed
    BY <1>6, <1>7, <1>8, <1>9, <1>10, <1>11, <1>12, <1>13, <1>14, <1>15, <1>16, <1>17,
       <1>18, <1>19, <1>20 DEF WorkerStep, Handles
  <1>22. TypeRows' /\ TypeRequests' /\ TypeOthers'
    BY <1>1, <1>21 DEF Elsewhere, TypeRows, TypeRequests, TypeOthers, sweepVars, adminVars
  <1> QED
    BY <1>21, <1>22

-----------------------------------------------------------------------------
(* The queue, the runner, the sweeps, the admin and the environment *)

LEMMA AddJobKeepsTypes ==
    ASSUME TypeQueue, NEW j, NEW k \in Keys, AddJob(j, k), UNCHANGED stalled
    PROVE  TypeQueue'
  BY DEF TypeQueue, AddJob

LEMMA QueueKeepsTypes ==
    ASSUME TypeOK, QueueStep
    PROVE  TypeOK'
  <1> USE DEF TypeOK
  <1>1. PICK j \in JobIds : Stall(j) \/ LoseJob(j) \/ RemoveOrphan(j)
    BY DEF QueueStep
  <1>2. TypeQueue'
    BY <1>1 DEF Stall, LoseJob, RemoveOrphan, TypeQueue
  <1>3. UNCHANGED <<candidateVars, intentVars, attemptVars, workerVars, sweepVars,
                    adminVars, runVars, request, sends, blind>>
    BY <1>1 DEF Stall, LoseJob, RemoveOrphan, Elsewhere, intentVars
  <1> QED
    BY <1>2, <1>3
    DEF candidateVars, intentVars, attemptVars, workerVars, sweepVars, adminVars, runVars,
        TypeRows, TypeAttempts, TypeRequests, TypeWorkers, TypeOthers, TypeHistory

\* What the steps outside the owner, the queue and the worker leave typed.
LEMMA OutsideKeepsTypes ==
    ASSUME TypeOK, Outside, status' \in [Intents -> IntentStates]
    PROVE  TypeRows' /\ TypeQueue' /\ TypeRequests' /\ TypeWorkers'
  BY DEF TypeOK, Outside, candidateVars, queueVars, workerVars, TypeRows, TypeQueue,
     TypeRequests, TypeWorkers

LEMMA RunnerKeepsTypes ==
    ASSUME TypeOK, RunnerStep
    PROVE  TypeOK'
  <1> USE OutsideKeepsTypes DEF TypeOK
  <1>1. PICK a \in Attempts : Execute(a) \/ Callback(a)
    BY DEF RunnerStep
  <1>2. CASE Execute(a)
    <2>1. /\ run' \in [Attempts -> RunStates]
          /\ posts' \in [Attempts -> Nat]
      BY <1>2 DEF Execute, TypeOthers, TypeHistory, RunStates
    <2>2. UNCHANGED <<status, attemptVars, unacked, sweepVars, adminVars, blind, sends>>
          /\ Outside
      BY <1>2 DEF Execute, Outside
    <2> QED
      BY <2>1, <2>2
      DEF attemptVars, sweepVars, adminVars, TypeRows, TypeAttempts, TypeOthers, TypeHistory
  <1>3. CASE Callback(a)
    <2>1. PICK o \in {"PUBLISHED", "FAILED", "UNKNOWN"} : o = run[a]
      BY <1>3 DEF Callback
    <2>2. /\ AttemptStateFor(o) \in AttemptStates
          /\ IntentStateFor(o) \in IntentStates
          /\ o \in Outcomes
      BY DEF AttemptStateFor, IntentStateFor, AttemptStates, IntentStates, Outcomes
    <2>3. TypeAttempts' /\ status' \in [Intents -> IntentStates]
      BY <1>3, <2>1, <2>2 DEF Callback, TypeAttempts, TypeRows
    <2>4. UNCHANGED <<runVars, sweepVars, adminVars, blind, sends>> /\ Outside
      BY <1>3 DEF Callback, Outside
    <2> QED
      BY <2>3, <2>4 DEF runVars, sweepVars, adminVars, TypeOthers, TypeHistory
  <1> QED
    BY <1>1, <1>2, <1>3

LEMMA SweepKeepsTypes ==
    ASSUME TypeOK, SweepStep
    PROVE  TypeOK'
  <1> USE OutsideKeepsTypes DEF TypeOK
  <1>1. ASSUME NEW i \in Intents, NEW origin \in {"recover", "resync"}, SweepReadDue(i, origin)
        PROVE  TypeOK'
    <2>1. due' \subseteq Intents \X Versions \X {"recover", "resync"}
      BY <1>1 DEF SweepReadDue, TypeOthers, TypeRows
    <2>2. UNCHANGED <<stuck, status, attemptVars, adminVars, runVars, blind, sends>> /\ Outside
      BY <1>1 DEF SweepReadDue, Outside
    <2> QED
      BY <2>1, <2>2
      DEF attemptVars, adminVars, runVars, TypeRows, TypeAttempts, TypeOthers, TypeHistory
  <1>2. ASSUME NEW d \in due, RecoverMissed(d)
        PROVE  TypeOK'
    <2>1. TypeQueue'
      BY <1>2, AddJobKeepsTypes DEF RecoverMissed, Keys, TypeQueue
    <2>2. due' \subseteq due
      BY <1>2 DEF RecoverMissed
    <2>3. UNCHANGED <<candidateVars, intentVars, attemptVars, workerVars, stuck,
                      adminVars, runVars, request, sends, blind>>
      BY <1>2 DEF RecoverMissed
    <2> QED
      BY <2>1, <2>2, <2>3
      DEF candidateVars, intentVars, attemptVars, workerVars, adminVars, runVars, TypeRows,
          TypeAttempts, TypeRequests, TypeWorkers, TypeOthers, TypeHistory
  <1>3. ASSUME NEW a \in Attempts, SweepReadStuck(a)
        PROVE  TypeOK'
    <2>1. stuck' \subseteq Attempts
      BY <1>3 DEF SweepReadStuck, TypeOthers
    <2>2. UNCHANGED <<due, status, attemptVars, adminVars, runVars, blind, sends>> /\ Outside
      BY <1>3 DEF SweepReadStuck, Outside
    <2> QED
      BY <2>1, <2>2
      DEF attemptVars, adminVars, runVars, TypeRows, TypeAttempts, TypeOthers, TypeHistory
  <1>4. ASSUME NEW a \in stuck, FlagStuck(a)
        PROVE  TypeOK'
    <2>1. a \in Attempts /\ IntentOf(a) \in Intents
      BY DEF TypeOthers, Attempts, IntentOf
    <2>2. TypeAttempts' /\ status' \in [Intents -> IntentStates]
      BY <1>4 DEF FlagStuck, RecordOnce, TypeAttempts, TypeRows, AttemptStates, Outcomes,
         IntentStates
    <2>3. stuck' \subseteq Attempts /\ blind' \subseteq Intents
      BY <1>4, <2>1 DEF FlagStuck, TypeOthers, TypeHistory
    <2>4. UNCHANGED <<due, adminVars, runVars, sends>> /\ Outside
      BY <1>4 DEF FlagStuck, Outside
    <2> QED
      BY <2>2, <2>3, <2>4 DEF adminVars, runVars, TypeOthers, TypeHistory
  <1> QED
    BY <1>1, <1>2, <1>3, <1>4 DEF SweepStep

LEMMA AdminKeepsTypes ==
    ASSUME TypeOK, NEW d \in Admins, AdminStep(d)
    PROVE  TypeOK'
  <1> USE OutsideKeepsTypes DEF TypeOK
  <1>1. ASSUME NEW a \in Attempts, BeginResolve(d, a)  PROVE TypeOK'
    <2>1. resolving' \in [Admins -> Attempts \union {NoAttempt}]
      BY <1>1 DEF BeginResolve, TypeOthers
    <2>2. UNCHANGED <<adminSettled, status, attemptVars, sweepVars, runVars, blind, sends>>
          /\ Outside
      BY <1>1 DEF BeginResolve, Outside
    <2> QED
      BY <2>1, <2>2
      DEF attemptVars, sweepVars, runVars, TypeRows, TypeAttempts, TypeOthers, TypeHistory
  <1>2. CASE CommitResolve(d)
    <2>1. resolving[d] \in Attempts /\ IntentOf(resolving[d]) \in Intents
      BY <1>2 DEF CommitResolve, TypeOthers, Attempts, IntentOf
    <2>2. PICK o \in {"PUBLISHED", "FAILED"} :
             /\ result' = [result EXCEPT ![resolving[d]] = o]
             /\ status' = IF status[IntentOf(resolving[d])] = "ACTION_REQUIRED"
                          THEN [status EXCEPT ![IntentOf(resolving[d])] = IntentStateFor(o)]
                          ELSE status
      BY <1>2 DEF CommitResolve
    <2>3. IntentStateFor(o) \in IntentStates /\ o \in Outcomes
      BY DEF IntentStateFor, IntentStates, Outcomes
    <2>4. TypeAttempts' /\ status' \in [Intents -> IntentStates]
      BY <1>2, <2>2, <2>3 DEF CommitResolve, TypeAttempts, TypeRows
    <2>5. /\ resolving' \in [Admins -> Attempts \union {NoAttempt}]
          /\ adminSettled' \subseteq Attempts
          /\ blind' \subseteq Intents
      BY <1>2, <2>1 DEF CommitResolve, TypeOthers, TypeHistory
    <2>6. UNCHANGED <<sweepVars, runVars, sends>> /\ Outside
      BY <1>2 DEF CommitResolve, Outside
    <2> QED
      BY <2>4, <2>5, <2>6 DEF sweepVars, runVars, TypeOthers, TypeHistory
  <1> QED
    BY <1>1, <1>2 DEF AdminStep

LEMMA EnvironmentKeepsTypes ==
    ASSUME TypeOK, ToggleTarget \/ RevokeCandidate
    PROVE  TypeOK'
  <1> USE DEF TypeOK
  <1>1. TypeRows'
    BY DEF ToggleTarget, RevokeCandidate, intentVars, TypeRows, IntentStates
  <1>2. UNCHANGED <<attemptVars, queueVars, workerVars, sweepVars, adminVars, runVars,
                    request, sends, blind>>
    BY DEF ToggleTarget, RevokeCandidate
  <1> QED
    BY <1>1, <1>2
    DEF attemptVars, queueVars, workerVars, sweepVars, adminVars, runVars, TypeAttempts,
        TypeQueue, TypeRequests, TypeWorkers, TypeOthers, TypeHistory

-----------------------------------------------------------------------------
(* The theorem *)

\* Every reachable row, job and process is in a state the schema and the code
\* allow, whatever the constants.
THEOREM TypeCorrect == Spec => []TypeOK
  <1>1. Init => TypeOK
    <2> SUFFICES ASSUME Init PROVE TypeOK
      OBVIOUS
    <2> USE BoundsAssumption DEF Init
    <2>1. TypeRows
      BY DEF TypeRows, IntentStates, Versions
    <2>2. TypeAttempts
      BY DEF TypeAttempts, AttemptStates, Outcomes
    <2>3. TypeQueue
      BY DEF TypeQueue
    <2>4. TypeRequests
      BY DEF TypeRequests, Requests, Idle, OwnerOps, IntentStates
    <2>5. TypeWorkers
      BY DEF TypeWorkers, WorkerPcs
    <2>6. TypeOthers /\ TypeHistory
      BY DEF TypeOthers, TypeHistory, RunStates
    <2> QED
      BY <2>1, <2>2, <2>3, <2>4, <2>5, <2>6 DEF TypeOK
  <1>2. TypeOK /\ DispatchInv /\ [Next]_vars => TypeOK'
    <2> SUFFICES ASSUME TypeOK, DispatchInv, [Next]_vars
                 PROVE  TypeOK'
      OBVIOUS
    <2>1. ASSUME NEW o \in Owners, OwnerStep(o)  PROVE TypeOK'
      BY <2>1, OwnerKeepsTypes
    <2>2. ASSUME NEW w \in Workers, WorkerStep(w)  PROVE TypeOK'
      BY <2>2, WorkerKeepsTypes
    <2>3. CASE QueueStep
      BY <2>3, QueueKeepsTypes
    <2>4. CASE RunnerStep
      BY <2>4, RunnerKeepsTypes
    <2>5. CASE SweepStep
      BY <2>5, SweepKeepsTypes
    <2>6. ASSUME NEW d \in Admins, AdminStep(d)  PROVE TypeOK'
      BY <2>6, AdminKeepsTypes
    <2>7. CASE ToggleTarget \/ RevokeCandidate
      BY <2>7, EnvironmentKeepsTypes
    <2>8. CASE UNCHANGED vars
      BY <2>8
      DEF vars, candidateVars, intentVars, attemptVars, queueVars, workerVars, sweepVars,
          adminVars, runVars, TypeOK, TypeRows, TypeAttempts, TypeQueue, TypeRequests,
          TypeWorkers, TypeOthers, TypeHistory
    <2> QED
      BY <2>1, <2>2, <2>3, <2>4, <2>5, <2>6, <2>7, <2>8 DEF Next
  <1> QED
    BY <1>1, <1>2, DispatchInvHolds, PTL DEF Spec
=============================================================================
