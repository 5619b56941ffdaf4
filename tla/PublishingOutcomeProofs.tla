---------------------- MODULE PublishingOutcomeProofs -----------------------
(***************************************************************************)
(* What is recorded of an attempt is what happened to it, and stays so;    *)
(* and the lifecycle implements the dispatch of PublicationDispatch: every *)
(* step is a step of one attempt there, or none.  For all constants.       *)
(***************************************************************************)
EXTENDS PublishingProofs

Recorded == {"UNKNOWN", "PUBLISHED", "FAILED"}

\* An execution exists only for an attempt that was sent, and makes one post.
PostsFollowRuns ==
    \A a \in Attempts :
        /\ run[a] # "none" => sends[a] > 0
        /\ run[a] \in {"none", "accepted", "FAILED"} => posts[a] = 0
        /\ run[a] = "PUBLISHED" => posts[a] = 1
        /\ posts[a] <= 1

\* A worker past the call has sent; one that holds a failure started no execution,
\* unless it is the acknowledgement that failed.
CallersHaveSent ==
    \A w \in Workers :
        /\ wpc[w] \in {"ack", "ambiguous", "rejected"} => sends[watt[w]] > 0
        /\ wpc[w] = "rejected" => run[watt[w]] = "none" \/ watt[w] \in unacked

\* A failure that no admin wrote is one of an attempt that was sent.
FailuresWereSent ==
    \A a \in Attempts \ adminSettled : result[a] = "FAILED" => sends[a] > 0

\* What an admin read as UNKNOWN still is, unless an admin has settled it.
ResolvedWereUnknown ==
    /\ \A d \in Admins : resolving[d] # NoAttempt =>
            result[resolving[d]] = "UNKNOWN" \/ resolving[d] \in adminSettled
    /\ \A a \in adminSettled : result[a] # "none"

OutcomeInv ==
    /\ PostsFollowRuns
    /\ CallersHaveSent
    /\ FailuresWereSent
    /\ ResultsAreTruthfulUnlessUnacked
    /\ ResolvedWereUnknown

\* No worker comes past the call, and those that are stay with their attempt.
NobodyCalls ==
    \A w \in Workers : wpc'[w] \in {"ack", "ambiguous", "rejected"} =>
        wpc'[w] = wpc[w] /\ watt'[w] = watt[w]

-----------------------------------------------------------------------------
(* What the steps do to the outcomes *)

\* A step that touches neither executions nor results preserves the invariant.
LEMMA OutcomeUntouched ==
    ASSUME OutcomeInv, NobodyCalls,
           UNCHANGED <<run, posts, unacked, sends, result, adminSettled, resolving>>
    PROVE  OutcomeInv'
  <1>1. CallersHaveSent'
    BY DEF OutcomeInv, CallersHaveSent, NobodyCalls
  <1>2. PostsFollowRuns' /\ FailuresWereSent'
     /\ ResultsAreTruthfulUnlessUnacked' /\ ResolvedWereUnknown'
    BY DEF OutcomeInv, PostsFollowRuns, FailuresWereSent, ResultsAreTruthfulUnlessUnacked,
       ResolvedWereUnknown
  <1>. QED  BY <1>1, <1>2 DEF OutcomeInv

\* Recording the truth about an attempt, if nothing is recorded yet, does too.
LEMMA OutcomeRecorded ==
    ASSUME TypeAttempts, OutcomeInv, NobodyCalls,
           UNCHANGED <<run, posts, unacked, sends, adminSettled, resolving>>,
           NEW x \in Attempts, NEW o \in Recorded,
           result' = [result EXCEPT ![x] = IF @ = "none" THEN o ELSE @],
           o = "FAILED" => sends[x] > 0,
           o = "FAILED" => x \in unacked \/ (posts[x] = 0 /\ run[x] # "accepted"),
           o = "PUBLISHED" => posts[x] = 1
    PROVE  OutcomeInv'
  <1>1. \A a \in Attempts :
           result'[a] = result[a] \/ (a = x /\ result[a] = "none" /\ result'[a] = o)
    BY DEF TypeAttempts
  <1>2. CallersHaveSent'
    BY DEF OutcomeInv, CallersHaveSent, NobodyCalls
  <1>3. PostsFollowRuns'
    BY DEF OutcomeInv, PostsFollowRuns
  <1>4. FailuresWereSent' /\ ResultsAreTruthfulUnlessUnacked'
    BY <1>1 DEF OutcomeInv, FailuresWereSent, ResultsAreTruthfulUnlessUnacked
  <1>5. ResolvedWereUnknown'
    BY <1>1 DEF OutcomeInv, ResolvedWereUnknown, TypeAttempts
  <1>. QED  BY <1>2, <1>3, <1>4, <1>5 DEF OutcomeInv

\* What the worker steps that neither post nor record leave alone.
Quiet(w) ==
    /\ UNCHANGED <<result, run, posts, unacked, sends, adminSettled, resolving>>
    /\ NobodyCalls

LEMMA QuietWorker ==
    ASSUME TypeOK, NEW w \in Workers, NEW pc \in WorkerPcs \ {"ack", "ambiguous", "rejected"},
           UNCHANGED <<result, run, posts, unacked, sends, adminSettled, resolving>>,
           wpc' = [wpc EXCEPT ![w] = pc],
           watt' = watt \/ \E a : watt' = [watt EXCEPT ![w] = a]
    PROVE  Quiet(w)
  BY DEF Quiet, NobodyCalls, TypeOK, TypeWorkers

\* The worker's steps around the call.
LEMMA WorkerIsQuiet ==
    ASSUME TypeOK, NEW w \in Workers, WorkerStep(w), ~Post(w), ~RecordError(w),
           ~AcknowledgeFails(w)
    PROVE  Quiet(w)
  <1>. USE QuietWorker
  <1>. USE DEF WorkerPcs, Moves, Finish, attemptVars, runVars, adminVars, Elsewhere
  <1>1. ASSUME NEW j \in JobIds, Take(w, j)  PROVE Quiet(w)
    BY <1>1 DEF Take
  <1>2. CASE SyncFails(w)
    BY <1>2 DEF SyncFails
  <1>3. CASE RecordedNoOp(w)
    BY <1>3 DEF RecordedNoOp
  <1>4. CASE Refuse(w)
    BY <1>4 DEF Refuse
  <1>5. CASE ClaimIntent(w)
    BY <1>5 DEF ClaimIntent
  <1>6. CASE RecoverQueued(w)
    BY <1>6 DEF RecoverQueued
  <1>7. CASE MarkIntentFailed(w)
    BY <1>7 DEF MarkIntentFailed
  <1>8. CASE AssetFails(w)
    BY <1>8 DEF AssetFails
  <1>9. CASE ClaimAttempt(w)
    BY <1>9 DEF ClaimAttempt
  <1>10. CASE Acknowledge(w)
    BY <1>10 DEF Acknowledge
  <1>11. CASE WorkerCrash(w)
    BY <1>11 DEF WorkerCrash
  <1>12. CASE JobFails(w)
    BY <1>12 DEF JobFails
  <1>. QED
    BY <1>1, <1>2, <1>3, <1>4, <1>5, <1>6, <1>7, <1>8, <1>9, <1>10, <1>11, <1>12
    DEF WorkerStep, Handles

\* A failed acknowledgement is remembered with its attempt, which was sent.
LEMMA AcknowledgeFailsKeepsOutcomes ==
    ASSUME TypeOK, OutcomeInv, NEW w \in Workers, AcknowledgeFails(w)
    PROVE  OutcomeInv'
  <1>1. /\ wpc[w] = "ack" /\ wpc' = [wpc EXCEPT ![w] = "rejected"]
        /\ unacked' = unacked \union {watt[w]}
        /\ UNCHANGED <<run, posts, sends, result, adminSettled, resolving, watt>>
    BY DEF AcknowledgeFails, Moves, attemptVars, adminVars, Elsewhere
  <1>2. \A x \in Workers : wpc'[x] = IF x = w THEN "rejected" ELSE wpc[x]
    BY <1>1 DEF TypeOK, TypeWorkers
  <1>3. CallersHaveSent'
    BY <1>1, <1>2 DEF OutcomeInv, CallersHaveSent
  <1>4. PostsFollowRuns' /\ FailuresWereSent' /\ ResolvedWereUnknown'
    BY <1>1 DEF OutcomeInv, PostsFollowRuns, FailuresWereSent, ResolvedWereUnknown
  <1>5. ResultsAreTruthfulUnlessUnacked'
    BY <1>1 DEF OutcomeInv, ResultsAreTruthfulUnlessUnacked
  <1>. QED  BY <1>3, <1>4, <1>5 DEF OutcomeInv

\* The call is made for an attempt that was never sent: it has no execution.
LEMMA PostKeepsOutcomes ==
    ASSUME TypeOK, DispatchInv, OutcomeInv, NEW w \in Workers, Post(w)
    PROVE  OutcomeInv'
  <1>. DEFINE a == watt[w]
  <1>0. wpc[w] = "send" /\ sends' = [sends EXCEPT ![a] = @ + 1]
    BY DEF Post
  <1>1. /\ a \in Attempts /\ sends[a] = 0 /\ sends' = [sends EXCEPT ![a] = 1]
        /\ UNCHANGED <<posts, unacked, result, adminSettled, resolving, watt>>
    <2>1. a \in Attempts
      BY <1>0 DEF DispatchInv, HeldExist, Holding, Exists
    <2>2. sends[a] = 0
      BY <1>0, <2>1 DEF DispatchInv, OneSender, AboutToSend
    <2>3. UNCHANGED <<posts, unacked, result, adminSettled, resolving, watt>>
      BY DEF Post, Moves, attemptVars, adminVars, Elsewhere
    <2>. QED  BY <1>0, <2>1, <2>2, <2>3
  <1>2. /\ run' = run \/ (run' = [run EXCEPT ![a] = "accepted"] /\ wpc'[w] # "rejected")
        /\ \A x \in Workers : x # w => wpc'[x] = wpc[x]
    BY DEF Post, Moves, TypeOK, TypeWorkers
  <1>3. /\ \A b \in Attempts : sends'[b] = IF b = a THEN 1 ELSE sends[b]
        /\ \A b \in Attempts : b # a => run'[b] = run[b]
        /\ run'[a] \in {run[a], "accepted"}
        /\ wpc'[w] = "rejected" => run' = run
    BY <1>1, <1>2 DEF TypeOK, TypeHistory, TypeOthers
  <1>4. run[a] = "none" /\ posts[a] = 0
    BY <1>1 DEF OutcomeInv, PostsFollowRuns, TypeOK, TypeHistory
  <1>. HIDE DEF a
  <1>5. PostsFollowRuns'
    BY <1>1, <1>3, <1>4 DEF OutcomeInv, PostsFollowRuns
  <1>6. CallersHaveSent'
    <2>1. ASSUME NEW x \in Workers, x # w, wpc[x] \in {"ack", "ambiguous", "rejected"}
          PROVE  watt[x] \in Attempts /\ watt[x] # a
      BY <1>1, <2>1 DEF OutcomeInv, CallersHaveSent, DispatchInv, HeldExist, Holding, Exists
    <2>2. \A x \in Workers : x # w /\ wpc[x] \in {"ack", "ambiguous", "rejected"} =>
              sends'[watt[x]] = sends[watt[x]] /\ run'[watt[x]] = run[watt[x]]
      BY <1>3, <2>1
    <2>. QED  BY <1>1, <1>2, <1>3, <1>4, <2>2 DEF OutcomeInv, CallersHaveSent, a
  <1>7. FailuresWereSent'
    BY <1>1, <1>3 DEF OutcomeInv, FailuresWereSent
  <1>8. ResultsAreTruthfulUnlessUnacked'
    <2>1. \A b \in Attempts \ adminSettled : result[b] = "FAILED" => b # a
      BY <1>1 DEF OutcomeInv, FailuresWereSent
    <2>. QED  BY <1>1, <1>3, <2>1 DEF OutcomeInv, ResultsAreTruthfulUnlessUnacked
  <1>9. ResolvedWereUnknown'
    BY <1>1 DEF OutcomeInv, ResolvedWereUnknown
  <1>. QED  BY <1>5, <1>6, <1>7, <1>8, <1>9 DEF OutcomeInv

\* A dispatch error: a refusal is recorded as FAILED, and so is a failed
\* acknowledgement; anything else as UNKNOWN.
LEMMA RecordErrorIsTrue ==
    ASSUME TypeOK, DispatchInv, OutcomeInv, NEW w \in Workers, RecordError(w)
    PROVE  LET o == DeliveryOutcome(wpc[w])
           IN  /\ watt[w] \in Attempts /\ attempt[watt[w]] # "none"
               /\ sends[watt[w]] > 0
               /\ o \in {"UNKNOWN", "FAILED"}
               /\ o = "FAILED" => \/ watt[w] \in unacked
                                  \/ posts[watt[w]] = 0 /\ run[watt[w]] = "none"
               /\ result' = [result EXCEPT ![watt[w]] = IF @ = "none" THEN o ELSE @]
               /\ UNCHANGED <<run, posts, unacked, sends, adminSettled, resolving>>
               /\ wpc' = [wpc EXCEPT ![w] = "idle"] /\ NobodyCalls
  <1>1. /\ wpc[w] \in {"ambiguous", "rejected"}
        /\ wpc' = [wpc EXCEPT ![w] = "idle"] /\ watt' = [watt EXCEPT ![w] = NoAttempt]
    BY DEF RecordError, Finish
  <1>2. watt[w] \in Attempts /\ attempt[watt[w]] # "none" /\ sends[watt[w]] > 0
    BY <1>1 DEF DispatchInv, HeldExist, Holding, Exists, OutcomeInv, CallersHaveSent
  <1>3. wpc[w] = "rejected" => \/ watt[w] \in unacked
                               \/ posts[watt[w]] = 0 /\ run[watt[w]] = "none"
    BY <1>2 DEF OutcomeInv, CallersHaveSent, PostsFollowRuns
  <1>4. NobodyCalls
    BY <1>1 DEF NobodyCalls, TypeOK, TypeWorkers
  <1>5. /\ result' = [result EXCEPT ![watt[w]] =
                          IF @ = "none" THEN DeliveryOutcome(wpc[w]) ELSE @]
        /\ UNCHANGED <<run, posts, unacked, sends, adminSettled, resolving>>
    BY DEF RecordError, RecordOnce, runVars, adminVars, Elsewhere
  <1>. QED  BY <1>1, <1>2, <1>3, <1>4, <1>5 DEF DeliveryOutcome

\* The runner's answer is recorded as it is.
LEMMA CallbackIsTrue ==
    ASSUME TypeOK, OutcomeInv, NEW a \in Attempts, Callback(a)
    PROVE  /\ run[a] \in Recorded /\ result[a] = "none"
           /\ result' = [result EXCEPT ![a] = run[a]]
           /\ sends[a] > 0
           /\ run[a] = "FAILED" => posts[a] = 0
           /\ run[a] = "PUBLISHED" => posts[a] = 1
           /\ UNCHANGED <<run, posts, unacked, sends, adminSettled, resolving, wpc, watt>>
  BY DEF Callback, Recorded, OutcomeInv, PostsFollowRuns, runVars, adminVars, Outside, workerVars

\* An execution posts at most once, and for a failure on record only if its
\* acknowledgement failed.
LEMMA ExecuteKeepsOutcomes ==
    ASSUME TypeOK, OutcomeInv, NEW a \in Attempts, Execute(a)
    PROVE  OutcomeInv'
  <1>1. PICK o \in Recorded, n \in 0..1 :
           /\ run[a] = "accepted"
           /\ o = "PUBLISHED" => n = 1
           /\ o = "FAILED" => n = 0
           /\ posts' = [posts EXCEPT ![a] = @ + n]
           /\ run' = [run EXCEPT ![a] =
                  IF version[IntentOf(a)] = VersionOf(a) THEN o ELSE "misbound"]
    BY DEF Execute, Recorded
  <1>2. UNCHANGED <<sends, unacked, result, adminSettled, resolving, wpc, watt>>
    BY DEF Execute, attemptVars, adminVars, Outside, workerVars
  <1>3. sends[a] > 0 /\ posts[a] = 0
    BY <1>1 DEF OutcomeInv, PostsFollowRuns
  <1>4. /\ \A b \in Attempts : b # a => posts'[b] = posts[b] /\ run'[b] = run[b]
        /\ posts'[a] = n /\ run'[a] \in {o, "misbound"}
    BY <1>1, <1>3 DEF TypeOK, TypeHistory, TypeOthers
  <1>5. PostsFollowRuns'
    BY <1>1, <1>2, <1>3, <1>4 DEF OutcomeInv, PostsFollowRuns, Recorded
  <1>6. CallersHaveSent'
    <2>1. \A w \in Workers :
             wpc[w] = "rejected" => run'[watt[w]] = "none" \/ watt[w] \in unacked
      BY <1>1 DEF OutcomeInv, CallersHaveSent, TypeOK, TypeOthers
    <2>. QED  BY <1>2, <2>1 DEF OutcomeInv, CallersHaveSent
  <1>7. FailuresWereSent' /\ ResolvedWereUnknown'
    BY <1>2 DEF OutcomeInv, FailuresWereSent, ResolvedWereUnknown
  <1>8. ResultsAreTruthfulUnlessUnacked'
    <2>1. a \notin adminSettled =>
             result[a] # "PUBLISHED" /\ (result[a] = "FAILED" => a \in unacked)
      BY <1>1, <1>3 DEF OutcomeInv, ResultsAreTruthfulUnlessUnacked
    <2>. QED  BY <1>2, <1>4, <2>1 DEF OutcomeInv, ResultsAreTruthfulUnlessUnacked
  <1>. QED  BY <1>5, <1>6, <1>7, <1>8 DEF OutcomeInv

\* An admin settles what is recorded, and then it is the admin's.
LEMMA AdminKeepsOutcomes ==
    ASSUME TypeOK, OutcomeInv, NEW d \in Admins, AdminStep(d)
    PROVE  OutcomeInv'
  <1>1. ASSUME NEW a \in Attempts, BeginResolve(d, a)
        PROVE  OutcomeInv'
    <2>1. /\ result[a] = "UNKNOWN" /\ resolving' = [resolving EXCEPT ![d] = a]
          /\ UNCHANGED <<run, posts, unacked, sends, result, adminSettled, wpc, watt>>
      BY <1>1 DEF BeginResolve, attemptVars, runVars, Outside, workerVars
    <2>2. \A e \in Admins : resolving'[e] = resolving[e] \/ resolving'[e] = a
      BY <2>1 DEF TypeOK, TypeOthers
    <2>3. ResolvedWereUnknown'
      BY <2>1, <2>2 DEF OutcomeInv, ResolvedWereUnknown
    <2>4. PostsFollowRuns' /\ CallersHaveSent' /\ FailuresWereSent'
       /\ ResultsAreTruthfulUnlessUnacked'
      BY <2>1 DEF OutcomeInv, PostsFollowRuns, CallersHaveSent, FailuresWereSent,
         ResultsAreTruthfulUnlessUnacked
    <2>. QED  BY <2>3, <2>4 DEF OutcomeInv
  <1>2. CASE CommitResolve(d)
    <2>. DEFINE a == resolving[d]
    <2>1. PICK o \in {"PUBLISHED", "FAILED"} : result' = [result EXCEPT ![a] = o]
      BY <1>2 DEF CommitResolve
    <2>2. /\ a \in Attempts /\ a # NoAttempt
          /\ resolving' = [resolving EXCEPT ![d] = NoAttempt]
          /\ adminSettled' = adminSettled \union {a}
          /\ UNCHANGED <<run, posts, unacked, sends, wpc, watt>>
      BY <1>2 DEF CommitResolve, runVars, Outside, workerVars, TypeOK, TypeOthers
    <2>3. /\ \A b \in Attempts : result'[b] = IF b = a THEN o ELSE result[b]
          /\ \A e \in Admins : resolving'[e] \in {resolving[e], NoAttempt}
      BY <2>1, <2>2 DEF TypeOK, TypeOthers, TypeAttempts
    <2>. HIDE DEF a
    <2>4. ResolvedWereUnknown'
      BY <2>2, <2>3 DEF OutcomeInv, ResolvedWereUnknown, TypeOK, TypeOthers
    <2>5. FailuresWereSent' /\ ResultsAreTruthfulUnlessUnacked'
      BY <2>2, <2>3 DEF OutcomeInv, FailuresWereSent, ResultsAreTruthfulUnlessUnacked
    <2>6. PostsFollowRuns' /\ CallersHaveSent'
      BY <2>2 DEF OutcomeInv, PostsFollowRuns, CallersHaveSent
    <2>. QED  BY <2>4, <2>5, <2>6 DEF OutcomeInv
  <1>. QED  BY <1>1, <1>2 DEF AdminStep

\* What the owner, the queue and the environment never write.
LEMMA OthersAreQuiet ==
    ASSUME \/ \E o \in Owners : OwnerStep(o)
           \/ QueueStep \/ ToggleTarget \/ RevokeCandidate
           \/ UNCHANGED vars
    PROVE  UNCHANGED <<attempt, result, run, posts, unacked, sends,
                       adminSettled, resolving, wpc, watt>>
  <1>. USE DEF attemptVars, runVars, adminVars, workerVars
  <1>1. ASSUME NEW o \in Owners, OwnerStep(o)
        PROVE  UNCHANGED <<attempt, result, run, posts, unacked, sends,
                           adminSettled, resolving, wpc, watt>>
    BY <1>1, OwnerLeavesAlone
  <1>2. CASE QueueStep
    BY <1>2 DEF QueueStep, Stall, LoseJob, RemoveOrphan, Elsewhere
  <1>3. CASE ToggleTarget \/ RevokeCandidate
    BY <1>3 DEF ToggleTarget, RevokeCandidate
  <1>4. CASE UNCHANGED vars
    BY <1>4 DEF vars
  <1>. QED  BY <1>1, <1>2, <1>3, <1>4

\* What each sweep step does to an outcome: nothing, or a first UNKNOWN.
LEMMA SweepIsQuiet ==
    ASSUME SweepStep
    PROVE  \/ UNCHANGED <<attempt, result, run, posts, unacked, sends,
                          adminSettled, resolving, wpc, watt>>
           \/ \E a \in stuck : FlagStuck(a)
  BY DEF SweepStep, SweepReadDue, RecoverMissed, SweepReadStuck, Outside, attemptVars,
     runVars, adminVars, workerVars

LEMMA FlagStuckIsTrue ==
    ASSUME DispatchInv, NEW a \in stuck, FlagStuck(a)
    PROVE  /\ a \in Attempts /\ attempt[a] # "none"
           /\ attempt' = [attempt EXCEPT ![a] = "UNKNOWN"]
           /\ result' = [result EXCEPT ![a] = IF @ = "none" THEN "UNKNOWN" ELSE @]
           /\ UNCHANGED <<run, posts, unacked, sends, adminSettled, resolving, wpc, watt>>
  BY DEF FlagStuck, RecordOnce, DispatchInv, HeldExist, Exists, runVars, adminVars,
     Outside, workerVars

LEMMA OutcomeStep ==
    ASSUME TypeOK, DispatchInv, OutcomeInv, [Next]_vars
    PROVE  OutcomeInv'
  <1>1. CASE \/ \E o \in Owners : OwnerStep(o)
             \/ QueueStep \/ ToggleTarget \/ RevokeCandidate
             \/ UNCHANGED vars
    BY <1>1, OthersAreQuiet, OutcomeUntouched DEF NobodyCalls
  <1>2. ASSUME NEW w \in Workers, WorkerStep(w)
        PROVE  OutcomeInv'
    <2>1. CASE Post(w)
      BY <2>1, PostKeepsOutcomes
    <2>2. CASE RecordError(w)
      <3>. DEFINE o == DeliveryOutcome(wpc[w])
      <3>1. /\ watt[w] \in Attempts /\ sends[watt[w]] > 0
            /\ o \in Recorded /\ o # "PUBLISHED"
            /\ o = "FAILED" => \/ watt[w] \in unacked
                               \/ posts[watt[w]] = 0 /\ run[watt[w]] # "accepted"
            /\ result' = [result EXCEPT ![watt[w]] = IF @ = "none" THEN o ELSE @]
            /\ UNCHANGED <<run, posts, unacked, sends, adminSettled, resolving>>
            /\ NobodyCalls
        BY <2>2, RecordErrorIsTrue DEF Recorded
      <3>. HIDE DEF o
      <3>. QED  BY <3>1, OutcomeRecorded DEF TypeOK
    <2>3. CASE AcknowledgeFails(w)
      BY <2>3, AcknowledgeFailsKeepsOutcomes
    <2>4. CASE ~Post(w) /\ ~RecordError(w) /\ ~AcknowledgeFails(w)
      BY <1>2, <2>4, WorkerIsQuiet, OutcomeUntouched DEF Quiet
    <2>. QED  BY <2>1, <2>2, <2>3, <2>4
  <1>3. CASE RunnerStep
    <2>1. ASSUME NEW a \in Attempts, Execute(a)  PROVE OutcomeInv'
      BY <2>1, ExecuteKeepsOutcomes
    <2>2. ASSUME NEW a \in Attempts, Callback(a)  PROVE OutcomeInv'
      <3>1. /\ run[a] \in Recorded /\ result[a] = "none"
            /\ result' = [result EXCEPT ![a] = run[a]]
            /\ sends[a] > 0
            /\ run[a] = "FAILED" => posts[a] = 0
            /\ run[a] = "PUBLISHED" => posts[a] = 1
            /\ UNCHANGED <<run, posts, unacked, sends, adminSettled, resolving, wpc, watt>>
        BY <2>2, CallbackIsTrue
      <3>2. result' = [result EXCEPT ![a] = IF @ = "none" THEN run[a] ELSE @]
        BY <3>1 DEF TypeOK, TypeAttempts
      <3>3. NobodyCalls
        BY <3>1 DEF NobodyCalls
      <3>. QED  BY <3>1, <3>2, <3>3, OutcomeRecorded DEF TypeOK
    <2>. QED  BY <1>3, <2>1, <2>2 DEF RunnerStep
  <1>4. CASE SweepStep
    <2>1. CASE UNCHANGED <<attempt, result, run, posts, unacked, sends,
                           adminSettled, resolving, wpc, watt>>
      BY <2>1, OutcomeUntouched DEF NobodyCalls
    <2>2. ASSUME NEW a \in stuck, FlagStuck(a)  PROVE OutcomeInv'
      BY <2>2, FlagStuckIsTrue, OutcomeRecorded DEF NobodyCalls, TypeOK, Recorded
    <2>. QED  BY <1>4, <2>1, <2>2, SweepIsQuiet
  <1>5. ASSUME NEW d \in Admins, AdminStep(d)  PROVE OutcomeInv'
    BY <1>5, AdminKeepsOutcomes
  <1>. QED  BY <1>1, <1>2, <1>3, <1>4, <1>5 DEF Next

\* The invariant of the outcomes holds, with those it rests on.
LEMMA OutcomesHold == Spec => [](TypeOK /\ DispatchInv /\ OutcomeInv)
  <1>1. Init => OutcomeInv
    BY DEF Init, OutcomeInv, PostsFollowRuns, CallersHaveSent, FailuresWereSent,
       ResultsAreTruthfulUnlessUnacked, ResolvedWereUnknown
  <1>2. TypeOK /\ DispatchInv /\ OutcomeInv /\ [Next]_vars => OutcomeInv'
    BY OutcomeStep
  <1>. QED  BY <1>1, <1>2, TypeCorrect, DispatchInvHolds, PTL DEF Spec

\* What the tables say of an attempt happened, whoever writes it first: worker
\* (dispatch.processor.ts), callback or sweep; only an admin, or the catch of a
\* failed acknowledgement, may write otherwise.
THEOREM OutcomesAreTruthful == Spec => []ResultsAreTruthfulUnlessUnacked
  <1>1. OutcomeInv => ResultsAreTruthfulUnlessUnacked
    BY DEF OutcomeInv
  <1>. QED  BY <1>1, OutcomesHold, PTL

\* A published or failed result stays as it is, whoever comes late: worker, sweep
\* and callback keep the row they find, and an admin resolves what was UNKNOWN.
THEOREM SettledIsFinal == Spec => SettledResultIsFinalUnlessResolved
  <1>. DEFINE Kept == \A a \in Attempts \ adminSettled :
                          result[a] \in {"PUBLISHED", "FAILED"} => result'[a] = result[a]
  <1>1. TypeOK /\ DispatchInv /\ OutcomeInv /\ [Next]_vars => [Kept]_vars
    <2>. SUFFICES ASSUME TypeOK, DispatchInv, OutcomeInv, [Next]_vars
                  PROVE  Kept
      OBVIOUS
    <2>1. CASE \/ \E o \in Owners : OwnerStep(o)
               \/ QueueStep \/ ToggleTarget \/ RevokeCandidate
               \/ UNCHANGED vars
      BY <2>1, OthersAreQuiet
    <2>2. ASSUME NEW w \in Workers, WorkerStep(w)
          PROVE  Kept
      <3>1. CASE Post(w)
        BY <3>1 DEF Post, attemptVars
      <3>2. CASE RecordError(w)
        BY <3>2, RecordErrorIsTrue DEF TypeOK, TypeAttempts
      <3>3. CASE AcknowledgeFails(w)
        BY <3>3 DEF AcknowledgeFails, attemptVars
      <3>4. CASE ~Post(w) /\ ~RecordError(w) /\ ~AcknowledgeFails(w)
        BY <2>2, <3>4, WorkerIsQuiet DEF Quiet
      <3>. QED  BY <3>1, <3>2, <3>3, <3>4
    <2>3. CASE RunnerStep
      <3>1. ASSUME NEW a \in Attempts, Execute(a)  PROVE Kept
        BY <3>1 DEF Execute, attemptVars
      <3>2. ASSUME NEW a \in Attempts, Callback(a)  PROVE Kept
        BY <3>2 DEF Callback, TypeOK, TypeAttempts
      <3>. QED  BY <2>3, <3>1, <3>2 DEF RunnerStep
    <2>4. CASE SweepStep
      <3>1. ASSUME NEW a \in stuck, FlagStuck(a)  PROVE Kept
        BY <3>1, FlagStuckIsTrue DEF TypeOK, TypeAttempts
      <3>. QED  BY <2>4, <3>1, SweepIsQuiet
    <2>5. ASSUME NEW d \in Admins, AdminStep(d)  PROVE Kept
      <3>1. ASSUME NEW a \in Attempts, BeginResolve(d, a)  PROVE Kept
        BY <3>1 DEF BeginResolve, attemptVars
      <3>2. CASE CommitResolve(d)
        <4>. DEFINE x == resolving[d]
        <4>1. /\ \E o \in {"PUBLISHED", "FAILED"} : result' = [result EXCEPT ![x] = o]
              /\ x # NoAttempt
          BY <3>2 DEF CommitResolve
        <4>2. x \in adminSettled \/ result[x] = "UNKNOWN"
          BY <4>1 DEF OutcomeInv, ResolvedWereUnknown
        <4>. QED  BY <4>1, <4>2 DEF TypeOK, TypeAttempts
      <3>. QED  BY <2>5, <3>1, <3>2 DEF AdminStep
    <2>. QED  BY <2>1, <2>2, <2>3, <2>4, <2>5 DEF Next
  <1>2. Spec => [][Kept]_vars
    BY <1>1, OutcomesHold, PTL DEF Spec
  <1>. QED  BY <1>2 DEF SettledResultIsFinalUnlessResolved

-----------------------------------------------------------------------------
(* The lifecycle implements the dispatch of PublicationDispatch *)

\* The right to send every attempt is where it was.
SamePhases == \A a \in Attempts : Phase(a)' = Phase(a)
SameResults == UNCHANGED <<posts, unacked, result, adminSettled>>

PhaseMoves(a, from, to) ==
    /\ Phase(a) \in from /\ Phase(a)' = to
    /\ \A b \in Attempts \ {a} : Phase(b)' = Phase(b)

-----------------------------------------------------------------------------
(* From facts about one attempt to the steps of the abstract dispatch *)

LEMMA PhasesStay ==
    ASSUME SamePhases
    PROVE  [a \in Attempts |-> Phase(a)]' = [a \in Attempts |-> Phase(a)]
  BY DEF SamePhases

LEMMA PhasesMove ==
    ASSUME NEW a \in Attempts, NEW from, NEW to, PhaseMoves(a, from, to)
    PROVE  /\ [b \in Attempts |-> Phase(b)][a] \in from
           /\ [b \in Attempts |-> Phase(b)]'
                = [[b \in Attempts |-> Phase(b)] EXCEPT ![a] = to]
  BY DEF PhaseMoves

\* Nothing abstract changes.
LEMMA StutterStep ==
    ASSUME SamePhases, SameResults
    PROVE  UNCHANGED Dispatch!vars
  BY PhasesStay DEF SameResults, Dispatch!vars

\* One attempt's right to send moves on.
LEMMA PhaseStep ==
    ASSUME NEW a \in Attempts, SameResults,
           \/ PhaseMoves(a, {"absent"}, "reserved")
           \/ PhaseMoves(a, {"reserved"}, "claimed")
           \/ PhaseMoves(a, {"claimed"}, "sent")
           \/ PhaseMoves(a, {"reserved", "claimed"}, "dead")
    PROVE  Dispatch!Next
  <1>1. ASSUME NEW from, NEW to, PhaseMoves(a, from, to)
        PROVE  Dispatch!Becomes(a, from, to)
    BY <1>1, PhasesMove DEF SameResults, Dispatch!Becomes
  <1>. QED
    BY <1>1 DEF Dispatch!Next, Dispatch!Reserve, Dispatch!Claim, Dispatch!Send, Dispatch!Drop

\* The phase of an attempt, case by case.
LEMMA PhaseCases ==
    ASSUME TypeOK, DispatchInv, NEW a \in Attempts
    PROVE  /\ attempt[a] = "none" => Phase(a) = "absent"
           /\ attempt[a] = "QUEUED" => Phase(a) = "reserved"
           /\ attempt[a] \notin {"none", "QUEUED"} =>
                 /\ sends[a] > 0 => Phase(a) = "sent"
                 /\ (sends[a] = 0 /\ \E w \in Workers : AboutToSend(w, a)) => Phase(a) = "claimed"
                 /\ (sends[a] = 0 /\ ~\E w \in Workers : AboutToSend(w, a)) => Phase(a) = "dead"
           /\ sends[a] > 0 => Phase(a) = "sent" /\ attempt[a] \notin {"none", "QUEUED"}
  BY DEF Phase, DispatchInv, UnsentUntilClaimed, TypeOK, TypeHistory

\* Attempts whose row, calls and senders stay, or whose row is no more than
\* rewritten after its claim, keep their phase.
LEMMA PhaseKept ==
    ASSUME NEW a \in Attempts,
           sends'[a] = sends[a],
           \A w \in Workers : AboutToSend(w, a)' <=> AboutToSend(w, a),
           \/ attempt'[a] = attempt[a]
           \/ {attempt[a], attempt'[a]} \intersect {"none", "QUEUED"} = {}
    PROVE  Phase(a)' = Phase(a)
  BY DEF Phase

-----------------------------------------------------------------------------
(* The steps of the lifecycle, one lemma per kind *)

Implements == Dispatch!Next \/ UNCHANGED Dispatch!vars

\* A worker that neither reaches nor leaves the call, and writes no attempt that
\* is not claimed, changes nothing abstract.
LEMMA WorkerStutters ==
    ASSUME TypeOK, NEW w \in Workers, NEW pc \in WorkerPcs \ {"send"}, wpc[w] # "send",
           wpc' = [wpc EXCEPT ![w] = pc],
           watt' = watt \/ \E a : watt' = [watt EXCEPT ![w] = a],
           UNCHANGED <<attempt, sends>>, SameResults
    PROVE  Implements
  <1>1. \A x \in Workers, a \in Attempts : AboutToSend(x, a)' <=> AboutToSend(x, a)
    BY DEF AboutToSend, TypeOK, TypeWorkers
  <1>2. SamePhases
    BY <1>1, PhaseKept DEF SamePhases
  <1>. QED  BY <1>2, StutterStep DEF Implements

\* Writing the row of one existing attempt by id, while nobody starts or ends a
\* call, drops it if it was still reserved.
LEMMA RewrittenPhases ==
    ASSUME TypeOK, DispatchInv, NEW a \in Attempts, attempt[a] # "none",
           NEW s \in {"SUCCEEDED", "FAILED", "UNKNOWN"},
           attempt' = [attempt EXCEPT ![a] = s],
           UNCHANGED sends,
           \A x \in Workers, b \in Attempts : AboutToSend(x, b)' <=> AboutToSend(x, b)
    PROVE  IF Phase(a) = "reserved"
           THEN PhaseMoves(a, {"reserved", "claimed"}, "dead")
           ELSE SamePhases
  <1>1. \A b \in Attempts : attempt'[b] = IF b = a THEN s ELSE attempt[b]
    BY DEF TypeOK, TypeAttempts
  <1>2. \A b \in Attempts \ {a} : Phase(b)' = Phase(b)
    BY <1>1, PhaseKept
  <1>3. CASE attempt[a] = "QUEUED"
    <2>1. Phase(a) = "reserved" /\ sends[a] = 0 /\ ~\E x \in Workers : AboutToSend(x, a)
      BY <1>3, PhaseCases DEF DispatchInv, UnsentUntilClaimed
    <2>2. Phase(a)' = "dead"
      BY <1>1, <2>1 DEF Phase
    <2>. QED  BY <1>2, <2>1, <2>2 DEF PhaseMoves
  <1>4. CASE attempt[a] # "QUEUED"
    <2>1. Phase(a) # "reserved"
      BY <1>4 DEF Phase
    <2>2. Phase(a)' = Phase(a)
      BY <1>1, <1>4, PhaseKept
    <2>. QED  BY <1>2, <2>1, <2>2 DEF SamePhases
  <1>. QED  BY <1>3, <1>4

\* The claim of an intent reserves the attempt it creates.
LEMMA ClaimIntentReserves ==
    ASSUME TypeOK, DispatchInv, NEW w \in Workers, ClaimIntent(w)
    PROVE  Implements
  <1>1. PICK a \in NextAttempts(IntentOf(wjob[w]), VersionOf(wjob[w])) :
           /\ attempt' = [attempt EXCEPT ![a] = "QUEUED"]
           /\ watt' = [watt EXCEPT ![w] = a]
    BY DEF ClaimIntent
  <1>2. a \in Attempts /\ attempt[a] = "none"
    BY <1>1, NextAttemptIsNew
  <1>3. /\ wpc[w] = "check" /\ wpc' = [wpc EXCEPT ![w] = "asset"]
        /\ UNCHANGED sends /\ SameResults
    BY DEF ClaimIntent, SameResults, runVars, Elsewhere, adminVars
  <1>4. \A x \in Workers, b \in Attempts : AboutToSend(x, b)' <=> AboutToSend(x, b)
    BY <1>1, <1>3 DEF AboutToSend, TypeOK, TypeWorkers
  <1>5. \A b \in Attempts : attempt'[b] = IF b = a THEN "QUEUED" ELSE attempt[b]
    BY <1>1, <1>2 DEF TypeOK, TypeAttempts
  <1>6. \A b \in Attempts \ {a} : Phase(b)' = Phase(b)
    BY <1>3, <1>4, <1>5, PhaseKept
  <1>7. Phase(a) = "absent" /\ Phase(a)' = "reserved"
    BY <1>2, <1>5 DEF Phase
  <1>. QED  BY <1>2, <1>3, <1>6, <1>7, PhaseStep DEF PhaseMoves, Implements

\* Failing an attempt over its asset drops it, or leaves it where it was.
LEMMA AssetFailsDrops ==
    ASSUME TypeOK, DispatchInv, NEW w \in Workers, AssetFails(w)
    PROVE  Implements
  <1>1. PICK a \in Attempts : /\ attempt[a] # "none"
                              /\ attempt' = [attempt EXCEPT ![a] = "FAILED"]
    BY DEF AssetFails, DispatchInv, HeldExist, Holding, Exists
  <1>2. /\ wpc[w] = "asset" /\ wpc' = [wpc EXCEPT ![w] = "idle"]
        /\ watt' = [watt EXCEPT ![w] = NoAttempt]
        /\ UNCHANGED sends /\ SameResults
    BY DEF AssetFails, Finish, SameResults, runVars, Elsewhere, adminVars
  <1>3. \A x \in Workers, b \in Attempts : AboutToSend(x, b)' <=> AboutToSend(x, b)
    BY <1>2 DEF AboutToSend, TypeOK, TypeWorkers
  <1>4. SamePhases \/ PhaseMoves(a, {"reserved", "claimed"}, "dead")
    BY <1>1, <1>2, <1>3, RewrittenPhases
  <1>. QED  BY <1>1, <1>2, <1>4, PhaseStep, StutterStep DEF Implements

\* The compare-and-swap claims the right to send, or changes nothing.
LEMMA ClaimAttemptClaims ==
    ASSUME TypeOK, DispatchInv, NEW w \in Workers, ClaimAttempt(w)
    PROVE  Implements
  <1>1. PICK a \in Attempts :
           a = watt[w] /\ wpc[w] = "asset" /\ UNCHANGED sends /\ SameResults
    BY DEF ClaimAttempt, DispatchInv, HeldExist, Holding, Exists, SameResults, runVars,
       Elsewhere, adminVars
  <1>2. CASE attempt[a] = "QUEUED"
    <2>1. /\ attempt' = [attempt EXCEPT ![a] = "DISPATCHING"]
          /\ wpc' = [wpc EXCEPT ![w] = "send"] /\ watt' = watt
      BY <1>1, <1>2 DEF ClaimAttempt, Moves
    <2>2. \A b \in Attempts : attempt'[b] = IF b = a THEN "DISPATCHING" ELSE attempt[b]
      BY <1>1, <2>1 DEF TypeOK, TypeAttempts
    <2>3. \A x \in Workers, b \in Attempts :
             AboutToSend(x, b)' <=> AboutToSend(x, b) \/ (x = w /\ b = a)
      BY <1>1, <2>1 DEF AboutToSend, TypeOK, TypeWorkers
    <2>4. sends[a] = 0
      BY <1>1, <1>2 DEF DispatchInv, UnsentUntilClaimed
    <2>5. \A b \in Attempts \ {a} : Phase(b)' = Phase(b)
      BY <1>1, <2>2, <2>3, PhaseKept
    <2>6. Phase(a) = "reserved"
      BY <1>1, <1>2, PhaseCases
    <2>7. Phase(a)' = "claimed"
      BY <1>1, <2>2, <2>3, <2>4 DEF Phase
    <2>. QED  BY <1>1, <2>5, <2>6, <2>7, PhaseStep DEF PhaseMoves, Implements
  <1>3. CASE attempt[a] # "QUEUED"
    BY <1>1, <1>3, WorkerStutters DEF ClaimAttempt, Finish, WorkerPcs
  <1>. QED  BY <1>2, <1>3

\* The call is the sending.
LEMMA PostSends ==
    ASSUME TypeOK, DispatchInv, NEW w \in Workers, Post(w)
    PROVE  Implements
  <1>0. wpc[w] = "send" /\ UNCHANGED attempt /\ SameResults /\ watt' = watt
    BY DEF Post, Moves, attemptVars, SameResults, Elsewhere, adminVars
  <1>1. PICK a \in Attempts : a = watt[w] /\ sends' = [sends EXCEPT ![a] = @ + 1]
    BY <1>0 DEF Post, DispatchInv, HeldExist, Holding, Exists
  <1>2. AboutToSend(w, a)
    BY <1>0, <1>1 DEF AboutToSend
  <1>3. /\ sends[a] = 0 /\ attempt[a] \notin {"none", "QUEUED"}
        /\ \A x \in Workers : AboutToSend(x, a) => x = w
    BY <1>2 DEF DispatchInv, OneSender, UnsentUntilClaimed
  <1>4. \E pc \in {"ack", "ambiguous", "rejected"} : wpc' = [wpc EXCEPT ![w] = pc]
    BY DEF Post, Moves
  <1>5. \A b \in Attempts : sends'[b] = IF b = a THEN 1 ELSE sends[b]
    BY <1>1, <1>3 DEF TypeOK, TypeHistory
  <1>6. \A x \in Workers, b \in Attempts \ {a} : AboutToSend(x, b)' <=> AboutToSend(x, b)
    BY <1>0, <1>1, <1>4 DEF AboutToSend, TypeOK, TypeWorkers
  <1>7. \A b \in Attempts \ {a} : Phase(b)' = Phase(b)
    BY <1>0, <1>5, <1>6, PhaseKept
  <1>8. Phase(a) = "claimed"
    BY <1>2, <1>3, PhaseCases
  <1>9. Phase(a)' = "sent"
    BY <1>0, <1>3, <1>5 DEF Phase
  <1>. QED  BY <1>0, <1>7, <1>8, <1>9, PhaseStep DEF PhaseMoves, Implements

\* A worker that dies before the call takes the right to send with it.
LEMMA CrashDrops ==
    ASSUME TypeOK, DispatchInv, NEW w \in Workers, WorkerCrash(w)
    PROVE  Implements
  <1>1. /\ wpc' = [wpc EXCEPT ![w] = "idle"] /\ watt' = [watt EXCEPT ![w] = NoAttempt]
        /\ UNCHANGED <<attempt, sends>> /\ SameResults
    BY DEF WorkerCrash, attemptVars, runVars, SameResults, Elsewhere, adminVars
  <1>2. CASE wpc[w] # "send"
    BY <1>1, <1>2, WorkerStutters DEF WorkerPcs
  <1>3. CASE wpc[w] = "send"
    <2>1. PICK a \in Attempts : a = watt[w] /\ AboutToSend(w, a)
      BY <1>3 DEF DispatchInv, HeldExist, Holding, Exists, AboutToSend
    <2>2. /\ sends[a] = 0 /\ attempt[a] \notin {"none", "QUEUED"}
          /\ \A x \in Workers : AboutToSend(x, a) => x = w
      BY <2>1 DEF DispatchInv, OneSender, UnsentUntilClaimed
    <2>3. \A x \in Workers, b \in Attempts :
             AboutToSend(x, b)' <=> AboutToSend(x, b) /\ x # w
      BY <1>1 DEF AboutToSend, TypeOK, TypeWorkers
    <2>4. \A b \in Attempts \ {a} : Phase(b)' = Phase(b)
      <3>1. \A b \in Attempts \ {a} : ~AboutToSend(w, b)
        BY <2>1 DEF AboutToSend
      <3>. QED  BY <1>1, <2>3, <3>1, PhaseKept
    <2>5. Phase(a) = "claimed"
      BY <2>1, <2>2, PhaseCases
    <2>6. Phase(a)' = "dead"
      BY <1>1, <2>1, <2>2, <2>3 DEF Phase
    <2>. QED  BY <1>1, <2>1, <2>4, <2>5, <2>6, PhaseStep DEF PhaseMoves, Implements
  <1>. QED  BY <1>2, <1>3

\* Rewriting an attempt with a result kept if there is one: it settles the
\* outcome, or changes what RewrittenPhases says.
LEMMA RecordingSettles ==
    ASSUME TypeOK, DispatchInv, NEW a \in Attempts, attempt[a] # "none",
           NEW o \in Recorded, NEW s \in {"SUCCEEDED", "FAILED", "UNKNOWN"},
           attempt' = [attempt EXCEPT ![a] = s],
           result' = [result EXCEPT ![a] = IF @ = "none" THEN o ELSE @],
           UNCHANGED <<sends, posts, unacked, adminSettled>>,
           \A x \in Workers, b \in Attempts : AboutToSend(x, b)' <=> AboutToSend(x, b),
           o = "FAILED" => posts[a] = 0 \/ a \in unacked,
           o = "PUBLISHED" => posts[a] = 1
    PROVE  Implements
  <1>1. IF Phase(a) = "reserved"
        THEN PhaseMoves(a, {"reserved", "claimed"}, "dead") ELSE SamePhases
    BY RewrittenPhases
  <1>2. CASE result[a] = "none"
    <2>. DEFINE F == [b \in Attempts |-> Phase(b)]
    <2>1. F' = [F EXCEPT ![a] = IF @ = "reserved" THEN "dead" ELSE @]
      BY <1>1 DEF PhaseMoves, SamePhases
    <2>2. F[a] # "absent"
      BY DEF Phase
    <2>3. result' = [result EXCEPT ![a] = o]
      BY <1>2 DEF TypeOK, TypeAttempts
    <2>4. {b \in Attempts : posts[b] > 0}' = {b \in Attempts : posts[b] > 0}
      OBVIOUS
    <2>5. Dispatch!Settle(a, o)
      BY <1>2, <2>1, <2>2, <2>3, <2>4 DEF Dispatch!Settle
    <2>. QED  BY <2>5 DEF Implements, Dispatch!Next, Recorded
  <1>3. CASE result[a] # "none"
    <2>1. SameResults
      BY <1>3 DEF SameResults, TypeOK, TypeAttempts
    <2>2. CASE Phase(a) = "reserved"
      BY <1>1, <2>1, <2>2, PhaseStep DEF Implements
    <2>3. CASE Phase(a) # "reserved"
      BY <1>1, <2>1, <2>3, StutterStep DEF Implements
    <2>. QED  BY <2>2, <2>3
  <1>. QED  BY <1>2, <1>3

\* An execution that posts publishes what was sent, and not recorded as failed
\* unless its acceptance was forgotten.
LEMMA ExecutePublishes ==
    ASSUME TypeOK, DispatchInv, OutcomeInv, NEW a \in Attempts, Execute(a)
    PROVE  Implements
  <1>1. PICK n \in 0..1 : run[a] = "accepted" /\ posts' = [posts EXCEPT ![a] = @ + n]
    BY DEF Execute
  <1>2. UNCHANGED <<attempt, sends, unacked, result, adminSettled, wpc, watt>>
    BY DEF Execute, attemptVars, adminVars, Outside, workerVars
  <1>3. SamePhases
    BY <1>2 DEF SamePhases, Phase, AboutToSend
  <1>4. /\ sends[a] > 0 /\ posts[a] = 0
        /\ result[a] = "FAILED" => a \in adminSettled \union unacked
    BY <1>1 DEF OutcomeInv, PostsFollowRuns, ResultsAreTruthfulUnlessUnacked
  <1>5. CASE n = 0
    <2>1. posts' = posts
      BY <1>1, <1>4, <1>5 DEF TypeOK, TypeHistory
    <2>. QED  BY <1>2, <1>3, <2>1, StutterStep DEF SameResults, Implements
  <1>6. CASE n = 1
    <2>1. \A b \in Attempts : posts'[b] = IF b = a THEN 1 ELSE posts[b]
      BY <1>1, <1>4, <1>6 DEF TypeOK, TypeHistory
    <2>2. {b \in Attempts : posts[b] > 0}' = {b \in Attempts : posts[b] > 0} \union {a}
      BY <2>1
    <2>3. Phase(a) = "sent"
      BY <1>4, PhaseCases
    <2>4. Dispatch!Publish(a)
      BY <1>2, <1>3, <1>4, <2>2, <2>3, PhasesStay DEF Dispatch!Publish
    <2>. QED  BY <2>4 DEF Implements, Dispatch!Next
  <1>. QED  BY <1>1, <1>5, <1>6

\* The commit of an admin resolves what is recorded.
LEMMA AdminResolves ==
    ASSUME TypeOK, DispatchInv, OutcomeInv, NEW d \in Admins, AdminStep(d)
    PROVE  Implements
  <1>1. ASSUME NEW a \in Attempts, BeginResolve(d, a)
        PROVE  Implements
    <2>1. UNCHANGED <<attempt, sends, wpc, watt>> /\ SameResults
      BY <1>1 DEF BeginResolve, attemptVars, runVars, Outside, workerVars, SameResults
    <2>. QED  BY <2>1, StutterStep DEF SamePhases, Phase, AboutToSend, Implements
  <1>2. CASE CommitResolve(d)
    <2>1. PICK a \in Attempts : a = resolving[d] /\ a # NoAttempt
      BY <1>2 DEF CommitResolve, TypeOK, TypeOthers
    <2>2. PICK o \in {"PUBLISHED", "FAILED"} :
             /\ o = "PUBLISHED" => posts[a] > 0
             /\ result' = [result EXCEPT ![a] = o]
      BY <1>2, <2>1 DEF CommitResolve
    <2>3. /\ adminSettled' = adminSettled \union {a}
          /\ UNCHANGED <<attempt, sends, posts, unacked, wpc, watt>>
      BY <1>2, <2>1 DEF CommitResolve, runVars, Outside, workerVars
    <2>4. SamePhases
      BY <2>3 DEF SamePhases, Phase, AboutToSend
    <2>5. result[a] # "none"
      BY <2>1 DEF OutcomeInv, ResolvedWereUnknown
    <2>6. Dispatch!Resolve(a, o)
      BY <2>2, <2>3, <2>4, <2>5, PhasesStay DEF Dispatch!Resolve
    <2>. QED  BY <2>6 DEF Implements, Dispatch!Next
  <1>. QED  BY <1>1, <1>2 DEF AdminStep

\* A failed acknowledgement forgets the acceptance of what was sent.
LEMMA AcknowledgeFailsForgets ==
    ASSUME TypeOK, DispatchInv, OutcomeInv, NEW w \in Workers, AcknowledgeFails(w)
    PROVE  Implements
  <1>1. /\ wpc[w] = "ack" /\ wpc' = [wpc EXCEPT ![w] = "rejected"]
        /\ unacked' = unacked \union {watt[w]}
        /\ UNCHANGED <<attempt, posts, sends, result, adminSettled, watt>>
    BY DEF AcknowledgeFails, Moves, attemptVars, adminVars, Elsewhere
  <1>2. PICK a \in Attempts : a = watt[w] /\ sends[a] > 0
    BY <1>1 DEF DispatchInv, HeldExist, Holding, Exists, OutcomeInv, CallersHaveSent
  <1>3. \A x \in Workers, b \in Attempts : AboutToSend(x, b)' <=> AboutToSend(x, b)
    BY <1>1 DEF AboutToSend, TypeOK, TypeWorkers
  <1>4. SamePhases
    BY <1>1, <1>3, PhaseKept DEF SamePhases
  <1>5. Phase(a) = "sent"
    BY <1>2, PhaseCases
  <1>6. Dispatch!Forget(a)
    BY <1>1, <1>2, <1>4, <1>5, PhasesStay DEF Dispatch!Forget
  <1>. QED  BY <1>6 DEF Implements, Dispatch!Next

LEMMA WorkerImplements ==
    ASSUME TypeOK, DispatchInv, OutcomeInv, NEW w \in Workers, WorkerStep(w)
    PROVE  Implements
  <1>. USE DEF WorkerPcs, Moves, Finish, attemptVars, runVars, adminVars, Elsewhere,
           SameResults
  <1>1. ASSUME NEW j \in JobIds, Take(w, j)  PROVE Implements
    BY <1>1, WorkerStutters DEF Take
  <1>2. CASE SyncFails(w)
    BY <1>2, WorkerStutters DEF SyncFails
  <1>3. CASE RecordedNoOp(w)
    BY <1>3, WorkerStutters DEF RecordedNoOp
  <1>4. CASE Refuse(w)
    BY <1>4, WorkerStutters DEF Refuse
  <1>5. CASE ClaimIntent(w)
    BY <1>5, ClaimIntentReserves
  <1>6. CASE RecoverQueued(w)
    BY <1>6, WorkerStutters DEF RecoverQueued
  <1>7. CASE MarkIntentFailed(w)
    BY <1>7, WorkerStutters DEF MarkIntentFailed
  <1>8. CASE AssetFails(w)
    BY <1>8, AssetFailsDrops
  <1>9. CASE ClaimAttempt(w)
    BY <1>9, ClaimAttemptClaims
  <1>10. CASE Post(w)
    BY <1>10, PostSends
  <1>11. CASE Acknowledge(w)
    BY <1>11, WorkerStutters DEF Acknowledge
  <1>12. CASE RecordError(w)
    <2>1. PICK a \in Attempts, o \in Recorded :
             /\ a = watt[w] /\ o = DeliveryOutcome(wpc[w]) /\ o # "PUBLISHED"
             /\ attempt[a] # "none"
             /\ o = "FAILED" => posts[a] = 0 \/ a \in unacked
             /\ result' = [result EXCEPT ![a] = IF @ = "none" THEN o ELSE @]
             /\ UNCHANGED <<posts, unacked, sends, adminSettled>>
      BY <1>12, RecordErrorIsTrue DEF Recorded
    <2>2. PICK s \in {"FAILED", "UNKNOWN"} : attempt' = [attempt EXCEPT ![a] = s]
      BY <1>12, <2>1 DEF RecordError, AttemptStateFor, Recorded
    <2>3. \A x \in Workers, b \in Attempts : AboutToSend(x, b)' <=> AboutToSend(x, b)
      BY <1>12 DEF RecordError, AboutToSend, TypeOK, TypeWorkers
    <2>. QED  BY <2>1, <2>2, <2>3, RecordingSettles
  <1>13. CASE WorkerCrash(w)
    BY <1>13, CrashDrops
  <1>14. CASE AcknowledgeFails(w)
    BY <1>14, AcknowledgeFailsForgets
  <1>15. CASE JobFails(w)
    BY <1>15, WorkerStutters DEF JobFails
  <1>. QED
    BY <1>1, <1>2, <1>3, <1>4, <1>5, <1>6, <1>7, <1>8, <1>9, <1>10, <1>11, <1>12,
       <1>13, <1>14, <1>15 DEF WorkerStep, Handles

LEMMA NextImplements ==
    ASSUME TypeOK, DispatchInv, OutcomeInv, [Next]_vars
    PROVE  Implements
  <1>1. ASSUME UNCHANGED <<attempt, result, run, posts, unacked, sends,
                           adminSettled, resolving, wpc, watt>>
        PROVE  Implements
    BY <1>1, StutterStep DEF SamePhases, SameResults, Phase, AboutToSend, Implements
  <1>2. CASE \/ \E o \in Owners : OwnerStep(o)
             \/ QueueStep \/ ToggleTarget \/ RevokeCandidate
             \/ UNCHANGED vars
    BY <1>1, <1>2, OthersAreQuiet
  <1>3. ASSUME NEW w \in Workers, WorkerStep(w)  PROVE Implements
    BY <1>3, WorkerImplements
  <1>4. CASE RunnerStep
    <2>1. ASSUME NEW a \in Attempts, Execute(a)  PROVE Implements
      BY <2>1, ExecutePublishes
    <2>2. ASSUME NEW a \in Attempts, Callback(a)  PROVE Implements
      <3>1. PICK o \in Recorded :
               /\ o = run[a] /\ result[a] = "none"
               /\ result' = [result EXCEPT ![a] = o]
               /\ o = "FAILED" => posts[a] = 0
               /\ o = "PUBLISHED" => posts[a] = 1
               /\ UNCHANGED <<posts, unacked, sends, adminSettled, wpc, watt>>
        BY <2>2, CallbackIsTrue
      <3>2. PICK s \in {"SUCCEEDED", "FAILED", "UNKNOWN"} : attempt' = [attempt EXCEPT ![a] = s]
        BY <2>2, <3>1 DEF Callback, AttemptStateFor, Recorded
      <3>3. result' = [result EXCEPT ![a] = IF @ = "none" THEN o ELSE @]
        BY <3>1 DEF TypeOK, TypeAttempts
      <3>4. attempt[a] # "none"
        BY <2>2 DEF Callback
      <3>. QED  BY <3>1, <3>2, <3>3, <3>4, RecordingSettles DEF AboutToSend
    <2>. QED  BY <1>4, <2>1, <2>2 DEF RunnerStep
  <1>5. CASE SweepStep
    <2>1. ASSUME NEW a \in stuck, FlagStuck(a)  PROVE Implements
      <3>1. /\ a \in Attempts /\ attempt[a] # "none"
            /\ attempt' = [attempt EXCEPT ![a] = "UNKNOWN"]
            /\ result' = [result EXCEPT ![a] = IF @ = "none" THEN "UNKNOWN" ELSE @]
            /\ UNCHANGED <<posts, unacked, sends, adminSettled, wpc, watt>>
        BY <2>1, FlagStuckIsTrue
      <3>2. PICK b \in Attempts : b = a
        BY <3>1
      <3>3. PICK s \in {"UNKNOWN"} \intersect Recorded : s = "UNKNOWN"
        BY DEF Recorded
      <3>. QED  BY <3>1, <3>2, <3>3, RecordingSettles DEF AboutToSend
    <2>. QED  BY <1>1, <1>5, <2>1, SweepIsQuiet
  <1>6. ASSUME NEW d \in Admins, AdminStep(d)  PROVE Implements
    BY <1>6, AdminResolves
  <1>. QED  BY <1>2, <1>3, <1>4, <1>5, <1>6 DEF Next

\* Whatever the owners, the workers, the queue, the runner, the sweeps and the
\* admins do, each attempt goes through the dispatch that PublicationDispatch
\* describes (dispatch.processor.ts, callbacks.controller.ts and the sweeps).
THEOREM DispatchIsImplemented == Spec => ImplementsDispatch
  <1>1. Init => Dispatch!Init
    BY DEF Init, Dispatch!Init, Phase
  <1>2. TypeOK /\ DispatchInv /\ OutcomeInv /\ [Next]_vars
            => [Dispatch!Next]_(Dispatch!vars)
    BY NextImplements DEF Implements
  <1>. QED
    BY <1>1, <1>2, OutcomesHold, PTL DEF Spec, ImplementsDispatch, Dispatch!Spec
=============================================================================
