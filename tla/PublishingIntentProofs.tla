----------------------- MODULE PublishingIntentProofs -----------------------
(***************************************************************************)
(* What the lifecycle guarantees of an intent as a whole, for all          *)
(* constants: one attempt in flight, of an approved plan, one post, and an *)
(* intent that says what its attempts say.                                 *)
(***************************************************************************)
EXTENDS PublishingOutcomeProofs

-----------------------------------------------------------------------------
(* The inductive invariant *)

Live == {"QUEUED", "DISPATCHING"}
\* The statuses of an intent whose newest attempt may have been posted.
Dispatched == {"DISPATCHING", "SUCCEEDED", "FAILED", "ACTION_REQUIRED"}
\* The statuses of an intent whose current version and plan were approved.
Busy == Dispatched \union {"SCHEDULED"}

\* The index of the slot: one real intent of the candidate is not cancelled.
Occupies(i) == status[i] \notin {"absent", "CANCELLED"}
SlotInv == \A i, j \in Intents : Occupies(i) /\ Occupies(j) => i = j

\* A request remembers a row it could start from, of a version not above the
\* current one; and while that is the version, the plan it read is the plan.
RequestRemembers(o) ==
    LET r == request[o] IN
    /\ r.op = "create" => r.status = "absent"
    /\ r.op \in {"schedule", "reschedule"} => r.status \in SCHEDULABLE
    /\ r.op \in {"approve", "reject"} => r.status = "AWAITING_APPROVAL"
    /\ r.op = "cancel" => r.status \in CANCELLABLE_STATUSES
    /\ r.op = "retry" => r.status = "FAILED"
    /\ r.op # "idle" /\ r.intent \notin blind => r.version <= version[r.intent]
    /\ r.op \in {"approve", "reject"} /\ r.intent \notin blind /\ r.version = version[r.intent]
       => r.plan = plan[r.intent]
RequestsInv == \A o \in Owners : RequestRemembers(o)

\* Everything that is on record of an attempt fits together: it is of an approved
\* plan; only the newest may have another fate than FAILED; what failed posted
\* nothing, unless its acknowledgement failed, and nobody will send it; it has a
\* result unless it is live or failed before it was sent.
AttemptOK(a) ==
    LET i == IntentOf(a) IN
    /\ VersionOf(a) <= version[i] /\ PlanWasApproved(a)
    /\ attempt[a] # "FAILED" =>
          status[i] \in Dispatched /\ VersionOf(a) = version[i] /\ ~Superseded(a)
    /\ attempt[a] = "FAILED" =>
          /\ a \in unacked \/ run[a] \in {"none", "FAILED"}
          /\ \A w \in Workers : ~AboutToSend(w, a)
    /\ attempt[a] \in Live => result[a] = "none"
    /\ attempt[a] \notin Live /\ result[a] = "none" => attempt[a] = "FAILED" /\ sends[a] = 0
    /\ a \notin adminSettled => Agrees(a)

IntentOK(i) ==
    i \notin blind =>
        /\ status[i] \in Busy => <<i, version[i], plan[i], "APPROVED">> \in approvals
        /\ status[i] = "DISPATCHING" => \E a \in AttemptsOf(i) : attempt[a] \in Live
        /\ \A a \in AttemptsOf(i) : AttemptOK(a)

ResultsHaveAttempts == \A a \in Attempts : result[a] # "none" => attempt[a] # "none"

IntentInv ==
    /\ SlotInv /\ RequestsInv /\ ResultsHaveAttempts
    /\ \A i \in Intents : IntentOK(i)

-----------------------------------------------------------------------------
(* Steps that leave the attempts of an intent alone *)

\* Nothing happens to an attempt; somebody about to send it may stop.
SameAttempt(a) ==
    /\ attempt'[a] = attempt[a] /\ body'[a] = body[a] /\ result'[a] = result[a]
    /\ sends'[a] = sends[a] /\ run'[a] = run[a]
    /\ a \in adminSettled => a \in adminSettled'
    /\ a \in unacked => a \in unacked'
    /\ \A w \in Workers : AboutToSend(w, a)' => AboutToSend(w, a)
SameAttempts(i) == \A a \in Attempts : IntentOf(a) = i => SameAttempt(a)
\* The row keeps its version and plan.
SameBinding(i) ==
    /\ i \in blind => i \in blind'
    /\ version'[i] = version[i] /\ plan'[i] = plan[i] /\ approvals \subseteq approvals'

\* A cancelled intent stays so, or was written blindly.
StaysCancelled(i) ==
    status[i] = "CANCELLED" /\ i \notin blind' => status'[i] = "CANCELLED"

\* The status moves within what the attempts allow.
MildStatus(i) ==
    /\ StaysCancelled(i)
    /\ i \notin blind' =>
        /\ status'[i] \in Busy => status[i] \in Busy
        /\ status'[i] = "DISPATCHING" => status[i] = "DISPATCHING"
        /\ status[i] \in Dispatched => status'[i] \in Dispatched

\* What every step does for an intent.
Keeps(i) == IntentOK(i)' /\ StaysCancelled(i)

LEMMA SameAttemptsAreSuperseded ==
    ASSUME NEW i \in Intents,
           \A a \in Attempts : IntentOf(a) = i => (attempt'[a] = "none" <=> attempt[a] = "none")
    PROVE  /\ AttemptsOf(i)' = AttemptsOf(i)
           /\ \A a \in AttemptsOf(i) : Superseded(a)' <=> Superseded(a)
  <1>1. AttemptsOf(i)' = AttemptsOf(i)
    BY DEF AttemptsOf
  <1>. QED  BY <1>1 DEF AttemptsOf, Superseded

\* Two attempts of an intent are ordered by version and sequence.
LEMMA NewestIsOne ==
    ASSUME NEW i, NEW a \in AttemptsOf(i), NEW b \in AttemptsOf(i),
           ~Superseded(a), ~Superseded(b)
    PROVE  a = b
  <1>1. /\ IntentOf(a) = i /\ IntentOf(b) = i
        /\ VersionOf(a) \in Nat /\ VersionOf(b) \in Nat /\ SeqOf(a) \in Nat /\ SeqOf(b) \in Nat
        /\ a = <<IntentOf(a), VersionOf(a), SeqOf(a)>> /\ b = <<IntentOf(b), VersionOf(b), SeqOf(b)>>
    BY DEF AttemptsOf, Attempts, IntentOf, VersionOf, SeqOf, Versions, Seqs
  <1>2. VersionOf(a) = VersionOf(b) /\ SeqOf(a) = SeqOf(b)
    BY <1>1 DEF Superseded
  <1>. QED  BY <1>1, <1>2

\* A step that leaves the attempts, the version and the plan keeps the intent.
LEMMA MildStepKeepsIntent ==
    ASSUME NEW i \in Intents, IntentOK(i), SameBinding(i), SameAttempts(i), MildStatus(i)
    PROVE  Keeps(i)
  <1>0. StaysCancelled(i)
    BY DEF MildStatus
  <1>. SUFFICES ASSUME i \notin blind'
                PROVE  /\ status'[i] \in Busy => <<i, version'[i], plan'[i], "APPROVED">> \in approvals'
                       /\ status'[i] = "DISPATCHING" =>
                             \E a \in AttemptsOf(i)' : attempt'[a] \in Live
                       /\ \A a \in AttemptsOf(i)' : AttemptOK(a)'
    BY <1>0 DEF IntentOK, Keeps
  <1>1. i \notin blind
    BY DEF SameBinding
  <1>2. /\ AttemptsOf(i)' = AttemptsOf(i)
        /\ \A a \in AttemptsOf(i) : Superseded(a)' <=> Superseded(a)
    BY SameAttemptsAreSuperseded DEF SameAttempts, SameAttempt
  <1>3. \A a \in AttemptsOf(i) : a \in Attempts /\ IntentOf(a) = i /\ SameAttempt(a)
    BY DEF SameAttempts, AttemptsOf
  <1>4. ASSUME NEW a \in AttemptsOf(i)
        PROVE  AttemptOK(a)'
    <2>1. AttemptOK(a)
      BY <1>1 DEF IntentOK
    <2>2. VersionOf(a) <= version'[i] /\ PlanWasApproved(a)'
      BY <1>3, <2>1 DEF AttemptOK, PlanWasApproved, SameAttempt, SameBinding
    <2>3. attempt'[a] # "FAILED" =>
             status'[i] \in Dispatched /\ VersionOf(a) = version'[i] /\ ~Superseded(a)'
      BY <1>2, <1>3, <2>1 DEF AttemptOK, SameAttempt, SameBinding, MildStatus
    <2>4. a \notin adminSettled' => Agrees(a)'
      BY <1>3, <2>1 DEF AttemptOK, SameAttempt, Agrees
    <2>. QED  BY <1>3, <2>1, <2>2, <2>3, <2>4 DEF AttemptOK, SameAttempt
  <1>. QED
    BY <1>1, <1>2, <1>3, <1>4 DEF IntentOK, SameBinding, MildStatus, SameAttempt

\* An owner may bind an intent anew when nothing of it may have been published.
LEMMA RestartKeepsIntent ==
    ASSUME NEW i \in Intents, IntentOK(i), SameAttempts(i), StaysCancelled(i),
           i \in blind => i \in blind', approvals \subseteq approvals',
           i \notin blind' =>
              /\ \A a \in AttemptsOf(i) : attempt[a] = "FAILED"
              /\ \A a \in AttemptsOf(i) : VersionOf(a) <= version'[i]
              /\ status'[i] \in Busy => <<i, version'[i], plan'[i], "APPROVED">> \in approvals'
              /\ status'[i] # "DISPATCHING"
    PROVE  Keeps(i)
  <1>. SUFFICES ASSUME i \notin blind'
                PROVE  \A a \in AttemptsOf(i)' : AttemptOK(a)'
    BY DEF IntentOK, Keeps
  <1>1. AttemptsOf(i)' = AttemptsOf(i)
    BY SameAttemptsAreSuperseded DEF SameAttempts, SameAttempt
  <1>2. ASSUME NEW a \in AttemptsOf(i)
        PROVE  AttemptOK(a)'
    <2>1. AttemptOK(a) /\ SameAttempt(a) /\ IntentOf(a) = i
      BY DEF IntentOK, SameAttempts, AttemptsOf
    <2>2. attempt[a] = "FAILED" /\ VersionOf(a) <= version'[i]
      OBVIOUS
    <2>. QED  BY <2>1, <2>2 DEF AttemptOK, SameAttempt, PlanWasApproved, Agrees, Live
  <1>. QED  BY <1>1, <1>2

\* Nothing of an intent that was not dispatched since may have been published.
LEMMA NothingOpen ==
    ASSUME NEW i \in Intents, IntentOK(i), i \notin blind, status[i] \notin Dispatched
    PROVE  \A a \in AttemptsOf(i) : attempt[a] = "FAILED"
  BY DEF IntentOK, AttemptOK, AttemptsOf

\* Nor of one whose newest attempt failed.
LEMMA NothingOpenBehindFailure ==
    ASSUME NEW i \in Intents, IntentOK(i), i \notin blind,
           \A a \in Newest(i) : attempt[a] = "FAILED"
    PROVE  \A a \in AttemptsOf(i) : attempt[a] = "FAILED"
  BY DEF IntentOK, AttemptOK, Newest

-----------------------------------------------------------------------------
(* The owner *)

\* What a write by id has seen, if it is not blind.
LEMMA WritesSeen ==
    ASSUME TypeOK, RequestsInv, NEW o \in Owners, NEW op \in RowOps \union {"reject", "cancel"},
           NEW s \in IntentStates, Writes(o, op, s)
    PROVE  LET r == request[o]
               i == r.intent
           IN  /\ i \in Intents /\ r.op = op /\ RequestRemembers(o)
               /\ status'[i] = s /\ \A k \in Intents \ {i} : status'[k] = status[k]
               /\ blind \subseteq blind' /\ blind' \subseteq blind \union {i}
               /\ i \notin blind' =>
                     /\ status[i] = r.status /\ version[i] = r.version
                     /\ op = "retry" => \A a \in Newest(i) : attempt[a] = "FAILED"
               /\ s # "CANCELLED" => SlotFree(i)
  <1>1. request[o].intent \in Intents /\ request[o].op = op /\ status \in [Intents -> IntentStates]
    BY DEF Writes, TypeOK, TypeRequests, TypeRows, RowOps
  <1>2. status' = [status EXCEPT ![request[o].intent] = s]
    BY DEF Writes
  <1>. QED  BY <1>1, <1>2 DEF Writes, Blind, RequestsInv

\* The attempts are not the owner's to write.
LEMMA OwnerLeavesAttempts ==
    ASSUME NEW o \in Owners, OwnerStep(o)
    PROVE  \A i : SameAttempts(i)
  BY OwnerLeavesAlone DEF attemptVars, workerVars, adminVars, runVars, SameAttempts,
     SameAttempt, AboutToSend

\* A request that reads, aborts, or works on the queue changes no intent.
LEMMA ReadingKeepsIntents ==
    ASSUME IntentInv, NEW o \in Owners, OwnerStep(o),
           UNCHANGED <<intentVars, blind>>
    PROVE  \A i \in Intents : Keeps(i)
  <1>1. ASSUME NEW i \in Intents
        PROVE  SameBinding(i) /\ MildStatus(i) /\ SameAttempts(i)
    BY OwnerLeavesAttempts DEF intentVars, SameBinding, MildStatus, StaysCancelled
  <1>. QED  BY <1>1, MildStepKeepsIntent DEF IntentInv

\* The intents a request does not write stay as they are.
LEMMA WritesKeepsOthers ==
    ASSUME TypeOK, IntentInv, NEW o \in Owners, OwnerStep(o),
           NEW op \in RowOps \union {"reject", "cancel"},
           NEW s \in IntentStates, Writes(o, op, s),
           NEW i \in Intents, i # request[o].intent,
           version'[i] = version[i], plan'[i] = plan[i], approvals \subseteq approvals'
    PROVE  Keeps(i)
  <1>1. SameBinding(i) /\ MildStatus(i) /\ SameAttempts(i)
    BY WritesSeen, OwnerLeavesAttempts DEF IntentInv, SameBinding, MildStatus, StaysCancelled
  <1>. QED  BY <1>1, MildStepKeepsIntent DEF IntentInv

\* A new version, which has to be approved, of an intent that may be rescheduled.
LEMMA NewVersionKeepsIntents ==
    ASSUME TypeOK, IntentInv, NEW o \in Owners, OwnerStep(o),
           NEW op \in {"schedule", "reschedule"}, Writes(o, op, "AWAITING_APPROVAL"),
           NEW n, version' = [version EXCEPT ![request[o].intent] = n],
           request[o].intent \notin blind' => n = version[request[o].intent] + 1,
           NEW p, plan' = [plan EXCEPT ![request[o].intent] = p],
           UNCHANGED approvals
    PROVE  \A i \in Intents : Keeps(i)
  <1>. DEFINE k == request[o].intent
  <1>1. /\ k \in Intents /\ RequestRemembers(o) /\ request[o].op \in {"schedule", "reschedule"}
        /\ blind \subseteq blind'
        /\ k \notin blind' => status[k] = request[o].status
        /\ status'[k] = "AWAITING_APPROVAL"
    BY WritesSeen DEF IntentInv, RowOps, IntentStates
  <1>2. /\ version[k] \in Nat /\ version'[k] = n
        /\ \A i \in Intents \ {k} : version'[i] = version[i] /\ plan'[i] = plan[i]
    BY <1>1 DEF TypeOK, TypeRows, Versions
  <1>3. \A i \in Intents \ {k} : Keeps(i)
    BY <1>2, WritesKeepsOthers DEF RowOps, IntentStates
  <1>4. IntentOK(k) /\ SameAttempts(k)
    BY <1>1, OwnerLeavesAttempts DEF IntentInv
  <1>. HIDE DEF k
  <1>5. k \notin blind' => k \notin blind /\ status[k] \in SCHEDULABLE
    BY <1>1 DEF RequestRemembers, k
  <1>6. StaysCancelled(k)
    BY <1>5 DEF StaysCancelled, SCHEDULABLE
  <1>7. k \notin blind' => \A a \in AttemptsOf(k) : attempt[a] = "FAILED"
    BY <1>1, <1>4, <1>5, NothingOpen DEF SCHEDULABLE, Dispatched
  <1>8. k \notin blind' => \A a \in AttemptsOf(k) : VersionOf(a) <= version'[k]
    <2>1. k \notin blind => \A a \in AttemptsOf(k) : VersionOf(a) <= version[k] /\ VersionOf(a) \in Nat
      BY <1>4 DEF IntentOK, AttemptOK, AttemptsOf, IntentOf, VersionOf, Attempts, Versions
    <2>. QED  BY <1>2, <1>5, <2>1 DEF k
  <1>9. Keeps(k)
    BY <1>1, <1>4, <1>6, <1>7, <1>8, RestartKeepsIntent DEF Busy, Dispatched
  <1>. QED  BY <1>3, <1>9 DEF k

\* Every commit of the owner keeps every intent.
LEMMA CommitKeepsIntents ==
    ASSUME TypeOK, IntentInv, NEW o \in Owners,
           \/ CommitCreate(o) \/ CommitSchedule(o) \/ CommitReschedule(o)
           \/ CommitApprove(o) \/ CommitReject(o) \/ CommitCancel(o) \/ CommitRetry(o)
    PROVE  \A i \in Intents : Keeps(i)
  <1>. DEFINE r == request[o]
              k == r.intent
  <1>. USE WritesSeen, WritesKeepsOthers, OwnerLeavesAttempts
  <1>. USE DEF IntentInv, RowOps, IntentStates
  <1>0. OwnerStep(o) /\ k \in Intents /\ IntentOK(k) /\ TypeRows
    <2>1. r.op # "idle"
      BY DEF CommitCreate, CommitSchedule, CommitReschedule, CommitApprove, CommitReject,
         CommitCancel, CommitRetry, Decides, Writes
    <2>. QED  BY <2>1 DEF OwnerStep, TypeOK, TypeRequests
  <1>1. CASE CommitCreate(o)
    <2>1. Writes(o, "create", "DRAFT") /\ status[k] = "absent"
          /\ UNCHANGED <<version, plan, approvals>>
      BY <1>1 DEF CommitCreate
    <2>2. SameBinding(k) /\ MildStatus(k)
      BY <2>1 DEF SameBinding, MildStatus, StaysCancelled, Busy, Dispatched
    <2>3. Keeps(k)
      BY <1>0, <2>1, <2>2, MildStepKeepsIntent
    <2>. QED  BY <1>0, <2>1, <2>3
  <1>2. CASE CommitSchedule(o)
    <2>1. /\ Writes(o, "schedule", "AWAITING_APPROVAL")
          /\ version' = [version EXCEPT ![k] = r.version + 1]
          /\ plan' = [plan EXCEPT ![k] = r.plan] /\ UNCHANGED approvals
      BY <1>2 DEF CommitSchedule
    <2>2. k \notin blind' => r.version + 1 = version[k] + 1
      BY <2>1
    <2>. QED  BY <1>0, <2>1, <2>2, NewVersionKeepsIntents
  <1>3. CASE CommitReschedule(o)
    <2>1. /\ Writes(o, "reschedule", "AWAITING_APPROVAL")
          /\ version' = [version EXCEPT ![k] = version[k] + 1]
          /\ plan' = [plan EXCEPT ![k] = r.plan] /\ UNCHANGED approvals
      BY <1>3 DEF CommitReschedule
    <2>. QED  BY <1>0, <2>1, NewVersionKeepsIntents
  <1>4. CASE CommitApprove(o)
    <2>1. /\ Writes(o, "approve", "SCHEDULED") /\ UNCHANGED <<version, plan>>
          /\ approvals' = approvals \union {<<k, r.version, r.plan, "APPROVED">>}
      BY <1>4 DEF CommitApprove, Decides
    <2>2. k \notin blind' => /\ k \notin blind /\ status[k] = "AWAITING_APPROVAL"
                             /\ version[k] = r.version /\ plan[k] = r.plan
      BY <2>1 DEF RequestRemembers
    <2>3. StaysCancelled(k)
      BY <2>2 DEF StaysCancelled
    <2>4. k \notin blind' => \A a \in AttemptsOf(k) : attempt[a] = "FAILED" /\ VersionOf(a) <= version[k]
      BY <1>0, <2>1, <2>2, NothingOpen DEF IntentOK, AttemptOK, Dispatched, AttemptsOf
    <2>5. Keeps(k)
      BY <1>0, <2>1, <2>2, <2>3, <2>4, RestartKeepsIntent
    <2>. QED  BY <1>0, <2>1, <2>5
  <1>5. CASE CommitReject(o)
    <2>1. /\ Writes(o, "reject", "CANCELLED") /\ UNCHANGED <<version, plan>>
          /\ approvals \subseteq approvals'
      BY <1>5 DEF CommitReject, Decides
    <2>2. SameBinding(k) /\ MildStatus(k)
      BY <2>1 DEF SameBinding, MildStatus, StaysCancelled, Busy, Dispatched, RequestRemembers
    <2>3. Keeps(k)
      BY <1>0, <2>1, <2>2, MildStepKeepsIntent
    <2>. QED  BY <1>0, <2>1, <2>3
  <1>6. CASE CommitCancel(o)
    <2>1. Writes(o, "cancel", "CANCELLED") /\ UNCHANGED <<version, plan, approvals>>
      BY <1>6 DEF CommitCancel
    <2>2. SameBinding(k) /\ MildStatus(k)
      BY <2>1 DEF SameBinding, MildStatus, StaysCancelled, Busy, Dispatched, RequestRemembers,
         CANCELLABLE_STATUSES
    <2>3. Keeps(k)
      BY <1>0, <2>1, <2>2, MildStepKeepsIntent
    <2>. QED  BY <1>0, <2>1, <2>3
  <1>7. CASE CommitRetry(o)
    <2>1. Writes(o, "retry", "SCHEDULED") /\ UNCHANGED <<version, plan, approvals>>
      BY <1>7 DEF CommitRetry
    <2>2. k \notin blind' => /\ k \notin blind /\ status[k] = "FAILED"
                             /\ \A a \in Newest(k) : attempt[a] = "FAILED"
      BY <2>1 DEF RequestRemembers
    <2>3. k \notin blind' => \A a \in AttemptsOf(k) : attempt[a] = "FAILED" /\ VersionOf(a) <= version[k]
      BY <1>0, <2>1, <2>2, NothingOpenBehindFailure DEF IntentOK, AttemptOK, AttemptsOf
    <2>4. StaysCancelled(k)
      BY <2>2 DEF StaysCancelled
    <2>5. k \notin blind' => <<k, version[k], plan[k], "APPROVED">> \in approvals
      BY <1>0, <2>2 DEF IntentOK, Busy, Dispatched
    <2>6. Keeps(k)
      BY <1>0, <2>1, <2>2, <2>3, <2>4, <2>5, RestartKeepsIntent
    <2>. QED  BY <1>0, <2>1, <2>6
  <1>. QED  BY <1>1, <1>2, <1>3, <1>4, <1>5, <1>6, <1>7

\* The requests of the others still remember a row they could start from: a
\* version only grows, and takes a new plan only as it grows.
LEMMA RequestsKept ==
    ASSUME TypeOK, RequestsInv, NEW o \in Owners,
           \A x \in Owners \ {o} : request'[x] = request[x],
           RequestRemembers(o)', blind \subseteq blind',
           \A i \in Intents \ blind' :
              \/ version'[i] = version[i] /\ plan'[i] = plan[i]
              \/ version'[i] \in Nat /\ version[i] < version'[i]
    PROVE  RequestsInv'
  <1>1. ASSUME NEW x \in Owners, x # o
        PROVE  RequestRemembers(x)'
    <2>1. /\ request'[x] = request[x] /\ RequestRemembers(x)
          /\ request[x].version \in Nat
          /\ request[x].op # "idle" => request[x].intent \in Intents
      BY <1>1 DEF RequestsInv, TypeOK, TypeRequests, Requests
    <2>2. \A i \in Intents : version[i] \in Nat
      BY DEF TypeOK, TypeRows, Versions
    <2>. QED  BY <2>1, <2>2 DEF RequestRemembers
  <1>. QED  BY <1>1 DEF RequestsInv

\* A step that writes no version and no plan keeps them too.
LEMMA RequestsUntouched ==
    ASSUME TypeOK, RequestsInv, UNCHANGED <<request, version, plan>>, blind \subseteq blind'
    PROVE  RequestsInv'
  BY DEF TypeOK, TypeRequests, RequestsInv, RequestRemembers

LEMMA OwnerKeepsRequests ==
    ASSUME TypeOK, RequestsInv, NEW o \in Owners, OwnerStep(o)
    PROVE  RequestsInv' /\ blind \subseteq blind'
  <1>. DEFINE r == request[o]
              k == r.intent
  <1>. USE DEF Reading, intentVars
  <1>0. /\ request \in [Owners -> Requests] /\ r.version \in Nat
        /\ \A i \in Intents : version[i] \in Nat
        /\ r.op # "idle" => k \in Intents
        /\ RequestRemembers(o)
    BY DEF TypeOK, TypeRequests, TypeRows, Requests, Versions, RequestsInv
  <1>1. ASSUME NEW i \in Intents, NEW op, NEW q \in Keys \union {NoKey}, Asks(o, op, i, q),
               UNCHANGED <<version, plan, blind>>,
               op = "create" => status[i] = "absent",
               op \in {"approve", "reject"} => status[i] = "AWAITING_APPROVAL",
               op = "cancel" => status[i] \in CANCELLABLE_STATUSES,
               op = "retry" => status[i] = "FAILED",
               op \notin {"schedule", "reschedule"}
        PROVE  RequestsInv'
    <2>1. /\ \A x \in Owners \ {o} : request'[x] = request[x]
          /\ request'[o] = [op |-> op, intent |-> i, version |-> version[i],
                            status |-> status[i], plan |-> plan[i], key |-> q]
      BY <1>0, <1>1 DEF Asks
    <2>2. RequestRemembers(o)'
      BY <1>0, <1>1, <2>1 DEF RequestRemembers
    <2>. QED  BY <1>1, <2>1, <2>2, RequestsKept
  \* A request that goes on to the queue, or ends.
  <1>2. ASSUME blind \subseteq blind',
               \A x \in Owners \ {o} : request'[x] = request[x],
               \/ request'[o] = Idle
               \/ /\ request'[o].op \in {"prune", "enqueue"} /\ request'[o].intent = k
                  /\ k \in Intents
                  /\ k \notin blind' => request'[o].version <= version'[k],
               \A i \in Intents \ blind' :
                  \/ version'[i] = version[i] /\ plan'[i] = plan[i]
                  \/ version'[i] \in Nat /\ version[i] < version'[i]
        PROVE  RequestsInv'
    <2>1. RequestRemembers(o)'
      BY <1>2 DEF RequestRemembers, Idle
    <2>. QED  BY <1>2, <2>1, RequestsKept
  <1>3. ASSUME NEW i \in Intents,
               \/ BeginCreate(o, i) \/ BeginDecide(o, i)
               \/ BeginCancel(o, i) \/ BeginRetry(o, i)
        PROVE  RequestsInv'
    <2>1. CASE BeginCreate(o, i)
      BY <1>1, <2>1 DEF BeginCreate
    <2>2. CASE BeginDecide(o, i)
      BY <1>1, <2>2 DEF BeginDecide
    <2>3. CASE BeginCancel(o, i)
      BY <1>1, <2>3 DEF BeginCancel
    <2>4. CASE BeginRetry(o, i)
      <3>1. PICK a \in HighestSeq(i) : Asks(o, "retry", i, <<o, SeqOf(a)>>)
        BY <2>4 DEF BeginRetry
      <3>2. <<o, SeqOf(a)>> \in Keys
        BY DEF HighestSeq, AttemptsOf, Attempts, SeqOf, Keys, RetryKeys
      <3>. QED  BY <1>1, <2>4, <3>1, <3>2 DEF BeginRetry
    <2>. QED  BY <1>3, <2>1, <2>2, <2>3, <2>4
  <1>4. ASSUME NEW i \in Intents, NEW p \in Plans, BeginSchedule(o, i, p)
        PROVE  RequestsInv'
    <2>1. PICK op \in {"schedule", "reschedule"} :
             request' = [request EXCEPT ![o] =
               [op |-> op, intent |-> i, version |-> version[i],
                status |-> status[i], plan |-> p, key |-> NoKey]]
      BY <1>4 DEF BeginSchedule
    <2>2. /\ \A x \in Owners \ {o} : request'[x] = request[x]
          /\ request'[o] = [op |-> op, intent |-> i, version |-> version[i],
                            status |-> status[i], plan |-> p, key |-> NoKey]
      BY <1>0, <2>1
    <2>3. RequestRemembers(o)'
      BY <1>0, <1>4, <2>2 DEF RequestRemembers, BeginSchedule
    <2>. QED  BY <1>4, <2>2, <2>3, RequestsKept DEF BeginSchedule
  <1>5. CASE Abort(o) \/ Enqueue(o) \/ Prune(o)
    <2>1. request' = [request EXCEPT ![o] = Idle] /\ UNCHANGED <<version, plan, blind>>
      BY <1>5 DEF Abort, Enqueue, Prune, Done
    <2>. QED  BY <1>0, <1>2, <2>1
  <1>6. CASE CommitCreate(o) \/ CommitReject(o)
    <2>1. request' = [request EXCEPT ![o] = Idle] /\ UNCHANGED <<version, plan>>
          /\ blind \subseteq blind'
      BY <1>6 DEF CommitCreate, CommitReject, Decides, Writes, Blind, Done
    <2>. QED  BY <1>0, <1>2, <2>1
  <1>7. CASE CommitCancel(o)
    <2>1. request' = [request EXCEPT ![o].op = "prune"] /\ UNCHANGED <<version, plan>>
          /\ blind \subseteq blind' /\ r.op # "idle"
      BY <1>7 DEF CommitCancel, Writes, Blind, Then
    <2>2. /\ request'[o].op = "prune" /\ request'[o].intent = k
          /\ request'[o].version = r.version
      BY <1>0, <2>1 DEF Requests
    <2>. QED  BY <1>0, <1>2, <2>1, <2>2 DEF RequestRemembers
  <1>8. CASE CommitApprove(o)
    <2>1. /\ request' = [request EXCEPT ![o].op = "enqueue", ![o].version = version[k],
                                        ![o].key = <<"approval", r.plan>>]
          /\ UNCHANGED <<version, plan>> /\ blind \subseteq blind' /\ r.op # "idle"
      BY <1>8 DEF CommitApprove, Decides, Writes, Blind
    <2>2. /\ request'[o].op = "enqueue" /\ request'[o].intent = k
          /\ request'[o].version = version[k]
      BY <1>0, <2>1 DEF Requests
    <2>. QED  BY <1>0, <1>2, <2>1, <2>2
  <1>9. CASE CommitRetry(o)
    <2>1. /\ request' = [request EXCEPT ![o].op = "enqueue", ![o].version = version[k]]
          /\ UNCHANGED <<version, plan>> /\ blind \subseteq blind' /\ r.op # "idle"
      BY <1>9 DEF CommitRetry, Writes, Blind
    <2>2. /\ request'[o].op = "enqueue" /\ request'[o].intent = k
          /\ request'[o].version = version[k]
      BY <1>0, <2>1 DEF Requests
    <2>. QED  BY <1>0, <1>2, <2>1, <2>2
  <1>10. CASE CommitSchedule(o) \/ CommitReschedule(o)
    <2>1. /\ request' = [request EXCEPT ![o].op = "prune"] /\ r.op # "idle"
          /\ blind \subseteq blind'
          /\ plan' = [plan EXCEPT ![k] = r.plan]
          /\ k \notin blind' => version[k] = r.version
          /\ \/ version' = [version EXCEPT ![k] = r.version + 1]
             \/ version' = [version EXCEPT ![k] = @ + 1]
      BY <1>10 DEF CommitSchedule, CommitReschedule, Writes, Blind, Then
    <2>2. /\ request'[o].op = "prune" /\ request'[o].intent = k
          /\ request'[o].version = r.version
      BY <1>0, <2>1 DEF Requests
    <2>3. /\ \A i \in Intents \ {k} : version'[i] = version[i] /\ plan'[i] = plan[i]
          /\ k \notin blind' => version'[k] = version[k] + 1
      BY <1>0, <2>1 DEF TypeOK, TypeRows
    <2>. QED  BY <1>0, <1>2, <2>1, <2>2, <2>3
  <1>11. blind \subseteq blind'
    BY DEF OwnerStep, BeginCreate, BeginSchedule, BeginDecide, BeginCancel, BeginRetry,
       CommitCreate, CommitSchedule, CommitReschedule, CommitApprove, CommitReject,
       CommitCancel, CommitRetry, Abort, Enqueue, Prune, Writes, Decides, Blind
  <1>. QED
    BY <1>3, <1>4, <1>5, <1>6, <1>7, <1>8, <1>9, <1>10, <1>11 DEF OwnerStep

\* A row takes the slot only when it is free.
LEMMA SlotKept ==
    ASSUME SlotInv, NEW k \in Intents,
           \A i \in Intents \ {k} : Occupies(i)' => Occupies(i),
           Occupies(k)' => Occupies(k) \/ SlotFree(k)
    PROVE  SlotInv'
  BY DEF SlotInv, SlotFree, Occupies

LEMMA OwnerKeepsSlot ==
    ASSUME TypeOK, RequestsInv, SlotInv, NEW o \in Owners, OwnerStep(o)
    PROVE  SlotInv'
  <1>1. ASSUME NEW op \in RowOps \union {"reject", "cancel"}, NEW s \in IntentStates, Writes(o, op, s)
        PROVE  SlotInv'
    BY <1>1, WritesSeen, SlotKept DEF Occupies
  <1>2. ASSUME UNCHANGED status  PROVE SlotInv'
    BY <1>2 DEF SlotInv, Occupies
  <1>. QED
    BY <1>1, <1>2 DEF OwnerStep, BeginCreate, BeginSchedule, BeginDecide, BeginCancel,
       BeginRetry, CommitCreate, CommitSchedule, CommitReschedule, CommitApprove,
       CommitReject, CommitCancel, CommitRetry, Abort, Enqueue, Prune, Reading, Decides,
       intentVars, RowOps, IntentStates

-----------------------------------------------------------------------------
(* Steps that write one attempt *)

\* Writing one attempt keeps its intent if what it becomes fits the intent.
LEMMA OneAttemptKeepsIntent ==
    ASSUME NEW x \in Attempts, IntentOf(x) \in Intents, IntentOK(IntentOf(x)),
           SameBinding(IntentOf(x)), StaysCancelled(IntentOf(x)),
           \A a \in Attempts \ {x} : SameAttempt(a),
           attempt[x] # "none", attempt'[x] # "none",
           IntentOf(x) \notin blind' =>
              /\ status'[IntentOf(x)] \in Busy => status[IntentOf(x)] \in Busy
              /\ status[IntentOf(x)] \in Dispatched => status'[IntentOf(x)] \in Dispatched
              /\ status'[IntentOf(x)] = "DISPATCHING" =>
                    \E a \in AttemptsOf(IntentOf(x)) : attempt'[a] \in Live
              /\ AttemptOK(x) => AttemptOK(x)'
    PROVE  Keeps(IntentOf(x))
  <1>. DEFINE i == IntentOf(x)
  <1>. SUFFICES ASSUME i \notin blind'
                PROVE  IntentOK(i)'
    BY DEF Keeps, IntentOK
  <1>1. i \notin blind /\ x \in AttemptsOf(i)
    BY DEF SameBinding, AttemptsOf
  <1>2. /\ AttemptsOf(i)' = AttemptsOf(i)
        /\ \A a \in AttemptsOf(i) : Superseded(a)' <=> Superseded(a)
    <2>1. \A a \in Attempts : IntentOf(a) = i => (attempt'[a] = "none" <=> attempt[a] = "none")
      BY DEF SameAttempt
    <2>. HIDE DEF i
    <2>. QED  BY <2>1, SameAttemptsAreSuperseded DEF i
  <1>3. ASSUME NEW a \in AttemptsOf(i), a # x
        PROVE  AttemptOK(a)'
    <2>1. AttemptOK(a) /\ SameAttempt(a) /\ IntentOf(a) = i
      BY <1>1, <1>3 DEF IntentOK, AttemptsOf
    <2>2. VersionOf(a) <= version'[i] /\ PlanWasApproved(a)'
      BY <2>1 DEF AttemptOK, PlanWasApproved, SameAttempt, SameBinding
    <2>3. attempt'[a] # "FAILED" =>
             status'[i] \in Dispatched /\ VersionOf(a) = version'[i] /\ ~Superseded(a)'
      BY <1>2, <2>1 DEF AttemptOK, SameAttempt, SameBinding
    <2>4. a \notin adminSettled' => Agrees(a)'
      BY <2>1 DEF AttemptOK, SameAttempt, Agrees
    <2>. QED  BY <2>1, <2>2, <2>3, <2>4 DEF AttemptOK, SameAttempt
  <1>4. AttemptOK(x)'
    BY <1>1 DEF IntentOK
  <1>5. status'[i] \in Busy => <<i, version'[i], plan'[i], "APPROVED">> \in approvals'
    BY <1>1 DEF IntentOK, SameBinding
  <1>. QED  BY <1>2, <1>3, <1>4, <1>5 DEF IntentOK

\* Settling a live attempt, with its result or failed before it was sent.
LEMMA SettlingKeepsIntent ==
    ASSUME TypeOK, NEW x \in Attempts, IntentOf(x) \in Intents, IntentOK(IntentOf(x)),
           SameBinding(IntentOf(x)),
           \A a \in Attempts \ {x} : SameAttempt(a),
           attempt[x] # "none",
           NEW s \in {"SUCCEEDED", "FAILED", "UNKNOWN"}, attempt'[x] = s,
           body'[x] = body[x], sends'[x] = sends[x], run'[x] = run[x], adminSettled' = adminSettled,
           unacked \subseteq unacked',
           \A w \in Workers : AboutToSend(w, x)' => AboutToSend(w, x),
           IntentOf(x) \notin blind' /\ AttemptOK(x) =>
              /\ attempt[x] \in Live
              /\ status'[IntentOf(x)] \in Dispatched \ {"DISPATCHING"}
              /\ \/ result'[x] \in {"PUBLISHED", "FAILED", "UNKNOWN"} /\ s = AttemptStateFor(result'[x])
                 \/ result'[x] = "none" /\ s = "FAILED" /\ sends[x] = 0
              /\ s = "FAILED" =>
                    /\ x \in unacked \/ run[x] \in {"none", "FAILED"}
                    /\ \A w \in Workers : ~AboutToSend(w, x)
    PROVE  Keeps(IntentOf(x))
  <1>. DEFINE i == IntentOf(x)
  <1>1. ASSUME i \notin blind'
        PROVE  /\ attempt[x] \in Live /\ AttemptOK(x)
               /\ status[i] \in Dispatched
    <2>1. i \notin blind /\ x \in AttemptsOf(i)
      BY <1>1 DEF SameBinding, AttemptsOf
    <2>2. AttemptOK(x)
      BY <2>1 DEF IntentOK
    <2>3. attempt[x] \in Live
      BY <1>1, <2>2
    <2>. QED  BY <2>2, <2>3 DEF AttemptOK, Live
  <1>2. StaysCancelled(i)
    BY <1>1 DEF StaysCancelled, Dispatched
  <1>3. ASSUME i \notin blind'
        PROVE  AttemptOK(x)'
    <2>1. Superseded(x)' <=> Superseded(x)
      <3>1. \A a \in Attempts : attempt'[a] = "none" <=> attempt[a] = "none"
        BY DEF SameAttempt
      <3>. QED  BY <3>1 DEF Superseded, AttemptsOf
    <2>2. VersionOf(x) <= version'[i] /\ PlanWasApproved(x)'
      BY <1>1, <1>3 DEF AttemptOK, PlanWasApproved, SameBinding
    <2>3. status'[i] \in Dispatched /\ VersionOf(x) = version'[i] /\ ~Superseded(x)'
      BY <1>1, <1>3, <2>1 DEF AttemptOK, SameBinding, Live
    <2>4. Agrees(x)'
      BY <1>1, <1>3 DEF Agrees
    <2>5. s \notin Live
      BY DEF Live
    <2>6. attempt'[x] = "FAILED" =>
             /\ x \in unacked' \/ run'[x] \in {"none", "FAILED"}
             /\ \A w \in Workers : ~AboutToSend(w, x)'
      BY <1>1, <1>3
    <2>7. result'[x] = "none" => attempt'[x] = "FAILED" /\ sends'[x] = 0
      BY <1>1, <1>3
    <2>. QED  BY <2>2, <2>3, <2>4, <2>5, <2>6, <2>7 DEF AttemptOK
  <1>4. i \notin blind' => status'[i] \in Dispatched \ {"DISPATCHING"}
    BY <1>1
  <1>. QED
    BY <1>1, <1>2, <1>3, <1>4, OneAttemptKeepsIntent DEF Busy

\* The intents of the other attempts only see a status that did not move.
LEMMA OthersAreKept ==
    ASSUME NEW x \in Attempts, NEW i \in Intents, IntentOf(x) # i, IntentOK(i),
           SameBinding(i), status'[i] = status[i],
           \A a \in Attempts \ {x} : SameAttempt(a)
    PROVE  Keeps(i)
  <1>1. SameAttempts(i) /\ MildStatus(i)
    BY DEF SameAttempts, MildStatus, StaysCancelled
  <1>. QED  BY <1>1, MildStepKeepsIntent

\* A step that writes no attempt, and no status but as the attempts allow.
LEMMA MildStepsKeepIntents ==
    ASSUME IntentInv, UNCHANGED <<version, plan, approvals, attempt, body, result, sends, run>>,
           adminSettled \subseteq adminSettled', unacked \subseteq unacked',
           blind \subseteq blind',
           \A w \in Workers, a \in Attempts : AboutToSend(w, a)' => AboutToSend(w, a),
           \A i \in Intents : MildStatus(i)
    PROVE  \A i \in Intents : Keeps(i)
  <1>1. ASSUME NEW i \in Intents
        PROVE  SameBinding(i) /\ SameAttempts(i)
    BY DEF SameBinding, SameAttempts, SameAttempt
  <1>. QED  BY <1>1, MildStepKeepsIntent DEF IntentInv

-----------------------------------------------------------------------------
(* The worker *)

\* What a worker step leaves alone for every intent.
LEMMA WorkerBinds ==
    ASSUME NEW w \in Workers, WorkerStep(w)
    PROVE  /\ UNCHANGED <<version, plan, approvals, request, adminSettled>>
           /\ blind \subseteq blind'
           /\ \A i \in Intents : SameBinding(i)
  <1>1. Elsewhere /\ blind \subseteq blind'
    BY DEF WorkerStep, Handles, Take, SyncFails, RecordedNoOp, Refuse, ClaimIntent,
       RecoverQueued, MarkIntentFailed, AssetFails, ClaimAttempt, Post, Acknowledge,
       RecordError, AcknowledgeFails, JobFails, WorkerCrash
  <1>. QED  BY <1>1 DEF Elsewhere, adminVars, SameBinding

\* A worker that moves on, or ends, does not become a sender.
LEMMA NoNewSender ==
    ASSUME TypeOK, NEW w \in Workers, NEW pc \in WorkerPcs \ {"send"},
           wpc' = [wpc EXCEPT ![w] = pc],
           watt' = watt \/ \E a : watt' = [watt EXCEPT ![w] = a]
    PROVE  \A x \in Workers : \A a \in Attempts : AboutToSend(x, a)' => AboutToSend(x, a)
  BY DEF AboutToSend, TypeOK, TypeWorkers

\* A predicated status moves from SCHEDULED or DISPATCHING only.
LEMMA PredicatedStatusMoves ==
    ASSUME TypeOK, NEW i, NEW v, NEW s, PredicatedStatus(i, v, s)
    PROVE  \A k \in Intents :
              \/ status'[k] = status[k]
              \/ k = i /\ version[k] = v /\ status[k] \in CLAIMABLE /\ status'[k] = s
  BY DEF PredicatedStatus, TypeOK, TypeRows

LEMMA MildWorkerKeepsIntents ==
    ASSUME TypeOK, IntentInv, NEW w \in Workers,
           \/ \E j \in JobIds : Take(w, j)
           \/ SyncFails(w) \/ RecordedNoOp(w) \/ Refuse(w) \/ MarkIntentFailed(w)
           \/ Acknowledge(w) \/ AcknowledgeFails(w) \/ JobFails(w) \/ WorkerCrash(w)
    PROVE  \A i \in Intents : Keeps(i)
  <1>1. WorkerStep(w)
    BY DEF WorkerStep, Handles
  <1>2. UNCHANGED <<attempt, body, result, sends, run>> /\ unacked \subseteq unacked'
    BY DEF Take, SyncFails, RecordedNoOp, Refuse, MarkIntentFailed, Acknowledge,
       AcknowledgeFails, JobFails, WorkerCrash, attemptVars, runVars
  <1>3. \A x \in Workers, a \in Attempts : AboutToSend(x, a)' => AboutToSend(x, a)
    BY NoNewSender DEF Take, SyncFails, RecordedNoOp, Refuse, MarkIntentFailed, Acknowledge,
       AcknowledgeFails, JobFails, WorkerCrash, Moves, Finish, WorkerPcs
  <1>4. ASSUME NEW i \in Intents  PROVE MildStatus(i)
    <2>1. CASE UNCHANGED status
      BY <2>1 DEF MildStatus, StaysCancelled
    <2>2. CASE MarkIntentFailed(w)
      <3>1. status'[i] = status[i] \/ (status[i] \in CLAIMABLE /\ status'[i] = "FAILED")
        BY <2>2, PredicatedStatusMoves DEF MarkIntentFailed
      <3>. QED  BY <3>1 DEF MildStatus, StaysCancelled, CLAIMABLE, Busy, Dispatched
    <2>3. CASE Acknowledge(w)
      <3>1. \/ status'[i] = status[i]
            \/ /\ i = IntentOf(watt[w]) /\ version[i] = VersionOf(watt[w])
               /\ status[i] \in CLAIMABLE /\ status'[i] = "DISPATCHING"
        BY <2>3, PredicatedStatusMoves DEF Acknowledge
      <3>2. /\ i = IntentOf(watt[w]) /\ version[i] = VersionOf(watt[w]) /\ status[i] = "SCHEDULED"
            => i \in blind'
        BY <2>3 DEF Acknowledge
      <3>. QED  BY <3>1, <3>2 DEF MildStatus, StaysCancelled, CLAIMABLE
    <2>. QED
      BY <2>1, <2>2, <2>3 DEF Take, SyncFails, RecordedNoOp, Refuse, AcknowledgeFails,
         JobFails, WorkerCrash
  <1>. QED  BY <1>1, <1>2, <1>3, <1>4, WorkerBinds, MildStepsKeepIntents

\* Failing an attempt over its asset: it was not sent.
LEMMA AssetFailsKeepsIntents ==
    ASSUME TypeOK, DispatchInv, OutcomeInv, IntentInv, NEW w \in Workers, AssetFails(w)
    PROVE  \A i \in Intents : Keeps(i)
  <1>1. PICK a \in Attempts : a = watt[w] /\ attempt[a] # "none" /\ IntentOf(a) \in Intents
    BY DEF AssetFails, DispatchInv, HeldExist, Holding, Exists, Attempts, IntentOf
  <1>2. /\ attempt' = [attempt EXCEPT ![a] = "FAILED"]
        /\ PredicatedStatus(IntentOf(a), VersionOf(a), "FAILED")
        /\ blind' = IF attempt[a] = "QUEUED" THEN blind ELSE blind \union {IntentOf(a)}
        /\ UNCHANGED <<body, result, run, unacked, sends>>
        /\ wpc' = [wpc EXCEPT ![w] = "idle"] /\ watt' = [watt EXCEPT ![w] = NoAttempt]
    BY <1>1 DEF AssetFails, Finish, runVars
  <1>3. WorkerStep(w)
    BY DEF WorkerStep, Handles
  <1>4. UNCHANGED adminSettled /\ \A i \in Intents : SameBinding(i)
    BY <1>3, WorkerBinds
  <1>5. \A x \in Workers : \A b \in Attempts : AboutToSend(x, b)' => AboutToSend(x, b)
    BY <1>2, NoNewSender DEF WorkerPcs
  <1>6. attempt'[a] = "FAILED" /\ \A b \in Attempts \ {a} : SameAttempt(b)
    BY <1>2, <1>4, <1>5 DEF TypeOK, TypeAttempts, SameAttempt
  <1>7. IntentOf(a) \notin blind' /\ AttemptOK(a) =>
           /\ attempt[a] = "QUEUED" /\ result[a] = "none" /\ sends[a] = 0 /\ run[a] = "none"
           /\ \A x \in Workers : ~AboutToSend(x, a)
           /\ status'[IntentOf(a)] \in Dispatched \ {"DISPATCHING"}
    <2>. SUFFICES ASSUME IntentOf(a) \notin blind', AttemptOK(a)
                  PROVE  /\ attempt[a] = "QUEUED" /\ result[a] = "none" /\ sends[a] = 0 /\ run[a] = "none"
                         /\ \A x \in Workers : ~AboutToSend(x, a)
                         /\ status'[IntentOf(a)] \in Dispatched \ {"DISPATCHING"}
      OBVIOUS
    <2>1. attempt[a] = "QUEUED"
      BY <1>2
    <2>2. sends[a] = 0 /\ \A x \in Workers : ~AboutToSend(x, a)
      BY <2>1 DEF DispatchInv, UnsentUntilClaimed
    <2>3. run[a] = "none"
      BY <2>2 DEF OutcomeInv, PostsFollowRuns
    <2>4. result[a] = "none" /\ status[IntentOf(a)] \in Dispatched /\ version[IntentOf(a)] = VersionOf(a)
      BY <2>1 DEF AttemptOK, Live
    <2>5. status'[IntentOf(a)] \in Dispatched \ {"DISPATCHING"}
      BY <1>1, <1>2, <2>4 DEF PredicatedStatus, TypeOK, TypeRows, Dispatched, CLAIMABLE
    <2>. QED  BY <2>1, <2>2, <2>3, <2>4, <2>5
  <1>8. Keeps(IntentOf(a))
    <2>1. PICK s \in {"SUCCEEDED", "FAILED", "UNKNOWN"} : s = "FAILED"
      OBVIOUS
    <2>2. IntentOK(IntentOf(a))
      BY <1>1 DEF IntentInv
    <2>3. attempt'[a] = s /\ body'[a] = body[a] /\ sends'[a] = sends[a] /\ run'[a] = run[a]
          /\ result'[a] = result[a] /\ unacked \subseteq unacked'
      BY <1>2, <1>6, <2>1
    <2>. QED  BY <1>1, <1>4, <1>5, <1>6, <1>7, <2>1, <2>2, <2>3, SettlingKeepsIntent DEF Live
  <1>9. \A i \in Intents \ {IntentOf(a)} : status'[i] = status[i]
    BY <1>2, PredicatedStatusMoves
  <1>. QED  BY <1>1, <1>4, <1>6, <1>8, <1>9, OthersAreKept DEF IntentInv

\* A dispatch error settles a live attempt, or overwrites one by id.
LEMMA RecordErrorKeepsIntents ==
    ASSUME TypeOK, DispatchInv, OutcomeInv, IntentInv, NEW w \in Workers, RecordError(w)
    PROVE  \A i \in Intents : Keeps(i)
  <1>. DEFINE o == DeliveryOutcome(wpc[w])
  <1>1. PICK a \in Attempts : a = watt[w] /\ attempt[a] # "none" /\ IntentOf(a) \in Intents
    BY RecordErrorIsTrue DEF Attempts, IntentOf
  <1>2. /\ sends[a] > 0
        /\ o \in {"UNKNOWN", "FAILED"}
        /\ o = "FAILED" => a \in unacked \/ run[a] = "none"
        /\ result' = [result EXCEPT ![a] = IF @ = "none" THEN o ELSE @]
        /\ UNCHANGED <<run, unacked, sends, adminSettled>>
        /\ wpc' = [wpc EXCEPT ![w] = "idle"]
    BY <1>1, RecordErrorIsTrue
  <1>3. /\ attempt' = [attempt EXCEPT ![a] = AttemptStateFor(o)]
        /\ PredicatedStatus(IntentOf(a), VersionOf(a), IntentStateFor(o))
        /\ blind' = IF attempt[a] = "DISPATCHING" THEN blind ELSE blind \union {IntentOf(a)}
        /\ UNCHANGED body /\ watt' = [watt EXCEPT ![w] = NoAttempt]
    BY <1>1 DEF RecordError, Finish
  <1>4. /\ o = "FAILED" => AttemptStateFor(o) = "FAILED" /\ IntentStateFor(o) = "FAILED"
        /\ o = "UNKNOWN" => AttemptStateFor(o) = "UNKNOWN" /\ IntentStateFor(o) = "ACTION_REQUIRED"
    BY DEF AttemptStateFor, IntentStateFor
  <1>. HIDE DEF o
  <1>5. \A i \in Intents : SameBinding(i)
    BY WorkerBinds DEF WorkerStep, Handles
  <1>6. \A x \in Workers : \A b \in Attempts : AboutToSend(x, b)' => AboutToSend(x, b)
    BY <1>2, <1>3, NoNewSender DEF WorkerPcs
  <1>7. attempt'[a] = AttemptStateFor(o) /\ \A b \in Attempts \ {a} : SameAttempt(b)
    BY <1>2, <1>3, <1>6 DEF TypeOK, TypeAttempts, SameAttempt
  <1>8. ASSUME IntentOf(a) \notin blind', AttemptOK(a)
        PROVE  /\ attempt[a] = "DISPATCHING" /\ result'[a] = o
               /\ \A x \in Workers : ~AboutToSend(x, a)
               /\ status'[IntentOf(a)] \in Dispatched \ {"DISPATCHING"}
    <2>1. attempt[a] = "DISPATCHING"
      BY <1>3, <1>8
    <2>2. \A x \in Workers : ~AboutToSend(x, a)
      BY <1>2 DEF DispatchInv, OneSender
    <2>3. result[a] = "none" /\ status[IntentOf(a)] \in Dispatched /\ version[IntentOf(a)] = VersionOf(a)
      BY <1>8, <2>1 DEF AttemptOK, Live
    <2>4. status'[IntentOf(a)] \in Dispatched \ {"DISPATCHING"}
      BY <1>1, <1>2, <1>3, <1>4, <2>3 DEF PredicatedStatus, TypeOK, TypeRows, Dispatched, CLAIMABLE
    <2>5. result'[a] = o
      BY <1>2, <2>3 DEF TypeOK, TypeAttempts
    <2>. QED  BY <2>1, <2>2, <2>4, <2>5
  <1>9. Keeps(IntentOf(a))
    <2>1. PICK s \in {"SUCCEEDED", "FAILED", "UNKNOWN"} : s = AttemptStateFor(o)
      BY <1>2, <1>4
    <2>2. IntentOK(IntentOf(a))
      BY <1>1 DEF IntentInv
    <2>3. attempt'[a] = s /\ body'[a] = body[a] /\ sends'[a] = sends[a] /\ run'[a] = run[a]
      BY <1>2, <1>3, <1>7, <2>1
    <2>4. IntentOf(a) \notin blind' /\ AttemptOK(a) =>
             /\ attempt[a] \in Live
             /\ status'[IntentOf(a)] \in Dispatched \ {"DISPATCHING"}
             /\ result'[a] \in {"PUBLISHED", "FAILED", "UNKNOWN"} /\ s = AttemptStateFor(result'[a])
             /\ s = "FAILED" =>
                   /\ a \in unacked \/ run[a] \in {"none", "FAILED"}
                   /\ \A x \in Workers : ~AboutToSend(x, a)
      BY <1>2, <1>4, <1>8, <2>1 DEF Live
    <2>. QED  BY <1>1, <1>2, <1>5, <1>6, <1>7, <2>2, <2>3, <2>4, SettlingKeepsIntent
  <1>10. \A i \in Intents \ {IntentOf(a)} : status'[i] = status[i]
    BY <1>3, PredicatedStatusMoves
  <1>. QED  BY <1>1, <1>5, <1>7, <1>9, <1>10, OthersAreKept DEF IntentInv

\* The compare-and-swap keeps a live attempt live.
LEMMA ClaimAttemptKeepsIntents ==
    ASSUME TypeOK, DispatchInv, IntentInv, NEW w \in Workers, ClaimAttempt(w)
    PROVE  \A i \in Intents : Keeps(i)
  <1>1. PICK a \in Attempts : a = watt[w] /\ wpc[w] = "asset" /\ IntentOf(a) \in Intents
    BY DEF ClaimAttempt, DispatchInv, HeldExist, Holding, Exists, Attempts, IntentOf
  <1>2. /\ UNCHANGED <<version, plan, approvals, adminSettled, body, result, sends, run, unacked,
                       status>>
        /\ \A i \in Intents : SameBinding(i)
    BY WorkerBinds DEF WorkerStep, Handles, ClaimAttempt, runVars
  <1>3. CASE attempt[a] # "QUEUED"
    <2>1. attempt' = attempt /\ wpc' = [wpc EXCEPT ![w] = "idle"] /\ watt' = [watt EXCEPT ![w] = NoAttempt]
      BY <1>1, <1>3 DEF ClaimAttempt, Finish
    <2>2. \A x \in Workers : \A b \in Attempts : AboutToSend(x, b)' => AboutToSend(x, b)
      BY <2>1, NoNewSender DEF WorkerPcs
    <2>3. UNCHANGED blind /\ \A i \in Intents : MildStatus(i)
      BY <1>2 DEF ClaimAttempt, MildStatus, StaysCancelled
    <2>. QED  BY <1>2, <2>1, <2>2, <2>3, MildStepsKeepIntents
  <1>4. CASE attempt[a] = "QUEUED"
    <2>1. /\ attempt' = [attempt EXCEPT ![a] = "DISPATCHING"]
          /\ wpc' = [wpc EXCEPT ![w] = "send"] /\ watt' = watt /\ blind' = blind
      BY <1>1, <1>4 DEF ClaimAttempt, Moves
    <2>2. \A x \in Workers, b \in Attempts \ {a} : AboutToSend(x, b)' => AboutToSend(x, b)
      BY <1>1, <2>1 DEF AboutToSend, TypeOK, TypeWorkers
    <2>3. attempt'[a] = "DISPATCHING" /\ \A b \in Attempts \ {a} : SameAttempt(b)
      BY <1>2, <2>1, <2>2 DEF SameAttempt, TypeOK, TypeAttempts
    <2>4. AttemptOK(a) => AttemptOK(a)'
      <3>1. Superseded(a)' <=> Superseded(a)
        <4>1. \A b \in Attempts : attempt'[b] = "none" <=> attempt[b] = "none"
          BY <1>4, <2>3 DEF SameAttempt
        <4>. QED  BY <4>1 DEF Superseded, AttemptsOf
      <3>. QED  BY <1>2, <1>4, <2>3, <3>1 DEF AttemptOK, PlanWasApproved, Agrees, Live
    <2>5. Keeps(IntentOf(a))
      <3>1. IntentOK(IntentOf(a)) /\ StaysCancelled(IntentOf(a))
        BY <1>1, <1>2 DEF IntentInv, StaysCancelled
      <3>2. a \in AttemptsOf(IntentOf(a)) /\ attempt'[a] \in Live
        BY <1>4, <2>3 DEF AttemptsOf, Live
      <3>. QED  BY <1>1, <1>2, <1>4, <2>3, <2>4, <3>1, <3>2, OneAttemptKeepsIntent
    <2>. QED  BY <1>1, <1>2, <2>3, <2>5, OthersAreKept DEF IntentInv
  <1>. QED  BY <1>3, <1>4

\* The call: the attempt it is made for has not failed.
LEMMA PostKeepsIntents ==
    ASSUME TypeOK, DispatchInv, IntentInv, NEW w \in Workers, Post(w)
    PROVE  \A i \in Intents : Keeps(i)
  <1>1. PICK a \in Attempts : /\ a = watt[w] /\ wpc[w] = "send" /\ IntentOf(a) \in Intents
                              /\ attempt[a] # "none"
    BY DEF Post, DispatchInv, HeldExist, Holding, Exists, Attempts, IntentOf
  <1>2. /\ UNCHANGED <<version, plan, approvals, adminSettled, attempt, body, result, status,
                       unacked, blind, watt>>
        /\ \A i \in Intents : SameBinding(i)
    BY WorkerBinds DEF WorkerStep, Handles, Post, Moves, attemptVars
  <1>3. \E pc \in {"ack", "ambiguous", "rejected"} : wpc' = [wpc EXCEPT ![w] = pc]
    BY DEF Post, Moves
  <1>4. \A x \in Workers : \A b \in Attempts : AboutToSend(x, b)' => AboutToSend(x, b)
    BY <1>2, <1>3, NoNewSender DEF WorkerPcs
  <1>5. \A b \in Attempts \ {a} : SameAttempt(b)
    <2>1. \A b \in Attempts \ {a} : sends'[b] = sends[b] /\ run'[b] = run[b]
      BY <1>1 DEF Post, TypeOK, TypeHistory, TypeOthers
    <2>. QED  BY <1>2, <1>4, <2>1 DEF SameAttempt
  <1>6. IntentOf(a) \notin blind' /\ AttemptOK(a) => AttemptOK(a)'
    <2>1. AboutToSend(w, a)
      BY <1>1 DEF AboutToSend
    <2>2. AttemptOK(a) => attempt[a] # "FAILED" /\ (attempt[a] \in Live \/ result[a] # "none")
      BY <2>1 DEF AttemptOK
    <2>3. Superseded(a)' <=> Superseded(a)
      BY <1>2 DEF Superseded, AttemptsOf
    <2>. QED  BY <1>2, <2>2, <2>3 DEF AttemptOK, PlanWasApproved, Agrees
  <1>7. Keeps(IntentOf(a))
    <2>1. IntentOK(IntentOf(a)) /\ StaysCancelled(IntentOf(a))
      BY <1>1, <1>2 DEF IntentInv, StaysCancelled
    <2>2. IntentOf(a) \notin blind' /\ status'[IntentOf(a)] = "DISPATCHING"
             => \E b \in AttemptsOf(IntentOf(a)) : attempt'[b] \in Live
      BY <1>2, <2>1 DEF IntentOK
    <2>. QED  BY <1>1, <1>2, <1>5, <1>6, <2>1, <2>2, OneAttemptKeepsIntent
  <1>. QED  BY <1>1, <1>2, <1>5, <1>7, OthersAreKept DEF IntentInv

\* A recovered attempt gets the plan of its intent, which is still the approved one.
LEMMA RecoverQueuedKeepsIntents ==
    ASSUME TypeOK, IntentInv, NEW w \in Workers, RecoverQueued(w)
    PROVE  \A i \in Intents : Keeps(i)
  <1>1. PICK a \in Attempts :
           /\ Recoverable(a) /\ IntentOf(a) = IntentOf(wjob[w])
           /\ body' = [body EXCEPT ![a] = plan[IntentOf(wjob[w])]]
           /\ watt' = [watt EXCEPT ![w] = a]
    BY DEF RecoverQueued, ByKey, VersionAttempts, AttemptsOf
  <1>2. /\ wpc' = [wpc EXCEPT ![w] = "asset"]
        /\ UNCHANGED <<status, attempt, result, run, unacked, sends, blind, version, plan,
                       approvals, adminSettled>>
        /\ \A i \in Intents : SameBinding(i)
    BY WorkerBinds DEF WorkerStep, Handles, RecoverQueued, runVars
  <1>3. \A x \in Workers : \A b \in Attempts : AboutToSend(x, b)' => AboutToSend(x, b)
    BY <1>1, <1>2, NoNewSender DEF WorkerPcs
  <1>4. body'[a] = plan[IntentOf(a)] /\ \A b \in Attempts \ {a} : SameAttempt(b)
    BY <1>1, <1>2, <1>3 DEF SameAttempt, TypeOK, TypeAttempts
  <1>5. /\ IntentOf(a) \in Intents /\ attempt[a] = "QUEUED" /\ a \in AttemptsOf(IntentOf(a))
        /\ version[IntentOf(a)] = VersionOf(a) /\ status[IntentOf(a)] = "DISPATCHING"
    BY <1>1 DEF Recoverable, Attempts, IntentOf, AttemptsOf
  <1>6. IntentOK(IntentOf(a)) /\ StaysCancelled(IntentOf(a))
    BY <1>2, <1>5 DEF IntentInv, StaysCancelled
  <1>7. IntentOf(a) \notin blind' /\ AttemptOK(a) => AttemptOK(a)'
    <2>1. IntentOf(a) \notin blind' => PlanWasApproved(a)'
      BY <1>2, <1>4, <1>5, <1>6 DEF IntentOK, PlanWasApproved, Busy, Dispatched
    <2>2. Superseded(a)' <=> Superseded(a)
      BY <1>2 DEF Superseded, AttemptsOf
    <2>. QED  BY <1>2, <1>3, <1>5, <2>1, <2>2 DEF AttemptOK, Agrees
  <1>8. Keeps(IntentOf(a))
    BY <1>2, <1>4, <1>5, <1>6, <1>7, OneAttemptKeepsIntent DEF Live
  <1>. QED  BY <1>2, <1>4, <1>5, <1>8, OthersAreKept DEF IntentInv

\* The claim: what was tried before has failed, and the row it inserts is the newest.
LEMMA ClaimIntentKeepsIntents ==
    ASSUME TypeOK, DispatchInv, OutcomeInv, IntentInv, NEW w \in Workers, ClaimIntent(w)
    PROVE  \A i \in Intents : Keeps(i)
  <1>0. PICK k, v : k = IntentOf(wjob[w]) /\ v = VersionOf(wjob[w])
    OBVIOUS
  <1>1. PICK a \in NextAttempts(k, v) :
           /\ attempt' = [attempt EXCEPT ![a] = "QUEUED"]
           /\ body' = [body EXCEPT ![a] = plan[k]]
           /\ watt' = [watt EXCEPT ![w] = a]
    BY <1>0 DEF ClaimIntent
  <1>2. /\ a \in Attempts /\ IntentOf(a) = k /\ VersionOf(a) = v /\ attempt[a] = "none"
        /\ k \in Intents /\ v \in Nat
        /\ \A b \in VersionAttempts(k, v) : SeqOf(b) < SeqOf(a)
    <2>1. a \in Attempts /\ IntentOf(a) = k /\ VersionOf(a) = v /\ attempt[a] = "none"
      BY NextAttemptIsNew
    <2>. QED  BY <2>1 DEF NextAttempts, Attempts, IntentOf, VersionOf, Versions
  <1>3. /\ version[k] = v /\ status[k] = "SCHEDULED"
        /\ status' = [status EXCEPT ![k] = "DISPATCHING"]
        /\ wpc' = [wpc EXCEPT ![w] = "asset"]
        /\ UNCHANGED <<result, run, unacked, sends, blind, version, plan, approvals,
                       adminSettled>>
        /\ \A i \in Intents : SameBinding(i)
    BY <1>0, WorkerBinds DEF WorkerStep, Handles, ClaimIntent, runVars
  <1>4. \A x \in Workers : \A b \in Attempts : AboutToSend(x, b)' => AboutToSend(x, b)
    BY <1>1, <1>3, NoNewSender DEF WorkerPcs
  <1>5. attempt'[a] = "QUEUED" /\ body'[a] = plan[k] /\ \A b \in Attempts \ {a} : SameAttempt(b)
    BY <1>1, <1>2, <1>3, <1>4 DEF SameAttempt, TypeOK, TypeAttempts
  <1>6. status'[k] = "DISPATCHING" /\ \A i \in Intents \ {k} : status'[i] = status[i]
    BY <1>2, <1>3 DEF TypeOK, TypeRows
  <1>7. IntentOK(k)
    BY <1>2 DEF IntentInv
  <1>8. AttemptsOf(k)' = AttemptsOf(k) \union {a}
    <2>1. \A b \in Attempts \ {a} : attempt'[b] = attempt[b]
      BY <1>5 DEF SameAttempt
    <2>2. attempt'[a] # "none"
      BY <1>5
    <2>. QED  BY <1>2, <2>1, <2>2 DEF AttemptsOf
  <1>9. ASSUME k \notin blind'
        PROVE  IntentOK(k)'
    <2>1. k \notin blind /\ <<k, v, plan[k], "APPROVED">> \in approvals
      BY <1>3, <1>7, <1>9 DEF IntentOK, Busy
    <2>2. \A b \in AttemptsOf(k) : attempt[b] = "FAILED" /\ AttemptOK(b)
      BY <1>2, <1>3, <1>7, <2>1, NothingOpen DEF Dispatched, IntentOK
    <2>3. ~Superseded(a)'
      <3>1. ASSUME NEW b \in AttemptsOf(k)
            PROVE  VersionOf(b) \in Nat /\ VersionOf(b) <= v
        BY <1>3, <2>2 DEF AttemptOK, AttemptsOf, Attempts, IntentOf, VersionOf, Versions
      <3>2. ASSUME NEW b \in AttemptsOf(k), VersionOf(b) = v
            PROVE  SeqOf(b) \in Nat /\ SeqOf(a) \in Nat /\ SeqOf(b) < SeqOf(a)
        BY <1>2, <3>2 DEF VersionAttempts, AttemptsOf, Attempts, SeqOf, Seqs
      <3>3. ASSUME NEW b \in AttemptsOf(k) \union {a}
            PROVE  ~(VersionOf(b) > VersionOf(a) \/ (VersionOf(b) = VersionOf(a) /\ SeqOf(b) > SeqOf(a)))
        <4>1. SeqOf(a) \in Nat /\ VersionOf(a) = v /\ v \in Nat
          BY <1>2 DEF Attempts, SeqOf, Seqs
        <4>2. CASE b = a
          BY <4>1, <4>2
        <4>3. CASE b \in AttemptsOf(k)
          BY <3>1, <3>2, <4>1, <4>3
        <4>. QED  BY <3>3, <4>2, <4>3
      <3>. QED  BY <1>2, <1>8, <3>3 DEF Superseded
    <2>4. AttemptOK(a)'
      <3>1. result[a] = "none"
        BY <1>2 DEF IntentInv, ResultsHaveAttempts
      <3>. QED
        BY <1>2, <1>3, <1>5, <1>6, <2>1, <2>3, <3>1
        DEF AttemptOK, PlanWasApproved, Agrees, Live, Dispatched
    <2>5. ASSUME NEW b \in AttemptsOf(k)
          PROVE  AttemptOK(b)'
      <3>1. b # a /\ b \in Attempts /\ IntentOf(b) = k /\ SameAttempt(b)
        BY <1>2, <1>5 DEF AttemptsOf
      <3>. QED
        BY <1>3, <2>2, <3>1 DEF AttemptOK, SameAttempt, PlanWasApproved, Agrees, Live
    <2>. QED
      BY <1>3, <1>5, <1>6, <1>8, <2>1, <2>4, <2>5 DEF IntentOK, Live
  <1>10. Keeps(k)
    BY <1>3, <1>9 DEF Keeps, StaysCancelled, IntentOK
  <1>. QED  BY <1>2, <1>3, <1>5, <1>6, <1>10, OthersAreKept DEF IntentInv

LEMMA WorkerKeepsIntents ==
    ASSUME TypeOK, DispatchInv, OutcomeInv, IntentInv, NEW w \in Workers, WorkerStep(w)
    PROVE  \A i \in Intents : Keeps(i)
  BY MildWorkerKeepsIntents, AssetFailsKeepsIntents, RecordErrorKeepsIntents,
     ClaimAttemptKeepsIntents, PostKeepsIntents, RecoverQueuedKeepsIntents,
     ClaimIntentKeepsIntents DEF WorkerStep, Handles

\* A worker gives the slot to no other intent.
LEMMA WorkerKeepsSlot ==
    ASSUME TypeOK, SlotInv, NEW w \in Workers, WorkerStep(w)
    PROVE  SlotInv'
  <1>1. ASSUME NEW i, NEW v, NEW s, PredicatedStatus(i, v, s)
        PROVE  SlotInv'
    BY <1>1, PredicatedStatusMoves DEF SlotInv, Occupies, CLAIMABLE
  <1>2. ASSUME UNCHANGED status  PROVE SlotInv'
    BY <1>2 DEF SlotInv, Occupies
  <1>3. CASE ClaimIntent(w)
    <2>1. \A i \in Intents : status'[i] = status[i] \/ status[i] = "SCHEDULED"
      BY <1>3 DEF ClaimIntent, TypeOK, TypeRows
    <2>. QED  BY <2>1 DEF SlotInv, Occupies
  <1>. QED
    BY <1>1, <1>2, <1>3 DEF WorkerStep, Handles, Take, SyncFails, RecordedNoOp, Refuse,
       RecoverQueued, MarkIntentFailed, AssetFails, ClaimAttempt, Post, Acknowledge,
       RecordError, AcknowledgeFails, JobFails, WorkerCrash

-----------------------------------------------------------------------------
(* The runner, the sweeps, the admin, the queue and the environment *)

\* An execution starts and ends for an attempt that has not failed.
LEMMA ExecuteKeepsIntents ==
    ASSUME TypeOK, OutcomeInv, DispatchInv, IntentInv, NEW a \in Attempts, Execute(a)
    PROVE  \A i \in Intents : Keeps(i)
  <1>1. /\ UNCHANGED <<version, plan, approvals, adminSettled, attempt, body, result, status,
                       unacked, blind, sends, wpc, watt>>
        /\ run[a] = "accepted" /\ IntentOf(a) \in Intents
    BY DEF Execute, Outside, attemptVars, adminVars, workerVars, Attempts, IntentOf
  <1>2. \A i \in Intents : SameBinding(i)
    BY <1>1 DEF SameBinding
  <1>3. \A b \in Attempts \ {a} : SameAttempt(b)
    <2>1. \A b \in Attempts \ {a} : run'[b] = run[b]
      BY DEF Execute, TypeOK, TypeOthers
    <2>. QED  BY <1>1, <2>1 DEF SameAttempt, AboutToSend
  <1>4. AttemptOK(a) => AttemptOK(a)'
    <2>1. Superseded(a)' <=> Superseded(a)
      BY <1>1 DEF Superseded, AttemptsOf
    <2>2. \A w \in Workers : AboutToSend(w, a)' <=> AboutToSend(w, a)
      BY <1>1 DEF AboutToSend
    <2>. QED  BY <1>1, <2>1, <2>2 DEF AttemptOK, PlanWasApproved, Agrees
  <1>5. attempt[a] # "none"
    <2>1. sends[a] > 0
      BY <1>1 DEF OutcomeInv, PostsFollowRuns
    <2>. QED  BY <2>1 DEF DispatchInv, UnsentUntilClaimed
  <1>6. Keeps(IntentOf(a))
    <2>1. IntentOK(IntentOf(a)) /\ StaysCancelled(IntentOf(a))
      BY <1>1 DEF IntentInv, StaysCancelled
    <2>2. IntentOf(a) \notin blind' /\ status'[IntentOf(a)] = "DISPATCHING"
             => \E b \in AttemptsOf(IntentOf(a)) : attempt'[b] \in Live
      BY <1>1, <2>1 DEF IntentOK
    <2>. QED  BY <1>1, <1>2, <1>3, <1>4, <1>5, <2>1, <2>2, OneAttemptKeepsIntent
  <1>. QED  BY <1>1, <1>2, <1>3, <1>6, OthersAreKept DEF IntentInv

\* A callback that records a result settles the live attempt of its intent.
LEMMA CallbackKeepsIntents ==
    ASSUME TypeOK, DispatchInv, OutcomeInv, IntentInv, NEW a \in Attempts, Callback(a)
    PROVE  \A i \in Intents : Keeps(i)
  <1>. DEFINE i == IntentOf(a)
  <1>1. PICK o \in Recorded : o = run[a]
    BY CallbackIsTrue
  <1>2. /\ i \in Intents /\ attempt[a] # "none" /\ result[a] = "none" /\ sends[a] > 0
        /\ result' = [result EXCEPT ![a] = o]
        /\ attempt' = [attempt EXCEPT ![a] = AttemptStateFor(o)]
        /\ status' = IF Superseded(a) THEN status
                     ELSE [status EXCEPT ![i] = IntentStateFor(o)]
        /\ UNCHANGED <<version, plan, approvals, adminSettled, body, blind, sends, run,
                       unacked, wpc, watt>>
    BY <1>1, CallbackIsTrue DEF Callback, Outside, runVars, adminVars, workerVars, Attempts, IntentOf
  <1>. HIDE DEF i
  <1>3. \A k \in Intents : SameBinding(k)
    BY <1>2 DEF SameBinding
  <1>4. attempt'[a] = AttemptStateFor(o) /\ result'[a] = o /\ \A b \in Attempts \ {a} : SameAttempt(b)
    BY <1>2 DEF SameAttempt, AboutToSend, TypeOK, TypeAttempts
  <1>5. PICK s \in {"SUCCEEDED", "FAILED", "UNKNOWN"} : s = AttemptStateFor(o)
    BY DEF AttemptStateFor, Recorded
  <1>6. ASSUME AttemptOK(a)
        PROVE  /\ attempt[a] \in Live
               /\ status'[i] \in Dispatched \ {"DISPATCHING"}
               /\ \A w \in Workers : ~AboutToSend(w, a)
    <2>1. attempt[a] \in Live
      BY <1>2, <1>6 DEF AttemptOK
    <2>2. ~Superseded(a)
      BY <1>6, <2>1 DEF AttemptOK, Live
    <2>3. status'[i] = IntentStateFor(o)
      BY <1>2, <2>2 DEF TypeOK, TypeRows
    <2>4. \A w \in Workers : ~AboutToSend(w, a)
      BY <1>2 DEF DispatchInv, OneSender
    <2>. QED  BY <2>1, <2>3, <2>4 DEF IntentStateFor, Recorded, Dispatched
  <1>7. Keeps(i)
    <2>1. IntentOK(i)
      BY <1>2 DEF IntentInv
    <2>2. s = "FAILED" => run[a] = "FAILED"
      BY <1>1, <1>5 DEF AttemptStateFor, Recorded
    <2>3. \A w \in Workers : AboutToSend(w, a)' => AboutToSend(w, a)
      BY <1>2 DEF AboutToSend
    <2>. QED
      BY <1>2, <1>3, <1>4, <1>5, <1>6, <2>1, <2>2, <2>3, SettlingKeepsIntent
      DEF i, Recorded
  <1>8. \A k \in Intents \ {i} : status'[k] = status[k]
    BY <1>2 DEF TypeOK, TypeRows
  <1>. QED  BY <1>2, <1>3, <1>4, <1>7, <1>8, OthersAreKept DEF IntentInv, i

\* The sweep settles a live attempt as UNKNOWN, or overwrites one by id.
LEMMA FlagStuckKeepsIntents ==
    ASSUME TypeOK, DispatchInv, IntentInv, NEW a \in stuck, FlagStuck(a)
    PROVE  \A i \in Intents : Keeps(i)
  <1>. DEFINE i == IntentOf(a)
  <1>1. /\ a \in Attempts /\ i \in Intents /\ attempt[a] # "none"
        /\ attempt' = [attempt EXCEPT ![a] = "UNKNOWN"]
        /\ result' = [result EXCEPT ![a] = IF @ = "none" THEN "UNKNOWN" ELSE @]
        /\ status' = IF status[i] \in CLAIMABLE
                     THEN [status EXCEPT ![i] = "ACTION_REQUIRED"] ELSE status
        /\ blind' = IF attempt[a] \in Live THEN blind ELSE blind \union {i}
        /\ UNCHANGED <<version, plan, approvals, adminSettled, body, sends, run, unacked, wpc,
                       watt>>
    BY FlagStuckIsTrue DEF FlagStuck, Outside, runVars, adminVars, workerVars, Attempts,
       IntentOf, Live
  <1>. HIDE DEF i
  <1>2. \A k \in Intents : SameBinding(k)
    BY <1>1 DEF SameBinding
  <1>3. /\ attempt'[a] = "UNKNOWN" /\ result'[a] = IF result[a] = "none" THEN "UNKNOWN" ELSE result[a]
        /\ \A b \in Attempts \ {a} : SameAttempt(b)
    BY <1>1 DEF SameAttempt, AboutToSend, TypeOK, TypeAttempts
  <1>4. ASSUME i \notin blind', AttemptOK(a)
        PROVE  /\ attempt[a] \in Live /\ result'[a] = "UNKNOWN"
               /\ status'[i] \in Dispatched \ {"DISPATCHING"}
    <2>1. attempt[a] \in Live
      BY <1>1, <1>4
    <2>2. result[a] = "none" /\ status[i] \in Dispatched
      BY <1>4, <2>1 DEF AttemptOK, Live, i
    <2>3. status'[i] \in Dispatched \ {"DISPATCHING"}
      BY <1>1, <2>2 DEF TypeOK, TypeRows, Dispatched, CLAIMABLE
    <2>. QED  BY <1>3, <2>1, <2>2, <2>3
  <1>5. Keeps(i)
    <2>1. PICK s \in {"SUCCEEDED", "FAILED", "UNKNOWN"} :
             s = "UNKNOWN" /\ s = AttemptStateFor("UNKNOWN")
      BY DEF AttemptStateFor
    <2>2. IntentOK(i)
      BY <1>1 DEF IntentInv
    <2>3. \A w \in Workers : AboutToSend(w, a)' => AboutToSend(w, a)
      BY <1>1 DEF AboutToSend
    <2>. QED  BY <1>1, <1>2, <1>3, <1>4, <2>1, <2>2, <2>3, SettlingKeepsIntent DEF i
  <1>6. \A k \in Intents \ {i} : status'[k] = status[k]
    BY <1>1 DEF TypeOK, TypeRows
  <1>. QED  BY <1>1, <1>2, <1>3, <1>5, <1>6, OthersAreKept DEF IntentInv, i

\* An admin settles a result that is there, of an attempt that is not live.
LEMMA CommitResolveKeepsIntents ==
    ASSUME TypeOK, OutcomeInv, IntentInv, NEW d \in Admins, CommitResolve(d)
    PROVE  \A i \in Intents : Keeps(i)
  <1>1. PICK a \in Attempts : a = resolving[d] /\ a # NoAttempt
    BY DEF CommitResolve, TypeOK, TypeOthers
  <1>2. PICK o \in {"PUBLISHED", "FAILED"} :
           /\ result' = [result EXCEPT ![a] = o]
           /\ status' = IF status[IntentOf(a)] = "ACTION_REQUIRED"
                        THEN [status EXCEPT ![IntentOf(a)] = IntentStateFor(o)] ELSE status
    BY <1>1 DEF CommitResolve
  <1>3. /\ adminSettled' = adminSettled \union {a} /\ blind \subseteq blind'
        /\ UNCHANGED <<version, plan, approvals, attempt, body, sends, run, unacked, wpc,
                       watt>>
        /\ IntentOf(a) \in Intents
    BY <1>1 DEF CommitResolve, Outside, runVars, workerVars, Attempts, IntentOf
  <1>4. result[a] # "none" /\ attempt[a] # "none"
    BY <1>1 DEF OutcomeInv, ResolvedWereUnknown, IntentInv, ResultsHaveAttempts
  <1>5. \A k \in Intents : SameBinding(k)
    BY <1>3 DEF SameBinding
  <1>6. result'[a] = o /\ \A b \in Attempts \ {a} : SameAttempt(b)
    BY <1>2, <1>3 DEF SameAttempt, AboutToSend, TypeOK, TypeAttempts
  <1>7. \/ status'[IntentOf(a)] = status[IntentOf(a)]
        \/ /\ status[IntentOf(a)] = "ACTION_REQUIRED"
           /\ status'[IntentOf(a)] \in {"SUCCEEDED", "FAILED"}
    BY <1>2, <1>3 DEF TypeOK, TypeRows, IntentStateFor
  <1>8. AttemptOK(a) => AttemptOK(a)'
    <2>1. Superseded(a)' <=> Superseded(a)
      BY <1>3 DEF Superseded, AttemptsOf
    <2>2. AttemptOK(a) => attempt[a] \notin Live
      BY <1>4 DEF AttemptOK
    <2>3. AttemptOK(a) /\ attempt[a] # "FAILED" => status'[IntentOf(a)] \in Dispatched
      BY <1>7 DEF AttemptOK, Dispatched
    <2>. QED
      BY <1>3, <1>6, <2>1, <2>2, <2>3 DEF AttemptOK, PlanWasApproved, AboutToSend
  <1>9. Keeps(IntentOf(a))
    <2>1. IntentOK(IntentOf(a)) /\ StaysCancelled(IntentOf(a))
      BY <1>3, <1>7 DEF IntentInv, StaysCancelled
    <2>2. IntentOf(a) \notin blind' /\ status'[IntentOf(a)] = "DISPATCHING"
             => \E b \in AttemptsOf(IntentOf(a)) : attempt'[b] \in Live
      BY <1>3, <1>7, <2>1 DEF IntentOK
    <2>3. /\ status'[IntentOf(a)] \in Busy => status[IntentOf(a)] \in Busy
          /\ status[IntentOf(a)] \in Dispatched => status'[IntentOf(a)] \in Dispatched
      BY <1>7 DEF Busy, Dispatched
    <2>. QED  BY <1>3, <1>4, <1>5, <1>6, <1>8, <2>1, <2>2, <2>3, OneAttemptKeepsIntent
  <1>10. \A k \in Intents \ {IntentOf(a)} : status'[k] = status[k]
    BY <1>2, <1>3 DEF TypeOK, TypeRows
  <1>. QED  BY <1>3, <1>5, <1>6, <1>9, <1>10, OthersAreKept DEF IntentInv

LEMMA RunnerKeepsIntents ==
    ASSUME TypeOK, DispatchInv, OutcomeInv, IntentInv, RunnerStep
    PROVE  (\A i \in Intents : Keeps(i)) /\ SlotInv' /\ UNCHANGED <<request, version, plan, blind>>
  <1>1. PICK a \in Attempts : Execute(a) \/ Callback(a)
    BY DEF RunnerStep
  <1>2. UNCHANGED <<request, version, plan, blind>>
    BY <1>1 DEF Execute, Callback, Outside
  <1>3. CASE Execute(a)
    <2>1. SlotInv'
      BY <1>3 DEF Execute, SlotInv, Occupies, IntentInv
    <2>. QED  BY <1>2, <1>3, <2>1, ExecuteKeepsIntents
  <1>4. CASE Callback(a)
    <2>1. IntentOf(a) \in Intents
      BY DEF Attempts, IntentOf
    <2>2. /\ \A i \in Intents \ {IntentOf(a)} : status'[i] = status[i]
          /\ status'[IntentOf(a)] = status[IntentOf(a)] \/ SlotFree(IntentOf(a))
      BY <1>4, <2>1 DEF Callback, TypeOK, TypeRows
    <2>3. SlotInv'
      BY <2>1, <2>2, SlotKept DEF IntentInv, Occupies
    <2>. QED  BY <1>2, <1>4, <2>3, CallbackKeepsIntents
  <1>. QED  BY <1>1, <1>3, <1>4

\* The steps of the queue, the environment and the reads of sweeps and admins.
LEMMA OthersKeepIntents ==
    ASSUME TypeOK, IntentInv,
           \/ QueueStep \/ ToggleTarget \/ RevokeCandidate
           \/ (SweepStep /\ ~\E a \in stuck : FlagStuck(a))
           \/ (\E d \in Admins, a \in Attempts : BeginResolve(d, a))
           \/ UNCHANGED vars
    PROVE  /\ \A i \in Intents : Keeps(i)
           /\ UNCHANGED <<request, version, plan, blind, attempt, result>>
           /\ SlotInv'
  <1>. DEFINE Same == /\ UNCHANGED <<request, version, plan, approvals, attempt, body, result, sends,
                                     run, unacked, adminSettled, blind, wpc, watt>>
                      /\ \A i \in Intents : status'[i] = status[i] \/
                            (status[i] \in CANCELLABLE_STATUSES /\ status'[i] = "CANCELLED")
  <1>. USE DEF candidateVars, intentVars, attemptVars, runVars, adminVars, workerVars
  <1>1. ASSUME QueueStep  PROVE Same
    BY <1>1 DEF QueueStep, Stall, LoseJob, RemoveOrphan, Elsewhere
  <1>2. ASSUME ToggleTarget  PROVE Same
    BY <1>2 DEF ToggleTarget
  <1>3. ASSUME RevokeCandidate  PROVE Same
    BY <1>3 DEF RevokeCandidate
  <1>4. ASSUME SweepStep /\ ~\E a \in stuck : FlagStuck(a)  PROVE Same
    BY <1>4 DEF SweepStep, SweepReadDue, RecoverMissed, SweepReadStuck, Outside
  <1>5. ASSUME \E d \in Admins, a \in Attempts : BeginResolve(d, a)  PROVE Same
    BY <1>5 DEF BeginResolve, Outside
  <1>6. ASSUME UNCHANGED vars  PROVE Same
    BY <1>6, Zenon DEF vars
  <1>7. Same
    BY <1>1, <1>2, <1>3, <1>4, <1>5, <1>6
  <1>8. \A i \in Intents : MildStatus(i)
    BY <1>7 DEF MildStatus, StaysCancelled, CANCELLABLE_STATUSES, Busy, Dispatched
  <1>9. SlotInv'
    BY <1>7 DEF IntentInv, SlotInv, Occupies, CANCELLABLE_STATUSES
  <1>. QED  BY <1>7, <1>8, <1>9, MildStepsKeepIntents DEF AboutToSend

\* No attempt disappears.
LEMMA AttemptsStay ==
    ASSUME TypeOK, DispatchInv, OutcomeInv, IntentInv, [Next]_vars
    PROVE  \A a \in Attempts : attempt[a] # "none" => attempt'[a] # "none"
  <1>. DEFINE Stays == \A a \in Attempts : attempt'[a] = "none" <=> attempt[a] = "none"
  <1>1. ASSUME NEW x \in Attempts, attempt[x] # "none", NEW s, s # "none",
               attempt' = [attempt EXCEPT ![x] = s]
        PROVE  Stays
    BY <1>1 DEF TypeOK, TypeAttempts
  <1>2. ASSUME UNCHANGED attempt  PROVE Stays
    BY <1>2
  <1>3. ASSUME \/ \E o \in Owners : OwnerStep(o)
               \/ QueueStep \/ ToggleTarget \/ RevokeCandidate
               \/ UNCHANGED vars
        PROVE  Stays
    BY <1>2, <1>3, OthersAreQuiet
  <1>4. ASSUME NEW w \in Workers, WorkerStep(w)
        PROVE  Stays \/ ClaimIntent(w)
    <2>1. wpc[w] \in Holding => watt[w] \in Attempts /\ attempt[watt[w]] # "none"
      BY DEF DispatchInv, HeldExist, Exists
    <2>2. CASE AssetFails(w)
      BY <1>1, <2>1, <2>2 DEF AssetFails, Holding
    <2>3. CASE RecordError(w)
      <3>1. AttemptStateFor(DeliveryOutcome(wpc[w])) # "none"
        BY DEF AttemptStateFor, DeliveryOutcome
      <3>. QED  BY <1>1, <2>1, <2>3, <3>1 DEF RecordError, Holding
    <2>4. CASE ClaimAttempt(w)
      BY <1>1, <1>2, <2>1, <2>4 DEF ClaimAttempt, Holding
    <2>5. CASE UNCHANGED attempt
      BY <1>2, <2>5
    <2>. QED
      BY <1>4, <2>2, <2>3, <2>4, <2>5 DEF WorkerStep, Handles, Take, SyncFails, RecordedNoOp,
         Refuse, RecoverQueued, MarkIntentFailed, Post, Acknowledge, AcknowledgeFails,
         JobFails, WorkerCrash, attemptVars
  <1>5. ASSUME NEW w \in Workers, ClaimIntent(w)
        PROVE  \A a \in Attempts : attempt[a] # "none" => attempt'[a] # "none"
    BY <1>5 DEF ClaimIntent, TypeOK, TypeAttempts
  <1>6. ASSUME RunnerStep  PROVE Stays
    <2>1. ASSUME NEW a \in Attempts, Execute(a)  PROVE Stays
      BY <1>2, <2>1 DEF Execute, attemptVars
    <2>2. ASSUME NEW a \in Attempts, Callback(a)  PROVE Stays
      <3>1. AttemptStateFor(run[a]) # "none"
        BY <2>2 DEF Callback, AttemptStateFor
      <3>. QED  BY <1>1, <2>2, <3>1 DEF Callback
    <2>. QED  BY <1>6, <2>1, <2>2 DEF RunnerStep
  <1>7. ASSUME SweepStep  PROVE Stays
    BY <1>1, <1>2, <1>7, SweepIsQuiet, FlagStuckIsTrue
  <1>8. ASSUME NEW d \in Admins, AdminStep(d)  PROVE Stays
    BY <1>2, <1>8 DEF AdminStep, BeginResolve, CommitResolve, attemptVars
  <1>. QED  BY <1>3, <1>4, <1>5, <1>6, <1>7, <1>8 DEF Next

\* A result is recorded for an attempt that exists.
LEMMA ResultsKept ==
    ASSUME TypeOK, DispatchInv, OutcomeInv, IntentInv, [Next]_vars
    PROVE  ResultsHaveAttempts'
  <1>. DEFINE Kept == \A a \in Attempts : result'[a] = result[a] \/ attempt[a] # "none"
  <1>1. ASSUME \/ \E o \in Owners : OwnerStep(o)
               \/ QueueStep \/ ToggleTarget \/ RevokeCandidate
               \/ UNCHANGED vars
        PROVE  Kept
    BY <1>1, OthersAreQuiet
  <1>2. ASSUME NEW w \in Workers, WorkerStep(w)  PROVE Kept
    <2>1. CASE Post(w)
      BY <2>1 DEF Post, attemptVars
    <2>2. CASE RecordError(w)
      BY <2>2, RecordErrorIsTrue DEF TypeOK, TypeAttempts
    <2>3. CASE AcknowledgeFails(w)
      BY <2>3 DEF AcknowledgeFails, attemptVars
    <2>4. CASE ~Post(w) /\ ~RecordError(w) /\ ~AcknowledgeFails(w)
      BY <1>2, <2>4, WorkerIsQuiet DEF Quiet
    <2>. QED  BY <2>1, <2>2, <2>3, <2>4
  <1>3. ASSUME RunnerStep  PROVE Kept
    BY <1>3 DEF RunnerStep, Execute, Callback, attemptVars, TypeOK, TypeAttempts
  <1>4. ASSUME SweepStep  PROVE Kept
    BY <1>4, SweepIsQuiet, FlagStuckIsTrue DEF TypeOK, TypeAttempts
  <1>5. ASSUME NEW d \in Admins, AdminStep(d)  PROVE Kept
    <2>1. ASSUME NEW a \in Attempts, BeginResolve(d, a)  PROVE Kept
      BY <2>1 DEF BeginResolve, attemptVars
    <2>2. CASE CommitResolve(d)
      <3>1. PICK a \in Attempts : a = resolving[d] /\ a # NoAttempt
        BY <2>2 DEF CommitResolve, TypeOK, TypeOthers
      <3>2. attempt[a] # "none"
        BY <3>1 DEF OutcomeInv, ResolvedWereUnknown, IntentInv, ResultsHaveAttempts
      <3>. QED  BY <2>2, <3>1, <3>2 DEF CommitResolve, TypeOK, TypeAttempts
    <2>. QED  BY <1>5, <2>1, <2>2 DEF AdminStep
  <1>6. Kept
    BY <1>1, <1>2, <1>3, <1>4, <1>5 DEF Next
  <1>. QED  BY <1>6, AttemptsStay DEF IntentInv, ResultsHaveAttempts

LEMMA IntentStep ==
    ASSUME TypeOK, DispatchInv, OutcomeInv, IntentInv, [Next]_vars
    PROVE  IntentInv' /\ \A i \in Intents : Keeps(i)
  <1>. DEFINE Kept == RequestsInv' /\ SlotInv' /\ \A i \in Intents : Keeps(i)
  <1>1. ASSUME NEW o \in Owners, OwnerStep(o)  PROVE Kept
    <2>1. \A i \in Intents : Keeps(i)
      <3>1. CASE \/ CommitCreate(o) \/ CommitSchedule(o) \/ CommitReschedule(o)
                 \/ CommitApprove(o) \/ CommitReject(o) \/ CommitCancel(o) \/ CommitRetry(o)
        BY <3>1, CommitKeepsIntents
      <3>2. CASE UNCHANGED <<intentVars, blind>>
        BY <1>1, <3>2, ReadingKeepsIntents
      <3>. QED
        BY <1>1, <3>1, <3>2 DEF OwnerStep, BeginCreate, BeginSchedule, BeginDecide,
           BeginCancel, BeginRetry, Abort, Enqueue, Prune, Reading
    <2>. QED  BY <1>1, <2>1, OwnerKeepsRequests, OwnerKeepsSlot DEF IntentInv
  <1>2. ASSUME NEW w \in Workers, WorkerStep(w)  PROVE Kept
    <2>1. RequestsInv'
      BY <1>2, WorkerBinds, RequestsUntouched DEF IntentInv
    <2>. QED  BY <1>2, <2>1, WorkerKeepsIntents, WorkerKeepsSlot DEF IntentInv
  <1>3. ASSUME RunnerStep  PROVE Kept
    <2>1. RequestsInv'
      BY <1>3, RunnerKeepsIntents, RequestsUntouched DEF IntentInv
    <2>. QED  BY <1>3, <2>1, RunnerKeepsIntents
  <1>4. ASSUME NEW a \in stuck, FlagStuck(a)  PROVE Kept
    <2>1. UNCHANGED <<request, version, plan>> /\ blind \subseteq blind'
      BY <1>4 DEF FlagStuck, Outside
    <2>2. \A i \in Intents : status'[i] = status[i] \/ status[i] \in CLAIMABLE
      BY <1>4 DEF FlagStuck, TypeOK, TypeRows
    <2>3. SlotInv'
      BY <2>2 DEF IntentInv, SlotInv, Occupies, CLAIMABLE
    <2>. QED  BY <1>4, <2>1, <2>3, FlagStuckKeepsIntents, RequestsUntouched DEF IntentInv
  <1>5. ASSUME NEW d \in Admins, CommitResolve(d)  PROVE Kept
    <2>1. UNCHANGED <<request, version, plan>> /\ blind \subseteq blind'
      BY <1>5 DEF CommitResolve, Outside
    <2>2. \A i \in Intents : status'[i] = status[i] \/ status[i] = "ACTION_REQUIRED"
      BY <1>5 DEF CommitResolve, TypeOK, TypeRows
    <2>3. SlotInv'
      BY <2>2 DEF IntentInv, SlotInv, Occupies
    <2>. QED  BY <1>5, <2>1, <2>3, CommitResolveKeepsIntents, RequestsUntouched DEF IntentInv
  <1>6. ASSUME \/ QueueStep \/ ToggleTarget \/ RevokeCandidate
               \/ (SweepStep /\ ~\E a \in stuck : FlagStuck(a))
               \/ (\E d \in Admins, a \in Attempts : BeginResolve(d, a))
               \/ UNCHANGED vars
        PROVE  Kept
    BY <1>6, OthersKeepIntents, RequestsUntouched DEF IntentInv
  <1>7. Kept
    BY <1>1, <1>2, <1>3, <1>4, <1>5, <1>6 DEF Next, AdminStep
  <1>. QED  BY <1>7, ResultsKept DEF IntentInv, Keeps

-----------------------------------------------------------------------------
(* What the lifecycle promises of an intent *)

\* The inductive invariant of the intents (intents.service.ts and its indexes)
\* holds, with those of the attempts it rests on.
THEOREM IntentInvHolds == Spec => [](TypeOK /\ DispatchInv /\ OutcomeInv /\ IntentInv)
  <1>1. Init => IntentInv
    <2>. SUFFICES ASSUME Init  PROVE IntentInv
      OBVIOUS
    <2>1. /\ status = [i \in Intents |-> "absent"] /\ request = [o \in Owners |-> Idle]
          /\ attempt = [a \in Attempts |-> "none"] /\ result = [a \in Attempts |-> "none"]
      BY Zenon DEF Init
    <2>2. SlotInv /\ ResultsHaveAttempts
      BY <2>1 DEF SlotInv, Occupies, ResultsHaveAttempts
    <2>3. RequestsInv
      BY <2>1 DEF RequestsInv, RequestRemembers, Idle
    <2>4. \A i \in Intents : IntentOK(i)
      BY <2>1 DEF IntentOK, Busy, Dispatched, AttemptsOf
    <2>. QED  BY <2>2, <2>3, <2>4 DEF IntentInv
  <1>2. TypeOK /\ DispatchInv /\ OutcomeInv /\ IntentInv /\ [Next]_vars => IntentInv'
    BY IntentStep
  <1>. QED  BY <1>1, <1>2, OutcomesHold, PTL DEF Spec

\* Of the attempts of an intent, over its versions and retries, one is in flight
\* (the claim's compare-and-swap, and retryIntent's check of the last attempt).
THEOREM OneLiveAttempt == Spec => []OneLiveAttemptUnlessBlind
  <1>1. TypeOK /\ IntentInv => OneLiveAttemptUnlessBlind
    <2>. SUFFICES ASSUME TypeOK, IntentInv, NEW a \in Attempts, NEW b \in Attempts,
                         IntentOf(a) = IntentOf(b), IntentOf(a) \notin blind,
                         {attempt[a], attempt[b]} \subseteq Live
                  PROVE  a = b
      BY DEF OneLiveAttemptUnlessBlind, Live
    <2>1. /\ IntentOf(a) \in Intents
          /\ a \in AttemptsOf(IntentOf(a)) /\ b \in AttemptsOf(IntentOf(a))
      BY DEF Attempts, IntentOf, AttemptsOf, Live
    <2>2. ~Superseded(a) /\ ~Superseded(b)
      BY <2>1 DEF IntentInv, IntentOK, AttemptOK, Live
    <2>. QED  BY <2>1, <2>2, NewestIsOne
  <1>. QED  BY <1>1, IntentInvHolds, PTL

\* What was sent is a plan the owner approved: the body is built from the row, which
\* keeps its approved plan as long as nobody wrote what he had not seen.
THEOREM SentPlanWasApproved == Spec => []SentPlanWasApprovedUnlessBlind
  <1>1. DispatchInv /\ IntentInv => SentPlanWasApprovedUnlessBlind
    <2>. SUFFICES ASSUME DispatchInv, IntentInv, NEW a \in Attempts, sends[a] > 0,
                         IntentOf(a) \notin blind
                  PROVE  PlanWasApproved(a)
      BY DEF SentPlanWasApprovedUnlessBlind
    <2>1. attempt[a] # "none"
      BY DEF DispatchInv, UnsentUntilClaimed
    <2>2. IntentOf(a) \in Intents /\ a \in AttemptsOf(IntentOf(a))
      BY <2>1 DEF Attempts, IntentOf, AttemptsOf
    <2>. QED  BY <2>2 DEF IntentInv, IntentOK, AttemptOK
  <1>. QED  BY <1>1, IntentInvHolds, PTL

\* The attempt says what its result says, whoever of worker, callback and sweep
\* wrote first (markResult, handleCallback, flagStuckAttempts).
THEOREM AttemptAgreesWithResult == Spec => []AttemptAgreesWithResultUnlessBlind
  <1>1. IntentInv => AttemptAgreesWithResultUnlessBlind
    <2>. SUFFICES ASSUME IntentInv, NEW a \in Attempts \ adminSettled,
                         IntentOf(a) \notin blind, result[a] # "none"
                  PROVE  Agrees(a)
      BY DEF AttemptAgreesWithResultUnlessBlind, Agrees
    <2>1. IntentOf(a) \in Intents /\ a \in AttemptsOf(IntentOf(a))
      BY DEF Attempts, IntentOf, AttemptsOf, IntentInv, ResultsHaveAttempts
    <2>. QED  BY <2>1 DEF IntentInv, IntentOK, AttemptOK
  <1>. QED  BY <1>1, IntentInvHolds, PTL

\* An intent that says DISPATCHING has an attempt that somebody will settle (the
\* claim of dispatch.processor.ts, and every write that settles an attempt).
THEOREM DispatchingHasAttempt == Spec => []DispatchingHasAttemptUnlessBlind
  <1>1. IntentInv => DispatchingHasAttemptUnlessBlind
    BY DEF IntentInv, IntentOK, DispatchingHasAttemptUnlessBlind, Live
  <1>. QED  BY <1>1, IntentInvHolds, PTL

\* The candidate is posted once: the slot allows one intent, of an intent only the
\* newest attempt may have posted, and of an attempt there is one execution.  A
\* second post needs a write that had not seen what it replaced, or the failed
\* acknowledgement of one of the two attempts (dispatch.processor.ts).
THEOREM OnePostUnlessBlindOrUnacked == Spec => []DuplicatePostNeedsBlindOrUnacked
  <1>1. TypeOK /\ DispatchInv /\ OutcomeInv /\ IntentInv => DuplicatePostNeedsBlindOrUnacked
    <2>. SUFFICES ASSUME TypeOK, DispatchInv, OutcomeInv, IntentInv,
                         NEW a \in Attempts, NEW b \in Attempts
                  PROVE  /\ posts[a] <= 1
                         /\ posts[a] > 0 /\ posts[b] > 0 =>
                               a = b \/ blind # {} \/ {a, b} \intersect unacked # {}
      BY DEF DuplicatePostNeedsBlindOrUnacked
    <2>1. posts[a] <= 1
      BY DEF OutcomeInv, PostsFollowRuns
    <2>2. ASSUME NEW x \in Attempts, posts[x] > 0, x \notin unacked, blind = {}
          PROVE  /\ IntentOf(x) \in Intents /\ x \in AttemptsOf(IntentOf(x))
                 /\ ~Superseded(x) /\ Occupies(IntentOf(x))
      <3>1. run[x] \notin {"none", "accepted", "FAILED"} /\ sends[x] > 0
        BY <2>2 DEF OutcomeInv, PostsFollowRuns
      <3>2. attempt[x] # "none"
        BY <3>1 DEF DispatchInv, UnsentUntilClaimed
      <3>3. IntentOf(x) \in Intents /\ x \in AttemptsOf(IntentOf(x))
        BY <3>2 DEF Attempts, IntentOf, AttemptsOf
      <3>4. AttemptOK(x)
        BY <2>2, <3>3 DEF IntentInv, IntentOK
      <3>. QED  BY <2>2, <3>1, <3>3, <3>4 DEF AttemptOK, Occupies, Dispatched
    <2>3. ASSUME posts[a] > 0, posts[b] > 0, a \notin unacked, b \notin unacked, blind = {}
          PROVE  a = b
      <3>1. IntentOf(a) = IntentOf(b)
        BY <2>2, <2>3 DEF IntentInv, SlotInv
      <3>. QED  BY <2>2, <2>3, <3>1, NewestIsOne
    <2>. QED  BY <2>1, <2>3
  <1>. QED  BY <1>1, IntentInvHolds, PTL

\* No step brings a cancelled intent back: not a claim, a callback of an attempt
\* made before, a sweep or an admin; only an owner's write by id may.
THEOREM CancelledStays == Spec => CancelledStaysUnlessBlind
  <1>1. TypeOK /\ DispatchInv /\ OutcomeInv /\ IntentInv /\ [Next]_vars =>
           [\A i \in Intents :
              status[i] = "CANCELLED" => status'[i] = "CANCELLED" \/ i \in blind']_vars
    BY IntentStep DEF Keeps, StaysCancelled
  <1>. QED  BY <1>1, IntentInvHolds, PTL DEF Spec, CancelledStaysUnlessBlind
=============================================================================
