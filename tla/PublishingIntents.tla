------------------------- MODULE PublishingIntents --------------------------
(***************************************************************************)
(* The publication lifecycle: the owner, the dispatch workers, the queue,  *)
(* the runner, the sweeps, the admin and the environment together, and     *)
(* what they promise.                                                      *)
(***************************************************************************)
EXTENDS PublishingRequests, PublishingWorker, PublishingRunner,
        PublishingRecovery, PublishingEnvironment

OwnerStep(o) ==
    \/ \E i \in Intents : \/ BeginCreate(o, i)
                          \/ \E p \in Plans : BeginSchedule(o, i, p)
                          \/ BeginDecide(o, i)
                          \/ BeginCancel(o, i)
                          \/ BeginRetry(o, i)
    \/ CommitCreate(o) \/ CommitSchedule(o) \/ CommitReschedule(o)
    \/ CommitApprove(o) \/ CommitReject(o) \/ CommitCancel(o) \/ CommitRetry(o)
    \/ Abort(o) \/ Enqueue(o) \/ Prune(o)

Handles(w) ==
    \/ SyncFails(w) \/ RecordedNoOp(w) \/ Refuse(w) \/ ClaimIntent(w)
    \/ RecoverQueued(w) \/ MarkIntentFailed(w) \/ AssetFails(w)
    \/ ClaimAttempt(w) \/ Post(w) \/ Acknowledge(w) \/ RecordError(w)

WorkerStep(w) ==
    \/ \E j \in JobIds : Take(w, j)
    \/ Handles(w)
    \/ AcknowledgeFails(w)
    \/ JobFails(w)
    \/ WorkerCrash(w)

QueueStep == \E j \in JobIds : Stall(j) \/ LoseJob(j) \/ RemoveOrphan(j)

RunnerStep == \E a \in Attempts : Execute(a) \/ Callback(a)

SweepStep ==
    \/ \E i \in Intents, origin \in {"recover", "resync"} : SweepReadDue(i, origin)
    \/ \E d \in due : RecoverMissed(d)
    \/ \E a \in Attempts : SweepReadStuck(a)
    \/ \E a \in stuck : FlagStuck(a)

AdminStep(d) == (\E a \in Attempts : BeginResolve(d, a)) \/ CommitResolve(d)

Next ==
    \/ \E o \in Owners : OwnerStep(o)
    \/ \E w \in Workers : WorkerStep(w)
    \/ QueueStep
    \/ RunnerStep
    \/ SweepStep
    \/ \E d \in Admins : AdminStep(d)
    \/ ToggleTarget
    \/ RevokeCandidate

Spec == Init /\ [][Next]_vars

\* Workers keep consuming and finish what they hold, BullMQ notices a lock
\* that its dead worker no longer renews, a committed request reaches its
\* queue.add unless the API dies, and the cron sweeps keep running.  Owners,
\* admins, the runner and the faults owe nothing.
Abandoned(j) == job[j] \in Workers /\ wjob[job[j]] # j

Fairness ==
    /\ \A o \in Owners : WF_vars(Enqueue(o))
    /\ \A w \in Workers : /\ WF_vars(\E j \in JobIds : Take(w, j))
                          /\ WF_vars(Handles(w))
    /\ \A j \in JobIds : WF_vars(Abandoned(j) /\ Stall(j))
    /\ \A i \in Intents : /\ WF_vars(SweepReadDue(i, "recover"))
                          /\ \A v \in Versions : WF_vars(RecoverMissed(<<i, v, "recover">>))
    /\ \A a \in Attempts : WF_vars(SweepReadStuck(a)) /\ WF_vars(FlagStuck(a))

FairSpec == Spec /\ Fairness

-----------------------------------------------------------------------------
(* Properties *)

\* Every row, job and process is in a state the schema and the code allow.
TypeRows ==
    /\ active \in BOOLEAN
    /\ connected \in BOOLEAN
    /\ status \in [Intents -> IntentStates]
    /\ version \in [Intents -> Versions]
    /\ plan \in [Intents -> Plans \union {NoPlan}]
    /\ approvals \subseteq Intents \X (0..MaxVersion) \X (Plans \union {NoPlan}) \X Decisions
    /\ lastDecision \in [Intents -> 0..MaxVersion]
TypeAttempts ==
    /\ attempt \in [Attempts -> AttemptStates]
    /\ keyOf \in [Attempts -> Keys \union {NoKey}]
    /\ body \in [Attempts -> Plans \union {NoPlan}]
    /\ result \in [Attempts -> Outcomes]
TypeQueue ==
    /\ job \in [JobIds -> {"none", "queued", "done"} \union Workers]
    /\ jobKey \in [JobIds -> Keys \union {NoKey}]
    /\ stalled \subseteq JobIds
\* A request in progress is about a row; a schedule has room for its version.
TypeRequests ==
    /\ request \in [Owners -> Requests]
    /\ \A o \in Owners : request[o].op # "idle" => request[o].intent \in Intents
    /\ \A o \in Owners : request[o].op = "schedule" => request[o].version < MaxVersion
\* A busy worker processes a job.
TypeWorkers ==
    /\ wpc \in [Workers -> WorkerPcs]
    /\ wjob \in [Workers -> JobIds \union {NoJob}]
    /\ watt \in [Workers -> Attempts \union {NoAttempt}]
    /\ \A w \in Workers : wpc[w] # "idle" => wjob[w] \in JobIds
TypeOthers ==
    /\ run \in [Attempts -> RunStates]
    /\ due \subseteq Intents \X Versions \X {"recover", "resync"}
    /\ stuck \subseteq Attempts
    /\ resolving \in [Admins -> Attempts \union {NoAttempt}]
    /\ adminSettled \subseteq Attempts
TypeHistory ==
    /\ sends \in [Attempts -> Nat]
    /\ posts \in [Attempts -> Nat]
    /\ unacked \subseteq Attempts
    /\ blind \subseteq Intents
TypeOK ==
    /\ TypeRows
    /\ TypeAttempts
    /\ TypeQueue
    /\ TypeRequests
    /\ TypeWorkers
    /\ TypeOthers
    /\ TypeHistory

\* A job redelivered while its first worker is alive, a crash, or a replay
\* never makes two POSTs of one attempt (claimAttempt's compare-and-swap).
AttemptSentOnce == \A a \in Attempts : sends[a] <= 1

\* Why AttemptSentOnce and SentWasApproved hold, as an inductive invariant: a
\* worker may send only the attempt it took from QUEUED to DISPATCHING, and no
\* step brings an attempt back to QUEUED (claimAttempt and the writes by id).
Holding == {"asset", "send", "ack", "ambiguous", "rejected"}
Exists(a) == a \in Attempts /\ attempt[a] # "none"
AboutToSend(w, a) == wpc[w] = "send" /\ watt[w] = a
DispatchTypes ==
    /\ attempt \in [Attempts -> AttemptStates]
    /\ sends \in [Attempts -> Nat]
    /\ wpc \in [Workers -> WorkerPcs]
    /\ watt \in [Workers -> Attempts \union {NoAttempt}]
HeldExist ==
    /\ \A w \in Workers : wpc[w] \in Holding => Exists(watt[w])
    /\ \A a \in stuck : Exists(a)
ExistingApproved ==
    \A a \in Attempts : attempt[a] # "none" => Approved(IntentOf(a), VersionOf(a))
UnsentUntilClaimed ==
    \A a \in Attempts : attempt[a] \in {"none", "QUEUED"} =>
        sends[a] = 0 /\ \A w \in Workers : ~AboutToSend(w, a)
OneSender ==
    \A a \in Attempts, w \in Workers : AboutToSend(w, a) =>
        sends[a] = 0 /\ \A x \in Workers : AboutToSend(x, a) => x = w
DispatchInv ==
    /\ DispatchTypes
    /\ HeldExist
    /\ ExistingApproved
    /\ UnsentUntilClaimed
    /\ OneSender
    /\ AttemptSentOnce

\* What became of the right to send an attempt: nobody's while it is QUEUED, its
\* sender's until the POST, gone when the sender died or was overtaken.
Phase(a) ==
    CASE attempt[a] = "none"   -> "absent"
      [] attempt[a] = "QUEUED" -> "reserved"
      [] attempt[a] \notin {"none", "QUEUED"} ->
            IF sends[a] > 0 THEN "sent"
            ELSE IF \E w \in Workers : AboutToSend(w, a) THEN "claimed" ELSE "dead"

Dispatch == INSTANCE PublicationDispatch
    WITH phase     <- [a \in Attempts |-> Phase(a)],
         posted    <- {a \in Attempts : posts[a] > 0},
         outcome   <- result,
         resolved  <- adminSettled,
         forgotten <- unacked

\* The lifecycle implements the dispatch it promises: one sender for an attempt,
\* one POST, one post, and an outcome on record that is what happened, unless the
\* runner's acceptance could not be written.
ImplementsDispatch == Dispatch!Spec

\* Nothing is sent for a version that the owner did not approve, even when an
\* approval is written over a reschedule (check 3 of the revalidation).
SentWasApproved ==
    \A a \in Attempts : sends[a] > 0 => Approved(IntentOf(a), VersionOf(a))

PlanWasApproved(a) ==
    <<IntentOf(a), VersionOf(a), body[a], "APPROVED">> \in approvals

\* The target and time in a dispatch body are the ones the owner approved (the
\* body is built from the row, not from the approval), whatever crosses, as
\* long as no write by id replaced a row changed since its transaction read it.
SentPlanWasApprovedUnlessBlind ==
    \A a \in Attempts : sends[a] > 0 => PlanWasApproved(a) \/ IntentOf(a) \in blind

\* A candidate is posted at most once: retry, redelivery and reschedule never
\* make a second remote post (the slot statuses and section 16 of the doc).
AtMostOnePost ==
    \A a, b \in Attempts : /\ posts[a] <= 1
                           /\ posts[a] > 0 /\ posts[b] > 0 => a = b

\* An attempt is posted once, and two attempts of the candidate are both posted
\* only if one of them lost its acknowledgement (it was recorded FAILED, and the
\* owner retried), or a write by id replaced a changed row, or a retry judged an
\* attempt of an older version: no other interleaving of retries, crashes, lost
\* answers and sweeps does it.
DuplicatePostNeedsBlindOrUnacked ==
    \A a, b \in Attempts :
        /\ posts[a] <= 1
        /\ posts[a] > 0 /\ posts[b] > 0 =>
              a = b \/ blind # {} \/ {a, b} \intersect unacked # {}

\* A retry is accepted against a proven failure: the newest attempt FAILED
\* (retryIntent means to block the retry of what may have been published).
RetryJudgesNewestUnlessBlind ==
    [][\A o \in Owners : request[o].op = "idle" /\ request'[o].op = "retry" =>
            LET i == request'[o].intent
            IN  i \in blind \/ \A a \in Newest(i) : attempt[a] = "FAILED"]_vars

\* An intent has one attempt in flight, across its versions and retries.
OneLiveAttemptUnlessBlind ==
    \A a, b \in Attempts :
        /\ IntentOf(a) = IntentOf(b) /\ IntentOf(a) \notin blind
        /\ {attempt[a], attempt[b]} \subseteq {"QUEUED", "DISPATCHING"}
        => a = b

\* A result that no admin settled tells what the provider did: what was or will
\* be posted is never recorded as FAILED, which would make it retryable, unless
\* the acknowledgement failed after the runner had accepted.
ResultsAreTruthfulUnlessUnacked ==
    \A a \in Attempts \ adminSettled :
        /\ result[a] = "FAILED" =>
              a \in unacked \/ (posts[a] = 0 /\ run[a] # "accepted")
        /\ result[a] = "PUBLISHED" => posts[a] = 1

Agrees(a) == result[a] # "none" => attempt[a] = AttemptStateFor(result[a])

\* The attempt says what its result says (worker, callback and sweep each write
\* both rows), until an admin settles the result, and unless the worker or the
\* sweep wrote the attempt by id over a change.
AttemptAgreesWithResultUnlessBlind ==
    \A a \in Attempts \ adminSettled : Agrees(a) \/ IntentOf(a) \in blind

\* A DISPATCHING intent has an attempt in flight, that a callback, an error or
\* the sweep will settle (the claim creates both in one transaction), unless a
\* step wrote over what it had not seen, as a late acknowledgement of an attempt
\* does after its failure and the retry: that intent is DISPATCHING for ever.
DispatchingHasAttemptUnlessBlind ==
    \A i \in Intents \ blind : status[i] = "DISPATCHING" =>
        \E a \in AttemptsOf(i) : attempt[a] \in {"QUEUED", "DISPATCHING"}

\* A cancelled intent stays cancelled (the transition table of the contract),
\* unless a request that read it before wrote over the cancellation, or was
\* itself the cancellation written over a change.
CancelledStaysUnlessBlind ==
    [][\A i \in Intents :
        status[i] = "CANCELLED" => status'[i] = "CANCELLED" \/ i \in blind']_vars

\* A settled result is never rewritten, by a late callback, a late error or the
\* sweep; only an admin who read UNKNOWN before may rewrite another admin's.
SettledResultIsFinalUnlessResolved ==
    [][\A a \in Attempts \ adminSettled :
        result[a] \in {"PUBLISHED", "FAILED"} => result'[a] = result[a]]_vars

\* Every attempt is settled in the end, whatever the workers, the network and
\* the runner lose (flagStuckAttempts).
EveryAttemptSettles ==
    \A a \in Attempts :
        attempt[a] \in {"QUEUED", "DISPATCHING"}
            ~> attempt[a] \in {"SUCCEEDED", "FAILED", "UNKNOWN"}

\* An approved publication is served in the end, also when the API died between
\* the commit of the approval and the queue.add (recoverMissedJobs), unless the
\* job of its version is over and retained, after which no sweep can add it.
ServiceIsOver(i) == job[PublishJob(i, version[i])] = "done"
ScheduledIsServedUnlessJobIsOver ==
    \A i \in Intents : status[i] = "SCHEDULED"
        ~> status[i] # "SCHEDULED" \/ ServiceIsOver(i)
=============================================================================
