-------------------------- MODULE PublishingTables --------------------------
(***************************************************************************)
(* The tables, the queue and the processes of the publication lifecycle of *)
(* apps/api: one publishing candidate, its real-mode intents, their        *)
(* approvals, attempts and results, the BullMQ queue "publishing-dispatch",*)
(* and where each request, worker, runner execution, sweep and admin is.   *)
(***************************************************************************)
EXTENDS Naturals

CONSTANTS
    Intents,       \* publishing_intents rows that may exist for the candidate
    Owners,        \* concurrent owner requests (browser tabs, API instances)
    Workers,       \* dispatch workers
    Admins,        \* concurrent admin requests
    Plans,         \* target + local time an owner may choose when scheduling
    MaxVersion,    \* bound: highest intent version
    MaxSeq,        \* bound: highest attempt sequence of one version
    Asked,         \* the kinds of requests the owners make
    Sweeps,        \* the sweeps that run: "recover", "resync", "stuck", "orphans"
    Faults         \* the faults the environment may produce

FaultKinds == {"api crash", "worker crash", "stall", "redis", "asset", "db",
               "sync", "network", "target", "revoke"}

ASSUME BoundsAssumption ==
    /\ MaxVersion \in Nat \ {0}
    /\ MaxSeq \in Nat \ {0}
    /\ Asked \subseteq {"create", "schedule", "approve", "reject", "cancel",
                      "reschedule", "retry"}
    /\ Sweeps \subseteq {"recover", "resync", "stuck", "orphans"}
    /\ Faults \subseteq FaultKinds

Versions == 1..MaxVersion
Seqs     == 1..MaxSeq
Attempts == Intents \X Versions \X Seqs

NoPlan    == "no plan"
NoAttempt == <<"none", 0, 0>>
NoKey     == <<"none", 0>>
NoJob     == <<"none", 0, NoKey>>
Recovery  == <<"recovery", 0>>
Publish   == <<"publish", 0>>

\* Idempotency keys: one per approval decision (its fingerprint is unique), one
\* per retry (owner and failed attempt), one per recovered version.
ApprovalKeys == {"approval"} \X (Plans \union {NoPlan})
RetryKeys    == Owners \X Seqs
Keys         == ApprovalKeys \union RetryKeys \union {Recovery}
\* BullMQ job ids: publish:<intent>:<version>, or one per retry key.
JobIds       == Intents \X Versions \X (RetryKeys \union {Publish})

IntentOf(x)  == x[1]
VersionOf(x) == x[2]
SeqOf(a)     == a[3]

VARIABLES
    active,       \* publishing_candidates.status = ACTIVE
    connected,    \* publishing_targets: CONNECTED and not expired
    status,       \* publishing_intents.status ("absent": no row)
    version,      \* publishing_intents.version
    plan,         \* publishing_intents.target_id, scheduled_local_at
    approvals,    \* publishing_approvals: <<intent, version, plan, decision>>
    lastDecision, \* version of the approval row with the latest decided_at
    attempt,      \* publishing_attempts.status ("none": no row)
    keyOf,        \* publishing_attempts.idempotency_key
    body,         \* the plan in the dispatch body stamped on the attempt
    result,       \* publishing_results.outcome ("none": no row)
    job,          \* BullMQ job: none, queued, the worker holding it, or done
    jobKey,       \* data.idempotencyKey of the job
    stalled,      \* jobs redelivered once (maxStalledCount = 1)
    request,      \* the owner requests in progress
    wpc,          \* where each worker is in DispatchProcessor.process
    wjob,         \* the job each worker processes
    watt,         \* the attempt each worker created or recovered
    run,          \* the n8n execution of an attempt and its outcome
    due,          \* overdue intents read by a sweep or a resync, not yet handled
    stuck,        \* stuck attempts read by a sweep, not yet flagged
    resolving,    \* UNKNOWN results read by an admin, not yet resolved
    sends,        \* history: POSTs of an attempt to n8n
    posts,        \* history: posts that exist on the provider for an attempt
    unacked,      \* history: attempts that the runner accepted and whose
                  \* acknowledgement failed
    blind,        \* history: intents written by a step that had not seen what it
                  \* replaced: a row changed since it was read, or an attempt
                  \* newer than the one it judged
    adminSettled  \* history: results settled by an admin

candidateVars == <<active, connected>>
intentVars    == <<status, version, plan, approvals, lastDecision>>
attemptVars   == <<attempt, keyOf, body, result>>
queueVars     == <<job, jobKey, stalled>>
workerVars    == <<wpc, wjob, watt>>
sweepVars     == <<due, stuck>>
adminVars     == <<resolving, adminSettled>>
runVars       == <<run, posts, unacked>>
vars == <<candidateVars, intentVars, attemptVars, queueVars, workerVars,
          sweepVars, adminVars, runVars, request, sends, blind>>

IntentStates  == {"absent", "DRAFT", "AWAITING_APPROVAL", "SCHEDULED",
                  "DISPATCHING", "SUCCEEDED", "FAILED", "ACTION_REQUIRED",
                  "CANCELLED"}
AttemptStates == {"none", "QUEUED", "DISPATCHING", "SUCCEEDED", "FAILED",
                  "UNKNOWN"}
Outcomes      == {"none", "UNKNOWN", "PUBLISHED", "FAILED"}
RunStates     == {"none", "accepted", "misbound", "UNKNOWN", "PUBLISHED",
                  "FAILED"}
Decisions     == {"APPROVED", "REJECTED"}
OwnerOps      == {"idle", "create", "schedule", "approve", "reject", "cancel",
                  "reschedule", "retry", "prune", "enqueue"}
WorkerPcs     == {"idle", "check", "refused", "asset", "send", "ack",
                  "ambiguous", "rejected"}

\* Requests whose write may take the slot of the candidate.
RowOps        == {"create", "schedule", "reschedule", "approve", "retry"}

\* A definition marked "Slip" alters the one after it, the way the code could
\* go wrong; nothing else uses it.

\* Slip: a publication under way may be cancelled.
DispatchingIsCancellable == {"DRAFT", "AWAITING_APPROVAL", "SCHEDULED", "DISPATCHING"}
CANCELLABLE_STATUSES == {"DRAFT", "AWAITING_APPROVAL", "SCHEDULED"}

\* Slip: a publication under way may be rescheduled.
DispatchingIsReschedulable == {"DRAFT", "AWAITING_APPROVAL", "SCHEDULED", "DISPATCHING"}
SCHEDULABLE == {"DRAFT", "AWAITING_APPROVAL", "SCHEDULED"}

\* Slip: the sweep looks at DISPATCHING attempts only.
QueuedIsNeverStuck == {"DISPATCHING"}
STUCK == {"QUEUED", "DISPATCHING"}

CLAIMABLE == {"SCHEDULED", "DISPATCHING"}
TERMINAL == {"SUCCEEDED", "FAILED", "CANCELLED", "ACTION_REQUIRED"}

Idle == [op |-> "idle", intent |-> "none", version |-> 0, status |-> "absent",
         plan |-> NoPlan, key |-> NoKey]
Requests == [op: OwnerOps, intent: Intents \union {"none"}, version: 0..MaxVersion,
             status: IntentStates, plan: Plans \union {NoPlan},
             key: Keys \union {NoKey}]

Init ==
    /\ active = TRUE
    /\ connected = TRUE
    /\ status = [i \in Intents |-> "absent"]
    /\ version = [i \in Intents |-> 1]
    /\ plan = [i \in Intents |-> NoPlan]
    /\ approvals = {}
    /\ lastDecision = [i \in Intents |-> 0]
    /\ attempt = [a \in Attempts |-> "none"]
    /\ keyOf = [a \in Attempts |-> NoKey]
    /\ body = [a \in Attempts |-> NoPlan]
    /\ result = [a \in Attempts |-> "none"]
    /\ job = [j \in JobIds |-> "none"]
    /\ jobKey = [j \in JobIds |-> NoKey]
    /\ stalled = {}
    /\ request = [o \in Owners |-> Idle]
    /\ wpc = [w \in Workers |-> "idle"]
    /\ wjob = [w \in Workers |-> NoJob]
    /\ watt = [w \in Workers |-> NoAttempt]
    /\ run = [a \in Attempts |-> "none"]
    /\ due = {}
    /\ stuck = {}
    /\ resolving = [d \in Admins |-> NoAttempt]
    /\ sends = [a \in Attempts |-> 0]
    /\ posts = [a \in Attempts |-> 0]
    /\ unacked = {}
    /\ blind = {}
    /\ adminSettled = {}

-----------------------------------------------------------------------------
(* Helpers over the tables *)

\* Slip: an index that leaves the settled intents out.
SlotFreeOfLive(i) ==
    \A j \in Intents \ {i} : status[j] \in TERMINAL \union {"absent"}

\* Partial unique index: one non-cancelled real intent per candidate.
SlotFree(i) == \A j \in Intents \ {i} : status[j] \in {"absent", "CANCELLED"}

AttemptsOf(i)    == {a \in Attempts : IntentOf(a) = i /\ attempt[a] # "none"}
VersionAttempts(i, v) == {a \in AttemptsOf(i) : VersionOf(a) = v}

\* retryIntent orders by attempt_sequence alone: versions may tie.
HighestSeq(i) ==
    {a \in AttemptsOf(i) : \A b \in AttemptsOf(i) : SeqOf(b) <= SeqOf(a)}

\* The callback orders by intent_version, then attempt_sequence.
Superseded(a) ==
    \E b \in AttemptsOf(IntentOf(a)) :
        \/ VersionOf(b) > VersionOf(a)
        \/ VersionOf(b) = VersionOf(a) /\ SeqOf(b) > SeqOf(a)

Newest(i) == {a \in AttemptsOf(i) : ~Superseded(a)}

\* Partial unique index: one PUBLISHED result per intent.
PublishedSlotFree(a) ==
    \A b \in Attempts \ {a} :
        IntentOf(b) = IntentOf(a) => result[b] # "PUBLISHED"

\* Slip: the status predicate dropped, a late write regresses a settled intent.
PredicatedOnVersion(i, v, s) ==
    status' = IF version[i] = v THEN [status EXCEPT ![i] = s] ELSE status

\* updateMany WHERE id, version, status IN (SCHEDULED, DISPATCHING)
PredicatedStatus(i, v, s) ==
    status' = IF version[i] = v /\ status[i] \in CLAIMABLE
              THEN [status EXCEPT ![i] = s] ELSE status

\* queue.add with a jobId: ignored when a job with that id is retained.
AddJob(j, k) ==
    IF job[j] = "none"
    THEN job' = [job EXCEPT ![j] = "queued"] /\ jobKey' = [jobKey EXCEPT ![j] = k]
    ELSE UNCHANGED <<job, jobKey>>

PublishJob(i, v) == <<i, v, Publish>>

\* Slip: the result's outcome taken for the attempt's status.
AttemptStateIsOutcome(outcome) == outcome

AttemptStateFor(outcome) ==
    CASE outcome = "PUBLISHED" -> "SUCCEEDED"
      [] outcome = "FAILED"    -> "FAILED"
      [] outcome = "UNKNOWN"   -> "UNKNOWN"

IntentStateFor(outcome) ==
    CASE outcome = "PUBLISHED" -> "SUCCEEDED"
      [] outcome = "FAILED"    -> "FAILED"
      [] outcome = "UNKNOWN"   -> "ACTION_REQUIRED"

\* Slip: the result row is upserted.
RecordAlways(a, outcome) == result' = [result EXCEPT ![a] = outcome]

\* One result row per attempt: an existing one is kept.
RecordOnce(a, outcome) ==
    result' = [result EXCEPT ![a] = IF @ = "none" THEN outcome ELSE @]

\* What the steps outside the owner, the queue and the worker leave alone.
Outside == UNCHANGED <<candidateVars, version, plan, approvals, lastDecision,
                       request, queueVars, workerVars, sends>>
=============================================================================
