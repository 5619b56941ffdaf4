------------------------- MODULE PublishingRequests -------------------------
(***************************************************************************)
(* The owner's requests (intents.service.ts).  Their transactions run at   *)
(* READ COMMITTED and update by id, so each is two steps: a Begin action   *)
(* reads the row and checks it, a Commit action writes it, whatever the row*)
(* has become meanwhile; a queue operation follows the commit.             *)
(***************************************************************************)
EXTENDS PublishingTables

Asks(o, op, i, k) ==
    request' = [request EXCEPT ![o] =
        [op |-> op, intent |-> i, version |-> version[i], status |-> status[i],
         plan |-> plan[i], key |-> k]]

May(o, op) == request[o].op = "idle" /\ op \in Asked

Reading == UNCHANGED <<candidateVars, intentVars, attemptVars, queueVars,
                       workerVars, sweepVars, adminVars, runVars, sends, blind>>

\* createIntent reads the candidate and the slot, then inserts.
BeginCreate(o, i) ==
    /\ May(o, "create") /\ status[i] = "absent"
    /\ active /\ SlotFree(i)
    /\ Asks(o, "create", i, NoKey)
    /\ Reading

\* scheduleIntent and rescheduleIntent check the status and bind the target.
BeginSchedule(o, i, p) ==
    /\ request[o].op = "idle"
    /\ status[i] \in SCHEDULABLE
    /\ connected
    /\ version[i] < MaxVersion
    /\ \E op \in {"schedule", "reschedule"} \intersect Asked :
        /\ op = "reschedule" => status[i] # "DRAFT"
        /\ request' = [request EXCEPT ![o] =
               [op |-> op, intent |-> i, version |-> version[i],
                status |-> status[i], plan |-> p, key |-> NoKey]]
    /\ Reading

BeginDecide(o, i) ==
    /\ request[o].op = "idle" /\ status[i] = "AWAITING_APPROVAL"
    /\ \E op \in {"approve", "reject"} \intersect Asked : Asks(o, op, i, NoKey)
    /\ Reading

BeginCancel(o, i) ==
    /\ May(o, "cancel") /\ status[i] \in CANCELLABLE_STATUSES
    /\ Asks(o, "cancel", i, NoKey)
    /\ Reading

\* A key the client has not used for the current version.
Fresh(i, k) ==
    /\ \A j \in JobIds :
        IntentOf(j) = i /\ VersionOf(j) = version[i] => jobKey[j] # k
    /\ \A a \in VersionAttempts(i, version[i]) : keyOf[a] # k

\* retryIntent: only a proven FAILED intent whose latest attempt FAILED and
\* whose latest approval is of the current version.  The client mints one key
\* per failed attempt it saw (expectedLastAttemptNumber).
BeginRetry(o, i) ==
    /\ May(o, "retry") /\ status[i] = "FAILED"
    /\ \E a \in HighestSeq(i) :
        /\ attempt[a] = "FAILED"
        /\ SeqOf(a) < MaxSeq
        /\ Fresh(i, <<o, SeqOf(a)>>)
        /\ Asks(o, "retry", i, <<o, SeqOf(a)>>)
    /\ lastDecision[i] = version[i]
    /\ Reading

\* The write by id: the row may have changed since it was read, and the attempt
\* a retry has found FAILED may not be the newest.
Blind(o) ==
    LET r == request[o] IN
    blind' = IF /\ status[r.intent] = r.status /\ version[r.intent] = r.version
                /\ r.op = "retry" => \A a \in Newest(r.intent) : attempt[a] = "FAILED"
             THEN blind ELSE blind \union {r.intent}

Writes(o, op, s) ==
    LET i == request[o].intent IN
    /\ request[o].op = op
    /\ s \notin {"CANCELLED"} => SlotFree(i)
    /\ status' = [status EXCEPT ![i] = s]
    /\ Blind(o)
    /\ UNCHANGED <<candidateVars, attemptVars, queueVars, workerVars, sweepVars,
                   adminVars, runVars, sends>>

Then(o, op) == request' = [request EXCEPT ![o].op = op]
Done(o)     == request' = [request EXCEPT ![o] = Idle]

CommitCreate(o) ==
    /\ Writes(o, "create", "DRAFT")
    /\ status[request[o].intent] = "absent"
    /\ Done(o)
    /\ UNCHANGED <<version, plan, approvals, lastDecision>>

CommitSchedule(o) ==
    LET r == request[o] IN
    /\ Writes(o, "schedule", "AWAITING_APPROVAL")
    /\ version' = [version EXCEPT ![r.intent] = r.version + 1]
    /\ plan' = [plan EXCEPT ![r.intent] = r.plan]
    /\ Then(o, "prune")
    /\ UNCHANGED <<approvals, lastDecision>>

\* Slip: the new plan is written, the status and version kept.
CommitRescheduleKeepsApproval(o) ==
    LET r == request[o] IN
    /\ Writes(o, "reschedule", r.status)
    /\ plan' = [plan EXCEPT ![r.intent] = r.plan]
    /\ Then(o, "prune")
    /\ UNCHANGED <<version, approvals, lastDecision>>

CommitReschedule(o) ==
    LET r == request[o] IN
    /\ Writes(o, "reschedule", "AWAITING_APPROVAL")
    /\ version[r.intent] < MaxVersion
    /\ version' = [version EXCEPT ![r.intent] = @ + 1]
    /\ plan' = [plan EXCEPT ![r.intent] = r.plan]
    /\ Then(o, "prune")
    /\ UNCHANGED <<approvals, lastDecision>>

\* The approval row carries the fingerprint of what was read; it is unique.
Decides(o, op, d, s) ==
    LET r == request[o]
        row == <<r.intent, r.version, r.plan, d>>
    IN  /\ Writes(o, op, s)
        /\ row \notin approvals
        /\ approvals' = approvals \union {row}
        /\ lastDecision' = [lastDecision EXCEPT ![r.intent] = r.version]
        /\ UNCHANGED <<version, plan>>

\* The job is added for the version the update returned.
CommitApprove(o) ==
    /\ Decides(o, "approve", "APPROVED", "SCHEDULED")
    /\ request' = [request EXCEPT ![o].op = "enqueue",
                                  ![o].version = version[request[o].intent],
                                  ![o].key = <<"approval", request[o].plan>>]

CommitReject(o) == Decides(o, "reject", "REJECTED", "CANCELLED") /\ Done(o)

CommitCancel(o) ==
    /\ Writes(o, "cancel", "CANCELLED")
    /\ Then(o, "prune")
    /\ UNCHANGED <<version, plan, approvals, lastDecision>>

CommitRetry(o) ==
    /\ Writes(o, "retry", "SCHEDULED")
    /\ request' = [request EXCEPT ![o].op = "enqueue",
                                  ![o].version = version[request[o].intent]]
    /\ UNCHANGED <<version, plan, approvals, lastDecision>>

\* A unique index or a failed statement rolls the transaction back; a crash
\* may also fall between the commit and the queue operation.
Abort(o) ==
    LET r == request[o] IN
    /\ r.op # "idle"
    /\ \/ "api crash" \in Faults
       \/ r.op \in RowOps /\ ~SlotFree(r.intent)
       \/ r.op = "create" /\ status[r.intent] # "absent"
       \/ r.op = "approve"
          /\ <<r.intent, r.version, r.plan, "APPROVED">> \in approvals
       \/ r.op = "reject"
          /\ <<r.intent, r.version, r.plan, "REJECTED">> \in approvals
    /\ Done(o)
    /\ Reading

\* After the commit of an approval or a retry.
Enqueue(o) ==
    LET r == request[o]
        j == IF r.key \in RetryKeys THEN <<r.intent, r.version, r.key>>
                                    ELSE PublishJob(r.intent, r.version)
    IN  /\ r.op = "enqueue"
        /\ AddJob(j, r.key)
        /\ Done(o)
        /\ UNCHANGED <<candidateVars, intentVars, attemptVars, stalled, workerVars,
                       sweepVars, adminVars, runVars, sends, blind>>

\* removeOldDispatchJobs reads the delayed jobs only: a job that is already
\* due stays.  Its errors are swallowed.
Prune(o) ==
    LET i == request[o].intent
        queued == {j \in JobIds \ stalled : IntentOf(j) = i /\ job[j] = "queued"}
    IN  /\ request[o].op = "prune"
        /\ \E delayed \in SUBSET queued :
            /\ job' = [j \in JobIds |-> IF j \in delayed THEN "none" ELSE job[j]]
            /\ jobKey' = [j \in JobIds |-> IF j \in delayed THEN NoKey ELSE jobKey[j]]
        /\ Done(o)
        /\ UNCHANGED <<candidateVars, intentVars, attemptVars, stalled, workerVars,
                       sweepVars, adminVars, runVars, sends, blind>>
=============================================================================
