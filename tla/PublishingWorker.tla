-------------------------- MODULE PublishingWorker --------------------------
(***************************************************************************)
(* The dispatch worker (dispatch.processor.ts) and what BullMQ does to the *)
(* job it holds.  A transaction that starts with a compare-and-swap is one *)
(* step; a process may die or lose its lock between any two steps.         *)
(***************************************************************************)
EXTENDS PublishingTables

Finish(w) ==
    /\ wpc' = [wpc EXCEPT ![w] = "idle"]
    /\ wjob' = [wjob EXCEPT ![w] = NoJob]
    /\ watt' = [watt EXCEPT ![w] = NoAttempt]
    \* moveToFinished needs the lock: a worker that lost it completes nothing.
    /\ job' = IF job[wjob[w]] = w THEN [job EXCEPT ![wjob[w]] = "done"] ELSE job
    /\ UNCHANGED <<jobKey, stalled>>

Moves(w, pc) == wpc' = [wpc EXCEPT ![w] = pc] /\ UNCHANGED <<wjob, watt, queueVars>>

Elsewhere == UNCHANGED <<candidateVars, version, plan, approvals, lastDecision,
                         request, sweepVars, adminVars>>

Take(w, j) ==
    /\ wpc[w] = "idle" /\ job[j] = "queued"
    /\ job' = [job EXCEPT ![j] = w]
    /\ wpc' = [wpc EXCEPT ![w] = "check"]
    /\ wjob' = [wjob EXCEPT ![w] = j]
    /\ UNCHANGED <<watt, jobKey, stalled, status, attemptVars, runVars, sends, blind>>
    /\ Elsewhere

\* syncFacebookTarget threw, or a statement of the revalidation did: the intent
\* is failed without an attempt.
SyncFails(w) ==
    /\ wpc[w] = "check" /\ "sync" \in Faults
    /\ Moves(w, "refused")
    /\ UNCHANGED <<status, attemptVars, runVars, sends, blind>>
    /\ Elsewhere

\* The attempt with this idempotency key, if any (at most one: unique index).
ByKey(i, v, k) == {a \in VersionAttempts(i, v) : keyOf[a] = k}
Recoverable(a) ==
    /\ attempt[a] = "QUEUED"
    /\ version[IntentOf(a)] = VersionOf(a)
    /\ status[IntentOf(a)] = "DISPATCHING"

Approved(i, v) ==
    \E r \in approvals : r[1] = i /\ r[2] = v /\ r[4] = "APPROVED"

InFlight(i, v) ==
    {a \in VersionAttempts(i, v) : attempt[a] \in {"QUEUED", "DISPATCHING", "SUCCEEDED"}}

\* Slip: the approval of any version will do.
RevalidatesAnyApproval(i, v, mine) ==
    /\ \E u \in Versions : Approved(i, u)
    /\ active /\ connected
    /\ InFlight(i, v) \subseteq mine

\* Checks 3 to 7 of the revalidation.
Revalidates(i, v, mine) ==
    /\ Approved(i, v)
    /\ active
    /\ connected
    /\ InFlight(i, v) \subseteq mine

\* The row to insert: one above the highest sequence of the version.
NextAttempts(i, v) ==
    {a \in Attempts :
        /\ IntentOf(a) = i /\ VersionOf(a) = v
        /\ \A b \in VersionAttempts(i, v) : SeqOf(b) < SeqOf(a)
        /\ SeqOf(a) = 1 \/ \E b \in VersionAttempts(i, v) : SeqOf(b) = SeqOf(a) - 1}

\* The replay of an accepted job, or a lost claim: a recorded no-op.
RecordedNoOp(w) ==
    LET j == wjob[w]
        i == IntentOf(j)
        v == VersionOf(j)
        mine == ByKey(i, v, jobKey[j])
    IN  /\ wpc[w] = "check"
        /\ \A a \in mine : ~Recoverable(a)
        /\ \/ mine # {}
           \/ version[i] = v /\ status[i] = "DISPATCHING"
        /\ Finish(w)
        /\ UNCHANGED <<status, attemptVars, runVars, sends, blind>>
        /\ Elsewhere

\* A check failed: the transaction, its claim included, is rolled back.
Refuse(w) ==
    LET j == wjob[w]
        i == IntentOf(j)
        v == VersionOf(j)
        mine == ByKey(i, v, jobKey[j])
    IN  /\ wpc[w] = "check"
        /\ IF mine # {}
           THEN (\A a \in mine : Recoverable(a)) /\ ~Revalidates(i, v, mine)
           ELSE \/ version[i] # v
                \/ status[i] \notin {"SCHEDULED", "DISPATCHING"}
                \/ status[i] = "SCHEDULED" /\ ~Revalidates(i, v, {})
        /\ Moves(w, "refused")
        /\ UNCHANGED <<status, attemptVars, runVars, sends, blind>>
        /\ Elsewhere

\* Claim SCHEDULED -> DISPATCHING and create the attempt with its body.
ClaimIntent(w) ==
    LET j == wjob[w]
        i == IntentOf(j)
        v == VersionOf(j)
    IN  /\ wpc[w] = "check"
        /\ ByKey(i, v, jobKey[j]) = {}
        /\ version[i] = v /\ status[i] = "SCHEDULED"
        /\ Revalidates(i, v, {})
        /\ status' = [status EXCEPT ![i] = "DISPATCHING"]
        /\ \E a \in NextAttempts(i, v) :
            /\ attempt' = [attempt EXCEPT ![a] = "QUEUED"]
            /\ keyOf' = [keyOf EXCEPT ![a] = jobKey[j]]
            /\ body' = [body EXCEPT ![a] = plan[i]]
            /\ watt' = [watt EXCEPT ![w] = a]
        /\ wpc' = [wpc EXCEPT ![w] = "asset"]
        /\ UNCHANGED <<wjob, queueVars, result, runVars, sends, blind>>
        /\ Elsewhere

\* A redelivered job finds its QUEUED attempt and takes it over.
RecoverQueued(w) ==
    LET j == wjob[w]
        mine == ByKey(IntentOf(j), VersionOf(j), jobKey[j])
    IN  /\ wpc[w] = "check"
        /\ \E a \in mine :
            /\ Recoverable(a)
            /\ Revalidates(IntentOf(j), VersionOf(j), mine)
            /\ body' = [body EXCEPT ![a] = plan[IntentOf(j)]]
            /\ watt' = [watt EXCEPT ![w] = a]
        /\ wpc' = [wpc EXCEPT ![w] = "asset"]
        /\ UNCHANGED <<wjob, queueVars, status, attempt, keyOf, result, runVars,
                       sends, blind>>
        /\ Elsewhere

\* markIntentFailed: predicated on the job's version; its errors are swallowed.
MarkIntentFailed(w) ==
    LET j == wjob[w] IN
    /\ wpc[w] = "refused"
    /\ \/ PredicatedStatus(IntentOf(j), VersionOf(j), "FAILED")
       \/ "db" \in Faults /\ UNCHANGED status
    /\ Finish(w)
    /\ UNCHANGED <<attemptVars, runVars, sends, blind>>
    /\ Elsewhere

\* The retrieved bytes do not match: the attempt is failed by id, whatever it
\* has become.
AssetFails(w) ==
    LET a == watt[w] IN
    /\ wpc[w] = "asset" /\ "asset" \in Faults
    /\ attempt' = [attempt EXCEPT ![a] = "FAILED"]
    /\ PredicatedStatus(IntentOf(a), VersionOf(a), "FAILED")
    /\ blind' = IF attempt[a] = "QUEUED" THEN blind ELSE blind \union {IntentOf(a)}
    /\ Finish(w)
    /\ UNCHANGED <<keyOf, body, result, runVars, sends>>
    /\ Elsewhere

\* Slip: no compare-and-swap.
ClaimAttemptById(w) ==
    /\ wpc[w] = "asset"
    /\ attempt' = [attempt EXCEPT ![watt[w]] = "DISPATCHING"]
    /\ Moves(w, "send")
    /\ UNCHANGED <<status, keyOf, body, result, runVars, sends, blind>>
    /\ Elsewhere

\* claimAttempt: compare-and-swap QUEUED -> DISPATCHING.
ClaimAttempt(w) ==
    LET a == watt[w] IN
    /\ wpc[w] = "asset"
    /\ IF attempt[a] = "QUEUED"
       THEN attempt' = [attempt EXCEPT ![a] = "DISPATCHING"] /\ Moves(w, "send")
       ELSE UNCHANGED attempt /\ Finish(w)
    /\ UNCHANGED <<status, keyOf, body, result, runVars, sends, blind>>
    /\ Elsewhere

\* The POST to n8n: accepted and acknowledged; accepted with the answer lost;
\* lost; or refused before any execution (4xx, missing configuration).
Post(w) ==
    LET a == watt[w] IN
    /\ wpc[w] = "send"
    /\ sends' = [sends EXCEPT ![a] = @ + 1]
    /\ \/ run' = [run EXCEPT ![a] = "accepted"] /\ Moves(w, "ack")
       \/ "network" \in Faults /\ run' = [run EXCEPT ![a] = "accepted"]
                               /\ Moves(w, "ambiguous")
       \/ "network" \in Faults /\ UNCHANGED run /\ Moves(w, "ambiguous")
       \/ UNCHANGED run /\ Moves(w, "rejected")
    /\ UNCHANGED <<status, attemptVars, posts, unacked, blind>>
    /\ Elsewhere

\* Slip: the acknowledgement without the predicate on the attempt.
AcknowledgeById(w) ==
    /\ wpc[w] = "ack"
    /\ attempt' = [attempt EXCEPT ![watt[w]] = "DISPATCHING"]
    /\ PredicatedStatus(IntentOf(watt[w]), VersionOf(watt[w]), "DISPATCHING")
    /\ Finish(w)
    /\ UNCHANGED <<keyOf, body, result, runVars, sends, blind>>
    /\ Elsewhere

\* The acknowledgement: both writes are predicated, but SCHEDULED is what a retry
\* leaves when the runner's failure has overtaken the acknowledgement.
Acknowledge(w) ==
    LET a == watt[w]
        i == IntentOf(a)
    IN
    /\ wpc[w] = "ack"
    /\ PredicatedStatus(i, VersionOf(a), "DISPATCHING")
    /\ blind' = IF status[i] = "SCHEDULED" /\ version[i] = VersionOf(a)
                THEN blind \union {i} ELSE blind
    /\ Finish(w)
    /\ UNCHANGED <<attemptVars, runVars, sends>>
    /\ Elsewhere

\* The acknowledgement's transaction throws inside the try of the dispatch: its
\* rows roll back, and its error, which has no transport code, is taken for a
\* refusal of the runner.
AcknowledgeFails(w) ==
    /\ wpc[w] = "ack" /\ "db" \in Faults
    /\ Moves(w, "rejected")
    /\ unacked' = unacked \union {watt[w]}
    /\ UNCHANGED <<status, attemptVars, run, posts, sends, blind>>
    /\ Elsewhere

\* Slip: every dispatch error is taken for a proven failure.
DeliveryIsNeverAmbiguous(pc) == "FAILED"

\* isAmbiguousDelivery: a timeout, a reset or a 5xx may have reached the runner.
\* Every other error is a proven failure: a refusal before any execution, but
\* also the database error of a failed acknowledgement.
DeliveryOutcome(pc) == IF pc = "ambiguous" THEN "UNKNOWN" ELSE "FAILED"

\* The catch of the dispatch and of its acknowledgement: the attempt by id, a
\* result if there is none, and the predicated intent.
RecordError(w) ==
    LET a == watt[w]
        outcome == DeliveryOutcome(wpc[w])
    IN  /\ wpc[w] \in {"ambiguous", "rejected"}
        /\ attempt' = [attempt EXCEPT ![a] = AttemptStateFor(outcome)]
        /\ RecordOnce(a, outcome)
        /\ PredicatedStatus(IntentOf(a), VersionOf(a), IntentStateFor(outcome))
        /\ blind' = IF attempt[a] = "DISPATCHING" THEN blind
                    ELSE blind \union {IntentOf(a)}
        /\ Finish(w)
        /\ UNCHANGED <<keyOf, body, runVars, sends>>
        /\ Elsewhere

\* The asset failure, the claim of the attempt or the record of an error throws
\* out of process(): the job (one attempt) fails and is retained.
JobFails(w) ==
    /\ wpc[w] \in {"asset", "ambiguous", "rejected"} /\ "db" \in Faults
    /\ Finish(w)
    /\ UNCHANGED <<status, attemptVars, runVars, sends, blind>>
    /\ Elsewhere

\* The process dies; its job stays active until its lock expires.
WorkerCrash(w) ==
    /\ "worker crash" \in Faults /\ wpc[w] # "idle"
    /\ wpc' = [wpc EXCEPT ![w] = "idle"]
    /\ wjob' = [wjob EXCEPT ![w] = NoJob]
    /\ watt' = [watt EXCEPT ![w] = NoAttempt]
    /\ UNCHANGED <<queueVars, status, attemptVars, runVars, sends, blind>>
    /\ Elsewhere

\* A job whose lock expired is redelivered once, then fails and is retained.
\* Without the "stall" fault only a dead worker loses its lock.
Stall(j) ==
    /\ job[j] \in Workers
    /\ "stall" \in Faults \/ wjob[job[j]] # j
    /\ job' = [job EXCEPT ![j] = IF j \in stalled THEN "done" ELSE "queued"]
    /\ stalled' = stalled \union {j}
    /\ UNCHANGED <<jobKey, workerVars, status, attemptVars, runVars, sends, blind>>
    /\ Elsewhere

\* Redis loses a job that no worker holds.
LoseJob(j) ==
    /\ "redis" \in Faults /\ job[j] # "none"
    /\ \A w \in Workers : wjob[w] # j
    /\ job' = [job EXCEPT ![j] = "none"]
    /\ jobKey' = [jobKey EXCEPT ![j] = NoKey]
    /\ UNCHANGED <<stalled, workerVars, status, attemptVars, runVars, sends, blind>>
    /\ Elsewhere
=============================================================================
