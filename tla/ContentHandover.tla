---------------------------- MODULE ContentHandover ----------------------------
(***************************************************************************)
(* The way of a publication candidate from content to Publishing: the      *)
(* outbox row committed with the approval, the job that delivers it, the   *)
(* sweep that queues it again and the intake that stores it once           *)
(* (publication-candidate.repository.ts, outbox-dispatcher.ts,             *)
(* candidates.service.ts).                                                 *)
(***************************************************************************)
EXTENDS Naturals, FiniteSets

CONSTANTS
    Candidates,  \* candidates approved in one behaviour
    Workers,     \* workers of the queue "content-outbox"
    Sweeps,      \* reconcile runs that may overlap (one cron per process)
    MaxTries,    \* "attempts" of a BullMQ job
    Faults,      \* the faults the environment may produce
    MaxFaults    \* bound: faults in one behaviour

JobStates == {"none", "waiting", "completed", "failed"}

ASSUME HandoverAssumption ==
    /\ MaxTries \in Nat \ {0} /\ MaxFaults \in Nat
    /\ Faults \subseteq {"crash", "stall", "slow", "redis", "db", "sink"}
    /\ JobStates \intersect Workers = {} /\ {"none", "job"} \intersect Sweeps = {}
    /\ "none" \notin Candidates

VARIABLES
    row,          \* publication_candidate_outbox.state
    holder,       \* lease_owner: a sweep, or the job (every delivery of it alike)
    ripe,         \* rows whose backoff or lease has run out
    attempts,     \* attempts of the row
    owed,         \* events whose approving request has not queued them yet
    left, busy,   \* what a sweep has claimed and not handled, and what it has added
    job, tries,   \* the dispatch-outbox job of an event
    stalled,      \* jobs redelivered once
    wpc, wjob,    \* where each worker is, and on which event
    intake,       \* publishing_candidates
    faulted       \* faults so far

rowVars  == <<row, holder, ripe, attempts>>
sweepVars == <<left, busy>>
jobVars  == <<job, tries, stalled>>
workVars == <<wpc, wjob>>
vars == <<rowVars, owed, sweepVars, jobVars, workVars, intake, faulted>>

Init ==
    /\ row = [c \in Candidates |-> "absent"] /\ holder = [c \in Candidates |-> "none"]
    /\ ripe = {} /\ attempts = [c \in Candidates |-> 0] /\ owed = {}
    /\ left = [s \in Sweeps |-> {}] /\ busy = [s \in Sweeps |-> "none"]
    /\ job = [c \in Candidates |-> "none"] /\ tries = [c \in Candidates |-> 0] /\ stalled = {}
    /\ wpc = [k \in Workers |-> "idle"] /\ wjob = [k \in Workers |-> "none"]
    /\ intake = {} /\ faulted = 0

Fault(kind) ==
    /\ kind \in Faults /\ faulted < MaxFaults
    /\ faulted' = faulted + 1

-----------------------------------------------------------------------------
(* The approval *)

\* queue.add is ignored while a job of that id is retained, finished ones included.
AddJob(c) == job' = [job EXCEPT ![c] = IF @ = "none" THEN "waiting" ELSE @]

\* createCandidate, in the transaction of the decision.
Approve(c) ==
    /\ row[c] = "absent"
    /\ row' = [row EXCEPT ![c] = "pending"] /\ ripe' = ripe \union {c}
    /\ owed' = owed \union {c}
    /\ UNCHANGED <<holder, attempts, sweepVars, jobVars, workVars, intake, faulted>>

\* The request queues the event after the commit, unless it dies or Redis is down.
AddDirectly(c) ==
    /\ c \in owed /\ owed' = owed \ {c}
    /\ \/ AddJob(c) /\ UNCHANGED faulted
       \/ (Fault("crash") \/ Fault("redis")) /\ UNCHANGED job
    /\ UNCHANGED <<rowVars, sweepVars, tries, stalled, workVars, intake>>

-----------------------------------------------------------------------------
(* Leases *)

\* Slip: a lease that has run out is not reset.
PendingAndRipe(c) == c \in ripe /\ row[c] = "pending"

\* Both claims reset a lease that has run out and then take what is due.
Due(c) == c \in ripe /\ row[c] \in {"pending", "processing"}

\* What a release or a mark by this owner finds.
Holds(c, who) == row[c] = "processing" /\ holder[c] = who

Frees(c, state) ==
    /\ row' = [row EXCEPT ![c] = state] /\ holder' = [holder EXCEPT ![c] = "none"]

\* releaseOutboxClaim without an error: due at once.
Released(c, who) ==
    IF Holds(c, who) THEN Frees(c, "pending") /\ ripe' = ripe \union {c} /\ UNCHANGED attempts
    ELSE UNCHANGED rowVars

\* releaseOutboxClaim with an error: one more attempt and a backoff.
ReleasedForRetry(c, who) ==
    IF Holds(c, who) THEN /\ Frees(c, "pending") /\ ripe' = ripe \ {c}
                          /\ attempts' = [attempts EXCEPT ![c] = @ + 1]
    ELSE UNCHANGED rowVars

\* Someone still works under the lease.
Held(c) ==
    \/ holder[c] \in Sweeps /\ c \in left[holder[c]] \union {busy[holder[c]]}
    \/ holder[c] = "job" /\ \E k \in Workers : wjob[k] = c /\ wpc[k] # "claim"

\* A backoff ends; a lease runs out, under a holder that is alive only if it is slow.
Elapse(c) ==
    /\ row[c] \in {"pending", "processing"} /\ c \notin ripe
    /\ IF row[c] = "processing" /\ Held(c) THEN Fault("slow") ELSE UNCHANGED faulted
    /\ ripe' = ripe \union {c}
    /\ UNCHANGED <<row, holder, attempts, owed, sweepVars, jobVars, workVars, intake>>

-----------------------------------------------------------------------------
(* The sweep: reconcile *)

ClaimDueOutboxEvents(s) ==
    LET due == {c \in Candidates : Due(c)} IN
    /\ left[s] = {} /\ busy[s] = "none" /\ due # {}
    /\ row' = [c \in Candidates |-> IF c \in due THEN "processing" ELSE row[c]]
    /\ holder' = [c \in Candidates |-> IF c \in due THEN s ELSE holder[c]]
    /\ ripe' = ripe \ due
    /\ left' = [left EXCEPT ![s] = due]
    /\ UNCHANGED <<attempts, owed, busy, jobVars, workVars, intake, faulted>>

\* One event after the other: add, then release; an error releases for retry.
SweepAdds(s, c) ==
    /\ c \in left[s] /\ busy[s] = "none"
    /\ left' = [left EXCEPT ![s] = @ \ {c}]
    /\ \/ /\ AddJob(c) /\ busy' = [busy EXCEPT ![s] = c]
          /\ UNCHANGED <<rowVars, faulted>>
       \/ Fault("redis") /\ ReleasedForRetry(c, s) /\ UNCHANGED <<busy, job>>
    /\ UNCHANGED <<owed, tries, stalled, workVars, intake>>
SweepReleases(s) ==
    /\ busy[s] # "none" /\ busy' = [busy EXCEPT ![s] = "none"]
    /\ \/ Released(busy[s], s) /\ UNCHANGED faulted
       \/ Fault("db") /\ ReleasedForRetry(busy[s], s)
    /\ UNCHANGED <<owed, left, jobVars, workVars, intake>>

\* The process dies, or the release of the catch block throws.
SweepEnds(s) ==
    /\ left[s] # {} \/ busy[s] # "none"
    /\ Fault("crash") \/ Fault("db")
    /\ left' = [left EXCEPT ![s] = {}] /\ busy' = [busy EXCEPT ![s] = "none"]
    /\ UNCHANGED <<rowVars, owed, jobVars, workVars, intake>>

-----------------------------------------------------------------------------
(* The job: process *)

Moves(k, pc) == wpc' = [wpc EXCEPT ![k] = pc] /\ UNCHANGED wjob
Leaves(k) == wpc' = [wpc EXCEPT ![k] = "idle"] /\ wjob' = [wjob EXCEPT ![k] = "none"]

\* A worker that lost the lock of its job finishes nothing.
Completes(k) ==
    /\ Leaves(k)
    /\ job' = [job EXCEPT ![wjob[k]] = IF @ = k THEN "completed" ELSE @]
    /\ UNCHANGED <<tries, stalled>>
Throws(k) ==
    LET c == wjob[k]
        next == IF tries[c] + 1 < MaxTries THEN "waiting" ELSE "failed" IN
    /\ Leaves(k)
    /\ IF job[c] = k
       THEN tries' = [tries EXCEPT ![c] = @ + 1] /\ job' = [job EXCEPT ![c] = next]
       ELSE UNCHANGED <<job, tries>>
    /\ UNCHANGED stalled

\* The backoff of a job is as long as that of a row that failed as often.
Take(k, c) ==
    /\ wpc[k] = "idle" /\ job[c] = "waiting"
    /\ row[c] = "pending" /\ c \notin ripe => attempts[c] > tries[c]
    /\ job' = [job EXCEPT ![c] = k]
    /\ wpc' = [wpc EXCEPT ![k] = "claim"] /\ wjob' = [wjob EXCEPT ![k] = c]
    /\ UNCHANGED <<rowVars, owed, sweepVars, tries, stalled, intake, faulted>>

\* claimOutboxByEventId: an event that cannot be claimed ends the job.
ClaimEvent(k) ==
    LET c == wjob[k] IN
    /\ wpc[k] = "claim"
    /\ \/ /\ Due(c) /\ Moves(k, "find")
          /\ row' = [row EXCEPT ![c] = "processing"] /\ holder' = [holder EXCEPT ![c] = "job"]
          /\ ripe' = ripe \ {c}
          /\ UNCHANGED <<attempts, jobVars, faulted>>
       \/ ~Due(c) /\ Completes(k) /\ UNCHANGED <<rowVars, faulted>>
       \/ Fault("db") /\ Throws(k) /\ UNCHANGED rowVars
    /\ UNCHANGED <<owed, sweepVars, intake>>

\* ingestEvent reads the stored candidate: an identical replay writes nothing.
FindCandidate(k) ==
    /\ wpc[k] = "find"
    /\ \/ Moves(k, IF wjob[k] \in intake THEN "mark" ELSE "create") /\ UNCHANGED faulted
       \/ Fault("sink") /\ Moves(k, "fail")
    /\ UNCHANGED <<rowVars, owed, sweepVars, jobVars, intake>>

\* Slip: an error of the intake is taken for a replay.
CreateSwallowed(k) ==
    /\ wpc[k] = "create" /\ Moves(k, "mark")
    /\ \/ UNCHANGED faulted /\ intake' = intake \union {wjob[k]}
       \/ Fault("sink") /\ UNCHANGED intake
    /\ UNCHANGED <<rowVars, owed, sweepVars, jobVars>>

\* The primary key refuses a candidate that was stored since.
CreateCandidate(k) ==
    LET c == wjob[k] IN
    /\ wpc[k] = "create"
    /\ \/ Moves(k, IF c \in intake THEN "fail" ELSE "mark") /\ UNCHANGED faulted
          /\ intake' = intake \union {c}
       \/ Fault("sink") /\ Moves(k, "fail") /\ intake' \in {intake, intake \union {c}}
    /\ UNCHANGED <<rowVars, owed, sweepVars, jobVars>>

\* A mark that finds the lease lost changes nothing, and the job completes.
MarkOutboxDispatched(k) ==
    /\ wpc[k] = "mark"
    /\ \/ /\ IF Holds(wjob[k], "job") THEN Frees(wjob[k], "dispatched") ELSE UNCHANGED <<row, holder>>
          /\ Completes(k) /\ UNCHANGED <<ripe, faulted>>
       \/ Fault("db") /\ Moves(k, "fail") /\ UNCHANGED <<row, holder, ripe, jobVars>>
    /\ UNCHANGED <<attempts, owed, sweepVars, intake>>

MarkOutboxFailed(k) ==
    /\ wpc[k] = "fail" /\ Throws(k)
    /\ \/ ReleasedForRetry(wjob[k], "job") /\ UNCHANGED faulted
       \/ Fault("db") /\ UNCHANGED rowVars
    /\ UNCHANGED <<owed, sweepVars, intake>>

WorkerCrash(k) ==
    /\ wpc[k] # "idle" /\ Fault("crash") /\ Leaves(k)
    /\ UNCHANGED <<rowVars, owed, sweepVars, jobVars, intake>>

\* A lock that its worker no longer renews: redelivered once, then failed.
Abandoned(c) == job[c] \in Workers /\ wjob[job[c]] # c
Stall(c) ==
    /\ job[c] \in Workers
    /\ IF Abandoned(c) THEN UNCHANGED faulted ELSE Fault("stall")
    /\ job' = [job EXCEPT ![c] = IF c \in stalled THEN "failed" ELSE "waiting"]
    /\ stalled' = stalled \union {c}
    /\ UNCHANGED <<rowVars, owed, sweepVars, tries, workVars, intake>>

-----------------------------------------------------------------------------

Sweeping(s) == ClaimDueOutboxEvents(s) \/ SweepReleases(s) \/ \E c \in Candidates : SweepAdds(s, c)

Works(k) ==
    \/ ClaimEvent(k) \/ FindCandidate(k) \/ CreateCandidate(k)
    \/ MarkOutboxDispatched(k) \/ MarkOutboxFailed(k)

Next ==
    \/ \E c \in Candidates : Approve(c) \/ AddDirectly(c) \/ Elapse(c) \/ Stall(c)
    \/ \E s \in Sweeps : Sweeping(s) \/ SweepEnds(s)
    \/ \E k \in Workers : Works(k) \/ WorkerCrash(k) \/ \E c \in Candidates : Take(k, c)

Spec == Init /\ [][Next]_vars

\* The cron sweeps, workers consume, time passes and BullMQ notices the locks of
\* dead workers.  The owner and the faults owe nothing.
Fairness ==
    /\ \A s \in Sweeps : WF_vars(Sweeping(s))
    /\ \A k \in Workers : WF_vars(Works(k) \/ \E c \in Candidates : Take(k, c))
    /\ \A c \in Candidates : WF_vars(Elapse(c) \/ (Abandoned(c) /\ Stall(c)))

FairSpec == Spec /\ Fairness

-----------------------------------------------------------------------------
(* Properties *)

\* Everything is in a state the code allows: only a leased row has an owner, only
\* a job that is over has used its tries, and a busy worker is on an event.
TypeRows ==
    /\ row \in [Candidates -> {"absent", "pending", "processing", "dispatched"}]
    /\ holder \in [Candidates -> {"none", "job"} \union Sweeps]
    /\ \A c \in Candidates : holder[c] # "none" <=> row[c] = "processing"
    /\ ripe \subseteq Candidates
    /\ attempts \in [Candidates -> Nat]
TypeSweeps ==
    /\ left \in [Sweeps -> SUBSET Candidates]
    /\ busy \in [Sweeps -> Candidates \union {"none"}]
TypeJobs ==
    /\ job \in [Candidates -> JobStates \union Workers]
    /\ tries \in [Candidates -> 0..MaxTries]
    /\ \A c \in Candidates : job[c] \notin {"completed", "failed"} => tries[c] < MaxTries
    /\ stalled \subseteq Candidates
TypeWorkers ==
    /\ wpc \in [Workers -> {"idle", "claim", "find", "create", "mark", "fail"}]
    /\ wjob \in [Workers -> Candidates \union {"none"}]
    /\ \A k \in Workers : wpc[k] # "idle" => wjob[k] \in Candidates
TypeOK ==
    /\ TypeRows
    /\ TypeSweeps
    /\ TypeJobs
    /\ TypeWorkers
    /\ owed \subseteq Candidates /\ intake \subseteq Candidates

\* A row says "dispatched" only when Publishing has stored the candidate, though
\* the deliveries of a job share one lease owner and mark each other's leases.
DispatchedIsStored == \A c \in Candidates : row[c] = "dispatched" => c \in intake

\* An approved candidate reaches Publishing unless the one job of its event is over,
\* used up or ended because it found the row in other hands.
CandidateArrivesUnlessJobIsOver ==
    \A c \in Candidates : row[c] = "pending" ~> c \in intake \/ job[c] \in {"completed", "failed"}
=============================================================================
