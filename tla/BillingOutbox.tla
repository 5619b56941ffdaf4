---------------------------- MODULE BillingOutbox ----------------------------
(***************************************************************************)
(* The confirmation mail of a payment: the billing_outbox rows and their   *)
(* leases (billing-outbox.repository.ts), the sweep that enqueues due rows *)
(* (billing-outbox.reconciler.ts), the BullMQ queue "billing-outbox" and   *)
(* the worker that mails (billing-outbox.processor.ts).                    *)
(***************************************************************************)
EXTENDS Naturals, FiniteSets

CONSTANTS
    Events,        \* billing_outbox rows that payments may create
    Sweepers,      \* sweeps that may overlap (one cron per API process)
    Workers,       \* workers of the queue
    MaxAttempts,   \* BILLING_OUTBOX_MAX_ATTEMPTS
    JobTries,      \* "attempts" of the BullMQ job
    Faults,        \* the faults the environment may produce
    MaxFaults      \* bound: faults in one behaviour

ASSUME OutboxAssumption ==
    /\ MaxAttempts \in Nat \ {0}
    /\ JobTries \in Nat \ {0}
    /\ MaxFaults \in Nat
    /\ Faults \subseteq {"api crash", "worker crash", "refused", "ambiguous",
                         "queue", "db", "stall", "slow"}

NoOwner == "nobody"
NoEvent == "no event"
\* billing-mail-worker:<job id>: every delivery of the event's job has the same.
Mail    == "mail worker"

RowStates == {"absent", "pending", "processing", "sent", "failed"}
JobStates == {"none", "waiting", "delayed", "completed", "failed"}

\* A lease owner is a sweep or the mail worker, never both or neither.
ASSUME NamesAssumption ==
    /\ {NoOwner, Mail} \intersect Sweepers = {}
    /\ JobStates \intersect Workers = {}

VARIABLES
    state,      \* billing_outbox.state ("absent": no row)
    owner,      \* lease_owner
    attempts,   \* attempts
    backedOff,  \* rows whose next_attempt_at lies ahead
    lapsed,     \* processing rows whose lease_expires_at has passed
    todo,       \* events a sweep has claimed and not finished
    spc, sev,   \* where each sweep is, and on which event
    job,        \* BullMQ job of the event: its state, or the worker holding it
    tries,      \* failed tries of the job
    stalled,    \* jobs redelivered once (maxStalledCount = 1)
    wpc, wev,   \* where each worker is, and on which event
    faulted,    \* faults so far
    mails,      \* history: mails the provider accepted
    unsure      \* history: events of which a mail was accepted without the row
                \* saying so, or whose lease was reset under a live worker

rowVars   == <<state, owner, attempts, backedOff, lapsed>>
sweepVars == <<todo, spc, sev>>
queueVars == <<job, tries, stalled>>
workVars  == <<wpc, wev>>
vars == <<rowVars, sweepVars, queueVars, workVars, faulted, mails, unsure>>

Init ==
    /\ state = [e \in Events |-> "absent"]
    /\ owner = [e \in Events |-> NoOwner]
    /\ attempts = [e \in Events |-> 0]
    /\ backedOff = {}
    /\ lapsed = {}
    /\ todo = [s \in Sweepers |-> {}]
    /\ spc = [s \in Sweepers |-> "idle"]
    /\ sev = [s \in Sweepers |-> NoEvent]
    /\ job = [e \in Events |-> "none"]
    /\ tries = [e \in Events |-> 0]
    /\ stalled = {}
    /\ wpc = [w \in Workers |-> "idle"]
    /\ wev = [w \in Workers |-> NoEvent]
    /\ faulted = 0
    /\ mails = [e \in Events |-> 0]
    /\ unsure = {}

Fault(kind) ==
    /\ kind \in Faults /\ faulted < MaxFaults
    /\ faulted' = faulted + 1

-----------------------------------------------------------------------------
(* The rows *)

\* applyPaidEvent creates the row in the transaction of the payment.
Confirm(e) ==
    /\ state[e] = "absent"
    /\ state' = [state EXCEPT ![e] = "pending"]
    /\ UNCHANGED <<owner, attempts, backedOff, lapsed, sweepVars, queueVars,
                   workVars, faulted, mails, unsure>>

Leased(e, o) == state[e] = "processing" /\ owner[e] = o

\* Slip: neither the state nor the lease owner is part of the predicate.
ReleaseAnyEvent(e, o) ==
    /\ state' = [state EXCEPT ![e] =
                    IF attempts[e] + 1 >= MaxAttempts THEN "failed" ELSE "pending"]
    /\ attempts' = [attempts EXCEPT ![e] = IF @ < MaxAttempts THEN @ + 1 ELSE @]
    /\ owner' = [owner EXCEPT ![e] = NoOwner]
    /\ backedOff' = backedOff \union {e}
    /\ lapsed' = lapsed \ {e}

\* releaseForRetry: backed off, or failed for good at the last attempt.
ReleaseForRetry(e, o) ==
    LET terminal == attempts[e] + 1 >= MaxAttempts IN
    IF Leased(e, o)
    THEN /\ state' = [state EXCEPT ![e] = IF terminal THEN "failed" ELSE "pending"]
         /\ attempts' = [attempts EXCEPT ![e] = @ + 1]
         /\ owner' = [owner EXCEPT ![e] = NoOwner]
         /\ backedOff' = IF terminal THEN backedOff \ {e} ELSE backedOff \union {e}
         /\ lapsed' = lapsed \ {e}
    ELSE UNCHANGED rowVars

\* Slip: the lease columns are not cleared.
SettleKeepsLease(e, o, s) ==
    /\ state' = IF Leased(e, o) THEN [state EXCEPT ![e] = s] ELSE state
    /\ UNCHANGED <<owner, lapsed, attempts, backedOff>>

\* releaseClaim (to "pending") and markDispatched (to "sent").
Settle(e, o, s) ==
    IF Leased(e, o)
    THEN /\ state' = [state EXCEPT ![e] = s]
         /\ owner' = [owner EXCEPT ![e] = NoOwner]
         /\ lapsed' = lapsed \ {e}
         /\ UNCHANGED <<attempts, backedOff>>
    ELSE UNCHANGED rowVars

\* next_attempt_at passes.
Elapse(e) ==
    /\ e \in backedOff
    /\ backedOff' = backedOff \ {e}
    /\ UNCHANGED <<state, owner, attempts, lapsed, sweepVars, queueVars, workVars,
                   faulted, mails, unsure>>

Mailing(w, e) == wev[w] = e /\ wpc[w] \in {"send", "mark", "retry"}
HolderAlive(e) ==
    \/ \E s \in Sweepers : owner[e] = s /\ e \in todo[s]
    \/ owner[e] = Mail /\ \E w \in Workers : Mailing(w, e)

\* A lease outlives its 60 seconds: its holder is gone, or slow.
LeaseExpires(e) ==
    /\ state[e] = "processing" /\ e \notin lapsed
    /\ IF HolderAlive(e) THEN Fault("slow") ELSE UNCHANGED faulted
    /\ lapsed' = lapsed \union {e}
    /\ UNCHANGED <<state, owner, attempts, backedOff, sweepVars, queueVars, workVars,
                   mails, unsure>>

-----------------------------------------------------------------------------
(* The sweep *)

\* Slip: only rows without next_attempt_at are due.
NeverAttempted == lapsed \union {e \in Events : state[e] = "pending" /\ attempts[e] = 0}

\* Expired leases become pending and due at once.
Due == lapsed \union {e \in Events : state[e] = "pending" /\ e \notin backedOff}

ClaimDueEvents(s) ==
    /\ spc[s] = "idle" /\ todo[s] = {} /\ Due # {}
    /\ state' = [e \in Events |-> IF e \in Due THEN "processing" ELSE state[e]]
    /\ owner' = [e \in Events |-> IF e \in Due THEN s ELSE owner[e]]
    /\ backedOff' = backedOff \ Due
    /\ lapsed' = lapsed \ Due
    /\ todo' = [todo EXCEPT ![s] = Due]
    /\ unsure' = unsure \union {e \in Due : \E w \in Workers : Mailing(w, e)}
    /\ UNCHANGED <<attempts, spc, sev, queueVars, workVars, faulted, mails>>

\* Slip: finished jobs are removed, so a job id can be used again.
AddEvenIfRetained(e) ==
    IF job[e] \in {"none", "completed", "failed"}
    THEN job' = [job EXCEPT ![e] = "waiting"] /\ tries' = [tries EXCEPT ![e] = 0]
    ELSE UNCHANGED <<job, tries>>

\* queue.add: ignored while a job of that id is retained, finished ones included.
AddJob(e) ==
    IF job[e] = "none"
    THEN job' = [job EXCEPT ![e] = "waiting"] /\ UNCHANGED tries
    ELSE UNCHANGED <<job, tries>>

Goes(s, pc, e) == spc' = [spc EXCEPT ![s] = pc] /\ sev' = [sev EXCEPT ![s] = e]

\* The add succeeds, or fails before or after Redis took the job.
Enqueue(s, e) ==
    /\ spc[s] = "idle" /\ e \in todo[s]
    /\ \/ AddJob(e) /\ Goes(s, "release", e) /\ UNCHANGED faulted
       \/ AddJob(e) /\ Goes(s, "retry", e) /\ Fault("queue")
       \/ UNCHANGED <<job, tries>> /\ Goes(s, "retry", e) /\ Fault("queue")
    /\ UNCHANGED <<rowVars, todo, stalled, workVars, mails, unsure>>

\* releaseClaim; if it throws, the same catch block releases for retry.
ReleaseClaim(s) ==
    /\ spc[s] = "release"
    /\ \/ /\ Settle(sev[s], s, "pending")
          /\ Goes(s, "idle", NoEvent)
          /\ todo' = [todo EXCEPT ![s] = @ \ {sev[s]}]
          /\ UNCHANGED faulted
       \/ /\ Fault("db") /\ Goes(s, "retry", sev[s])
          /\ UNCHANGED <<rowVars, todo>>
    /\ UNCHANGED <<queueVars, workVars, mails, unsure>>

\* An error of the catch block ends the sweep: its other events keep their lease.
SweepRetry(s) ==
    /\ spc[s] = "retry"
    /\ Goes(s, "idle", NoEvent)
    /\ \/ /\ ReleaseForRetry(sev[s], s)
          /\ todo' = [todo EXCEPT ![s] = @ \ {sev[s]}]
          /\ UNCHANGED faulted
       \/ /\ Fault("db")
          /\ todo' = [todo EXCEPT ![s] = {}]
          /\ UNCHANGED rowVars
    /\ UNCHANGED <<queueVars, workVars, mails, unsure>>

SweeperCrash(s) ==
    /\ todo[s] # {} /\ Fault("api crash")
    /\ todo' = [todo EXCEPT ![s] = {}]
    /\ Goes(s, "idle", NoEvent)
    /\ UNCHANGED <<rowVars, queueVars, workVars, mails, unsure>>

-----------------------------------------------------------------------------
(* The worker and its queue *)

Moves(w, pc) == wpc' = [wpc EXCEPT ![w] = pc] /\ UNCHANGED wev
Leaves(w) == /\ wpc' = [wpc EXCEPT ![w] = "idle"]
             /\ wev' = [wev EXCEPT ![w] = NoEvent]

\* A worker that lost the lock of its job finishes nothing.
Holds(w) == job[wev[w]] = w
Completes(w) ==
    /\ Leaves(w)
    /\ job' = IF Holds(w) THEN [job EXCEPT ![wev[w]] = "completed"] ELSE job
    /\ UNCHANGED <<tries, stalled>>
Throws(w) ==
    LET e == wev[w] IN
    /\ Leaves(w)
    /\ IF Holds(w)
       THEN /\ tries' = [tries EXCEPT ![e] = @ + 1]
            /\ job' = [job EXCEPT ![e] = IF tries[e] + 1 < JobTries THEN "delayed"
                                                                  ELSE "failed"]
       ELSE UNCHANGED <<job, tries>>
    /\ UNCHANGED stalled

Take(w, e) ==
    /\ wpc[w] = "idle" /\ job[e] = "waiting"
    /\ job' = [job EXCEPT ![e] = w]
    /\ wpc' = [wpc EXCEPT ![w] = "claim"]
    /\ wev' = [wev EXCEPT ![w] = e]
    /\ UNCHANGED <<rowVars, sweepVars, tries, stalled, faulted, mails, unsure>>

\* Slip: the claim is not predicated on "pending".
ClaimAnyEvent(w) ==
    LET e == wev[w] IN
    /\ wpc[w] = "claim"
    /\ state' = [state EXCEPT ![e] = "processing"]
    /\ owner' = [owner EXCEPT ![e] = Mail]
    /\ lapsed' = lapsed \ {e}
    /\ Moves(w, "send")
    /\ UNCHANGED <<attempts, backedOff, queueVars, sweepVars, faulted, mails, unsure>>

\* claimEventById: pending -> processing, whatever next_attempt_at; otherwise
\* "not claimable" and the job completes.  The claim, or the read after it, may
\* throw: the job throws, and no one holds the lease.
ClaimEventById(w) ==
    LET e == wev[w]
        claim == /\ state[e] = "pending"
                 /\ state' = [state EXCEPT ![e] = "processing"]
                 /\ owner' = [owner EXCEPT ![e] = Mail]
                 /\ UNCHANGED <<attempts, backedOff, lapsed>>
    IN  /\ wpc[w] = "claim"
        /\ \/ claim /\ Moves(w, "send") /\ UNCHANGED <<queueVars, faulted>>
           \/ /\ state[e] # "pending"
              /\ UNCHANGED <<rowVars, faulted>>
              /\ Completes(w)
           \/ Fault("db") /\ (claim \/ UNCHANGED rowVars) /\ Throws(w)
        /\ UNCHANGED <<sweepVars, mails, unsure>>

\* Slip: a failed delivery is logged and swallowed, like the expiry notice.
SendSwallowed(w) ==
    LET e == wev[w] IN
    /\ wpc[w] = "send"
    /\ Moves(w, "mark")
    /\ \/ mails' = [mails EXCEPT ![e] = @ + 1] /\ UNCHANGED faulted
       \/ UNCHANGED mails /\ Fault("refused")
    /\ UNCHANGED <<rowVars, sweepVars, queueVars, unsure>>

\* The provider accepts the mail, refuses it, or accepts it and the answer is lost.
Send(w) ==
    LET e == wev[w] IN
    /\ wpc[w] = "send"
    /\ \/ /\ mails' = [mails EXCEPT ![e] = @ + 1]
          /\ Moves(w, "mark")
          /\ UNCHANGED <<faulted, unsure>>
       \/ Fault("refused") /\ Moves(w, "retry") /\ UNCHANGED <<mails, unsure>>
       \/ /\ Fault("ambiguous")
          /\ mails' = [mails EXCEPT ![e] = @ + 1]
          /\ unsure' = unsure \union {e}
          /\ Moves(w, "retry")
    /\ UNCHANGED <<rowVars, sweepVars, queueVars>>

\* markDispatched; if it throws, the mail is released for retry all the same.
MarkDispatched(w) ==
    LET e == wev[w] IN
    /\ wpc[w] = "mark"
    /\ \/ Settle(e, Mail, "sent") /\ Completes(w) /\ UNCHANGED <<faulted, unsure>>
       \/ /\ Fault("db") /\ Moves(w, "retry")
          /\ unsure' = unsure \union {e}
          /\ UNCHANGED <<rowVars, queueVars>>
    /\ UNCHANGED <<sweepVars, mails>>

\* The row is released, unless the database fails; the job throws either way.
WorkerRetry(w) ==
    /\ wpc[w] = "retry"
    /\ \/ ReleaseForRetry(wev[w], Mail) /\ UNCHANGED faulted
       \/ Fault("db") /\ UNCHANGED rowVars
    /\ Throws(w)
    /\ UNCHANGED <<sweepVars, mails, unsure>>

WorkerCrash(w) ==
    /\ wpc[w] # "idle" /\ Fault("worker crash")
    /\ Leaves(w)
    /\ unsure' = IF wpc[w] = "mark" THEN unsure \union {wev[w]} ELSE unsure
    /\ UNCHANGED <<rowVars, sweepVars, queueVars, mails>>

\* The exponential backoff of the job passes.
Promote(e) ==
    /\ job[e] = "delayed"
    /\ job' = [job EXCEPT ![e] = "waiting"]
    /\ UNCHANGED <<rowVars, sweepVars, tries, stalled, workVars, faulted, mails, unsure>>

\* A lock that its worker no longer renews: redelivered once, then failed.
Stall(e) ==
    /\ job[e] \in Workers
    /\ IF wev[job[e]] = e THEN Fault("stall") ELSE UNCHANGED faulted
    /\ job' = [job EXCEPT ![e] = IF e \in stalled THEN "failed" ELSE "waiting"]
    /\ stalled' = stalled \union {e}
    /\ UNCHANGED <<rowVars, sweepVars, tries, workVars, mails, unsure>>

-----------------------------------------------------------------------------

Sweeps(s) ==
    \/ ClaimDueEvents(s)
    \/ \E e \in Events : Enqueue(s, e)
    \/ ReleaseClaim(s)
    \/ SweepRetry(s)

Works(w) ==
    \/ ClaimEventById(w) \/ Send(w) \/ MarkDispatched(w) \/ WorkerRetry(w)

RowStep(e) == Confirm(e) \/ Elapse(e) \/ LeaseExpires(e)
JobStep(e) == Promote(e) \/ Stall(e)

Next ==
    \/ \E e \in Events : RowStep(e) \/ JobStep(e)
    \/ \E s \in Sweepers : Sweeps(s) \/ SweeperCrash(s)
    \/ \E w \in Workers : \/ \E e \in Events : Take(w, e)
                          \/ Works(w)
                          \/ WorkerCrash(w)

Spec == Init /\ [][Next]_vars

\* The cron keeps sweeping, workers keep consuming, BullMQ promotes delayed jobs
\* and notices abandoned locks, and time passes.  Payments and faults owe nothing.
Abandoned(e) == job[e] \in Workers /\ wev[job[e]] # e

Fairness ==
    /\ \A s \in Sweepers : WF_vars(Sweeps(s))
    /\ \A w \in Workers : WF_vars(Works(w)) /\ WF_vars(\E e \in Events : Take(w, e))
    /\ \A e \in Events : /\ WF_vars(Elapse(e))
                         /\ WF_vars(~HolderAlive(e) /\ LeaseExpires(e))
                         /\ WF_vars(Promote(e))
                         /\ WF_vars(Abandoned(e) /\ Stall(e))

FairSpec == Spec /\ Fairness

-----------------------------------------------------------------------------
(* Properties *)

\* Every row, sweep, job and worker is in a state the code allows: only a
\* processing row has a lease, only a failed one has used its attempts, and
\* only a failed job has used its tries.
TypeRows ==
    /\ state \in [Events -> RowStates]
    /\ owner \in [Events -> Sweepers \union {Mail, NoOwner}]
    /\ \A e \in Events : owner[e] # NoOwner <=> state[e] = "processing"
    /\ attempts \in [Events -> 0..MaxAttempts]
    /\ \A e \in Events : state[e] # "failed" => attempts[e] < MaxAttempts
    /\ backedOff \subseteq Events
    /\ lapsed \subseteq {e \in Events : state[e] = "processing"}
TypeSweeps ==
    /\ todo \in [Sweepers -> SUBSET Events]
    /\ spc \in [Sweepers -> {"idle", "release", "retry"}]
    /\ sev \in [Sweepers -> Events \union {NoEvent}]
    /\ \A s \in Sweepers : spc[s] # "idle" => sev[s] \in todo[s]
TypeJobs ==
    /\ job \in [Events -> JobStates \union Workers]
    /\ tries \in [Events -> 0..JobTries]
    /\ \A e \in Events : job[e] # "failed" => tries[e] < JobTries
    /\ stalled \subseteq Events
TypeWorkers ==
    /\ wpc \in [Workers -> {"idle", "claim", "send", "mark", "retry"}]
    /\ wev \in [Workers -> Events \union {NoEvent}]
    /\ \A w \in Workers : wpc[w] # "idle" => wev[w] \in Events
TypeOK ==
    /\ TypeRows
    /\ TypeSweeps
    /\ TypeJobs
    /\ TypeWorkers
    /\ mails \in [Events -> Nat]

\* A row says "sent", and a worker is about to say so, only when the provider
\* accepted the mail: a refused or crashed delivery never passes for a sent one.
SentWasMailed ==
    /\ \A w \in Workers : wpc[w] = "mark" => mails[wev[w]] > 0
    /\ \A e \in Events : state[e] = "sent" => mails[e] > 0

\* A customer gets a second mail only when the first was accepted without the
\* row learning it, or a lease ran out under a live worker: redelivered jobs
\* and overlapping sweeps alone never mail twice (claimEventById).
SecondMailNeedsDoubt == \A e \in Events : mails[e] > 1 => e \in unsure

\* Whatever fails, a customer gets a bounded number of mails: the job id admits
\* one job per event, tried JobTries times and redelivered once.
MailsBounded == \A e \in Events : mails[e] <= JobTries + 1

\* A row that was sent, or failed for good, is never processed again, though
\* deliveries share their lease owner and leases expire.
TerminalIsFinal ==
    [][\A e \in Events : state[e] \in {"sent", "failed"} => state'[e] = state[e]]_vars

\* An event is sent or failed in the end, unless its one job is already over
\* and retained, after which no sweep can enqueue it.
JobIsOver(e) == job[e] \in {"completed", "failed"}
SettledUnlessJobIsOver ==
    \A e \in Events :
        state[e] = "pending" ~> state[e] \in {"sent", "failed"} \/ JobIsOver(e)
=============================================================================
