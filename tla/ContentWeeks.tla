----------------------------- MODULE ContentWeeks -----------------------------
(***************************************************************************)
(* A content cycle from week to week: the plan an owner freezes, the pack  *)
(* that a worker generates from it, the durable outbox of its jobs, the    *)
(* points it costs, the owner's retries and the scheduler that moves the   *)
(* cursor (content-v2.service.ts, content-pack.repository.ts,              *)
(* content-cycle.repository.ts, content.processor.ts).                     *)
(***************************************************************************)
EXTENDS Naturals, FiniteSets

CONSTANTS
    LastWeek,      \* 12 in the code
    Requests,      \* the owner's requests to generate or retry that may overlap
    Workers,       \* workers of the queue "content-generation"
    Ticks,         \* scheduler ticks that may overlap (one cron per process)
    PlannedWeeks,  \* bound: weeks the owner plans
    MaxRetries,    \* bound: jobs an owner's retries add for one pack
    MaxTries,      \* "attempts" of a BullMQ job
    MaxAttempts,   \* dispatches of an outbox row before it is "failed"
    Budget,        \* points in the wallet at first
    Checked,       \* points assertAllowed asks for (three items)
    Price,         \* points the pack's items cost (three to five)
    Faults,        \* the faults the environment may produce
    MaxFaults      \* bound: faults in one behaviour

ASSUME WeeksAssumption ==
    /\ LastWeek \in Nat \ {0}
    /\ MaxRetries \in Nat /\ MaxFaults \in Nat
    /\ MaxTries \in Nat \ {0} /\ MaxAttempts \in Nat \ {0}
    /\ Budget \in Nat /\ Checked \in Nat /\ Price \in Nat
    /\ Faults \subseteq {"crash", "stall", "redis", "db", "provider", "circuit"}

Weeks == 1..LastWeek
\* Job 0 of a week is the one claimQueuedPackV2 names after the pack, the
\* others carry the fresh correlation id of a retry.
Jobs  == Weeks \X (0..MaxRetries)
NoJob == <<0, 0>>

Delivered  == {"draft", "partially_approved", "approved"}
InFlight   == {"generating", "validating"}
PlanStates == {"none", "draft", "frozen"}
PackStates == Delivered \union InFlight \union {"absent", "queued", "failed"}
JobStates  == {"none", "waiting", "completed", "failed"}

ASSUME WorkerNames == JobStates \intersect Workers = {}

VARIABLES
    cycle,        \* content_cycles.status
    week,         \* current_week_number
    plan,         \* content_week_plans.status
    frozenInput,  \* weeks whose plan has a frozen_input
    replacing,    \* weeks whose draft plan a request has read and may replace
    pack,         \* content_packs.status
    eligible,     \* packs with retry_eligible
    generated,    \* packs that have items
    outbox,       \* content_job_outbox.state
    held,         \* rows a running reconcile has leased and not finished
    attempts,     \* attempts of the row
    job,          \* the BullMQ job: its state, or the worker holding it
    tries,        \* failed tries of the job
    stalled,      \* jobs redelivered once (maxStalledCount = 1)
    wpc, wjob,    \* where each worker is, and on which job
    rpc, rarg,    \* where each request is; <<week, 0>> or a job
    tick,         \* the cursor each tick has read (0: none)
    balance,      \* points
    charged,      \* packs with a spend in the point ledger
    faulted,      \* faults so far
    interrupted   \* history: packs whose worker, job or row died under them

planVars == <<plan, frozenInput, replacing>>
packVars == <<pack, eligible, generated>>
rowVars  == <<outbox, held, attempts>>
jobVars  == <<job, tries, stalled>>
workVars == <<wpc, wjob>>
reqVars  == <<rpc, rarg>>
moneyVars == <<balance, charged>>
vars == <<cycle, week, planVars, packVars, rowVars, jobVars, workVars, reqVars,
          tick, moneyVars, faulted, interrupted>>

\* createCycleWithWeekOne with skipWeekOneClaim: no pack yet.
Init ==
    /\ cycle = "active" /\ week = 1
    /\ plan = [w \in Weeks |-> "none"] /\ frozenInput = {} /\ replacing = {}
    /\ pack = [w \in Weeks |-> "absent"]
    /\ eligible = {} /\ generated = {}
    /\ outbox = [j \in Jobs |-> "absent"] /\ held = {} /\ attempts = [j \in Jobs |-> 0]
    /\ job = [j \in Jobs |-> "none"] /\ tries = [j \in Jobs |-> 0] /\ stalled = {}
    /\ wpc = [k \in Workers |-> "idle"] /\ wjob = [k \in Workers |-> NoJob]
    /\ rpc = [o \in Requests |-> "idle"] /\ rarg = [o \in Requests |-> NoJob]
    /\ tick = [t \in Ticks |-> 0]
    /\ balance = Budget /\ charged = {}
    /\ faulted = 0 /\ interrupted = {}

Fault(kind) ==
    /\ kind \in Faults /\ faulted < MaxFaults
    /\ faulted' = faulted + 1

-----------------------------------------------------------------------------
(* The owner's requests *)

Awaits(o, pc, arg) == rpc' = [rpc EXCEPT ![o] = pc] /\ rarg' = [rarg EXCEPT ![o] = arg]
Answers(o) == Awaits(o, "idle", NoJob)

\* A request that is refused, throws or dies leaves what it has committed.
Abandon(o) ==
    /\ rpc[o] # "idle" /\ Answers(o)
    /\ UNCHANGED <<cycle, week, planVars, packVars, rowVars, jobVars, workVars, tick,
                   moneyVars, faulted, interrupted>>

\* A planning request, the owner's or the planner's, was asked while its week was
\* the current one; any number of them overlap.
Planning(w) == w \in PlannedWeeks /\ w <= week

\* createOrReplaceWeekPlan reads the plan without a lock and refuses a frozen one.
\* One that found a draft may write at any later time, or never.
ReadPlan(w) ==
    /\ Planning(w) /\ plan[w] = "draft"
    /\ replacing' = replacing \union {w}
    /\ UNCHANGED <<cycle, week, plan, frozenInput, packVars, rowVars, jobVars, workVars,
                   reqVars, tick, moneyVars, faulted, interrupted>>

\* The plan that was read is replaced and set to "draft" by id, so a plan frozen
\* since is thawed; its frozen_input and its pack stay.  A request that found no
\* plan creates one, if there is still none (the unique key of the week).
CommitPlan(w) ==
    /\ w \in replacing \/ (Planning(w) /\ plan[w] = "none")
    /\ plan' = [plan EXCEPT ![w] = "draft"]
    /\ UNCHANGED <<cycle, week, frozenInput, replacing, packVars, rowVars, jobVars, workVars,
                   reqVars, tick, moneyVars, faulted, interrupted>>

\* generateWeek builds the frozen input from the draft plan it reads.
BeginGenerate(o) ==
    /\ rpc[o] = "idle" /\ cycle = "active"
    /\ plan[week] = "draft"
    /\ Awaits(o, "claim", <<week, 0>>)
    /\ UNCHANGED <<cycle, week, planVars, packVars, rowVars, jobVars, workVars, tick,
                   moneyVars, faulted, interrupted>>

\* claimQueuedPackV2, one transaction under the lock of the cycle: the pack that
\* exists is returned, otherwise plan, pack and job row are written together.
ClaimQueuedPack(o) ==
    LET w == rarg[o][1]  first == <<w, 0>> IN
    /\ rpc[o] = "claim"
    /\ \/ /\ pack[w] = "queued" /\ w \notin generated
          /\ Awaits(o, "readd", first)
          /\ UNCHANGED <<plan, frozenInput, pack, eligible, outbox>>
       \/ /\ pack[w] = "absent" /\ cycle = "active" /\ week = w /\ plan[w] = "draft"
          /\ plan' = [plan EXCEPT ![w] = "frozen"] /\ frozenInput' = frozenInput \union {w}
          /\ pack' = [pack EXCEPT ![w] = "queued"]
          /\ eligible' = eligible \union {w}
          /\ outbox' = [outbox EXCEPT ![first] = "pending"]
          /\ Awaits(o, "add", first)
    /\ UNCHANGED <<cycle, week, replacing, generated, held, attempts, jobVars, workVars, tick,
                   moneyVars, faulted, interrupted>>

\* retryPack, and regenerateFailedPack which also asks for the current week of an
\* active cycle, for a pack without items and for a plan that is still frozen.
BeginRetry(o, w) ==
    /\ rpc[o] = "idle" /\ pack[w] = "failed"
    /\ \/ w \in eligible /\ Awaits(o, "retry", <<w, 0>>)
       \/ /\ cycle = "active" /\ week = w /\ w \notin generated /\ plan[w] = "frozen"
          /\ Awaits(o, "regenerate", <<w, 0>>)
    /\ UNCHANGED <<cycle, week, planVars, packVars, rowVars, jobVars, workVars, tick,
                   moneyVars, faulted, interrupted>>

\* failed -> queued and the row of a fresh job, in one transaction.
CommitRetry(o) ==
    LET w == rarg[o][1] IN
    /\ rpc[o] \in {"retry", "regenerate"} /\ pack[w] = "failed"
    /\ \E n \in 1..MaxRetries :
          /\ outbox[<<w, n>>] = "absent"
          /\ \A m \in 1..(n - 1) : outbox[<<w, m>>] # "absent"
          /\ outbox' = [outbox EXCEPT ![<<w, n>>] = "pending"]
          /\ Awaits(o, "add", <<w, n>>)
    /\ pack' = [pack EXCEPT ![w] = "queued"]
    /\ eligible' = IF rpc[o] = "regenerate" THEN eligible \ {w} ELSE eligible
    /\ UNCHANGED <<cycle, week, planVars, generated, held, attempts, jobVars, workVars, tick,
                   moneyVars, faulted, interrupted>>

\* queue.add is ignored while a job of that id is retained, finished ones included.
AddJob(j) == job' = [job EXCEPT ![j] = IF @ = "none" THEN "waiting" ELSE @]

\* The job is added; then markDirectDispatched settles a row still pending,
\* unless it fails.  A request that re-adds the job of a queued pack marks nothing.
AddDirectly(o) ==
    LET j == rarg[o] IN
    /\ rpc[o] \in {"add", "readd"}
    /\ AddJob(j)
    /\ \/ /\ rpc[o] = "add" /\ outbox[j] = "pending"
          /\ outbox' = [outbox EXCEPT ![j] = "dispatched"]
       \/ UNCHANGED outbox
    /\ Answers(o)
    /\ UNCHANGED <<cycle, week, planVars, packVars, held, attempts, tries, stalled, workVars,
                   tick, moneyVars, faulted, interrupted>>

\* pauseCycle and resumeCycle.
PauseOrResume ==
    /\ \/ cycle = "active" /\ cycle' = "paused"
       \/ cycle = "paused" /\ cycle' = "active"
    /\ UNCHANGED <<week, planVars, packVars, rowVars, jobVars, workVars, reqVars, tick,
                   moneyVars, faulted, interrupted>>

\* Decisions on the items move a delivered pack (derivePackStatusFromItems); the
\* policy refuses them unless the cycle is active.
Review(w) ==
    /\ cycle = "active"
    /\ \/ pack[w] = "draft" /\ pack' = [pack EXCEPT ![w] = "partially_approved"]
       \/ pack[w] \in {"draft", "partially_approved"} /\ pack' = [pack EXCEPT ![w] = "approved"]
    /\ UNCHANGED <<cycle, week, planVars, eligible, generated, rowVars, jobVars, workVars,
                   reqVars, tick, moneyVars, faulted, interrupted>>

\* The owner's other work spends points too.
SpendElsewhere ==
    /\ balance > 0
    /\ \E b \in 0..(balance - 1) : balance' = b
    /\ UNCHANGED <<cycle, week, planVars, packVars, rowVars, jobVars, workVars, reqVars,
                   tick, charged, faulted, interrupted>>

-----------------------------------------------------------------------------
(* The scheduler and the job outbox *)

\* listActiveReadyForNextWeek: a due cycle whose current week was delivered.
ReadTick(t) ==
    /\ tick[t] = 0
    /\ cycle = "active" /\ week < LastWeek /\ pack[week] \in Delivered
    /\ tick' = [tick EXCEPT ![t] = week]
    /\ UNCHANGED <<cycle, week, planVars, packVars, rowVars, jobVars, workVars, reqVars,
                   moneyVars, faulted, interrupted>>

\* Slip: the cursor is advanced without comparing it with the one that was read.
AdvanceWhateverWasRead(t) ==
    /\ tick[t] # 0
    /\ tick' = [tick EXCEPT ![t] = 0]
    /\ week' = IF cycle = "active" /\ week < LastWeek THEN week + 1 ELSE week
    /\ cycle' = IF cycle = "active" /\ week = LastWeek THEN "completed" ELSE cycle
    /\ UNCHANGED <<planVars, packVars, rowVars, jobVars, workVars, reqVars,
                   moneyVars, faulted, interrupted>>

\* advanceToNextWeek: nothing if the cursor is no longer the one that was read.
AdvanceToNextWeek(t) ==
    LET current == cycle = "active" /\ week = tick[t] IN
    /\ tick[t] # 0
    /\ tick' = [tick EXCEPT ![t] = 0]
    /\ week' = IF current /\ week < LastWeek THEN week + 1 ELSE week
    /\ cycle' = IF current /\ week >= LastWeek THEN "completed" ELSE cycle
    /\ UNCHANGED <<planVars, packVars, rowVars, jobVars, workVars, reqVars,
                   moneyVars, faulted, interrupted>>

\* claimDueJobs leases every due row.
ClaimDueJobs ==
    LET due == {j \in Jobs : outbox[j] = "pending"} IN
    /\ held = {} /\ due # {}
    /\ held' = due
    /\ outbox' = [j \in Jobs |-> IF j \in due THEN "processing" ELSE outbox[j]]
    /\ UNCHANGED <<cycle, week, planVars, packVars, attempts, jobVars, workVars, reqVars,
                   tick, moneyVars, faulted, interrupted>>

\* The job is added and the row marked; if either throws, the row is released
\* for retry, or fails for good.
DispatchJob(j) ==
    LET released == IF attempts[j] + 1 >= MaxAttempts THEN "failed" ELSE "pending" IN
    /\ j \in held
    /\ held' = held \ {j}
    /\ \/ /\ AddJob(j)
          /\ outbox' = [outbox EXCEPT ![j] = "dispatched"]
          /\ UNCHANGED <<attempts, faulted, interrupted>>
       \/ /\ \/ Fault("redis") /\ UNCHANGED job
             \/ Fault("db") /\ AddJob(j)
          /\ outbox' = [outbox EXCEPT ![j] = released]
          /\ attempts' = [attempts EXCEPT ![j] = @ + 1]
          /\ interrupted' = IF released = "failed" THEN interrupted \union {j[1]} ELSE interrupted
    /\ UNCHANGED <<cycle, week, planVars, packVars, tries, stalled, workVars, reqVars, tick,
                   moneyVars>>

ReconcilerCrash ==
    /\ held # {} /\ Fault("crash")
    /\ held' = {}
    /\ UNCHANGED <<cycle, week, planVars, packVars, outbox, attempts, jobVars, workVars,
                   reqVars, tick, moneyVars, interrupted>>

\* An abandoned lease runs out and the next reconcile resets it.
LeaseExpires(j) ==
    /\ outbox[j] = "processing" /\ j \notin held
    /\ outbox' = [outbox EXCEPT ![j] = "pending"]
    /\ UNCHANGED <<cycle, week, planVars, packVars, held, attempts, jobVars, workVars,
                   reqVars, tick, moneyVars, faulted, interrupted>>

-----------------------------------------------------------------------------
(* The worker: handleGenerateV2 *)

Target(k) == wjob[k][1]
Moves(k, pc) == wpc' = [wpc EXCEPT ![k] = pc] /\ UNCHANGED wjob
Leaves(k) == wpc' = [wpc EXCEPT ![k] = "idle"] /\ wjob' = [wjob EXCEPT ![k] = NoJob]

\* A worker that lost the lock of its job finishes nothing.
Completes(k) ==
    /\ Leaves(k)
    /\ job' = [job EXCEPT ![wjob[k]] = IF @ = k THEN "completed" ELSE @]
    /\ UNCHANGED <<tries, stalled>>

\* Slip: the limit of tries is off by one.
ThrowsOnceMore(k) ==
    LET j == wjob[k]  holds == job[j] = k IN
    /\ Leaves(k)
    /\ tries' = IF holds THEN [tries EXCEPT ![j] = @ + 1] ELSE tries
    /\ job' = IF holds THEN [job EXCEPT ![j] = IF tries[j] < MaxTries THEN "waiting" ELSE "failed"]
                       ELSE job
    /\ UNCHANGED stalled

Throws(k) ==
    LET j == wjob[k]  holds == job[j] = k IN
    /\ Leaves(k)
    /\ tries' = IF holds THEN [tries EXCEPT ![j] = @ + 1] ELSE tries
    /\ job' = IF holds THEN [job EXCEPT ![j] = IF tries[j] + 1 < MaxTries THEN "waiting" ELSE "failed"]
                       ELSE job
    /\ UNCHANGED stalled

Take(k, j) ==
    /\ wpc[k] = "idle" /\ job[j] = "waiting"
    /\ job' = [job EXCEPT ![j] = k]
    /\ wpc' = [wpc EXCEPT ![k] = "claim"] /\ wjob' = [wjob EXCEPT ![k] = j]
    /\ UNCHANGED <<cycle, week, planVars, packVars, rowVars, tries, stalled, reqVars, tick,
                   moneyVars, faulted, interrupted>>

\* Slip: a pack left in generation may be claimed again.
ClaimableWhenStuck(w) == pack[w] \in {"queued", "generating"} \/ (pack[w] = "failed" /\ w \in eligible)

\* Slip: retry_eligible gates a queued pack too.
ClaimableWhenEligible(w) == pack[w] \in {"queued", "failed"} /\ w \in eligible

Claimable(w) == pack[w] = "queued" \/ (pack[w] = "failed" /\ w \in eligible)

\* claimPackForGeneration; a job whose pack is not claimable is done.  If the
\* database fails the job throws, and the claim may have been committed.
ClaimPack(k) ==
    LET w == Target(k)
        claim == Claimable(w) /\ pack' = [pack EXCEPT ![w] = "generating"] IN
    /\ wpc[k] = "claim"
    /\ \/ claim /\ Moves(k, "announce") /\ UNCHANGED <<jobVars, faulted, interrupted>>
       \/ ~Claimable(w) /\ Completes(k) /\ UNCHANGED <<pack, faulted, interrupted>>
       \/ /\ Fault("db") /\ Throws(k)
          /\ claim \/ UNCHANGED pack
          /\ interrupted' = interrupted \union {w}
    /\ UNCHANGED <<cycle, week, planVars, eligible, generated, rowVars, reqVars, tick, moneyVars>>

\* appendProgressEvent stands before the try block: if it throws, the pack stays
\* in generation.  Inside: the reads and assertAllowed, which reserves nothing.
Announce(k) ==
    /\ wpc[k] = "announce"
    /\ \/ /\ \/ balance >= Checked /\ Moves(k, "generate") /\ UNCHANGED faulted
             \/ balance < Checked /\ Moves(k, "fail") /\ UNCHANGED faulted
             \/ Fault("circuit") /\ Moves(k, "fail")
             \/ Fault("db") /\ Moves(k, "fail retry")
          /\ UNCHANGED <<jobVars, interrupted>>
       \/ Fault("db") /\ Throws(k) /\ interrupted' = interrupted \union {Target(k)}
    /\ UNCHANGED <<cycle, week, planVars, packVars, rowVars, reqVars, tick, moneyVars>>

\* The AI service answers, fails (retryable or not), or answers something that
\* does not match the plan; the last is noticed after the pack went to validating.
Generate(k) ==
    LET validate == pack' = [pack EXCEPT ![Target(k)] = IF @ = "generating" THEN "validating" ELSE @]
    IN
    /\ wpc[k] = "generate"
    /\ \/ validate /\ Moves(k, "persist") /\ UNCHANGED faulted
       \/ validate /\ Moves(k, "fail") /\ Fault("provider")
       \/ UNCHANGED pack /\ Fault("provider") /\ (Moves(k, "fail") \/ Moves(k, "fail retry"))
    /\ UNCHANGED <<cycle, week, planVars, eligible, generated, rowVars, jobVars, reqVars, tick,
                   moneyVars, interrupted>>

\* persistGeneratedItemsV2: the items have deterministic ids, so a pack that has
\* items cannot get them again.  The last week completes the cycle.
Persist(k) ==
    LET w == Target(k)
        store == /\ pack[w] = "validating" /\ w \notin generated
                 /\ generated' = generated \union {w}
                 /\ pack' = [pack EXCEPT ![w] = "draft"]
                 /\ cycle' = IF w = LastWeek /\ week = w /\ cycle = "active"
                             THEN "completed" ELSE cycle
        leave == UNCHANGED <<cycle, pack, generated>> IN
    /\ wpc[k] = "persist"
    /\ \/ store /\ Moves(k, "charge") /\ UNCHANGED faulted
       \/ /\ pack[w] # "validating" \/ w \in generated
          /\ leave /\ Moves(k, "fail retry") /\ UNCHANGED faulted
       \/ (store \/ leave) /\ Fault("db") /\ Moves(k, "fail retry")
    /\ UNCHANGED <<week, planVars, eligible, rowVars, jobVars, reqVars, tick, moneyVars, interrupted>>

\* Slip: a refused spend is logged and swallowed, like a failed asset job.
ChargeSwallowed(k) ==
    /\ wpc[k] = "charge" /\ Moves(k, "cost")
    /\ IF balance >= Price
       THEN balance' = balance - Price /\ charged' = charged \union {Target(k)}
       ELSE UNCHANGED moneyVars
    /\ UNCHANGED <<cycle, week, planVars, packVars, rowVars, jobVars, reqVars, tick, faulted,
                   interrupted>>

\* attachGeneratedItem and spendPoints, which is idempotent by pack and refuses
\* when the points are gone.
Charge(k) ==
    LET w == Target(k) IN
    /\ wpc[k] = "charge"
    /\ \/ /\ w \in charged /\ Moves(k, "cost") /\ UNCHANGED <<moneyVars, faulted>>
       \/ /\ w \notin charged /\ balance >= Price
          /\ balance' = balance - Price /\ charged' = charged \union {w}
          /\ Moves(k, "cost") /\ UNCHANGED faulted
       \/ /\ w \notin charged /\ balance < Price
          /\ Moves(k, "fail") /\ UNCHANGED <<moneyVars, faulted>>
       \/ Fault("db") /\ Moves(k, "fail retry") /\ UNCHANGED moneyVars
    /\ UNCHANGED <<cycle, week, planVars, packVars, rowVars, jobVars, reqVars, tick, interrupted>>

\* recordProviderCost, the last call of the try block.
RecordCost(k) ==
    /\ wpc[k] = "cost"
    /\ \/ Completes(k) /\ UNCHANGED faulted
       \/ Fault("db") /\ Moves(k, "fail retry") /\ UNCHANGED jobVars
    /\ UNCHANGED <<cycle, week, planVars, packVars, rowVars, reqVars, tick, moneyVars, interrupted>>

\* The catch block: safeFail writes "failed" whatever the status, and only an
\* error that may be retried is thrown again.  safeFail itself may throw.
Fail(k) ==
    LET w == Target(k)
        again == wpc[k] = "fail retry" IN
    /\ wpc[k] \in {"fail", "fail retry"}
    /\ \/ /\ pack' = [pack EXCEPT ![w] = "failed"]
          /\ eligible' = IF again /\ tries[wjob[k]] + 1 < MaxTries
                         THEN eligible \union {w} ELSE eligible \ {w}
          /\ IF again THEN Throws(k) ELSE Completes(k)
          /\ UNCHANGED <<faulted, interrupted>>
       \/ /\ Fault("db") /\ Throws(k)
          /\ interrupted' = interrupted \union {w}
          /\ UNCHANGED <<pack, eligible>>
    /\ UNCHANGED <<cycle, week, planVars, generated, rowVars, reqVars, tick, moneyVars>>

WorkerCrash(k) ==
    /\ wpc[k] # "idle" /\ Fault("crash")
    /\ Leaves(k)
    /\ interrupted' = IF wpc[k] = "claim" THEN interrupted ELSE interrupted \union {Target(k)}
    /\ UNCHANGED <<cycle, week, planVars, packVars, rowVars, jobVars, reqVars, tick, moneyVars>>

\* A lock that its worker no longer renews: redelivered once, then failed.
Abandoned(j) == job[j] \in Workers /\ wjob[job[j]] # j
Stall(j) ==
    /\ job[j] \in Workers
    /\ IF Abandoned(j) THEN UNCHANGED faulted ELSE Fault("stall")
    /\ job' = [job EXCEPT ![j] = IF j \in stalled THEN "failed" ELSE "waiting"]
    /\ stalled' = stalled \union {j}
    /\ interrupted' = IF j \in stalled THEN interrupted \union {j[1]} ELSE interrupted
    /\ UNCHANGED <<cycle, week, planVars, packVars, rowVars, tries, workVars, reqVars, tick,
                   moneyVars>>

-----------------------------------------------------------------------------

Asks(o) ==
    \/ Abandon(o)
    \/ BeginGenerate(o) \/ ClaimQueuedPack(o)
    \/ CommitRetry(o) \/ AddDirectly(o)
    \/ \E w \in Weeks : BeginRetry(o, w)

Works(k) ==
    \/ ClaimPack(k) \/ Announce(k) \/ Generate(k) \/ Persist(k)
    \/ Charge(k) \/ RecordCost(k) \/ Fail(k)

Reconciles == ClaimDueJobs \/ \E j \in Jobs : DispatchJob(j)

Next ==
    \/ \E o \in Requests : Asks(o)
    \/ PauseOrResume
    \/ \E w \in Weeks : ReadPlan(w) \/ CommitPlan(w) \/ Review(w)
    \/ SpendElsewhere
    \/ \E t \in Ticks : ReadTick(t) \/ AdvanceToNextWeek(t)
    \/ Reconciles
    \/ ReconcilerCrash
    \/ \E j \in Jobs : LeaseExpires(j) \/ Stall(j)
    \/ \E k \in Workers : \/ \E j \in Jobs : Take(k, j)
                          \/ Works(k)
                          \/ WorkerCrash(k)

Spec == Init /\ [][Next]_vars

\* Workers consume; the cron reconciles, leases run out and BullMQ notices the
\* locks of dead workers.  The owner, the scheduler and the faults owe nothing.
Recovers ==
    \/ Reconciles
    \/ \E j \in Jobs : LeaseExpires(j) \/ (Abandoned(j) /\ Stall(j))

Fairness ==
    /\ WF_vars(Recovers)
    /\ \A k \in Workers : WF_vars(Works(k) \/ \E j \in Jobs : Take(k, j))

FairSpec == Spec /\ Fairness

-----------------------------------------------------------------------------
(* Properties *)

\* Everything is in a state the code allows: a pack exists exactly when its week
\* has a frozen input (claimQueuedPackV2 writes both), though its plan may have
\* been set back to draft since; a worker past its claim has a pack that is not up
\* for one, and only a failed row or job has used up its attempts or tries.
TypeCycle ==
    /\ cycle \in {"active", "paused", "completed"} /\ week \in Weeks
    /\ tick \in [Ticks -> 0..LastWeek]
    /\ balance \in Nat /\ charged \subseteq Weeks
    /\ faulted \in 0..MaxFaults /\ interrupted \subseteq Weeks
TypePacks ==
    /\ plan \in [Weeks -> PlanStates] /\ frozenInput \subseteq Weeks
    /\ \A w \in replacing : w \in Weeks /\ plan[w] # "none"
    /\ pack \in [Weeks -> PackStates]
    /\ \A w \in Weeks : /\ pack[w] = "absent" <=> w \notin frozenInput
                        /\ plan[w] = "frozen" => w \in frozenInput
                        /\ plan[w] = "none" => w \notin frozenInput
    /\ eligible \subseteq Weeks /\ generated \subseteq Weeks
TypeRows ==
    /\ outbox \in [Jobs -> {"absent", "pending", "processing", "dispatched", "failed"}]
    /\ held \subseteq {j \in Jobs : outbox[j] = "processing"}
    /\ attempts \in [Jobs -> 0..MaxAttempts]
    /\ \A j \in Jobs : outbox[j] # "failed" => attempts[j] < MaxAttempts
TypeJobs ==
    /\ job \in [Jobs -> JobStates \union Workers]
    /\ tries \in [Jobs -> 0..MaxTries]
    /\ \A j \in Jobs : job[j] \notin {"completed", "failed"} => tries[j] < MaxTries
    /\ stalled \subseteq Jobs
TypeWorkers ==
    /\ wpc \in [Workers -> {"idle", "claim", "announce", "generate", "persist", "charge",
                            "cost", "fail", "fail retry"}]
    /\ wjob \in [Workers -> Jobs \union {NoJob}]
    /\ \A k \in Workers : wpc[k] # "idle" => wjob[k] \in Jobs
    /\ \A k \in Workers : wpc[k] \notin {"idle", "claim"} =>
                            pack[Target(k)] \in InFlight \union Delivered
TypeRequests ==
    /\ rpc \in [Requests -> {"idle", "claim", "retry", "regenerate", "add", "readd"}]
    /\ rarg \in [Requests -> Nat \X Nat]
    /\ \A o \in Requests :
          /\ rpc[o] \in {"claim", "retry", "regenerate"} => rarg[o][1] \in Weeks
          /\ rpc[o] \in {"add", "readd"} => rarg[o] \in Jobs
TypeOK ==
    /\ TypeCycle /\ TypePacks /\ TypeRows /\ TypeJobs /\ TypeWorkers /\ TypeRequests

\* One worker at a time has a pack, from its claim to its charge, though a pack
\* may have several jobs and each job several deliveries.
Has(k, w) == wpc[k] \notin {"idle", "claim"} /\ Target(k) = w
OneGenerator ==
    \A w \in Weeks : \A k, l \in Workers : Has(k, w) /\ Has(l, w) => k = l

\* The cursor never passes a week without content, and a cycle is not completed
\* without the last one, though ticks overlap and act on what they read earlier.
CursorPassedGenerated ==
    /\ \A w \in Weeks : w < week => w \in generated
    /\ cycle = "completed" => LastWeek \in generated

\* A pack the owner can review was charged, or its charge is still in a worker's
\* hands, or the worker died in between: running out of points is no free pack.
ReviewableIsPaidUnlessInterrupted ==
    \A w \in Weeks : pack[w] \in Delivered =>
        w \in charged \union interrupted \/ \E k \in Workers : Has(k, w)

\* A queued pack ends delivered or failed, unless a process died under it, its job
\* or row was given up, or the database failed outside the try block.
GenerationEndsUnlessInterrupted ==
    \A w \in PlannedWeeks : pack[w] \in {"queued"} \union InFlight ~>
                        pack[w] \in {"failed"} \union Delivered \/ w \in interrupted

\* What the comment of the processor asks for: a draft that was persisted is not
\* rolled back to failed.
DeliveredPackNeverFails ==
    [][\A w \in Weeks : pack[w] \in Delivered => pack'[w] # "failed"]_vars
=============================================================================
