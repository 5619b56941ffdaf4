-------------------------- MODULE ContentWeeksProofs --------------------------
(***************************************************************************)
(* What a content cycle guarantees for any number of weeks, requests,      *)
(* workers, ticks, retries, points and faults.                             *)
(***************************************************************************)
EXTENDS ContentWeeks, TLAPS

USE DEF NoJob, Delivered, InFlight, PackStates, JobStates
USE DEF PlanStates, planVars, packVars, rowVars, jobVars, workVars, reqVars, moneyVars

\* The types and the ownership of packs support each other: a worker past its
\* claim is the only one, so nobody fails the pack under it.  A row is only
\* ever written with its pack.
RowsHavePacks == \A j \in Jobs : outbox[j] # "absent" => pack[j[1]] # "absent"
TypeAndOwner == TypeOK /\ OneGenerator /\ RowsHavePacks

-----------------------------------------------------------------------------
(* What one group of variables needs *)

LEMMA Untouched ==
    /\ TypeCycle /\ UNCHANGED <<cycle, week, tick, moneyVars, faulted, interrupted>> => TypeCycle'
    /\ TypePacks /\ UNCHANGED <<planVars, packVars>> => TypePacks'
    /\ TypeRows /\ UNCHANGED rowVars => TypeRows'
    /\ TypeJobs /\ UNCHANGED jobVars => TypeJobs'
    /\ TypeWorkers /\ UNCHANGED <<workVars, pack>> => TypeWorkers'
    /\ TypeRequests /\ UNCHANGED reqVars => TypeRequests'
    /\ OneGenerator /\ UNCHANGED workVars => OneGenerator'
    /\ RowsHavePacks /\ UNCHANGED <<outbox, pack>> => RowsHavePacks'
  BY DEF TypeCycle, TypePacks, TypeRows, TypeJobs, TypeWorkers, TypeRequests,
         OneGenerator, Has, Target, RowsHavePacks

\* A job belongs to a week, and so does the job of a busy worker.
LEMMA JobWeek == \A j \in Jobs : j[1] \in Weeks
  BY DEF Jobs
LEMMA FirstJob == \A w \in Weeks : <<w, 0>> \in Jobs
  BY WeeksAssumption DEF Jobs
LEMMA TargetWeek ==
    ASSUME TypeWorkers, NEW k \in Workers, wpc[k] # "idle"
    PROVE  wjob[k] \in Jobs /\ Target(k) \in Weeks
  BY JobWeek DEF TypeWorkers, Target

LEMMA FaultInRange ==
    ASSUME TypeCycle, faulted' = faulted \/ \E kind : Fault(kind)
    PROVE  faulted' \in 0..MaxFaults
  BY WeeksAssumption DEF TypeCycle, Fault

\* A step that only counts faults and interruptions.
LEMMA FaultsCounted ==
    ASSUME TypeCycle, UNCHANGED <<cycle, week, tick, moneyVars>>,
           faulted' = faulted \/ \E kind : Fault(kind),
           \/ interrupted' = interrupted
           \/ \E w \in Weeks : interrupted' = interrupted \union {w}
    PROVE  TypeCycle'
  BY FaultInRange DEF TypeCycle

\* A pack that exists changes to another state of an existing pack.
LEMMA PackChanged ==
    ASSUME TypePacks, NEW w \in Weeks, pack[w] # "absent", UNCHANGED planVars,
           NEW s \in PackStates \ {"absent"}, pack' = [pack EXCEPT ![w] = s],
           eligible' \subseteq Weeks, generated' \subseteq Weeks
    PROVE  TypePacks'
  BY DEF TypePacks

\* No row or pack disappears, and no row appears alone.
LEMMA RowsKept ==
    ASSUME RowsHavePacks,
           \A j \in Jobs : outbox'[j] # "absent" => outbox[j] # "absent" \/ pack'[j[1]] # "absent",
           \A w \in Weeks : pack[w] # "absent" => pack'[w] # "absent"
    PROVE  RowsHavePacks'
  BY JobWeek DEF RowsHavePacks

\* A row of a pack is added to the outbox.
LEMMA RowAdded ==
    ASSUME TypeRows, NEW j \in Jobs, outbox[j] = "absent",
           outbox' = [outbox EXCEPT ![j] = "pending"], UNCHANGED <<held, attempts>>
    PROVE  TypeRows'
  BY DEF TypeRows

\* A pack nobody works on changes.
LEMMA UnownedPackChanged ==
    ASSUME TypePacks, TypeWorkers, NEW w \in Weeks, pack[w] \in {"absent", "queued", "failed"},
           NEW s, pack' = [pack EXCEPT ![w] = s], UNCHANGED workVars
    PROVE  TypeWorkers'
  <1>1. ASSUME NEW k \in Workers, wpc[k] \notin {"idle", "claim"}
        PROVE  pack'[Target(k)] \in InFlight \union Delivered
    <2>1. Target(k) \in Weeks /\ pack[Target(k)] \in InFlight \union Delivered
      BY <1>1, TargetWeek DEF TypeWorkers
    <2>. QED  BY <2>1 DEF TypePacks
  <1>. QED  BY <1>1 DEF TypeWorkers, Target

\* A request that waits for its next step, or has answered.
LEMMA RequestWaits ==
    ASSUME TypeRequests, NEW o \in Requests, NEW pc, NEW arg \in Nat \X Nat, Awaits(o, pc, arg),
           pc \in {"idle", "claim", "retry", "regenerate", "add", "readd"},
           pc \in {"claim", "retry", "regenerate"} => arg[1] \in Weeks,
           pc \in {"add", "readd"} => arg \in Jobs
    PROVE  TypeRequests'
  BY DEF TypeRequests, Awaits

LEMMA RequestAnswers ==
    ASSUME TypeRequests, NEW o \in Requests, Answers(o)
    PROVE  TypeRequests'
  BY RequestWaits DEF Answers

\* The job of a queue.add, of a completion and of a failed try.
LEMMA AddKeepsJobs ==
    ASSUME TypeJobs, NEW j \in Jobs, AddJob(j), UNCHANGED <<tries, stalled>>
    PROVE  TypeJobs'
  BY WorkerNames DEF TypeJobs, AddJob

LEMMA CompletesKeepsJobs ==
    ASSUME TypeJobs, NEW k \in Workers, Completes(k)
    PROVE  TypeJobs'
  BY DEF TypeJobs, Completes

LEMMA ThrowsKeepsJobs ==
    ASSUME TypeJobs, TypeWorkers, NEW k \in Workers, wpc[k] # "idle", Throws(k)
    PROVE  TypeJobs'
  <1>. DEFINE j == wjob[k]
  <1>1. j \in Jobs
    BY TargetWeek
  <1>2. CASE job[j] = k
    <2>1. tries[j] < MaxTries /\ tries[j] \in 0..MaxTries /\ MaxTries \in Nat
      BY <1>1, <1>2, WorkerNames, WeeksAssumption DEF TypeJobs
    <2>2. tries[j] + 1 \in 0..MaxTries
      BY <2>1
    <2>3. tries' = [tries EXCEPT ![j] = tries[j] + 1]
      BY <1>2 DEF Throws
    <2>4. tries' \in [Jobs -> 0..MaxTries]
      BY <2>2, <2>3 DEF TypeJobs
    <2>5. job' \in [Jobs -> JobStates \union Workers] /\ stalled' \subseteq Jobs
      BY <1>1, <1>2 DEF Throws, TypeJobs
    <2>6. \A i \in Jobs : job'[i] \notin {"completed", "failed"} => tries'[i] < MaxTries
      BY <1>1, <1>2, <2>1, <2>3 DEF Throws, TypeJobs
    <2>. QED  BY <2>4, <2>5, <2>6 DEF TypeJobs
  <1>3. CASE job[j] # k
    BY <1>3 DEF Throws, TypeJobs
  <1>. QED  BY <1>2, <1>3

-----------------------------------------------------------------------------
(* Who has a pack *)

Past == {"announce", "generate", "persist", "charge", "cost", "fail", "fail retry"}

\* The worker of a pack goes on, and leaves the pack where it has an owner.
LEMMA OwnerMoves ==
    ASSUME TypePacks, TypeWorkers, OneGenerator, NEW k \in Workers, wpc[k] \in Past,
           NEW pc \in Past, Moves(k, pc),
           pack' \in [Weeks -> PackStates], pack'[Target(k)] \in InFlight \union Delivered,
           \A w \in Weeks : w # Target(k) => pack'[w] = pack[w]
    PROVE  TypeWorkers' /\ OneGenerator'
  <1>1. /\ \A l \in Workers : wpc'[l] = IF l = k THEN pc ELSE wpc[l]
        /\ \A l \in Workers : wjob'[l] = wjob[l]
        /\ \A l \in Workers : Target(l)' = Target(l)
    BY DEF TypeWorkers, Moves, Target
  <1>2. TypeWorkers'
    <2>1. ASSUME NEW l \in Workers, wpc'[l] \notin {"idle", "claim"}
          PROVE  pack'[Target(l)'] \in InFlight \union Delivered
      <3>1. Target(l) \in Weeks /\ wpc[l] \notin {"idle", "claim"}
        BY <1>1, <2>1, TargetWeek DEF Past
      <3>2. pack[Target(l)] \in InFlight \union Delivered
        BY <3>1 DEF TypeWorkers
      <3>. QED  BY <1>1, <3>1, <3>2
    <2>2. /\ wpc' \in [Workers -> {"idle", "claim"} \union Past]
          /\ wjob' \in [Workers -> Jobs \union {NoJob}]
          /\ \A l \in Workers : wpc'[l] # "idle" => wjob'[l] \in Jobs
      BY <1>1 DEF TypeWorkers, Moves, Past
    <2>. QED  BY <1>1, <2>1, <2>2 DEF TypeWorkers, Past
  <1>3. \A l \in Workers, w \in Weeks : Has(l, w)' => Has(l, w)
    BY <1>1 DEF Has, Past
  <1>4. OneGenerator'
    BY <1>3 DEF OneGenerator
  <1>. QED  BY <1>2, <1>4

\* A worker leaves; a pack only its owner fails.
LEMMA OwnerLeaves ==
    ASSUME TypePacks, TypeWorkers, OneGenerator, NEW k \in Workers, Leaves(k),
           \/ pack' = pack
           \/ wpc[k] \in Past /\ pack' = [pack EXCEPT ![Target(k)] = "failed"]
           \/ /\ wpc[k] = "claim" /\ Claimable(Target(k))
              /\ pack' = [pack EXCEPT ![Target(k)] = "generating"]
    PROVE  TypeWorkers' /\ OneGenerator'
  <1>1. /\ \A l \in Workers : wpc'[l] = IF l = k THEN "idle" ELSE wpc[l]
        /\ \A l \in Workers : l # k => wjob'[l] = wjob[l] /\ Target(l)' = Target(l)
    BY DEF TypeWorkers, Leaves, Target
  <1>2. TypeWorkers'
    <2>1. ASSUME NEW l \in Workers, wpc'[l] \notin {"idle", "claim"}
          PROVE  pack'[Target(l)'] \in InFlight \union Delivered
      <3>1. l # k /\ wpc[l] \notin {"idle", "claim"} /\ Target(l) \in Weeks
        BY <1>1, <2>1, TargetWeek
      <3>2. pack[Target(l)] \in InFlight \union Delivered
        BY <3>1 DEF TypeWorkers
      <3>3. wpc[k] \in Past => Target(l) # Target(k)
        BY <3>1 DEF OneGenerator, Has, Past
      <3>. QED  BY <1>1, <3>1, <3>2, <3>3 DEF TypePacks, Claimable
    <2>. QED  BY <1>1, <2>1 DEF TypeWorkers, Leaves
  <1>3. \A l \in Workers, w \in Weeks : Has(l, w)' => Has(l, w)
    BY <1>1 DEF Has
  <1>4. OneGenerator'
    BY <1>3 DEF OneGenerator
  <1>. QED  BY <1>2, <1>4

\* The claim finds the pack without an owner.
LEMMA OwnerClaims ==
    ASSUME TypePacks, TypeWorkers, OneGenerator, NEW k \in Workers, wpc[k] = "claim",
           Claimable(Target(k)), Moves(k, "announce"),
           pack' = [pack EXCEPT ![Target(k)] = "generating"]
    PROVE  TypeWorkers' /\ OneGenerator'
  <1>1. /\ \A l \in Workers : wpc'[l] = IF l = k THEN "announce" ELSE wpc[l]
        /\ \A l \in Workers : wjob'[l] = wjob[l] /\ Target(l)' = Target(l)
        /\ Target(k) \in Weeks
    BY TargetWeek DEF TypeWorkers, Moves, Target
  <1>2. \A l \in Workers : ~Has(l, Target(k))
    BY <1>1 DEF Has, TypeWorkers, Claimable
  <1>3. TypeWorkers'
    <2>1. ASSUME NEW l \in Workers, wpc'[l] \notin {"idle", "claim"}
          PROVE  pack'[Target(l)'] \in InFlight \union Delivered
      <3>1. CASE l = k
        BY <1>1, <3>1 DEF TypePacks
      <3>2. CASE l # k
        <4>1. wpc[l] \notin {"idle", "claim"} /\ Target(l) \in Weeks
          BY <1>1, <2>1, <3>2, TargetWeek
        <4>2. pack[Target(l)] \in InFlight \union Delivered
          BY <4>1 DEF TypeWorkers
        <4>. QED  BY <1>1, <4>1, <4>2 DEF TypePacks
      <3>. QED  BY <3>1, <3>2
    <2>. QED  BY <1>1, <2>1 DEF TypeWorkers, Moves
  <1>4. \A l \in Workers, w \in Weeks : Has(l, w)' => Has(l, w) \/ (l = k /\ w = Target(k))
    BY <1>1 DEF Has
  <1>5. OneGenerator'
    BY <1>2, <1>4 DEF OneGenerator
  <1>. QED  BY <1>3, <1>5
-----------------------------------------------------------------------------
(* Types and ownership, action by action *)

LEMMA RequestsKeepTypes ==
    ASSUME TypeAndOwner, NEW o \in Requests, Asks(o)
    PROVE  TypeAndOwner'
  <1>. USE WeeksAssumption, Untouched DEF TypeAndOwner, TypeOK
  <1>1. CASE Abandon(o)
    BY <1>1, RequestAnswers DEF Abandon
  <1>2. CASE BeginGenerate(o)
    <2>1. week \in Weeks /\ week \in Nat
      BY DEF TypeCycle, Weeks
    <2>2. TypeRequests'
      BY <1>2, <2>1, RequestWaits DEF BeginGenerate
    <2>. QED  BY <1>2, <2>2 DEF BeginGenerate
  <1>3. CASE ClaimQueuedPack(o)
    <2>. DEFINE w == rarg[o][1]
    <2>1. w \in Weeks /\ <<w, 0>> \in Jobs /\ <<w, 0>> \in Nat \X Nat
      BY <1>3, FirstJob DEF ClaimQueuedPack, TypeRequests, Weeks
    <2>2. CASE UNCHANGED <<plan, frozenInput, pack, eligible, outbox>> /\ Awaits(o, "readd", <<w, 0>>)
      <3>1. TypeRequests'
        BY <2>1, <2>2, RequestWaits
      <3>. QED  BY <1>3, <2>2, <3>1 DEF ClaimQueuedPack
    <2>3. CASE /\ pack[w] = "absent"
               /\ plan' = [plan EXCEPT ![w] = "frozen"]
               /\ frozenInput' = frozenInput \union {w}
               /\ pack' = [pack EXCEPT ![w] = "queued"]
               /\ eligible' = eligible \union {w}
               /\ outbox' = [outbox EXCEPT ![<<w, 0>>] = "pending"]
               /\ Awaits(o, "add", <<w, 0>>)
      <3>1. TypeRequests'
        BY <2>1, <2>3, RequestWaits
      <3>2. TypePacks'
        BY <1>3, <2>1, <2>3 DEF ClaimQueuedPack, TypePacks
      <3>4. UNCHANGED <<cycle, week, tick, moneyVars, faulted, interrupted, jobVars, workVars>>
            /\ UNCHANGED <<held, attempts>>
        BY <1>3 DEF ClaimQueuedPack
      <3>. HIDE DEF w
      <3>3. TypeWorkers'
        BY <2>1, <2>3, <3>4, UnownedPackChanged
      <3>5. outbox[<<w, 0>>] = "absent"
        BY <2>1, <2>3 DEF RowsHavePacks
      <3>6. TypeRows'
        BY <2>1, <2>3, <3>4, <3>5, RowAdded
      <3>7. RowsHavePacks'
        BY <2>1, <2>3, RowsKept DEF TypePacks, TypeRows
      <3>. QED  BY <3>1, <3>2, <3>3, <3>4, <3>6, <3>7
    <2>. QED  BY <1>3, <2>2, <2>3 DEF ClaimQueuedPack
  <1>4. ASSUME NEW w \in Weeks, BeginRetry(o, w)  PROVE TypeAndOwner'
    <2>1. <<w, 0>> \in Nat \X Nat
      BY DEF Weeks
    <2>2. TypeRequests'
      BY <1>4, <2>1, RequestWaits DEF BeginRetry
    <2>. QED  BY <1>4, <2>2 DEF BeginRetry
  <1>5. CASE CommitRetry(o)
    <2>. DEFINE w == rarg[o][1]
    <2>1. PICK n \in 1..MaxRetries :
             /\ outbox[<<w, n>>] = "absent"
             /\ outbox' = [outbox EXCEPT ![<<w, n>>] = "pending"]
             /\ Awaits(o, "add", <<w, n>>)
      BY <1>5 DEF CommitRetry
    <2>2. w \in Weeks /\ <<w, n>> \in Jobs /\ <<w, n>> \in Nat \X Nat
      BY <1>5 DEF CommitRetry, TypeRequests, Jobs, Weeks
    <2>3. /\ pack[w] = "failed" /\ pack' = [pack EXCEPT ![w] = "queued"]
          /\ eligible' \in {eligible, eligible \ {w}}
          /\ UNCHANGED <<cycle, week, tick, moneyVars, faulted, interrupted, jobVars, workVars>>
          /\ UNCHANGED <<planVars, generated, held, attempts>>
      BY <1>5 DEF CommitRetry
    <2>4. TypeRequests'
      BY <2>1, <2>2, RequestWaits
    <2>. HIDE DEF w
    <2>5. TypeRows'
      BY <2>1, <2>2, <2>3, RowAdded
    <2>6. TypePacks'
      BY <2>2, <2>3, PackChanged DEF TypePacks
    <2>7. TypeWorkers'
      BY <2>2, <2>3, UnownedPackChanged
    <2>8. RowsHavePacks'
      BY <2>1, <2>2, <2>3, RowsKept DEF TypePacks, TypeRows
    <2>. QED  BY <2>3, <2>4, <2>5, <2>6, <2>7, <2>8
  <1>6. CASE AddDirectly(o)
    <2>1. rarg[o] \in Jobs
      BY <1>6 DEF AddDirectly, TypeRequests
    <2>2. TypeRows'
      BY <1>6, <2>1 DEF AddDirectly, TypeRows
    <2>3. TypeJobs'
      BY <1>6, <2>1, AddKeepsJobs DEF AddDirectly
    <2>4. RowsHavePacks'
      BY <1>6, <2>1, RowsKept DEF AddDirectly, TypeRows
    <2>. QED  BY <1>6, <2>2, <2>3, <2>4, RequestAnswers DEF AddDirectly
  <1>. QED
    BY <1>1, <1>2, <1>3, <1>4, <1>5, <1>6 DEF Asks

\* The owner's plans and decisions, the scheduler and the job outbox.
LEMMA OthersKeepTypes ==
    ASSUME TypeAndOwner,
           \/ PauseOrResume \/ SpendElsewhere \/ Reconciles \/ ReconcilerCrash
           \/ \E w \in Weeks : ReadPlan(w) \/ CommitPlan(w) \/ Review(w)
           \/ \E t \in Ticks : ReadTick(t) \/ AdvanceToNextWeek(t)
           \/ \E j \in Jobs : LeaseExpires(j) \/ Stall(j)
    PROVE  TypeAndOwner'
  <1>. USE WeeksAssumption, WorkerNames, Untouched DEF TypeAndOwner, TypeOK
  <1>1. CASE PauseOrResume
    BY <1>1 DEF PauseOrResume, TypeCycle
  <1>2. CASE SpendElsewhere
    BY <1>2 DEF SpendElsewhere, TypeCycle
  <1>3. ASSUME NEW w \in Weeks, Review(w)  PROVE TypeAndOwner'
    <2>1. PICK s \in {"partially_approved", "approved"} :
             pack[w] \in Delivered /\ pack' = [pack EXCEPT ![w] = s]
      BY <1>3 DEF Review
    <2>2. UNCHANGED <<cycle, week, planVars, eligible, generated, rowVars, jobVars, workVars,
                      reqVars, tick, moneyVars, faulted, interrupted>>
      BY <1>3 DEF Review
    <2>3. TypePacks' /\ pack' \in [Weeks -> PackStates]
      BY <2>1, <2>2, PackChanged DEF TypePacks
    <2>4. \A k \in Workers : wpc[k] \notin {"idle", "claim"} =>
              pack'[Target(k)] \in InFlight \union Delivered
      BY <2>1, TargetWeek DEF TypeWorkers, TypePacks
    <2>5. TypeWorkers'
      BY <2>2, <2>4 DEF TypeWorkers, Target
    <2>6. RowsHavePacks'
      BY <2>1, <2>2, RowsKept DEF TypePacks
    <2>. QED  BY <2>2, <2>3, <2>5, <2>6
  <1>4. ASSUME NEW t \in Ticks, ReadTick(t)  PROVE TypeAndOwner'
    BY <1>4 DEF ReadTick, TypeCycle, Weeks
  <1>5. ASSUME NEW t \in Ticks, AdvanceToNextWeek(t)  PROVE TypeAndOwner'
    <2>1. week' \in Weeks
      BY <1>5 DEF AdvanceToNextWeek, TypeCycle, Weeks
    <2>. QED  BY <1>5, <2>1 DEF AdvanceToNextWeek, TypeCycle
  <1>6. CASE ClaimDueJobs
    <2>1. TypeRows'
      BY <1>6 DEF ClaimDueJobs, TypeRows
    <2>2. RowsHavePacks'
      BY <1>6, RowsKept DEF ClaimDueJobs
    <2>. QED  BY <1>6, <2>1, <2>2 DEF ClaimDueJobs
  <1>7. ASSUME NEW j \in Jobs, DispatchJob(j)  PROVE TypeAndOwner'
    <2>1. outbox[j] = "processing" /\ attempts[j] \in 0..MaxAttempts /\ attempts[j] < MaxAttempts
      BY <1>7 DEF DispatchJob, TypeRows
    <2>2. CASE UNCHANGED <<attempts, faulted, interrupted>>
      <3>1. TypeRows'
        BY <1>7, <2>1, <2>2 DEF DispatchJob, TypeRows
      <3>2. TypeJobs'
        BY <1>7, AddKeepsJobs DEF DispatchJob, TypeJobs
      <3>3. RowsHavePacks'
        BY <1>7, <2>1, RowsKept DEF DispatchJob, TypeRows
      <3>. QED  BY <1>7, <2>2, <3>1, <3>2, <3>3 DEF DispatchJob
    <2>3. CASE attempts' = [attempts EXCEPT ![j] = attempts[j] + 1]
      <3>1. attempts[j] + 1 \in 0..MaxAttempts
        BY <2>1
      <3>2. TypeRows'
        BY <1>7, <2>1, <2>3, <3>1 DEF DispatchJob, TypeRows
      <3>3. TypeJobs'
        BY <1>7, AddKeepsJobs DEF DispatchJob, TypeJobs
      <3>4. RowsHavePacks'
        BY <1>7, <2>1, RowsKept DEF DispatchJob, TypeRows
      <3>5. TypeCycle'
        BY <1>7, JobWeek, FaultsCounted DEF DispatchJob
      <3>. QED  BY <1>7, <2>3, <3>2, <3>3, <3>4, <3>5 DEF DispatchJob
    <2>. QED  BY <1>7, <2>2, <2>3 DEF DispatchJob
  <1>8. CASE ReconcilerCrash
    <2>1. TypeCycle'
      BY <1>8, FaultsCounted DEF ReconcilerCrash
    <2>2. TypeRows'
      BY <1>8 DEF ReconcilerCrash, TypeRows
    <2>. QED  BY <1>8, <2>1, <2>2 DEF ReconcilerCrash
  <1>9. ASSUME NEW j \in Jobs, LeaseExpires(j)  PROVE TypeAndOwner'
    <2>1. TypeRows'
      BY <1>9 DEF LeaseExpires, TypeRows
    <2>2. RowsHavePacks'
      BY <1>9, RowsKept DEF LeaseExpires, TypeRows
    <2>. QED  BY <1>9, <2>1, <2>2 DEF LeaseExpires
  <1>10. ASSUME NEW j \in Jobs, Stall(j)  PROVE TypeAndOwner'
    <2>1. TypeCycle'
      BY <1>10, JobWeek, FaultsCounted DEF Stall
    <2>2. TypeJobs'
      BY <1>10 DEF Stall, TypeJobs
    <2>. QED  BY <1>10, <2>1, <2>2 DEF Stall
  <1>11. ASSUME NEW w \in Weeks, ReadPlan(w)  PROVE TypeAndOwner'
    <2>1. TypePacks'
      BY <1>11 DEF ReadPlan, TypePacks
    <2>. QED  BY <1>11, <2>1 DEF ReadPlan
  <1>12. ASSUME NEW w \in Weeks, CommitPlan(w)  PROVE TypeAndOwner'
    <2>1. TypePacks'
      BY <1>12 DEF CommitPlan, TypePacks
    <2>. QED  BY <1>12, <2>1 DEF CommitPlan
  <1>. QED
    BY <1>1, <1>2, <1>3, <1>4, <1>5, <1>6, <1>7, <1>8, <1>9, <1>10, <1>11, <1>12 DEF Reconciles

\* The worker, handler by handler.
LEMMA WorkerKeepsTypes ==
    ASSUME TypeAndOwner, NEW k \in Workers,
           (\E j \in Jobs : Take(k, j)) \/ Works(k) \/ WorkerCrash(k)
    PROVE  TypeAndOwner'
  <1>. DEFINE w == Target(k)
  <1>. USE WeeksAssumption, WorkerNames, Untouched DEF TypeAndOwner, TypeOK
  <1>1. wpc[k] # "idle" => w \in Weeks
    BY TargetWeek
  <1>2. wpc[k] \in Past => pack[w] \in InFlight \union Delivered
    BY DEF TypeWorkers, Past
  <1>3. pack \in [Weeks -> PackStates]
    BY DEF TypePacks
  <1>4. ASSUME NEW j \in Jobs, Take(k, j)  PROVE TypeAndOwner'
    <2>1. TypeJobs'
      BY <1>4 DEF Take, TypeJobs
    <2>2. /\ \A l \in Workers : l # k => wpc'[l] = wpc[l] /\ wjob'[l] = wjob[l]
          /\ wpc'[k] = "claim" /\ wjob'[k] = j
          /\ UNCHANGED pack
      BY <1>4 DEF Take, TypeWorkers
    <2>3. \A l \in Workers : l # k => Target(l)' = Target(l)
      BY <2>2 DEF Target
    <2>4. /\ wpc' \in [Workers -> {"idle", "claim"} \union Past]
          /\ wjob' \in [Workers -> Jobs \union {NoJob}]
      BY <1>4 DEF Take, TypeWorkers, Past
    <2>5. TypeWorkers'
      BY <2>2, <2>3, <2>4 DEF TypeWorkers, Past
    <2>6. OneGenerator'
      BY <2>2, <2>3 DEF OneGenerator, Has
    <2>. QED  BY <1>4, <2>1, <2>5, <2>6 DEF Take
  <1>5. CASE ClaimPack(k)
    <2>1. wpc[k] = "claim" /\ w \in Weeks
      BY <1>1, <1>5 DEF ClaimPack
    <2>2. Claimable(w) => pack[w] # "absent"
      BY DEF Claimable
    <2>3. /\ UNCHANGED <<cycle, week, planVars, eligible, generated, rowVars, reqVars, tick, moneyVars>>
          /\ pack' = pack \/ (Claimable(w) /\ pack' = [pack EXCEPT ![w] = "generating"])
      BY <1>5 DEF ClaimPack
    <2>4. TypePacks'
      BY <2>1, <2>2, <2>3, PackChanged DEF TypePacks
    <2>5. RowsHavePacks'
      BY <1>3, <2>1, <2>3, RowsKept
    <2>6. TypeCycle'
      BY <1>5, <2>1, <2>3, FaultsCounted DEF ClaimPack
    <2>7. TypeJobs'
      BY <1>5, <2>1, CompletesKeepsJobs, ThrowsKeepsJobs DEF ClaimPack
    <2>8. TypeWorkers' /\ OneGenerator'
      <3>1. CASE Moves(k, "announce") /\ Claimable(w) /\ pack' = [pack EXCEPT ![w] = "generating"]
        BY <2>1, <3>1, OwnerClaims
      <3>2. CASE Leaves(k)
        BY <2>1, <2>3, <3>2, OwnerLeaves
      <3>. QED  BY <1>5, <3>1, <3>2 DEF ClaimPack, Completes, Throws
    <2>. QED  BY <2>3, <2>4, <2>5, <2>6, <2>7, <2>8
  <1>6. CASE Announce(k)
    <2>1. wpc[k] \in Past /\ wpc[k] # "idle" /\ w \in Weeks
      BY <1>1, <1>6 DEF Announce, Past
    <2>2. UNCHANGED <<cycle, week, planVars, packVars, rowVars, reqVars, tick, moneyVars>>
      BY <1>6 DEF Announce
    <2>3. TypeCycle'
      BY <1>6, <2>1, <2>2, FaultsCounted DEF Announce
    <2>4. TypeJobs'
      BY <1>6, <2>1, ThrowsKeepsJobs DEF Announce
    <2>5. TypeWorkers' /\ OneGenerator'
      <3>1. ASSUME NEW pc \in Past, Moves(k, pc)  PROVE TypeWorkers' /\ OneGenerator'
        BY <1>2, <1>3, <2>1, <2>2, <3>1, OwnerMoves
      <3>2. CASE Leaves(k)
        BY <2>2, <3>2, OwnerLeaves
      <3>. QED  BY <1>6, <3>1, <3>2 DEF Announce, Throws, Past
    <2>. QED  BY <2>2, <2>3, <2>4, <2>5
  <1>7. CASE Generate(k)
    <2>1. wpc[k] \in Past /\ w \in Weeks
      BY <1>1, <1>7 DEF Generate, Past
    <2>2. UNCHANGED <<cycle, week, planVars, eligible, generated, rowVars, jobVars, reqVars, tick,
                      moneyVars, interrupted>>
      BY <1>7 DEF Generate
    <2>3. PICK s \in InFlight \union Delivered : pack' = [pack EXCEPT ![w] = s]
      BY <1>2, <1>3, <1>7, <2>1 DEF Generate
    <2>4. TypePacks'
      BY <1>2, <2>1, <2>2, <2>3, PackChanged DEF TypePacks
    <2>5. RowsHavePacks'
      BY <1>3, <2>1, <2>2, <2>3, RowsKept
    <2>6. TypeCycle'
      BY <1>7, <2>2, FaultsCounted DEF Generate
    <2>7. PICK pc \in Past : Moves(k, pc)
      BY <1>7 DEF Generate, Past
    <2>8. TypeWorkers' /\ OneGenerator'
      BY <1>3, <2>1, <2>3, <2>7, OwnerMoves
    <2>. QED  BY <2>2, <2>4, <2>5, <2>6, <2>8
  <1>8. CASE Persist(k)
    <2>1. wpc[k] \in Past /\ w \in Weeks
      BY <1>1, <1>8 DEF Persist, Past
    <2>2. UNCHANGED <<week, planVars, eligible, rowVars, jobVars, reqVars, tick, moneyVars, interrupted>>
      BY <1>8 DEF Persist
    <2>3. PICK s \in InFlight \union Delivered : pack' = [pack EXCEPT ![w] = s]
      BY <1>2, <1>3, <1>8, <2>1 DEF Persist
    <2>4. generated' \subseteq Weeks /\ cycle' \in {cycle, "completed"}
      BY <1>8, <2>1 DEF Persist, TypePacks
    <2>5. TypePacks'
      BY <1>2, <2>1, <2>2, <2>3, <2>4, PackChanged DEF TypePacks
    <2>6. RowsHavePacks'
      BY <1>3, <2>1, <2>2, <2>3, RowsKept
    <2>7. faulted' \in 0..MaxFaults
      BY <1>8, FaultInRange DEF Persist
    <2>8. TypeCycle'
      BY <2>2, <2>4, <2>7 DEF TypeCycle
    <2>9. PICK pc \in Past : Moves(k, pc)
      BY <1>8 DEF Persist, Past
    <2>10. TypeWorkers' /\ OneGenerator'
      BY <1>3, <2>1, <2>3, <2>9, OwnerMoves
    <2>. QED  BY <2>2, <2>5, <2>6, <2>8, <2>10
  <1>9. CASE Charge(k)
    <2>1. wpc[k] \in Past /\ w \in Weeks
      BY <1>1, <1>9 DEF Charge, Past
    <2>2. UNCHANGED <<cycle, week, planVars, packVars, rowVars, jobVars, reqVars, tick, interrupted>>
      BY <1>9 DEF Charge
    <2>3. balance' \in Nat /\ charged' \subseteq Weeks
      <3>1. \/ UNCHANGED moneyVars
            \/ balance >= Price /\ balance' = balance - Price /\ charged' = charged \union {w}
        BY <1>9 DEF Charge
      <3>. QED  BY <2>1, <3>1 DEF TypeCycle
    <2>4. faulted' \in 0..MaxFaults
      BY <1>9, FaultInRange DEF Charge
    <2>5. TypeCycle'
      BY <2>2, <2>3, <2>4 DEF TypeCycle
    <2>6. PICK pc \in Past : Moves(k, pc)
      BY <1>9 DEF Charge, Past
    <2>7. TypeWorkers' /\ OneGenerator'
      BY <1>2, <1>3, <2>1, <2>2, <2>6, OwnerMoves
    <2>. QED  BY <2>2, <2>5, <2>7
  <1>10. CASE RecordCost(k)
    <2>1. wpc[k] \in Past /\ w \in Weeks
      BY <1>1, <1>10 DEF RecordCost, Past
    <2>2. UNCHANGED <<cycle, week, planVars, packVars, rowVars, reqVars, tick, moneyVars, interrupted>>
      BY <1>10 DEF RecordCost
    <2>3. TypeCycle'
      BY <1>10, <2>2, FaultsCounted DEF RecordCost
    <2>4. TypeJobs'
      BY <1>10, CompletesKeepsJobs DEF RecordCost
    <2>5. TypeWorkers' /\ OneGenerator'
      <3>1. CASE Moves(k, "fail retry")
        BY <1>2, <1>3, <2>1, <2>2, <3>1, OwnerMoves DEF Past
      <3>2. CASE Leaves(k)
        BY <2>2, <3>2, OwnerLeaves
      <3>. QED  BY <1>10, <3>1, <3>2 DEF RecordCost, Completes
    <2>. QED  BY <2>2, <2>3, <2>4, <2>5
  <1>11. CASE Fail(k)
    <2>1. wpc[k] \in Past /\ wpc[k] # "idle" /\ w \in Weeks
      BY <1>1, <1>11 DEF Fail, Past
    <2>2. /\ UNCHANGED <<cycle, week, planVars, generated, rowVars, reqVars, tick, moneyVars>>
          /\ pack' = pack \/ pack' = [pack EXCEPT ![w] = "failed"]
          /\ eligible' \subseteq Weeks
          /\ pack' = pack => UNCHANGED eligible \/ pack' = [pack EXCEPT ![w] = "failed"]
      BY <1>11, <2>1 DEF Fail, TypePacks
    <2>3. TypePacks'
      BY <1>2, <2>1, <2>2, PackChanged DEF TypePacks
    <2>4. RowsHavePacks'
      BY <1>3, <2>1, <2>2, RowsKept
    <2>5. TypeCycle'
      BY <1>11, <2>1, <2>2, FaultsCounted DEF Fail
    <2>6. TypeJobs'
      BY <1>11, <2>1, CompletesKeepsJobs, ThrowsKeepsJobs DEF Fail
    <2>7. Leaves(k)
      BY <1>11 DEF Fail, Completes, Throws
    <2>8. TypeWorkers' /\ OneGenerator'
      BY <2>1, <2>2, <2>7, OwnerLeaves
    <2>. QED  BY <2>2, <2>3, <2>4, <2>5, <2>6, <2>8
  <1>12. CASE WorkerCrash(k)
    <2>1. w \in Weeks
      BY <1>1, <1>12 DEF WorkerCrash
    <2>2. TypeCycle'
      BY <1>12, <2>1, FaultsCounted DEF WorkerCrash
    <2>3. TypeWorkers' /\ OneGenerator'
      BY <1>12, OwnerLeaves DEF WorkerCrash
    <2>. QED  BY <1>12, <2>2, <2>3 DEF WorkerCrash
  <1>. QED
    BY <1>4, <1>5, <1>6, <1>7, <1>8, <1>9, <1>10, <1>11, <1>12 DEF Works

LEMMA TypeStep == TypeAndOwner /\ [Next]_vars => TypeAndOwner'
  <1>1. TypeAndOwner /\ UNCHANGED vars => TypeAndOwner'
    BY Untouched DEF vars, TypeAndOwner, TypeOK
  <1>. QED
    BY <1>1, RequestsKeepTypes, OthersKeepTypes, WorkerKeepsTypes DEF Next, Reconciles

LEMMA TypeInit == Init => TypeAndOwner
  <1>. SUFFICES ASSUME Init PROVE TypeAndOwner
    OBVIOUS
  <1>. USE WeeksAssumption, WorkerNames DEF Init
  <1>1. TypeCycle
    BY DEF TypeCycle, Weeks
  <1>2. TypePacks /\ TypeRows /\ TypeJobs
    BY DEF TypePacks, TypeRows, TypeJobs
  <1>3. TypeWorkers /\ TypeRequests /\ OneGenerator
    BY DEF TypeWorkers, TypeRequests, OneGenerator, Has
  <1>4. RowsHavePacks
    BY DEF RowsHavePacks
  <1>. QED  BY <1>1, <1>2, <1>3, <1>4 DEF TypeAndOwner, TypeOK

-----------------------------------------------------------------------------
(* The theorems *)

\* Every row, pack, job, request and worker of a cycle stays in a state the
\* schema and the code allow (content_packs, content_job_outbox, BullMQ's tries).
THEOREM CycleTypeCorrect == Spec => []TypeOK
  BY TypeInit, TypeStep, PTL DEF Spec, TypeAndOwner

\* Whatever is redelivered, retried or queued twice, one worker at a time has a
\* pack from its claim to its charge (claimPackForGeneration and the status checks).
THEOREM OneWorkerPerPack == Spec => []OneGenerator
  BY TypeInit, TypeStep, PTL DEF Spec, TypeAndOwner

-----------------------------------------------------------------------------
(* The cursor *)

\* Why CursorPassedGenerated holds: a delivered pack has items, so a tick has
\* read the cursor at a week with items, and no item is ever deleted.
CursorInv ==
    /\ CursorPassedGenerated
    /\ \A w \in Weeks : pack[w] \in Delivered => w \in generated
    /\ \A t \in Ticks : tick[t] # 0 => tick[t] \in generated

LEMMA CursorUntouched ==
    CursorInv /\ UNCHANGED <<cycle, week, tick, pack, generated>> => CursorInv'
  BY DEF CursorInv, CursorPassedGenerated

\* A pack that is not delivered by the step.
LEMMA CursorPackChanged ==
    ASSUME TypePacks, CursorInv, NEW w, NEW s, pack' = [pack EXCEPT ![w] = s],
           s \in Delivered => w \in generated,
           UNCHANGED <<cycle, week, tick, generated>>
    PROVE  CursorInv'
  BY DEF TypePacks, CursorInv, CursorPassedGenerated

LEMMA CursorStep == TypeAndOwner /\ CursorInv /\ [Next]_vars => CursorInv'
  <1>. SUFFICES ASSUME TypeAndOwner, CursorInv, [Next]_vars PROVE CursorInv'
    OBVIOUS
  <1>. USE CursorUntouched, CursorPackChanged DEF TypeAndOwner, TypeOK
  <1>1. ASSUME NEW o \in Requests, Asks(o)  PROVE CursorInv'
    <2>1. CASE ClaimQueuedPack(o)
      BY <2>1 DEF ClaimQueuedPack
    <2>2. CASE CommitRetry(o)
      BY <2>2 DEF CommitRetry
    <2>. QED
      BY <1>1, <2>1, <2>2 DEF Asks, Abandon, BeginGenerate, AddDirectly, BeginRetry
  <1>2. CASE PauseOrResume
    BY <1>2 DEF PauseOrResume, CursorInv, CursorPassedGenerated
  <1>3. ASSUME NEW w \in Weeks, Review(w)  PROVE CursorInv'
    BY <1>3 DEF Review, CursorInv
  <1>4. ASSUME NEW t \in Ticks, ReadTick(t)  PROVE CursorInv'
    BY <1>4 DEF ReadTick, CursorInv, CursorPassedGenerated, TypeCycle
  <1>5. ASSUME NEW t \in Ticks, AdvanceToNextWeek(t)  PROVE CursorInv'
    <2>1. \A x \in Ticks : tick'[x] # 0 => tick'[x] = tick[x]
      BY <1>5 DEF AdvanceToNextWeek, TypeCycle
    <2>2. UNCHANGED <<pack, generated>>
      BY <1>5 DEF AdvanceToNextWeek
    <2>3. week' # week \/ cycle' # cycle => week \in generated
      BY <1>5 DEF AdvanceToNextWeek, CursorInv
    <2>4. week \in Nat /\ week <= LastWeek /\ LastWeek \in Nat
      BY WeeksAssumption DEF TypeCycle, Weeks
    <2>5. /\ week' = week \/ week' = week + 1
          /\ cycle' = cycle \/ week = LastWeek
      BY <1>5, <2>4 DEF AdvanceToNextWeek
    <2>6. ASSUME NEW w \in Weeks, w < week'  PROVE w \in generated
      <3>1. w < week \/ (w = week /\ week' # week)
        BY <2>4, <2>5, <2>6 DEF Weeks
      <3>. QED  BY <2>3, <3>1 DEF CursorInv, CursorPassedGenerated
    <2>7. cycle' = "completed" => LastWeek \in generated
      BY <2>3, <2>5 DEF CursorInv, CursorPassedGenerated
    <2>. QED  BY <2>1, <2>2, <2>6, <2>7 DEF CursorInv, CursorPassedGenerated
  <1>6. ASSUME NEW k \in Workers, Works(k)  PROVE CursorInv'
    <2>1. CASE ClaimPack(k)
      BY <2>1 DEF ClaimPack
    <2>2. CASE Generate(k)
      <3>1. CASE pack[Target(k)] = "generating"
        BY <2>2, <3>1 DEF Generate
      <3>2. CASE pack[Target(k)] # "generating"
        BY <2>2, <3>2 DEF Generate, TypePacks
      <3>. QED  BY <3>1, <3>2
    <2>3. CASE Persist(k)
      <3>1. CASE UNCHANGED <<cycle, pack, generated>>
        BY <2>3, <3>1 DEF Persist
      <3>2. CASE /\ generated' = generated \union {Target(k)}
                 /\ pack' = [pack EXCEPT ![Target(k)] = "draft"]
                 /\ cycle' = IF Target(k) = LastWeek /\ week = Target(k) /\ cycle = "active"
                             THEN "completed" ELSE cycle
        BY <2>3, <3>2 DEF Persist, CursorInv, CursorPassedGenerated, TypePacks
      <3>. QED  BY <2>3, <3>1, <3>2 DEF Persist
    <2>4. CASE Fail(k)
      BY <2>4 DEF Fail
    <2>. QED
      BY <1>6, <2>1, <2>2, <2>3, <2>4 DEF Works, Announce, Charge, RecordCost
  <1>7. CASE SpendElsewhere \/ Reconciles \/ ReconcilerCrash
    BY <1>7 DEF SpendElsewhere, Reconciles, ClaimDueJobs, DispatchJob, ReconcilerCrash
  <1>8. ASSUME NEW j \in Jobs, LeaseExpires(j) \/ Stall(j)  PROVE CursorInv'
    BY <1>8 DEF LeaseExpires, Stall
  <1>9. ASSUME NEW k \in Workers, (\E j \in Jobs : Take(k, j)) \/ WorkerCrash(k)  PROVE CursorInv'
    BY <1>9 DEF Take, WorkerCrash
  <1>10. ASSUME NEW w \in Weeks, ReadPlan(w) \/ CommitPlan(w)  PROVE CursorInv'
    BY <1>10 DEF ReadPlan, CommitPlan
  <1>11. CASE UNCHANGED vars
    BY <1>11 DEF vars
  <1>. QED
    BY <1>1, <1>2, <1>3, <1>4, <1>5, <1>6, <1>7, <1>8, <1>9, <1>10, <1>11 DEF Next

\* Ticks that overlap, and act on a cursor that has moved or a cycle that was
\* paused, never move it past a week without content (advanceToNextWeek).
THEOREM CursorNeverSkips == Spec => []CursorPassedGenerated
  <1>1. Init => CursorInv
    BY DEF Init, CursorInv, CursorPassedGenerated, Weeks
  <1>2. CursorInv => CursorPassedGenerated
    BY DEF CursorInv
  <1>. QED
    BY <1>1, <1>2, TypeInit, TypeStep, CursorStep, PTL DEF Spec

-----------------------------------------------------------------------------
(* The points *)

\* Why ReviewableIsPaidUnlessInterrupted holds: whoever reaches the last call has
\* charged, and whoever leaves before has failed the pack or was interrupted.
PaidInv ==
    /\ ReviewableIsPaidUnlessInterrupted
    /\ \A k \in Workers : wpc[k] = "cost" => Target(k) \in charged

LEMMA PaidUntouched ==
    PaidInv /\ UNCHANGED <<pack, workVars, charged, interrupted>> => PaidInv'
  BY DEF PaidInv, ReviewableIsPaidUnlessInterrupted, Has, Target

\* Packs that were not delivered stay so, owners stay owners, and nothing is
\* forgotten.
LEMMA PaidKept ==
    ASSUME PaidInv, charged \subseteq charged', interrupted \subseteq interrupted',
           \A w \in Weeks : pack'[w] \in Delivered =>
               \/ w \in charged' \union interrupted' \/ \E k \in Workers : Has(k, w)'
               \/ pack[w] \in Delivered /\ \A k \in Workers : Has(k, w) => Has(k, w)',
           \A k \in Workers : wpc'[k] = "cost" =>
               Target(k)' \in charged' \/ (wpc[k] = "cost" /\ Target(k)' = Target(k))
    PROVE  PaidInv'
  BY DEF PaidInv, ReviewableIsPaidUnlessInterrupted

\* A worker that goes on, not to the last call unless it has charged.
LEMMA PaidMoves ==
    ASSUME TypeWorkers, PaidInv, NEW k \in Workers, wpc[k] # "idle", NEW pc \in Past, Moves(k, pc),
           pc = "cost" => Target(k) \in charged',
           charged \subseteq charged', interrupted \subseteq interrupted',
           \A w \in Weeks : w # Target(k) => pack'[w] = pack[w]
    PROVE  PaidInv'
  <1>1. /\ \A l \in Workers : wpc'[l] = IF l = k THEN pc ELSE wpc[l]
        /\ \A l \in Workers : Target(l)' = Target(l)
    BY DEF TypeWorkers, Moves, Target
  <1>2. \A w \in Weeks : w = Target(k) => Has(k, w)'
    BY <1>1 DEF Has, Past
  <1>3. \A l \in Workers, w \in Weeks : Has(l, w) => Has(l, w)'
    BY <1>1 DEF Has, Past
  <1>4. ASSUME NEW w \in Weeks, pack'[w] \in Delivered
        PROVE  \/ w \in charged' \union interrupted' \/ \E l \in Workers : Has(l, w)'
               \/ pack[w] \in Delivered /\ \A l \in Workers : Has(l, w) => Has(l, w)'
    <2>1. CASE w = Target(k)
      BY <1>2, <2>1
    <2>2. CASE w # Target(k)
      BY <1>3, <1>4, <2>2
    <2>. QED  BY <2>1, <2>2
  <1>5. \A l \in Workers : wpc'[l] = "cost" =>
            Target(l)' \in charged' \/ (wpc[l] = "cost" /\ Target(l)' = Target(l))
    BY <1>1
  <1>. QED  BY <1>4, <1>5, PaidKept

\* A worker that leaves after its charge, or without its pack, or interrupted.
LEMMA PaidLeaves ==
    ASSUME TypeWorkers, PaidInv, NEW k \in Workers, Leaves(k), UNCHANGED charged,
           interrupted \subseteq interrupted',
           \A w \in Weeks : w # Target(k) => pack'[w] = pack[w],
           \/ Target(k) \in charged \union interrupted' \/ pack'[Target(k)] \notin Delivered
           \/ wpc[k] = "claim" /\ pack' = pack
    PROVE  PaidInv'
  <1>1. /\ \A l \in Workers : wpc'[l] = IF l = k THEN "idle" ELSE wpc[l]
        /\ \A l \in Workers : l # k => Target(l)' = Target(l)
    BY DEF TypeWorkers, Leaves, Target
  <1>2. \A l \in Workers, w \in Weeks : Has(l, w) => Has(l, w)' \/ (l = k /\ w = Target(k))
    BY <1>1 DEF Has
  <1>3. wpc[k] = "claim" => \A w \in Weeks : ~Has(k, w)
    BY DEF Has
  <1>4. ASSUME NEW w \in Weeks, pack'[w] \in Delivered
        PROVE  \/ w \in charged' \union interrupted' \/ \E l \in Workers : Has(l, w)'
               \/ pack[w] \in Delivered /\ \A l \in Workers : Has(l, w) => Has(l, w)'
    <2>1. CASE w = Target(k)
      BY <1>2, <1>3, <1>4, <2>1
    <2>2. CASE w # Target(k)
      BY <1>2, <1>4, <2>2
    <2>. QED  BY <2>1, <2>2
  <1>5. \A l \in Workers : wpc'[l] = "cost" =>
            Target(l)' \in charged' \/ (wpc[l] = "cost" /\ Target(l)' = Target(l))
    BY <1>1
  <1>. QED  BY <1>4, <1>5, PaidKept

\* A pack whose new state is not a delivered one, or that was delivered before.
LEMMA PaidPackChanged ==
    ASSUME TypePacks, PaidInv, UNCHANGED <<workVars, charged, interrupted>>,
           NEW w \in Weeks, NEW s, pack' = [pack EXCEPT ![w] = s],
           s \in Delivered => pack[w] \in Delivered
    PROVE  PaidInv'
  <1>1. \A x \in Weeks : pack'[x] \in Delivered => pack[x] \in Delivered
    BY DEF TypePacks
  <1>. QED  BY <1>1 DEF PaidInv, ReviewableIsPaidUnlessInterrupted, Has, Target

LEMMA PaidWorkerStep ==
    ASSUME TypeAndOwner, PaidInv, NEW k \in Workers, Works(k)
    PROVE  PaidInv'
  <1>. DEFINE w == Target(k)
  <1>. USE DEF TypeAndOwner, TypeOK
  <1>0. /\ wpc[k] # "idle" => w \in Weeks
        /\ pack \in [Weeks -> PackStates]
    BY TargetWeek DEF TypePacks
  <1>1. CASE ClaimPack(k)
    <2>1. /\ w \in Weeks /\ wpc[k] = "claim" /\ UNCHANGED moneyVars
          /\ \A x \in Weeks : x # w => pack'[x] = pack[x]
          /\ pack' = pack \/ pack'[w] = "generating"
          /\ interrupted \subseteq interrupted'
      BY <1>0, <1>1 DEF ClaimPack
    <2>2. CASE Moves(k, "announce")
      BY <2>1, <2>2, PaidMoves DEF Past
    <2>3. CASE Leaves(k)
      BY <2>1, <2>3, PaidLeaves
    <2>. QED  BY <1>1, <2>2, <2>3 DEF ClaimPack, Completes, Throws
  <1>2. CASE Announce(k)
    <2>1. wpc[k] = "announce" /\ UNCHANGED <<packVars, moneyVars>>
      BY <1>2 DEF Announce
    <2>2. CASE \E pc \in Past \ {"cost"} : Moves(k, pc) /\ UNCHANGED interrupted
      BY <2>1, <2>2, PaidMoves
    <2>3. CASE Leaves(k) /\ interrupted' = interrupted \union {w}
      BY <2>1, <2>3, PaidLeaves
    <2>. QED  BY <1>2, <2>2, <2>3 DEF Announce, Throws, Past
  <1>3. CASE Generate(k)
    <2>1. /\ w \in Weeks /\ wpc[k] = "generate" /\ UNCHANGED <<moneyVars, interrupted>>
          /\ \A x \in Weeks : x # w => pack'[x] = pack[x]
      BY <1>0, <1>3 DEF Generate
    <2>2. PICK pc \in Past \ {"cost"} : Moves(k, pc)
      BY <1>3 DEF Generate, Past
    <2>. QED  BY <2>1, <2>2, PaidMoves
  <1>4. CASE Persist(k)
    <2>1. /\ w \in Weeks /\ wpc[k] = "persist" /\ UNCHANGED <<moneyVars, interrupted>>
          /\ \A x \in Weeks : x # w => pack'[x] = pack[x]
      BY <1>0, <1>4 DEF Persist
    <2>2. PICK pc \in Past \ {"cost"} : Moves(k, pc)
      BY <1>4 DEF Persist, Past
    <2>. QED  BY <2>1, <2>2, PaidMoves
  <1>5. CASE Charge(k)
    <2>1. /\ wpc[k] = "charge" /\ UNCHANGED <<packVars, interrupted>>
          /\ charged \subseteq charged'
      BY <1>5 DEF Charge
    <2>2. PICK pc \in Past : Moves(k, pc) /\ (pc = "cost" => w \in charged')
      BY <1>5 DEF Charge, Past
    <2>. QED  BY <2>1, <2>2, PaidMoves
  <1>6. CASE RecordCost(k)
    <2>1. /\ wpc[k] = "cost" /\ UNCHANGED <<packVars, moneyVars, interrupted>>
          /\ w \in charged
      BY <1>6 DEF RecordCost, PaidInv
    <2>2. CASE Moves(k, "fail retry")
      BY <2>1, <2>2, PaidMoves DEF Past
    <2>3. CASE Leaves(k)
      BY <2>1, <2>3, PaidLeaves
    <2>. QED  BY <1>6, <2>2, <2>3 DEF RecordCost, Completes
  <1>7. CASE Fail(k)
    <2>1. w \in Weeks /\ UNCHANGED moneyVars
      BY <1>0, <1>7 DEF Fail
    <2>2. Leaves(k)
      BY <1>7 DEF Fail, Completes, Throws
    <2>3. CASE pack' = [pack EXCEPT ![w] = "failed"] /\ UNCHANGED interrupted
      BY <1>0, <2>1, <2>2, <2>3, PaidLeaves
    <2>4. CASE UNCHANGED pack /\ interrupted' = interrupted \union {w}
      BY <2>1, <2>2, <2>4, PaidLeaves
    <2>. QED  BY <1>7, <2>3, <2>4 DEF Fail
  <1>. QED
    BY <1>1, <1>2, <1>3, <1>4, <1>5, <1>6, <1>7 DEF Works

LEMMA PaidStep == TypeAndOwner /\ PaidInv /\ [Next]_vars => PaidInv'
  <1>. SUFFICES ASSUME TypeAndOwner, PaidInv, [Next]_vars PROVE PaidInv'
    OBVIOUS
  <1>. USE PaidUntouched DEF TypeAndOwner, TypeOK
  <1>1. ASSUME NEW o \in Requests, Asks(o)  PROVE PaidInv'
    <2>1. CASE ClaimQueuedPack(o)
      <3>1. CASE UNCHANGED pack
        BY <2>1, <3>1 DEF ClaimQueuedPack
      <3>2. CASE pack' = [pack EXCEPT ![rarg[o][1]] = "queued"]
        <4>1. rarg[o][1] \in Weeks /\ UNCHANGED <<workVars, charged, interrupted>>
          BY <2>1 DEF ClaimQueuedPack, TypeRequests
        <4>. QED  BY <3>2, <4>1, PaidPackChanged
      <3>. QED  BY <2>1, <3>1, <3>2 DEF ClaimQueuedPack
    <2>2. CASE CommitRetry(o)
      <3>1. /\ rarg[o][1] \in Weeks /\ UNCHANGED <<workVars, charged, interrupted>>
            /\ pack' = [pack EXCEPT ![rarg[o][1]] = "queued"]
        BY <2>2 DEF CommitRetry, TypeRequests
      <3>. QED  BY <3>1, PaidPackChanged
    <2>. QED
      BY <1>1, <2>1, <2>2 DEF Asks, Abandon, BeginGenerate, AddDirectly, BeginRetry
  <1>2. ASSUME NEW w \in Weeks, Review(w)  PROVE PaidInv'
    BY <1>2, PaidPackChanged DEF Review
  <1>3. ASSUME NEW t \in Ticks, ReadTick(t) \/ AdvanceToNextWeek(t)  PROVE PaidInv'
    BY <1>3 DEF ReadTick, AdvanceToNextWeek
  <1>4. CASE PauseOrResume \/ SpendElsewhere \/ ReconcilerCrash \/ ClaimDueJobs
    BY <1>4 DEF PauseOrResume, SpendElsewhere, ReconcilerCrash, ClaimDueJobs
  <1>5. ASSUME NEW j \in Jobs, LeaseExpires(j) \/ DispatchJob(j) \/ Stall(j)  PROVE PaidInv'
    <2>1. UNCHANGED <<pack, workVars, charged>> /\ interrupted \subseteq interrupted'
      BY <1>5 DEF LeaseExpires, DispatchJob, Stall
    <2>. QED  BY <2>1 DEF PaidInv, ReviewableIsPaidUnlessInterrupted, Has, Target
  <1>6. ASSUME NEW k \in Workers, NEW j \in Jobs, Take(k, j)  PROVE PaidInv'
    <2>1. UNCHANGED <<pack, charged, interrupted>>
      BY <1>6 DEF Take
    <2>2. /\ \A l \in Workers : wpc'[l] = IF l = k THEN "claim" ELSE wpc[l]
          /\ \A l \in Workers : l # k => Target(l)' = Target(l)
          /\ wpc[k] = "idle"
      BY <1>6 DEF Take, TypeWorkers, Target
    <2>3. \A l \in Workers, w \in Weeks : Has(l, w) => Has(l, w)'
      BY <2>2 DEF Has
    <2>. QED  BY <2>1, <2>2, <2>3, PaidKept
  <1>7. ASSUME NEW k \in Workers, Works(k)  PROVE PaidInv'
    BY <1>7, PaidWorkerStep
  <1>8. ASSUME NEW k \in Workers, WorkerCrash(k)  PROVE PaidInv'
    <2>1. /\ Leaves(k) /\ UNCHANGED <<pack, charged>>
          /\ interrupted \subseteq interrupted'
          /\ wpc[k] = "claim" \/ Target(k) \in interrupted'
      BY <1>8 DEF WorkerCrash
    <2>. QED  BY <2>1, PaidLeaves
  <1>9. ASSUME NEW w \in Weeks, ReadPlan(w) \/ CommitPlan(w)  PROVE PaidInv'
    BY <1>9 DEF ReadPlan, CommitPlan
  <1>10. CASE UNCHANGED vars
    BY <1>10 DEF vars
  <1>. QED
    BY <1>1, <1>2, <1>3, <1>4, <1>5, <1>6, <1>7, <1>8, <1>9, <1>10 DEF Next, Reconciles

\* Points that run out, retries and redeliveries never hand the owner a pack for
\* free: only an interrupted worker can (spendPoints and the catch block).
THEOREM ReviewablePacksArePaid == Spec => []ReviewableIsPaidUnlessInterrupted
  <1>1. Init => PaidInv
    BY DEF Init, PaidInv, ReviewableIsPaidUnlessInterrupted
  <1>2. PaidInv => ReviewableIsPaidUnlessInterrupted
    BY DEF PaidInv
  <1>. QED
    BY <1>1, <1>2, TypeInit, TypeStep, PaidStep, PTL DEF Spec
=============================================================================
