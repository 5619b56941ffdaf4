------------------------ MODULE ContentHandoverProofs ------------------------
(***************************************************************************)
(* What the handover of candidates guarantees for any number of            *)
(* candidates, workers, sweeps, tries and faults.                          *)
(***************************************************************************)
EXTENDS ContentHandover, TLAPS

USE DEF HandoverAssumption, JobStates

-----------------------------------------------------------------------------
(* The pieces of the steps keep the types *)

\* Giving a lease back, with or without an error.
LEMMA ReleaseKeepsRows ==
    ASSUME TypeRows, NEW c \in Candidates, NEW who,
           Released(c, who) \/ ReleasedForRetry(c, who)
    PROVE  TypeRows'
  <1>1. CASE Holds(c, who) /\ Released(c, who)
    BY <1>1 DEF Released, Frees, TypeRows
  <1>2. CASE Holds(c, who) /\ ReleasedForRetry(c, who)
    <2>1. attempts' = [attempts EXCEPT ![c] = attempts[c] + 1] /\ attempts[c] \in Nat
      BY <1>2 DEF ReleasedForRetry, TypeRows
    <2>2. attempts' \in [Candidates -> Nat]
      <3>1. attempts[c] + 1 \in Nat
        BY <2>1
      <3>. QED  BY <2>1, <3>1 DEF TypeRows
    <2>. QED  BY <1>2, <2>2 DEF ReleasedForRetry, Frees, TypeRows
  <1>3. CASE ~Holds(c, who)
    BY <1>3 DEF Released, ReleasedForRetry, TypeRows, rowVars
  <1>. QED  BY <1>1, <1>2, <1>3

LEMMA AddKeepsJobs ==
    ASSUME TypeJobs, NEW c \in Candidates, AddJob(c), UNCHANGED <<tries, stalled>>
    PROVE  TypeJobs'
  BY DEF AddJob, TypeJobs

\* A delivery that moves on, or ends.
LEMMA MovesKeepsWorkers ==
    ASSUME TypeWorkers, NEW k \in Workers, wpc[k] # "idle",
           NEW pc \in {"claim", "find", "create", "mark", "fail"}, Moves(k, pc)
    PROVE  TypeWorkers'
  BY DEF Moves, TypeWorkers

LEMMA LeavesKeepsWorkers ==
    ASSUME TypeWorkers, NEW k \in Workers, Leaves(k)
    PROVE  TypeWorkers'
  BY DEF Leaves, TypeWorkers

LEMMA CompletesKeepsJobs ==
    ASSUME TypeJobs, NEW k \in Workers, Completes(k)
    PROVE  TypeJobs'
  BY DEF Completes, TypeJobs

LEMMA ThrowsKeepsJobs ==
    ASSUME TypeJobs, NEW k \in Workers, wjob[k] \in Candidates, Throws(k)
    PROVE  TypeJobs'
  <1>. DEFINE c == wjob[k]
  <1>1. CASE job[c] = k
    <2>1. job[c] \notin {"completed", "failed"}
      BY <1>1, HandoverAssumption
    <2>2. tries[c] < MaxTries /\ tries[c] \in 0..MaxTries /\ MaxTries \in Nat
      BY <2>1, HandoverAssumption DEF TypeJobs
    <2>3. tries[c] + 1 \in 0..MaxTries
      BY <2>2
    <2>4. tries' = [tries EXCEPT ![c] = tries[c] + 1] /\ UNCHANGED stalled
      BY <1>1 DEF Throws
    <2>5. /\ job' = [job EXCEPT ![c] = "waiting"] /\ tries[c] + 1 < MaxTries
          \/ job' = [job EXCEPT ![c] = "failed"]
      BY <1>1 DEF Throws
    <2>6. tries' \in [Candidates -> 0..MaxTries]
      BY <2>3, <2>4 DEF TypeJobs
    <2>7. job' \in [Candidates -> JobStates \union Workers] /\ stalled' \subseteq Candidates
      BY <2>4, <2>5 DEF TypeJobs
    <2>8. ASSUME NEW d \in Candidates, job'[d] \notin {"completed", "failed"}
          PROVE  tries'[d] < MaxTries
      <3>1. CASE d = c
        BY <2>4, <2>5, <2>8, <3>1 DEF TypeJobs
      <3>2. CASE d # c
        BY <2>4, <2>5, <2>8, <3>2 DEF TypeJobs
      <3>. QED  BY <3>1, <3>2
    <2>. QED  BY <2>6, <2>7, <2>8 DEF TypeJobs
  <1>2. CASE job[c] # k
    BY <1>2 DEF Throws, TypeJobs
  <1>. QED  BY <1>1, <1>2

-----------------------------------------------------------------------------
(* The steps *)

LEMMA OwnerKeepsTypes ==
    ASSUME TypeOK, NEW c \in Candidates,
           Approve(c) \/ AddDirectly(c) \/ Elapse(c) \/ Stall(c)
    PROVE  TypeOK'
  <1>. USE DEF TypeOK
  <1>1. CASE Approve(c)
    <2>1. TypeRows'
      BY <1>1 DEF Approve, TypeRows
    <2>. QED  BY <1>1, <2>1 DEF Approve, TypeSweeps, TypeJobs, TypeWorkers, sweepVars,
                                jobVars, workVars
  <1>2. CASE AddDirectly(c)
    <2>1. TypeJobs'
      BY <1>2, AddKeepsJobs DEF AddDirectly, TypeJobs
    <2>. QED  BY <1>2, <2>1 DEF AddDirectly, TypeRows, TypeSweeps, TypeWorkers, rowVars,
                                sweepVars, workVars
  <1>3. CASE Elapse(c)
    BY <1>3 DEF Elapse, TypeRows, TypeSweeps, TypeJobs, TypeWorkers, sweepVars, jobVars,
                workVars
  <1>4. CASE Stall(c)
    <2>1. TypeJobs'
      BY <1>4, HandoverAssumption DEF Stall, TypeJobs
    <2>. QED  BY <1>4, <2>1 DEF Stall, TypeRows, TypeSweeps, TypeWorkers, rowVars,
                                sweepVars, workVars
  <1>. QED  BY <1>1, <1>2, <1>3, <1>4

LEMMA SweepKeepsTypes ==
    ASSUME TypeOK, NEW s \in Sweeps, Sweeping(s) \/ SweepEnds(s)
    PROVE  TypeOK'
  <1>. USE DEF TypeOK
  <1>1. CASE ClaimDueOutboxEvents(s)
    <2>1. TypeRows'
      BY <1>1, HandoverAssumption DEF ClaimDueOutboxEvents, TypeRows
    <2>2. TypeSweeps'
      BY <1>1 DEF ClaimDueOutboxEvents, TypeSweeps
    <2>. QED  BY <1>1, <2>1, <2>2 DEF ClaimDueOutboxEvents, TypeJobs, TypeWorkers, jobVars,
                                      workVars
  <1>2. ASSUME NEW c \in Candidates, SweepAdds(s, c)  PROVE TypeOK'
    <2>1. TypeRows'
      BY <1>2, ReleaseKeepsRows DEF SweepAdds, TypeRows, rowVars
    <2>2. TypeJobs'
      BY <1>2, AddKeepsJobs DEF SweepAdds, TypeJobs
    <2>3. TypeSweeps'
      BY <1>2 DEF SweepAdds, TypeSweeps
    <2>. QED  BY <1>2, <2>1, <2>2, <2>3 DEF SweepAdds, TypeWorkers, workVars
  <1>3. CASE SweepReleases(s)
    <2>1. busy[s] \in Candidates
      BY <1>3 DEF SweepReleases, TypeSweeps
    <2>2. TypeRows'
      BY <1>3, <2>1, ReleaseKeepsRows DEF SweepReleases
    <2>3. TypeSweeps'
      BY <1>3 DEF SweepReleases, TypeSweeps
    <2>. QED  BY <1>3, <2>2, <2>3 DEF SweepReleases, TypeJobs, TypeWorkers, jobVars, workVars
  <1>4. CASE SweepEnds(s)
    BY <1>4 DEF SweepEnds, TypeRows, TypeSweeps, TypeJobs, TypeWorkers, rowVars, jobVars,
                workVars
  <1>. QED  BY <1>1, <1>2, <1>3, <1>4 DEF Sweeping

LEMMA WorkerKeepsTypes ==
    ASSUME TypeOK, NEW k \in Workers,
           Works(k) \/ WorkerCrash(k) \/ \E c \in Candidates : Take(k, c)
    PROVE  TypeOK'
  <1>. USE DEF TypeOK
  <1>. USE MovesKeepsWorkers, LeavesKeepsWorkers, CompletesKeepsJobs, ThrowsKeepsJobs
  <1>0. wpc[k] # "idle" => wjob[k] \in Candidates
    BY DEF TypeWorkers
  <1>1. ASSUME NEW c \in Candidates, Take(k, c)  PROVE TypeOK'
    <2>1. TypeJobs'
      BY <1>1, HandoverAssumption DEF Take, TypeJobs
    <2>2. TypeWorkers'
      BY <1>1 DEF Take, TypeWorkers
    <2>. QED  BY <1>1, <2>1, <2>2 DEF Take, TypeRows, TypeSweeps, rowVars, sweepVars
  <1>2. CASE ClaimEvent(k)
    <2>1. TypeRows'
      BY <1>0, <1>2, HandoverAssumption DEF ClaimEvent, TypeRows, rowVars
    <2>2. TypeJobs'
      BY <1>0, <1>2 DEF ClaimEvent, TypeJobs, jobVars
    <2>3. TypeWorkers'
      BY <1>2 DEF ClaimEvent, Completes, Throws
    <2>. QED  BY <1>2, <2>1, <2>2, <2>3 DEF ClaimEvent, TypeSweeps, sweepVars
  <1>3. CASE FindCandidate(k)
    <2>1. TypeWorkers'
      BY <1>3 DEF FindCandidate
    <2>. QED  BY <1>3, <2>1 DEF FindCandidate, TypeRows, TypeSweeps, TypeJobs, rowVars,
                                sweepVars, jobVars
  <1>4. CASE CreateCandidate(k)
    <2>1. TypeWorkers'
      BY <1>4 DEF CreateCandidate
    <2>. QED  BY <1>0, <1>4, <2>1 DEF CreateCandidate, TypeRows, TypeSweeps, TypeJobs,
                                rowVars, sweepVars, jobVars
  <1>5. CASE MarkOutboxDispatched(k)
    <2>1. TypeRows'
      BY <1>0, <1>5 DEF MarkOutboxDispatched, Frees, TypeRows
    <2>2. TypeJobs'
      BY <1>5 DEF MarkOutboxDispatched, TypeJobs, jobVars
    <2>3. TypeWorkers'
      BY <1>5 DEF MarkOutboxDispatched, Completes
    <2>. QED  BY <1>5, <2>1, <2>2, <2>3 DEF MarkOutboxDispatched, TypeSweeps, sweepVars
  <1>6. CASE MarkOutboxFailed(k)
    <2>1. TypeRows'
      BY <1>0, <1>6, ReleaseKeepsRows DEF MarkOutboxFailed, TypeRows, rowVars
    <2>2. TypeJobs' /\ TypeWorkers'
      BY <1>0, <1>6 DEF MarkOutboxFailed, Throws
    <2>. QED  BY <1>6, <2>1, <2>2 DEF MarkOutboxFailed, TypeSweeps, sweepVars
  <1>7. CASE WorkerCrash(k)
    BY <1>7 DEF WorkerCrash, TypeRows, TypeSweeps, TypeJobs, rowVars, sweepVars, jobVars
  <1>. QED  BY <1>1, <1>2, <1>3, <1>4, <1>5, <1>6, <1>7 DEF Works

LEMMA TypeStep == TypeOK /\ [Next]_vars => TypeOK'
  <1>. SUFFICES ASSUME TypeOK, [Next]_vars PROVE TypeOK'
    OBVIOUS
  <1>1. CASE UNCHANGED vars
    BY <1>1 DEF vars, rowVars, sweepVars, jobVars, workVars, TypeOK, TypeRows, TypeSweeps,
                TypeJobs, TypeWorkers
  <1>. QED  BY <1>1, OwnerKeepsTypes, SweepKeepsTypes, WorkerKeepsTypes DEF Next

-----------------------------------------------------------------------------
(* The theorems *)

\* Rows, leases, jobs and workers stay in the states the code allows.
THEOREM HandoverTypeCorrect == Spec => []TypeOK
  <1>1. Init => TypeOK
    <2>1. MaxTries \in Nat /\ 0 < MaxTries /\ 0 \in 0..MaxTries
      BY HandoverAssumption
    <2>2. Init => TypeJobs
      BY <2>1 DEF Init, TypeJobs
    <2>. QED  BY <2>2 DEF Init, TypeOK, TypeRows, TypeSweeps, TypeWorkers
  <1>. QED  BY <1>1, TypeStep, PTL DEF Spec

\* A delivery marks only an event that it stored, or found stored.
MarkedIsStored == \A k \in Workers : wpc[k] = "mark" => wjob[k] \in intake

\* Publishing has every candidate that a row calls dispatched: no lost lease, dead
\* worker or failed intake makes a row say so early (outbox-dispatcher.ts process).
THEOREM DispatchedCandidatesAreStored == Spec => []DispatchedIsStored
  <1>. DEFINE Stored == MarkedIsStored /\ DispatchedIsStored
  <1>1. Init => Stored
    BY DEF Init, MarkedIsStored, DispatchedIsStored
  <1>2. TypeOK /\ Stored /\ [Next]_vars => Stored'
    <2>. SUFFICES ASSUME TypeOK, Stored, [Next]_vars PROVE Stored'
      OBVIOUS
    <2>. USE DEF MarkedIsStored, DispatchedIsStored
    <2>. TypeRows /\ TypeWorkers /\ TypeSweeps
      BY DEF TypeOK
    <2>1. ASSUME NEW c \in Candidates, Approve(c) \/ AddDirectly(c) \/ Elapse(c) \/ Stall(c)
          PROVE  Stored'
      BY <2>1 DEF Approve, AddDirectly, Elapse, Stall, TypeRows, rowVars, workVars
    <2>2. ASSUME NEW s \in Sweeps, Sweeping(s) \/ SweepEnds(s)
          PROVE  Stored'
      <3>1. \A c \in Candidates : row'[c] = "dispatched" => row[c] = "dispatched"
        BY <2>2 DEF Sweeping, SweepEnds, ClaimDueOutboxEvents, SweepAdds, SweepReleases,
           Released, ReleasedForRetry, Frees, TypeRows, rowVars
      <3>. QED  BY <2>2, <3>1 DEF Sweeping, SweepEnds, ClaimDueOutboxEvents, SweepAdds,
                                  SweepReleases, workVars
    <2>3. ASSUME NEW k \in Workers, Works(k) \/ WorkerCrash(k) \/ \E c \in Candidates : Take(k, c)
          PROVE  Stored'
      <3>1. intake \subseteq intake'
        BY <2>3 DEF Works, ClaimEvent, FindCandidate, CreateCandidate, MarkOutboxDispatched,
           MarkOutboxFailed, WorkerCrash, Take
      <3>2. \A c \in Candidates : row'[c] = "dispatched" => row[c] = "dispatched" \/ c \in intake
        BY <2>3 DEF Works, ClaimEvent, FindCandidate, CreateCandidate, MarkOutboxDispatched,
           MarkOutboxFailed, WorkerCrash, Take, ReleasedForRetry, Frees, TypeRows, rowVars
      <3>3. /\ \A l \in Workers \ {k} : wpc'[l] = wpc[l] /\ wjob'[l] = wjob[l]
            /\ wpc'[k] = "mark" => wjob'[k] \in intake'
        BY <2>3 DEF Works, ClaimEvent, FindCandidate, CreateCandidate, MarkOutboxDispatched,
           MarkOutboxFailed, WorkerCrash, Take, Moves, Leaves, Completes, Throws, TypeWorkers
      <3>. QED  BY <3>1, <3>2, <3>3
    <2>4. CASE UNCHANGED vars
      BY <2>4 DEF vars, rowVars, workVars
    <2>. QED  BY <2>1, <2>2, <2>3, <2>4 DEF Next
  <1>. QED  BY <1>1, <1>2, HandoverTypeCorrect, PTL DEF Spec
=============================================================================
