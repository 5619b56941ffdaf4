------------------------ MODULE ContentReviewsProofs ------------------------
(***************************************************************************)
(* What a review guarantees for any number of items, versions, overlapping *)
(* requests, workers, tries and faults.                                    *)
(***************************************************************************)
EXTENDS ContentReviews, TLAPS

USE DEF Versions, NoVersion, JobStates, Statuses

-----------------------------------------------------------------------------
(* The inductive invariant, in parts *)

TypeItems ==
    /\ pack \in {"draft", "partially_approved", "approved"}
    /\ version \in [Items -> 1..MaxVersion] /\ status \in [Items -> Statuses]
    /\ decision \in [Versions -> {"none", "approved", "rejected", "revision_requested"}]
    /\ candidates \subseteq {v \in Versions : decision[v] = "approved"}

TypeRequests ==
    /\ rpc \in [Requests -> {"idle", "decide", "commit", "edit", "revise"}]
    /\ kind \in [Requests -> {"none", "approved", "rejected"}]
    /\ at \in [Requests -> [Items -> 0..MaxVersion]]
    /\ writes \in [Requests -> SUBSET Items]
    /\ \A o \in Requests : rpc[o] # "commit" => writes[o] = {}
    /\ seen \in [Requests -> {"none", "draft", "partially_approved", "approved"}]
    /\ target \in [Requests -> {"none", "draft", "partially_approved", "approved"}]

TypeWork ==
    /\ job \in [Versions -> JobStates \union Workers]
    /\ tries \in [Versions -> 0..MaxTries] /\ stalled \subseteq Versions
    /\ wpc \in [Workers -> {"idle", "start", "ask", "append", "charge", "fail", "fail retry"}]
    /\ wjob \in [Workers -> Versions \union {NoVersion}]

JobsFollowDecisions ==
    \A v \in Versions : job[v] # "none" <=> decision[v] = "revision_requested"

TypeFaults == faulted \in 0..MaxFaults

\* A busy worker is on a job that was asked for, a version that is revised has a
\* successor within the bound, and a job that may still run has tries left.
JobsInv ==
    /\ \A k \in Workers : wpc[k] # "idle" => wjob[k] \in Versions /\ job[wjob[k]] # "none"
    /\ \A v \in Versions : job[v] # "none" => v[2] < MaxVersion
    /\ \A v \in Versions : job[v] = "none" => tries[v] = 0
    /\ \A v \in Versions : job[v] \in {"waiting"} \union Workers => tries[v] < MaxTries

\* An open request knows what it asks for.
RequestsInv ==
    \A o \in Requests :
        /\ rpc[o] \in {"decide", "commit"} => kind[o] \in {"approved", "rejected"}
        /\ rpc[o] \in {"edit", "revise"} => \E i \in Items : at[o][i] # 0
        /\ rpc[o] = "revise" => \A i \in Items : at[o][i] < MaxVersion

\* What an open transaction has written stays current and undecided until it
\* commits, and no other transaction has written it.
WritesInv ==
    /\ \A o \in Requests : \A i \in writes[o] :
          at[o][i] = version[i] /\ decision[<<i, version[i]>>] = "none"
    /\ \A o, p \in Requests : o # p => writes[o] \intersect writes[p] = {}

\* Only the approval of the current version makes an item approved.
StatusInv ==
    \A i \in Items : status[i] = "approved" => decision[<<i, version[i]>>] = "approved"

ReviewInv ==
    /\ TypeItems /\ TypeRequests /\ TypeWork /\ TypeFaults
    /\ JobsFollowDecisions /\ JobsInv /\ RequestsInv /\ WritesInv /\ StatusInv

LEMMA ReviewInvTyped == ReviewInv => TypeOK
  BY DEF ReviewInv, TypeOK, TypeItems, TypeRequests, TypeWork, TypeFaults, JobsFollowDecisions

-----------------------------------------------------------------------------
(* What the pieces of the steps keep *)

\* An invariant of the items and the requests, of no concern to a worker that
\* touches neither; and of the worker, of no concern to the owner.
WorkInv  == TypeWork /\ JobsInv
OwnerInv == TypeRequests /\ RequestsInv

\* The jobs that exist stay the same.
SameJobs == \A v \in Versions : job'[v] = "none" <=> job[v] = "none"

LEMMA MovesKeepsWork ==
    ASSUME WorkInv, NEW k \in Workers, wpc[k] # "idle", UNCHANGED <<job, tries, stalled>>,
           NEW pc \in {"ask", "append", "charge", "fail", "fail retry"}, Moves(k, pc)
    PROVE  WorkInv' /\ SameJobs
  BY DEF WorkInv, TypeWork, JobsInv, Moves, SameJobs

LEMMA LeavesKeepsWork ==
    ASSUME WorkInv, NEW k \in Workers, Leaves(k), UNCHANGED <<job, tries, stalled>>
    PROVE  WorkInv' /\ SameJobs
  BY DEF WorkInv, TypeWork, JobsInv, Leaves, SameJobs

LEMMA CompletesKeepsWork ==
    ASSUME WorkInv, NEW k \in Workers, wpc[k] # "idle", Completes(k)
    PROVE  WorkInv' /\ SameJobs
  <1>. DEFINE v == wjob[k]
  <1>1. v \in Versions /\ "completed" \notin Workers /\ k # "none"
    BY WorkerNames DEF WorkInv, JobsInv
  <1>2. /\ job' = [job EXCEPT ![v] = IF job[v] = k THEN "completed" ELSE job[v]]
        /\ wpc' = [wpc EXCEPT ![k] = "idle"] /\ wjob' = [wjob EXCEPT ![k] = NoVersion]
        /\ UNCHANGED <<tries, stalled>>
    BY DEF Completes, Leaves
  <1>3. TypeWork' /\ SameJobs
    BY <1>1, <1>2 DEF WorkInv, TypeWork, SameJobs
  <1>4. JobsInv'
    <2>1. \A l \in Workers : wpc'[l] # "idle" => wpc[l] # "idle" /\ wjob'[l] = wjob[l]
      BY <1>2 DEF WorkInv, TypeWork
    <2>2. \A u \in Versions : job'[u] \in {"waiting"} \union Workers => job'[u] = job[u]
      BY <1>1, <1>2, WorkerNames DEF WorkInv, TypeWork
    <2>. QED  BY <1>2, <1>3, <2>1, <2>2 DEF WorkInv, JobsInv, SameJobs
  <1>. QED  BY <1>3, <1>4 DEF WorkInv

LEMMA ThrowsKeepsWork ==
    ASSUME WorkInv, NEW k \in Workers, wpc[k] # "idle", Throws(k)
    PROVE  WorkInv' /\ SameJobs
  <1>. DEFINE v == wjob[k]
  <1>1. v \in Versions /\ {"failed", "waiting"} \intersect Workers = {} /\ k # "none"
    BY WorkerNames DEF WorkInv, JobsInv
  <1>2. CASE job[v] = k
    <2>1. tries[v] \in 0..MaxTries /\ tries[v] < MaxTries /\ MaxTries \in Nat
      BY <1>1, <1>2, ReviewsAssumption DEF WorkInv, TypeWork, JobsInv
    <2>2. /\ job' = [job EXCEPT ![v] = IF tries[v] + 1 >= MaxTries THEN "failed" ELSE "waiting"]
          /\ tries' = [tries EXCEPT ![v] = tries[v] + 1]
          /\ wpc' = [wpc EXCEPT ![k] = "idle"] /\ wjob' = [wjob EXCEPT ![k] = NoVersion]
          /\ UNCHANGED stalled
      BY <1>2 DEF Throws, Leaves
    <2>3. tries[v] + 1 \in 0..MaxTries
      BY <2>1
    <2>4. TypeWork' /\ SameJobs
      BY <1>1, <1>2, <2>2, <2>3 DEF WorkInv, TypeWork, SameJobs
    <2>5. JobsInv'
      <3>1. \A l \in Workers : wpc'[l] # "idle" => wpc[l] # "idle" /\ wjob'[l] = wjob[l]
        BY <2>2 DEF WorkInv, TypeWork
      <3>2. \A u \in Versions \ {v} : job'[u] = job[u] /\ tries'[u] = tries[u]
        BY <2>2 DEF WorkInv, TypeWork
      <3>3. job'[v] # "none" /\ (job'[v] \in {"waiting"} \union Workers => tries'[v] < MaxTries)
        <4>1. CASE tries[v] + 1 >= MaxTries
          BY <1>1, <2>2, <4>1 DEF WorkInv, TypeWork
        <4>2. CASE tries[v] + 1 < MaxTries
          BY <1>1, <2>1, <2>2, <4>2 DEF WorkInv, TypeWork
        <4>. QED  BY <2>1, <4>1, <4>2
      <3>. QED  BY <1>1, <2>4, <3>1, <3>2, <3>3 DEF WorkInv, JobsInv, SameJobs
    <2>. QED  BY <2>4, <2>5 DEF WorkInv
  <1>3. CASE job[v] # k
    BY <1>3, LeavesKeepsWork DEF Throws
  <1>. QED  BY <1>2, <1>3

\* A step that leaves the items and the requests to others.
LEMMA WorkOnlyKeepsReview ==
    ASSUME ReviewInv, WorkInv', SameJobs, TypeFaults',
           UNCHANGED <<pack, itemVars, candidates, reqVars>>
    PROVE  ReviewInv'
  BY DEF ReviewInv, WorkInv, SameJobs, TypeItems, TypeRequests, JobsFollowDecisions,
     RequestsInv, WritesInv, StatusInv, itemVars, reqVars

LEMMA FaultIsCounted ==
    ASSUME TypeFaults, NEW f, Fault(f)
    PROVE  TypeFaults'
  BY ReviewsAssumption DEF TypeFaults, Fault

\* The version under revision was never approved, and is not while it is current.
LEMMA RevisedIsNotApproved ==
    ASSUME ReviewInv, NEW k \in Workers, wpc[k] # "idle"
    PROVE  /\ wjob[k] \in Versions /\ wjob[k][1] \in Items /\ wjob[k] = <<wjob[k][1], wjob[k][2]>>
           /\ decision[wjob[k]] = "revision_requested"
           /\ version[wjob[k][1]] = wjob[k][2] => status[wjob[k][1]] # "approved"
  <1>1. wjob[k] \in Versions /\ decision[wjob[k]] = "revision_requested"
    BY DEF ReviewInv, JobsInv, JobsFollowDecisions
  <1>2. wjob[k][1] \in Items /\ wjob[k] = <<wjob[k][1], wjob[k][2]>>
    BY <1>1
  <1>3. ASSUME version[wjob[k][1]] = wjob[k][2], status[wjob[k][1]] = "approved"
        PROVE  FALSE
    BY <1>1, <1>2, <1>3 DEF ReviewInv, StatusInv
  <1>. QED  BY <1>1, <1>2, <1>3

\* Steps that take no decision: they neither approve an item nor touch an
\* approved one, unless it counts as overwritten, and open no commit.
QuietStep ==
    /\ UNCHANGED <<pack, candidates>>
    /\ \A i \in Items : \/ i \in overwritten'
                        \/ /\ status'[i] = "approved" <=> status[i] = "approved"
                           /\ status[i] = "approved" => version'[i] = version[i]
    /\ overwritten \subseteq overwritten' /\ raced' = raced
    /\ \A o \in Requests : rpc'[o] = "commit" =>
          /\ rpc[o] = "commit"
          /\ seen'[o] = seen[o] /\ target'[o] = target[o]
          /\ kind'[o] = kind[o] /\ writes'[o] = writes[o]

LEMMA WorkOnlyIsQuiet ==
    ASSUME UNCHANGED <<pack, itemVars, candidates, reqVars, overwritten, raced>>
    PROVE  QuietStep
  BY DEF QuietStep, itemVars, reqVars

-----------------------------------------------------------------------------
(* The worker *)

LEMMA TakeKeepsReview ==
    ASSUME ReviewInv, NEW k \in Workers, NEW v \in Versions, Take(k, v)
    PROVE  ReviewInv' /\ QuietStep
  <1>1. WorkInv' /\ SameJobs
    BY WorkerNames DEF ReviewInv, Take, WorkInv, TypeWork, JobsInv, SameJobs
  <1>2. TypeFaults'
    BY DEF ReviewInv, Take, TypeFaults
  <1>. QED  BY <1>1, <1>2, WorkOnlyKeepsReview, WorkOnlyIsQuiet DEF Take, histVars

LEMMA StartRevisionKeepsReview ==
    ASSUME ReviewInv, NEW k \in Workers, StartRevision(k)
    PROVE  ReviewInv' /\ QuietStep
  <1>1. WorkInv' /\ SameJobs /\ TypeFaults'
    <2>1. WorkInv /\ TypeFaults /\ wpc[k] # "idle"
      BY DEF StartRevision, ReviewInv, WorkInv
    <2>2. CASE Moves(k, "ask") /\ UNCHANGED <<job, tries, stalled, faulted>>
      BY <2>1, <2>2, MovesKeepsWork DEF TypeFaults
    <2>3. CASE Completes(k) /\ UNCHANGED faulted
      BY <2>1, <2>3, CompletesKeepsWork DEF TypeFaults
    <2>4. CASE Fault("db") /\ Throws(k)
      BY <2>1, <2>4, ThrowsKeepsWork, FaultIsCounted
    <2>. QED  BY <2>2, <2>3, <2>4 DEF StartRevision
  <1>. QED  BY <1>1, WorkOnlyKeepsReview, WorkOnlyIsQuiet DEF StartRevision

LEMMA AskForRevisionKeepsReview ==
    ASSUME ReviewInv, NEW k \in Workers, AskForRevision(k)
    PROVE  ReviewInv' /\ QuietStep
  <1>1. WorkInv' /\ SameJobs
    BY MovesKeepsWork DEF AskForRevision, ReviewInv, WorkInv
  <1>2. TypeFaults'
    BY FaultIsCounted DEF AskForRevision, ReviewInv, TypeFaults
  <1>. QED  BY <1>1, <1>2, WorkOnlyKeepsReview, WorkOnlyIsQuiet DEF AskForRevision, histVars

LEMMA ChargeRevisionKeepsReview ==
    ASSUME ReviewInv, NEW k \in Workers, ChargeRevision(k)
    PROVE  ReviewInv' /\ QuietStep
  <1>1. WorkInv' /\ SameJobs
    BY MovesKeepsWork, CompletesKeepsWork DEF ChargeRevision, ReviewInv, WorkInv
  <1>2. TypeFaults'
    BY FaultIsCounted DEF ChargeRevision, ReviewInv, TypeFaults
  <1>. QED  BY <1>1, <1>2, WorkOnlyKeepsReview, WorkOnlyIsQuiet DEF ChargeRevision, histVars

LEMMA CrashKeepsReview ==
    ASSUME ReviewInv, NEW k \in Workers, WorkerCrash(k)
    PROVE  ReviewInv' /\ QuietStep
  <1>1. WorkInv' /\ SameJobs
    BY LeavesKeepsWork DEF WorkerCrash, ReviewInv, WorkInv
  <1>2. TypeFaults'
    BY FaultIsCounted DEF WorkerCrash, ReviewInv
  <1>. QED  BY <1>1, <1>2, WorkOnlyKeepsReview, WorkOnlyIsQuiet DEF WorkerCrash

LEMMA StallKeepsReview ==
    ASSUME ReviewInv, NEW v \in Versions, Stall(v)
    PROVE  ReviewInv' /\ QuietStep
  <1>1. WorkInv' /\ SameJobs
    BY WorkerNames DEF Stall, ReviewInv, WorkInv, TypeWork, JobsInv, SameJobs
  <1>2. TypeFaults'
    BY FaultIsCounted DEF Stall, ReviewInv, TypeFaults
  <1>. QED  BY <1>1, <1>2, WorkOnlyKeepsReview, WorkOnlyIsQuiet DEF Stall

\* The new version of a revision: its base was current, so nobody had approved it,
\* and unlocked, so no open decision is about it.
LEMMA AppendRevisionKeepsReview ==
    ASSUME ReviewInv, NEW k \in Workers, AppendRevision(k)
    PROVE  ReviewInv' /\ QuietStep
  <1>. DEFINE i == wjob[k][1]
  <1>1. /\ wpc[k] # "idle" /\ WorkInv /\ i \in Items /\ wjob[k] \in Versions
        /\ wjob[k] = <<i, wjob[k][2]>> /\ job[wjob[k]] # "none"
        /\ UNCHANGED <<job, tries, stalled>>
    BY RevisedIsNotApproved DEF AppendRevision, ReviewInv, WorkInv, JobsInv
  <1>2. WorkInv' /\ SameJobs
    BY <1>1, MovesKeepsWork DEF AppendRevision
  <1>3. CASE version[i] # wjob[k][2]
    BY <1>2, <1>3, WorkOnlyKeepsReview, WorkOnlyIsQuiet
    DEF AppendRevision, ReviewInv, TypeFaults, itemVars, histVars
  <1>4. CASE version[i] = wjob[k][2]
    <2>1. /\ i \notin Locked /\ status[i] # "approved" /\ version[i] < MaxVersion
          /\ version' = [version EXCEPT ![i] = version[i] + 1]
          /\ status' = [status EXCEPT ![i] = "draft"]
          /\ UNCHANGED <<pack, decision, candidates, reqVars, faulted, histVars>>
      BY <1>1, <1>4, RevisedIsNotApproved DEF AppendRevision, ReviewInv, JobsInv
    <2>2. TypeItems'
      <3>1. version[i] + 1 \in 1..MaxVersion
        BY <1>1, <2>1, ReviewsAssumption DEF ReviewInv, TypeItems
      <3>. QED  BY <1>1, <2>1, <3>1 DEF ReviewInv, TypeItems
    <2>3. WritesInv' /\ StatusInv'
      <3>1. \A o \in Requests : i \notin writes[o]
        BY <2>1 DEF Locked
      <3>2. \A j \in Items \ {i} : version'[j] = version[j] /\ status'[j] = status[j]
        BY <2>1 DEF ReviewInv, TypeItems
      <3>3. status'[i] # "approved"
        BY <1>1, <2>1 DEF ReviewInv, TypeItems
      <3>4. \A o \in Requests : writes[o] \subseteq Items
        BY DEF ReviewInv, TypeRequests
      <3>. QED  BY <2>1, <3>1, <3>2, <3>3, <3>4 DEF ReviewInv, WritesInv, StatusInv, reqVars
    <2>4. QuietStep
      <3>1. \A j \in Items : status[j] = "approved" => version'[j] = version[j]
        BY <1>1, <2>1 DEF ReviewInv, TypeItems
      <3>2. \A j \in Items : status'[j] = "approved" <=> status[j] = "approved"
        BY <1>1, <2>1 DEF ReviewInv, TypeItems
      <3>. QED  BY <2>1, <3>1, <3>2 DEF QuietStep, reqVars, histVars
    <2>. QED
      BY <1>2, <2>1, <2>2, <2>3, <2>4 DEF ReviewInv, WorkInv, TypeRequests, TypeFaults,
         JobsFollowDecisions, SameJobs, RequestsInv, reqVars
  <1>. QED  BY <1>3, <1>4

\* The catch block writes the status by id; what it may destroy is counted.
LEMMA FailRevisionKeepsReview ==
    ASSUME ReviewInv, NEW k \in Workers, FailRevision(k)
    PROVE  ReviewInv' /\ QuietStep
  <1>. DEFINE i == wjob[k][1]
  <1>1. /\ wpc[k] # "idle" /\ i \in Items /\ WorkInv
        /\ version[i] = wjob[k][2] => status[i] # "approved"
    BY RevisedIsNotApproved DEF FailRevision, ReviewInv, WorkInv
  <1>2. WorkInv' /\ SameJobs
    BY <1>1, CompletesKeepsWork, ThrowsKeepsWork DEF FailRevision
  <1>3. TypeFaults'
    BY FaultIsCounted DEF FailRevision, ReviewInv, TypeFaults
  <1>4. UNCHANGED <<pack, version, decision, candidates, reqVars, raced>>
    BY DEF FailRevision
  <1>5. CASE UNCHANGED <<status, overwritten>>
    BY <1>2, <1>3, <1>4, <1>5, WorkOnlyKeepsReview, WorkOnlyIsQuiet DEF itemVars
  <1>6. ASSUME NEW s \in {"revision_requested", "revision_failed"},
               status' = [status EXCEPT ![i] = s],
               overwritten' = IF \/ version[i] # wjob[k][2]
                                 \/ status[i] \notin {"revision_requested", "revision_failed"}
                              THEN overwritten \union {i} ELSE overwritten
        PROVE  ReviewInv' /\ QuietStep
    <2>1. TypeItems' /\ StatusInv'
      BY <1>1, <1>4, <1>6 DEF ReviewInv, TypeItems, StatusInv
    <2>2. TypeRequests' /\ RequestsInv' /\ WritesInv'
      BY <1>4 DEF ReviewInv, TypeRequests, RequestsInv, WritesInv, reqVars
    <2>3. JobsFollowDecisions'
      BY <1>2, <1>4 DEF ReviewInv, JobsFollowDecisions, SameJobs
    <2>4. QuietStep
      <3>1. \A j \in Items \ {i} : status'[j] = status[j]
        BY <1>6 DEF ReviewInv, TypeItems
      <3>2. i \in overwritten' \/ (status[i] # "approved" /\ status'[i] # "approved")
        BY <1>1, <1>6 DEF ReviewInv, TypeItems
      <3>3. overwritten \subseteq overwritten'
        BY <1>6
      <3>. QED  BY <1>4, <3>1, <3>2, <3>3 DEF QuietStep, reqVars
    <2>. QED  BY <1>2, <1>3, <2>1, <2>2, <2>3, <2>4 DEF ReviewInv, WorkInv
  <1>. QED
    <2>1. \/ UNCHANGED <<status, overwritten>>
          \/ \E s \in {"revision_requested", "revision_failed"} :
                /\ status' = [status EXCEPT ![i] = s]
                /\ overwritten' = IF \/ version[i] # wjob[k][2]
                                     \/ status[i] \notin {"revision_requested", "revision_failed"}
                                  THEN overwritten \union {i} ELSE overwritten
      BY DEF FailRevision
    <2>. QED  BY <1>5, <1>6, <2>1
-----------------------------------------------------------------------------
(* The owner *)

LEMMA AnswersKeepsRequests ==
    ASSUME OwnerInv, NEW o \in Requests, Answers(o)
    PROVE  /\ OwnerInv' /\ rpc'[o] = "idle" /\ writes'[o] = {}
           /\ \A p \in Requests \ {o} :
                 /\ rpc'[p] = rpc[p] /\ kind'[p] = kind[p] /\ at'[p] = at[p]
                 /\ writes'[p] = writes[p] /\ seen'[p] = seen[p] /\ target'[p] = target[p]
  <1>1. rpc'[o] = "idle" /\ kind'[o] = "none" /\ writes'[o] = {}
    BY DEF Answers, OwnerInv, TypeRequests
  <1>2. \A p \in Requests \ {o} :
           /\ rpc'[p] = rpc[p] /\ kind'[p] = kind[p] /\ at'[p] = at[p]
           /\ writes'[p] = writes[p] /\ seen'[p] = seen[p] /\ target'[p] = target[p]
    <2>1. \A p \in Requests \ {o} :
             rpc'[p] = rpc[p] /\ kind'[p] = kind[p] /\ at'[p] = at[p] /\ writes'[p] = writes[p]
      BY DEF Answers, OwnerInv, TypeRequests
    <2>. QED  BY <2>1 DEF Answers
  <1>3. TypeRequests'
    <2>1. Nowhere \in [Items -> 0..MaxVersion]
      BY ReviewsAssumption DEF Nowhere
    <2>. QED  BY <1>1, <1>2, <2>1 DEF Answers, OwnerInv, TypeRequests
  <1>4. RequestsInv'
    BY <1>1, <1>2 DEF OwnerInv, RequestsInv
  <1>. QED  BY <1>1, <1>2, <1>3, <1>4 DEF OwnerInv

\* Giving up or having been answered, while nothing else changes.
LEMMA AbandonKeepsReview ==
    ASSUME ReviewInv, NEW o \in Requests, Abandon(o)
    PROVE  ReviewInv' /\ QuietStep
  <1>1. Answers(o) /\ UNCHANGED <<pack, itemVars, candidates, workVars, faulted, histVars>>
    BY DEF Abandon
  <1>2. OwnerInv
    BY DEF ReviewInv, OwnerInv
  <1>3. OwnerInv' /\ WritesInv'
    <2>1. \A p \in Requests : writes'[p] \subseteq writes[p]
      BY <1>1, <1>2, AnswersKeepsRequests
    <2>2. OwnerInv'
      BY <1>1, <1>2, AnswersKeepsRequests
    <2>3. \A p \in Requests : at'[p] = at[p] \/ writes'[p] = {}
      BY <1>1, <1>2, AnswersKeepsRequests
    <2>. QED  BY <1>1, <2>1, <2>2, <2>3 DEF ReviewInv, WritesInv, itemVars
  <1>4. QuietStep
    BY <1>1, <1>2, AnswersKeepsRequests DEF QuietStep, itemVars, histVars
  <1>. QED
    BY <1>1, <1>3, <1>4 DEF ReviewInv, OwnerInv, TypeItems, TypeWork, TypeFaults,
       JobsFollowDecisions, JobsInv, StatusInv, itemVars, workVars

\* A request that begins, with what it remembers.
LEMMA AsksKeepsReview ==
    ASSUME ReviewInv, NEW o \in Requests, NEW pc \in {"decide", "edit", "revise"},
           NEW k \in {"none", "approved", "rejected"},
           NEW where \in [Items -> 0..MaxVersion],
           pc = "decide" => k # "none",
           pc # "decide" => \E i \in Items : where[i] # 0,
           pc = "revise" => \A i \in Items : where[i] < MaxVersion,
           Asks(o, pc, k, where),
           UNCHANGED <<pack, itemVars, candidates, workVars, faulted, histVars>>
    PROVE  ReviewInv' /\ QuietStep
  <1>1. /\ rpc[o] = "idle" /\ rpc' = [rpc EXCEPT ![o] = pc]
        /\ kind' = [kind EXCEPT ![o] = k] /\ at' = [at EXCEPT ![o] = where]
        /\ UNCHANGED <<writes, seen, target>>
    BY DEF Asks
  <1>2. writes[o] = {}
    BY <1>1 DEF ReviewInv, TypeRequests
  <1>3. \A p \in Requests \ {o} : rpc'[p] = rpc[p] /\ kind'[p] = kind[p] /\ at'[p] = at[p]
    BY <1>1 DEF ReviewInv, TypeRequests
  <1>4. rpc'[o] = pc /\ kind'[o] = k /\ at'[o] = where
    BY <1>1 DEF ReviewInv, TypeRequests
  <1>5. TypeRequests'
    BY <1>1, <1>2, <1>3, <1>4 DEF ReviewInv, TypeRequests
  <1>6. RequestsInv'
    BY <1>3, <1>4 DEF ReviewInv, RequestsInv
  <1>7. WritesInv'
    BY <1>1, <1>2, <1>3 DEF ReviewInv, WritesInv, itemVars
  <1>8. QuietStep
    BY <1>1, <1>3, <1>4 DEF QuietStep, itemVars, histVars
  <1>. QED
    BY <1>5, <1>6, <1>7, <1>8 DEF ReviewInv, TypeItems, TypeWork, TypeFaults,
       JobsFollowDecisions, JobsInv, StatusInv, itemVars, workVars

LEMMA BeginKeepsReview ==
    ASSUME ReviewInv, NEW o \in Requests,
           \/ BeginDecide(o)
           \/ \E i \in Reworked : BeginEdit(o, i) \/ BeginRevision(o, i)
    PROVE  ReviewInv' /\ QuietStep
  <1>1. \A i \in Items : version[i] \in 1..MaxVersion /\ MaxVersion \in Nat
    BY ReviewsAssumption DEF ReviewInv, TypeItems
  <1>2. ASSUME NEW k \in {"approved", "rejected"}, NEW S \in SUBSET Items \ {{}},
               Asks(o, "decide", k, [i \in Items |-> IF i \in S THEN version[i] ELSE 0]),
               UNCHANGED <<pack, itemVars, candidates, workVars, faulted, histVars>>
        PROVE  ReviewInv' /\ QuietStep
    <2>. DEFINE where == [i \in Items |-> IF i \in S THEN version[i] ELSE 0]
    <2>1. where \in [Items -> 0..MaxVersion]
      BY <1>1
    <2>. HIDE DEF where
    <2>. QED  BY <1>2, <2>1, AsksKeepsReview DEF where
  <1>3. ASSUME NEW i \in Reworked, NEW pc \in {"edit", "revise"},
               pc = "revise" => version[i] < MaxVersion,
               Asks(o, pc, "none", Only(i)),
               UNCHANGED <<pack, itemVars, candidates, workVars, faulted, histVars>>
        PROVE  ReviewInv' /\ QuietStep
    <2>1. i \in Items
      BY ReviewsAssumption
    <2>2. Only(i) \in [Items -> 0..MaxVersion] /\ Only(i)[i] # 0
      BY <1>1, <2>1 DEF Only
    <2>3. pc = "revise" => \A j \in Items : Only(i)[j] < MaxVersion
      BY <1>1, <1>3, ReviewsAssumption DEF Only
    <2>. QED  BY <1>3, <2>1, <2>2, <2>3, AsksKeepsReview
  <1>4. CASE BeginDecide(o)
    BY <1>2, <1>4 DEF BeginDecide
  <1>5. CASE \E i \in Reworked : BeginEdit(o, i)
    BY <1>3, <1>5 DEF BeginEdit
  <1>6. CASE \E i \in Reworked : BeginRevision(o, i)
    BY <1>3, <1>6 DEF BeginRevision
  <1>. QED  BY <1>4, <1>5, <1>6

\* The edit of an unlocked item whose base is current and which nobody approved.
LEMMA CommitEditKeepsReview ==
    ASSUME ReviewInv, NEW o \in Requests, CommitEdit(o)
    PROVE  ReviewInv' /\ QuietStep
  <1>. DEFINE i == Single(o)
  <1>1. OwnerInv /\ rpc[o] = "edit" /\ Answers(o)
    BY DEF ReviewInv, OwnerInv, CommitEdit
  <1>2. i \in Items
    BY <1>1 DEF OwnerInv, RequestsInv, Single
  <1>. HIDE DEF i
  <1>3. /\ i \notin Locked /\ status[i] # "approved" /\ version[i] < MaxVersion
        /\ version' = [version EXCEPT ![i] = version[i] + 1]
        /\ status' = [status EXCEPT ![i] = "draft"]
        /\ UNCHANGED <<pack, decision, candidates, workVars, faulted, histVars>>
    BY DEF CommitEdit, i
  <1>4. TypeItems'
    <2>1. version[i] + 1 \in 1..MaxVersion
      BY <1>2, <1>3, ReviewsAssumption DEF ReviewInv, TypeItems
    <2>. QED  BY <1>2, <1>3, <2>1 DEF ReviewInv, TypeItems
  <1>5. /\ \A j \in Items \ {i} : version'[j] = version[j] /\ status'[j] = status[j]
        /\ status'[i] # "approved"
    BY <1>2, <1>3 DEF ReviewInv, TypeItems
  <1>6. /\ \A p \in Requests : writes'[p] \subseteq writes[p] /\ writes[p] \subseteq Items
        /\ \A p \in Requests : at'[p] = at[p] \/ writes'[p] = {}
    BY <1>1, AnswersKeepsRequests DEF OwnerInv, TypeRequests
  <1>7. WritesInv' /\ StatusInv'
    <2>1. \A p \in Requests : i \notin writes[p]
      BY <1>3 DEF Locked
    <2>. QED  BY <1>3, <1>5, <1>6, <2>1 DEF ReviewInv, WritesInv, StatusInv
  <1>8. OwnerInv'
    BY <1>1, AnswersKeepsRequests
  <1>9. QuietStep
    <2>1. \A p \in Requests : rpc'[p] = "commit" =>
             /\ rpc[p] = "commit" /\ seen'[p] = seen[p] /\ target'[p] = target[p]
             /\ kind'[p] = kind[p] /\ writes'[p] = writes[p]
      BY <1>1, AnswersKeepsRequests
    <2>. QED  BY <1>3, <1>5, <2>1 DEF QuietStep, histVars
  <1>. QED
    BY <1>3, <1>4, <1>7, <1>8, <1>9 DEF ReviewInv, OwnerInv, TypeWork, TypeFaults,
       JobsFollowDecisions, JobsInv, workVars

\* The decision to have an unlocked, undecided current version revised.
LEMMA CommitRevisionKeepsReview ==
    ASSUME ReviewInv, NEW o \in Requests, CommitRevision(o)
    PROVE  ReviewInv' /\ QuietStep
  <1>. DEFINE i == Single(o)
              v == <<i, at[o][i]>>
  <1>1. OwnerInv /\ rpc[o] = "revise" /\ Answers(o)
    BY DEF ReviewInv, OwnerInv, CommitRevision
  <1>2. /\ i \in Items /\ i \notin Locked /\ at[o][i] # 0 /\ version[i] = at[o][i]
        /\ decision[v] = "none"
    BY DEF CommitRevision, Decidable
  <1>3. /\ decision' = [decision EXCEPT ![v] = "revision_requested"]
        /\ status' = [status EXCEPT ![i] = "revision_requested"]
        /\ job' = [job EXCEPT ![v] = "waiting"]
        /\ UNCHANGED <<pack, version, candidates, tries, stalled, wpc, wjob, faulted, histVars>>
    BY DEF CommitRevision
  <1>. HIDE DEF i
  <1>4. v \in Versions /\ v[2] < MaxVersion
    BY <1>1, <1>2 DEF OwnerInv, RequestsInv, ReviewInv, TypeItems
  <1>5. job[v] = "none" /\ v \notin candidates /\ status[i] # "approved"
    BY <1>2, <1>4 DEF ReviewInv, JobsFollowDecisions, TypeItems, StatusInv
  <1>6. TypeItems'
    BY <1>2, <1>3, <1>4, <1>5 DEF ReviewInv, TypeItems
  <1>7. WorkInv' /\ JobsFollowDecisions'
    <2>1. tries[v] < MaxTries
      BY <1>4, <1>5, ReviewsAssumption DEF ReviewInv, JobsInv
    <2>2. \A u \in Versions \ {v} : job'[u] = job[u] /\ decision'[u] = decision[u]
      BY <1>3 DEF ReviewInv, TypeWork, TypeItems
    <2>3. job'[v] = "waiting" /\ decision'[v] = "revision_requested"
      BY <1>3, <1>4 DEF ReviewInv, TypeWork, TypeItems
    <2>4. TypeWork'
      BY <1>3, <1>4 DEF ReviewInv, TypeWork
    <2>5. JobsInv'
      BY <1>3, <1>4, <2>1, <2>2, <2>3 DEF ReviewInv, JobsInv
    <2>6. JobsFollowDecisions'
      BY <2>2, <2>3 DEF ReviewInv, JobsFollowDecisions
    <2>. QED  BY <2>4, <2>5, <2>6 DEF WorkInv
  <1>8. /\ \A j \in Items \ {i} : status'[j] = status[j]
        /\ status'[i] # "approved"
        /\ \A u \in Versions \ {v} : decision'[u] = decision[u]
    BY <1>2, <1>3 DEF ReviewInv, TypeItems
  <1>9. /\ \A p \in Requests : writes'[p] \subseteq writes[p] /\ writes[p] \subseteq Items
        /\ \A p \in Requests : at'[p] = at[p] \/ writes'[p] = {}
    BY <1>1, AnswersKeepsRequests DEF OwnerInv, TypeRequests
  <1>10. WritesInv' /\ StatusInv'
    <2>1. \A p \in Requests : i \notin writes[p]
      BY <1>2 DEF Locked
    <2>2. \A j \in Items \ {i} : <<j, version[j]>> \in Versions \ {v}
      BY DEF ReviewInv, TypeItems
    <2>. QED  BY <1>3, <1>8, <1>9, <2>1, <2>2 DEF ReviewInv, WritesInv, StatusInv
  <1>11. OwnerInv'
    BY <1>1, AnswersKeepsRequests
  <1>12. QuietStep
    <2>1. \A p \in Requests : rpc'[p] = "commit" =>
             /\ rpc[p] = "commit" /\ seen'[p] = seen[p] /\ target'[p] = target[p]
             /\ kind'[p] = kind[p] /\ writes'[p] = writes[p]
      BY <1>1, AnswersKeepsRequests
    <2>. QED  BY <1>3, <1>5, <1>8, <2>1 DEF QuietStep, histVars
  <1>. QED
    BY <1>3, <1>6, <1>7, <1>10, <1>11, <1>12 DEF ReviewInv, OwnerInv, WorkInv, TypeFaults
-----------------------------------------------------------------------------
(* The decisions *)

ApprovedItems == {i \in Items : status[i] = "approved"}

\* The approved items once o has committed what it wrote.
ApprovedAfter(o) ==
    {i \in Items : IF i \in writes[o] THEN kind[o] = "approved" ELSE status[i] = "approved"}

\* Approvals only accumulate, so the status of the pack only moves forward, and
\* the only open decision has derived the status of the pack it will leave.
PackInv ==
    \/ raced \/ overwritten # {}
    \/ /\ pack = DerivedStatus(ApprovedItems)
       /\ \A o \in Requests : rpc[o] = "commit" =>
             seen[o] = pack /\ target[o] = DerivedStatus(ApprovedAfter(o))
       /\ \A o, p \in Requests : rpc[o] = "commit" /\ rpc[p] = "commit" => o = p

LEMMA QuietKeepsCandidates ==
    ASSUME ReviewInv, CandidateStandsUnlessOverwritten, QuietStep
    PROVE  CandidateStandsUnlessOverwritten'
  <1>1. \A v \in candidates : v[1] \in Items
    BY DEF ReviewInv, TypeItems
  <1>. QED  BY <1>1 DEF CandidateStandsUnlessOverwritten, QuietStep

LEMMA QuietKeepsPack ==
    ASSUME ReviewInv, PackInv, QuietStep
    PROVE  PackInv'
  <1>1. CASE raced \/ overwritten # {} \/ overwritten' # {}
    BY <1>1 DEF PackInv, QuietStep
  <1>2. CASE ~raced /\ overwritten = {} /\ overwritten' = {}
    <2>1. \A i \in Items : status'[i] = "approved" <=> status[i] = "approved"
      BY <1>2 DEF QuietStep
    <2>2. ApprovedItems' = ApprovedItems
      BY <2>1 DEF ApprovedItems
    <2>3. \A o \in Requests : rpc'[o] = "commit" => ApprovedAfter(o)' = ApprovedAfter(o)
      BY <2>1 DEF ApprovedAfter, QuietStep
    <2>. QED  BY <1>2, <2>2, <2>3 DEF PackInv, QuietStep, DerivedStatus
  <1>. QED  BY <1>1, <1>2

\* The rows a decision writes are unlocked, current and undecided.
LEMMA DecideWritesKeepsReview ==
    ASSUME ReviewInv, NEW o \in Requests, DecideWrites(o)
    PROVE  ReviewInv'
  <1>. DEFINE mine == Decidable(o)
  <1>1. /\ rpc[o] = "decide" /\ mine \intersect Locked = {} /\ mine \subseteq Items
        /\ rpc' = [rpc EXCEPT ![o] = "commit"] /\ writes' = [writes EXCEPT ![o] = mine]
        /\ UNCHANGED <<pack, itemVars, candidates, kind, at, workVars, faulted>>
    BY DEF DecideWrites, Decidable
  <1>2. \A i \in mine : at[o][i] = version[i] /\ decision[<<i, version[i]>>] = "none"
    BY DEF Decidable
  <1>3. TypeRequests'
    <2>1. /\ pack \in {"none", "draft", "partially_approved", "approved"}
          /\ target'[o] \in {"none", "draft", "partially_approved", "approved"}
      BY DEF DecideWrites, DerivedStatus, ReviewInv, TypeItems, TypeRequests
    <2>2. /\ seen' = [seen EXCEPT ![o] = pack]
          /\ target' = [target EXCEPT ![o] = target'[o]]
      BY DEF DecideWrites, ReviewInv, TypeRequests
    <2>. QED  BY <1>1, <2>1, <2>2 DEF ReviewInv, TypeRequests
  <1>4. /\ rpc'[o] = "commit" /\ writes'[o] = mine
        /\ \A p \in Requests \ {o} : rpc'[p] = rpc[p] /\ writes'[p] = writes[p]
    BY <1>1 DEF ReviewInv, TypeRequests
  <1>5. RequestsInv'
    BY <1>1, <1>4 DEF ReviewInv, RequestsInv
  <1>6. WritesInv'
    <2>1. \A p \in Requests : mine \intersect writes[p] = {}
      BY <1>1 DEF Locked
    <2>2. /\ \A p \in Requests : \A i \in writes'[p] :
                at'[p][i] = version'[i] /\ decision'[<<i, version'[i]>>] = "none"
      BY <1>1, <1>2, <1>4 DEF ReviewInv, WritesInv, itemVars
    <2>3. \A p, q \in Requests : p # q => writes'[p] \intersect writes'[q] = {}
      BY <1>4, <2>1 DEF ReviewInv, WritesInv
    <2>. QED  BY <2>2, <2>3 DEF WritesInv
  <1>. QED
    BY <1>1, <1>3, <1>5, <1>6 DEF ReviewInv, TypeItems, TypeWork, TypeFaults,
       JobsFollowDecisions, JobsInv, StatusInv, itemVars, workVars

\* A second open decision is a race; the first derives from what is committed.
LEMMA DecideWritesKeepsPack ==
    ASSUME ReviewInv, PackInv, NEW o \in Requests, DecideWrites(o)
    PROVE  PackInv'
  <1>. DEFINE mine == Decidable(o)
  <1>1. /\ rpc[o] = "decide" /\ rpc' = [rpc EXCEPT ![o] = "commit"]
        /\ writes' = [writes EXCEPT ![o] = mine] /\ seen' = [seen EXCEPT ![o] = pack]
        /\ raced' = (raced \/ \E p \in Requests : rpc[p] = "commit")
        /\ UNCHANGED <<pack, status, kind, overwritten>>
    BY DEF DecideWrites, itemVars
  <1>2. CASE raced \/ overwritten # {} \/ \E p \in Requests : rpc[p] = "commit"
    BY <1>1, <1>2 DEF PackInv
  <1>3. CASE ~raced /\ overwritten = {} /\ ~\E p \in Requests : rpc[p] = "commit"
    <2>1. ApprovedItems' = ApprovedItems
      BY <1>1 DEF ApprovedItems
    <2>2. \A p \in Requests : rpc'[p] = "commit" => p = o
      BY <1>1, <1>3 DEF ReviewInv, TypeRequests
    <2>3. writes'[o] = mine
      BY <1>1 DEF ReviewInv, TypeRequests
    <2>4. ApprovedAfter(o)' = {i \in Items : IF i \in mine THEN kind[o] = "approved"
                                                          ELSE status[i] = "approved"}
      BY <1>1, <2>3 DEF ApprovedAfter
    <2>5. target'[o] = DerivedStatus(ApprovedAfter(o)') /\ seen'[o] = pack
      <3>1. target'[o] = DerivedStatus({i \in Items : IF i \in mine THEN kind[o] = "approved"
                                                               ELSE status[i] = "approved"})
        BY DEF DecideWrites, ReviewInv, TypeRequests
      <3>2. seen'[o] = pack
        BY <1>1 DEF ReviewInv, TypeRequests
      <3>3. ApprovedAfter(o)' = {i \in Items : IF i \in mine THEN kind[o] = "approved"
                                                            ELSE status[i] = "approved"}
        BY <2>4
      <3>. QED  BY <3>1, <3>2, <3>3
    <2>. QED  BY <1>1, <1>3, <2>1, <2>2, <2>5 DEF PackInv, DerivedStatus
  <1>. QED  BY <1>2, <1>3

\* The commit: what was written is still current and undecided.
LEMMA DecideCommitsKeepsReview ==
    ASSUME ReviewInv, NEW o \in Requests, DecideCommits(o)
    PROVE  ReviewInv'
  <1>. DEFINE mine == writes[o]
              chosen == {v \in Versions : v[1] \in mine /\ v[2] = at[o][v[1]]}
  <1>1. /\ rpc[o] = "commit" /\ Answers(o)
        /\ status' = [i \in Items |-> IF i \in mine THEN kind[o] ELSE status[i]]
        /\ decision' = [v \in Versions |-> IF v \in chosen THEN kind[o] ELSE decision[v]]
        /\ candidates' \subseteq candidates \union (IF kind[o] = "approved" THEN chosen ELSE {})
        /\ UNCHANGED <<version, workVars, faulted>>
    BY DEF DecideCommits
  <1>2. /\ kind[o] \in {"approved", "rejected"} /\ OwnerInv
        /\ \A i \in mine : i \in Items /\ at[o][i] = version[i] /\ decision[<<i, version[i]>>] = "none"
    BY <1>1 DEF ReviewInv, OwnerInv, RequestsInv, WritesInv, TypeRequests
  <1>3. \A v \in chosen : decision[v] = "none" /\ v[2] = version[v[1]] /\ v[1] \in mine
    <2>1. \A v \in Versions : v = <<v[1], v[2]>> /\ v[1] \in Items
      OBVIOUS
    <2>2. ASSUME NEW v \in chosen
          PROVE  decision[v] = "none" /\ v[2] = version[v[1]] /\ v[1] \in mine
      <3>1. v \in Versions /\ v[1] \in mine /\ v[2] = at[o][v[1]]
        OBVIOUS
      <3>2. v[2] = version[v[1]] /\ decision[<<v[1], v[2]>>] = "none"
        BY <1>2, <3>1
      <3>. QED  BY <2>1, <3>1, <3>2
    <2>. QED  BY <2>2
  <1>. HIDE DEF chosen
  <1>4. TypeItems'
    <2>1. pack' \in {"draft", "partially_approved", "approved"}
      BY DEF DecideCommits, CanTransition, ReviewInv, TypeItems
    <2>2. status' \in [Items -> Statuses]
      BY <1>1, <1>2 DEF ReviewInv, TypeItems
    <2>3. decision' \in [Versions -> {"none", "approved", "rejected", "revision_requested"}]
      BY <1>1, <1>2 DEF ReviewInv, TypeItems
    <2>4. candidates' \subseteq {v \in Versions : decision'[v] = "approved"}
      BY <1>1, <1>2, <1>3 DEF ReviewInv, TypeItems, chosen
    <2>. QED  BY <1>1, <2>1, <2>2, <2>3, <2>4 DEF ReviewInv, TypeItems
  <1>5. JobsFollowDecisions'
    BY <1>1, <1>2, <1>3 DEF ReviewInv, JobsFollowDecisions, workVars
  <1>6. /\ \A p \in Requests : writes'[p] \subseteq writes[p] /\ writes[p] \subseteq Items
        /\ \A p \in Requests \ {o} : at'[p] = at[p]
        /\ writes'[o] = {} /\ OwnerInv'
    BY <1>1, <1>2, AnswersKeepsRequests DEF OwnerInv, TypeRequests
  <1>7. \A i \in Items \ mine : <<i, version[i]>> \in Versions \ chosen
    BY <1>3 DEF ReviewInv, TypeItems
  <1>8. WritesInv'
    <2>1. \A p \in Requests \ {o} : mine \intersect writes[p] = {}
      BY DEF ReviewInv, WritesInv
    <2>. QED  BY <1>1, <1>6, <1>7, <2>1 DEF ReviewInv, WritesInv
  <1>9. StatusInv'
    <2>1. \A i \in mine : <<i, version[i]>> \in chosen
      BY <1>2 DEF chosen, ReviewInv, TypeItems
    <2>. QED  BY <1>1, <1>2, <1>7, <2>1 DEF ReviewInv, StatusInv, chosen
  <1>. QED
    BY <1>1, <1>4, <1>5, <1>6, <1>8, <1>9 DEF ReviewInv, OwnerInv, TypeWork, TypeFaults,
       JobsInv, workVars

\* A candidate is of a decided version, and what commits was undecided.
LEMMA DecideCommitsKeepsCandidates ==
    ASSUME ReviewInv, CandidateStandsUnlessOverwritten, NEW o \in Requests, DecideCommits(o)
    PROVE  CandidateStandsUnlessOverwritten'
  <1>. DEFINE mine == writes[o]
  <1>1. /\ status' = [i \in Items |-> IF i \in mine THEN kind[o] ELSE status[i]]
        /\ UNCHANGED <<version, overwritten>> /\ rpc[o] = "commit"
    BY DEF DecideCommits, histVars
  <1>2. \A i \in mine : i \in Items /\ at[o][i] = version[i] /\ decision[<<i, version[i]>>] = "none"
    BY <1>1 DEF ReviewInv, WritesInv, TypeRequests
  <1>3. ASSUME NEW v \in candidates
        PROVE  \/ version'[v[1]] = v[2] /\ status'[v[1]] = "approved"
               \/ v[1] \in overwritten'
    <2>1. v \in Versions /\ v = <<v[1], v[2]>> /\ decision[v] = "approved"
      BY <1>3 DEF ReviewInv, TypeItems
    <2>2. CASE v[1] \in overwritten
      BY <1>1, <2>2
    <2>3. CASE version[v[1]] = v[2] /\ status[v[1]] = "approved"
      BY <1>1, <1>2, <2>1, <2>3
    <2>. QED  BY <1>3, <2>2, <2>3 DEF CandidateStandsUnlessOverwritten
  <1>4. ASSUME NEW v \in candidates' \ candidates
        PROVE  version'[v[1]] = v[2] /\ status'[v[1]] = "approved"
    <2>1. v \in Versions /\ v[1] \in mine /\ v[2] = at[o][v[1]] /\ kind[o] = "approved"
      BY <1>4 DEF DecideCommits
    <2>. QED  BY <1>1, <1>2, <2>1
  <1>. QED  BY <1>3, <1>4 DEF CandidateStandsUnlessOverwritten

\* The pack moves from what its items said to what they say, which the table of
\* transitions allows because approvals accumulate.
LEMMA DecideCommitsKeepsPack ==
    ASSUME ReviewInv, PackInv, NEW o \in Requests, DecideCommits(o)
    PROVE  PackInv'
  <1>. DEFINE mine == writes[o]
  <1>1. /\ rpc[o] = "commit" /\ Answers(o)
        /\ status' = [i \in Items |-> IF i \in mine THEN kind[o] ELSE status[i]]
        /\ pack' = IF CanTransition(seen[o], target[o]) /\ pack = seen[o] THEN target[o] ELSE pack
        /\ UNCHANGED <<raced, overwritten>>
    BY DEF DecideCommits, histVars
  <1>2. CASE raced \/ overwritten # {}
    BY <1>1, <1>2 DEF PackInv
  <1>3. CASE ~raced /\ overwritten = {}
    <2>1. /\ pack = DerivedStatus(ApprovedItems) /\ seen[o] = pack
          /\ target[o] = DerivedStatus(ApprovedAfter(o))
          /\ \A p \in Requests \ {o} : rpc[p] # "commit"
      BY <1>1, <1>3 DEF PackInv
    <2>2. \A p \in Requests : rpc'[p] # "commit"
      <3>1. OwnerInv
        BY DEF ReviewInv, OwnerInv
      <3>. QED  BY <1>1, <2>1, <3>1, AnswersKeepsRequests
    <2>3. ApprovedItems' = ApprovedAfter(o)
      BY <1>1 DEF ApprovedItems, ApprovedAfter
    <2>4. ApprovedItems \subseteq ApprovedAfter(o)
      <3>1. \A i \in mine : decision[<<i, version[i]>>] = "none"
        BY DEF ReviewInv, WritesInv
      <3>. QED  BY <3>1 DEF ApprovedItems, ApprovedAfter, ReviewInv, StatusInv
    <2>5. CanTransition(pack, target[o]) \/ target[o] = pack
      BY <2>1, <2>4 DEF DerivedStatus, CanTransition, ApprovedItems, ApprovedAfter
    <2>6. pack' = target[o]
      BY <1>1, <2>1, <2>5
    <2>. QED  BY <2>1, <2>2, <2>3, <2>6 DEF PackInv, DerivedStatus
  <1>. QED  BY <1>2, <1>3
-----------------------------------------------------------------------------
(* The theorems *)

LEMMA WorksKeepsReview ==
    ASSUME ReviewInv, NEW k \in Workers, Works(k)
    PROVE  ReviewInv' /\ QuietStep
  BY StartRevisionKeepsReview, AskForRevisionKeepsReview, AppendRevisionKeepsReview,
     ChargeRevisionKeepsReview, FailRevisionKeepsReview DEF Works

\* Every step is a decision of the owner or quiet.
LEMMA ReviewSteps ==
    ASSUME ReviewInv, Next
    PROVE  /\ ReviewInv'
           /\ QuietStep \/ \E o \in Requests : DecideWrites(o) \/ DecideCommits(o)
  <1>1. ASSUME NEW o \in Requests, OwnerActs(o)
        PROVE  ReviewInv' /\ (QuietStep \/ DecideWrites(o) \/ DecideCommits(o))
    BY <1>1, AbandonKeepsReview, BeginKeepsReview, DecideWritesKeepsReview,
       DecideCommitsKeepsReview, CommitEditKeepsReview, CommitRevisionKeepsReview DEF OwnerActs
  <1>2. ASSUME NEW k \in Workers, (\E v \in Versions : Take(k, v)) \/ Works(k) \/ WorkerCrash(k)
        PROVE  ReviewInv' /\ QuietStep
    BY <1>2, TakeKeepsReview, WorksKeepsReview, CrashKeepsReview
  <1>3. ASSUME NEW v \in Versions, Stall(v)
        PROVE  ReviewInv' /\ QuietStep
    BY <1>3, StallKeepsReview
  <1>. QED  BY <1>1, <1>2, <1>3 DEF Next

LEMMA ReviewInvInit == Init => ReviewInv
  <1>. SUFFICES ASSUME Init PROVE ReviewInv
    OBVIOUS
  <1>5. /\ pack = "draft" /\ version = [i \in Items |-> 1] /\ status = [i \in Items |-> "draft"]
        /\ decision = [v \in Versions |-> "none"] /\ candidates = {} /\ faulted = 0
    BY Zenon DEF Init
  <1>6. /\ rpc = [o \in Requests |-> "idle"] /\ kind = [o \in Requests |-> "none"]
        /\ at = [o \in Requests |-> Nowhere] /\ writes = [o \in Requests |-> {}]
        /\ seen = [o \in Requests |-> "none"] /\ target = [o \in Requests |-> "none"]
    BY Zenon DEF Init
  <1>7. /\ job = [v \in Versions |-> "none"] /\ tries = [v \in Versions |-> 0] /\ stalled = {}
        /\ wpc = [k \in Workers |-> "idle"] /\ wjob = [k \in Workers |-> NoVersion]
    BY Zenon DEF Init
  <1>1. TypeItems
    BY <1>5, ReviewsAssumption DEF TypeItems
  <1>2. TypeRequests /\ RequestsInv /\ WritesInv /\ StatusInv
    <2>1. Nowhere \in [Items -> 0..MaxVersion]
      BY ReviewsAssumption DEF Nowhere
    <2>. QED  BY <1>5, <1>6, <2>1 DEF TypeRequests, RequestsInv, WritesInv, StatusInv
  <1>3. TypeWork /\ JobsInv /\ JobsFollowDecisions
    <2>1. TypeWork
      <3>1. 0 \in 0..MaxTries
        BY ReviewsAssumption
      <3>2. tries \in [Versions -> 0..MaxTries] /\ job \in [Versions -> JobStates \union Workers]
        BY <1>7, <3>1
      <3>3. /\ wpc \in [Workers -> {"idle", "start", "ask", "append", "charge", "fail", "fail retry"}]
            /\ wjob \in [Workers -> Versions \union {NoVersion}]
        BY <1>7
      <3>. QED  BY <1>7, <3>2, <3>3 DEF TypeWork
    <2>2. \A v \in Versions : job[v] = "none" /\ tries[v] = 0 /\ decision[v] = "none"
      BY <1>5, <1>7
    <2>3. \A k \in Workers : wpc[k] = "idle"
      BY <1>7
    <2>4. "none" \notin {"waiting"} \union Workers
      BY WorkerNames
    <2>. QED  BY <2>1, <2>2, <2>3, <2>4 DEF JobsInv, JobsFollowDecisions
  <1>4. TypeFaults
    BY <1>5, ReviewsAssumption DEF TypeFaults
  <1>. QED  BY <1>1, <1>2, <1>3, <1>4 DEF ReviewInv

\* The inductive invariant: among the rest, an open decision holds rows that are
\* current, undecided and its own.
THEOREM ReviewInvHolds == Spec => []ReviewInv
  <1>1. ASSUME ReviewInv, [Next]_vars PROVE ReviewInv'
    <2>1. CASE UNCHANGED vars
      <3>1. UNCHANGED <<pack, itemVars, candidates, reqVars, workVars, faulted>>
        BY <2>1, Zenon DEF vars
      <3>2. (TypeItems /\ TypeFaults /\ StatusInv)'
        BY <1>1, <3>1 DEF itemVars, ReviewInv, TypeItems, TypeFaults, StatusInv
      <3>3. (TypeRequests /\ RequestsInv /\ WritesInv)'
        BY <1>1, <3>1 DEF itemVars, reqVars, ReviewInv, TypeRequests, RequestsInv, WritesInv
      <3>4. (TypeWork /\ JobsInv /\ JobsFollowDecisions)'
        BY <1>1, <3>1 DEF itemVars, workVars, ReviewInv, TypeWork, JobsInv, JobsFollowDecisions
      <3>. QED  BY <3>2, <3>3, <3>4 DEF ReviewInv
    <2>. QED  BY <1>1, <2>1, ReviewSteps
  <1>. QED  BY <1>1, ReviewInvInit, PTL DEF Spec

\* Only a version decided that way has a candidate or a revision job, and only a
\* transaction that will commit holds rows.
THEOREM ReviewTypeCorrect == Spec => []TypeOK
  BY ReviewInvHolds, ReviewInvTyped, PTL

\* No edit, revision, second decision or late worker slips past an approval
\* whose candidate exists, unless a failing revision overwrote the item.
THEOREM CandidatesStand == Spec => []CandidateStandsUnlessOverwritten
  <1>1. Init => CandidateStandsUnlessOverwritten
    BY DEF Init, CandidateStandsUnlessOverwritten
  <1>2. ASSUME ReviewInv, CandidateStandsUnlessOverwritten, [Next]_vars
        PROVE  CandidateStandsUnlessOverwritten'
    <2>1. CASE UNCHANGED vars
      BY <1>2, <2>1 DEF vars, itemVars, histVars, CandidateStandsUnlessOverwritten
    <2>2. ASSUME NEW o \in Requests, DecideWrites(o)
          PROVE  CandidateStandsUnlessOverwritten'
      BY <1>2, <2>2 DEF DecideWrites, itemVars, CandidateStandsUnlessOverwritten
    <2>. QED
      BY <1>2, <2>1, <2>2, ReviewSteps, QuietKeepsCandidates, DecideCommitsKeepsCandidates
  <1>. QED  BY <1>1, <1>2, ReviewInvHolds, PTL DEF Spec

\* The pack says what its items say once no decision is open, unless two were
\* open at once or an item was overwritten.
THEOREM PackFollowsItems == Spec => []PackFollowsItemsUnlessRaced
  <1>1. Init => PackInv
    <2>. SUFFICES ASSUME Init PROVE PackInv
      OBVIOUS
    <2>1. pack = "draft" /\ status = [i \in Items |-> "draft"] /\ rpc = [o \in Requests |-> "idle"]
      BY Zenon DEF Init
    <2>2. pack = DerivedStatus(ApprovedItems) /\ \A o \in Requests : rpc[o] # "commit"
      BY <2>1, ReviewsAssumption DEF DerivedStatus, ApprovedItems
    <2>. QED  BY <2>2 DEF PackInv
  <1>2. ASSUME ReviewInv, PackInv, [Next]_vars
        PROVE  PackInv'
    <2>1. CASE UNCHANGED vars
      BY <1>2, <2>1 DEF vars, itemVars, reqVars, histVars, PackInv, DerivedStatus,
         ApprovedItems, ApprovedAfter
    <2>. QED
      BY <1>2, <2>1, ReviewSteps, QuietKeepsPack, DecideWritesKeepsPack, DecideCommitsKeepsPack
  <1>3. PackInv => PackFollowsItemsUnlessRaced
    BY DEF PackInv, PackFollowsItemsUnlessRaced, ApprovedItems
  <1>. QED  BY <1>1, <1>2, <1>3, ReviewInvHolds, PTL DEF Spec
=============================================================================
