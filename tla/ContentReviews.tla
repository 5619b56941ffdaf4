---------------------------- MODULE ContentReviews ----------------------------
(***************************************************************************)
(* The review of a generated pack: the versions of its items, the owner's  *)
(* decisions, edits and revisions, the worker that revises and the frozen  *)
(* candidate of an approval (content.service.ts, content-v2.service.ts,    *)
(* content-decision.repository.ts, content-pack.repository.ts,             *)
(* content.processor.ts).                                                  *)
(***************************************************************************)
EXTENDS Naturals, FiniteSets

CONSTANTS
    Items,       \* items of the pack
    Reworked,    \* bound: items the owner edits or has revised
    MaxVersion,  \* bound: versions of one item
    Requests,    \* requests of the owner that may overlap
    Workers,     \* workers of the queue "content-generation"
    MaxTries,    \* "attempts" of a BullMQ job
    Faults,      \* the faults the environment may produce
    MaxFaults    \* bound: faults in one behaviour

ASSUME ReviewsAssumption ==
    /\ Items # {} /\ Reworked \subseteq Items
    /\ MaxVersion \in Nat \ {0} /\ MaxTries \in Nat \ {0} /\ MaxFaults \in Nat
    /\ Faults \subseteq {"crash", "stall", "db", "provider", "points"}

\* An exact version of an item: what is decided, revised and handed over.
Versions  == Items \X (1..MaxVersion)
NoVersion == <<"no item", 0>>

Statuses  == {"draft", "approved", "rejected", "revision_requested", "revision_failed"}
JobStates == {"none", "waiting", "completed", "failed"}

ASSUME WorkerNames == JobStates \intersect Workers = {} /\ NoVersion \notin Versions

VARIABLES
    pack,         \* content_packs.status, once delivered
    version,      \* the version current_version_id names
    status,       \* content_items.status
    decision,     \* content_decisions of a version ("none": undecided)
    candidates,   \* versions with a publication candidate
    rpc,          \* where each request is
    kind,         \* the decision it asks for
    at,           \* the versions it was made for (0: not that item)
    writes,       \* items its open transaction has written
    seen, target, \* the pack status it read and the one it derived
    job, tries,   \* revise-content jobs by base version
    stalled,      \* jobs redelivered once
    wpc, wjob,    \* where each worker is, and on which job
    faulted,      \* faults so far
    overwritten,  \* history: items whose status a worker wrote after they changed
    interrupted,  \* history: items whose revision a fault cut short
    raced         \* history: two decisions were open on the pack at once

itemVars  == <<version, status, decision>>
reqVars   == <<rpc, kind, at, writes, seen, target>>
workVars  == <<job, tries, stalled, wpc, wjob>>
histVars  == <<overwritten, interrupted, raced>>
vars == <<pack, itemVars, candidates, reqVars, workVars, faulted, histVars>>

Nowhere == [i \in Items |-> 0]

\* persistGeneratedItemsV2 leaves every item a draft at version 1.
Init ==
    /\ pack = "draft"
    /\ version = [i \in Items |-> 1] /\ status = [i \in Items |-> "draft"]
    /\ decision = [v \in Versions |-> "none"] /\ candidates = {}
    /\ rpc = [o \in Requests |-> "idle"] /\ kind = [o \in Requests |-> "none"]
    /\ at = [o \in Requests |-> Nowhere] /\ writes = [o \in Requests |-> {}]
    /\ seen = [o \in Requests |-> "none"] /\ target = [o \in Requests |-> "none"]
    /\ job = [v \in Versions |-> "none"] /\ tries = [v \in Versions |-> 0]
    /\ stalled = {}
    /\ wpc = [k \in Workers |-> "idle"] /\ wjob = [k \in Workers |-> NoVersion]
    /\ faulted = 0 /\ overwritten = {} /\ interrupted = {} /\ raced = FALSE

Fault(f) ==
    /\ f \in Faults /\ faulted < MaxFaults
    /\ faulted' = faulted + 1

-----------------------------------------------------------------------------
(* Decisions *)

\* Rows written by an open transaction: other writers of them wait.
Locked == UNION {writes[o] : o \in Requests}

Answers(o) ==
    /\ rpc' = [rpc EXCEPT ![o] = "idle"] /\ kind' = [kind EXCEPT ![o] = "none"]
    /\ at' = [at EXCEPT ![o] = Nowhere] /\ writes' = [writes EXCEPT ![o] = {}]
    /\ seen' = [seen EXCEPT ![o] = "none"] /\ target' = [target EXCEPT ![o] = "none"]

Asks(o, pc, k, where) ==
    /\ rpc[o] = "idle"
    /\ rpc' = [rpc EXCEPT ![o] = pc] /\ kind' = [kind EXCEPT ![o] = k]
    /\ at' = [at EXCEPT ![o] = where]
    /\ UNCHANGED <<writes, seen, target>>

\* A request that is refused, throws or dies rolls its transaction back.
Abandon(o) ==
    /\ rpc[o] # "idle" /\ Answers(o)
    /\ UNCHANGED <<pack, itemVars, candidates, workVars, faulted, histVars>>

\* The gates of decide and bulkDecide, outside the transaction.
BeginDecide(o) ==
    /\ pack \in {"draft", "partially_approved"}
    /\ \E k \in {"approved", "rejected"}, S \in SUBSET Items \ {{}} :
          Asks(o, "decide", k, [i \in Items |-> IF i \in S THEN version[i] ELSE 0])
    /\ UNCHANGED <<pack, itemVars, candidates, workVars, faulted, histVars>>

\* Slip: only the version is compared, so a version may be decided again.
DecidableAgain(o) == {i \in Items : at[o][i] # 0 /\ version[i] = at[o][i]}

\* The items of a request whose current version it names and nobody has decided.
Decidable(o) ==
    {i \in Items : /\ at[o][i] # 0 /\ version[i] = at[o][i]
                   /\ decision[<<i, at[o][i]>>] = "none"}

\* What derivePackStatusFromItems reads: its own writes and what is committed.
DerivedStatus(approved) ==
    IF approved = Items THEN "approved"
    ELSE IF approved # {} THEN "partially_approved" ELSE "draft"

\* recordDecision or bulkRecordDecisions, the candidates of the approved versions
\* and the reads of derivePackStatusFromItems.
DecideWrites(o) ==
    LET mine == Decidable(o)
        approved == {i \in Items : IF i \in mine THEN kind[o] = "approved"
                                   ELSE status[i] = "approved"} IN
    /\ rpc[o] = "decide" /\ mine \intersect Locked = {}
    /\ rpc' = [rpc EXCEPT ![o] = "commit"]
    /\ writes' = [writes EXCEPT ![o] = mine]
    /\ seen' = [seen EXCEPT ![o] = pack]
    /\ target' = [target EXCEPT ![o] = DerivedStatus(approved)]
    /\ raced' = (raced \/ \E p \in Requests : rpc[p] = "commit")
    /\ UNCHANGED <<pack, itemVars, candidates, kind, at, workVars, faulted,
                   overwritten, interrupted>>

\* Slip: the table of transitions leads to approved by way of partially approved only.
StepwiseTransition(from, to) ==
    <<from, to>> \in {<<"draft", "partially_approved">>, <<"partially_approved", "approved">>}

\* CONTENT_PACK_ALLOWED_TRANSITIONS among the delivered states.
CanTransition(from, to) ==
    <<from, to>> \in {<<"draft", "partially_approved">>, <<"draft", "approved">>,
                      <<"partially_approved", "approved">>}

\* The commit.  An approved version gets its candidate, unless it needs no asset
\* and has none; the pack moves only if it still has the status that was read.
DecideCommits(o) ==
    LET mine == writes[o]
        chosen == {v \in Versions : v[1] \in mine /\ v[2] = at[o][v[1]]} IN
    /\ rpc[o] = "commit"
    /\ status' = [i \in Items |-> IF i \in mine THEN kind[o] ELSE status[i]]
    /\ decision' = [v \in Versions |-> IF v \in chosen THEN kind[o] ELSE decision[v]]
    /\ IF kind[o] = "approved"
       THEN \E born \in SUBSET chosen : candidates' = candidates \union born
       ELSE UNCHANGED candidates
    /\ pack' = IF CanTransition(seen[o], target[o]) /\ pack = seen[o] THEN target[o] ELSE pack
    /\ Answers(o)
    /\ UNCHANGED <<version, workVars, faulted, histVars>>

-----------------------------------------------------------------------------
(* Edits and revisions *)

Only(i) == [j \in Items |-> IF j = i THEN version[i] ELSE 0]
Single(o) == CHOOSE i \in Items : at[o][i] # 0

\* directEdit, rewriteItem and attachMediaToItem: the gates, then perhaps the AI.
BeginEdit(o, i) ==
    /\ pack # "approved" /\ status[i] # "approved"
    /\ Asks(o, "edit", "none", Only(i))
    /\ UNCHANGED <<pack, itemVars, candidates, workVars, faulted, histVars>>

\* Slip: the status the gate has read is not compared again.
CommitEditTrusting(o) ==
    LET i == Single(o) IN
    /\ rpc[o] = "edit" /\ i \notin Locked
    /\ version[i] = at[o][i] /\ version[i] < MaxVersion
    /\ version' = [version EXCEPT ![i] = @ + 1]
    /\ status' = [status EXCEPT ![i] = "draft"]
    /\ Answers(o)
    /\ UNCHANGED <<pack, decision, candidates, workVars, faulted, histVars>>

\* appendOwnerEditVersion, appendAiRewriteVersion: the base must be current and
\* the item not approved, once more in the UPDATE itself.
CommitEdit(o) ==
    LET i == Single(o) IN
    /\ rpc[o] = "edit" /\ i \notin Locked
    /\ version[i] = at[o][i] /\ status[i] # "approved" /\ version[i] < MaxVersion
    /\ version' = [version EXCEPT ![i] = @ + 1]
    /\ status' = [status EXCEPT ![i] = "draft"]
    /\ Answers(o)
    /\ UNCHANGED <<pack, decision, candidates, workVars, faulted, histVars>>

\* The gates of requestRevision.
BeginRevision(o, i) ==
    /\ pack \in {"draft", "partially_approved"} /\ version[i] < MaxVersion
    /\ Asks(o, "revise", "none", Only(i))
    /\ UNCHANGED <<pack, itemVars, candidates, workVars, faulted, histVars>>

\* recordDecision with the revision job in one transaction; the job outbox sees
\* to it that the job is queued.
CommitRevision(o) ==
    LET i == Single(o)  v == <<i, at[o][i]>> IN
    /\ rpc[o] = "revise" /\ i \in Decidable(o) \ Locked
    /\ decision' = [decision EXCEPT ![v] = "revision_requested"]
    /\ status' = [status EXCEPT ![i] = "revision_requested"]
    /\ job' = [job EXCEPT ![v] = "waiting"]
    /\ Answers(o)
    /\ UNCHANGED <<pack, version, candidates, tries, stalled, wpc, wjob, faulted,
                   histVars>>

-----------------------------------------------------------------------------
(* The worker: handleRevise *)

Moves(k, pc) == wpc' = [wpc EXCEPT ![k] = pc] /\ UNCHANGED wjob
Leaves(k) == wpc' = [wpc EXCEPT ![k] = "idle"] /\ wjob' = [wjob EXCEPT ![k] = NoVersion]

\* A worker that lost the lock of its job finishes nothing.
Completes(k) ==
    /\ Leaves(k)
    /\ job' = [job EXCEPT ![wjob[k]] = IF @ = k THEN "completed" ELSE @]
    /\ UNCHANGED <<tries, stalled>>
Throws(k) ==
    LET v == wjob[k]  holds == job[v] = k  over == tries[v] + 1 >= MaxTries IN
    /\ Leaves(k)
    /\ tries' = IF holds THEN [tries EXCEPT ![v] = @ + 1] ELSE tries
    /\ job' = IF holds THEN [job EXCEPT ![v] = IF over THEN "failed" ELSE "waiting"] ELSE job
    /\ UNCHANGED stalled

Take(k, v) ==
    /\ wpc[k] = "idle" /\ job[v] = "waiting"
    /\ job' = [job EXCEPT ![v] = k]
    /\ wpc' = [wpc EXCEPT ![k] = "start"] /\ wjob' = [wjob EXCEPT ![k] = v]
    /\ UNCHANGED <<pack, itemVars, candidates, reqVars, tries, stalled, faulted, histVars>>

\* The job is a no-op unless its base is current and a revision is asked for.
\* The event written before the try block may throw.
StartRevision(k) ==
    LET i == wjob[k][1]
        wanted == version[i] = wjob[k][2] /\ status[i] = "revision_requested" IN
    /\ wpc[k] = "start"
    /\ \/ /\ wanted /\ Moves(k, "ask") /\ UNCHANGED <<job, tries, stalled, faulted, interrupted>>
       \/ ~wanted /\ Completes(k) /\ UNCHANGED <<faulted, interrupted>>
       \/ Fault("db") /\ Throws(k) /\ interrupted' = interrupted \union {i}
    /\ UNCHANGED <<pack, itemVars, candidates, reqVars, overwritten, raced>>

\* assertAllowed and the AI service: an answer, no points, or an error.
AskForRevision(k) ==
    /\ wpc[k] = "ask"
    /\ \/ Moves(k, "append") /\ UNCHANGED faulted
       \/ Fault("points") /\ Moves(k, "fail")
       \/ Fault("provider") /\ (Moves(k, "fail") \/ Moves(k, "fail retry"))
    /\ UNCHANGED <<pack, itemVars, candidates, reqVars, job, tries, stalled, histVars>>

\* appendRevisedItemVersion compares the base, not the status.
AppendRevision(k) ==
    LET i == wjob[k][1]  current == version[i] = wjob[k][2] IN
    /\ wpc[k] = "append" /\ i \notin Locked
    /\ IF current
       THEN /\ version' = [version EXCEPT ![i] = @ + 1]
            /\ status' = [status EXCEPT ![i] = "draft"]
            /\ Moves(k, "charge")
       ELSE Moves(k, "fail retry") /\ UNCHANGED <<version, status>>
    /\ UNCHANGED <<pack, decision, candidates, reqVars, job, tries, stalled, faulted,
                   histVars>>

\* record, recordProviderCost and the last progress event.
ChargeRevision(k) ==
    /\ wpc[k] = "charge"
    /\ \/ Completes(k) /\ UNCHANGED faulted
       \/ /\ \/ Fault("points") /\ Moves(k, "fail")
             \/ Fault("db") /\ Moves(k, "fail retry")
          /\ UNCHANGED <<job, tries, stalled>>
    /\ UNCHANGED <<pack, itemVars, candidates, reqVars, histVars>>

\* Slip: the last try still leaves the item waiting for its revision.
FailRevisionForEver(k) ==
    LET i == wjob[k][1] IN
    /\ wpc[k] \in {"fail", "fail retry"} /\ i \notin Locked
    /\ status' = [status EXCEPT ![i] = "revision_requested"]
    /\ IF wpc[k] = "fail retry" THEN Throws(k) ELSE Completes(k)
    /\ UNCHANGED <<pack, version, decision, candidates, reqVars, faulted, histVars>>

\* The catch block: markItemStatus writes by id, whatever became of the item; it
\* or the event after it may throw.
FailRevision(k) ==
    LET i == wjob[k][1]
        again == wpc[k] = "fail retry" /\ tries[wjob[k]] + 1 < MaxTries
        changed == version[i] # wjob[k][2]
                   \/ status[i] \notin {"revision_requested", "revision_failed"}
        mark == /\ status' = [status EXCEPT ![i] = IF again THEN "revision_requested"
                                                            ELSE "revision_failed"]
                /\ overwritten' = IF changed THEN overwritten \union {i} ELSE overwritten IN
    /\ wpc[k] \in {"fail", "fail retry"} /\ i \notin Locked
    /\ \/ /\ mark /\ UNCHANGED <<faulted, interrupted>>
          /\ IF wpc[k] = "fail retry" THEN Throws(k) ELSE Completes(k)
       \/ /\ mark \/ UNCHANGED <<status, overwritten>>
          /\ Fault("db") /\ Throws(k)
          /\ interrupted' = interrupted \union {i}
    /\ UNCHANGED <<pack, version, decision, candidates, reqVars, raced>>

WorkerCrash(k) ==
    /\ wpc[k] # "idle" /\ Fault("crash")
    /\ Leaves(k)
    /\ interrupted' = interrupted \union {wjob[k][1]}
    /\ UNCHANGED <<pack, itemVars, candidates, reqVars, job, tries, stalled,
                   overwritten, raced>>

\* A lock that its worker no longer renews: redelivered once, then failed.
Abandoned(v) == job[v] \in Workers /\ wjob[job[v]] # v
Stall(v) ==
    /\ job[v] \in Workers
    /\ IF Abandoned(v) THEN UNCHANGED faulted ELSE Fault("stall")
    /\ job' = [job EXCEPT ![v] = IF v \in stalled THEN "failed" ELSE "waiting"]
    /\ stalled' = stalled \union {v}
    /\ interrupted' = IF v \in stalled THEN interrupted \union {v[1]} ELSE interrupted
    /\ UNCHANGED <<pack, itemVars, candidates, reqVars, tries, wpc, wjob,
                   overwritten, raced>>

-----------------------------------------------------------------------------

OwnerActs(o) ==
    \/ Abandon(o)
    \/ BeginDecide(o) \/ DecideWrites(o) \/ DecideCommits(o)
    \/ CommitEdit(o) \/ CommitRevision(o)
    \/ \E i \in Reworked : BeginEdit(o, i) \/ BeginRevision(o, i)

Works(k) ==
    \/ StartRevision(k) \/ AskForRevision(k) \/ AppendRevision(k)
    \/ ChargeRevision(k) \/ FailRevision(k)

Next ==
    \/ \E o \in Requests : OwnerActs(o)
    \/ \E k \in Workers : \/ \E v \in Versions : Take(k, v)
                          \/ Works(k)
                          \/ WorkerCrash(k)
    \/ \E v \in Versions : Stall(v)

Spec == Init /\ [][Next]_vars

\* Workers consume, BullMQ notices the locks of dead workers and transactions end.
\* The owner and the faults owe nothing.
Fairness ==
    /\ WF_vars(\E o \in Requests : DecideCommits(o))
    /\ \A k \in Workers : WF_vars(Works(k) \/ \E v \in Versions : Take(k, v))
    /\ WF_vars(\E v \in Versions : Abandoned(v) /\ Stall(v))

FairSpec == Spec /\ Fairness

-----------------------------------------------------------------------------
(* Properties *)

\* Everything is in a state the code allows: only a version decided that way has
\* a candidate or a revision job, and only a transaction that will commit holds rows.
TypeOK ==
    /\ pack \in {"draft", "partially_approved", "approved"}
    /\ version \in [Items -> 1..MaxVersion] /\ status \in [Items -> Statuses]
    /\ decision \in [Versions -> {"none", "approved", "rejected", "revision_requested"}]
    /\ candidates \subseteq {v \in Versions : decision[v] = "approved"}
    /\ rpc \in [Requests -> {"idle", "decide", "commit", "edit", "revise"}]
    /\ kind \in [Requests -> {"none", "approved", "rejected"}]
    /\ at \in [Requests -> [Items -> 0..MaxVersion]]
    /\ writes \in [Requests -> SUBSET Items]
    /\ \A o \in Requests : rpc[o] # "commit" => writes[o] = {}
    /\ job \in [Versions -> JobStates \union Workers]
    /\ \A v \in Versions : job[v] # "none" <=> decision[v] = "revision_requested"
    /\ tries \in [Versions -> 0..MaxTries] /\ stalled \subseteq Versions
    /\ wpc \in [Workers -> {"idle", "start", "ask", "append", "charge", "fail", "fail retry"}]
    /\ wjob \in [Workers -> Versions \union {NoVersion}]
    /\ faulted \in 0..MaxFaults

\* A candidate is the version of its item that the owner approved and that still
\* stands: no edit, revision or second decision slips past an approval, unless a
\* failing revision wrote the status of an item that had changed.
CandidateStandsUnlessOverwritten ==
    \A v \in candidates : \/ version[v[1]] = v[2] /\ status[v[1]] = "approved"
                          \/ v[1] \in overwritten

\* The pack says what its items say once no decision is open, unless two were
\* open at once or an item was overwritten.
PackFollowsItemsUnlessRaced ==
    \/ raced \/ overwritten # {}
    \/ \E o \in Requests : rpc[o] = "commit"
    \/ pack = DerivedStatus({i \in Items : status[i] = "approved"})

\* A revision the owner asked for ends in a new version or a failure, unless a
\* fault cut it short or the status was overwritten.
RevisionEndsUnlessInterrupted ==
    \A i \in Reworked : status[i] = "revision_requested" ~>
        status[i] # "revision_requested" \/ i \in interrupted \union overwritten
=============================================================================
