------------------------- MODULE BillingOutboxProofs -------------------------
(***************************************************************************)
(* What the billing outbox guarantees for any number of events, sweeps,    *)
(* workers and faults, and for any retry limits.                           *)
(***************************************************************************)
EXTENDS BillingOutbox, TLAPS

USE DEF OutboxAssumption, NamesAssumption, NoOwner, NoEvent, Mail, RowStates, JobStates

\* The rows stay typed when a lease is released for a retry (releaseForRetry).
LEMMA ReleaseForRetryKeepsRows ==
    ASSUME TypeRows, NEW e \in Events, NEW o, ReleaseForRetry(e, o)
    PROVE  TypeRows'
  <1>1. CASE Leased(e, o)
    <2>1. attempts[e] < MaxAttempts /\ attempts[e] \in 0..MaxAttempts
      BY <1>1 DEF Leased, TypeRows
    <2>2. MaxAttempts \in Nat
      BY OutboxAssumption
    <2>3. attempts[e] + 1 \in 0..MaxAttempts
      BY <2>1, <2>2
    <2>4. attempts' = [attempts EXCEPT ![e] = attempts[e] + 1]
      BY <1>1 DEF ReleaseForRetry
    <2>5. attempts' \in [Events -> 0..MaxAttempts]
      BY <2>3, <2>4 DEF TypeRows
    <2>6. state'[e] # "failed" => attempts[e] + 1 < MaxAttempts
      <3>1. CASE attempts[e] + 1 >= MaxAttempts
        BY <1>1, <3>1 DEF ReleaseForRetry, TypeRows
      <3>2. CASE ~(attempts[e] + 1 >= MaxAttempts)
        BY <2>1, <2>2, <3>2
      <3>. QED  BY <3>1, <3>2
    <2>7. \A x \in Events : state'[x] # "failed" => attempts'[x] < MaxAttempts
      <3>. TAKE x \in Events
      <3>1. CASE x = e
        BY <2>4, <2>6, <3>1 DEF TypeRows
      <3>2. CASE x # e
        BY <1>1, <2>4, <3>2 DEF ReleaseForRetry, TypeRows
      <3>. QED  BY <3>1, <3>2
    <2>8. \A x \in Events : owner'[x] # NoOwner <=> state'[x] = "processing"
      BY <1>1 DEF ReleaseForRetry, TypeRows
    <2>9. lapsed' \subseteq {x \in Events : state'[x] = "processing"}
      BY <1>1 DEF ReleaseForRetry, TypeRows
    <2>10. state' \in [Events -> RowStates] /\ backedOff' \subseteq Events
      BY <1>1 DEF ReleaseForRetry, TypeRows
    <2>11. owner' \in [Events -> Sweepers \union {Mail, NoOwner}]
      BY <1>1 DEF ReleaseForRetry, TypeRows
    <2>. QED  BY <2>5, <2>7, <2>8, <2>9, <2>10, <2>11 DEF TypeRows
  <1>2. CASE ~Leased(e, o)
    BY <1>2 DEF ReleaseForRetry, TypeRows, rowVars
  <1>. QED  BY <1>1, <1>2

\* ... and when a claim is released or marked (releaseClaim, markDispatched).
LEMMA SettleKeepsRows ==
    ASSUME TypeRows, NEW e \in Events, NEW o, NEW s \in {"pending", "sent"},
           Settle(e, o, s)
    PROVE  TypeRows'
  <1>1. CASE Leased(e, o)
    <2>1. attempts[e] < MaxAttempts
      BY <1>1 DEF Leased, TypeRows
    <2>. QED  BY <1>1, <2>1 DEF Settle, TypeRows
  <1>2. CASE ~Leased(e, o)
    BY <1>2 DEF Settle, TypeRows, rowVars
  <1>. QED  BY <1>1, <1>2

\* Completing or failing a job keeps the jobs and the workers typed.
LEMMA CompletesKeepsTypes ==
    ASSUME TypeJobs, TypeWorkers, NEW w \in Workers, Completes(w)
    PROVE  TypeJobs' /\ TypeWorkers'
  <1>1. Holds(w) => job[wev[w]] # "failed"
    BY NamesAssumption DEF Holds
  <1>. QED  BY <1>1 DEF Completes, Leaves, Holds, TypeJobs, TypeWorkers

LEMMA ThrowsKeepsTypes ==
    ASSUME TypeJobs, TypeWorkers, NEW w \in Workers, wpc[w] # "idle", Throws(w)
    PROVE  TypeJobs' /\ TypeWorkers'
  <1>. DEFINE e == wev[w]
  <1>1. e \in Events
    BY DEF TypeWorkers
  <1>2. TypeWorkers'
    BY DEF Throws, Leaves, TypeWorkers
  <1>3. CASE Holds(w)
    <2>1. job[e] \notin {"completed", "failed"}
      BY <1>3, NamesAssumption DEF Holds
    <2>2. tries[e] < JobTries /\ tries[e] \in 0..JobTries
      BY <1>1, <2>1 DEF TypeJobs
    <2>3. JobTries \in Nat
      BY OutboxAssumption
    <2>4. tries[e] + 1 \in 0..JobTries
      BY <2>2, <2>3
    <2>5. tries' = [tries EXCEPT ![e] = tries[e] + 1]
      BY <1>3 DEF Throws
    <2>6. tries' \in [Events -> 0..JobTries]
      BY <2>4, <2>5 DEF TypeJobs
    <2>7. job' \in [Events -> JobStates \union Workers]
      BY <1>1, <1>3 DEF Throws, TypeJobs
    <2>8. \A x \in Events : job'[x] # "failed" => tries'[x] < JobTries
      BY <1>1, <1>3, <2>2, <2>5 DEF Throws, TypeJobs
    <2>. QED  BY <1>2, <2>6, <2>7, <2>8 DEF Throws, TypeJobs
  <1>4. CASE ~Holds(w)
    BY <1>2, <1>4 DEF Throws, TypeJobs
  <1>. QED  BY <1>3, <1>4

-----------------------------------------------------------------------------
(* Types *)

\* Every step of the outbox keeps its rows, sweeps, jobs and workers typed.
LEMMA TypeStep == TypeOK /\ [Next]_vars => TypeOK'
  <1>. SUFFICES ASSUME TypeOK, [Next]_vars PROVE TypeOK'
    OBVIOUS
  <1>. USE DEF TypeOK
  <1>1. ASSUME NEW e \in Events, Confirm(e) PROVE TypeOK'
    BY <1>1 DEF Confirm, TypeRows, TypeSweeps, TypeJobs, TypeWorkers, sweepVars,
                queueVars, workVars
  <1>2. ASSUME NEW e \in Events, Elapse(e) PROVE TypeOK'
    BY <1>2 DEF Elapse, TypeRows, TypeSweeps, TypeJobs, TypeWorkers, sweepVars,
                queueVars, workVars
  <1>3. ASSUME NEW e \in Events, LeaseExpires(e) PROVE TypeOK'
    BY <1>3 DEF LeaseExpires, TypeRows, TypeSweeps, TypeJobs, TypeWorkers,
                sweepVars, queueVars, workVars
  <1>4. ASSUME NEW e \in Events, Promote(e) PROVE TypeOK'
    BY <1>4 DEF Promote, TypeRows, TypeSweeps, TypeJobs, TypeWorkers, rowVars,
                sweepVars, workVars
  <1>5. ASSUME NEW e \in Events, Stall(e) PROVE TypeOK'
    <2>1. job[e] \notin {"completed", "failed"}
      BY <1>5, NamesAssumption DEF Stall
    <2>. QED
      BY <1>5, <2>1 DEF Stall, TypeRows, TypeSweeps, TypeJobs, TypeWorkers, rowVars,
                        sweepVars, workVars
  <1>6. ASSUME NEW s \in Sweepers, ClaimDueEvents(s) PROVE TypeOK'
    <2>1. Due \subseteq Events
      BY DEF Due, TypeRows
    <2>2. \A e \in Due : state[e] # "failed"
      BY DEF Due, TypeRows
    <2>3. s # NoOwner
      BY NamesAssumption
    <2>4. TypeRows'
      BY <1>6, <2>1, <2>2, <2>3 DEF ClaimDueEvents, TypeRows
    <2>5. TypeSweeps'
      BY <1>6, <2>1 DEF ClaimDueEvents, TypeSweeps
    <2>. QED
      BY <1>6, <2>4, <2>5 DEF ClaimDueEvents, TypeJobs, TypeWorkers, queueVars, workVars
  <1>7. ASSUME NEW s \in Sweepers, NEW e \in Events, Enqueue(s, e) PROVE TypeOK'
    <2>1. TypeSweeps'
      BY <1>7 DEF Enqueue, Goes, TypeSweeps
    <2>2. TypeJobs'
      BY <1>7 DEF Enqueue, AddJob, TypeJobs
    <2>. QED
      BY <1>7, <2>1, <2>2 DEF Enqueue, TypeRows, TypeWorkers, rowVars, workVars
  <1>8. ASSUME NEW s \in Sweepers, ReleaseClaim(s) PROVE TypeOK'
    <2>1. sev[s] \in Events
      BY <1>8 DEF ReleaseClaim, TypeSweeps
    <2>2. TypeRows'
      BY <1>8, <2>1, SettleKeepsRows DEF ReleaseClaim, TypeRows, rowVars
    <2>3. TypeSweeps'
      BY <1>8 DEF ReleaseClaim, Goes, TypeSweeps
    <2>. QED
      BY <1>8, <2>2, <2>3 DEF ReleaseClaim, TypeJobs, TypeWorkers, queueVars, workVars
  <1>9. ASSUME NEW s \in Sweepers, SweepRetry(s) PROVE TypeOK'
    <2>1. sev[s] \in Events
      BY <1>9 DEF SweepRetry, TypeSweeps
    <2>2. TypeRows'
      BY <1>9, <2>1, ReleaseForRetryKeepsRows DEF SweepRetry, TypeRows, rowVars
    <2>3. TypeSweeps'
      BY <1>9 DEF SweepRetry, Goes, TypeSweeps
    <2>. QED
      BY <1>9, <2>2, <2>3 DEF SweepRetry, TypeJobs, TypeWorkers, queueVars, workVars
  <1>10. ASSUME NEW s \in Sweepers, SweeperCrash(s) PROVE TypeOK'
    BY <1>10 DEF SweeperCrash, Goes, TypeRows, TypeSweeps, TypeJobs, TypeWorkers,
                 rowVars, queueVars, workVars
  <1>11. ASSUME NEW w \in Workers, NEW e \in Events, Take(w, e) PROVE TypeOK'
    <2>1. TypeJobs'
      BY <1>11 DEF Take, TypeJobs
    <2>2. TypeWorkers'
      BY <1>11 DEF Take, TypeWorkers
    <2>. QED
      BY <1>11, <2>1, <2>2 DEF Take, TypeRows, TypeSweeps, rowVars, sweepVars
  <1>12. ASSUME NEW w \in Workers, ClaimEventById(w) PROVE TypeOK'
    <2>1. wev[w] \in Events /\ wpc[w] # "idle"
      BY <1>12 DEF ClaimEventById, TypeWorkers
    <2>2. TypeRows'
      BY <1>12, <2>1 DEF ClaimEventById, TypeRows, rowVars
    <2>3. TypeJobs' /\ TypeWorkers'
      BY <1>12, <2>1, CompletesKeepsTypes, ThrowsKeepsTypes
         DEF ClaimEventById, Moves, TypeJobs, TypeWorkers, queueVars
    <2>. QED
      BY <1>12, <2>2, <2>3 DEF ClaimEventById, TypeSweeps, sweepVars
  <1>13. ASSUME NEW w \in Workers, Send(w) PROVE TypeOK'
    <2>1. wev[w] \in Events
      BY <1>13 DEF Send, TypeWorkers
    <2>2. mails' \in [Events -> Nat]
      <3>1. mails[wev[w]] + 1 \in Nat
        BY <2>1
      <3>. QED  BY <1>13, <2>1, <3>1 DEF Send
    <2>3. TypeWorkers'
      BY <1>13, <2>1 DEF Send, Moves, TypeWorkers
    <2>. QED
      BY <1>13, <2>2, <2>3 DEF Send, TypeRows, TypeSweeps, TypeJobs, rowVars,
                                sweepVars, queueVars
  <1>14. ASSUME NEW w \in Workers, MarkDispatched(w) PROVE TypeOK'
    <2>1. wev[w] \in Events
      BY <1>14 DEF MarkDispatched, TypeWorkers
    <2>2. TypeRows'
      BY <1>14, <2>1, SettleKeepsRows DEF MarkDispatched, TypeRows, rowVars
    <2>3. TypeJobs' /\ TypeWorkers'
      BY <1>14, <2>1, CompletesKeepsTypes
         DEF MarkDispatched, Moves, TypeJobs, TypeWorkers, queueVars
    <2>. QED
      BY <1>14, <2>2, <2>3 DEF MarkDispatched, TypeSweeps, sweepVars
  <1>15. ASSUME NEW w \in Workers, WorkerRetry(w) PROVE TypeOK'
    <2>1. wev[w] \in Events /\ wpc[w] # "idle"
      BY <1>15 DEF WorkerRetry, TypeWorkers
    <2>2. TypeRows'
      BY <1>15, <2>1, ReleaseForRetryKeepsRows DEF WorkerRetry, TypeRows, rowVars
    <2>3. TypeJobs' /\ TypeWorkers'
      BY <1>15, <2>1, ThrowsKeepsTypes DEF WorkerRetry
    <2>. QED
      BY <1>15, <2>2, <2>3 DEF WorkerRetry, TypeSweeps, sweepVars
  <1>16. ASSUME NEW w \in Workers, WorkerCrash(w) PROVE TypeOK'
    BY <1>16 DEF WorkerCrash, Leaves, TypeRows, TypeSweeps, TypeJobs, TypeWorkers,
                 rowVars, sweepVars, queueVars
  <1>17. CASE UNCHANGED vars
    BY <1>17 DEF vars, TypeRows, TypeSweeps, TypeJobs, TypeWorkers, rowVars,
                 sweepVars, queueVars, workVars
  <1>. QED
    BY <1>1, <1>2, <1>3, <1>4, <1>5, <1>6, <1>7, <1>8, <1>9, <1>10, <1>11, <1>12,
       <1>13, <1>14, <1>15, <1>16, <1>17
       DEF Next, RowStep, JobStep, Sweeps, Works

\* The rows, sweeps, jobs and workers of the outbox stay in the states the code
\* allows, whatever crashes, stalls, fails or expires.
THEOREM OutboxTypeCorrect == Spec => []TypeOK
  <1>1. Init => TypeOK
    <2>. SUFFICES ASSUME Init PROVE TypeOK
      OBVIOUS
    <2>1. 0 < MaxAttempts /\ 0 < JobTries /\ 0 \in 0..MaxAttempts /\ 0 \in 0..JobTries
      <3>1. MaxAttempts \in Nat /\ MaxAttempts # 0
        BY OutboxAssumption
      <3>2. JobTries \in Nat /\ JobTries # 0
        BY OutboxAssumption
      <3>. QED  BY <3>1, <3>2
    <2>2. TypeRows
      BY <2>1 DEF Init, TypeRows
    <2>3. TypeJobs
      BY <2>1 DEF Init, TypeJobs
    <2>. QED
      BY <2>2, <2>3 DEF Init, TypeOK, TypeSweeps, TypeWorkers
  <1>. QED
    BY <1>1, TypeStep, PTL DEF Spec

-----------------------------------------------------------------------------
(* What a row says of its mail *)

\* Settling a row as sent needs a mail; releasing it makes no row sent.
LEMMA ReleaseMakesNoneSent ==
    ASSUME TypeRows, NEW e \in Events, NEW o, ReleaseForRetry(e, o),
           NEW x \in Events, state'[x] = "sent"
    PROVE  state[x] = "sent"
  BY DEF ReleaseForRetry, Leased, TypeRows, rowVars

LEMMA SettleMakesOneSent ==
    ASSUME TypeRows, NEW e \in Events, NEW o, NEW s, Settle(e, o, s),
           NEW x \in Events, state'[x] = "sent"
    PROVE  state[x] = "sent" \/ (x = e /\ s = "sent")
  BY DEF Settle, Leased, TypeRows, rowVars

\* A step makes a row sent only after the mail of a worker that is marking it,
\* and a worker starts marking only after its mail; mails are never taken back.
LEMMA MailStep == TypeOK /\ SentWasMailed /\ [Next]_vars => SentWasMailed'
  <1>. SUFFICES ASSUME TypeOK, SentWasMailed, [Next]_vars PROVE SentWasMailed'
    OBVIOUS
  <1>. USE DEF SentWasMailed
  <1>. TypeRows /\ TypeWorkers /\ TypeSweeps /\ mails \in [Events -> Nat]
    BY DEF TypeOK
  <1>1. ASSUME NEW e \in Events, RowStep(e) PROVE SentWasMailed'
    BY <1>1 DEF RowStep, Confirm, Elapse, LeaseExpires, TypeRows, workVars
  <1>2. ASSUME NEW e \in Events, JobStep(e) PROVE SentWasMailed'
    BY <1>2 DEF JobStep, Promote, Stall, rowVars, workVars
  <1>3. ASSUME NEW s \in Sweepers, Sweeps(s) PROVE SentWasMailed'
    <2>1. CASE ClaimDueEvents(s)
      BY <2>1 DEF ClaimDueEvents, TypeRows, workVars
    <2>2. CASE \E e \in Events : Enqueue(s, e)
      BY <2>2 DEF Enqueue, rowVars, workVars
    <2>3. CASE ReleaseClaim(s)
      <3>1. sev[s] \in Events
        BY <2>3 DEF ReleaseClaim, TypeSweeps
      <3>2. ASSUME NEW x \in Events, state'[x] = "sent" PROVE state[x] = "sent"
        <4>1. CASE Settle(sev[s], s, "pending")
          <5>1. state[x] = "sent" \/ (x = sev[s] /\ "pending" = "sent")
            BY <3>1, <3>2, <4>1, SettleMakesOneSent
          <5>. QED  BY <5>1
        <4>2. CASE UNCHANGED rowVars
          BY <3>2, <4>2 DEF rowVars
        <4>. QED  BY <2>3, <4>1, <4>2 DEF ReleaseClaim
      <3>. QED  BY <2>3, <3>2 DEF ReleaseClaim, workVars
    <2>4. CASE SweepRetry(s)
      <3>1. sev[s] \in Events
        BY <2>4 DEF SweepRetry, TypeSweeps
      <3>2. \A x \in Events : state'[x] = "sent" => state[x] = "sent"
        BY <2>4, <3>1, ReleaseMakesNoneSent DEF SweepRetry, rowVars
      <3>. QED  BY <2>4, <3>2 DEF SweepRetry, workVars
    <2>. QED  BY <1>3, <2>1, <2>2, <2>3, <2>4 DEF Sweeps
  <1>4. ASSUME NEW s \in Sweepers, SweeperCrash(s) PROVE SentWasMailed'
    BY <1>4 DEF SweeperCrash, rowVars, workVars
  <1>5. ASSUME NEW w \in Workers, NEW e \in Events, Take(w, e) PROVE SentWasMailed'
    BY <1>5 DEF Take, TypeWorkers, rowVars
  <1>6. ASSUME NEW w \in Workers, ClaimEventById(w) PROVE SentWasMailed'
    <2>1. wev[w] \in Events
      BY <1>6 DEF ClaimEventById, TypeWorkers
    <2>2. \A x \in Events : state'[x] = "sent" => state[x] = "sent"
      BY <1>6, <2>1 DEF ClaimEventById, TypeRows, rowVars
    <2>3. wpc'[w] # "mark"
      BY <1>6 DEF ClaimEventById, Moves, Completes, Throws, Leaves, TypeWorkers
    <2>4. \A v \in Workers \ {w} : wpc'[v] = wpc[v] /\ wev'[v] = wev[v]
      BY <1>6 DEF ClaimEventById, Moves, Completes, Throws, Leaves, TypeWorkers
    <2>. QED
      BY <1>6, <2>2, <2>3, <2>4 DEF ClaimEventById
  <1>7. ASSUME NEW w \in Workers, Send(w) PROVE SentWasMailed'
    <2>1. wev[w] \in Events
      BY <1>7 DEF Send, TypeWorkers
    <2>2. mails' = [mails EXCEPT ![wev[w]] = mails[wev[w]] + 1] \/ mails' = mails
      BY <1>7 DEF Send
    <2>3. \A x \in Events : mails[x] > 0 => mails'[x] > 0
      <3>1. \A x \in Events : mails[x] \in Nat
        OBVIOUS
      <3>. QED  BY <2>1, <2>2, <3>1
    <2>4. wpc'[w] = "mark" => mails'[wev[w]] > 0
      <3>1. CASE mails' = [mails EXCEPT ![wev[w]] = mails[wev[w]] + 1]
        <4>1. mails[wev[w]] \in Nat
          BY <2>1
        <4>. QED  BY <2>1, <3>1, <4>1
      <3>2. CASE wpc'[w] = "retry"
        BY <3>2
      <3>. QED  BY <1>7, <3>1, <3>2 DEF Send, Moves, TypeWorkers
    <2>5. wev' = wev /\ \A v \in Workers \ {w} : wpc'[v] = wpc[v]
      BY <1>7 DEF Send, Moves, TypeWorkers
    <2>6. \A v \in Workers : wpc'[v] = "mark" => mails'[wev'[v]] > 0
      <3>. TAKE v \in Workers
      <3>1. CASE v = w
        BY <2>4, <2>5, <3>1
      <3>2. CASE v # w
        BY <2>3, <2>5, <3>2 DEF TypeWorkers
      <3>. QED  BY <3>1, <3>2
    <2>7. state' = state
      BY <1>7 DEF Send, rowVars
    <2>. QED  BY <2>3, <2>6, <2>7
  <1>8. ASSUME NEW w \in Workers, MarkDispatched(w) PROVE SentWasMailed'
    <2>1. wev[w] \in Events /\ mails[wev[w]] > 0
      BY <1>8 DEF MarkDispatched, TypeWorkers
    <2>2. \A x \in Events : state'[x] = "sent" => state[x] = "sent" \/ x = wev[w]
      BY <1>8, <2>1, SettleMakesOneSent DEF MarkDispatched, rowVars
    <2>. QED
      BY <1>8, <2>1, <2>2 DEF MarkDispatched, Completes, Leaves, Moves, TypeWorkers
  <1>9. ASSUME NEW w \in Workers, WorkerRetry(w) PROVE SentWasMailed'
    <2>1. wev[w] \in Events
      BY <1>9 DEF WorkerRetry, TypeWorkers
    <2>2. \A x \in Events : state'[x] = "sent" => state[x] = "sent"
      BY <1>9, <2>1, ReleaseMakesNoneSent DEF WorkerRetry, rowVars
    <2>. QED
      BY <1>9, <2>2 DEF WorkerRetry, Throws, Leaves, TypeWorkers
  <1>10. ASSUME NEW w \in Workers, WorkerCrash(w) PROVE SentWasMailed'
    BY <1>10 DEF WorkerCrash, Leaves, TypeWorkers, rowVars
  <1>11. CASE UNCHANGED vars
    BY <1>11 DEF vars, rowVars, workVars
  <1>. QED
    BY <1>1, <1>2, <1>3, <1>4, <1>5, <1>6, <1>7, <1>8, <1>9, <1>10, <1>11
       DEF Next, Works

\* No row says "sent" before the provider accepted a mail, whatever crashes,
\* redelivers or takes a lease over (sendConfirmationEmail, markDispatched).
THEOREM SentRowsWereMailed == Spec => []SentWasMailed
  <1>1. Init => SentWasMailed
    BY DEF Init, SentWasMailed
  <1>. QED
    BY <1>1, MailStep, OutboxTypeCorrect, PTL DEF Spec

-----------------------------------------------------------------------------
(* What is final *)

\* Only a row that is absent, pending or processing is ever written.
LEMMA TerminalStep ==
    ASSUME TypeOK, [Next]_vars, NEW e \in Events, state[e] \in {"sent", "failed"}
    PROVE  state'[e] = state[e]
  <1>. TypeRows /\ TypeWorkers /\ TypeSweeps
    BY DEF TypeOK
  <1>1. ASSUME NEW x \in Events, NEW o, ReleaseForRetry(x, o) PROVE state'[e] = state[e]
    BY <1>1 DEF ReleaseForRetry, Leased, TypeRows, rowVars
  <1>2. ASSUME NEW x \in Events, NEW o, NEW s, Settle(x, o, s) PROVE state'[e] = state[e]
    BY <1>2 DEF Settle, Leased, TypeRows, rowVars
  <1>3. ASSUME NEW x \in Events, RowStep(x) \/ JobStep(x) PROVE state'[e] = state[e]
    BY <1>3 DEF RowStep, JobStep, Confirm, Elapse, LeaseExpires, Promote, Stall,
                TypeRows, rowVars
  <1>4. ASSUME NEW s \in Sweepers, Sweeps(s) \/ SweeperCrash(s) PROVE state'[e] = state[e]
    <2>1. CASE ClaimDueEvents(s)
      <3>1. e \notin Due
        BY DEF Due, TypeRows
      <3>. QED  BY <2>1, <3>1 DEF ClaimDueEvents
    <2>2. CASE \E x \in Events : Enqueue(s, x)
      BY <2>2 DEF Enqueue, rowVars
    <2>3. CASE ReleaseClaim(s)
      <3>1. sev[s] \in Events
        BY <2>3 DEF ReleaseClaim, TypeSweeps
      <3>. QED  BY <1>2, <2>3, <3>1 DEF ReleaseClaim, rowVars
    <2>4. CASE SweepRetry(s)
      <3>1. sev[s] \in Events
        BY <2>4 DEF SweepRetry, TypeSweeps
      <3>. QED  BY <1>1, <2>4, <3>1 DEF SweepRetry, rowVars
    <2>5. CASE SweeperCrash(s)
      BY <2>5 DEF SweeperCrash, rowVars
    <2>. QED  BY <1>4, <2>1, <2>2, <2>3, <2>4, <2>5 DEF Sweeps
  <1>5. ASSUME NEW w \in Workers,
               Works(w) \/ WorkerCrash(w) \/ \E x \in Events : Take(w, x)
        PROVE  state'[e] = state[e]
    <2>1. CASE ClaimEventById(w)
      BY <2>1 DEF ClaimEventById, TypeRows, rowVars
    <2>2. CASE Send(w)
      BY <2>2 DEF Send, rowVars
    <2>3. CASE MarkDispatched(w)
      <3>1. wev[w] \in Events
        BY <2>3 DEF MarkDispatched, TypeWorkers
      <3>. QED  BY <1>2, <2>3, <3>1 DEF MarkDispatched, rowVars
    <2>4. CASE WorkerRetry(w)
      <3>1. wev[w] \in Events
        BY <2>4 DEF WorkerRetry, TypeWorkers
      <3>. QED  BY <1>1, <2>4, <3>1 DEF WorkerRetry, rowVars
    <2>5. CASE WorkerCrash(w) \/ \E x \in Events : Take(w, x)
      BY <2>5 DEF WorkerCrash, Take, rowVars
    <2>. QED  BY <1>5, <2>1, <2>2, <2>3, <2>4, <2>5 DEF Works
  <1>6. CASE UNCHANGED vars
    BY <1>6 DEF vars, rowVars
  <1>. QED
    BY <1>3, <1>4, <1>5, <1>6 DEF Next

\* A row that was sent or failed for good is never written again, although its
\* deliveries share a lease owner (the predicates of the repository).
THEOREM TerminalRowsAreFinal == Spec => TerminalIsFinal
  <1>1. TypeOK /\ [Next]_vars =>
          [\A e \in Events : state[e] \in {"sent", "failed"} => state'[e] = state[e]]_vars
    BY TerminalStep
  <1>. QED
    BY <1>1, OutboxTypeCorrect, PTL DEF Spec, TerminalIsFinal

-----------------------------------------------------------------------------
(* When a second mail goes out *)

\* As long as nothing about the event is in doubt, one worker at most mails it,
\* under its lease, before any mail was accepted; what it accepts, it marks.
Certain(e) ==
    /\ mails[e] <= 1
    /\ \A w \in Workers : Mailing(w, e) => Leased(e, Mail)
    /\ \A w, x \in Workers : Mailing(w, e) /\ Mailing(x, e) => w = x
    /\ \A w \in Workers : wev[w] = e /\ wpc[w] \in {"send", "retry"} => mails[e] = 0
    /\ mails[e] > 0 =>
           state[e] = "sent" \/ \E w \in Workers : wev[w] = e /\ wpc[w] = "mark"
CertainUnlessUnsure == \A e \in Events \ unsure : Certain(e)

\* The workers on an event stay where they are, or leave it.
WorkersStay(e) == \A w \in Workers : Mailing(w, e)' => Mailing(w, e) /\ wpc'[w] = wpc[w]

\* An event whose row, mails and workers stay.
LEMMA CertainStays ==
    ASSUME NEW e \in Events, Certain(e), WorkersStay(e), mails'[e] = mails[e],
           state'[e] = state[e], owner'[e] = owner[e],
           \A w \in Workers : wev[w] = e /\ wpc[w] = "mark" => wev'[w] = e /\ wpc'[w] = "mark"
    PROVE  Certain(e)'
  BY DEF Certain, WorkersStay, Mailing, Leased

\* An event that nobody mails, and of which no mail was accepted.
LEMMA CertainUnmailed ==
    ASSUME NEW e \in Events, mails'[e] = 0, \A w \in Workers : ~Mailing(w, e)'
    PROVE  Certain(e)'
  <1>1. mails'[e] <= 1 /\ ~(mails'[e] > 0)
    OBVIOUS
  <1>. QED  BY <1>1 DEF Certain

\* A row that is absent, pending, or held by a sweep, is of such an event.
LEMMA NobodyMails ==
    ASSUME NEW e \in Events, Certain(e), mails[e] \in Nat,
           state[e] \in {"absent", "pending"} \/ \E s \in Sweepers : Leased(e, s)
    PROVE  mails[e] = 0 /\ \A w \in Workers : ~Mailing(w, e)
  <1>1. ~Leased(e, Mail) /\ state[e] # "sent"
    BY NamesAssumption DEF Leased
  <1>2. \A w \in Workers : ~Mailing(w, e)
    BY <1>1 DEF Certain
  <1>3. ~(mails[e] > 0)
    BY <1>1, <1>2 DEF Certain, Mailing
  <1>. QED  BY <1>2, <1>3

\* A sweep that gives back the lease of one event touches no other.
LEMMA SweepGivesBack ==
    ASSUME TypeOK, CertainUnlessUnsure, NEW s \in Sweepers, NEW f \in Events,
           Settle(f, s, "pending") \/ ReleaseForRetry(f, s) \/ UNCHANGED rowVars,
           UNCHANGED <<wpc, wev, mails, unsure>>
    PROVE  CertainUnlessUnsure'
  <1>. SUFFICES ASSUME NEW e \in Events \ unsure PROVE Certain(e)'
    BY DEF CertainUnlessUnsure
  <1>0. Certain(e) /\ mails[e] \in Nat
    BY DEF CertainUnlessUnsure, TypeOK
  <1>1. CASE e = f /\ Leased(f, s)
    BY <1>0, <1>1, NobodyMails, CertainUnmailed DEF Mailing
  <1>2. CASE ~(e = f /\ Leased(f, s))
    <2>1. state'[e] = state[e] /\ owner'[e] = owner[e]
      BY <1>2 DEF Settle, ReleaseForRetry, rowVars, TypeOK, TypeRows
    <2>. QED  BY <1>0, <2>1, CertainStays DEF WorkersStay, Mailing
  <1>. QED  BY <1>1, <1>2

\* A worker that leaves its event, or only moves within it, touches no other.
LEMMA OthersStayCertain ==
    ASSUME TypeOK, CertainUnlessUnsure, NEW w \in Workers, NEW e \in Events \ unsure,
           e # wev[w], state'[e] = state[e], owner'[e] = owner[e], mails'[e] = mails[e],
           \A v \in Workers \ {w} : wpc'[v] = wpc[v] /\ wev'[v] = wev[v],
           wev'[w] # e \/ wpc'[w] \in {"idle", "claim"}
    PROVE  Certain(e)'
  <1>1. \A v \in Workers : (Mailing(v, e)' <=> Mailing(v, e)) /\ (Mailing(v, e) => v # w)
    BY DEF Mailing
  <1>2. Certain(e)
    BY DEF CertainUnlessUnsure
  <1>. QED  BY <1>1, <1>2, CertainStays DEF WorkersStay, Mailing

\* The claim is of a pending row, which nobody mails.
LEMMA ClaimKeepsCertain ==
    ASSUME TypeOK, CertainUnlessUnsure, NEW w \in Workers, ClaimEventById(w)
    PROVE  CertainUnlessUnsure'
  <1>. SUFFICES ASSUME NEW e \in Events \ unsure PROVE Certain(e)'
    BY DEF ClaimEventById, CertainUnlessUnsure
  <1>1. /\ wpc[w] = "claim" /\ UNCHANGED <<mails, unsure>> /\ mails[e] \in Nat
        /\ Certain(e) /\ wev[w] \in Events
        /\ \A v \in Workers \ {w} : wpc'[v] = wpc[v] /\ wev'[v] = wev[v]
    BY DEF ClaimEventById, Moves, Completes, Throws, Leaves, CertainUnlessUnsure, TypeOK,
       TypeWorkers
  <1>2. \/ wpc'[w] = "idle" /\ wev'[w] = NoEvent
        \/ /\ wpc'[w] = "send" /\ wev'[w] = wev[w] /\ state[wev[w]] = "pending"
           /\ state'[wev[w]] = "processing" /\ owner'[wev[w]] = Mail
    BY DEF ClaimEventById, Moves, Completes, Throws, Leaves, TypeOK, TypeWorkers, TypeRows
  <1>3. \A f \in Events : f # wev[w] => state'[f] = state[f] /\ owner'[f] = owner[f]
    BY DEF ClaimEventById, TypeOK, TypeRows, rowVars
  <1>4. CASE e # wev[w]
    BY <1>1, <1>2, <1>3, <1>4, OthersStayCertain
  <1>5. CASE e = wev[w] /\ state[e] = "pending"
    <2>1. mails[e] = 0 /\ \A v \in Workers : ~Mailing(v, e)
      BY <1>1, <1>5, NobodyMails
    <2>2. mails'[e] <= 1 /\ ~(mails'[e] > 0) /\ mails'[e] = 0
      BY <1>1, <2>1
    <2>3. \A v \in Workers : Mailing(v, e)' => v = w /\ Leased(e, Mail)'
      BY <1>1, <1>2, <1>5, <2>1 DEF Mailing, Leased
    <2>. QED  BY <2>2, <2>3 DEF Certain
  <1>6. CASE e = wev[w] /\ state[e] # "pending"
    <2>1. state' = state /\ owner' = owner /\ wpc'[w] = "idle"
      BY <1>6 DEF ClaimEventById, rowVars, Completes, Throws, Leaves, TypeOK, TypeWorkers
    <2>2. WorkersStay(e) /\ \A v \in Workers :
              wev[v] = e /\ wpc[v] = "mark" => wev'[v] = e /\ wpc'[v] = "mark"
      BY <1>1, <2>1 DEF WorkersStay, Mailing
    <2>. QED  BY <1>1, <2>1, <2>2, CertainStays
  <1>. QED  BY <1>4, <1>5, <1>6

\* The mail is the first: the worker at "send" is alone and no mail was accepted.
LEMMA SendKeepsCertain ==
    ASSUME TypeOK, CertainUnlessUnsure, NEW w \in Workers, Send(w)
    PROVE  CertainUnlessUnsure'
  <1>. SUFFICES ASSUME NEW e \in Events \ unsure' PROVE Certain(e)'
    BY DEF CertainUnlessUnsure
  <1>1. /\ wpc[w] = "send" /\ UNCHANGED <<state, owner, wev>> /\ mails[e] \in Nat
        /\ e \notin unsure /\ Certain(e) /\ wev[w] \in Events
        /\ \A v \in Workers \ {w} : wpc'[v] = wpc[v]
    BY DEF Send, Moves, rowVars, CertainUnlessUnsure, TypeOK, TypeWorkers
  <1>2. \/ mails' = [mails EXCEPT ![wev[w]] = @ + 1] /\ wpc'[w] = "mark"
        \/ mails' = mails /\ wpc'[w] = "retry"
        \/ /\ mails' = [mails EXCEPT ![wev[w]] = @ + 1] /\ wpc'[w] = "retry"
           /\ unsure' = unsure \union {wev[w]}
    BY DEF Send, Moves, TypeOK, TypeWorkers
  <1>3. CASE e # wev[w]
    <2>1. mails'[e] = mails[e]
      BY <1>1, <1>2, <1>3 DEF TypeOK
    <2>2. WorkersStay(e) /\ \A v \in Workers :
              wev[v] = e /\ wpc[v] = "mark" => wev'[v] = e /\ wpc'[v] = "mark"
      BY <1>1, <1>3 DEF WorkersStay, Mailing
    <2>. QED  BY <1>1, <2>1, <2>2, CertainStays
  <1>4. CASE e = wev[w]
    <2>1. mails[e] = 0 /\ Mailing(w, e) /\ Leased(e, Mail)'
      BY <1>1, <1>4 DEF Certain, Mailing, Leased
    <2>2. \A v \in Workers : Mailing(v, e)' => v = w
      BY <1>1, <2>1 DEF Certain, Mailing
    <2>3. \/ mails'[e] = 1 /\ wpc'[w] = "mark"
          \/ mails'[e] = 0 /\ wpc'[w] = "retry"
      <3>1. CASE mails' = [mails EXCEPT ![wev[w]] = @ + 1] /\ wpc'[w] = "mark"
        <4>1. mails'[e] = mails[e] + 1
          BY <1>4, <3>1 DEF TypeOK
        <4>2. mails[e] = 0
          BY <2>1
        <4>3. mails'[e] = 1
          BY <4>1, <4>2
        <4>. QED  BY <3>1, <4>3
      <3>2. CASE mails' = mails /\ wpc'[w] = "retry"
        BY <2>1, <3>2
      <3>. QED  BY <1>2, <1>4, <3>1, <3>2
    <2>4. mails'[e] <= 1 /\ (mails'[e] > 0 => wpc'[w] = "mark")
      BY <2>3
    <2>5. \A v \in Workers : wev'[v] = e /\ wpc'[v] \in {"send", "retry"} => mails'[e] = 0
      BY <1>1, <2>2, <2>3 DEF Mailing
    <2>6. mails'[e] > 0 => \E v \in Workers : wev'[v] = e /\ wpc'[v] = "mark"
      BY <1>1, <1>4, <2>4
    <2>. QED  BY <2>1, <2>2, <2>4, <2>5, <2>6 DEF Certain
  <1>. QED  BY <1>3, <1>4

\* Marking makes the row say what was mailed, or puts the event in doubt.
LEMMA MarkKeepsCertain ==
    ASSUME TypeOK, CertainUnlessUnsure, NEW w \in Workers, MarkDispatched(w)
    PROVE  CertainUnlessUnsure'
  <1>. SUFFICES ASSUME NEW e \in Events \ unsure' PROVE Certain(e)'
    BY DEF CertainUnlessUnsure
  <1>1. /\ wpc[w] = "mark" /\ UNCHANGED mails
        /\ e \notin unsure /\ Certain(e) /\ wev[w] \in Events
        /\ \A v \in Workers \ {w} : wpc'[v] = wpc[v] /\ wev'[v] = wev[v]
    BY DEF MarkDispatched, Moves, Completes, Leaves, CertainUnlessUnsure, TypeOK, TypeWorkers
  <1>2. \A f \in Events : f # wev[w] => state'[f] = state[f] /\ owner'[f] = owner[f]
    BY DEF MarkDispatched, Settle, TypeOK, TypeRows, rowVars
  <1>3. CASE e # wev[w]
    <2>1. wev'[w] # e \/ wpc'[w] \in {"idle", "claim"}
      BY <1>3 DEF MarkDispatched, Moves, Completes, Leaves, TypeOK, TypeWorkers
    <2>. QED  BY <1>1, <1>2, <1>3, <2>1, OthersStayCertain
  <1>4. CASE e = wev[w]
    <2>1. Leased(e, Mail) /\ \A v \in Workers : Mailing(v, e) => v = w
      BY <1>1, <1>4 DEF Certain, Mailing
    <2>2. Settle(e, Mail, "sent") /\ wpc'[w] = "idle"
      BY <1>1, <1>4 DEF MarkDispatched, Completes, Leaves, TypeOK, TypeWorkers
    <2>3. state'[e] = "sent"
      BY <1>1, <1>4, <2>1, <2>2 DEF Settle, TypeOK, TypeRows
    <2>4. \A v \in Workers : ~Mailing(v, e)'
      BY <1>1, <2>1, <2>2 DEF Mailing
    <2>. QED  BY <1>1, <2>3, <2>4 DEF Certain, Mailing
  <1>. QED  BY <1>3, <1>4

\* A worker that gives up before any mail was accepted, or dies.
LEMMA LeavingKeepsCertain ==
    ASSUME TypeOK, CertainUnlessUnsure, NEW w \in Workers, WorkerRetry(w) \/ WorkerCrash(w)
    PROVE  CertainUnlessUnsure'
  <1>. SUFFICES ASSUME NEW e \in Events \ unsure' PROVE Certain(e)'
    BY DEF CertainUnlessUnsure
  <1>1. /\ wpc[w] # "idle" /\ wpc'[w] = "idle" /\ UNCHANGED mails /\ mails[e] \in Nat
        /\ e \notin unsure /\ Certain(e) /\ wev[w] \in Events
        /\ \A v \in Workers \ {w} : wpc'[v] = wpc[v] /\ wev'[v] = wev[v]
    BY DEF WorkerRetry, WorkerCrash, Throws, Leaves, CertainUnlessUnsure, TypeOK, TypeWorkers
  <1>2. \A f \in Events : f # wev[w] => state'[f] = state[f] /\ owner'[f] = owner[f]
    BY DEF WorkerRetry, WorkerCrash, ReleaseForRetry, TypeOK, TypeRows, rowVars
  <1>3. CASE e # wev[w]
    BY <1>1, <1>2, <1>3, OthersStayCertain
  <1>4. CASE e = wev[w] /\ Mailing(w, e)
    <2>1. wpc[w] \in {"send", "retry"}
      BY <1>1, <1>4 DEF WorkerRetry, WorkerCrash, Mailing
    <2>2. mails[e] = 0
      BY <1>1, <1>4, <2>1 DEF Certain
    <2>3. \A v \in Workers : Mailing(v, e) => v = w
      BY <1>1, <1>4 DEF Certain
    <2>. QED  BY <1>1, <2>2, <2>3, CertainUnmailed DEF Mailing
  <1>5. CASE e = wev[w] /\ ~Mailing(w, e)
    <2>1. wpc[w] = "claim" /\ UNCHANGED rowVars
      BY <1>1, <1>5 DEF WorkerRetry, WorkerCrash, Mailing, TypeOK, TypeWorkers
    <2>2. WorkersStay(e) /\ \A v \in Workers :
              wev[v] = e /\ wpc[v] = "mark" => wev'[v] = e /\ wpc'[v] = "mark"
      BY <1>1, <2>1 DEF WorkersStay, Mailing
    <2>. QED  BY <1>1, <2>1, <2>2, CertainStays DEF rowVars
  <1>. QED  BY <1>3, <1>4, <1>5

LEMMA CertainStep == TypeOK /\ CertainUnlessUnsure /\ [Next]_vars => CertainUnlessUnsure'
  <1>. SUFFICES ASSUME TypeOK, CertainUnlessUnsure, [Next]_vars PROVE CertainUnlessUnsure'
    OBVIOUS
  <1>1. ASSUME UNCHANGED <<state, owner, wpc, wev, mails, unsure>>
        PROVE  CertainUnlessUnsure'
    <2>. SUFFICES ASSUME NEW e \in Events \ unsure PROVE Certain(e)'
      BY <1>1 DEF CertainUnlessUnsure
    <2>. QED  BY <1>1, CertainStays DEF CertainUnlessUnsure, WorkersStay, Mailing
  <1>2. ASSUME NEW f \in Events, RowStep(f) PROVE CertainUnlessUnsure'
    <2>1. CASE Confirm(f)
      <3>. SUFFICES ASSUME NEW e \in Events \ unsure PROVE Certain(e)'
        BY <2>1 DEF Confirm, CertainUnlessUnsure
      <3>1. Certain(e) /\ mails[e] \in Nat /\ UNCHANGED <<wpc, wev, mails, owner>>
        BY <2>1 DEF Confirm, CertainUnlessUnsure, TypeOK, workVars
      <3>2. CASE e = f
        BY <2>1, <3>1, <3>2, NobodyMails, CertainUnmailed DEF Confirm, Mailing
      <3>3. CASE e # f
        BY <2>1, <3>1, <3>3, CertainStays DEF Confirm, WorkersStay, Mailing, TypeOK, TypeRows
      <3>. QED  BY <3>2, <3>3
    <2>2. CASE Elapse(f) \/ LeaseExpires(f)
      BY <1>1, <2>2 DEF Elapse, LeaseExpires, workVars
    <2>. QED  BY <1>2, <2>1, <2>2 DEF RowStep
  <1>3. ASSUME NEW f \in Events, JobStep(f) PROVE CertainUnlessUnsure'
    BY <1>1, <1>3 DEF JobStep, Promote, Stall, rowVars, workVars
  <1>4. ASSUME NEW s \in Sweepers, Sweeps(s) \/ SweeperCrash(s) PROVE CertainUnlessUnsure'
    <2>1. CASE ClaimDueEvents(s)
      <3>. SUFFICES ASSUME NEW e \in Events \ unsure' PROVE Certain(e)'
        BY DEF CertainUnlessUnsure
      <3>1. /\ e \notin unsure /\ Certain(e) /\ mails[e] \in Nat
            /\ UNCHANGED <<wpc, wev, mails>>
        BY <2>1 DEF ClaimDueEvents, CertainUnlessUnsure, TypeOK, workVars
      <3>2. CASE e \in Due
        <4>1. \A w \in Workers : ~Mailing(w, e)
          BY <2>1, <3>2 DEF ClaimDueEvents
        <4>2. state[e] # "sent"
          BY <3>2 DEF Due, TypeOK, TypeRows
        <4>3. ~(mails[e] > 0)
          BY <3>1, <4>1, <4>2 DEF Certain, Mailing
        <4>4. mails'[e] = 0
          BY <3>1, <4>3
        <4>. QED  BY <3>1, <4>1, <4>4, CertainUnmailed DEF Mailing
      <3>3. CASE e \notin Due
        BY <2>1, <3>1, <3>3, CertainStays DEF ClaimDueEvents, WorkersStay, Mailing
      <3>. QED  BY <3>2, <3>3
    <2>2. CASE (\E e \in Events : Enqueue(s, e)) \/ SweeperCrash(s)
      BY <1>1, <2>2 DEF Enqueue, SweeperCrash, rowVars, workVars
    <2>3. CASE ReleaseClaim(s) \/ SweepRetry(s)
      <3>1. sev[s] \in Events
        BY <2>3 DEF ReleaseClaim, SweepRetry, TypeOK, TypeSweeps
      <3>2. UNCHANGED <<wpc, wev, mails, unsure>>
        BY <2>3 DEF ReleaseClaim, SweepRetry, workVars
      <3>3. \/ Settle(sev[s], s, "pending") \/ ReleaseForRetry(sev[s], s) \/ UNCHANGED rowVars
        BY <2>3 DEF ReleaseClaim, SweepRetry
      <3>. QED  BY <3>1, <3>2, <3>3, SweepGivesBack
    <2>. QED  BY <1>4, <2>1, <2>2, <2>3 DEF Sweeps
  <1>5. ASSUME NEW w \in Workers, NEW f \in Events, Take(w, f) PROVE CertainUnlessUnsure'
    <2>. SUFFICES ASSUME NEW e \in Events \ unsure PROVE Certain(e)'
      BY <1>5 DEF Take, CertainUnlessUnsure
    <2>1. /\ wpc[w] = "idle" /\ wpc'[w] = "claim" /\ UNCHANGED <<state, owner, mails>>
          /\ \A v \in Workers \ {w} : wpc'[v] = wpc[v] /\ wev'[v] = wev[v]
          /\ Certain(e)
      BY <1>5 DEF Take, TypeOK, TypeWorkers, rowVars, CertainUnlessUnsure
    <2>2. WorkersStay(e) /\ \A v \in Workers :
              wev[v] = e /\ wpc[v] = "mark" => wev'[v] = e /\ wpc'[v] = "mark"
      BY <2>1 DEF WorkersStay, Mailing
    <2>. QED  BY <2>1, <2>2, CertainStays
  <1>6. ASSUME NEW w \in Workers, Works(w) \/ WorkerCrash(w) PROVE CertainUnlessUnsure'
    BY <1>6, ClaimKeepsCertain, SendKeepsCertain, MarkKeepsCertain, LeavingKeepsCertain
    DEF Works
  <1>7. CASE UNCHANGED vars
    BY <1>1, <1>7 DEF vars, rowVars, workVars
  <1>. QED  BY <1>2, <1>3, <1>4, <1>5, <1>6, <1>7 DEF Next

\* A customer is mailed again only when a mail was accepted and the row never
\* learnt it, or a lease was taken from a live worker (claimEventById admits one
\* worker to a row, and markDispatched ends it).
THEOREM SecondMailsNeedDoubt == Spec => []SecondMailNeedsDoubt
  <1>1. Init => CertainUnlessUnsure
    <2>. SUFFICES ASSUME Init, NEW e \in Events PROVE Certain(e)
      BY DEF CertainUnlessUnsure
    <2>1. mails[e] = 0 /\ \A w \in Workers : wpc[w] = "idle"
      BY DEF Init
    <2>2. mails[e] <= 1 /\ ~(mails[e] > 0)
      BY <2>1
    <2>. QED  BY <2>1, <2>2 DEF Certain, Mailing
  <1>2. TypeOK /\ CertainUnlessUnsure => SecondMailNeedsDoubt
    <2>. SUFFICES ASSUME TypeOK, CertainUnlessUnsure, NEW e \in Events \ unsure
                  PROVE  ~(mails[e] > 1)
      BY DEF SecondMailNeedsDoubt
    <2>1. mails[e] \in Nat /\ mails[e] <= 1
      BY DEF CertainUnlessUnsure, Certain, TypeOK
    <2>. QED  BY <2>1
  <1>. QED  BY <1>1, <1>2, CertainStep, OutboxTypeCorrect, PTL DEF Spec

-----------------------------------------------------------------------------
(* How many mails go out *)

\* The mails that the deliveries of the event's job until now allow for: one for
\* each try, for the redelivery after the stall, and for the delivery in hand.
Redelivered(e) == IF e \in stalled THEN 1 ELSE 0
Deliveries(e) ==
    IF job[e] = "none" THEN 0
    ELSE IF job[e] = "failed" THEN JobTries + 1
    ELSE tries[e] + Redelivered(e) + (IF job[e] \in {"waiting", "delayed"} THEN 0 ELSE 1)

\* A worker that may still mail; it lags if the job is no longer in its hands.
MayMail(w, e) == wev[w] = e /\ wpc[w] \in {"claim", "send"}
Lags(w, e) == MayMail(w, e) /\ job[e] # w

\* There is a delivery for every mail accepted and every mail that may follow.
MailsFit(e) ==
    /\ mails[e] <= Deliveries(e)
    /\ \A w \in Workers : MayMail(w, e) => mails[e] + 1 <= Deliveries(e)
    /\ \A w, x \in Workers :
           MayMail(w, e) /\ MayMail(x, e) /\ w # x => mails[e] + 2 <= Deliveries(e)
\* A worker lags only by a stall, and the second stall ends the job.
FewLag(e) ==
    /\ \A w \in Workers : Lags(w, e) => e \in stalled
    /\ \A w, x \in Workers : Lags(w, e) /\ Lags(x, e) /\ w # x => job[e] = "failed"
    /\ \A w, x, y \in Workers : MayMail(w, e) /\ MayMail(x, e) /\ MayMail(y, e)
                                    => w = x \/ x = y \/ w = y
Paced(e) == MailsFit(e) /\ FewLag(e)
MailsPaced == \A e \in Events : Paced(e)

\* The numbers compared are numbers, and the tries leave room for one more.
Counted(e) ==
    /\ mails[e] \in Nat /\ tries[e] \in Nat /\ Deliveries(e) \in Nat
    /\ Redelivered(e) \in {0, 1}
    /\ Deliveries(e) <= JobTries + 1
LEMMA DeliveriesCount == TypeOK => \A e \in Events : Counted(e)
  <1>. SUFFICES ASSUME TypeOK, NEW e \in Events PROVE Counted(e)
    OBVIOUS
  <1>1. /\ mails[e] \in Nat /\ tries[e] \in Nat /\ JobTries \in Nat
        /\ tries[e] <= JobTries
        /\ job[e] # "failed" => tries[e] < JobTries
    <2>1. mails[e] \in Nat /\ tries[e] \in 0..JobTries /\ JobTries \in Nat
      BY OutboxAssumption DEF TypeOK, TypeJobs
    <2>. QED  BY <2>1 DEF TypeOK, TypeJobs
  <1>2. Redelivered(e) \in {0, 1}
    BY DEF Redelivered
  <1>3. CASE job[e] \in {"none", "failed"}
    BY <1>1, <1>2, <1>3 DEF Deliveries, Counted
  <1>4. CASE job[e] \in {"waiting", "delayed"}
    <2>1. Deliveries(e) = tries[e] + Redelivered(e) /\ tries[e] < JobTries
      BY <1>1, <1>2, <1>4 DEF Deliveries
    <2>. QED  BY <1>1, <1>2, <2>1 DEF Counted
  <1>5. CASE job[e] \notin {"none", "failed", "waiting", "delayed"}
    <2>1. Deliveries(e) = tries[e] + Redelivered(e) + 1 /\ tries[e] < JobTries
      BY <1>1, <1>5 DEF Deliveries
    <2>. QED  BY <1>1, <1>2, <2>1 DEF Counted
  <1>. QED  BY <1>3, <1>4, <1>5

LEMMA DeliveriesCountAfter == TypeOK' => (\A e \in Events : Counted(e))'
  BY DeliveriesCount, PTL

\* No worker sets out to mail the event, none is left behind, and the job allows
\* for as many mails as before: sweeps, completions, failures and crashes.
LEMMA PacedStays ==
    ASSUME TypeOK, TypeOK', NEW e \in Events, Paced(e), mails'[e] = mails[e],
           Deliveries(e) <= Deliveries(e)', e \in stalled => e \in stalled',
           job[e] = "failed" => job'[e] = "failed",
           \A w \in Workers : MayMail(w, e)' => MayMail(w, e),
           \A w \in Workers : Lags(w, e)' => Lags(w, e)
    PROVE  Paced(e)'
  <1>1. /\ mails[e] \in Nat /\ Deliveries(e) \in Nat /\ Deliveries(e)' \in Nat
    BY DeliveriesCount, DeliveriesCountAfter DEF Counted
  <1>2. MailsFit(e)'
    BY <1>1 DEF Paced, MailsFit
  <1>3. FewLag(e)'
    BY DEF Paced, FewLag
  <1>. QED  BY <1>2, <1>3 DEF Paced

\* A worker that takes the job has a delivery of its own, the one more that a job in
\* hand stands for; at most one other lags.
LEMMA TakeKeepsPaced ==
    ASSUME TypeOK, TypeOK', NEW w \in Workers, NEW f \in Events, Take(w, f),
           NEW e \in Events, Paced(e)
    PROVE  Paced(e)'
  <1>1. /\ wpc[w] = "idle" /\ job[f] = "waiting" /\ wpc'[w] = "claim" /\ wev'[w] = f
        /\ job' = [job EXCEPT ![f] = w] /\ UNCHANGED <<tries, stalled, mails>>
        /\ \A x \in Workers \ {w} : wpc'[x] = wpc[x] /\ wev'[x] = wev[x]
    BY DEF Take, TypeOK, TypeWorkers
  <1>2. /\ mails[e] \in Nat /\ Deliveries(e) \in Nat /\ Deliveries(e)' \in Nat
        /\ tries[e] \in Nat /\ Redelivered(e) \in {0, 1}
    BY DeliveriesCount, DeliveriesCountAfter DEF Counted
  <1>3. CASE e # f
    <2>1. job'[e] = job[e]
      BY <1>1, <1>3 DEF TypeOK, TypeJobs
    <2>2. \A x \in Workers : (MayMail(x, e)' => MayMail(x, e)) /\ (Lags(x, e)' => Lags(x, e))
      BY <1>1, <1>3, <2>1 DEF MayMail, Lags
    <2>3. Deliveries(e)' = Deliveries(e)
      BY <1>1, <2>1 DEF Deliveries, Redelivered
    <2>. QED  BY <1>1, <1>2, <2>1, <2>2, <2>3, PacedStays
  <1>4. CASE e = f
    <2>1. job'[e] = w /\ job'[e] # "failed" /\ ~MayMail(w, e)
      BY <1>1, <1>4, NamesAssumption DEF TypeOK, TypeJobs, MayMail
    <2>2. \A x \in Workers : MayMail(x, e)' => x = w \/ MayMail(x, e)
      BY <1>1 DEF MayMail
    <2>3. \A x \in Workers : MayMail(x, e) => Lags(x, e)
      BY <1>1, <1>4, NamesAssumption DEF Lags
    <2>4. \A x \in Workers : Lags(x, e)' => Lags(x, e)
      BY <2>1, <2>2, <2>3 DEF Lags
    <2>5. \A x, y \in Workers : MayMail(x, e) /\ MayMail(y, e) => x = y
      BY <1>1, <1>4, <2>3 DEF Paced, FewLag
    <2>6. Deliveries(e)' = Deliveries(e) + 1
      <3>1. Deliveries(e) = tries[e] + Redelivered(e)
        BY <1>1, <1>2, <1>4 DEF Deliveries
      <3>2. job'[e] \notin {"none", "failed", "waiting", "delayed"}
        BY <2>1, NamesAssumption
      <3>3. Deliveries(e)' = tries[e] + Redelivered(e) + 1
        BY <1>1, <3>2 DEF Deliveries, Redelivered
      <3>. QED  BY <3>1, <3>3
    <2>7. MailsFit(e)'
      <3>1. mails'[e] = mails[e] /\ mails[e] <= Deliveries(e)
        BY <1>1 DEF Paced, MailsFit
      <3>2. \A x \in Workers : MayMail(x, e) => mails[e] + 1 <= Deliveries(e)
        BY DEF Paced, MailsFit
      <3>3. \A x, y \in Workers : MayMail(x, e)' /\ MayMail(y, e)' /\ x # y =>
                mails[e] + 1 <= Deliveries(e)
        BY <2>2, <2>5, <3>2
      <3>. QED  BY <1>2, <2>6, <3>1, <3>3 DEF MailsFit
    <2>8. FewLag(e)'
      BY <1>1, <2>1, <2>2, <2>4, <2>5, <2>3 DEF Paced, FewLag
    <2>. QED  BY <2>7, <2>8 DEF Paced
  <1>. QED  BY <1>3, <1>4

\* A delivery that ends gives its job no more mails than it was counted for: a thrown
\* one is counted as a try, a completed or failed job is taken by nobody.
LEMMA EndingKeepsPaced ==
    ASSUME TypeOK, TypeOK', NEW w \in Workers, wpc[w] # "idle",
           Completes(w) \/ Throws(w), UNCHANGED mails, NEW e \in Events, Paced(e)
    PROVE  Paced(e)'
  <1>1. /\ wpc'[w] = "idle" /\ stalled' = stalled /\ wev[w] \in Events
        /\ \A x \in Workers \ {w} : wpc'[x] = wpc[x] /\ wev'[x] = wev[x]
    BY DEF Completes, Throws, Leaves, TypeOK, TypeWorkers
  <1>2. \A x \in Workers : MayMail(x, e)' => MayMail(x, e) /\ x # w
    BY <1>1 DEF MayMail
  <1>3. CASE e = wev[w] /\ Holds(w)
    <2>1. job[e] = w /\ job[e] \notin JobStates
      BY <1>3, NamesAssumption DEF Holds
    <2>2. \A x \in Workers : Lags(x, e)' => Lags(x, e)
      BY <1>2, <2>1 DEF Lags
    <2>3. /\ Deliveries(e) = tries[e] + Redelivered(e) + 1 /\ tries[e] < JobTries
          /\ tries[e] \in Nat /\ Redelivered(e) \in {0, 1}
      BY <2>1, DeliveriesCount DEF Deliveries, Counted, TypeOK, TypeJobs
    <2>4. \/ job'[e] = "completed" /\ tries'[e] = tries[e]
          \/ job'[e] = "delayed" /\ tries'[e] = tries[e] + 1
          \/ job'[e] = "failed"
      BY <1>1, <1>3 DEF Completes, Throws, TypeOK, TypeJobs
    <2>5. Redelivered(e)' = Redelivered(e)
      BY <1>1 DEF Redelivered
    <2>6. \/ Deliveries(e)' = tries[e] + Redelivered(e) + 1
          \/ Deliveries(e)' = tries[e] + 1 + Redelivered(e)
          \/ Deliveries(e)' = JobTries + 1
      BY <2>3, <2>4, <2>5 DEF Deliveries
    <2>7. Deliveries(e) <= Deliveries(e)'
      <3>1. JobTries \in Nat
        BY OutboxAssumption
      <3>2. CASE Deliveries(e)' = JobTries + 1
        BY <2>3, <3>1, <3>2
      <3>3. CASE Deliveries(e)' # JobTries + 1
        BY <2>3, <2>6, <3>3
      <3>. QED  BY <3>2, <3>3
    <2>. QED  BY <1>1, <1>2, <2>1, <2>2, <2>7, PacedStays
  <1>4. CASE ~(e = wev[w] /\ Holds(w))
    <2>1. job'[e] = job[e] /\ tries'[e] = tries[e]
      BY <1>1, <1>4 DEF Completes, Throws, TypeOK, TypeJobs
    <2>2. Deliveries(e)' = Deliveries(e)
      BY <1>1, <2>1 DEF Deliveries, Redelivered
    <2>3. Deliveries(e) \in Nat
      BY DeliveriesCount DEF Counted
    <2>4. \A x \in Workers : Lags(x, e)' => Lags(x, e)
      BY <1>2, <2>1 DEF Lags
    <2>. QED  BY <1>1, <1>2, <2>1, <2>2, <2>3, <2>4, PacedStays
  <1>. QED  BY <1>3, <1>4

\* The first stall gives the job a second delivery and leaves one worker behind; the
\* second leaves another behind, but the job has failed.
LEMMA StallKeepsPaced ==
    ASSUME TypeOK, TypeOK', NEW f \in Events, Stall(f), NEW e \in Events, Paced(e)
    PROVE  Paced(e)'
  <1>1. /\ UNCHANGED <<tries, wpc, wev, mails>> /\ job[f] \in Workers
        /\ job' = [job EXCEPT ![f] = IF f \in stalled THEN "failed" ELSE "waiting"]
        /\ stalled' = stalled \union {f}
    BY DEF Stall, workVars
  <1>2. \A x \in Workers : MayMail(x, e)' <=> MayMail(x, e)
    BY <1>1 DEF MayMail
  <1>3. Counted(e) /\ Counted(e)'
    BY DeliveriesCount, DeliveriesCountAfter
  <1>4. CASE e # f
    <2>1. job'[e] = job[e] /\ (e \in stalled' <=> e \in stalled)
      BY <1>1, <1>4 DEF TypeOK, TypeJobs
    <2>2. Deliveries(e)' = Deliveries(e)
      BY <1>1, <2>1 DEF Deliveries, Redelivered
    <2>3. \A x \in Workers : Lags(x, e)' => Lags(x, e)
      BY <1>2, <2>1 DEF Lags
    <2>4. Deliveries(e) \in Nat
      BY <1>3 DEF Counted
    <2>. QED  BY <1>1, <1>2, <2>1, <2>2, <2>3, <2>4, PacedStays
  <1>5. CASE e = f
    <2>1. job[e] \notin JobStates /\ e \in stalled'
      BY <1>1, <1>5, NamesAssumption
    <2>2. Deliveries(e) <= Deliveries(e)'
      <3>1. CASE e \in stalled
        <4>1. job'[e] = "failed"
          BY <1>1, <1>5, <3>1 DEF TypeOK, TypeJobs
        <4>2. Deliveries(e)' = JobTries + 1
          BY <4>1 DEF Deliveries
        <4>. QED  BY <1>3, <4>2 DEF Counted
      <3>2. CASE e \notin stalled
        <4>1. job'[e] = "waiting"
          BY <1>1, <1>5, <3>2 DEF TypeOK, TypeJobs
        <4>2. Deliveries(e)' = tries[e] + 1 + 0
          BY <1>1, <2>1, <4>1 DEF Deliveries, Redelivered
        <4>3. Deliveries(e) = tries[e] + 0 + 1
          BY <2>1, <3>2 DEF Deliveries, Redelivered
        <4>. QED  BY <1>3, <4>2, <4>3 DEF Counted
      <3>. QED  BY <3>1, <3>2
    <2>3. MailsFit(e)'
      BY <1>1, <1>2, <1>3, <2>2 DEF Paced, MailsFit, Counted
    <2>4. \A x, y \in Workers : Lags(x, e)' /\ Lags(y, e)' /\ x # y => job'[e] = "failed"
      <3>. SUFFICES ASSUME NEW x \in Workers, NEW y \in Workers,
                           Lags(x, e)', Lags(y, e)', x # y
                    PROVE  e \in stalled
        BY <1>1, <1>5 DEF TypeOK, TypeJobs
      <3>1. Lags(x, e) \/ Lags(y, e)
        BY <1>2 DEF Lags
      <3>. QED  BY <3>1 DEF Paced, FewLag
    <2>. QED  BY <1>2, <2>1, <2>3, <2>4 DEF Paced, FewLag
  <1>. QED  BY <1>4, <1>5

\* The mail that goes out was allowed for, and so is one of another worker.
LEMMA SendKeepsPaced ==
    ASSUME TypeOK, TypeOK', NEW w \in Workers, Send(w), NEW e \in Events, Paced(e)
    PROVE  Paced(e)'
  <1>1. /\ wpc[w] = "send" /\ wpc'[w] \in {"mark", "retry"} /\ wev[w] \in Events
        /\ UNCHANGED <<wev, job, tries, stalled>>
        /\ \A x \in Workers \ {w} : wpc'[x] = wpc[x]
        /\ mails' = mails \/ mails' = [mails EXCEPT ![wev[w]] = @ + 1]
    BY DEF Send, Moves, queueVars, TypeOK, TypeWorkers
  <1>2. \A x \in Workers : MayMail(x, e)' => MayMail(x, e) /\ x # w
    BY <1>1 DEF MayMail
  <1>3. Deliveries(e)' = Deliveries(e) /\ Deliveries(e) \in Nat /\ mails[e] \in Nat
    BY <1>1, DeliveriesCount DEF Deliveries, Redelivered, Counted
  <1>4. \A x \in Workers : Lags(x, e)' => Lags(x, e)
    BY <1>1, <1>2 DEF Lags
  <1>5. CASE mails'[e] = mails[e]
    BY <1>1, <1>2, <1>3, <1>4, <1>5, PacedStays
  <1>6. CASE mails'[e] # mails[e]
    <2>1. e = wev[w] /\ mails'[e] = mails[e] + 1 /\ MayMail(w, e)
      BY <1>1, <1>6 DEF TypeOK, MayMail
    <2>2. mails[e] + 1 <= Deliveries(e)
      BY <2>1 DEF Paced, MailsFit
    <2>3. \A x \in Workers : MayMail(x, e)' => mails[e] + 2 <= Deliveries(e)
      BY <1>2, <2>1 DEF Paced, MailsFit
    <2>4. \A x, y \in Workers : MayMail(x, e)' /\ MayMail(y, e)' => x = y
      BY <1>2, <2>1 DEF Paced, FewLag
    <2>5. MailsFit(e)'
      BY <1>3, <2>1, <2>2, <2>3, <2>4 DEF MailsFit
    <2>6. FewLag(e)'
      BY <1>1, <1>2, <1>4 DEF Paced, FewLag
    <2>. QED  BY <2>5, <2>6 DEF Paced
  <1>. QED  BY <1>5, <1>6

LEMMA PacedStep == TypeOK /\ TypeOK' /\ MailsPaced /\ [Next]_vars => MailsPaced'
  <1>. SUFFICES ASSUME TypeOK, TypeOK', MailsPaced, [Next]_vars, NEW e \in Events
                PROVE  Paced(e)'
    BY DEF MailsPaced
  <1>0. Paced(e) /\ Counted(e)
    BY DeliveriesCount DEF MailsPaced
  <1>1. ASSUME UNCHANGED <<stalled, wpc, wev, mails>>, job[e] \notin Workers \/ job'[e] = job[e],
               job'[e] = "failed" <=> job[e] = "failed", Deliveries(e) <= Deliveries(e)'
        PROVE  Paced(e)'
    <2>1. \A w \in Workers : MayMail(w, e)' => MayMail(w, e)
      BY <1>1 DEF MayMail
    <2>2. \A w \in Workers : Lags(w, e)' => Lags(w, e)
      BY <1>1, <2>1 DEF Lags
    <2>. QED  BY <1>0, <1>1, <2>1, <2>2, PacedStays
  <1>2. ASSUME UNCHANGED <<job, tries, stalled, wpc, wev, mails>> PROVE Paced(e)'
    <2>1. Deliveries(e)' = Deliveries(e) /\ Deliveries(e) \in Nat
      BY <1>0, <1>2 DEF Deliveries, Redelivered, Counted
    <2>. QED  BY <1>1, <1>2, <2>1
  <1>3. ASSUME NEW f \in Events, RowStep(f) PROVE Paced(e)'
    BY <1>2, <1>3 DEF RowStep, Confirm, Elapse, LeaseExpires, queueVars, workVars
  <1>4. ASSUME NEW f \in Events, JobStep(f) PROVE Paced(e)'
    <2>1. CASE Promote(f)
      <3>1. /\ UNCHANGED <<tries, stalled, wpc, wev, mails>> /\ job[f] = "delayed"
            /\ job' = [job EXCEPT ![f] = "waiting"]
        BY <2>1 DEF Promote, workVars
      <3>2. \/ job'[e] = job[e]
            \/ job[e] = "delayed" /\ job'[e] = "waiting"
        BY <3>1 DEF TypeOK, TypeJobs
      <3>3. Deliveries(e)' = Deliveries(e) /\ Deliveries(e) \in Nat
        BY <1>0, <3>1, <3>2 DEF Deliveries, Redelivered, Counted
      <3>4. job[e] \notin Workers \/ job'[e] = job[e]
        BY <3>2, NamesAssumption
      <3>5. job'[e] = "failed" <=> job[e] = "failed"
        BY <3>2
      <3>. QED  BY <1>1, <3>1, <3>3, <3>4, <3>5
    <2>2. CASE Stall(f)
      BY <1>0, <2>2, StallKeepsPaced
    <2>. QED  BY <1>4, <2>1, <2>2 DEF JobStep
  <1>5. ASSUME NEW s \in Sweepers, Sweeps(s) \/ SweeperCrash(s) PROVE Paced(e)'
    <2>1. CASE ClaimDueEvents(s) \/ ReleaseClaim(s) \/ SweepRetry(s) \/ SweeperCrash(s)
      BY <1>2, <2>1
      DEF ClaimDueEvents, ReleaseClaim, SweepRetry, SweeperCrash, queueVars, workVars
    <2>2. ASSUME NEW f \in Events, Enqueue(s, f) PROVE Paced(e)'
      <3>1. /\ UNCHANGED <<tries, stalled, wpc, wev, mails>>
            /\ job' = job \/ (job[f] = "none" /\ job' = [job EXCEPT ![f] = "waiting"])
        BY <2>2 DEF Enqueue, AddJob, workVars
      <3>0. \/ job'[e] = job[e]
            \/ job[e] = "none" /\ job'[e] = "waiting"
        BY <3>1 DEF TypeOK, TypeJobs
      <3>2. Deliveries(e) <= Deliveries(e)'
        <4>1. CASE job'[e] = job[e]
          BY <1>0, <3>1, <4>1 DEF Deliveries, Redelivered, Counted
        <4>2. CASE job[e] = "none"
          <5>1. Deliveries(e)' \in Nat /\ Deliveries(e) = 0
            BY <4>2, DeliveriesCountAfter DEF Counted, Deliveries
          <5>. QED  BY <5>1
        <4>. QED  BY <3>0, <4>1, <4>2
      <3>. QED  BY <1>1, <3>0, <3>1, <3>2, NamesAssumption
    <2>. QED  BY <1>5, <2>1, <2>2 DEF Sweeps
  <1>6. ASSUME NEW w \in Workers, NEW f \in Events, Take(w, f) PROVE Paced(e)'
    BY <1>0, <1>6, TakeKeepsPaced
  <1>7. ASSUME NEW w \in Workers, Works(w) \/ WorkerCrash(w) PROVE Paced(e)'
    <2>1. CASE Send(w)
      BY <1>0, <2>1, SendKeepsPaced
    <2>2. ASSUME wpc[w] # "idle", UNCHANGED <<queueVars, mails>>,
                 \/ Leaves(w) \/ Moves(w, "retry")
                 \/ wpc[w] = "claim" /\ Moves(w, "send")
          PROVE  Paced(e)'
      <3>1. \A x \in Workers : MayMail(x, e)' => MayMail(x, e)
        BY <2>2 DEF Leaves, Moves, MayMail, TypeOK, TypeWorkers
      <3>2. \A x \in Workers : Lags(x, e)' => Lags(x, e)
        BY <2>2, <3>1 DEF Lags, queueVars
      <3>3. Deliveries(e)' = Deliveries(e) /\ Deliveries(e) \in Nat
        BY <1>0, <2>2 DEF Deliveries, Redelivered, Counted, queueVars
      <3>. QED  BY <1>0, <2>2, <3>1, <3>2, <3>3, PacedStays DEF queueVars
    <2>3. CASE ClaimEventById(w)
      <3>1. /\ wpc[w] = "claim" /\ UNCHANGED mails
            /\ \/ Moves(w, "send") /\ UNCHANGED queueVars
               \/ Completes(w) \/ Throws(w)
        BY <2>3 DEF ClaimEventById
      <3>. QED  BY <1>0, <2>2, <3>1, EndingKeepsPaced
    <2>4. CASE MarkDispatched(w)
      <3>1. /\ wpc[w] = "mark" /\ UNCHANGED mails
            /\ (Moves(w, "retry") /\ UNCHANGED queueVars) \/ Completes(w)
        BY <2>4 DEF MarkDispatched
      <3>. QED  BY <1>0, <2>2, <3>1, EndingKeepsPaced
    <2>5. CASE WorkerRetry(w)
      BY <1>0, <2>5, EndingKeepsPaced DEF WorkerRetry
    <2>6. CASE WorkerCrash(w)
      BY <2>2, <2>6 DEF WorkerCrash
    <2>. QED  BY <1>7, <2>1, <2>3, <2>4, <2>5, <2>6 DEF Works
  <1>8. CASE UNCHANGED vars
    BY <1>2, <1>8 DEF vars, queueVars, workVars
  <1>. QED  BY <1>3, <1>4, <1>5, <1>6, <1>7, <1>8 DEF Next

\* Whatever fails, a customer gets one mail for each of the job's tries and one for
\* its redelivery at most (attempts and maxStalledCount of the queue's job).
THEOREM MailsAreBounded == Spec => []MailsBounded
  <1>1. Init => MailsPaced
    <2>. SUFFICES ASSUME Init, NEW e \in Events PROVE Paced(e)
      BY DEF MailsPaced
    <2>1. mails[e] = 0 /\ job[e] = "none" /\ \A w \in Workers : ~MayMail(w, e)
      BY DEF Init, MayMail
    <2>2. Deliveries(e) = 0
      BY <2>1 DEF Deliveries
    <2>. QED  BY <2>1, <2>2 DEF Paced, MailsFit, FewLag, Lags
  <1>2. TypeOK /\ MailsPaced => MailsBounded
    <2>. SUFFICES ASSUME TypeOK, MailsPaced, NEW e \in Events
                  PROVE  mails[e] <= JobTries + 1
      BY DEF MailsBounded
    <2>1. Counted(e) /\ mails[e] <= Deliveries(e)
      BY DeliveriesCount DEF MailsPaced, Paced, MailsFit
    <2>2. JobTries \in Nat
      BY OutboxAssumption
    <2>. QED  BY <2>1, <2>2 DEF Counted
  <1>. QED  BY <1>1, <1>2, PacedStep, OutboxTypeCorrect, PTL DEF Spec
=============================================================================
