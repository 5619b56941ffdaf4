------------------------- MODULE PublishingRecovery -------------------------
(***************************************************************************)
(* The reconciliation sweeps (reconciliation.service.ts) and the admin who *)
(* resolves unknown outcomes (admin.controller.ts): each reads a row in one*)
(* step and acts on it in a later one.                                     *)
(***************************************************************************)
EXTENDS PublishingTables

SweepReadDue(i, origin) ==
    /\ origin \in Sweeps
    /\ status[i] = "SCHEDULED"
    /\ due' = due \union {<<i, version[i], origin>>}
    /\ UNCHANGED <<stuck, status, attemptVars, adminVars, runVars, blind>>
    /\ Outside

\* Slip: the condition on the attempts inverted.
RecoverAttempted(d) ==
    LET i == d[1]
        v == d[2]
    IN  /\ d \in due
        /\ due' = due \ {d}
        /\ IF d[3] = "recover" /\ VersionAttempts(i, v) = {}
           THEN UNCHANGED <<job, jobKey>>
           ELSE AddJob(PublishJob(i, v), Recovery)
        /\ UNCHANGED <<candidateVars, intentVars, attemptVars, stalled, workerVars,
                       stuck, adminVars, runVars, request, sends, blind>>

\* recoverMissedJobs (with no attempt of the version) and resyncIntent.
RecoverMissed(d) ==
    LET i == d[1]
        v == d[2]
    IN  /\ d \in due
        /\ due' = due \ {d}
        /\ IF d[3] = "recover" /\ VersionAttempts(i, v) # {}
           THEN UNCHANGED <<job, jobKey>>
           ELSE AddJob(PublishJob(i, v), Recovery)
        /\ UNCHANGED <<candidateVars, intentVars, attemptVars, stalled, workerVars,
                       stuck, adminVars, runVars, request, sends, blind>>

SweepReadStuck(a) ==
    /\ "stuck" \in Sweeps
    /\ attempt[a] \in STUCK
    /\ stuck' = stuck \union {a}
    /\ UNCHANGED <<due, status, attemptVars, adminVars, runVars, blind>>
    /\ Outside

\* flagStuckAttempts: the attempt by id, a result if there is none, and the
\* intent whatever its version.
FlagStuck(a) ==
    LET i == IntentOf(a) IN
    /\ a \in stuck
    /\ stuck' = stuck \ {a}
    /\ attempt' = [attempt EXCEPT ![a] = "UNKNOWN"]
    /\ RecordOnce(a, "UNKNOWN")
    /\ status' = IF status[i] \in CLAIMABLE
                 THEN [status EXCEPT ![i] = "ACTION_REQUIRED"] ELSE status
    /\ blind' = IF attempt[a] \in {"QUEUED", "DISPATCHING"} THEN blind
                ELSE blind \union {i}
    /\ UNCHANGED <<keyOf, body, due, adminVars, runVars>>
    /\ Outside

\* removeOrphanJobs: a delayed job of an intent in a terminal status.
RemoveOrphan(j) ==
    /\ "orphans" \in Sweeps
    /\ job[j] = "queued" /\ j \notin stalled
    /\ status[IntentOf(j)] \in TERMINAL
    /\ job' = [job EXCEPT ![j] = "none"]
    /\ jobKey' = [jobKey EXCEPT ![j] = NoKey]
    /\ UNCHANGED <<candidateVars, intentVars, attemptVars, stalled, workerVars,
                   sweepVars, adminVars, runVars, request, sends, blind>>

-----------------------------------------------------------------------------
(* The admin: admin.controller.ts *)

BeginResolve(d, a) ==
    /\ resolving[d] = NoAttempt /\ result[a] = "UNKNOWN"
    /\ resolving' = [resolving EXCEPT ![d] = a]
    /\ UNCHANGED <<adminSettled, status, attemptVars, sweepVars, runVars, blind>>
    /\ Outside

\* resolveUnknown: PUBLISHED needs the provider's publication id.
CommitResolve(d) ==
    LET a == resolving[d]
        i == IntentOf(a)
    IN  /\ a # NoAttempt
        /\ \E outcome \in {"PUBLISHED", "FAILED"} :
            /\ outcome = "PUBLISHED" => posts[a] > 0 /\ PublishedSlotFree(a)
            /\ result' = [result EXCEPT ![a] = outcome]
            /\ status' = IF status[i] = "ACTION_REQUIRED"
                         THEN [status EXCEPT ![i] = IntentStateFor(outcome)]
                         ELSE status
        /\ resolving' = [resolving EXCEPT ![d] = NoAttempt]
        /\ adminSettled' = adminSettled \union {a}
        /\ blind' = IF result[a] = "UNKNOWN" THEN blind ELSE blind \union {i}
        /\ UNCHANGED <<attempt, keyOf, body, sweepVars, runVars>>
        /\ Outside
=============================================================================
