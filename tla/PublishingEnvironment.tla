----------------------- MODULE PublishingEnvironment ------------------------
(***************************************************************************)
(* What changes under a publication: the connection of its target, and the *)
(* candidate events of the content module (candidates.service.ts).         *)
(***************************************************************************)
EXTENDS PublishingTables

ToggleTarget ==
    /\ "target" \in Faults
    /\ connected' = ~connected
    /\ UNCHANGED <<active, intentVars, attemptVars, queueVars, workerVars,
                   sweepVars, adminVars, runVars, request, sends, blind>>

\* ingestEvent: revoked or replaced content cancels what is not dispatched.
RevokeCandidate ==
    /\ "revoke" \in Faults /\ active
    /\ active' = FALSE
    /\ status' = [i \in Intents |->
           IF status[i] \in CANCELLABLE_STATUSES THEN "CANCELLED" ELSE status[i]]
    /\ UNCHANGED <<connected, version, plan, approvals, lastDecision, attemptVars,
                   queueVars, workerVars, sweepVars, adminVars, runVars, request,
                   sends, blind>>
=============================================================================
