-------------------------- MODULE PublishingRunner --------------------------
(***************************************************************************)
(* The n8n runner with the Meta executor, and the signed callback          *)
(* (callbacks.controller.ts, Serializable with row locks: one step).       *)
(***************************************************************************)
EXTENDS PublishingTables

\* The executor resolves the attempt, fails on a target that is not connected,
\* and stamps the result with the intent's version of now.  A provider error
\* answer means nothing was posted; no answer may mean either.
Execute(a) ==
    /\ run[a] = "accepted"
    /\ \E outcome \in {"PUBLISHED", "FAILED", "UNKNOWN"}, posted \in 0..1 :
        /\ outcome = "PUBLISHED" => posted = 1
        /\ outcome = "FAILED" => posted = 0
        /\ outcome = "UNKNOWN" => "network" \in Faults
        /\ posted = 1 => connected
        /\ posts' = [posts EXCEPT ![a] = @ + posted]
        /\ run' = [run EXCEPT ![a] =
               IF version[IntentOf(a)] = VersionOf(a) THEN outcome ELSE "misbound"]
    /\ UNCHANGED <<status, attemptVars, unacked, sweepVars, adminVars, blind>>
    /\ Outside

\* handleCallback: the first result of the attempt wins; a later callback, a
\* misbound one, or one that violates a unique index changes nothing.  The
\* runner may deliver it any number of times, or never.
Callback(a) ==
    LET outcome == run[a]
        i == IntentOf(a)
    IN  /\ outcome \in {"PUBLISHED", "FAILED", "UNKNOWN"}
        /\ attempt[a] # "none"
        /\ result[a] = "none"
        /\ outcome = "PUBLISHED" => PublishedSlotFree(a)
        /\ ~Superseded(a) => SlotFree(i)
        /\ result' = [result EXCEPT ![a] = outcome]
        /\ attempt' = [attempt EXCEPT ![a] = AttemptStateFor(outcome)]
        /\ status' = IF Superseded(a) THEN status
                     ELSE [status EXCEPT ![i] = IntentStateFor(outcome)]
        /\ UNCHANGED <<keyOf, body, runVars, sweepVars, adminVars, blind>>
        /\ Outside
=============================================================================
