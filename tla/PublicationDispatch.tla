-------------------------- MODULE PublicationDispatch --------------------------
(***************************************************************************)
(* What the dispatch of a publication promises, attempt by attempt: an     *)
(* attempt is reserved, claimed by one sender and sent once or never; only *)
(* what was sent can be posted, once; and what is recorded is what         *)
(* happened, until an admin resolves it, unless the acceptance of what was *)
(* sent is forgotten.                                                      *)
(***************************************************************************)

CONSTANT Attempts

VARIABLES
    phase,     \* absent, reserved, claimed, sent; dead: never to be sent
    posted,    \* attempts whose post exists on the provider
    outcome,   \* what is recorded ("none" until it is settled)
    resolved,  \* attempts whose outcome an admin resolved
    forgotten  \* attempts sent whose acceptance could not be written

vars == <<phase, posted, outcome, resolved, forgotten>>

Init ==
    /\ phase = [a \in Attempts |-> "absent"]
    /\ posted = {}
    /\ outcome = [a \in Attempts |-> "none"]
    /\ resolved = {}
    /\ forgotten = {}

Becomes(a, from, to) ==
    /\ phase[a] \in from
    /\ phase' = [phase EXCEPT ![a] = to]
    /\ UNCHANGED <<posted, outcome, resolved, forgotten>>

Reserve(a) == Becomes(a, {"absent"}, "reserved")
Claim(a)   == Becomes(a, {"reserved"}, "claimed")
Send(a)    == Becomes(a, {"claimed"}, "sent")
Drop(a)    == Becomes(a, {"reserved", "claimed"}, "dead")

\* A failure on record, unless an admin wrote it or the acceptance was forgotten,
\* is a promise: no post follows.
Publish(a) ==
    /\ phase[a] = "sent" /\ a \notin posted
    /\ outcome[a] = "FAILED" => a \in resolved \union forgotten
    /\ posted' = posted \union {a}
    /\ UNCHANGED <<phase, outcome, resolved, forgotten>>

\* What was sent may be lost sight of.
Forget(a) ==
    /\ phase[a] = "sent"
    /\ forgotten' = forgotten \union {a}
    /\ UNCHANGED <<phase, posted, outcome, resolved>>

\* The first outcome of an attempt; one still reserved will not be sent any more.
Settle(a, o) ==
    /\ phase[a] # "absent" /\ outcome[a] = "none"
    /\ o = "PUBLISHED" => a \in posted
    /\ o = "FAILED" => a \notin posted \/ a \in forgotten
    /\ outcome' = [outcome EXCEPT ![a] = o]
    /\ phase' = [phase EXCEPT ![a] = IF @ = "reserved" THEN "dead" ELSE @]
    /\ UNCHANGED <<posted, resolved, forgotten>>

\* Only what was settled is resolved, and as published only what was posted.
Resolve(a, o) ==
    /\ outcome[a] # "none"
    /\ o = "PUBLISHED" => a \in posted
    /\ outcome' = [outcome EXCEPT ![a] = o]
    /\ resolved' = resolved \union {a}
    /\ UNCHANGED <<phase, posted, forgotten>>

Next ==
    \E a \in Attempts :
        \/ Reserve(a) \/ Claim(a) \/ Send(a) \/ Drop(a)
        \/ Publish(a) \/ Forget(a)
        \/ \E o \in {"UNKNOWN", "PUBLISHED", "FAILED"} : Settle(a, o)
        \/ \E o \in {"PUBLISHED", "FAILED"} : Resolve(a, o)

Spec == Init /\ [][Next]_vars
=============================================================================
