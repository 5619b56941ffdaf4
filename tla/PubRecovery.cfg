SPECIFICATION FairSpec

CONSTANTS
    i1 = i1
    o1 = o1
    d1 = d1
    d2 = d2
    w1 = w1
    p1 = p1
    Intents = {i1}
    Owners = {o1}
    Workers = {w1}
    Admins = {d1, d2}
    Plans = {p1}
    MaxVersion = 2
    MaxSeq = 1
    Asked = {"create", "schedule", "approve", "reject", "cancel"}
    Sweeps = {"recover", "resync", "stuck", "orphans"}
    Faults = {"api crash", "worker crash", "db", "network", "target", "revoke"}

\* A lifecycle ends: every intent settled or cancelled, nothing left to ask.
CHECK_DEADLOCK FALSE

PROPERTIES
    CancelledStaysUnlessBlind
    SettledResultIsFinalUnlessResolved
    EveryAttemptSettles
    ScheduledIsServedUnlessJobIsOver
