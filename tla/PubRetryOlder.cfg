SPECIFICATION Spec

CONSTANTS
    i1 = i1
    o1 = o1
    d1 = d1
    w1 = w1
    p1 = p1
    Intents = {i1}
    Owners = {o1}
    Workers = {w1}
    Admins = {d1}
    Plans = {p1}
    MaxVersion = 3
    MaxSeq = 2
    Asked = {"create", "schedule", "approve", "retry", "reschedule"}
    Sweeps = {}
    Faults = {"network"}

\* A lifecycle ends: every intent settled or cancelled, nothing left to ask.
CHECK_DEADLOCK FALSE

PROPERTIES
    RetryJudgesNewestUnlessBlind
