SPECIFICATION Spec

CONSTANTS
    i1 = i1
    o1 = o1
    w1 = w1
    p1 = p1
    Intents = {i1}
    Owners = {o1}
    Workers = {w1}
    Admins = {}
    Plans = {p1}
    MaxVersion = 3
    MaxSeq = 1
    Asked = {"create", "schedule", "approve", "reschedule"}
    Sweeps = {}
    Faults = {}

SYMMETRY Symmetry

\* A lifecycle ends: every intent settled or cancelled, nothing left to ask.
CHECK_DEADLOCK FALSE

INVARIANTS
    AtMostOnePost
