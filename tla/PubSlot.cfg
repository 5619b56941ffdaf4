SPECIFICATION Spec

CONSTANTS
    i1 = i1
    i2 = i2
    o1 = o1
    o2 = o2
    w1 = w1
    p1 = p1
    Intents = {i1, i2}
    Owners = {o1, o2}
    Workers = {w1}
    Admins = {}
    Plans = {p1}
    MaxVersion = 2
    MaxSeq = 1
    Asked = {"create", "schedule", "approve", "cancel"}
    Sweeps = {}
    Faults = {"network", "redis"}

SYMMETRY Symmetry

\* A lifecycle ends: every intent settled or cancelled, nothing left to ask.
CHECK_DEADLOCK FALSE

INVARIANTS
    DuplicatePostNeedsBlindOrUnacked

PROPERTIES
    CancelledStaysUnlessBlind
