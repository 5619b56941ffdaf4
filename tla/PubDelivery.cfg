SPECIFICATION Spec

CONSTANTS
    i1 = i1
    o1 = o1
    w1 = w1
    w2 = w2
    p1 = p1
    Intents = {i1}
    Owners = {o1}
    Workers = {w1, w2}
    Admins = {}
    Plans = {p1}
    MaxVersion = 2
    MaxSeq = 2
    Asked = {"create", "schedule", "approve", "retry"}
    Sweeps = {"stuck"}
    Faults = {"stall", "asset", "network", "db"}

SYMMETRY Symmetry

\* A lifecycle ends: every intent settled or cancelled, nothing left to ask.
CHECK_DEADLOCK FALSE

INVARIANTS
    TypeOK
    AttemptSentOnce
    DuplicatePostNeedsBlindOrUnacked
    ResultsAreTruthfulUnlessUnacked
    AttemptAgreesWithResultUnlessBlind
    DispatchingHasAttemptUnlessBlind

PROPERTIES
    ImplementsDispatch
