SPECIFICATION FairSpec

CONSTANTS
    Candidates = {c1, c2}
    Workers = {k1, k2}
    Sweeps = {s1}
    MaxTries = 3
    Faults = {"crash", "stall", "slow", "redis", "db", "sink"}
    MaxFaults = 2

\* A handover ends: dispatched, or its job is over.
CHECK_DEADLOCK FALSE

INVARIANTS
    DispatchedIsStored

PROPERTIES
    CandidateArrivesUnlessJobIsOver
