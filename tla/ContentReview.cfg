SPECIFICATION FairSpec

CONSTANTS
    Items = {i1, i2}
    Reworked = {i1}
    MaxVersion = 2
    Requests = {o1, o2}
    Workers = {k1}
    MaxTries = 2
    Faults = {"crash", "stall", "db", "provider", "points"}
    MaxFaults = 1

\* A review ends: everything decided and edited to the bound.
CHECK_DEADLOCK FALSE

INVARIANTS
    TypeOK
    CandidateStandsUnlessOverwritten
    PackFollowsItemsUnlessRaced

PROPERTIES
    RevisionEndsUnlessInterrupted
