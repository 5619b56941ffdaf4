SPECIFICATION FairSpec

CONSTANTS
    LastWeek = 2
    Requests = {o1}
    Workers = {k1, k2}
    Ticks = {t1, t2}
    PlannedWeeks = {1}
    MaxRetries = 1
    MaxTries = 2
    MaxAttempts = 2
    Budget = 1
    Checked = 1
    Price = 1
    Faults = {"crash", "stall", "redis", "db", "provider", "circuit"}
    MaxFaults = 1

\* A cycle ends: completed or stuck, its points and retries used up.
CHECK_DEADLOCK FALSE

INVARIANTS
    TypeOK
    OneGenerator
    CursorPassedGenerated
    ReviewableIsPaidUnlessInterrupted

PROPERTIES
    GenerationEndsUnlessInterrupted
