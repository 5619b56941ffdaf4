SPECIFICATION FairSpec

CONSTANTS
    e1 = e1
    s1 = s1
    s2 = s2
    w1 = w1
    w2 = w2
    Events = {e1}
    Sweepers = {s1, s2}
    Workers = {w1, w2}
    MaxAttempts = 5
    JobTries = 3
    MaxFaults = 5
    Faults = {"api crash", "worker crash", "refused", "ambiguous", "queue", "db", "stall", "slow"}

\* The outbox comes to rest when every event is settled.
CHECK_DEADLOCK FALSE

INVARIANTS
    TypeOK
    SentWasMailed
    SecondMailNeedsDoubt
    MailsBounded

PROPERTIES
    TerminalIsFinal
    SettledUnlessJobIsOver
