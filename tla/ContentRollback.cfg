SPECIFICATION Spec

CONSTANTS
    LastWeek = 2
    Requests = {o1}
    Workers = {k1}
    Ticks = {}
    PlannedWeeks = {1}
    MaxRetries = 0
    MaxTries = 3
    MaxAttempts = 5
    Budget = 2
    Checked = 1
    Price = 2
    Faults = {}
    MaxFaults = 0

\* A cycle ends: completed or stuck, its points and retries used up.
CHECK_DEADLOCK FALSE

PROPERTIES
    DeliveredPackNeverFails
