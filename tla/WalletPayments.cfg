SPECIFICATION FairSpec

CONSTANTS
    a1 = a1
    a2 = a2
    c1 = c1
    h1 = h1
    h2 = h2
    o1 = o1
    Claims = {a1, a2}
    Checkouts = {c1}
    MaxPayments = 1
    Handlers = {h1, h2}
    Operators = {o1}
    Trial = 3
    Cost = 2
    Bundle = 5
    Gift = 7
    MaxFaults = 2

\* A wallet comes to rest when its payments are settled.
CHECK_DEADLOCK FALSE

INVARIANTS
    TypeOK
    NeverOverdrawn
    BalanceIsRunningSumUnlessBlind
    GrantedOnce
    ProcessedPaidWasGranted

PROPERTIES
    PaidStaysSucceeded
    PaidIsCreditedUnlessPendingCameFirst
