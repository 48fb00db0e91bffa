SPECIFICATION FairSpec
CONSTANTS
    a = a
    b = b
    u = u
    Items <- MCItems
    Updates <- TheUpdate
    MaxConcurrency = 2
    MaxTries = 2
    MaxLease = 2
    MaxFaults = 1
    Courteous = FALSE
    Versioned = TRUE
CHECK_DEADLOCK FALSE
INVARIANTS BoundedConcurrency CompletedRuns
PROPERTIES NeverStartedOver RestartInterruptsNothingNew EveryItemEnds
