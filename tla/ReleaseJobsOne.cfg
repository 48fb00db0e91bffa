SPECIFICATION Spec
CONSTANTS
    d1 = d1
    d2 = d2
    Deployments <- OneDeployment
    Planned <- BothPhases
    MaxAttempt = 2
    MaxFaults = 3
    StopMayFail = TRUE
    SettleRaces = FALSE
CHECK_DEADLOCK FALSE
INVARIANTS InductiveInvariant AtMostOncePerAttempt
PROPERTIES VerdictStable RollbackOnlyOnFailure
