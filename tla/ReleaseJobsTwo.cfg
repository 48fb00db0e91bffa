SPECIFICATION FairSpec
CONSTANTS
    d1 = d1
    d2 = d2
    Deployments <- TwoDeployments
    Planned <- PreActivationOnly
    MaxAttempt = 2
    MaxFaults = 1
    StopMayFail = TRUE
    SettleRaces = FALSE
CHECK_DEADLOCK FALSE
INVARIANTS OneMigrationAtATime EvidenceKept
PROPERTIES SuccessIsReal KeepsPromise NobodyWaitsForever
