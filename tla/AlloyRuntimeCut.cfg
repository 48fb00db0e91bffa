SPECIFICATION Spec
CONSTANTS
    MaxStatic = 2
    MaxDynamic = 2
    MaxFaults = 2
    Crashes = FALSE
    CallsFail = TRUE
PROPERTIES SnapshotsRetry
