SPECIFICATION FairSpec
CONSTANTS
    MaxStatic = 2
    MaxDynamic = 2
    MaxFaults = 4
    Crashes = FALSE
    CallsFail = FALSE
PROPERTIES SnapshotsRetry FragmentConverges
