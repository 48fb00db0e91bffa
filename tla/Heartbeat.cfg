SPECIFICATION FairSpec
CONSTANTS
    Limit = 5
    MaxConfigs = 2
    MaxFaults = 6
INVARIANT SilenceIsShort
PROPERTIES ExitIsDeserved Recovers
