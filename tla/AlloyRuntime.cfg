SPECIFICATION FairSpec
CONSTANTS
    MaxStatic = 2
    MaxDynamic = 2
    MaxFaults = 4
    Crashes = TRUE
    CallsFail = TRUE
PROPERTIES SuccessIsLatest SuccessIsLoaded CollectorConverges
