CONSTANTS
    v1 = v1
    v2 = v2
    none = none
    Volumes <- MCVolumes
    NoVolume <- none
    Engines <- AllEngines
    MaxWork = 3
    MaxTries = 3
    MaxFaults = 3
SPECIFICATION Spec
SYMMETRY MCSymmetry
CHECK_DEADLOCK FALSE
INVARIANT ReportIsTrue
PROPERTY WipedOnce
