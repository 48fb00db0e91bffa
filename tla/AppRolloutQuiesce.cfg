CONSTANTS
    v1 = v1
    v2 = v2
    v3 = v3
    none = none
    Versions <- MCVersions
    NoVersion <- none
    MaxFaults = 2
SPECIFICATION Spec
SYMMETRY MCSymmetry
CHECK_DEADLOCK FALSE
INVARIANT QuiescedStartsAgain
