CONSTANTS
    v1 = v1
    v2 = v2
    v3 = v3
    none = none
    Versions <- MCVersions
    NoVersion <- none
    MaxFaults = 6
SPECIFICATION Spec
SYMMETRY MCSymmetry
CHECK_DEADLOCK FALSE
INVARIANT CommittedServes
INVARIANT PreservedServes
INVARIANT SingleWriter
INVARIANT RestorePointKept
PROPERTY ServedUntilCutover
