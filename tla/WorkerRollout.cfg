CONSTANTS
    v1 = v1
    v2 = v2
    Versions <- MCVersions
    MaxReplicas = 2
    MaxWork = 3
    MaxFaults = 3
SPECIFICATION Spec
CHECK_DEADLOCK FALSE
INVARIANT FailureLeavesLive
INVARIANT CommittedRuns
INVARIANT PreservedIsReal
INVARIANT RollbackIsWhole
INVARIANT RestorePointKept
PROPERTY NoOverlap
