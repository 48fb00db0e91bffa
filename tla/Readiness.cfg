SPECIFICATION Spec
CONSTANTS
    Kinds <- AllKinds
    RecentWindow = 2
    AppLoop = 2
    WorkerLoop = 2
    Grace = 1
    Timeout = 2
    ProbeInterval = 1
    MaxTime = 3
    MaxDowns = 2
    MaxFaults = 1
CHECK_DEADLOCK FALSE
INVARIANTS FailuresAreReal LoopsAreNotReady StayedUp
