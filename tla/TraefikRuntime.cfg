SPECIFICATION FairSpec
CONSTANTS
    p1 = p1
    p2 = p2
    Projects <- TwoProjects
    MaxPeers = 1
    MaxItems = 1
    MaxFaults = 2
INVARIANT Attached
PROPERTY RecordIsTrue IngressConverges
CHECK_DEADLOCK FALSE
