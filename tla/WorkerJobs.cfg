SPECIFICATION Spec
CONSTANTS
    r1 = r1
    Runs <- OneRun
    MaxFaults = 4
CHECK_DEADLOCK FALSE
INVARIANTS CommandStartsOnce SuccessIsReal
PROPERTIES VerdictStands
