SPECIFICATION Spec
CONSTANTS
    a = a
    b = b
    u = u
    Databases <- Three
    Unresolved <- OneUnresolved
    Workers = 2
    MaxPasses = 2
    MaxChanges = 3
    MaxFaults = 1
SYMMETRY Interchangeable
INVARIANT InventoryIsTrue
CHECK_DEADLOCK FALSE
