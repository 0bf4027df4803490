SPECIFICATION Spec
CONSTANTS
    e1 = e1
    e2 = e2
    Events <- TwoEvents
    Other = Other
    Torn = Torn
    Garbage = Garbage
    QueueLimit = 1
    MaxEmits = 4
    MaxCrashes = 0
    MaxFaults = 0
    MaxTears = 0
    MaxOthers = 0
    PageSize = 2
    MaxReplaced = 0
    MaxDrops = 0
    MaxMisreads = 0
SYMMETRY EventSymmetry
INVARIANTS
    NothingSkipped
CHECK_DEADLOCK FALSE
