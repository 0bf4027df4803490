SPECIFICATION Spec
CONSTANTS
    e1 = e1
    e2 = e2
    Events <- TwoEvents
    Other = Other
    Torn = Torn
    Garbage = Garbage
    QueueLimit = 1
    MaxEmits = 2
    MaxCrashes = 1
    MaxFaults = 1
    MaxTears = 0
    MaxOthers = 0
    PageSize = 1
    MaxReplaced = 1
    MaxDrops = 1
    MaxMisreads = 1
SYMMETRY EventSymmetry
INVARIANTS
    TypeOK
    NoGap
    InFlightAscends
    NothingSkipped
CHECK_DEADLOCK FALSE
