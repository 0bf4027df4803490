SPECIFICATION SpoolSpec
CONSTANTS
    e1 = e1
    e2 = e2
    Events <- TwoEvents
    Other = Other
    Torn = Torn
    Garbage = Garbage
    QueueLimit = 2
    MaxEmits = 3
    MaxCrashes = 2
    MaxFaults = 1
    MaxTears = 1
    MaxOthers = 1
SYMMETRY EventSymmetry
INVARIANTS
    OneRowEach
    SignalsAscend
PROPERTIES
    HeldStaysHeld
CHECK_DEADLOCK FALSE
