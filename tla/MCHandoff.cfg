SPECIFICATION Spec
CONSTANTS
    a = a
    b = b
    Agents = {a, b}
    Generations = {1, 2}
    MaxMarkers = 3
    MaxStarts = 4
    MaxFaults = 1
SYMMETRY Interchangeable
INVARIANTS
    NoDoubleOwner
    HolderCanRecover
    RevokedStaysRevoked
PROPERTIES
    MarkerUsedOnce
CHECK_DEADLOCK FALSE
