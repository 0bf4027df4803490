SPECIFICATION Spec
CONSTANTS
    a = a
    b = b
    Sources = {a, b}
    Reasons = {"error", "stale"}
    Confirm = 2
    Repeat = 4
    Retry = 1
    MaxCrashes = 2
    MaxFaults = 1
SYMMETRY Interchangeable
INVARIANTS
    TypeOK
PROPERTIES
    AlertEarned
    AlertsSpaced
    RecoveryEarned
CHECK_DEADLOCK FALSE
