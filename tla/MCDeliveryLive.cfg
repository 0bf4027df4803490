SPECIFICATION Spec
CONSTANTS
    e1 = e1
    e2 = e2
    Events <- TwoEvents
    Other = Other
    Torn = Torn
    Garbage = Garbage
    QueueLimit = 2
    MaxEmits = 2
    MaxCrashes = 1
    MaxFaults = 0
    MaxTears = 1
    MaxOthers = 0
    PageSize = 1
    MaxReplaced = 0
    MaxDrops = 1
    MaxMisreads = 0
PROPERTIES
    AcceptedIsSeen
    AgentComesBack
    AcceptedIsRecorded
CHECK_DEADLOCK FALSE
