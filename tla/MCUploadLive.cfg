SPECIFICATION Spec
CONSTANTS
    Workers <- Ids
    Data = {"family"}
    Overlaps <- SameUploads
    Configs <- Files
    Pids = {1, 2}
    Clocks = {1}
    Collecting = {0, 1}
    LastPart = 1
    Days = 1
    Weekend = {}
    Window = 3
    Delays <- FirstDelays
    QueueMax = 1
    MaxCommands = 1
    MaxRuns = 1
PROPERTIES
    Recovers
    ClosedPipeStops
CHECK_DEADLOCK FALSE
