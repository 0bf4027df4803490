SPECIFICATION Spec
CONSTANTS
    Workers <- Ids
    Data = {"family"}
    Overlaps <- SameUploads
    Configs <- Files
    Pids = {1, 2}
    Clocks = {1}
    Collecting = {0, 1}
    LastPart = 1
    Days = 2
    Weekend = {}
    Window = 3
    Delays <- FirstDelays
    QueueMax = 1
    MaxCommands = 1
    MaxRuns = 2
INVARIANTS
    TypeOK
    NothingForgotten
    WritersExclusive
    CompletionEarned
    RateLimited
PROPERTIES
    RecordedIsFinal
    ReadyIsEarned
CHECK_DEADLOCK FALSE
