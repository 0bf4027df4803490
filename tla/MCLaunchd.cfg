SPECIFICATION Spec
CONSTANTS
    Order <- MCOrder
    Required = {"core"}
    Targets = {"web"}
    Attempts = 2
    MaxCommands = 2
    MaxMeddling = 1
    All = "all"
INVARIANTS
    CertainFailureChangedNothing
    SuccessLasts
    RestartReplaces
    OnlyOwnJobs
PROPERTIES
    JudgedAfterwards
