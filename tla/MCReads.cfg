SPECIFICATION Spec
CHECK_DEADLOCK FALSE
CONSTANTS
    Commands <- ReadCommands
    KindOf <- ReadKinds
    ModuleOf <- ReadModules
    Modules = {"premium", "webull"}
    None = None
    MaxCrashes = 1
    MaxFaults = 0
INVARIANTS
    OpenRowsAreTracked
    RevisionIsDurable
