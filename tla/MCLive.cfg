SPECIFICATION FairSpec
CHECK_DEADLOCK FALSE
CONSTANTS
    Commands <- LiveCommands
    KindOf <- LiveKinds
    ModuleOf <- LiveModules
    Modules = {"upload"}
    None = None
    MaxCrashes = 1
    MaxFaults = 0
PROPERTIES
    EveryCommandSettles
