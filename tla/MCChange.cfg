SPECIFICATION Spec
CHECK_DEADLOCK FALSE
CONSTANTS
    Commands <- ChangeCommands
    KindOf <- ChangeKinds
    ModuleOf <- ChangeModules
    Modules = {"upload"}
    None = None
    MaxCrashes = 2
    MaxFaults = 1
INVARIANTS
    LedgerCoversEffects
    InterlockMatchesLedger
    InterlockCoversUnknown
PROPERTIES
    SerialEffects
    UnknownUntilSettled
