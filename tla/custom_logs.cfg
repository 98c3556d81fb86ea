SPECIFICATION Spec
CONSTANTS
    None = None
    Roles <- SilentRole
    Groups <- EveryGroup
    Variable <- Variables
    Property <- Properties
INVARIANTS
    CustomLogConfigUsed
CHECK_DEADLOCK FALSE
