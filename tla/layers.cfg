SPECIFICATION Spec
CONSTANTS
    None = None
    Roles <- EveryRole
    Groups <- EveryGroup
    Variable <- Variables
    Property <- Properties
INVARIANTS
    MostSpecificWins
    LogConfigFound
    VectorComplete
CHECK_DEADLOCK FALSE
