SPECIFICATION FairSpec
CONSTANTS
    c1 = c1
    c2 = c2
    Cluster <- Two
    Limit = 1
    MaxEdits = 2
    MaxStops = 1
    MaxFaults = 1
INVARIANTS
    TypeOK
    NothingForgotten
PROPERTIES
    Served
    ShutdownCompletes
    ImplementsRuntime
CHECK_DEADLOCK FALSE
