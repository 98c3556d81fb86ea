SPECIFICATION Spec
CONSTANTS
    None = None
    Word <- Words
    Name <- Three
    GroupName <- Groups
    Wanted <- Specs
    MaxClusters = 2
    MaxEdits = 3
    MaxFaults = 1
INVARIANTS
    OwnObjects
    PodsReached
    Unhindered
PROPERTIES
    ImplementsAlone
CHECK_DEADLOCK FALSE
