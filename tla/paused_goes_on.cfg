SPECIFICATION Spec
CONSTANTS
    g1 = g1
    g2 = g2
    Group <- OneGroup
    Template <- Templates
    Properties <- PropertySets
    Storage <- Storages
    Specs <- PausingSpecs
    NoGroup = NoGroup
    Deletable <- NothingDeletable
    Aggregator <- Absent
    MaxGeneration = 2
    MaxFaults = 0
PROPERTIES
    PausedAtOnce
CHECK_DEADLOCK FALSE
