SPECIFICATION FairSpec
CONSTANTS
    g1 = g1
    g2 = g2
    Group <- OneGroup
    Template <- Templates
    Properties <- PropertySets
    Storage <- Storages
    Specs <- GroupSpecs
    NoGroup = NoGroup
    Deletable <- AllDeletable
    Aggregator <- Absent
    MaxGeneration = 1
    MaxFaults = 1
PROPERTIES
    PodsRunning
CHECK_DEADLOCK FALSE
