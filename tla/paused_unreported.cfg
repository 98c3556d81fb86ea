SPECIFICATION FairSpec
CONSTANTS
    g1 = g1
    g2 = g2
    Group <- OneGroup
    Template <- Templates
    Properties <- PropertySets
    Storage <- Storages
    Specs <- PausedSpecs
    NoGroup = NoGroup
    Deletable <- NothingDeletable
    Aggregator <- Absent
    MaxGeneration = 1
    MaxFaults = 0
PROPERTIES
    PausedReported
CHECK_DEADLOCK FALSE
