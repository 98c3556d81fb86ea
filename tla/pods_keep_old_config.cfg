SPECIFICATION PodsSpec
CONSTANTS
    g1 = g1
    Group <- OneGroup
    Template <- Templates
    Properties <- PropertySets
    Storage <- Storages
    Specs <- ReconfigureSpecs
    NoGroup = NoGroup
    Deletable <- NothingDeletable
    Aggregator <- Absent
    MaxGeneration = 2
    MaxFaults = 0
PROPERTIES
    PodsConfigured
CHECK_DEADLOCK FALSE
