SPECIFICATION PodsSpec
CONSTANTS
    g1 = g1
    Group <- OneGroup
    Template <- Templates
    Properties <- PropertySets
    Storage <- Storages
    Specs <- EditedSpecs
    NoGroup = NoGroup
    Deletable <- NothingDeletable
    Aggregator <- Absent
    MaxGeneration = 2
    MaxFaults = 1
INVARIANTS
    ConfigNotOlder
PROPERTIES
    PodsRunTemplate
    Converges
    CleanedUp
    MalformedRests
    ImplementsRuntime
    RunsEnd
CHECK_DEADLOCK FALSE
