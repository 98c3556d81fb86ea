SPECIFICATION FairSpec
CONSTANTS
    g1 = g1
    g2 = g2
    Group <- OneGroup
    Template <- Templates
    Properties <- PropertySets
    Storage <- Storages
    Specs <- FaultSpecs
    NoGroup = NoGroup
    Deletable <- WatchedDeletable
    Aggregator <- Coming
    MaxGeneration = 2
    MaxFaults = 1
INVARIANTS
    QuiescentCorrect
    DependenciesFirst
PROPERTIES
    NoRegress
    SteadyStays
    DeletedForGood
    ImplementsPromise
    Converges
    PodsRunning
CHECK_DEADLOCK FALSE
