SPECIFICATION Spec
CONSTANTS
    g1 = g1
    g2 = g2
    Group <- TwoGroups
    Template <- Templates
    Properties <- PropertySets
    Storage <- Storages
    Specs <- VectorSpecs
    NoGroup = NoGroup
    Deletable <- NothingDeletable
    Aggregator <- Moving
    MaxGeneration = 2
    MaxFaults = 1
INVARIANTS
    InductiveInv
    OneAggregator
    QuiescentCorrect
    DependenciesFirst
PROPERTIES
    MakeBeforeBreak
    RunShortens
CHECK_DEADLOCK FALSE
