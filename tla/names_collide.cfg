SPECIFICATION Spec
CONSTANTS
    None = None
    Word <- Words
    Name <- Two
    GroupName <- Groups
    Wanted <- SimpleSpec
    MaxClusters = 2
    MaxEdits = 2
    MaxFaults = 0
INVARIANTS
    PodsAccessible
CHECK_DEADLOCK FALSE
