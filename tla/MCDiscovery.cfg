CONSTANTS
    Objects <- MCObjects
    Variables <- MCVariables
    Matching = {3, 4, 5}
    Spaces <- MCSpaces
    NumConnectors = 2
    Limit = 2
    MaxDepth = 2
    Faults = {"browse", "catalog", "lost"}
    MaxFaults = 1
    MaxSessions = 2
SPECIFICATION FairSpec
INVARIANTS
    DiscoveryTypeOK
    CompleteUnlessReported
    ReportedForCause
    TakesAllItFound
    PartitionIsExact
PROPERTIES
    BrowseEnds
CHECK_DEADLOCK FALSE
