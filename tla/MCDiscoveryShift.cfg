CONSTANTS
    Objects <- MCObjects
    Variables <- MCVariables
    Matching = {3, 4, 5}
    Spaces <- MCFlat
    NumConnectors = 2
    Limit = 2
    MaxDepth = 2
    Faults = {"browse"}
    MaxFaults = 1
    MaxSessions = 1
SPECIFICATION Spec
INVARIANTS
    NoTagTwice
CHECK_DEADLOCK FALSE
