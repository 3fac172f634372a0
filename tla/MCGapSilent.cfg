CONSTANTS
    NumTags = 2
    PageSize = 1
    MaxGap = 3
    Skew = 0
    Faults = {}
    MaxFaults = 0
    MaxTime = 4
    MaxSessions = 2
SPECIFICATION Spec
INVARIANTS
    NoSilentHole
CHECK_DEADLOCK FALSE
