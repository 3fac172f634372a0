CONSTANTS
    NumTags = 2
    PageSize = 1
    MaxGap = 1
    Skew = 1
    Faults = {"marks", "page", "spill", "drop", "late", "kill", "window"}
    MaxFaults = 2
    MaxTime = 3
    MaxSessions = 2
SPECIFICATION FairSpec
INVARIANTS
    GapTypeOK
    HolesAreExplained
    NothingBetween
PROPERTIES
    RangeIsRead
CHECK_DEADLOCK FALSE
