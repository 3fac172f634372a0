CONSTANTS
    NumRec = 2
    Unstorable = {}
    NumWriters = 2
    QueueMax = 1
    BatchSize = 2
    Dedup = TRUE
    Faults = {"insert", "cap", "late"}
    MaxFaults = 1
    MaxSessions = 2
    MaxRetries = 2
SPECIFICATION ConnectorFairSpec
INVARIANTS
    ConnectorTypeOK
    OneGeneration
    WritersEndFirst
    IdleMemoryEmpty
    OrderlyExit
PROPERTIES
    StopExits
CHECK_DEADLOCK FALSE
