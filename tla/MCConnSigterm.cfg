CONSTANTS
    NumRec = 2
    Unstorable = {}
    NumWriters = 2
    QueueMax = 1
    BatchSize = 2
    Dedup = TRUE
    Faults = {}
    MaxFaults = 0
    MaxSessions = 1
    MaxRetries = 2
SPECIFICATION ConnectorSpec
INVARIANTS
    ExitKeepsValues
CHECK_DEADLOCK FALSE
