CONSTANTS
    NumRec = 3
    Unstorable = {1}
    NumWriters = 2
    QueueMax = 1
    BatchSize = 2
    Dedup = TRUE
    Faults = {}
    MaxFaults = 0
    MaxSessions = 1
SPECIFICATION WritersFairSpec
PROPERTIES
    MemoryDrains
CHECK_DEADLOCK FALSE
