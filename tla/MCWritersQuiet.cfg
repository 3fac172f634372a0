CONSTANTS
    NumRec = 3
    Unstorable = {}
    NumWriters = 2
    QueueMax = 1
    BatchSize = 2
    Dedup = TRUE
    Faults = {"insert"}
    MaxFaults = 1
    MaxSessions = 1
SPECIFICATION WritersFairSpec
PROPERTIES
    SpillReplayed
CHECK_DEADLOCK FALSE
