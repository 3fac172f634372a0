CONSTANTS
    NumRec = 2
    Unstorable = {}
    NumWriters = 2
    QueueMax = 1
    BatchSize = 2
    Dedup = FALSE
    Faults = {"insert", "commit", "drain", "ack", "cap", "late"}
    MaxFaults = 2
    MaxSessions = 1
SPECIFICATION WritersFairSpec
INVARIANTS
    WritersTypeOK
    NothingVanishes
    OneOwner
    LentIsSpilled
PROPERTIES
    StopEmptiesMemory
    MemoryDrains
    ReplayedWhileHealthy
    StopEnds
CHECK_DEADLOCK FALSE
