CONSTANTS
    r1 = r1
    r2 = r2
    Rec = {r1, r2}
    Unserializable = {}
    PendingMax = 1
    RetryMax = 2
    WriteBatch = 1
    FsyncEvery = 2
    SegmentUnits = 2
    MaxUnits = 4
    BatchSize = 1
    Faults = {"timeout", "commit", "open", "write", "ack"}
    MaxFaults = 2
    MaxBoots = 2
SPECIFICATION FairSpec
PROPERTIES
    EventuallyReplayed
    WorkerStops
