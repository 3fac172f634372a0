CONSTANTS
    r1 = r1
    r2 = r2
    r3 = r3
    Rec = {r1, r2, r3}
    Unserializable = {}
    PendingMax = 2
    RetryMax = 2
    WriteBatch = 2
    FsyncEvery = 2
    SegmentUnits = 3
    MaxUnits = 4
    BatchSize = 2
    Faults = {"timeout", "commit", "open", "write", "fsync", "ack"}
    MaxFaults = 2
    MaxBoots = 2
SYMMETRY RecSymmetry
SPECIFICATION Spec
INVARIANTS
    NoSilentLoss
    InflightIsReturned
    HasDataIsNotStale
    KillWindow
    AckedIsCommitted
PROPERTIES
    CapSparesUnacked
    NoRedelivery
    ImplementsStore
