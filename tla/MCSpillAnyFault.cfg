CONSTANTS
    r1 = r1
    r2 = r2
    r3 = r3
    Rec = {r1, r2, r3}
    Unserializable = {r3}
    PendingMax = 2
    RetryMax = 2
    WriteBatch = 2
    FsyncEvery = 2
    SegmentUnits = 3
    MaxUnits = 4
    BatchSize = 2
    Faults = {"open", "rotate", "write", "discard", "fsync", "flush", "ack", "timeout", "commit", "cancel"}
    MaxFaults = 2
    MaxBoots = 1
SYMMETRY RecSymmetry
SPECIFICATION Spec
INVARIANTS
    TypeOK
    LeaseIsInflight
    LeasedSegmentsExist
    SizeNotOverstated
    PendingEmptyAtEnd
PROPERTIES
    AcksAdvance
