------------------------- MODULE SpillBufferProofs -------------------------
(***************************************************************************)
(* Theorems about SpillBuffer, for every value of its constants: any       *)
(* number of records, any capacity, any set of failures.  Its types, and   *)
(* the loan of a batch.                                                    *)
(***************************************************************************)
EXTENDS SpillBuffer, NumberLemmas

USE ConstantsAssumption
-----------------------------------------------------------------------------
(* What the operators on sequences and files return.                       *)

LEMMA SeqType ==
    ASSUME NEW S
    PROVE  /\ <<>> \in Seq(S)
           /\ \A s, t \in Seq(S) : s \o t \in Seq(S)
           /\ \A s \in Seq(S), e \in S : Append(s, e) \in Seq(S)
OBVIOUS

\* Cutting a sequence gives two sequences over the same set.
LEMMA CutType ==
    ASSUME NEW S, NEW s \in Seq(S), NEW n \in 0..Len(s)
    PROVE  /\ Upto(s, n) \in Seq(S)
           /\ From(s, n) \in Seq(S)
           /\ Len(Upto(s, n)) = n
           /\ Len(From(s, n)) = Len(s) - n
BY DEF Upto, From

\* The elements of a sequence are in the set it is over.
LEMMA ElemsType ==
    ASSUME NEW S, NEW s \in Seq(S)
    PROVE  Elems(s) \subseteq S
BY DEF Elems

\* The text of a batch is a sequence of units, two for each record.
LEMMA BlobType ==
    ASSUME NEW s \in Seq(Rec)
    PROVE  /\ Blob(s) \in Seq(Units(Rec))
           /\ Len(Blob(s)) = 2 * Len(s)
BY DEF Blob, Units

\* Truncating a file leaves a file.
LEMMA TruncateType ==
    ASSUME NEW S, NEW s \in Seq(S), NEW n \in Nat
    PROVE  /\ Truncate(s, n) \in Seq(S)
           /\ Len(Truncate(s, n)) <= Len(s)
BY DEF Truncate, Upto

\* The lines a reader finds end inside the file.
LEMMA WholeType ==
    ASSUME NEW S, NEW s \in Seq(S), NEW n \in Nat
    PROVE  Whole(s, n) \subseteq 1..Len(s)
BY DEF Whole

\* What is left of a batch once the records that cannot be encoded are out
\* is a batch.
LEMMA EncodingsType ==
    ASSUME NEW batch \in Seq(Rec), NEW lines \in Encodings(batch)
    PROVE  lines \in Seq(Rec)
<1> DEFINE good == {i \in DOMAIN batch : batch[i] \notin Unserializable}
<1>1. Cardinality(good) \in Nat
  <2>1. IsFiniteSet(1..Len(batch))
    BY FS_Interval
  <2>2. good \subseteq 1..Len(batch)
    OBVIOUS
  <2>3. QED
    BY <2>1, <2>2, FS_Subset, FS_CardinalityType
<1>2. PICK f \in [1..Cardinality(good) -> good] :
            lines = [k \in DOMAIN f |-> batch[f[k]]]
  BY DEF Encodings
<1>3. lines \in [1..Cardinality(good) -> Rec]
  BY <1>2
<1>. HIDE DEF good
<1>4. ASSUME NEW n \in Nat, NEW g \in [1..n -> Rec] PROVE g \in Seq(Rec)
  OBVIOUS
<1>5. QED
  BY <1>1, <1>3, <1>4

\* The records that can be read from a file are records.
LEMMA ReadableType ==
    ASSUME NEW s \in Seq(Units(Rec)), NEW n \in Nat
    PROVE  Readable(s, n) \subseteq Rec
BY WholeType DEF Readable, Units
-----------------------------------------------------------------------------
(* Types.                                                                  *)

\* The leader and close() send well-formed requests.
LEMMA RequestType ==
    ASSUME NEW kind \in RequestKinds, NEW tokens \in SUBSET Token
    PROVE  Request(kind, tokens) \in Requests
BY DEF Request, Requests

\* A leader that is gone leaves them well-formed, and in their places.
LEMMA OrphanedType ==
    ASSUME NEW reqs \in Seq(Requests)
    PROVE  /\ Orphaned(reqs) \in Seq(Requests)
           /\ Len(Orphaned(reqs)) = Len(reqs)
           /\ DOMAIN Orphaned(reqs) = DOMAIN reqs
<1>1. Request("orphan", {}) \in Requests
  BY RequestType DEF RequestKinds
<1>2. /\ Orphaned(reqs) \in [1..Len(reqs) -> Requests]
      /\ Len(reqs) \in Nat
      /\ DOMAIN reqs = 1..Len(reqs)
  BY <1>1 DEF Orphaned
<1>3. ASSUME NEW n \in Nat, NEW g \in [1..n -> Requests]
      PROVE  g \in Seq(Requests) /\ Len(g) = n
  OBVIOUS
<1>4. QED
  BY <1>2, <1>3

\* The initial state has the types.
LEMMA InitType == Init => TypeOK
<1>. SUFFICES ASSUME Init PROVE TypeOK
  OBVIOUS
<1>. USE DEF Init
<1>1. SharedTypes
  BY SeqType DEF SharedTypes
<1>2. ControlTypes
  BY DEF ControlTypes, WorkerLabels
<1>3. WritingTypes
  BY DEF WritingTypes
<1>4. HandleTypes
  BY DEF HandleTypes
<1>5. DiskTypes
  BY DEF DiskTypes, Segments
<1>6. LeaderTypes
  BY DEF LeaderTypes, NoBatch, Batch
<1>7. HistoryTypes
  BY DEF HistoryTypes
<1>8. BoundTypes
  BY DEF BoundTypes
<1>9. QED
  BY <1>1, <1>2, <1>3, <1>4, <1>5, <1>6, <1>7, <1>8 DEF TypeOK
-----------------------------------------------------------------------------
(* Each step keeps the types.  A step that leaves a group of variables     *)
(* alone keeps the types of the group.                                     *)

LEMMA UnchangedTypes ==
    /\ SharedTypes /\ UNCHANGED shared => SharedTypes'
    /\ ControlTypes /\ UNCHANGED <<flags, wpc, inflight>> => ControlTypes'
    /\ WritingTypes /\ UNCHANGED writing => WritingTypes'
    /\ HandleTypes /\ UNCHANGED handle => HandleTypes'
    /\ DiskTypes /\ UNCHANGED disk => DiskTypes'
    /\ LeaderTypes /\ UNCHANGED leader => LeaderTypes'
    /\ HistoryTypes /\ UNCHANGED history => HistoryTypes'
    /\ BoundTypes /\ UNCHANGED bounds => BoundTypes'
BY DEF SharedTypes, ControlTypes, WritingTypes, HandleTypes, DiskTypes, Segments,
       LeaderTypes, HistoryTypes, BoundTypes, shared, flags, writing, handle,
       disk, leader, history, bounds

\* A leader's step leaves all of the worker's state alone.
LEMMA WorkerUnchangedTypes ==
    TypeOK /\ UNCHANGED worker =>
        ControlTypes' /\ WritingTypes' /\ HandleTypes' /\ DiskTypes'
BY UnchangedTypes DEF TypeOK, worker, store

\* write(), close() and the leader keep the types.
LEMMA LoopType == TypeOK /\ (Loop \/ Leader) => TypeOK'
<1>. SUFFICES ASSUME TypeOK, Loop \/ Leader PROVE TypeOK'
  OBVIOUS
<1>. USE DEF TypeOK
<1>a. ASSUME NEW r \in Rec, Write(r) PROVE TypeOK'
  <2>1. SharedTypes'
    BY <1>a DEF Write, SharedTypes
  <2>2. HistoryTypes'
    BY <1>a DEF Write, HistoryTypes
  <2>3. QED
    BY <1>a, <2>1, <2>2, WorkerUnchangedTypes, UnchangedTypes DEF Write
<1>b. CASE Close
  <2>1. SharedTypes'
    BY <1>b, RequestType DEF Close, SharedTypes, RequestKinds
  <2>2. QED
    BY <1>b, <2>1, WorkerUnchangedTypes, UnchangedTypes DEF Close
<1>c. CASE Ask
  <2>1. SharedTypes'
    BY <1>c, RequestType DEF Ask, SharedTypes, RequestKinds
  <2>2. LeaderTypes'
    BY <1>c DEF Ask, LeaderTypes
  <2>3. QED
    BY <1>c, <2>1, <2>2, WorkerUnchangedTypes, UnchangedTypes DEF Ask
<1>d. CASE Resume
  <2>1. LeaderTypes'
    BY <1>d DEF Resume, LeaderTypes, NoBatch, Batch
  <2>2. QED
    BY <1>d, <2>1, WorkerUnchangedTypes, UnchangedTypes DEF Resume
<1>e. CASE DrainTimeout
  <2>1. SharedTypes'
    BY <1>e, RequestType, OrphanedType DEF DrainTimeout, SharedTypes, RequestKinds
  <2>2. LeaderTypes'
    BY <1>e DEF DrainTimeout, LeaderTypes, NoBatch, Batch
  <2>3. BoundTypes'
    BY <1>e DEF DrainTimeout, Fault, BoundTypes
  <2>4. QED
    BY <1>e, <2>1, <2>2, <2>3, WorkerUnchangedTypes, UnchangedTypes DEF DrainTimeout
<1>f. CASE CommitOk \/ CommitFails
  <2>1. lease.recs \in SUBSET Rec /\ lease.tokens \in SUBSET Token
    BY DEF LeaderTypes, Batch
  <2>2. SharedTypes'
    <3>1. requests \in Seq(Requests)
      BY DEF SharedTypes
    <3>2. requests' \in Seq(Requests)
      <4>1. /\ Request("ack", lease.tokens) \in Requests
            /\ Request("nack", lease.tokens) \in Requests
        BY <2>1, RequestType DEF RequestKinds
      <4>2. requests' \in {requests, Append(requests, Request("ack", lease.tokens)),
                            Append(requests, Request("nack", lease.tokens))}
        BY <1>f DEF CommitOk, CommitFails, Send
      <4>3. QED
        BY <3>1, <4>1, <4>2, SeqType
    <3>3. QED
      BY <1>f, <3>2 DEF CommitOk, CommitFails, SharedTypes
  <2>3. LeaderTypes'
    BY <1>f DEF CommitOk, CommitFails, LeaderTypes, NoBatch, Batch
  <2>4. HistoryTypes'
    BY <1>f, <2>1 DEF CommitOk, CommitFails, HistoryTypes
  <2>5. BoundTypes'
    BY <1>f DEF CommitOk, CommitFails, Fault, BoundTypes, bounds
  <2>6. QED
    BY <1>f, <2>2, <2>3, <2>4, <2>5, WorkerUnchangedTypes
    DEF CommitOk, CommitFails
<1>g. CASE LeaderCancelled
  <2>1. SharedTypes'
    BY <1>g, OrphanedType DEF LeaderCancelled, SharedTypes
  <2>2. LeaderTypes'
    BY <1>g DEF LeaderCancelled, LeaderTypes, NoBatch, Batch
  <2>3. HistoryTypes'
    BY <1>g DEF LeaderCancelled, HistoryTypes, LeaderTypes, Batch
  <2>4. BoundTypes'
    BY <1>g DEF LeaderCancelled, Fault, BoundTypes
  <2>5. QED
    BY <1>g, <2>1, <2>2, <2>3, <2>4, WorkerUnchangedTypes DEF LeaderCancelled
<1>. QED
  BY <1>a, <1>b, <1>c, <1>d, <1>e, <1>f, <1>g DEF Loop, Leader
-----------------------------------------------------------------------------
(* The worker's file object.  TypeOK alone is not inductive: the size the  *)
(* worker takes over after a failed truncation is a number only if the     *)
(* current segment exists.                                                 *)

Handling == {"start", "rotate", "rollover", "append", "fsync"}

\* Where the worker uses its file object there is one, an open file object
\* has its segment, and only an open one buffers anything.  A rotation that
\* fails leaves a full segment behind, so the worker never appends to it.
FileObject ==
    /\ file = "open" => cur \in DOMAIN files
    /\ file # "open" => buf = <<>>
    /\ file = "closed" => curSize >= SegmentUnits
    /\ wpc = "start" => file = "none"
    /\ wpc \in {"rollover", "append", "fsync"} => file = "open"
    /\ wpc \in {"rotate", "rollover"} => file # "none" /\ curSize >= SegmentUnits

LEMMA UnchangedFileObject ==
    /\ FileObject /\ UNCHANGED <<store, wpc>> => FileObject'
    /\ FileObject /\ UNCHANGED store
       /\ wpc' \notin Handling => FileObject'
BY DEF FileObject, store, handle, disk, Handling

\* A file that is extended is a file.
LEMMA ExtendType ==
    ASSUME DiskTypes, NEW t \in Seq(Units(Rec))
    PROVE  [files EXCEPT ![cur] = @ \o t] \in [DOMAIN files -> Seq(Units(Rec))]
<1> DEFINE fs == [files EXCEPT ![cur] = @ \o t]
<1>1. /\ DOMAIN fs = DOMAIN files
      /\ fs = [s \in DOMAIN files |-> fs[s]]
      /\ \A s \in DOMAIN files :
             fs[s] = IF s = cur THEN files[s] \o t ELSE files[s]
  BY DEF DiskTypes
<1>2. \A s \in DOMAIN files : fs[s] \in Seq(Units(Rec))
  <2>1. TAKE s \in DOMAIN files
  <2>2. files[s] \in Seq(Units(Rec))
    BY DEF DiskTypes
  <2>3. files[s] \o t \in Seq(Units(Rec))
    BY <2>2, SeqType
  <2>4. QED
    BY <1>1, <2>2, <2>3
<1>. HIDE DEF fs
<1>3. fs \in [DOMAIN files -> Seq(Units(Rec))]
  BY <1>1, <1>2
<1>4. QED
  BY <1>3 DEF fs

\* A flush of n units keeps the types and the segments.
LEMMA FlushUnitsType ==
    ASSUME HandleTypes, DiskTypes, NEW n \in 0..Len(buf), FlushUnits(n),
           UNCHANGED <<acks, cur>>
    PROVE  /\ DiskTypes'
           /\ buf' \in Seq(Units(Rec))
           /\ DOMAIN files' = DOMAIN files
<1>1. Upto(buf, n) \in Seq(Units(Rec)) /\ buf' \in Seq(Units(Rec))
  BY CutType DEF HandleTypes, FlushUnits
<1>2. files' \in [DOMAIN files -> Seq(Units(Rec))]
  BY <1>1, ExtendType DEF FlushUnits
<1>3. QED
  BY <1>1, <1>2 DEF DiskTypes, Segments

\* A new segment has the next number and nothing in it.
LEMMA NewSegmentType ==
    ASSUME DiskTypes, NEW fs \in [DOMAIN files -> Seq(Units(Rec))],
           NewSegment(fs)
    PROVE  HandleTypes' /\ DiskTypes' /\ cur' \in DOMAIN files' /\ file' = "open"
<1>1. HandleTypes' /\ file' = "open"
  BY DEF NewSegment, HandleTypes
<1>2. DOMAIN files' = DOMAIN files \cup {cur + 1} /\ cur' = cur + 1
  BY DEF NewSegment
<1>3. files' \in [DOMAIN files' -> Seq(Units(Rec))]
  BY <1>2 DEF NewSegment
<1>4. acks' \in [DOMAIN files' -> Nat]
  BY <1>2 DEF NewSegment, DiskTypes
<1>5. cur' \in Nat /\ DOMAIN files' \subseteq Segments'
  BY <1>2 DEF DiskTypes, Segments
<1>6. DiskTypes'
  BY <1>3, <1>4, <1>5 DEF DiskTypes
<1>7. QED
  BY <1>1, <1>2, <1>6

\* Each failure stays within the bound.
LEMMA FaultType ==
    ASSUME BoundTypes, NEW kind
    PROVE  /\ NoFault => faults' \in 0..MaxFaults
           /\ Fault(kind) => faults' \in 0..MaxFaults
BY DEF BoundTypes, NoFault, Fault

\* An fsync keeps the types, whether it fails or not.
LEMMA FsyncCurType ==
    ASSUME HandleTypes, DiskTypes, BoundTypes,
           NEW health \in BOOLEAN, NEW failed \in BOOLEAN,
           FsyncCur(health, failed), UNCHANGED <<curSize, file, acks, cur>>
    PROVE  /\ HandleTypes' /\ DiskTypes'
           /\ DOMAIN files' = DOMAIN files
           /\ diskHealthy' \in BOOLEAN
           /\ faults' \in 0..MaxFaults
<1>1. PICK n \in 0..Len(buf) : FlushUnits(n)
  BY DEF FsyncCur, HandleTypes
<1>2. writesSinceFsync' \in Nat /\ diskHealthy' \in BOOLEAN
  BY DEF FsyncCur, HandleTypes
<1>3. faults' \in 0..MaxFaults
  BY FaultType DEF FsyncCur
<1>4. QED
  BY <1>1, <1>2, <1>3, FlushUnitsType DEF HandleTypes

\* A failed write keeps the batch in the backlog, or counts it.
LEMMA WriteFailedType ==
    ASSUME WritingTypes, dropped \in SUBSET Rec, NEW counted \in SUBSET Rec,
           WriteFailed(counted)
    PROVE  /\ WritingTypes'
           /\ dropped' \in SUBSET Rec
           /\ diskHealthy' \in BOOLEAN
           /\ wpc' \in {"serve", "collect", "last", "drop"}
<1> DEFINE all == IF mode = "live" THEN backlog \o hand ELSE hand \o backlog
           excess == IF Len(all) > RetryMax THEN Len(all) - RetryMax ELSE 0
<1>1. all \in Seq(Rec)
  BY DEF WritingTypes
<1>2. excess \in 0..Len(all)
  BY <1>1
<1>3. backlog' = From(all, excess)
  BY DEF WriteFailed
<1>4. dropped' = dropped \cup counted \cup Elems(Upto(all, excess))
  BY DEF WriteFailed
<1>5. diskHealthy' = FALSE /\ hand' = <<>> /\ mode' = mode
  BY DEF WriteFailed
<1>6. wpc' \in {"serve", "collect", "last", "drop"}
  BY DEF WriteFailed, AfterWrite, Goto, WritingTypes
<1>. HIDE DEF all, excess
<1>7. Upto(all, excess) \in Seq(Rec) /\ backlog' \in Seq(Rec)
  BY <1>1, <1>2, <1>3, CutType
<1>8. dropped' \in SUBSET Rec
  BY <1>4, <1>7, ElemsType
<1>9. QED
  BY <1>5, <1>6, <1>7, <1>8, SeqType DEF WritingTypes

\* A batch taken from a queue is a part of it.
LEMMA TakeType ==
    ASSUME NEW queue \in Seq(Rec), NEW m \in {"live", "retry", "last"},
           Take(queue, m)
    PROVE  /\ hand' \in Seq(Rec)
           /\ Len(hand') \in 0..Len(queue)
           /\ From(queue, Len(hand')) \in Seq(Rec)
           /\ mode' \in {"live", "retry", "last"}
           /\ wpc' = "write"
<1>1. MinOf(Len(queue), WriteBatch) \in 0..Len(queue)
  BY DEF MinOf
<1>2. QED
  BY <1>1, CutType DEF Take, Goto

\* The directory without some segments.
LEMMA WithoutType ==
    ASSUME DiskTypes, NEW gone, NEW fs \in [DOMAIN files -> Seq(Units(Rec))],
           files' = Without(fs, gone), acks' = Without(acks, gone),
           cur' = cur
    PROVE  DiskTypes' /\ DOMAIN files' = DOMAIN files \ gone
BY DEF DiskTypes, Without, Segments
-----------------------------------------------------------------------------
(* The worker's steps.  All of them leave the loop's side alone, except    *)
(* that they take records from one queue and requests from the other.      *)

TypeInv == TypeOK /\ FileObject

LEMMA LoopSideUnchangedTypes ==
    TypeOK /\ UNCHANGED loopSide =>
        /\ SharedTypes' /\ LeaderTypes'
        /\ dropped' \in SUBSET Rec => HistoryTypes'
        /\ faults' \in 0..MaxFaults => BoundTypes'
BY UnchangedTypes DEF TypeOK, loopSide, HistoryTypes, BoundTypes

\* A step of the worker's control flow.
LEMMA StepType ==
    ASSUME TypeInv, NEW from, NEW to \in WorkerLabels, Step(from, to)
    PROVE  /\ TypeOK'
           /\ to \notin Handling => FileObject'
<1>1. ControlTypes'
  BY DEF Step, Goto, flags, ControlTypes, TypeInv, TypeOK
<1>2. WritingTypes' /\ HandleTypes' /\ DiskTypes'
  BY UnchangedTypes DEF Step, TypeInv, TypeOK, store
<1>3. SharedTypes' /\ LeaderTypes' /\ HistoryTypes' /\ BoundTypes'
  BY LoopSideUnchangedTypes DEF Step, TypeInv, TypeOK, HistoryTypes, BoundTypes
<1>4. to \notin Handling => FileObject'
  BY UnchangedFileObject DEF Handling, Step, TypeInv, Goto
<1>5. QED
  BY <1>1, <1>2, <1>3, <1>4 DEF TypeOK

\* The steps between the parts of an iteration, and those that take a batch
\* into the worker's hand.
LEMMA FlowType ==
    TypeInv /\ (WRetryNothing \/ WRetryLater \/ WRetryDue \/ WCollect
                \/ WCollectNothing \/ WHouseLater \/ WLoop \/ WLast
                \/ WDropBacklog \/ WReady \/ WServed) => TypeInv'
<1>. SUFFICES ASSUME TypeInv,
                     WRetryNothing \/ WRetryLater \/ WRetryDue \/ WCollect
                     \/ WCollectNothing \/ WHouseLater \/ WLoop \/ WLast
                     \/ WDropBacklog \/ WReady \/ WServed
              PROVE  TypeInv'
  OBVIOUS
<1>0. TypeOK /\ FileObject
  BY DEF TypeInv
<1>1. CASE WRetryNothing
  <2>1. ControlTypes'
    BY <1>0, <1>1 DEF TypeOK, ControlTypes, WRetryNothing, Goto, WorkerLabels
  <2>2. WritingTypes' /\ HandleTypes' /\ DiskTypes'
    BY <1>0, <1>1, UnchangedTypes DEF TypeOK, WRetryNothing, store
  <2>3. SharedTypes' /\ LeaderTypes' /\ HistoryTypes' /\ BoundTypes'
    BY <1>0, <1>1, LoopSideUnchangedTypes
    DEF TypeOK, WRetryNothing, HistoryTypes, BoundTypes
  <2>4. FileObject'
    BY <1>0, <1>1, UnchangedFileObject DEF Handling, WRetryNothing, Goto
  <2>5. QED
    BY <2>1, <2>2, <2>3, <2>4 DEF TypeOK, TypeInv
<1>2. CASE WRetryLater \/ WCollectNothing \/ WHouseLater \/ WLoop \/ WServed
  <2>1. ASSUME NEW from, NEW to \in WorkerLabels \ Handling,
               Step(from, to)
        PROVE  TypeInv'
    BY <2>1, StepType DEF TypeInv
  <2>2. {"collect", "serve", "end", "last", "retry", "close", "house"} \subseteq
            WorkerLabels \ Handling
    BY DEF WorkerLabels, Handling
  <2>3. WRetryLater => TypeInv'
    BY <2>1, <2>2 DEF WRetryLater
  <2>4. WCollectNothing => TypeInv'
    BY <2>1, <2>2 DEF WCollectNothing
  <2>5. WHouseLater => TypeInv'
    BY <2>1, <2>2 DEF WHouseLater
  <2>6. WLoop => TypeInv'
    BY <2>1, <2>2 DEF WLoop
  <2>7. WServed => TypeInv'
    BY <2>1, <2>2 DEF WServed
  <2>8. QED
    BY <1>2, <2>3, <2>4, <2>5, <2>6, <2>7
<1>3. CASE WRetryDue
  <2>1. backlog \in Seq(Rec)
    BY <1>0 DEF TypeOK, WritingTypes
  <2>2. WritingTypes' /\ wpc' = "write"
    BY <1>3, <2>1, TakeType DEF WRetryDue, WritingTypes
  <2>3. ControlTypes'
    BY <1>0, <1>3, <2>2 DEF TypeOK, ControlTypes, WRetryDue, flags, WorkerLabels
  <2>4. HandleTypes' /\ DiskTypes'
    BY <1>0, <1>3, UnchangedTypes DEF TypeOK, WRetryDue, store
  <2>5. SharedTypes' /\ LeaderTypes' /\ HistoryTypes' /\ BoundTypes'
    BY <1>0, <1>3, LoopSideUnchangedTypes
    DEF TypeOK, WRetryDue, HistoryTypes, BoundTypes
  <2>6. FileObject'
    BY <1>0, <1>3, <2>2, UnchangedFileObject DEF Handling, WRetryDue
  <2>7. QED
    BY <2>2, <2>3, <2>4, <2>5, <2>6 DEF TypeOK, TypeInv
<1>4. CASE WCollect
  <2>1. pending \in Seq(Rec)
    BY <1>0 DEF TypeOK, SharedTypes
  <2>2. hand' \in Seq(Rec) /\ mode' \in {"live", "retry", "last"} /\ wpc' = "write"
        /\ pending' \in Seq(Rec)
    BY <1>4, <2>1, TakeType DEF WCollect
  <2>3. WritingTypes' /\ SharedTypes'
    BY <1>0, <1>4, <2>2 DEF TypeOK, WritingTypes, SharedTypes, WCollect
  <2>4. ControlTypes'
    BY <1>0, <1>4, <2>2 DEF TypeOK, ControlTypes, WCollect, flags, WorkerLabels
  <2>5. HandleTypes' /\ DiskTypes' /\ LeaderTypes' /\ HistoryTypes' /\ BoundTypes'
    BY <1>0, <1>4, UnchangedTypes DEF TypeOK, WCollect, store
  <2>6. FileObject'
    BY <1>0, <1>4, <2>2, UnchangedFileObject DEF Handling, WCollect
  <2>7. QED
    BY <2>3, <2>4, <2>5, <2>6 DEF TypeOK, TypeInv
<1>5. CASE WLast
  <2>1. backlog \in Seq(Rec)
    BY <1>0 DEF TypeOK, WritingTypes
  <2>2. WritingTypes' /\ wpc' \in {"write", "fserve"}
    BY <1>0, <1>5, <2>1, TakeType DEF WLast, WritingTypes, writing, Goto, TypeOK
  <2>3. ControlTypes'
    BY <1>0, <1>5, <2>2 DEF TypeOK, ControlTypes, WLast, flags, WorkerLabels
  <2>4. HandleTypes' /\ DiskTypes'
    BY <1>0, <1>5, UnchangedTypes DEF TypeOK, WLast, store
  <2>5. SharedTypes' /\ LeaderTypes' /\ HistoryTypes' /\ BoundTypes'
    BY <1>0, <1>5, LoopSideUnchangedTypes
    DEF TypeOK, WLast, HistoryTypes, BoundTypes
  <2>6. FileObject'
    BY <1>0, <1>5, <2>2, UnchangedFileObject DEF Handling, WLast
  <2>7. QED
    BY <2>2, <2>3, <2>4, <2>5, <2>6 DEF TypeOK, TypeInv
<1>6. CASE WDropBacklog
  <2>1. WritingTypes' /\ dropped' \in SUBSET Rec /\ wpc' = "fserve"
    BY <1>0, <1>6, ElemsType, SeqType
    DEF WDropBacklog, TypeOK, WritingTypes, HistoryTypes, Goto
  <2>2. ControlTypes'
    BY <1>0, <1>6, <2>1 DEF TypeOK, ControlTypes, WDropBacklog, flags, WorkerLabels
  <2>3. HandleTypes' /\ DiskTypes'
    BY <1>0, <1>6, UnchangedTypes DEF TypeOK, WDropBacklog, store
  <2>4. SharedTypes' /\ LeaderTypes' /\ HistoryTypes' /\ BoundTypes'
    BY <1>0, <1>6, <2>1, LoopSideUnchangedTypes
    DEF TypeOK, WDropBacklog, BoundTypes
  <2>5. FileObject'
    BY <1>0, <1>6, <2>1, UnchangedFileObject DEF Handling, WDropBacklog
  <2>6. QED
    BY <2>1, <2>2, <2>3, <2>4, <2>5 DEF TypeOK, TypeInv
<1>7. CASE WReady
  <2>1. PICK to \in {"rotate", "append"} :
           Step("write", to) /\ file # "none"
                             /\ (to = "rotate" <=> curSize >= SegmentUnits)
    BY <1>7 DEF WReady
  <2>2. TypeOK'
    BY <1>0, <2>1, StepType DEF WorkerLabels, TypeInv
  <2>3. file \in {"none", "open", "closed"}
    BY <1>0 DEF TypeOK, HandleTypes
  <2>4. FileObject'
    BY <1>0, <2>1, <2>3 DEF FileObject, Step, Goto, store, handle, disk
  <2>5. QED
    BY <2>2, <2>4 DEF TypeInv
<1>. QED
  BY <1>1, <1>2, <1>3, <1>4, <1>5, <1>6, <1>7

\* The steps that write a batch.
LEMMA WritePathType == TypeInv /\ WritePath => TypeInv'
<1>. SUFFICES ASSUME TypeInv, WritePath PROVE TypeInv'
  OBVIOUS
<1>0. TypeOK /\ FileObject
  BY DEF TypeInv
<1>t. /\ SharedTypes /\ ControlTypes /\ WritingTypes /\ HandleTypes /\ DiskTypes
      /\ LeaderTypes /\ HistoryTypes /\ BoundTypes
  BY <1>0 DEF TypeOK
<1>h. dropped \in SUBSET Rec /\ faults \in 0..MaxFaults /\ hand \in Seq(Rec)
  BY <1>t DEF HistoryTypes, BoundTypes, WritingTypes
<1>u. \A kind : Fault(kind) \/ NoFault => faults' \in 0..MaxFaults
  BY <1>t, FaultType
<1>f. files \in [DOMAIN files -> Seq(Units(Rec))] /\ buf \in Seq(Units(Rec))
  BY <1>t DEF DiskTypes, HandleTypes
<1>1. CASE WReopen
  <2>1. /\ LeaderTypes' /\ SharedTypes'
        /\ dropped' \in SUBSET Rec => HistoryTypes'
        /\ faults' \in 0..MaxFaults => BoundTypes'
    BY <1>0, <1>1, LoopSideUnchangedTypes DEF WReopen
  <2>2. faults' \in 0..MaxFaults
    BY <1>1, <1>u DEF WReopen
  <2>3. CASE NewSegment(files) /\ Goto("append") /\ UNCHANGED <<writing, diskHealthy, dropped>>
    <3>1. HandleTypes' /\ DiskTypes' /\ cur' \in DOMAIN files' /\ file' = "open"
      BY <1>t, <1>f, <2>3, NewSegmentType
    <3>2. WritingTypes'
      BY <1>t, <2>3, UnchangedTypes
    <3>3. ControlTypes'
      BY <1>t, <1>1, <2>3 DEF ControlTypes, WReopen, Goto, WorkerLabels
    <3>4. FileObject'
      BY <2>3, <3>1 DEF FileObject, Goto
    <3>5. QED
      BY <1>h, <2>1, <2>2, <2>3, <3>1, <3>2, <3>3, <3>4 DEF TypeInv, TypeOK
  <2>4. CASE NoNewSegment /\ WriteFailed({}) /\ UNCHANGED <<file, buf>>
    <3>1. /\ WritingTypes' /\ dropped' \in SUBSET Rec /\ diskHealthy' \in BOOLEAN
          /\ wpc' \in {"serve", "collect", "last", "drop"}
      BY <1>t, <1>h, <2>4, WriteFailedType
    <3>2. ControlTypes'
      BY <1>t, <1>1, <3>1 DEF ControlTypes, WReopen, WorkerLabels
    <3>3. HandleTypes' /\ DiskTypes'
      <4>1. /\ UNCHANGED <<files, acks, curSize, writesSinceFsync, file, buf>>
            /\ cur' = cur + 1
        BY <2>4 DEF NoNewSegment
      <4>2. HandleTypes'
        BY <1>t, <4>1 DEF HandleTypes
      <4>3. DOMAIN files' \subseteq Segments' /\ cur' \in Nat
        BY <1>t, <4>1 DEF DiskTypes, Segments
      <4>4. DiskTypes'
        BY <1>t, <4>1, <4>3 DEF DiskTypes
      <4>5. QED
        BY <4>2, <4>4
    <3>4. FileObject'
      BY <1>0, <1>1, <2>4, <3>1 DEF FileObject, NoNewSegment, WReopen
    <3>5. QED
      BY <2>1, <2>2, <3>1, <3>2, <3>3, <3>4 DEF TypeInv, TypeOK
  <2>5. QED
    BY <1>1, <2>3, <2>4 DEF WReopen
<1>2. CASE WRotate \/ WFsync
  <2>1. file = "open" /\ cur \in DOMAIN files
    BY <1>0, <1>2 DEF WRotate, WFsync, FileObject
  <2>2. PICK health \in BOOLEAN, failed \in BOOLEAN : FsyncCur(health, failed)
    BY <1>2, <1>t DEF WRotate, WFsync, ControlTypes, Recovered
  <2>3. /\ HandleTypes' /\ DiskTypes' /\ DOMAIN files' = DOMAIN files
        /\ diskHealthy' \in BOOLEAN /\ faults' \in 0..MaxFaults
    BY <1>2, <1>t, <2>2, FsyncCurType DEF WRotate, WFsync
  <2>4. /\ wpc' \in {"rollover", "serve", "collect", "last"}
        /\ wpc' = "rollover" => wpc = "rotate"
    BY <1>2, <1>t DEF WRotate, WFsync, Goto, AfterWrite, WritingTypes
  <2>5. ControlTypes'
    BY <1>2, <1>t, <2>3, <2>4 DEF WRotate, WFsync, ControlTypes, WorkerLabels
  <2>6. WritingTypes' /\ SharedTypes' /\ LeaderTypes' /\ HistoryTypes' /\ BoundTypes'
    BY <1>0, <1>t, <1>h, <1>2, <2>3, UnchangedTypes, LoopSideUnchangedTypes
    DEF WRotate, WFsync
  <2>7. FileObject'
    BY <1>0, <1>2, <2>1, <2>3, <2>4 DEF FileObject, WRotate, WFsync
  <2>8. QED
    BY <2>3, <2>5, <2>6, <2>7 DEF TypeInv, TypeOK
<1>3. CASE WRotateRaises
  <2>1. wpc' \in {"done", "end"} /\ WritingTypes'
    BY <1>3, <1>t, SeqType DEF WRotateRaises, Raised, Goto, WritingTypes
  <2>2. ControlTypes'
    BY <1>3, <1>t, <2>1 DEF WRotateRaises, ControlTypes, WorkerLabels, flags
  <2>3. HandleTypes' /\ DiskTypes'
    BY <1>3, <1>t, UnchangedTypes DEF WRotateRaises, store
  <2>4. SharedTypes' /\ LeaderTypes' /\ HistoryTypes' /\ BoundTypes'
    BY <1>0, <1>3, <1>h, LoopSideUnchangedTypes DEF WRotateRaises, Raised
  <2>5. FileObject'
    BY <1>0, <1>3, <2>1, UnchangedFileObject DEF Handling, WRotateRaises
  <2>6. QED
    BY <2>1, <2>2, <2>3, <2>4, <2>5 DEF TypeInv, TypeOK
<1>4. CASE WRollover
  <2>1. /\ LeaderTypes' /\ SharedTypes'
        /\ dropped' \in SUBSET Rec => HistoryTypes'
        /\ faults' \in 0..MaxFaults => BoundTypes'
    BY <1>0, <1>4, LoopSideUnchangedTypes DEF WRollover
  <2>2. faults' \in 0..MaxFaults
    BY <1>4, <1>u DEF WRollover
  <2>3. ASSUME NEW n \in 0..Len(buf),
               NewSegment([files EXCEPT ![cur] = @ \o Upto(buf, n)]),
               Goto("append"), UNCHANGED <<writing, diskHealthy, dropped>>
        PROVE  TypeInv'
    <3>1. HandleTypes' /\ DiskTypes' /\ cur' \in DOMAIN files' /\ file' = "open"
      <4>1. Upto(buf, n) \in Seq(Units(Rec))
        BY <1>f, CutType
      <4>2. QED
        BY <1>t, <2>3, <4>1, ExtendType, NewSegmentType
    <3>2. WritingTypes'
      BY <1>t, <2>3, UnchangedTypes
    <3>3. ControlTypes'
      BY <1>t, <1>4, <2>3 DEF ControlTypes, WRollover, Goto, WorkerLabels
    <3>4. FileObject'
      BY <2>3, <3>1 DEF FileObject, Goto
    <3>5. QED
      BY <1>h, <2>1, <2>2, <2>3, <3>1, <3>2, <3>3, <3>4 DEF TypeInv, TypeOK
  <2>4. CASE /\ cur' = cur + 1
             /\ files' = [files EXCEPT ![cur] = @ \o buf]
             /\ buf' = <<>> /\ file' = "closed" /\ WriteFailed({})
             /\ UNCHANGED <<acks, curSize, writesSinceFsync>>
    <3>1. /\ WritingTypes' /\ dropped' \in SUBSET Rec /\ diskHealthy' \in BOOLEAN
          /\ wpc' \in {"serve", "collect", "last", "drop"}
      BY <1>t, <1>h, <2>4, WriteFailedType
    <3>2. ControlTypes'
      BY <1>t, <1>4, <3>1 DEF ControlTypes, WRollover, WorkerLabels
    <3>3. HandleTypes' /\ DiskTypes'
      <4>1. files' \in [DOMAIN files -> Seq(Units(Rec))]
        <5>1. [files EXCEPT ![cur] = @ \o buf] \in [DOMAIN files -> Seq(Units(Rec))]
          BY <1>t, <1>f, ExtendType
        <5>2. QED
          BY <2>4, <5>1
      <4>2. HandleTypes'
        BY <1>t, <2>4, SeqType DEF HandleTypes
      <4>3. DOMAIN files' \subseteq Segments' /\ cur' \in Nat
        <5>1. DOMAIN files' = DOMAIN files
          BY <4>1
        <5>2. cur \in Nat /\ DOMAIN files \subseteq 1..cur
          BY <1>t DEF DiskTypes, Segments
        <5>3. cur' = cur + 1
          BY <2>4
        <5>4. QED
          BY <5>1, <5>2, <5>3 DEF Segments
      <4>4. DiskTypes'
        BY <1>t, <2>4, <4>1, <4>3 DEF DiskTypes
      <4>5. QED
        BY <4>2, <4>4
    <3>4. curSize >= SegmentUnits
      BY <1>0, <1>4 DEF WRollover, FileObject
    <3>5. FileObject'
      BY <2>4, <3>1, <3>4 DEF FileObject
    <3>6. QED
      BY <2>1, <2>2, <3>1, <3>2, <3>3, <3>5 DEF TypeInv, TypeOK
  <2>5. QED
    BY <1>4, <2>3, <2>4 DEF WRollover
<1>r. Refused \in SUBSET Rec
  BY <1>h, ElemsType DEF Refused
<1>5. CASE WAppend
  <2>1. file = "open" /\ cur \in DOMAIN files
    BY <1>0, <1>5 DEF WAppend, FileObject
  <2>a. PICK lines \in Encodings(hand) :
            /\ \E n \in 0..Len(buf \o Blob(lines)) :
                  /\ files' = [files EXCEPT ![cur] = @ \o Upto(buf \o Blob(lines), n)]
                  /\ buf' = From(buf \o Blob(lines), n)
            /\ curSize' = curSize + Len(Blob(lines))
            /\ writesSinceFsync' = writesSinceFsync + Len(lines)
    BY <1>5 DEF WAppend
  <2>2. PICK n \in 0..Len(buf \o Blob(lines)) :
            /\ files' = [files EXCEPT ![cur] = @ \o Upto(buf \o Blob(lines), n)]
            /\ buf' = From(buf \o Blob(lines), n)
    BY <2>a
  <2>3. lines \in Seq(Rec)
    BY <1>h, EncodingsType
  <2>4. /\ Blob(lines) \in Seq(Units(Rec)) /\ Len(Blob(lines)) \in Nat
        /\ buf \o Blob(lines) \in Seq(Units(Rec)) /\ Len(lines) \in Nat
    <3>1. Len(lines) \in Nat
      BY <2>3
    <3>2. Blob(lines) \in Seq(Units(Rec)) /\ Len(Blob(lines)) = 2 * Len(lines)
      BY <2>3, BlobType
    <3>3. buf \o Blob(lines) \in Seq(Units(Rec))
      BY <1>f, <3>2, SeqType
    <3>4. QED
      BY <3>1, <3>2, <3>3
  <2>5. files' \in [DOMAIN files -> Seq(Units(Rec))] /\ buf' \in Seq(Units(Rec))
    <3>1. /\ Upto(buf \o Blob(lines), n) \in Seq(Units(Rec))
          /\ From(buf \o Blob(lines), n) \in Seq(Units(Rec))
      BY <2>2, <2>4, CutType
    <3>2. QED
      BY <1>t, <2>2, <3>1, ExtendType
  <2>6. HandleTypes'
    <3>1. curSize \in Nat /\ writesSinceFsync \in Nat /\ file' = file
      BY <1>5, <1>t DEF WAppend, HandleTypes
    <3>2. curSize' \in Nat /\ writesSinceFsync' \in Nat
      <4>1. /\ curSize' = curSize + Len(Blob(lines))
            /\ writesSinceFsync' = writesSinceFsync + Len(lines)
        BY <2>a, Zenon
      <4>2. \A k, l \in Nat : k + l \in Nat
        OBVIOUS
      <4>3. QED
        BY <2>4, <3>1, <4>1, <4>2, Zenon
    <3>3. QED
      BY <1>t, <2>5, <3>1, <3>2 DEF HandleTypes
  <2>7. DiskTypes'
    BY <1>5, <1>t, <2>5 DEF WAppend, DiskTypes, Segments
  <2>8. wpc' \in {"fsync", "serve", "collect", "last"}
    BY <1>5, <1>t DEF WAppend, Goto, AfterWrite, WritingTypes
  <2>9. ControlTypes' /\ WritingTypes'
    BY <1>5, <1>t, <2>8, SeqType DEF WAppend, ControlTypes, WritingTypes, WorkerLabels
  <2>10. SharedTypes' /\ LeaderTypes' /\ HistoryTypes' /\ BoundTypes'
    BY <1>0, <1>5, <1>h, <1>r, LoopSideUnchangedTypes DEF WAppend
  <2>11. FileObject'
    BY <1>5, <2>1, <2>5, <2>8 DEF WAppend, FileObject
  <2>12. QED
    BY <2>6, <2>7, <2>9, <2>10, <2>11 DEF TypeInv, TypeOK
<1>6. CASE WAppendNothing
  <2>1. wpc' \in {"serve", "collect", "last"}
    BY <1>6, <1>t DEF WAppendNothing, Goto, AfterWrite, WritingTypes
  <2>2. diskHealthy' \in BOOLEAN
    BY <1>6, <1>t DEF WAppendNothing, Recovered, ControlTypes
  <2>3. ControlTypes' /\ WritingTypes'
    BY <1>6, <1>t, <2>1, <2>2, SeqType
    DEF WAppendNothing, ControlTypes, WritingTypes, WorkerLabels
  <2>4. HandleTypes' /\ DiskTypes'
    BY <1>6, <1>t, UnchangedTypes DEF WAppendNothing, store
  <2>5. SharedTypes' /\ LeaderTypes' /\ HistoryTypes' /\ BoundTypes'
    BY <1>0, <1>6, <1>h, <1>r, LoopSideUnchangedTypes DEF WAppendNothing
  <2>6. FileObject'
    BY <1>0, <1>6, <2>1, UnchangedFileObject DEF Handling, WAppendNothing
  <2>7. QED
    BY <2>3, <2>4, <2>5, <2>6 DEF TypeInv, TypeOK
<1>7. CASE WAppendFails
  <2>1. file = "open" /\ cur \in DOMAIN files
    BY <1>0, <1>7 DEF WAppendFails, FileObject
  <2>2. /\ files' \in [DOMAIN files -> Seq(Units(Rec))]
        /\ buf' \in Seq(Units(Rec)) /\ curSize' \in Nat
    <3>1. CASE /\ files' = [files EXCEPT ![cur] = Truncate(@ \o buf, curSize)]
               /\ buf' = <<>> /\ UNCHANGED curSize
      <4>1. files[cur] \in Seq(Units(Rec)) /\ curSize \in Nat
        BY <1>f, <1>t, <2>1 DEF HandleTypes
      <4>2. Truncate(files[cur] \o buf, curSize) \in Seq(Units(Rec))
        BY <1>f, <4>1, SeqType, TruncateType
      <4>3. QED
        BY <1>f, <2>1, <3>1, <4>1, <4>2, SeqType
    <3>2. ASSUME NEW lines \in Encodings(hand), NEW n \in 0..(Len(buf \o Blob(lines)) - 1),
                 files' = [files EXCEPT ![cur] = @ \o Upto(buf \o Blob(lines), n)],
                 buf' = From(buf, MinOf(n, Len(buf))), curSize' = Len(files'[cur])
          PROVE  /\ files' \in [DOMAIN files -> Seq(Units(Rec))]
                 /\ buf' \in Seq(Units(Rec)) /\ curSize' \in Nat
      <4>1. lines \in Seq(Rec)
        BY <1>h, EncodingsType
      <4>2. buf \o Blob(lines) \in Seq(Units(Rec))
        BY <1>f, <4>1, BlobType, SeqType
      <4>3. Len(buf \o Blob(lines)) \in Nat /\ n \in 0..Len(buf \o Blob(lines))
        BY <4>2
      <4>4. files' \in [DOMAIN files -> Seq(Units(Rec))]
        <5>1. Upto(buf \o Blob(lines), n) \in Seq(Units(Rec))
          BY <4>2, <4>3, CutType
        <5>2. QED
          BY <1>t, <3>2, <5>1, ExtendType
      <4>5. MinOf(n, Len(buf)) \in 0..Len(buf)
        BY <1>f, <4>3 DEF MinOf
      <4>6. buf' \in Seq(Units(Rec))
        BY <1>f, <3>2, <4>5, CutType
      <4>7. files'[cur] \in Seq(Units(Rec))
        BY <2>1, <4>4
      <4>8. Len(files'[cur]) \in Nat
        BY <4>7
      <4>9. curSize' \in Nat
        BY <3>2, <4>8
      <4>10. QED
        BY <4>4, <4>6, <4>9
    <3>3. QED
      BY <1>7, <3>1, <3>2 DEF WAppendFails
  <2>3. /\ WritingTypes' /\ dropped' \in SUBSET Rec /\ diskHealthy' \in BOOLEAN
        /\ wpc' \in {"serve", "collect", "last", "drop"}
    BY <1>7, <1>t, <1>h, <1>r, WriteFailedType DEF WAppendFails
  <2>4. HandleTypes'
    BY <1>7, <1>t, <2>2 DEF WAppendFails, HandleTypes
  <2>5. DiskTypes'
    BY <1>7, <1>t, <2>2 DEF WAppendFails, DiskTypes, Segments
  <2>6. ControlTypes'
    BY <1>7, <1>t, <2>3 DEF WAppendFails, ControlTypes, WorkerLabels
  <2>7. SharedTypes' /\ LeaderTypes' /\ HistoryTypes' /\ BoundTypes'
    BY <1>0, <1>7, <1>u, <2>3, LoopSideUnchangedTypes DEF WAppendFails
  <2>8. FileObject'
    BY <1>7, <2>1, <2>2, <2>3 DEF WAppendFails, FileObject
  <2>9. QED
    BY <2>3, <2>4, <2>5, <2>6, <2>7, <2>8 DEF TypeInv, TypeOK
<1>. QED
  BY <1>1, <1>2, <1>3, <1>4, <1>5, <1>6, <1>7, FlowType DEF WritePath

\* A drain lends tokens, and removes segments but never the current one.
LEMMA DrainBatchType ==
    ASSUME DiskTypes, NEW fs \in [DOMAIN files -> Seq(Units(Rec))]
    PROVE  DrainBatch(fs) \in Batch
<1>1. \A p \in Lines(fs) : /\ p = <<p[1], p[2]>>
                           /\ p[1] \in DOMAIN files /\ p[1] \in Nat \ {0}
                           /\ p[2] \in 1..Len(fs[p[1]])
  <2>1. TAKE p \in Lines(fs)
  <2>2. PICK s \in DOMAIN files : p \in {s} \X Whole(fs[s], acks[s])
    BY DEF Lines
  <2>3. fs[s] \in Seq(Units(Rec)) /\ acks[s] \in Nat /\ s \in Nat \ {0}
    BY DEF DiskTypes, Segments
  <2>4. Whole(fs[s], acks[s]) \subseteq 1..Len(fs[s])
    BY <2>3, WholeType
  <2>5. p[1] = s /\ p[2] \in Whole(fs[s], acks[s]) /\ p = <<p[1], p[2]>>
    BY <2>2
  <2>6. QED
    BY <2>3, <2>4, <2>5
<1>2. \A s \in DOMAIN files : fs[s] \in Seq(Units(Rec)) /\ Len(fs[s]) \in Nat
  OBVIOUS
<1>3. DrainBatch(fs).recs \subseteq Rec
  <2>1. \A p \in Delivered(fs) : fs[p[1]][p[2]][1] \in Rec
    BY <1>1, <1>2 DEF Delivered, Units
  <2>2. QED
    BY <2>1 DEF DrainBatch
<1>4. DrainBatch(fs).tokens \subseteq Token
  <2>1. Completing(fs) \subseteq Token
    <3>1. Completing(fs) \subseteq Lines(fs)
      BY DEF Completing
    <3>2. \A p \in Lines(fs) : <<p[1], p[2]>> \in Token
      BY <1>1, <1>2 DEF Token
    <3>3. QED
      BY <1>1, <3>1, <3>2
  <2>2. \A p \in Delivered(fs) : <<p[1], Len(fs[p[1]])>> \in Token
    BY <1>1, <1>2 DEF Delivered, Token
  <2>3. QED
    BY <2>1, <2>2 DEF DrainBatch
<1>5. QED
  BY <1>3, <1>4 DEF DrainBatch, Batch

\* The steps that serve a request.
LEMMA ControlType == TypeInv /\ Control => TypeInv'
<1>. SUFFICES ASSUME TypeInv, Control PROVE TypeInv'
  OBVIOUS
<1>0. TypeOK /\ FileObject
  BY DEF TypeInv
<1>t. /\ SharedTypes /\ ControlTypes /\ WritingTypes /\ HandleTypes /\ DiskTypes
      /\ LeaderTypes /\ HistoryTypes /\ BoundTypes
  BY <1>0 DEF TypeOK
<1>f. /\ files \in [DOMAIN files -> Seq(Units(Rec))] /\ buf \in Seq(Units(Rec))
      /\ requests \in Seq(Requests)
  BY <1>t DEF DiskTypes, HandleTypes, SharedTypes
<1>u. \A kind : Fault(kind) \/ NoFault => faults' \in 0..MaxFaults
  BY <1>t, FaultType
<1>s. ASSUME NEW kind, Serve(kind)
      PROVE  /\ SharedTypes' /\ WritingTypes' /\ HistoryTypes'
             /\ wpc' \in {"serve", "fserve"} /\ wpc' = wpc
             /\ faults' \in 0..MaxFaults => BoundTypes'
             /\ Head(requests) \in Requests
  <2>1. requests' \in Seq(Requests) /\ Head(requests) \in Requests
    BY <1>f, <1>s DEF Serve
  <2>2. SharedTypes' /\ WritingTypes' /\ HistoryTypes'
    BY <1>t, <1>s, <2>1, UnchangedTypes DEF Serve, SharedTypes
  <2>3. QED
    BY <1>t, <1>s, <2>1, <2>2 DEF Serve, Serving, BoundTypes
<1>k. ASSUME NEW kind, Serve(kind), inflight' \in SUBSET Token,
             UNCHANGED diskHealthy, diskHasData' \in BOOLEAN
      PROVE  ControlTypes'
  BY <1>t, <1>k, <1>s DEF ControlTypes, WorkerLabels
<1>a. ASSUME NEW batch \in Batch, Answer(batch) PROVE LeaderTypes'
  BY <1>t, <1>a, UnchangedTypes DEF Answer, LeaderTypes
<1>1. CASE WDrainNothing
  <2>1. PICK kind : Serve(kind)
    BY <1>1 DEF WDrainNothing
  <2>2. LeaderTypes'
    <3>1. NoBatch \in Batch
      BY DEF NoBatch, Batch
    <3>2. QED
      BY <1>1, <1>a, <3>1 DEF WDrainNothing
  <2>3. ControlTypes'
    BY <1>1, <1>t, <1>k, <2>1 DEF WDrainNothing, flags, ControlTypes
  <2>4. HandleTypes' /\ DiskTypes' /\ BoundTypes'
    BY <1>1, <1>t, <1>s, <2>1, UnchangedTypes DEF WDrainNothing, store, BoundTypes
  <2>5. FileObject'
    BY <1>0, <1>1, <1>s, <2>1, UnchangedFileObject DEF Handling, WDrainNothing
  <2>6. QED
    BY <1>s, <2>1, <2>2, <2>3, <2>4, <2>5 DEF TypeInv, TypeOK
<1>2. CASE WDrain
  <2>1. PICK kind : Serve(kind)
    BY <1>2 DEF WDrain
  <2>2. PICK n \in 0..Len(buf) :
           LET fs == IF buf = <<>> THEN files
                     ELSE [files EXCEPT ![cur] = @ \o Upto(buf, n)]
           IN  /\ IF n = Len(buf) THEN NoFault ELSE Fault("flush")
               /\ files' = Without(fs, Exhausted(fs))
               /\ acks' = Without(acks, Exhausted(fs))
               /\ buf' = From(buf, n)
               /\ inflight' = DrainBatch(fs).tokens
               /\ Answer(DrainBatch(fs))
    BY <1>2 DEF WDrain
  <2> DEFINE fs == IF buf = <<>> THEN files
                   ELSE [files EXCEPT ![cur] = @ \o Upto(buf, n)]
  <2>3. fs \in [DOMAIN files -> Seq(Units(Rec))] /\ buf' \in Seq(Units(Rec))
    BY <1>t, <1>f, <2>2, CutType, ExtendType
  <2>4. /\ IF n = Len(buf) THEN NoFault ELSE Fault("flush")
        /\ files' = Without(fs, Exhausted(fs))
        /\ acks' = Without(acks, Exhausted(fs))
        /\ buf' = From(buf, n)
        /\ inflight' = DrainBatch(fs).tokens
        /\ Answer(DrainBatch(fs))
    BY <2>2
  <2>. HIDE DEF fs
  <2>5. DrainBatch(fs) \in Batch /\ DrainBatch(fs).tokens \in SUBSET Token
    BY <1>t, <2>3, DrainBatchType DEF Batch
  <2>6. LeaderTypes'
    BY <1>a, <2>4, <2>5
  <2>7. diskHasData' \in BOOLEAN
    BY <1>2 DEF WDrain, AnyUnacked
  <2>8. ControlTypes'
    BY <1>2, <1>k, <2>1, <2>4, <2>5, <2>7 DEF WDrain
  <2>9. DiskTypes' /\ DOMAIN files' = DOMAIN files \ Exhausted(fs)
    BY <1>2, <1>t, <2>3, <2>4, WithoutType DEF WDrain
  <2>10. HandleTypes'
    BY <1>2, <1>t, <2>3 DEF WDrain, HandleTypes
  <2>11. BoundTypes'
    BY <1>s, <1>u, <2>1, <2>4
  <2>12. FileObject'
    <3>1. cur \notin Exhausted(fs)
      BY DEF Exhausted
    <3>2. file # "open" => buf' = <<>>
      BY <1>0, <2>4 DEF FileObject, From
    <3>3. QED
      BY <1>0, <1>2, <1>s, <2>1, <2>9, <3>1, <3>2 DEF WDrain, FileObject
  <2>13. QED
    BY <1>s, <2>1, <2>6, <2>8, <2>9, <2>10, <2>11, <2>12 DEF TypeInv, TypeOK
<1>3. CASE WReturn
  <2>1. PICK kind : Serve(kind)
    BY <1>3 DEF WReturn
  <2>2. ControlTypes'
    BY <1>3, <1>t, <1>k, <2>1 DEF WReturn, flags, ControlTypes
  <2>3. HandleTypes' /\ DiskTypes' /\ BoundTypes' /\ LeaderTypes'
    BY <1>3, <1>t, <1>s, <2>1, UnchangedTypes DEF WReturn, store, BoundTypes
  <2>4. FileObject'
    BY <1>0, <1>3, <1>s, <2>1, UnchangedFileObject DEF Handling, WReturn
  <2>5. QED
    BY <1>s, <2>1, <2>2, <2>3, <2>4 DEF TypeInv, TypeOK
<1>4. CASE WAck
  <2>1. Serve("ack")
    BY <1>4 DEF WAck
  <2> DEFINE tokens == Head(requests).tokens
             gone == Finished(tokens)
  <2>2. tokens \subseteq Token
    BY <1>s, <2>1 DEF Requests
  <2>3. /\ files' = Without(files, gone)
        /\ \/ acks' = [s \in DOMAIN files \ gone |->
                           IF \E t \in tokens : t[1] = s
                           THEN (CHOOSE t \in tokens : t[1] = s)[2]
                           ELSE acks[s]]
           \/ acks' = Without(acks, gone)
    BY <1>4 DEF WAck
  <2>4. faults' \in 0..MaxFaults
    BY <1>4, <1>u DEF WAck
  <2>5. cur \notin gone
    BY DEF Finished
  <2>. HIDE DEF tokens, gone
  <2>6. DOMAIN files' = DOMAIN files \ gone
        /\ files' \in [DOMAIN files \ gone -> Seq(Units(Rec))]
    BY <1>f, <2>3 DEF Without
  <2>7. acks' \in [DOMAIN files \ gone -> Nat]
    <3>1. CASE acks' = Without(acks, gone)
      BY <1>t, <3>1 DEF Without, DiskTypes
    <3>2. CASE acks' = [s \in DOMAIN files \ gone |->
                           IF \E t \in tokens : t[1] = s
                           THEN (CHOOSE t \in tokens : t[1] = s)[2]
                           ELSE acks[s]]
      <4>1. ASSUME NEW s \in DOMAIN files \ gone
            PROVE  (IF \E t \in tokens : t[1] = s
                    THEN (CHOOSE t \in tokens : t[1] = s)[2]
                    ELSE acks[s]) \in Nat
        BY <1>t, <2>2 DEF Token, DiskTypes
      <4>2. QED
        BY <3>2, <4>1
    <3>3. QED
      BY <2>3, <3>1, <3>2
  <2>8. DiskTypes'
    BY <1>4, <1>t, <2>6, <2>7 DEF WAck, DiskTypes, Segments
  <2>9. ControlTypes'
    <3>1. inflight' \in SUBSET Token /\ diskHasData' \in BOOLEAN
      BY <1>4 DEF WAck, AnyUnacked
    <3>2. QED
      BY <1>4, <1>k, <2>1, <3>1 DEF WAck
  <2>10. HandleTypes' /\ LeaderTypes'
    BY <1>4, <1>t, UnchangedTypes DEF WAck
  <2>11. FileObject'
    BY <1>0, <1>4, <1>s, <2>1, <2>5, <2>6 DEF WAck, FileObject, handle
  <2>12. QED
    BY <1>s, <2>1, <2>4, <2>8, <2>9, <2>10, <2>11 DEF TypeInv, TypeOK
<1>5. CASE WFlush
  <2>1. Serve("flush")
    BY <1>5 DEF WFlush
  <2>2. CASE file = "open"
    <3>1. FsyncCur(diskHealthy, FALSE) /\ UNCHANGED <<curSize, file, acks, cur>>
      BY <1>5, <2>2 DEF WFlush
    <3>2. /\ HandleTypes' /\ DiskTypes' /\ DOMAIN files' = DOMAIN files
          /\ diskHealthy' \in BOOLEAN /\ faults' \in 0..MaxFaults
      BY <1>t, <3>1, FsyncCurType DEF ControlTypes
    <3>3. ControlTypes'
      BY <1>5, <1>t, <1>s, <2>1, <3>2 DEF WFlush, ControlTypes, AnyUnacked, WorkerLabels
    <3>4. LeaderTypes'
      BY <1>5, <1>t, UnchangedTypes DEF WFlush
    <3>5. FileObject'
      BY <1>0, <1>s, <2>1, <2>2, <3>1, <3>2 DEF FileObject
    <3>6. QED
      BY <1>s, <2>1, <3>2, <3>3, <3>4, <3>5 DEF TypeInv, TypeOK
  <2>3. CASE file # "open"
    <3>1. UNCHANGED <<diskHealthy, store, faults, leader, inflight>>
      BY <1>5, <2>3 DEF WFlush, NoFault, store, handle, disk
    <3>2. HandleTypes' /\ DiskTypes' /\ LeaderTypes'
      BY <1>t, <3>1, UnchangedTypes DEF store
    <3>3. ControlTypes' /\ BoundTypes'
      BY <1>5, <1>t, <1>s, <2>1, <3>1
      DEF WFlush, ControlTypes, AnyUnacked, WorkerLabels, BoundTypes
    <3>4. FileObject'
      BY <1>0, <1>s, <2>1, <3>1, UnchangedFileObject DEF Handling
    <3>5. QED
      BY <1>s, <2>1, <3>2, <3>3, <3>4 DEF TypeInv, TypeOK
  <2>4. QED
    BY <2>2, <2>3
<1>. QED
  BY <1>1, <1>2, <1>3, <1>4, <1>5, FlowType DEF Control

\* The records a removed segment held are records.
LEMMA GivenType ==
    ASSUME DiskTypes, NEW gone \in SUBSET DOMAIN files
    PROVE  Given(gone) \in SUBSET Rec
BY ReadableType DEF Given, DiskTypes

\* The start of the worker, the cap and the end.
LEMMA EdgeType == TypeInv /\ (WStart \/ WHouse \/ WClose) => TypeInv'
<1>. SUFFICES ASSUME TypeInv, WStart \/ WHouse \/ WClose PROVE TypeInv'
  OBVIOUS
<1>0. TypeOK /\ FileObject
  BY DEF TypeInv
<1>t. /\ SharedTypes /\ ControlTypes /\ WritingTypes /\ HandleTypes /\ DiskTypes
      /\ LeaderTypes /\ HistoryTypes /\ BoundTypes
  BY <1>0 DEF TypeOK
<1>h. dropped \in SUBSET Rec /\ faults \in 0..MaxFaults
  BY <1>t DEF HistoryTypes, BoundTypes
<1>u. \A kind : Fault(kind) \/ NoFault => faults' \in 0..MaxFaults
  BY <1>t, FaultType
<1>f. files \in [DOMAIN files -> Seq(Units(Rec))] /\ buf \in Seq(Units(Rec))
  BY <1>t DEF DiskTypes, HandleTypes
<1>1. CASE WStart
  <2>1. SharedTypes' /\ LeaderTypes' /\ HistoryTypes' /\ BoundTypes' /\ WritingTypes'
    <3>1. faults' \in 0..MaxFaults
      BY <1>1, <1>u DEF WStart
    <3>2. QED
      BY <1>0, <1>1, <1>h, <1>t, <3>1, LoopSideUnchangedTypes, UnchangedTypes DEF WStart
  <2>2. HandleTypes' /\ DiskTypes' /\ diskHealthy' \in BOOLEAN
    <3>1. CASE NewSegment(files) /\ UNCHANGED diskHealthy
      <4>1. HandleTypes' /\ DiskTypes'
        BY <1>t, <1>f, <3>1, NewSegmentType
      <4>2. diskHealthy' \in BOOLEAN
        BY <1>t, <3>1 DEF ControlTypes
      <4>3. QED
        BY <4>1, <4>2
    <3>2. CASE NoNewSegment /\ UNCHANGED <<file, buf>>
      <4>1. HandleTypes'
        BY <1>t, <3>2 DEF NoNewSegment, HandleTypes
      <4>2. DiskTypes'
        BY <1>t, <3>2 DEF NoNewSegment, DiskTypes, Segments
      <4>3. QED
        BY <3>2, <4>1, <4>2 DEF NoNewSegment
    <3>3. QED
      BY <1>1, <3>1, <3>2 DEF WStart
  <2>3. ControlTypes'
    BY <1>1, <1>t, <2>2 DEF WStart, ControlTypes, AnyUnacked, WorkerLabels, Goto
  <2>4. FileObject'
    <3>1. CASE NewSegment(files)
      BY <1>1, <1>t, <1>f, <3>1, NewSegmentType DEF WStart, Goto, FileObject
    <3>2. CASE NoNewSegment /\ UNCHANGED <<file, buf>>
      <4>1. file # "open" => FileObject'
        BY <1>0, <1>1, <3>2 DEF FileObject, NoNewSegment, WStart, Goto
      <4>2. file # "open"
        BY <1>0, <1>1 DEF FileObject, WStart
      <4>3. QED
        BY <4>1, <4>2
    <3>3. QED
      BY <1>1, <3>1, <3>2 DEF WStart
  <2>5. QED
    BY <2>1, <2>2, <2>3, <2>4 DEF TypeInv, TypeOK
<1>2. CASE WHouse
  <2>1. Victims \subseteq DOMAIN files \ {cur}
    BY DEF Victims, Candidates
  <2>2. dropped' \in SUBSET Rec
    BY <1>2, <1>t, <1>h, <2>1, GivenType DEF WHouse
  <2>3. DiskTypes' /\ DOMAIN files' = DOMAIN files \ Victims
    BY <1>2, <1>t, <1>f, WithoutType DEF WHouse
  <2>4. ControlTypes'
    BY <1>2, <1>t DEF WHouse, ControlTypes, AnyUnacked, WorkerLabels, Goto
  <2>5. HandleTypes' /\ WritingTypes'
    BY <1>2, <1>t, UnchangedTypes DEF WHouse
  <2>6. SharedTypes' /\ LeaderTypes' /\ HistoryTypes' /\ BoundTypes'
    BY <1>0, <1>2, <1>h, <2>2, LoopSideUnchangedTypes DEF WHouse
  <2>7. FileObject'
    BY <1>0, <1>2, <2>1, <2>3 DEF WHouse, FileObject, handle, Goto
  <2>8. QED
    BY <2>3, <2>4, <2>5, <2>6, <2>7 DEF TypeInv, TypeOK
<1>3. CASE WClose
  <2>1. WritingTypes' /\ SharedTypes' /\ LeaderTypes' /\ HistoryTypes' /\ BoundTypes'
    <3>1. faults' \in 0..MaxFaults
      BY <1>3, <1>u DEF WClose, FlushAndDiscard
    <3>2. QED
      BY <1>0, <1>3, <1>t, <1>h, <3>1, LoopSideUnchangedTypes, UnchangedTypes DEF WClose
  <2>2. ControlTypes'
    BY <1>3, <1>t DEF WClose, ControlTypes, AnyUnacked, WorkerLabels, Goto
  <2>3. files' \in [DOMAIN files -> Seq(Units(Rec))] /\ buf' \in Seq(Units(Rec))
    <3>1. ASSUME NEW n \in 0..Len(buf),
                 files' = [files EXCEPT ![cur] = @ \o Upto(buf, n)]
          PROVE  files' \in [DOMAIN files -> Seq(Units(Rec))]
      BY <1>t, <1>f, <3>1, CutType, ExtendType
    <3>2. CASE file = "open"
      <4>1. CASE FlushUnits(Len(buf))
        <5>1. Len(buf) \in 0..Len(buf)
          BY <1>f
        <5>2. files' = [files EXCEPT ![cur] = @ \o Upto(buf, Len(buf))]
              /\ buf' = From(buf, Len(buf))
          BY <4>1 DEF FlushUnits
        <5>3. QED
          BY <1>f, <3>1, <5>1, <5>2, CutType
      <4>2. CASE /\ \E n \in 0..(Len(buf) - 1) :
                       files' = [files EXCEPT ![cur] = @ \o Upto(buf, n)]
                 /\ buf' = <<>>
        <5>1. PICK n \in 0..(Len(buf) - 1) :
                 files' = [files EXCEPT ![cur] = @ \o Upto(buf, n)]
          BY <4>2
        <5>2. n \in 0..Len(buf)
          BY <1>f
        <5>3. QED
          BY <3>1, <4>2, <5>1, <5>2, SeqType
      <4>3. QED
        BY <1>3, <3>2, <4>1, <4>2 DEF WClose, FlushAndDiscard
    <3>3. CASE file # "open"
      BY <1>3, <1>f, <3>3 DEF WClose
    <3>4. QED
      BY <3>2, <3>3
  <2>4. HandleTypes' /\ DiskTypes'
    BY <1>3, <1>t, <2>3 DEF WClose, HandleTypes, DiskTypes, Segments
  <2>5. FileObject'
    <3>1. file = "open" => buf' = <<>>
      BY <1>3, <1>f DEF WClose, FlushAndDiscard, FlushUnits, From
    <3>2. QED
      BY <1>0, <1>3, <3>1 DEF WClose, FileObject, Goto
  <2>6. QED
    BY <2>1, <2>2, <2>4, <2>5 DEF TypeInv, TypeOK
<1>. QED
  BY <1>1, <1>2, <1>3

\* A process that starts finds the directory as it was left.
LEMMA ProcessType == TypeInv /\ Process => TypeInv'
<1>. SUFFICES ASSUME TypeInv, Process PROVE TypeInv'
  OBVIOUS
<1>t. TypeOK
  BY DEF TypeInv
<1>1. Boot
  BY DEF Process, Restart, Crash
<1>2. SharedTypes' /\ WritingTypes'
  BY <1>1, SeqType DEF Boot, SharedTypes, WritingTypes
<1>3. ControlTypes' /\ HandleTypes'
  BY <1>1, SeqType DEF Boot, ControlTypes, HandleTypes, WorkerLabels
<1>4. DiskTypes'
  BY <1>t, <1>1, UnchangedTypes DEF Boot, TypeOK
<1>5. LeaderTypes' /\ BoundTypes'
  BY <1>t, <1>1 DEF Boot, LeaderTypes, BoundTypes, TypeOK, NoBatch, Batch
<1>6. HistoryTypes'
  <2>1. InMemory \subseteq Rec
    <3>1. {u[1] : u \in Elems(buf)} \subseteq Rec
      BY <1>t DEF TypeOK, HandleTypes, Elems, Units
    <3>2. QED
      BY <1>t, <3>1, ElemsType DEF InMemory, TypeOK, SharedTypes, WritingTypes
  <2>2. lost' \in SUBSET Rec
    BY <1>t, <2>1 DEF Process, Restart, Crash, TypeOK, HistoryTypes
  <2>3. QED
    BY <1>t, <1>1, <2>2 DEF Boot, TypeOK, HistoryTypes
<1>7. FileObject'
  BY <1>1, SeqType DEF Boot, FileObject
<1>8. QED
  BY <1>2, <1>3, <1>4, <1>5, <1>6, <1>7 DEF TypeInv, TypeOK

\* The inductive invariant behind the types.
LEMMA TypeInvHolds == Spec => []TypeInv
<1>1. Init => TypeInv
  <2>1. Init => FileObject
    BY DEF Init, FileObject
  <2>2. QED
    BY <2>1, InitType DEF TypeInv
<1>2. TypeInv /\ [Next]_vars => TypeInv'
  <2>. SUFFICES ASSUME TypeInv, [Next]_vars PROVE TypeInv'
    OBVIOUS
  <2>1. CASE Loop \/ Leader
    <3>1. UNCHANGED worker
      BY <2>1 DEF Loop, Leader, Write, Close, Ask, Resume, DrainTimeout,
                  CommitOk, CommitFails, LeaderCancelled
    <3>2. QED
      BY <2>1, <3>1, LoopType, UnchangedFileObject DEF TypeInv, worker
  <2>2. CASE Worker
    BY <2>2, FlowType, WritePathType, ControlType, EdgeType DEF Worker
  <2>3. CASE Process
    BY <2>3, ProcessType
  <2>4. CASE UNCHANGED vars
    <3>1. UNCHANGED <<worker, shared, leader, history, bounds>>
      BY <2>4 DEF vars, worker, store
    <3>2. TypeOK'
      BY <3>1, WorkerUnchangedTypes, UnchangedTypes DEF TypeInv, TypeOK
    <3>3. FileObject'
      BY <3>1, UnchangedFileObject DEF TypeInv, worker
    <3>4. QED
      BY <3>2, <3>3 DEF TypeInv
  <2>5. QED
    BY <2>1, <2>2, <2>3, <2>4 DEF Next, Terminated
<1>3. QED
  BY <1>1, <1>2, PTL DEF Spec

\* Every variable of SpillBuffer always has its type, whatever fails.
THEOREM TypeCorrect == Spec => []TypeOK
<1>1. TypeInv => TypeOK
  BY DEF TypeInv
<1>2. QED
  BY <1>1, TypeInvHolds, PTL
-----------------------------------------------------------------------------
(* The loan of a batch: what the worker has lent (_inflight) against what  *)
(* the replay leader has in hand, through a first-in first-out queue of    *)
(* requests.                                                               *)

\* The drain the leader waits for is the only one, an abandoned one has been
\* orphaned, and nothing but the flush of close() is queued behind it.
OneLiveDrain ==
    \A i \in DOMAIN requests :
        requests[i].kind = "drain" =>
            /\ cpc = "wait"
            /\ \A j \in DOMAIN requests : i < j => requests[j].kind = "flush"

LeaseInv == OneLiveDrain /\ LeaseIsInflight

Holding == cpc = "commit" \/ (cpc = "answered" /\ lease.recs # {})

\* The worker's steps that serve no request touch none of it.
LEMMA OtherStepsKeepLease ==
    Worker /\ ~(\E kind : Serve(kind)) => UNCHANGED <<requests, inflight, leader>>
BY DEF Worker, WStart, WRetryNothing, WRetryLater, WRetryDue, WCollect,
       WCollectNothing, WritePath, Control, WHouse, WHouseLater, WLoop, WLast,
       WDropBacklog, WClose, WReady, WReopen, WRotate, WRotateRaises,
       WRollover, WAppend, WAppendNothing, WAppendFails, WFsync, WDrainNothing,
       WDrain, WAck, WReturn, WFlush, WServed, Step, loopSide, shared, leader

\* A step that serves a request serves the head of the queue.
LEMMA ServingSteps ==
    ASSUME Control, NEW kind, Serve(kind)
    PROVE  \/ /\ kind \in DrainKinds
              /\ \/ inflight' = inflight /\ Answer(NoBatch)
                 \/ \E fs : inflight' = DrainBatch(fs).tokens /\ Answer(DrainBatch(fs))
           \/ /\ kind \in {"ack", "nack", "cancel"}
              /\ inflight' = {} /\ UNCHANGED leader
           \/ /\ kind = "flush"
              /\ UNCHANGED <<inflight, leader>>
<1>1. requests # <<>> /\ kind = Head(requests).kind
  BY DEF Serve
<1>2. CASE WDrainNothing
  BY <1>1, <1>2 DEF WDrainNothing, Serve
<1>3. CASE WDrain
  <2>1. kind \in DrainKinds
    BY <1>1, <1>3 DEF WDrain, Serve
  <2>2. \E fs : inflight' = DrainBatch(fs).tokens /\ Answer(DrainBatch(fs))
    BY <1>3 DEF WDrain
  <2>3. QED
    BY <2>1, <2>2
<1>4. CASE WAck
  BY <1>1, <1>4 DEF WAck, Serve
<1>5. CASE WReturn
  BY <1>1, <1>5 DEF WReturn, Serve
<1>6. CASE WFlush
  BY <1>1, <1>6 DEF WFlush, Serve
<1>7. CASE WServed
  BY <1>1, <1>7 DEF WServed
<1>8. QED
  BY <1>2, <1>3, <1>4, <1>5, <1>6, <1>7 DEF Control

LEMMA LeaseInvStep ==
    TypeOK /\ LeaseInv /\ [Next]_vars => LeaseInv'
<1>. SUFFICES ASSUME TypeOK, LeaseInv, [Next]_vars PROVE LeaseInv'
  OBVIOUS
<1>0. OneLiveDrain /\ LeaseIsInflight /\ requests \in Seq(Requests)
  BY DEF LeaseInv, TypeOK, SharedTypes
<1>u. ASSUME UNCHANGED <<requests, inflight, leader>> PROVE LeaseInv'
  BY <1>0, <1>u DEF LeaseInv, OneLiveDrain, LeaseIsInflight, leader
<1>1. CASE Loop
  <2>1. ASSUME NEW r \in Rec, Write(r) PROVE LeaseInv'
    BY <1>u, <2>1 DEF Write, worker
  <2>2. CASE Close
    <3>1. UNCHANGED <<inflight, leader>> /\ requests' = Append(requests, Request("flush", {}))
      BY <2>2 DEF Close, worker
    <3>2. /\ DOMAIN requests' = DOMAIN requests \cup {Len(requests) + 1}
          /\ \A i \in DOMAIN requests : requests'[i] = requests[i] /\ i <= Len(requests)
          /\ requests'[Len(requests) + 1].kind = "flush"
      BY <1>0, <3>1 DEF Request
    <3>3. OneLiveDrain'
      BY <1>0, <3>1, <3>2 DEF OneLiveDrain, leader
    <3>4. LeaseIsInflight'
      BY <1>0, <3>1, <3>2 DEF LeaseIsInflight, leader
    <3>5. QED
      BY <3>3, <3>4 DEF LeaseInv
  <2>3. QED
    BY <1>1, <2>1, <2>2 DEF Loop
<1>2. CASE Ask
  <2>1. /\ cpc = "idle" /\ cpc' = "wait"
        /\ requests' = Append(requests, Request("drain", {}))
    BY <1>2 DEF Ask
  <2>2. OneLiveDrain'
    BY <1>0, <2>1 DEF OneLiveDrain, Request
  <2>3. QED
    BY <2>1, <2>2 DEF LeaseInv, LeaseIsInflight
<1>3. CASE Resume
  BY <1>0, <1>3 DEF Resume, LeaseInv, OneLiveDrain, LeaseIsInflight, shared, worker
<1>4. CASE CommitOk \/ CommitFails
  <2>1. cpc = "commit" /\ cpc' = "idle"
    BY <1>4 DEF CommitOk, CommitFails
  <2>2. \A i \in DOMAIN requests : requests[i].kind # "drain"
    BY <1>0, <2>1 DEF OneLiveDrain
  <2>3. requests' \in {requests, Append(requests, Request("ack", lease.tokens)),
                       Append(requests, Request("nack", lease.tokens))}
    BY <1>4 DEF CommitOk, CommitFails, Send
  <2>4. OneLiveDrain'
    <3>1. CASE requests' = requests
      BY <2>2, <3>1 DEF OneLiveDrain
    <3>2. ASSUME NEW kind \in {"ack", "nack"},
                 requests' = Append(requests, Request(kind, lease.tokens))
          PROVE  \A i \in DOMAIN requests' : requests'[i].kind # "drain"
      <4>1. Request(kind, lease.tokens).kind # "drain"
        BY DEF Request
      <4>2. QED
        BY <1>0, <2>2, <3>2, <4>1
    <3>3. QED
      BY <2>3, <3>1, <3>2 DEF OneLiveDrain
  <2>5. QED
    BY <2>1, <2>4 DEF LeaseInv, LeaseIsInflight
<1>5. CASE DrainTimeout \/ LeaderCancelled
  <2>1. cpc' = "idle"
    BY <1>5 DEF DrainTimeout, LeaderCancelled
  <2>2. requests' \in {Orphaned(requests), Append(Orphaned(requests), Request("cancel", {}))}
    BY <1>5 DEF DrainTimeout, LeaderCancelled
  <2>3. Orphaned(requests) \in Seq(Requests)
        /\ \A i \in DOMAIN Orphaned(requests) : Orphaned(requests)[i].kind # "drain"
    <3>1. \A i \in DOMAIN requests : Orphaned(requests)[i].kind # "drain"
      BY DEF Orphaned, Request
    <3>2. QED
      BY <1>0, <3>1, OrphanedType
  <2>4. \A i \in DOMAIN requests' : requests'[i].kind # "drain"
    <3> DEFINE reqs == Orphaned(requests)
               last == Request("cancel", {})
    <3>1. last.kind # "drain" /\ last \in Requests
      BY RequestType DEF Request, RequestKinds
    <3>2. requests' \in {reqs, Append(reqs, last)} /\ reqs \in Seq(Requests)
          /\ \A i \in DOMAIN reqs : reqs[i].kind # "drain"
      BY <2>2, <2>3
    <3> HIDE DEF reqs, last
    <3>3. CASE requests' = reqs BY <3>2, <3>3
    <3>4. CASE requests' = Append(reqs, last)
      <4>1. \A i \in DOMAIN requests' :
                \/ i \in DOMAIN reqs /\ requests'[i] = reqs[i]
                \/ requests'[i] = last
        BY <3>1, <3>2, <3>4
      <4> QED BY <3>1, <3>2, <4>1
    <3> QED BY <3>2, <3>3, <3>4
  <2>5. QED
    BY <2>1, <2>4 DEF LeaseInv, OneLiveDrain, LeaseIsInflight
<1>6. CASE Worker /\ ~(\E kind : Serve(kind))
  BY <1>u, <1>6, OtherStepsKeepLease
<1>7. ASSUME NEW kind, Control, Serve(kind) PROVE LeaseInv'
  <2>1. /\ requests # <<>> /\ Head(requests).kind = kind
        /\ requests' = Tail(requests)
        /\ requests' \in Seq(Requests) /\ Len(requests') = Len(requests) - 1
        /\ requests[1].kind = kind /\ 1 \in DOMAIN requests
        /\ \A i \in DOMAIN requests' : requests'[i] = requests[i + 1]
                                       /\ i + 1 \in DOMAIN requests
    BY <1>0, <1>7 DEF Serve
  <2>2. CASE kind = "drain"
    <3>1. cpc = "wait" /\ \A j \in DOMAIN requests : 1 < j => requests[j].kind = "flush"
      BY <1>0, <2>1, <2>2 DEF OneLiveDrain
    <3>2. \A i \in DOMAIN requests' : requests'[i].kind = "flush"
      BY <1>0, <2>1, <3>1
    <3>3. LeaseIsInflight'
      BY <1>7, <2>1, <2>2, <3>2, ServingSteps
      DEF LeaseIsInflight, Answer, DrainKinds, NoBatch
    <3>4. QED
      BY <3>2, <3>3 DEF LeaseInv, OneLiveDrain
  <2>3. CASE kind # "drain"
    <3>1. UNCHANGED leader
      BY <1>7, <2>1, <2>3, ServingSteps DEF Answer, DrainKinds
    <3>2. OneLiveDrain'
      BY <1>0, <2>1, <3>1 DEF OneLiveDrain, leader
    <3>3. Holding => kind = "flush"
      BY <1>0, <2>1 DEF LeaseIsInflight, Holding
    <3>4. Holding => inflight' = inflight
      BY <1>7, <3>3, ServingSteps DEF DrainKinds
    <3>5. LeaseIsInflight'
      BY <1>0, <2>1, <3>1, <3>4 DEF LeaseIsInflight, Holding, leader
    <3>6. QED
      BY <3>2, <3>5 DEF LeaseInv
  <2>4. QED
    BY <2>2, <2>3
<1>8. CASE Process
  BY <1>8 DEF Process, Restart, Crash, Boot, LeaseInv, OneLiveDrain, LeaseIsInflight
<1>9. CASE UNCHANGED vars
  BY <1>u, <1>9 DEF vars, shared
<1>10. Worker => Control \/ ~(\E kind : Serve(kind))
  BY DEF Worker, WStart, WRetryNothing, WRetryLater, WRetryDue, WCollect,
         WCollectNothing, WritePath, WHouse, WHouseLater, WLoop, WLast,
         WDropBacklog, WClose, WReady, WReopen, WRotate, WRotateRaises,
         WRollover, WAppend, WAppendNothing, WAppendFails, WFsync, Step, Serve,
         Serving
<1>11. QED
  BY <1>1, <1>2, <1>3, <1>4, <1>5, <1>6, <1>7, <1>8, <1>9, <1>10
  DEF Next, Leader, Terminated

\* A batch the leader has in hand is the batch that is lent, whatever
\* combination of time-outs, cancellations, failures and restarts led there.
THEOREM LeaseCorrect == Spec => []LeaseIsInflight
<1>1. Init => LeaseInv
  BY DEF Init, LeaseInv, OneLiveDrain, LeaseIsInflight
<1>2. LeaseInv => LeaseIsInflight
  BY DEF LeaseInv
<1>3. QED
  BY <1>1, <1>2, LeaseInvStep, TypeCorrect, PTL DEF Spec
-----------------------------------------------------------------------------
(* Unless the leader is cancelled, a lent batch always comes back.         *)

Endings == {"ack", "nack", "cancel"}

\* An orphaned drain, which lends a batch to nobody, is followed by the
\* request that takes the batch back.  The leader is idle once the buffer is
\* closed, so its ack is never thrown away.
ReturnInv ==
    /\ \A i \in DOMAIN requests :
           requests[i].kind = "orphan" =>
               \E j \in DOMAIN requests : i < j /\ requests[j].kind = "cancel"
    /\ closed => cpc = "idle"
    /\ InflightIsReturned

\* A batch with tokens has records.
LEMMA TokensMeanRecords ==
    ASSUME NEW fs, DrainBatch(fs).tokens # {}
    PROVE  DrainBatch(fs).recs # {}
<1>1. PICK p : p \in Delivered(fs)
  <2>1. Completing(fs) # {} => Delivered(fs) # {}
    <3>1. SUFFICES ASSUME NEW q \in Completing(fs) PROVE q \in Delivered(fs)
      OBVIOUS
    <3>2. BatchSize - 1 < BatchSize
      BY ConstantsAssumption
    <3>3. QED
      BY <3>2 DEF Completing, Delivered
  <2>2. Delivered(fs) = {} => DrainBatch(fs).tokens = Completing(fs)
    BY DEF DrainBatch
  <2>3. QED
    BY <2>1, <2>2
<1>2. QED
  BY <1>1 DEF DrainBatch

LEMMA ReturnInvStep ==
    ASSUME "cancel" \notin Faults, TypeOK, LeaseInv, ReturnInv, [Next]_vars
    PROVE  ReturnInv'
<1>0. /\ requests \in Seq(Requests) /\ OneLiveDrain /\ InflightIsReturned
      /\ closed => cpc = "idle"
      /\ \A i \in DOMAIN requests :
            requests[i].kind = "orphan" =>
               \E j \in DOMAIN requests : i < j /\ requests[j].kind = "cancel"
  BY DEF LeaseInv, ReturnInv, TypeOK, SharedTypes
<1>u. ASSUME UNCHANGED <<requests, inflight, leader, closed>> PROVE ReturnInv'
  BY <1>0, <1>u DEF ReturnInv, InflightIsReturned, leader
\* A request added at the end disturbs no other.
<1>a. ASSUME NEW req \in Requests, req.kind # "orphan",
             requests' = Append(requests, req)
      PROVE  /\ \A i \in DOMAIN requests :
                    i \in DOMAIN requests' /\ requests'[i] = requests[i]
             /\ Len(requests') \in DOMAIN requests' /\ requests'[Len(requests')] = req
             /\ \A i \in DOMAIN requests' :
                   requests'[i].kind = "orphan" =>
                      \E j \in DOMAIN requests' : i < j /\ requests'[j].kind = "cancel"
  <2>1. /\ DOMAIN requests' = DOMAIN requests \cup {Len(requests) + 1}
        /\ \A i \in DOMAIN requests : requests'[i] = requests[i]
        /\ requests'[Len(requests) + 1] = req
        /\ Len(requests') = Len(requests) + 1
    BY <1>0, <1>a
  <2>2. QED
    BY <1>0, <1>a, <2>1
<1>1. CASE Loop
  <2>1. ASSUME NEW r \in Rec, Write(r) PROVE ReturnInv'
    BY <1>u, <2>1 DEF Write, worker
  <2>2. CASE Close
    <3>1. /\ requests' = Append(requests, Request("flush", {})) /\ inflight' = inflight
          /\ cpc = "idle" /\ cpc' = "idle"
      BY <2>2 DEF Close, worker, leader, OrphanLeader
    <3>2. Request("flush", {}) \in Requests /\ Request("flush", {}).kind # "orphan"
      BY RequestType DEF Request, RequestKinds
    <3>3. QED
      BY <1>0, <1>a, <3>1, <3>2 DEF ReturnInv, InflightIsReturned
  <2>3. QED
    BY <1>1, <2>1, <2>2 DEF Loop
<1>2. CASE Ask
  <2>1. /\ requests' = Append(requests, Request("drain", {})) /\ inflight' = inflight
        /\ ~closed /\ closed' = closed /\ cpc = "idle"
    BY <1>2 DEF Ask, worker, OrphanLeader
  <2>2. Request("drain", {}) \in Requests /\ Request("drain", {}).kind # "orphan"
    BY RequestType DEF Request, RequestKinds
  <2> DEFINE req == Request("drain", {})
  <2>3. /\ req \in Requests /\ req.kind # "orphan"
        /\ requests' = Append(requests, req)
    BY <2>1, <2>2
  <2> HIDE DEF req
  <2>4. /\ \A i \in DOMAIN requests :
               i \in DOMAIN requests' /\ requests'[i] = requests[i]
        /\ \A i \in DOMAIN requests' :
               requests'[i].kind = "orphan" =>
                   \E j \in DOMAIN requests' : i < j /\ requests'[j].kind = "cancel"
    BY <1>0, <1>a, <2>3
  <2>5. InflightIsReturned'
    BY <1>0, <2>1, <2>4 DEF InflightIsReturned
  <2>6. QED
    BY <2>1, <2>4, <2>5 DEF ReturnInv
<1>3. CASE Resume
  BY <1>0, <1>3 DEF Resume, ReturnInv, InflightIsReturned, shared, worker
<1>4. CASE CommitOk \/ CommitFails
  <2>1. cpc = "commit" /\ cpc' = "idle" /\ ~closed /\ closed' = closed
    BY <1>0, <1>4 DEF CommitOk, CommitFails
  <2>2. PICK kind \in {"ack", "nack"} :
           requests' = Append(requests, Request(kind, lease.tokens))
    BY <1>4, <2>1 DEF CommitOk, CommitFails, Send
  <2>3. Request(kind, lease.tokens) \in Requests
        /\ Request(kind, lease.tokens).kind = kind
    BY RequestType DEF Request, RequestKinds, TypeOK, LeaderTypes, Batch
  <2>4. QED
    BY <1>a, <2>1, <2>2, <2>3 DEF ReturnInv, InflightIsReturned
<1>5. CASE DrainTimeout
  <2> DEFINE gone == Orphaned(requests)
             cancel == Request("cancel", {})
  <2>1. /\ requests' = Append(gone, cancel) /\ closed' = closed /\ cpc' = "idle"
    BY <1>5 DEF DrainTimeout
  <2>2. gone \in Seq(Requests) /\ cancel \in Requests /\ cancel.kind = "cancel"
    BY <1>0, OrphanedType, RequestType DEF Request, RequestKinds
  <2>3. /\ Len(requests') = Len(gone) + 1
        /\ DOMAIN requests' = DOMAIN gone \cup {Len(gone) + 1}
        /\ DOMAIN gone = 1..Len(gone) /\ Len(gone) \in Nat
        /\ requests'[Len(gone) + 1] = cancel
    BY <2>1, <2>2
  <2>4. QED
    BY <2>1, <2>2, <2>3 DEF ReturnInv, InflightIsReturned
<1>6. CASE LeaderCancelled
  BY <1>6 DEF LeaderCancelled, Fault
<1>7. CASE Worker /\ ~(\E kind : Serve(kind))
  <2>1. closed' = closed
    BY <1>7 DEF Worker, WStart, WRetryNothing, WRetryLater, WRetryDue, WCollect,
       WCollectNothing, WritePath, Control, WHouse, WHouseLater, WLoop, WLast,
       WDropBacklog, WClose, WReady, WReopen, WRotate, WRotateRaises,
       WRollover, WAppend, WAppendNothing, WAppendFails, WFsync, WDrainNothing,
       WDrain, WAck, WReturn, WFlush, WServed, Step, loopSide, shared
  <2>2. QED
    BY <1>u, <1>7, <2>1, OtherStepsKeepLease
<1>8. ASSUME NEW kind, Control, Serve(kind) PROVE ReturnInv'
  <2>1. /\ requests # <<>> /\ Head(requests).kind = kind
        /\ requests' = Tail(requests) /\ closed' = closed
        /\ requests' \in Seq(Requests) /\ Len(requests') = Len(requests) - 1
        /\ requests[1].kind = kind /\ 1 \in DOMAIN requests
        /\ DOMAIN requests = 1..Len(requests) /\ Len(requests) \in Nat
        /\ DOMAIN requests' = 1..(Len(requests) - 1)
        /\ \A i \in DOMAIN requests' : requests'[i] = requests[i + 1]
    BY <1>0, <1>8 DEF Serve
  \* What stood behind the head is still there.
  <2>2. \A j \in DOMAIN requests :
           j # 1 => j - 1 \in DOMAIN requests' /\ requests'[j - 1] = requests[j]
    <3>1. TAKE j \in DOMAIN requests
    <3>2. HAVE j # 1
    <3>3. j - 1 \in DOMAIN requests' /\ (j - 1) + 1 = j
      BY <2>1, <3>2
    <3>4. QED
      BY <2>1, <3>3
  <2>3. \A i \in DOMAIN requests' :
           requests'[i].kind = "orphan" =>
              \E j \in DOMAIN requests' : i < j /\ requests'[j].kind = "cancel"
    <3>1. TAKE i \in DOMAIN requests'
    <3>2. HAVE requests'[i].kind = "orphan"
    <3>3. PICK j \in DOMAIN requests : i + 1 < j /\ requests[j].kind = "cancel"
      BY <1>0, <2>1, <3>2
    <3>4. j - 1 \in DOMAIN requests' /\ i < j - 1 /\ requests'[j - 1].kind = "cancel"
      BY <2>1, <2>2, <3>3
    <3>5. QED
      BY <3>4
  <2>4. closed' => cpc' = "idle"
    <3>1. kind = "drain" => cpc = "wait"
      BY <1>0, <2>1 DEF OneLiveDrain
    <3>2. kind # "drain" => UNCHANGED leader
      BY <1>8, <2>1, ServingSteps DEF Answer, DrainKinds
    <3>3. QED
      BY <1>0, <2>1, <3>1, <3>2 DEF leader
  <2>5. InflightIsReturned'
    <3>1. CASE kind = "drain"
      <4>1. cpc = "wait"
        BY <1>0, <2>1, <3>1 DEF OneLiveDrain
      <4>2. CASE inflight' = inflight
        BY <1>0, <2>1, <2>2, <3>1, <4>1, <4>2 DEF InflightIsReturned
      <4>3. ASSUME NEW fs, inflight' = DrainBatch(fs).tokens, Answer(DrainBatch(fs))
            PROVE  InflightIsReturned'
        BY <2>1, <3>1, <4>3, TokensMeanRecords DEF InflightIsReturned, Answer
      <4>4. QED
        BY <1>8, <3>1, <4>2, <4>3, ServingSteps DEF DrainKinds
    <3>2. CASE kind = "orphan"
      <4>1. PICK j \in DOMAIN requests : 1 < j /\ requests[j].kind = "cancel"
        BY <1>0, <2>1, <3>2
      <4>2. QED
        BY <2>2, <4>1 DEF InflightIsReturned
    <3>3. CASE kind \in Endings
      BY <1>8, <3>3, ServingSteps DEF InflightIsReturned, Endings, DrainKinds
    <3>4. CASE kind = "flush"
      <4>1. UNCHANGED <<inflight, leader>>
        BY <1>8, <3>4, ServingSteps DEF DrainKinds
      <4>2. QED
        BY <1>0, <2>1, <2>2, <3>4, <4>1 DEF InflightIsReturned, leader
    <3>5. QED
      BY <1>8, <3>1, <3>2, <3>3, <3>4, ServingSteps DEF Endings, DrainKinds
  <2>6. QED
    BY <2>3, <2>4, <2>5 DEF ReturnInv
<1>9. CASE Process
  BY <1>9 DEF Process, Restart, Crash, Boot, ReturnInv, InflightIsReturned
<1>10. CASE UNCHANGED vars
  BY <1>u, <1>10 DEF vars, shared
<1>11. Worker => Control \/ ~(\E kind : Serve(kind))
  BY DEF Worker, WStart, WRetryNothing, WRetryLater, WRetryDue, WCollect,
         WCollectNothing, WritePath, WHouse, WHouseLater, WLoop, WLast,
         WDropBacklog, WClose, WReady, WReopen, WRotate, WRotateRaises,
         WRollover, WAppend, WAppendNothing, WAppendFails, WFsync, Step, Serve,
         Serving
<1>12. QED
  BY <1>1, <1>2, <1>3, <1>4, <1>5, <1>6, <1>7, <1>8, <1>9, <1>10, <1>11
  DEF Next, Leader, Terminated

\* As long as the leader is never cancelled, a lent batch is in its hands or
\* the request that ends the loan is on its way: drains are never blocked for
\* good.  (A cancelled leader does not send them, README.md, section 6.)
THEOREM LoanReturned ==
    ASSUME "cancel" \notin Faults
    PROVE  Spec => []InflightIsReturned
<1>1. Init => ReturnInv /\ LeaseInv
  BY DEF Init, ReturnInv, InflightIsReturned, LeaseInv, OneLiveDrain, LeaseIsInflight
<1>2. ReturnInv => InflightIsReturned
  BY DEF ReturnInv
<1>3. TypeOK /\ LeaseInv /\ ReturnInv /\ [Next]_vars => ReturnInv'
  BY ReturnInvStep
<1>4. QED
  BY <1>1, <1>2, <1>3, LeaseInvStep, TypeCorrect, PTL DEF Spec
=============================================================================
