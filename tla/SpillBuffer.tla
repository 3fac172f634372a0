---------------------------- MODULE SpillBuffer ----------------------------
(***************************************************************************)
(* SpillBuffer of connector/db/spill.py: the disk buffer that keeps the    *)
(* values the in-memory queue has no room for, and gives them back to the  *)
(* replay leader once PostgreSQL accepts writes again.                     *)
(*                                                                         *)
(* Three parties run concurrently:                                         *)
(*   - the event loop, which calls write(), has_data() and close();        *)
(*   - the replay leader, a task of that loop, which asks for a batch with *)
(*     drain_async(), inserts it into the database and acks or nacks it;   *)
(*   - the worker thread, the only owner of the files.  Its loop is cut    *)
(*     into steps at the points where another party or a crash can be      *)
(*     observed in between: wpc is its program counter.                    *)
(* The environment may make a system call fail, abandon the leader or kill *)
(* the process; which of these a model allows is the constant Faults.      *)
(*                                                                         *)
(* Segments are numbered in the order of their time stamps, the order in   *)
(* which the code lists them.  The number of the last one survives a       *)
(* restart because it stands for the clock.                                *)
(***************************************************************************)
EXTENDS Naturals, Sequences, FiniteSets, FiniteSetsExt, SegmentFile

CONSTANTS
    Rec,            \* the records the event loop may write
    Unserializable, \* those that _dumps cannot encode
    PendingMax,     \* _PENDING_MAX, capacity of the internal queue
    RetryMax,       \* _retry_max, capacity of the retry backlog
    WriteBatch,     \* _WRITE_BATCH, records per write
    FsyncEvery,     \* fsync_every, records between two fsync
    SegmentUnits,   \* segment_bytes, in units
    MaxUnits,       \* max_bytes, in units
    BatchSize,      \* max_n of the leader's drains
    Faults,         \* the kinds of failure the environment may cause
    MaxFaults,      \* bound: failures in one behaviour
    MaxBoots        \* bound: starts of the process in one behaviour

FaultKinds == {"open", "rotate", "write", "discard", "fsync", "flush", "ack",
               "timeout", "commit", "cancel"}

ASSUME ConstantsAssumption ==
    /\ Unserializable \subseteq Rec
    /\ {PendingMax, RetryMax, WriteBatch, FsyncEvery, SegmentUnits, MaxUnits,
        BatchSize} \subseteq Nat \ {0}
    /\ Faults \subseteq FaultKinds
    /\ MaxFaults \in Nat
    /\ MaxBoots \in Nat \ {0}

VARIABLES
    \* shared by the event loop and the worker
    pending,      \* queue of records not yet seen by the worker
    requests,     \* control queue: drains, acks, nacks, cancels, flushes
    closed,       \* _closed, and the _stop event set in the same call
    diskHealthy,  \* flag that makes write() refuse records
    diskHasData,  \* cached answer of has_data()
    \* private to the worker
    wpc,          \* where the worker is in its loop
    hand,         \* the batch it is writing
    mode,         \* where that batch came from: "live", "retry" or "last"
    backlog,      \* _retry_backlog
    inflight,     \* _inflight: tokens lent and not yet confirmed ({} is None)
    curSize,      \* _cur_size
    writesSinceFsync,
    file,         \* _cur_file: "none", "open", or "closed" by a rotation
    buf,          \* units written to that file object, not yet in the file
    \* the directory
    files,        \* segment -> units in the file
    acks,         \* segment -> offset in its .ack file, 0 without one
    cur,          \* _cur_path, the last time stamp used
    \* the replay leader
    cpc,          \* "idle", "wait", "answered" or "commit"
    lease,        \* the batch it was answered
    \* history, and bounds
    accepted,     \* records for which write() returned True
    db,           \* records committed in the database
    dropped,      \* records counted by a metric when they were discarded
    lost,         \* records in memory only when the process was killed
    faults,       \* failures so far
    boots         \* starts of the process so far

shared   == <<pending, requests, closed>>
flags    == <<diskHealthy, diskHasData>>
writing  == <<hand, mode, backlog>>
handle   == <<curSize, writesSinceFsync, file, buf>>
disk     == <<files, acks, cur>>
leader   == <<cpc, lease>>
history  == <<accepted, db, dropped, lost>>
bounds   == <<faults, boots>>
store    == <<handle, disk>>
loopSide == <<shared, leader, accepted, db, lost, boots>>
worker   == <<flags, wpc, writing, inflight, store>>
vars     == <<shared, flags, wpc, writing, inflight, handle, disk, leader,
              history, bounds>>
-----------------------------------------------------------------------------
(* Sequences, batches and requests.                                        *)

Elems(s) == {s[i] : i \in DOMAIN s}

MinOf(a, b) == IF a < b THEN a ELSE b

\* What ReplayBatch carries: the records and a token <<segment, offset>> for
\* every segment they were read from.
NoBatch == [recs |-> {}, tokens |-> {}]

Request(kind, tokens) == [kind |-> kind, tokens |-> tokens]

\* Mutant: an answer goes to whoever waits when it is ready.
NeverOrphaned(reqs) == reqs

\* A drain whose future nobody awaits any more is answered to nobody.
Orphaned(reqs) ==
    [i \in DOMAIN reqs |->
        IF reqs[i].kind = "drain" THEN Request("orphan", {}) ELSE reqs[i]]

\* Failures: at most MaxFaults of the allowed kinds.
NoFault == UNCHANGED faults
Fault(kind) ==
    /\ kind \in Faults
    /\ faults < MaxFaults
    /\ faults' = faults + 1
-----------------------------------------------------------------------------
(* The directory.                                                          *)

\* The size the worker believes a segment to have.
SizeIn(fs, s) == IF s = cur THEN curSize ELSE Len(fs[s])
Size(s) == SizeIn(files, s)

\* Mutant: the segment being written is left out.
AnyUnackedBefore(fs, as, c, csize) ==
    \E s \in DOMAIN fs \ {c} : Len(fs[s]) > as[s]

\* _w_refresh_disk_flag: is any byte of some segment not acked yet?
AnyUnacked(fs, as, c, csize) ==
    \E s \in DOMAIN fs : (IF s = c THEN csize ELSE Len(fs[s])) > as[s]

Without(f, gone) == [s \in DOMAIN f \ gone |-> f[s]]

\* What a segment holds once the file object has been flushed.
Content(s) == IF s = cur /\ file = "open" THEN files[s] \o buf ELSE files[s]

\* The file object moves its first n buffered units to the file.
FlushUnits(n) ==
    /\ files' = [files EXCEPT ![cur] = @ \o Upto(buf, n)]
    /\ buf' = From(buf, n)

\* _w_open_new_segment: an empty file with the next time stamp.
NewSegment(fs) ==
    /\ cur' = cur + 1
    /\ files' = [s \in DOMAIN fs \cup {cur + 1} |->
                    IF s \in DOMAIN fs THEN fs[s] ELSE <<>>]
    /\ acks' = [s \in DOMAIN fs \cup {cur + 1} |->
                    IF s \in DOMAIN fs THEN acks[s] ELSE 0]
    /\ file' = "open"
    /\ buf' = <<>>
    /\ curSize' = 0
    /\ writesSinceFsync' = 0

\* os.open fails after _cur_path was set: the name is used, no file exists.
NoNewSegment ==
    /\ cur' = cur + 1
    /\ diskHealthy' = FALSE
    /\ UNCHANGED <<files, acks, curSize, writesSinceFsync>>

\* Mutant: os.fsync without the flush() before it.
FsyncUnflushed(health, failed) ==
    /\ NoFault
    /\ writesSinceFsync' = 0
    /\ diskHealthy' = health
    /\ UNCHANGED <<files, buf>>

\* _w_fsync_cur on an open file, and the flag its caller leaves when it
\* succeeds and when it fails.
FsyncCur(health, failed) ==
    \/ /\ NoFault
       /\ FlushUnits(Len(buf))
       /\ writesSinceFsync' = 0
       /\ diskHealthy' = health
    \/ /\ Fault("fsync")
       /\ FlushUnits(Len(buf))
       /\ diskHealthy' = failed
       /\ UNCHANGED writesSinceFsync
    \/ /\ Fault("flush")
       /\ \E n \in 0..(Len(buf) - 1) : FlushUnits(n)
       /\ diskHealthy' = failed
       /\ UNCHANGED writesSinceFsync

\* close() of the file object: it flushes first, and what it cannot flush is
\* gone with the object.
FlushAndDiscard ==
    \/ NoFault /\ FlushUnits(Len(buf))
    \/ /\ Fault("flush")
       /\ \E n \in 0..(Len(buf) - 1) :
              files' = [files EXCEPT ![cur] = @ \o Upto(buf, n)]
       /\ buf' = <<>>
-----------------------------------------------------------------------------
(* The event loop: write() and close().                                    *)

\* write(): the record goes to the internal queue.  A call that returns
\* False changes nothing here (its caller drops the oldest queued value).
Write(r) ==
    /\ r \notin accepted
    /\ ~closed
    /\ diskHealthy
    /\ Len(pending) < PendingMax
    /\ pending' = Append(pending, r)
    /\ accepted' = accepted \cup {r}
    /\ UNCHANGED <<worker, leader, bounds, requests, closed, db, dropped,
                   lost>>

\* A leader that nobody waited for: the session was cancelled while it was
\* stopping its writers, so they run on after main() has closed the buffer.
OrphanLeader == "cancel" \in Faults

\* close(), called by main() once the session has ended.
Close ==
    /\ ~closed
    /\ cpc = "idle" \/ OrphanLeader
    /\ closed' = TRUE
    /\ requests' = Append(requests, Request("flush", {}))
    /\ UNCHANGED <<worker, leader, history, bounds, pending>>
-----------------------------------------------------------------------------
(* The replay leader: BatchWriter._replay_spill around drain_async().      *)

\* Mutant: what is on disk is forgotten.
HasPending == pending # <<>>

HasData == pending # <<>> \/ diskHasData

Ask ==
    /\ cpc = "idle"
    /\ ~closed \/ OrphanLeader
    /\ HasData
    /\ requests' = Append(requests, Request("drain", {}))
    /\ cpc' = "wait"
    /\ UNCHANGED <<worker, history, bounds, pending, closed, lease>>

\* The future was set: an empty batch ends the replay, any other is flushed.
Resume ==
    /\ cpc = "answered"
    /\ cpc' = IF lease.recs = {} THEN "idle" ELSE "commit"
    /\ lease' = IF lease.recs = {} THEN NoBatch ELSE lease
    /\ UNCHANGED <<worker, shared, history, bounds>>

\* drain_timeout_s expired.  The worker may have set the future meanwhile:
\* its answer is ignored.
DrainTimeout ==
    /\ cpc \in {"wait", "answered"}
    /\ Fault("timeout")
    /\ requests' = Append(Orphaned(requests), Request("cancel", {}))
    /\ cpc' = "idle"
    /\ lease' = NoBatch
    /\ UNCHANGED <<worker, history, pending, closed, boots>>

\* Mutant: a failed insert is not nacked.
SendAckOnly(kind) ==
    requests' = IF closed \/ kind = "nack" THEN requests
                ELSE Append(requests, Request(kind, lease.tokens))

\* ack() and nack() do nothing once the buffer is closed.
Send(kind) ==
    requests' = IF closed THEN requests
                ELSE Append(requests, Request(kind, lease.tokens))

CommitOk ==
    /\ cpc = "commit"
    /\ db' = db \cup lease.recs
    /\ Send("ack")
    /\ cpc' = "idle"
    /\ lease' = NoBatch
    /\ UNCHANGED <<worker, bounds, pending, closed, accepted, dropped, lost>>

\* The insert fails; a connection lost during COMMIT leaves the rows in.
CommitFails ==
    /\ cpc = "commit"
    /\ Fault("commit")
    /\ \E stored \in {{}, lease.recs} : db' = db \cup stored
    /\ Send("nack")
    /\ cpc' = "idle"
    /\ lease' = NoBatch
    /\ UNCHANGED <<worker, pending, closed, accepted, dropped, lost, boots>>

\* _stop_writers cancels the task: CancelledError is not an Exception, so
\* neither drain_async nor _replay_spill cancels the drain or nacks it.  The
\* next session starts a new leader, which finds cpc = "idle".
LeaderCancelled ==
    /\ cpc # "idle"
    /\ Fault("cancel")
    /\ \E stored \in IF cpc = "commit" THEN {{}, lease.recs} ELSE {{}} :
           db' = db \cup stored
    /\ requests' = Orphaned(requests)
    /\ cpc' = "idle"
    /\ lease' = NoBatch
    /\ UNCHANGED <<worker, pending, closed, accepted, dropped, lost, boots>>
-----------------------------------------------------------------------------
(* The worker thread.                                                      *)

Goto(label) == wpc' = label

\* A step of its control flow that changes nothing else.
Step(from, to) ==
    /\ wpc = from
    /\ Goto(to)
    /\ UNCHANGED <<loopSide, flags, writing, inflight, store, dropped, faults>>

\* Start of _worker_loop.
WStart ==
    /\ wpc = "start"
    /\ \/ /\ NoFault
          /\ NewSegment(files)
          /\ UNCHANGED diskHealthy
       \/ /\ Fault("open")
          /\ NoNewSegment
          /\ UNCHANGED <<file, buf>>
    /\ diskHasData' = AnyUnacked(files', acks', cur', curSize')
    /\ Goto("retry")
    /\ UNCHANGED <<loopSide, writing, inflight, dropped>>

\* _w_retry_pending with an empty backlog declares the disk healthy again.
WRetryNothing ==
    /\ wpc = "retry"
    /\ backlog = <<>>
    /\ diskHealthy' = TRUE
    /\ Goto("collect")
    /\ UNCHANGED <<loopSide, store, writing, diskHasData, inflight, dropped,
                   faults>>

\* The backoff of the last failure has not elapsed.
WRetryLater == backlog # <<>> /\ Step("retry", "collect")

\* Takes a batch from the front of a queue into the worker's hand.
Take(queue, m) ==
    /\ hand' = Upto(queue, MinOf(Len(queue), WriteBatch))
    /\ mode' = m
    /\ Goto("write")

WRetryDue ==
    /\ wpc = "retry"
    /\ backlog # <<>>
    /\ Take(backlog, "retry")
    /\ backlog' = From(backlog, Len(hand'))
    /\ UNCHANGED <<loopSide, store, flags, inflight, dropped, faults>>

\* _collect_pending.
WCollect ==
    /\ wpc = "collect"
    /\ pending # <<>>
    /\ Take(pending, "live")
    /\ pending' = From(pending, Len(hand'))
    /\ UNCHANGED <<store, flags, leader, history, bounds, requests, closed,
                   backlog, inflight>>

WCollectNothing == pending = <<>> /\ Step("collect", "serve")

(* _w_write_batch(hand): reopen the file if there is none, rotate if the   *)
(* segment is full, append the lines, fsync every FsyncEvery records.      *)

\* Where the worker continues after the batch was written.
AfterWrite ==
    CASE mode = "live"  -> "serve"
      [] mode = "retry" -> "collect"
      [] mode = "last"  -> "last"

\* _w_retry_pending, once its batch is written: an empty backlog means that
\* the disk has recovered.
Recovered == mode # "live" /\ backlog = <<>>

\* _w_note_disk_error and _w_enqueue_retry: a batch from the queue goes to
\* the back of the backlog, a retried one back to its front.  What does not
\* fit is discarded from the front and counted.
WriteFailed(counted) ==
    LET all    == IF mode = "live" THEN backlog \o hand ELSE hand \o backlog
        excess == IF Len(all) > RetryMax THEN Len(all) - RetryMax ELSE 0
    IN  /\ backlog' = From(all, excess)
        /\ dropped' = dropped \cup counted \cup Elems(Upto(all, excess))
        /\ diskHealthy' = FALSE
        /\ hand' = <<>>
        /\ Goto(IF mode = "last" THEN "drop" ELSE AfterWrite)
        /\ UNCHANGED mode

\* An exception that is not an OSError ends the iteration, or the shutdown
\* sequence, and the batch that was in hand with it.
Raised ==
    /\ hand' = <<>>
    /\ Goto(IF mode = "last" THEN "done" ELSE "end")
    /\ UNCHANGED <<mode, backlog, dropped>>

WReady ==
    /\ file # "none"
    /\ Step("write", IF curSize >= SegmentUnits THEN "rotate" ELSE "append")

WReopen ==
    /\ wpc = "write"
    /\ file = "none"
    /\ \/ /\ NoFault
          /\ NewSegment(files)
          /\ Goto("append")
          /\ UNCHANGED <<writing, diskHealthy, dropped>>
       \/ /\ Fault("open")
          /\ NoNewSegment
          /\ WriteFailed({})
          /\ UNCHANGED <<file, buf>>
    /\ UNCHANGED <<loopSide, diskHasData, inflight>>

\* _w_rotate, first half: fsync of the full segment, whatever its outcome.
WRotate ==
    /\ wpc = "rotate"
    /\ file = "open"
    /\ FsyncCur(diskHealthy, FALSE)
    /\ Goto("rollover")
    /\ UNCHANGED <<loopSide, writing, diskHasData, inflight, curSize, file,
                   acks, cur, dropped>>

\* The file object was closed by a rotation that could not open the next
\* segment: flush() raises ValueError, which nobody down here catches.
WRotateRaises ==
    /\ wpc = "rotate"
    /\ file = "closed"
    /\ Raised
    /\ UNCHANGED <<loopSide, store, flags, inflight, faults>>

\* _w_rotate, second half: close the file object and open a new segment.
WRollover ==
    /\ wpc = "rollover"
    /\ \/ \E n \in 0..Len(buf) :
              /\ IF n = Len(buf) THEN NoFault ELSE Fault("flush")
              /\ NewSegment([files EXCEPT ![cur] = @ \o Upto(buf, n)])
              /\ Goto("append")
              /\ UNCHANGED <<writing, diskHealthy, dropped>>
       \/ /\ Fault("rotate")
          /\ cur' = cur + 1
          /\ files' = [files EXCEPT ![cur] = @ \o buf]
          /\ buf' = <<>>
          /\ file' = "closed"
          /\ WriteFailed({})
          /\ UNCHANGED <<acks, curSize, writesSinceFsync>>
    /\ UNCHANGED <<loopSide, diskHasData, inflight>>

\* The batch without the records that cannot be encoded, which are counted.
\* (A set with one element: the order of the batch is kept.)
Encodings(batch) ==
    LET good == {i \in DOMAIN batch : batch[i] \notin Unserializable}
        kept == {f \in [1..Cardinality(good) -> good] :
                    \A i, j \in DOMAIN f : i < j => f[i] < f[j]}
    IN  {[k \in DOMAIN f |-> batch[f[k]]] : f \in kept}
Refused == Elems(hand) \cap Unserializable

\* The file object passes the first n units on at once, and keeps the rest.
WAppend ==
    /\ wpc = "append"
    /\ Refused # Elems(hand)
    /\ \E lines \in Encodings(hand) :
          LET all == buf \o Blob(lines) IN
          /\ \E n \in 0..Len(all) :
                /\ files' = [files EXCEPT ![cur] = @ \o Upto(all, n)]
                /\ buf' = From(all, n)
          /\ curSize' = curSize + Len(Blob(lines))
          /\ writesSinceFsync' = writesSinceFsync + Len(lines)
    /\ dropped' = dropped \cup Refused
    /\ diskHasData' = TRUE
    /\ diskHealthy' = TRUE
    /\ hand' = <<>>
    /\ Goto(IF writesSinceFsync' >= FsyncEvery THEN "fsync" ELSE AfterWrite)
    /\ UNCHANGED <<loopSide, mode, backlog, inflight, file, acks, cur, faults>>

\* Nothing of the batch could be encoded: it counts as written.
WAppendNothing ==
    /\ wpc = "append"
    /\ Refused = Elems(hand)
    /\ dropped' = dropped \cup Refused
    /\ diskHealthy' = (diskHealthy \/ Recovered)
    /\ hand' = <<>>
    /\ Goto(AfterWrite)
    /\ UNCHANGED <<loopSide, store, diskHasData, mode, backlog, inflight, faults>>

\* write() raises after n units reached the file.  _w_discard_partial_write
\* flushes what was buffered before and truncates to the previous size; when
\* that fails too it takes whatever size the file has.
WAppendFails ==
    /\ wpc = "append"
    /\ Refused # Elems(hand)
    /\ \/ /\ Fault("write")
          /\ files' = [files EXCEPT ![cur] = Truncate(@ \o buf, curSize)]
          /\ buf' = <<>>
          /\ UNCHANGED curSize
       \/ /\ Fault("discard")
          /\ \E lines \in Encodings(hand) :
                LET all == buf \o Blob(lines) IN
                \E n \in 0..(Len(all) - 1) :
                    /\ files' = [files EXCEPT ![cur] = @ \o Upto(all, n)]
                    /\ buf' = From(buf, MinOf(n, Len(buf)))
          /\ curSize' = Len(files'[cur])
    /\ WriteFailed(Refused)
    /\ UNCHANGED <<loopSide, diskHasData, inflight, file, writesSinceFsync, acks,
                   cur>>

\* The fsync of _w_write_batch, whose result it ignores.
WFsync ==
    /\ wpc = "fsync"
    /\ FsyncCur(diskHealthy, Recovered)
    /\ Goto(AfterWrite)
    /\ UNCHANGED <<loopSide, writing, diskHasData, inflight, curSize, file,
                   acks, cur, dropped>>
-----------------------------------------------------------------------------
(* _serve_requests: the control queue is emptied in order.                 *)

Serving == wpc \in {"serve", "fserve"}

\* The next request, of the given kind, is taken from the queue.
Serve(kind) ==
    /\ Serving
    /\ requests # <<>>
    /\ Head(requests).kind = kind
    /\ requests' = Tail(requests)
    /\ UNCHANGED <<writing, history, pending, closed, wpc, boots>>

\* call_soon_threadsafe(_deliver): the future of a drain is set, if somebody
\* still awaits it.
Answer(batch) ==
    IF Head(requests).kind = "drain"
    THEN cpc' = "answered" /\ lease' = batch
    ELSE UNCHANGED leader

DrainKinds == {"drain", "orphan"}

\* _w_drain returns nothing while a batch is lent, and raises on a file
\* object that a failed rotation left closed: the answer is empty as well.
WDrainNothing ==
    /\ \E kind \in DrainKinds : Serve(kind)
    /\ inflight # {} \/ file = "closed"
    /\ Answer(NoBatch)
    /\ UNCHANGED <<store, flags, history, inflight, faults>>

\* The lines _w_drain can deliver, as <<segment, end of line>>, in the order
\* in which it reads them; fs are the files after the flush.
Lines(fs) ==
    UNION {{s} \X Whole(fs[s], acks[s]) :
              s \in {s \in DOMAIN fs : SizeIn(fs, s) > acks[s]}}

LinesBefore(fs, p) ==
    {q \in Lines(fs) : q[1] < p[1] \/ (q[1] = p[1] /\ q[2] < p[2])}

\* The first BatchSize of them, the one that completes the batch, and the
\* segments read to find them.
Delivered(fs) ==
    {p \in Lines(fs) : Cardinality(LinesBefore(fs, p)) < BatchSize}
Completing(fs) ==
    {p \in Lines(fs) : Cardinality(LinesBefore(fs, p)) = BatchSize - 1}
Visited(fs) ==
    {s \in DOMAIN fs : Cardinality(LinesBefore(fs, <<s, 0>>)) < BatchSize}

\* Segments the drain removes on its way: acked to the end, or without a
\* single line it could decode.
Exhausted(fs) ==
    {s \in Visited(fs) \ {cur} :
        acks[s] >= Len(fs[s]) \/ Whole(fs[s], acks[s]) = {}}

\* Mutant: every token is the end of its file.
DrainToTheEnd(fs) ==
    [recs   |-> {fs[p[1]][p[2]][1] : p \in Delivered(fs)},
     tokens |-> {<<p[1], Len(fs[p[1]])>> : p \in Delivered(fs)}]

\* Mutant: only the segment that completes the batch has a token.
DrainLastToken(fs) ==
    [recs   |-> {fs[p[1]][p[2]][1] : p \in Delivered(fs)},
     tokens |-> Completing(fs)]

\* _w_read_prefix stops at the line that completes the batch, or at the end
\* of the file, past any line it could not decode: that is its token.
DrainBatch(fs) ==
    [recs   |-> {fs[p[1]][p[2]][1] : p \in Delivered(fs)},
     tokens |-> Completing(fs) \cup
                {<<p[1], Len(fs[p[1]])>> :
                    p \in {q \in Delivered(fs) :
                              \A last \in Completing(fs) : q[1] # last[1]}}]

\* _w_drain: flush (a failure is ignored), read in FIFO order from the acked
\* offsets, remove exhausted segments, lend the batch.
WDrain ==
    /\ \E kind \in DrainKinds : Serve(kind)
    /\ inflight = {}
    /\ file # "closed"
    /\ \E n \in 0..Len(buf) :
          LET fs == IF buf = <<>> THEN files
                    ELSE [files EXCEPT ![cur] = @ \o Upto(buf, n)]
          IN  /\ IF n = Len(buf) THEN NoFault ELSE Fault("flush")
              /\ files' = Without(fs, Exhausted(fs))
              /\ acks' = Without(acks, Exhausted(fs))
              /\ buf' = From(buf, n)
              /\ inflight' = DrainBatch(fs).tokens
              /\ Answer(DrainBatch(fs))
    /\ diskHasData' = AnyUnacked(files', acks', cur, curSize)
    /\ UNCHANGED <<diskHealthy, curSize, writesSinceFsync, file, cur>>

\* Mutant: the size is not looked at.
FinishedEarly(tokens) == {t[1] : t \in {u \in tokens : u[1] # cur}}

\* _w_ack: a token that reaches the end of a segment no longer written
\* removes it, any other is stored; storing may fail, which is only logged.
Finished(tokens) ==
    {t[1] : t \in {u \in tokens : /\ u[1] # cur
                                  /\ u[1] \in DOMAIN files =>
                                         u[2] >= Size(u[1])}}

WAck ==
    /\ Serve("ack")
    /\ LET tokens == Head(requests).tokens
           gone   == Finished(tokens)
       IN  /\ files' = Without(files, gone)
           /\ \/ /\ NoFault
                 /\ acks' = [s \in DOMAIN files \ gone |->
                                IF \E t \in tokens : t[1] = s
                                THEN (CHOOSE t \in tokens : t[1] = s)[2]
                                ELSE acks[s]]
              \/ /\ Fault("ack")
                 /\ \E t \in tokens : t[1] \notin gone
                 /\ acks' = Without(acks, gone)
    /\ inflight' = {}
    /\ diskHasData' = AnyUnacked(files', acks', cur, curSize)
    /\ UNCHANGED <<handle, leader, diskHealthy, cur>>

\* Mutant: a nack rewinds the segments of the batch.
WReturnRewinds ==
    /\ Serve("nack") \/ Serve("cancel")
    /\ inflight' = {}
    /\ acks' = [s \in DOMAIN acks |->
                   IF \E t \in inflight : t[1] = s THEN 0 ELSE acks[s]]
    /\ UNCHANGED <<handle, files, cur, flags, leader, faults>>

\* _w_nack and _CancelDrainReq: the batch is no longer lent, no offset moves.
WReturn ==
    /\ Serve("nack") \/ Serve("cancel")
    /\ inflight' = {}
    /\ UNCHANGED <<store, flags, leader, faults>>

\* The flush request of close().
WFlush ==
    /\ Serve("flush")
    /\ IF file = "open"
       THEN FsyncCur(diskHealthy, FALSE)
       ELSE NoFault /\ UNCHANGED <<diskHealthy, files, buf, writesSinceFsync>>
    /\ diskHasData' = IF file = "closed" THEN diskHasData
                      ELSE AnyUnacked(files', acks, cur, curSize)
    /\ UNCHANGED <<leader, inflight, curSize, file, acks, cur>>

WServed ==
    /\ requests = <<>>
    /\ Step("serve", "house") \/ Step("fserve", "close")
-----------------------------------------------------------------------------
(* Housekeeping, once a second: _w_enforce_cap and the has_data() flag.    *)

FullyAcked(s) == acks[s] >= Size(s)

\* Mutant: the cap ignores what is lent.
CandidatesLent == DOMAIN files \ {cur}

\* The segments the cap may remove, and the order in which it does: first
\* those acked to the end, then the others, the oldest first.
Candidates == DOMAIN files \ ({cur} \cup {t[1] : t \in inflight})
\* Mutant: the newest first.
RemovedAfter(s, t) ==
    \/ FullyAcked(s) /\ ~FullyAcked(t)
    \/ (FullyAcked(s) <=> FullyAcked(t)) /\ s > t

RemovedBefore(s, t) ==
    \/ FullyAcked(s) /\ ~FullyAcked(t)
    \/ (FullyAcked(s) <=> FullyAcked(t)) /\ s < t

\* It removes the next one as long as the total is above the limit.
Victims ==
    LET total == MapThenSumSet(Size, DOMAIN files)
        freed(s) == MapThenSumSet(Size,
                        {t \in Candidates : RemovedBefore(t, s)})
    IN  {s \in Candidates : total > MaxUnits + freed(s)}

\* Mutant: the cap does not count what it removes.
GivenNothing(gone) == {}

\* What the metric of unacked drops stands for.
Given(gone) == UNION {Readable(files[s], acks[s]) : s \in gone}

\* Mutant: the .ack file of a removed segment stays.
WHouseKeepsAcks ==
    /\ wpc = "house"
    /\ files' = Without(files, Victims)
    /\ dropped' = dropped \cup Given(Victims)
    /\ diskHasData' = AnyUnacked(files', acks, cur, curSize)
    /\ Goto("end")
    /\ UNCHANGED <<loopSide, writing, handle, diskHealthy, inflight, acks, cur,
                   faults>>

WHouse ==
    /\ wpc = "house"
    /\ files' = Without(files, Victims)
    /\ acks' = Without(acks, Victims)
    /\ dropped' = dropped \cup Given(Victims)
    /\ diskHasData' = AnyUnacked(files', acks', cur, curSize)
    /\ Goto("end")
    /\ UNCHANGED <<loopSide, writing, handle, diskHealthy, inflight, cur,
                   faults>>

WHouseLater == Step("house", "end")

\* Mutant: the worker ends with records in its queue.
WLoopLeavesPending ==
    Step("end", IF closed /\ requests = <<>> THEN "last" ELSE "retry")

\* Mutant: the worker ends only when everything on disk has been replayed.
WLoopDrainsFirst ==
    Step("end", IF closed /\ pending = <<>> /\ requests = <<>> /\ ~diskHasData
                THEN "last" ELSE "retry")

WLoop ==
    Step("end", IF closed /\ pending = <<>> /\ requests = <<>>
                THEN "last" ELSE "retry")
-----------------------------------------------------------------------------
(* Shutdown of the worker: a last attempt at the backlog without backoff,  *)
(* the remaining requests, fsync and close.  The final _collect_pending    *)
(* finds nothing: closed is set before the loop ends (PendingEmptyAtEnd).  *)

WLast ==
    /\ wpc = "last"
    /\ IF backlog = <<>>
       THEN Goto("fserve") /\ UNCHANGED writing
       ELSE Take(backlog, "last") /\ backlog' = From(backlog, Len(hand'))
    /\ UNCHANGED <<loopSide, store, flags, inflight, dropped, faults>>

\* The attempt failed: what is left is counted and given up.
WDropBacklog ==
    /\ wpc = "drop"
    /\ dropped' = dropped \cup Elems(backlog)
    /\ backlog' = <<>>
    /\ Goto("fserve")
    /\ UNCHANGED <<loopSide, store, flags, hand, mode, inflight, faults>>

\* A file object left closed raises and ends the sequence here.
\* _disk_healthy and the counter of writes are not read any more.
WClose ==
    /\ wpc = "close"
    /\ IF file = "open"
       THEN FlushAndDiscard
       ELSE NoFault /\ UNCHANGED <<files, buf>>
    /\ file' = IF file = "open" THEN "none" ELSE file
    /\ diskHasData' = IF file = "closed" THEN diskHasData
                      ELSE AnyUnacked(files', acks, cur, curSize)
    /\ Goto("done")
    /\ UNCHANGED <<loopSide, writing, diskHealthy, inflight, curSize,
                   writesSinceFsync, acks, cur, dropped>>
-----------------------------------------------------------------------------
(* The process: it ends and is started again, orderly or killed.           *)

\* A new process finds the directory and nothing else.
Boot ==
    /\ boots < MaxBoots
    /\ boots' = boots + 1
    /\ pending' = <<>> /\ requests' = <<>> /\ closed' = FALSE
    /\ diskHealthy' = TRUE /\ diskHasData' = FALSE
    /\ wpc' = "start"
    /\ hand' = <<>> /\ mode' = "live" /\ backlog' = <<>> /\ inflight' = {}
    /\ curSize' = 0 /\ writesSinceFsync' = 0 /\ file' = "none" /\ buf' = <<>>
    /\ cpc' = "idle" /\ lease' = NoBatch
    /\ UNCHANGED <<disk, accepted, db, dropped, faults>>

Restart ==
    /\ closed
    /\ wpc = "done"
    /\ Boot
    /\ UNCHANGED lost

\* The records a kill loses: those only the memory of the process had.
InMemory == Elems(pending) \cup Elems(hand) \cup Elems(backlog)
                \cup {u[1] : u \in Elems(buf)}
OnDisk == UNION {Readable(files[s], acks[s]) : s \in DOMAIN files}

\* SIGKILL, or the exit of a process whose worker did not end within the ten
\* seconds close() waits for it.  What the files hold survives.
Crash ==
    /\ wpc # "done"
    /\ Boot
    /\ lost' = lost \cup (InMemory \ (OnDisk \cup db \cup dropped))

Terminated == closed /\ wpc = "done" /\ boots = MaxBoots /\ UNCHANGED vars
-----------------------------------------------------------------------------
Init ==
    /\ pending = <<>> /\ requests = <<>> /\ closed = FALSE
    /\ diskHealthy = TRUE /\ diskHasData = FALSE
    /\ wpc = "start"
    /\ hand = <<>> /\ mode = "live" /\ backlog = <<>> /\ inflight = {}
    /\ curSize = 0 /\ writesSinceFsync = 0 /\ file = "none" /\ buf = <<>>
    /\ files = [s \in {} |-> <<>>] /\ acks = [s \in {} |-> 0] /\ cur = 0
    /\ cpc = "idle" /\ lease = NoBatch
    /\ accepted = {} /\ db = {} /\ dropped = {} /\ lost = {}
    /\ faults = 0 /\ boots = 1

Loop == (\E r \in Rec : Write(r)) \/ Close
Leader == Ask \/ Resume \/ DrainTimeout \/ CommitOk \/ CommitFails
          \/ LeaderCancelled
WritePath == WReady \/ WReopen \/ WRotate \/ WRotateRaises \/ WRollover
             \/ WAppend \/ WAppendNothing \/ WAppendFails \/ WFsync
Control == WDrainNothing \/ WDrain \/ WAck \/ WReturn \/ WFlush \/ WServed
Worker == WStart \/ WRetryNothing \/ WRetryLater \/ WRetryDue \/ WCollect
          \/ WCollectNothing \/ WritePath \/ Control \/ WHouse
          \/ WHouseLater \/ WLoop \/ WLast \/ WDropBacklog \/ WClose
Process == Restart \/ Crash

Next == Loop \/ Leader \/ Worker \/ Process \/ Terminated

Spec == Init /\ [][Next]_vars
-----------------------------------------------------------------------------
(* Types.                                                                  *)

Segments == 1..cur
Token == (Nat \ {0}) \X Nat
Batch == [recs : SUBSET Rec, tokens : SUBSET Token]
RequestKinds == {"drain", "orphan", "ack", "nack", "cancel", "flush"}
Requests == [kind : RequestKinds, tokens : SUBSET Token]
WorkerLabels == {"start", "retry", "collect", "write", "rotate", "rollover",
                 "append", "fsync", "serve", "house", "end", "last", "drop",
                 "fserve", "close", "done"}

SharedTypes ==
    /\ pending \in Seq(Rec)
    /\ requests \in Seq(Requests)
    /\ closed \in BOOLEAN
ControlTypes ==
    /\ diskHealthy \in BOOLEAN
    /\ diskHasData \in BOOLEAN
    /\ wpc \in WorkerLabels
    /\ inflight \in SUBSET Token
WritingTypes ==
    /\ hand \in Seq(Rec)
    /\ mode \in {"live", "retry", "last"}
    /\ backlog \in Seq(Rec)
HandleTypes ==
    /\ curSize \in Nat
    /\ writesSinceFsync \in Nat
    /\ file \in {"none", "open", "closed"}
    /\ buf \in Seq(Units(Rec))
DiskTypes ==
    /\ cur \in Nat
    /\ DOMAIN files \subseteq Segments
    /\ files \in [DOMAIN files -> Seq(Units(Rec))]
    /\ acks \in [DOMAIN files -> Nat]
LeaderTypes ==
    /\ cpc \in {"idle", "wait", "answered", "commit"}
    /\ lease \in Batch
HistoryTypes ==
    /\ accepted \in SUBSET Rec
    /\ db \in SUBSET Rec
    /\ dropped \in SUBSET Rec
    /\ lost \in SUBSET Rec
BoundTypes ==
    /\ faults \in 0..MaxFaults
    /\ boots \in 1..MaxBoots

\* Every variable has its type: queues hold records and requests, a segment
\* holds units, and only segments that exist have an offset.
TypeOK ==
    /\ SharedTypes
    /\ ControlTypes
    /\ WritingTypes
    /\ HandleTypes
    /\ DiskTypes
    /\ LeaderTypes
    /\ HistoryTypes
    /\ BoundTypes
-----------------------------------------------------------------------------
(* Safety.                                                                 *)

\* The records a drain can still deliver, now or after the next flush.
Stored == UNION {Readable(Content(s), acks[s]) : s \in DOMAIN files}

\* The records the spill still holds, on their way to disk or there.
Held == Elems(pending) \cup Elems(hand) \cup Elems(backlog) \cup Stored

\* No silent loss ("Nunca pierde registros sin dejar constancia",
\* _w_write_batch): a record write() accepted is in the database, counted as
\* dropped, on its way to disk or readable there.  A kill excuses only what
\* nothing but the memory of the process held.
NoSilentLoss ==
    accepted \subseteq db \cup dropped \cup lost \cup Held

\* While the leader inserts a batch, the worker lends exactly that batch and
\* no request that could end the loan is queued: a late answer, a timeout or
\* a cancelled predecessor never makes _w_ack or _CancelDrainReq hit the
\* wrong batch, although both ignore the tokens when they clear _inflight.
LeaseIsInflight ==
    (cpc = "commit" \/ (cpc = "answered" /\ lease.recs # {})) =>
        /\ inflight = lease.tokens
        /\ \A i \in DOMAIN requests : requests[i].kind = "flush"

\* A batch never stays lent with nobody to give it back (_inflight blocks
\* every later drain): the leader holds it, or the request that ends the
\* loan is queued.
InflightIsReturned ==
    inflight # {} =>
        \/ cpc = "commit"
        \/ cpc = "answered" /\ lease.recs # {}
        \/ \E i \in DOMAIN requests :
               requests[i].kind \in {"ack", "nack", "cancel"}

\* The cap and the clean-up of a drain never delete a segment of which the
\* leader has uncommitted records in hand (_w_enforce_cap: "los que están
\* inflight nunca se tocan").
LeasedSegmentsExist ==
    cpc = "commit" => \A t \in lease.tokens : t[1] \in DOMAIN files

\* has_data() may answer True for nothing, never False for something: with a
\* stale False the leader would not ask, and the data would wait for a
\* restart.  The worker refreshes the flag when it starts.
HasDataIsNotStale ==
    wpc # "start" /\ Stored # {} => diskHasData

\* A kill costs less than FsyncEvery written records as long as no system
\* call has failed: everything older has left the file object.
KillWindow ==
    /\ Len(buf) <= 2 * writesSinceFsync
    /\ faults = 0 /\ wpc # "fsync" => writesSinceFsync < FsyncEvery

\* _cur_size never exceeds what has been written, so a truncation to it never
\* extends the file.
SizeNotOverstated ==
    file = "open" => curSize <= Len(files[cur]) + Len(buf)

\* The worker only shuts down with an empty queue, so its bounded last
\* _collect_pending cannot leave a record behind.
PendingEmptyAtEnd ==
    wpc \in {"last", "drop", "fserve", "close", "done"} => pending = <<>>

\* An acked offset only moves forward, and a removed segment stays removed.
AcksAdvance ==
    [][/\ \A s \in DOMAIN acks \cap DOMAIN acks' : acks'[s] >= acks[s]
       /\ \A s \in DOMAIN files' : s \in DOMAIN files \/ s > cur]_vars

\* The cap gives up unacked data only after every removable segment acked to
\* the end is gone, and the oldest segments first.
CapSparesUnacked ==
    [][wpc = "house" =>
          \A s \in DOMAIN files \ DOMAIN files' :
              ~FullyAcked(s) =>
                  \A t \in Candidates \cap DOMAIN files' :
                      ~FullyAcked(t) /\ s < t]_vars

\* An acked offset covers nothing but records that are in the database or
\* counted: "Confirma en disco los registros ya insertados" (ack), down to
\* the last byte of a line.
AckedIsCommitted ==
    \A s \in DOMAIN files : \A e \in Whole(Content(s), 0) :
        e <= acks[s] + 1 => Content(s)[e][1] \in db \cup dropped

\* Without a failure or a kill nothing is delivered twice, which is all that
\* keeps duplicates out when POSTGRES_DEDUP is off.
NoRedelivery ==
    [][cpc = "answered" /\ cpc' = "commit" /\ faults = 0 /\ boots = 1 =>
          lease.recs \cap db = {}]_vars
-----------------------------------------------------------------------------
(* Refinement: the spill is a ReplayStore.                                 *)

Store == INSTANCE ReplayStore WITH
    held      <- Held,
    lent      <- IF cpc = "commit" THEN lease.recs ELSE {},
    committed <- db,
    givenUp   <- dropped \cup lost

\* The spill keeps the promise of ReplayStore.
ImplementsStore == Store!StoreSpec
=============================================================================
