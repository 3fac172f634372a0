---------------------------- MODULE BatchWriters ----------------------------
(***************************************************************************)
(* The BatchWriters of connector/db/writer.py: tasks of the event loop     *)
(* that share one bounded queue of values and insert them in batches.  A   *)
(* batch that cannot be inserted goes back to the queue, what the queue    *)
(* has no room for goes to the disk spill, and what the spill refuses      *)
(* displaces the oldest queued value.  Writer 0, the leader, also replays  *)
(* the spill.                                                              *)
(*                                                                         *)
(* A task runs without interruption between two awaits, so an action is    *)
(* all that happens from one await of run() to the next.  The spill is     *)
(* what ReplayStore promises of it: a set of records, of which one batch   *)
(* at a time is lent.  Who starts and stops the writers is left to the     *)
(* module that extends this one; here the environment does.                *)
(***************************************************************************)
EXTENDS Naturals, Sequences, FiniteSets, SequencesExt

CONSTANTS
    NumRec,     \* the values the source delivers, in this order: 1, 2, ...
    Unstorable, \* those the table cannot hold: a status code above 2^31 - 1
                \* does not fit the INTEGER column quality
    NumWriters, \* POSTGRES_NUM_WRITERS
    QueueMax,   \* OPC_QUEUE_MAX_SIZE
    BatchSize,  \* batch_size
    Dedup,      \* POSTGRES_DEDUP_ENABLED
    Faults,     \* the kinds of failure the environment may cause
    MaxFaults,  \* bound: failures in one behaviour
    MaxSessions \* bound: sets of writers started in one behaviour

\* An insert fails; it fails but its rows are in (the connection is lost
\* during COMMIT); a drain times out; an .ack file cannot be written; the spill
\* is over its size cap; a writer outlives shutdown_timeout_s.
FaultKinds == {"insert", "commit", "drain", "ack", "cap", "late"}

Rec == 1..NumRec
Writers == 0..(NumWriters - 1)
Leader == 0

ASSUME WritersAssumption ==
    /\ Unstorable \subseteq Rec
    /\ {NumRec, NumWriters, QueueMax, BatchSize, MaxSessions} \subseteq Nat \ {0}
    /\ Dedup \in BOOLEAN
    /\ Faults \subseteq FaultKinds
    /\ MaxFaults \in Nat

VARIABLES
    queue,      \* the shared asyncio.Queue
    wpc,        \* where each writer awaits in run()
    batch,      \* its local batch
    due,        \* flush_interval_ms has elapsed since its last flush
    healthy,    \* its _db_healthy
    stopping,   \* the _stop event of every writer
    cancelling, \* the tasks that are left have been cancelled
    pool,       \* "open", "closing" (gives out no connection) or "closed"
    spilled,    \* records the spill holds
    lent,       \* those of them it has lent: _inflight
    spillOpen,  \* the spill is not closed
    offered,    \* history: records the source delivered
    rows,       \* rows of each record in the table
    dropped,    \* records counted by a metric when they were discarded
    cancelled,  \* records in the local batch of a cancelled writer
    doubtful,   \* records in the table, without their writer or the spill knowing
    faults,     \* failures so far
    sessions    \* sets of writers started so far

task     == <<wpc, batch, due, healthy>>
control  == <<stopping, cancelling, pool, sessions>>
spill    == <<spilled, lent, spillOpen>>
results  == <<offered, rows, dropped, cancelled, doubtful>>
writerVars == <<queue, task, control, spill, results, faults>>
-----------------------------------------------------------------------------
Elems(s) == {s[i] : i \in DOMAIN s}
InTable == {r \in Rec : rows[r] > 0}

NoFault == UNCHANGED faults
Fault(kind) ==
    /\ kind \in Faults
    /\ faults < MaxFaults
    /\ faults' = faults + 1

Active(w) == wpc[w] \notin {"off", "done"} /\ ~cancelling

(* Queue, spill and counter change together, in enqueue_or_spill.          *)
Place(q, s, d) == [queue |-> q, spilled |-> s, dropped |-> d]
Here == Place(queue, spilled, dropped)
Become(p) == queue' = p.queue /\ spilled' = p.spilled /\ dropped' = p.dropped

\* Mutant: one value more than the queue has room for.
EnqueueOverfull(p, r) ==
    IF Len(p.queue) <= QueueMax
    THEN {Place(Append(p.queue, r), p.spilled, p.dropped)}
    ELSE {Place(p.queue, p.spilled \cup {r}, p.dropped)}

\* enqueue_or_spill: all that one call may lead to.  The spill may refuse a
\* record at any time (its own queue is full, its disk unhealthy); then the
\* oldest queued value makes room.
Enqueue(p, r) ==
    IF Len(p.queue) < QueueMax
    THEN {Place(Append(p.queue, r), p.spilled, p.dropped)}
    ELSE {Place(Append(Tail(p.queue), r), p.spilled,
                p.dropped \cup {Head(p.queue)})}
         \cup IF spillOpen THEN {Place(p.queue, p.spilled \cup {r}, p.dropped)}
              ELSE {}

\* Mutant: a batch that could not be inserted is forgotten.
RequeuedNever(b) == {Here}

\* _requeue: enqueue_or_spill for each record of the batch.
Requeued(b) ==
    FoldLeft(LAMBDA ps, r : UNION {Enqueue(p, r) : p \in ps}, {Here}, b)

-----------------------------------------------------------------------------
(* The database.  An insert is one COPY, or one transaction with a staging *)
(* table: all of the batch or nothing.                                     *)

Insert(recs) ==
    rows' = [r \in Rec |-> IF r \notin recs THEN rows[r]
                           ELSE IF Dedup THEN 1 ELSE rows[r] + 1]

\* A writer that already has a connection finishes on a closing pool.
Stored(recs) ==
    /\ pool # "closed"
    /\ recs \cap Unstorable = {}
    /\ Insert(recs)

DbOk(recs) == Stored(recs) /\ NoFault /\ UNCHANGED doubtful

DbFails(recs) ==
    \/ Fault("insert") /\ UNCHANGED <<rows, doubtful>>
    \/ Stored(recs) /\ Fault("commit") /\ doubtful' = doubtful \cup recs
    \/ /\ pool # "open" \/ recs \cap Unstorable # {}
       /\ NoFault
       /\ UNCHANGED <<rows, doubtful>>
-----------------------------------------------------------------------------
(* run(), from one await to the next: the local batch is b and p is what   *)
(* the step has left in the queue, the spill and the counter.              *)

Goto(w, label, b) ==
    /\ wpc' = [wpc EXCEPT ![w] = label]
    /\ batch' = [batch EXCEPT ![w] = b]

\* _final_drain after its last insert, or without one: what that insert left
\* and the rest of the queue go to the spill; what it refuses is counted.
Finish(w, rest, p) ==
    LET left == rest \cup Elems(p.queue) IN
    /\ Goto(w, "done", <<>>)
    /\ \E kept \in IF spillOpen THEN SUBSET left ELSE {{}} :
           Become(Place(<<>>, p.spilled \cup kept, p.dropped \cup (left \ kept)))

\* Mutant: a writer without a batch ends at once.
LoopHeadLeavesQueue(w, b, p) ==
    \/ ~stopping /\ Goto(w, "get", b) /\ Become(p)
    \/ stopping /\ b # <<>> /\ Goto(w, "final", b) /\ Become(p)
    \/ stopping /\ b = <<>> /\ Goto(w, "done", b) /\ Become(p)

\* Mutant: _stop is not looked at.
LoopHeadForever(w, b, p) == Goto(w, "get", b) /\ Become(p)

\* The head of the loop.
LoopHead(w, b, p) ==
    \/ ~stopping /\ Goto(w, "get", b) /\ Become(p)
    \/ stopping /\ b # <<>> /\ Goto(w, "final", b) /\ Become(p)
    \/ stopping /\ b = <<>> /\ Finish(w, {}, p)

\* Mutant: the flush interval is ignored.
AfterReplayFull(w, b, p) ==
    IF Len(b) >= BatchSize
    THEN Goto(w, "insert", b) /\ Become(p)
    ELSE LoopHead(w, b, p)

\* After the replay: the batch is flushed if it is full or due.
AfterReplay(w, b, p) ==
    IF b # <<>> /\ (Len(b) >= BatchSize \/ due[w])
    THEN Goto(w, "insert", b) /\ Become(p)
    ELSE LoopHead(w, b, p)

\* _replay_spill, up to its first await.
Replay(w, b, p) ==
    IF w = Leader /\ healthy[w] /\ spilled # {}
    THEN Goto(w, "drain", b) /\ Become(p)
    ELSE AfterReplay(w, b, p)

\* FLUSH_INTERVAL_MS has elapsed.
Tick(w) ==
    /\ Active(w)
    /\ ~due[w]
    /\ due' = [due EXCEPT ![w] = TRUE]
    /\ UNCHANGED <<queue, wpc, batch, healthy, control, spill, results, faults>>

GetItem(w) ==
    /\ Active(w) /\ wpc[w] = "get"
    /\ queue # <<>>
    /\ Replay(w, Append(batch[w], Head(queue)), [Here EXCEPT !.queue = Tail(@)])
    /\ UNCHANGED <<due, healthy, control, lent, spillOpen, offered, rows,
                   cancelled, doubtful, faults>>

\* Mutant: no replay while no value arrives.
GetTimeoutNoReplay(w) ==
    /\ Active(w) /\ wpc[w] = "get"
    /\ queue = <<>>
    /\ due[w]
    /\ AfterReplay(w, batch[w], Here)
    /\ UNCHANGED <<due, healthy, control, lent, spillOpen, offered, rows,
                   cancelled, doubtful, faults>>

GetTimeout(w) ==
    /\ Active(w) /\ wpc[w] = "get"
    /\ queue = <<>>
    /\ due[w]
    /\ Replay(w, batch[w], Here)
    /\ UNCHANGED <<due, healthy, control, lent, spillOpen, offered, rows,
                   cancelled, doubtful, faults>>

\* Mutant: the spill forgets a batch when it lends it.
DrainedForgets(w) ==
    /\ Active(w) /\ wpc[w] = "drain"
    /\ lent = {}
    /\ lent' \in (SUBSET spilled) \ {{}}
    /\ Cardinality(lent') <= BatchSize
    /\ spilled' = spilled \ lent'
    /\ Goto(w, "replay", batch[w])
    /\ UNCHANGED <<queue, due, healthy, control, spillOpen, results, faults>>

\* drain_async answers with a batch,
Drained(w) ==
    /\ Active(w) /\ wpc[w] = "drain"
    /\ lent = {}
    /\ lent' \in (SUBSET spilled) \ {{}}
    /\ Cardinality(lent') <= BatchSize
    /\ Goto(w, "replay", batch[w])
    /\ UNCHANGED <<queue, due, healthy, control, spilled, spillOpen, results,
                   faults>>

\* with none (a batch is lent already, or no record has reached the disk), or
\* not in time: then the loan, if there is one, is called off.
DrainedNothing(w) ==
    /\ Active(w) /\ wpc[w] = "drain"
    /\ \/ NoFault /\ UNCHANGED lent
       \/ Fault("drain") /\ lent' = {}
    /\ AfterReplay(w, batch[w], Here)
    /\ UNCHANGED <<due, healthy, control, spillOpen, offered, rows, cancelled,
                   doubtful>>

\* What the spill keeps of a batch it is sent the ack of: all of it when it is
\* closed, where ack() does nothing, and otherwise the records of segments
\* whose .ack file it cannot write.  That failure is only logged; the batch
\* is no longer lent, and what was kept will be lent again.
AckKeeps(kept) ==
    /\ lent' = IF spillOpen THEN {} ELSE lent
    /\ IF spillOpen /\ kept # {} THEN Fault("ack") ELSE NoFault
    /\ spillOpen \/ kept = lent
    /\ doubtful' = doubtful \cup kept

\* The flush of the lent batch, and its ack.
Replayed(w) ==
    /\ Active(w) /\ wpc[w] = "replay"
    /\ Stored(lent)
    /\ healthy' = [healthy EXCEPT ![w] = TRUE]
    /\ \E kept \in SUBSET lent :
           /\ AckKeeps(kept)
           /\ AfterReplay(w, batch[w], [Here EXCEPT !.spilled = @ \ (lent \ kept)])
    /\ UNCHANGED <<due, control, spillOpen, offered, cancelled>>

\* Mutant: a batch whose replay failed is requeued as well.
ReplayFailedRequeues(w) ==
    /\ Active(w) /\ wpc[w] = "replay"
    /\ DbFails(lent)
    /\ healthy' = [healthy EXCEPT ![w] = FALSE]
    /\ lent' = IF spillOpen THEN {} ELSE lent
    /\ \E p \in Requeued(SetToSeq(lent)) : AfterReplay(w, batch[w], p)
    /\ UNCHANGED <<due, control, spillOpen, offered, cancelled>>

\* Its nack: the batch stays in the spill and is not requeued.
ReplayFailed(w) ==
    /\ Active(w) /\ wpc[w] = "replay"
    /\ DbFails(lent)
    /\ healthy' = [healthy EXCEPT ![w] = FALSE]
    /\ lent' = IF spillOpen THEN {} ELSE lent
    /\ AfterReplay(w, batch[w], Here)
    /\ UNCHANGED <<due, control, spillOpen, offered, cancelled>>

Flushed(w) ==
    /\ Active(w) /\ wpc[w] = "insert"
    /\ DbOk(Elems(batch[w]))
    /\ healthy' = [healthy EXCEPT ![w] = TRUE]
    /\ due' = [due EXCEPT ![w] = FALSE]
    /\ LoopHead(w, <<>>, Here)
    /\ UNCHANGED <<control, lent, spillOpen, offered, cancelled>>

\* The batch is requeued, then the writer sleeps.
FlushFailed(w) ==
    /\ Active(w) /\ wpc[w] = "insert"
    /\ DbFails(Elems(batch[w]))
    /\ healthy' = [healthy EXCEPT ![w] = FALSE]
    /\ Goto(w, "backoff", <<>>)
    /\ \E p \in Requeued(batch[w]) : Become(p)
    /\ UNCHANGED <<due, control, lent, spillOpen, offered, cancelled>>

BackedOff(w) ==
    /\ Active(w) /\ wpc[w] = "backoff"
    /\ due' = [due EXCEPT ![w] = FALSE]
    /\ LoopHead(w, <<>>, Here)
    /\ UNCHANGED <<healthy, control, lent, spillOpen, offered, rows, cancelled,
                   doubtful, faults>>

\* The last insert of _final_drain.
FinalFlush(w) ==
    /\ Active(w) /\ wpc[w] = "final"
    /\ \/ /\ DbOk(Elems(batch[w]))
          /\ healthy' = [healthy EXCEPT ![w] = TRUE]
          /\ Finish(w, {}, Here)
       \/ /\ DbFails(Elems(batch[w]))
          /\ healthy' = [healthy EXCEPT ![w] = FALSE]
          /\ Finish(w, Elems(batch[w]), Here)
    /\ UNCHANGED <<due, control, lent, spillOpen, offered, cancelled>>

\* CancelledError at whatever the writer awaits: nothing in run() catches it.
\* The batch is gone, unless it was being inserted and the rows are in; a
\* batch that was lent, or is lent to a drain nobody awaits any more, stays
\* lent.
Cancelled(w) ==
    /\ cancelling
    /\ wpc[w] \notin {"off", "done"}
    /\ Goto(w, "done", <<>>)
    /\ \/ UNCHANGED <<rows, doubtful>>
       \/ LET recs == IF wpc[w] = "replay" THEN lent
                      ELSE IF wpc[w] \in {"insert", "final"}
                      THEN Elems(batch[w]) ELSE {}
          IN  Stored(recs) /\ doubtful' = doubtful \cup recs
    /\ cancelled' = cancelled \cup {r \in Elems(batch[w]) : rows'[r] = 0}
    /\ \/ UNCHANGED lent
       \/ /\ wpc[w] = "drain"
          /\ lent = {}
          /\ lent' \in SUBSET spilled
          /\ Cardinality(lent') <= BatchSize
    /\ UNCHANGED <<queue, due, healthy, control, spilled, spillOpen, offered,
                   dropped, faults>>

WriterStep(w) ==
    \/ GetItem(w) \/ GetTimeout(w) \/ Drained(w) \/ DrainedNothing(w)
    \/ Replayed(w) \/ ReplayFailed(w) \/ Flushed(w) \/ FlushFailed(w)
    \/ BackedOff(w) \/ FinalFlush(w) \/ Cancelled(w)
-----------------------------------------------------------------------------
(* The source, and whoever starts and stops the writers.                   *)

\* A subscription or a history read delivers the next value.
Offer(r) ==
    /\ offered = 1..(r - 1)
    /\ \E p \in Enqueue(Here, r) : Become(p)
    /\ offered' = offered \cup {r}
    /\ UNCHANGED <<task, control, lent, spillOpen, rows, cancelled, doubtful,
                   faults>>

\* The spill gives up records on disk to stay below its size, and counts them;
\* it spares what is lent.
SpillGivesUp ==
    /\ Fault("cap")
    /\ \E recs \in SUBSET (spilled \ lent) :
           /\ recs # {}
           /\ spilled' = spilled \ recs
           /\ dropped' = dropped \cup recs
    /\ UNCHANGED <<queue, task, control, lent, spillOpen, offered, rows,
                   cancelled, doubtful>>

AllEnded == \A w \in Writers : wpc[w] \in {"off", "done"}

\* New writers, with the queue, the spill and the table of those before them.
FreshWriters ==
    /\ sessions' = sessions + 1
    /\ wpc' = [w \in Writers |-> "get"]
    /\ batch' = [w \in Writers |-> <<>>]
    /\ due' = [w \in Writers |-> FALSE]
    /\ healthy' = [w \in Writers |-> TRUE]
    /\ stopping' = FALSE /\ cancelling' = FALSE
    /\ UNCHANGED <<queue, spill, results, faults>>

StartWriters ==
    /\ AllEnded
    /\ sessions < MaxSessions
    /\ FreshWriters
    /\ pool' = "open"

\* _stop_writers sets every _stop event,
StopWriters ==
    /\ ~AllEnded
    /\ ~stopping
    /\ stopping' = TRUE
    /\ UNCHANGED <<queue, task, cancelling, pool, sessions, spill, results,
                   faults>>

\* and cancels the tasks that are left after shutdown_timeout_s.
CancelWriters ==
    /\ stopping
    /\ ~AllEnded
    /\ ~cancelling
    /\ Fault("late")
    /\ cancelling' = TRUE
    /\ UNCHANGED <<queue, task, stopping, pool, sessions, spill, results>>

WritersInit ==
    /\ queue = <<>>
    /\ wpc = [w \in Writers |-> "off"]
    /\ batch = [w \in Writers |-> <<>>]
    /\ due = [w \in Writers |-> FALSE]
    /\ healthy = [w \in Writers |-> TRUE]
    /\ stopping = FALSE /\ cancelling = FALSE /\ pool = "closed"
    /\ spilled = {} /\ lent = {} /\ spillOpen = TRUE
    /\ offered = {} /\ dropped = {} /\ cancelled = {} /\ doubtful = {}
    /\ rows = [r \in Rec |-> 0]
    /\ faults = 0 /\ sessions = 0

Source == \E r \in Rec : Offer(r)
Tasks == \E w \in Writers : WriterStep(w) \/ Tick(w)

WritersNext ==
    \/ Source \/ Tasks \/ SpillGivesUp
    \/ StartWriters \/ StopWriters \/ CancelWriters

WritersSpec == WritersInit /\ [][WritersNext]_writerVars
-----------------------------------------------------------------------------
(* Properties.                                                             *)

Labels == {"off", "get", "drain", "replay", "insert", "backoff", "final",
           "done"}

\* Every variable has its type, and no queue or batch exceeds its bound.
WritersTypeOK ==
    /\ queue \in Seq(Rec) /\ Len(queue) <= QueueMax
    /\ wpc \in [Writers -> Labels]
    /\ batch \in [Writers -> Seq(Rec)]
    /\ \A w \in Writers : Len(batch[w]) <= BatchSize
    /\ due \in [Writers -> BOOLEAN]
    /\ healthy \in [Writers -> BOOLEAN]
    /\ stopping \in BOOLEAN /\ cancelling \in BOOLEAN
    /\ pool \in {"open", "closing", "closed"}
    /\ spilled \in SUBSET Rec /\ lent \in SUBSET Rec /\ spillOpen \in BOOLEAN
    /\ offered \in SUBSET Rec /\ dropped \in SUBSET Rec
    /\ cancelled \in SUBSET Rec /\ doubtful \in SUBSET Rec
    /\ rows \in [Rec -> Nat]
    /\ faults \in 0..MaxFaults
    /\ sessions \in 0..MaxSessions

InMemory == Elems(queue) \cup UNION {Elems(batch[w]) : w \in Writers}

\* Nothing disappears between the queue, the batches, the spill and the table
\* ("No perder datos: re-encolar", _flush): a value is somewhere, counted, or
\* was in the hands of a writer that was cancelled.
NothingVanishes ==
    offered \subseteq InTable \cup InMemory \cup spilled \cup dropped
                          \cup cancelled

\* A value has one owner: it is queued once, in one batch, in the spill, in
\* the table or counted, and never in two of these places.  That is why a
\* failed replay is not requeued ("no se reencola en memoria para no
\* duplicarlo", _replay_spill), and what keeps rows unique without dedup.  Save
\* for those an insert of which nobody took note: the answer of the COMMIT was
\* lost, its writer was cancelled, or its ack could not be stored.  These are
\* inserted again.
OneOwner ==
    \A r \in Rec \ doubtful :
        rows[r] + Cardinality({i \in DOMAIN queue : queue[i] = r})
        + Cardinality({w \in Writers : r \in Elems(batch[w])})
        + (IF r \in spilled THEN 1 ELSE 0)
        + (IF r \in dropped THEN 1 ELSE 0) <= 1

\* The spill lends only to the leader's insert, and what is lent is still in
\* the spill: the row is written before the spill forgets it.
LentIsSpilled ==
    /\ lent \subseteq spilled
    /\ wpc[Leader] = "replay" => lent # {}

\* _stop_writers leaves no value in a writer's batch or in the queue once the
\* writers have ended by themselves: "El lote local intenta un último insert;
\* el resto de la cola se persiste en el spill" (README.md).
StopEmptiesMemory ==
    [][AllEnded' /\ ~AllEnded /\ ~cancelling => InMemory' = {}]_writerVars

-----------------------------------------------------------------------------
(* Liveness.                                                               *)

\* The event loop serves every task; time passes; the spill, asked again and
\* again, answers with what it holds; an insert ends.
WritersFairness ==
    \A w \in Writers :
        /\ WF_writerVars(WriterStep(w))
        /\ WF_writerVars(Tick(w))
        /\ SF_writerVars(Drained(w))

WritersFairSpec == WritersSpec /\ WritersFairness

Running == ~AllEnded /\ ~stopping

\* A value does not stay in memory while the writers run, however often its
\* batch was requeued ("No perder datos: re-encolar", _flush).
MemoryDrains ==
    \A r \in Rec : Running /\ r \in InMemory ~> r \notin InMemory \/ ~Running

\* Every spilled value gets into the table, or is given up and counted, while
\* the writers run: "los datos se reinyectan al recuperar la BD" (README.md).
SpillReplayed ==
    \A r \in Rec :
        Running /\ r \in spilled ~> r \in InTable \cup dropped \/ ~Running

\* That is so if the leader's _db_healthy keeps coming back, though no new
\* value arrives, inserts fail and drains time out meanwhile: run() replays
\* after an empty queue.get() too, and a failed replay is tried again.
ReplayedWhileHealthy == []<>healthy[Leader] => SpillReplayed

\* Writers that are told to stop end.
StopEnds == stopping ~> (AllEnded \/ ~stopping)
=============================================================================
