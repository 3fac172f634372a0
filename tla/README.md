# Verification of the OPC UA → PostgreSQL connector

TLA+ models of the connector in `src/connector`, the TLC runs that check them
on small instances, and theorems about them that the TLA+ proof system checks
for every value of the constants. Everything is translated from the Python
code; `PROJECT.json` maps each definition to the lines it stands for.

Contents: [inventory](#1-the-system), [modules](#2-the-modules),
[runs](#3-the-runs), [fairness](#4-fairness), [proofs](#5-proofs),
[disagreements found](#6-where-the-code-and-its-documentation-disagree),
[what is left out](#7-what-is-abstracted-and-what-is-left-out),
[plan](#8-plan).

## 1. The system

One process reads values from an OPC UA server (subscriptions, and history
reads to fill gaps) and writes them to a PostgreSQL table. It is one asyncio
event loop and one thread.

    OPC UA server                                         PostgreSQL
        |  datachange_notification / history pages            ^
        v                                                     | COPY / staging + INSERT
    enqueue_or_spill --> asyncio.Queue --> BatchWriter 0..N-1-+
        |     ^                               |   ^
        |     +----- _requeue (failed batch) -+   | drain_async / ack / nack
        v                                         | (writer 0 only)
    SpillBuffer.write --> worker thread --> segment files
    
    main(): one session after another; SIGTERM / SIGINT -> stop_event -> cancel

### Components

| Component (file) | State it keeps | Operations | Talks to | What is hard |
|---|---|---|---|---|
| Disk spill, `db/spill.py` | internal queue, control queue, retry backlog, `_inflight`, file object, `_cur_size`, cached flags; segment and `.ack` files | `write`, `has_data`, `drain_async`, `ack`, `nack`, `close`; the worker loop | event loop (thread-safe queues, `call_soon_threadsafe`), the file system | thread against loop, late answers, failing system calls one after the other, kill and restart |
| Batch writers, `db/writer.py` and `enqueue_or_spill` | shared queue; per writer a local batch, `_db_healthy`, last flush time | `run`, `_replay_spill`, `_flush`, `_requeue`, `_final_drain`, `stop` | queue, pool, spill | writers that feed each other's queue, at-least-once inserts, the last drain |
| Session and process, `main.py` | `stop_event`, session task, attempt counter, generation of writers | `main`, `_run_opc_session`, `_stop_writers`, `_wait_until_disconnected` | everything | a cancellation at each await, also inside `finally` |
| Subscription, `opc/subscription.py` | monitored items | `subscribe`, `datachange_notification` | queue or spill | delivery starts before `subscribe` returns |
| History recovery, `opc/history.py` | watermarks, cutoff, the page being read | `load_watermarks`, `recover_gaps` | table, server, queue | gap and overlap with the subscription, MAX(ts) as watermark, a session that ends in the middle |
| Discovery, `opc/browser.py` | visited set, call stack, sorted list, slice | `discover_and_partition` | server, catalog | cyclic graph, errors that shift the slice |
| Retries, `utils/resilience.py` | attempt, delay | `retry_async` | client, pool | limits |
| Event identity, `utils/event_id.py` | none | identity of a datum | writer | same identity on both paths |
| Schema, `db/initializer.py` | none | `CREATE … IF NOT EXISTS` | database | – |
| Pool and TLS, `db/pool.py` | pool | create, close | database | – |
| OPC UA client, `opc/client.py`, `opc/security.py` | connection | connect, disconnect | server | – |
| Configuration, metrics, logging | counters, health flag | – | HTTP | one health flag for all writers |

### What makes each part correct

- **Spill**: a record that `write()` accepted is inserted, counted as dropped,
  or still there, across failures and restarts; an ack never covers a record
  that is not in the table; only one batch is lent at a time and it always
  comes back; the size cap spares what is lent and removes acked data first;
  whatever is on disk is replayed as long as the leader asks for it; `close()`
  ends the worker.
- **Writers**: nothing vanishes between queue, batch, spill and table; a value
  has one owner; a stop leaves no value in memory; the queue drains, and the
  spill while the leader's inserts succeed; a stop ends.
- **Process**: one generation of writers at a time; pool and spill outlive
  them; memory is empty between sessions; an exit keeps every value; a signal
  always ends the process.
- **History**: the series of a tag has a hole only for a reason that can be
  named; history read and subscription meet at the cutoff; what is to be read
  is taken over or counted as long as the session lives.
- **Discovery**: a browse ends, and finds every variable within reach or logs
  an error; it logs none without a cause; a connector takes all it found unless
  leaving tags out is allowed; the slices of several connectors neither overlap
  nor leave a tag to nobody.

`PROJECT.json` lists the hazards of the code line by line, with the properties
that cover each.

## 2. The modules

| Module | Models | Extends |
|---|---|---|
| `SegmentFile` | one JSON-Lines segment: append, truncate, read from an offset | – |
| `SpillBuffer` | `db/spill.py` with its worker thread, and the replay leader as its client | `SegmentFile` |
| `ReplayLeader` | `SpillBuffer` with `_db_healthy`, which decides whether the leader of `db/writer.py` asks for a replay | `SpillBuffer` |
| `ReplayStore` | abstract: what the spill promises | – |
| `BatchWriters` | `db/writer.py` and `enqueue_or_spill`, over what `ReplayStore` promises | – |
| `Connector` | `main.py`: sessions, stop, teardown, around `BatchWriters` | `BatchWriters` |
| `GapRecovery` | `opc/history.py`, `opc/subscription.py` and the order `main.py` gives them, over what the writers and the spill promise | – |
| `Discovery` | `opc/browser.py` in several connectors that share the catalog | – |
| `MCSpillBuffer`, `MCReplayLeader`, `MCBatchWriters`, `MCConnector`, `MCGapRecovery`, `MCDiscovery` | instances for TLC | the module they instantiate |
| `SpillBufferProofs`, `SpillSafetyProofs`, `SpillLossProofs` | theorems about `SpillBuffer`: types and the loan; offsets, sizes, the cap and what the segments contain; what becomes of a record | each extends the one before |
| `BatchWritersProofs`, `ConnectorProofs` | theorems about `BatchWriters`, and about `Connector` around it | the module they are about, and one the other |
| `GapRecoveryProofs`, `DiscoveryProofs` | theorems about `GapRecovery`, `Discovery` | the module they are about |
| `NumberLemmas` | minima, maxima, counts and induction over finite sets, for the proofs of several components | – |

### SegmentFile

Bytes are abstracted to half records: a line is `<<r, 1>>` (its text) and
`<<r, 2>>` (its end). Files, buffers, offsets and sizes count these units.
That is the coarsest grain at which a write can stop in the middle of a line,
and `Whole` says which lines `_decode` then still accepts: a torn line, or two
glued ones, are unreadable, as in `_w_read_prefix`.

### SpillBuffer

`wpc` is the program counter of the worker thread; its loop is cut where the
event loop, a failure or a kill can be seen in between:

    start -> retry -> collect -> (write -> [rotate -> rollover ->] append -> [fsync ->]) 
          -> serve -> house -> end -> retry ...           last -> drop -> fserve -> close -> done

| Code | Model |
|---|---|
| `_queue`, `_control_q` | `pending`, `requests` (a sequence of drains, acks, nacks, cancels, flushes) |
| `_closed` and `_stop` | `closed` |
| `_disk_healthy`, `_disk_has_data` | `diskHealthy`, `diskHasData` |
| `_retry_backlog`, the batch in `_w_write_batch` | `backlog`, `hand` and `mode` (where the batch came from) |
| `_inflight` | `inflight`, a set of `<<segment, offset>>` |
| `_cur_file`, its Python buffer, `_cur_path`, `_cur_size` | `file`, `buf`, `cur`, `curSize` |
| segment and `.ack` files | `files`, `acks` |
| `write`, `has_data`, `close` | `Write`, `HasData`, `Close` |
| `drain_async` and its timeout | `Ask`, `Resume`, `DrainTimeout` |
| `_replay_spill`'s ack and nack | `CommitOk`, `CommitFails` |
| `_w_retry_pending`, `_collect_pending` | `WRetryNothing`, `WRetryLater`, `WRetryDue`, `WCollect` |
| `_w_write_batch`, `_w_rotate`, `_w_fsync_cur` | `WReady` … `WFsync` |
| `_w_drain`, `_w_ack`, `_w_nack`, `_CancelDrainReq`, `_FlushReq` | `WDrainNothing`, `WDrain`, `WAck`, `WReturn`, `WFlush` |
| `_w_enforce_cap`, `_w_refresh_disk_flag` | `WHouse` (`Victims`), `AnyUnacked` |
| the end of `_worker_loop` | `WLast`, `WDropBacklog`, `WClose` |
| kill, exit, new start | `Crash`, `Restart`, `Boot` |

The operating system may move any prefix of the buffer to the file at any
write (`WAppend`), so a kill can cut anywhere. The constant `Faults` names the
failures that are allowed: `open` and `rotate` (opening a segment), `write`
(write raises, truncation works), `discard` (the truncation fails too),
`fsync`, `flush` (flush passes on a part and raises), `ack` (the `.ack` file
cannot be written), `timeout` (of a drain), `commit` (the insert fails, with
the rows in or not) and `cancel` (the leader is cancelled). A run names the
failures its properties are claimed under; §6 says what the others do.

A write that fails (`write`) is modelled optimistically in one respect: what
the file object already had buffered still reaches the file before the
truncation. The text layer of CPython may drop pending text when the write
below it raises; a record lost that way is not in the model.

### ReplayLeader

The leader of `SpillBuffer` asks whenever there is data. In the code
`_replay_spill` returns at once while `_db_healthy` is `False`, that is, from a
failed insert of the leader to its next successful one. `dbHealthy` is that
flag: `Asks` needs it, `Replays`, `ReplayFails`, `OwnInsert` and
`OwnInsertFails` set it, and a new leader (`Process`, `LeaderCancelled`) starts
with it. In `spill_live` no leader is cancelled: nothing would be replayed any
more (§6). The liveness of the spill is stated here, and the safety properties
in `SpillBuffer`, where the leader may ask at any time.

### ReplayStore

A set of held records, one batch lent at a time, and the rule that a record is
only let go once it is committed or given up in the open; what is given up may
stay readable for a while (a record counted as dropped whose line is on disk
all the same). `SpillBuffer`
implements it (`ImplementsStore`) with `held` mapped to the records that are
queued, in the worker's hand, in the backlog or readable on disk, `lent` to
the leader's batch while it is being inserted, and `givenUp` to what was
counted as dropped or cost by a kill. `BatchWriters` is written over this
promise: its `spilled` and `lent` are `held` and `lent`, and it grants the spill
what `ReplayStore` does: a batch whose insert went well is forgotten, in part
or not at all (`AckKeeps`: an `.ack` file that cannot be written is only
logged), and records that are not lent may be given up (`SpillGivesUp`).

### BatchWriters

One action is everything a task does between two awaits of `run()`; asyncio
interrupts it nowhere else. `wpc[w]` is the await a writer is in: `get`
(`queue.get` with its timeout), `drain`, `replay` (insert of a lent batch),
`insert`, `backoff` (sleep after a failure), `final` (last insert of
`_final_drain`). `Enqueue` is `enqueue_or_spill`, `Requeued` folds it over a
failed batch, `Finish` ends `_final_drain`. Writer 0 is the leader. `doubtful`
remembers the values that are in the table without their writer or the spill
knowing it: the answer of the COMMIT was lost, the writer was cancelled in its
insert, or the ack was not stored. They will be inserted again. The
environment delivers values (`Offer`), and starts, stops and cancels writers.

### Connector

`sess` is the await the session task is in, `main` the one `main()` is in.
`SessionStep` are the awaits that return or raise; `CancelSession` is
`session_task.cancel()`, and each of its cases says where a `CancelledError`
at that await goes through the two `finally` blocks. `cut` remembers that the
last teardown did not wait for all the writers; the safety properties that
need an undisturbed teardown say `~cut`.

### GapRecovery

What decides whether a series of values is complete: the newest stored time of
each tag is read (the watermark), the time is taken (the cutoff), the
monitored items are created, and then the server's history is read from
watermark to cutoff, tag by tag and page by page.

| Code | Model |
|---|---|
| the server: its clock, its history | `clock` (one tick per change of value), `values` |
| a change of value, `datachange_notification` | `Change` |
| data table, spill, queue and batches | `table`, `disk`, `mem`; `Save`, `Spill`, `Drop`, `Replay` |
| `_run_opc_session` | `sess`: `down`, `open`, `marked`, `subscribing`, `live`, `closing` |
| `load_watermarks` | `LoadWatermarks`, `marks` |
| `cutoff = datetime.now(...)` | `TakeCutoff`, `cutoff`; `Skew` is how far this host's clock may lag |
| `subscribe`, item by item | `Subscribe(t)`, `monitored` |
| `recover_gaps`, `_read_and_ingest` | `StartRecovery`, `Recover` (`ReadPage`, `GiveUp`); `unread` are the values of the ranges that no page has returned, `todo` the tags still to finish |
| the metrics of what is not recovered or dropped | `counted` |
| the `finally` block, a cancelled history task | `Lose`, `DropReads`, `Close` |
| `shutdown_timeout_s`, a kill | `Kill` |

A value is `<<tag, time>>`. The queue, the batches and the spill are sets out
of which values are saved in any order: requeueing, two writers and replay do
reorder them (`BatchWriters`, `ReplayStore`), and the watermark, a MAX, is
sensitive to exactly that. `window`, `unmarked`, `cancelled` and `killed` are
history variables: they name why a value will not be asked for.

### Discovery

`stack[c]` is the recursion of `_walk`: a node and the children it has yet to
look at; `visited`, `found` and `reported` are `visited`, `variables` and the
logged errors of one browse; `mine` the rows a connector has entered in this
session, `catalog` the shared table.

| Code | Model |
|---|---|
| `_collect_variables` | `Begin` |
| `_walk`, one child | `Look`: `Skip` (seen before), `Unreadable` (its class cannot be read), `Collect` (a variable), `Descend` (an object, unless too deep or unreadable) |
| the return of a `_walk` | `Return` |
| sort and `_select_partition`, with the fail-closed check | `Slice`, `Select` |
| the upserts of `discover_and_partition` | `Claim`, `Finish`, `Fail` |
| the end of the session | `End` |

Objects, variables, filters and the set of address spaces are constants; an
address space is any map from objects to sets of nodes, so cycles, several
parents and unreachable nodes are among them. `Offset(c) == c * Limit` is what
`docker-compose.scale.yml` sets for its four connectors (offsets 0, 5000,
10000, 15000 with a limit of 5000).

## 3. The runs

| Run | Shows |
|---|---|
| `spill_core` | Under the failures the spill is written for: `NoSilentLoss`, `AckedIsCommitted`, `InflightIsReturned`, `HasDataIsNotStale`, `KillWindow`, `CapSparesUnacked`, `NoRedelivery`, and the refinement `ImplementsStore` |
| `spill_any_fault` | What survives every failure there is: `LeaseIsInflight`, `LeasedSegmentsExist`, `SizeNotOverstated`, `PendingEmptyAtEnd`, `AcksAdvance`, and the types |
| `spill_live` | If the leader's `_db_healthy` keeps coming back, every accepted record gets into the table or is counted (`EventuallyReplayed`); `close()` ends the worker |
| `writers` | Two writers without dedup, two failures of any kind: `NothingVanishes`, `OneOwner`, `LentIsSpilled`, `StopEmptiesMemory`; `MemoryDrains`, `ReplayedWhileHealthy`, `StopEnds` |
| `connector` | Sessions that fail at every await and a signal at any time: `OneGeneration`, `WritersEndFirst`, `IdleMemoryEmpty`, `OrderlyExit`, `StopExits` |
| `gap_recovery` | Two tags, two sessions, every failure: `HolesAreExplained`, `NothingBetween`, `RangeIsRead` |
| `discovery` | Two connectors, four address spaces: `CompleteUnlessReported`, `ReportedForCause`, `TakesAllItFound`, `PartitionIsExact`, `BrowseEnds` |
| `writers_poison`, `writers_quiet`, `conn_sigterm`, `gap_silent`, `discovery_shift` | disagreements, §6 |

### Bounds, and why they are enough

- *Records* (`Rec`, `NumRec`): 2 or 3. Three records make two batches of two
  and one of one, a full queue with a value behind it, two segments and a
  third being written. Records are interchangeable in the spill, which
  compares none, so they are a symmetry set there; liveness runs use none.
- *Capacities*: queue 1 or 2, backlog 2, batch 1 or 2, fsync every 2,
  `SegmentUnits` 2 or 3 and `MaxUnits` 4, so that every limit is reached: the
  queue and the backlog overflow, a segment rotates in the middle of a batch,
  a drain spans two segments and stops in the middle of one, the cap removes
  segments while others are lent.
- *`MaxFaults`* = 2: a failure during the recovery from another one. One fault
  finds every disagreement of §6 except those that need none.
- *`MaxBoots`* = 2: one kill or restart between any two steps, with the
  directory as it was left.
- *`NumWriters`* = 2: the leader and another; a third adds nothing the second
  does not do.
- *`MaxSessions`* = 2 in `connector`: a session on what the last one left
  behind. In `writers`, whose temporal properties are costly, it is 1 with two
  records, of which one waits in the queue while the other is in a batch, in
  the spill or requeued; its safety properties are theorems for any number of
  sessions and records.
- *`MaxRetries`* = 2: `main()` gives up, and does not, at least once.

- *`GapRecovery`*: two tags, so that one is read while the other waits or
  fails; pages of one value, so that a gap takes several; a largest gap of one
  tick, so that one is too large; a clock that lags by one; three changes of
  value, enough for two rows and a hole between them; two sessions, two
  failures. `gap_silent` has no failure, a clock that does not lag and four
  changes: the shortest hole that a cancelled recovery leaves.
- *`Discovery`*: two objects under the root and three variables, a depth
  limit of two and four address spaces. In three of them nothing is too deep,
  so that it is the visited set and not the depth limit that ends their
  cycles: an object with a long and a short path to it; a cycle through the
  root (a browse may look at Objects once more) and a variable out of reach; a
  cycle between objects with a variable listed twice. The fourth is a cycle
  through the root with an object that is too deep if the browse meets it on
  the long way, and not if on the short one: there `max_depth` is logged and is
  not. A limit of two makes one full slice and one that is not, or, in the
  second space, one that holds all there is, so that a connector that may
  leave nothing out gets ready. Two sessions of each connector put browses of
  different times side by side.
- *The runs of §6* are small instances in which the disagreement is reached.

Deadlock is checked for the spill (`Terminated` is its intended end) and not
for the others, which end when their sessions do.

Each property of a passing run has a mutant of the code's model that violates
it (`mutants` in `PROJECT.json`, the operators marked "Mutant:" in the
modules, used by nothing else).

## 4. Fairness

- `ReplayLeader!Fairness`: the worker thread runs (`WF(Worker)`); the retry
  backoff elapses, since it is capped at five seconds (`SF(WRetryDue)`); the
  worker finds the control queue empty now and then, because between two
  drains the leader awaits its own queue (`SF(WServed)`); the event loop runs
  the leader, which calls `_replay_spill` after an empty `queue.get` too, and a
  started insert ends (`WF(Asks)`, `WF(Resume)`, `WF(Replays)`). That failures
  stop is not assumed but bounded by `MaxFaults`. That values arrive for the
  leader to insert is not assumed either: `EventuallyReplayed` has
  `[]<>dbHealthy` as its premise, and `writers_quiet` shows what happens
  without it.
- `BatchWriters!WritersFairness`: the event loop serves each task and an
  insert ends (`WF(WriterStep(w))`), time passes (`WF(Tick(w))`), a drain that
  is asked for again and again is answered with what the spill holds
  (`SF(Drained(w))`), which is what `EventuallyReplayed` shows of the spill
  itself. That values arrive is not assumed. `ReplayedWhileHealthy` has
  `[]<>healthy[Leader]` as its premise, for the same reason.
- `Connector!ConnectorFairSpec`: `main()`, the session and the writers are
  served, and every call a session awaits ends or is cancelled. That the
  server is lost or that a signal arrives is not assumed.
- `GapRecovery!FairSpec`: a history read has a time limit (`WF(Recover)`).
  Nothing is assumed of inserts and replays, so `RangeIsRead` ends where the
  writers take over: the value is in their hands, on disk, in the table or
  counted.
- `Discovery!FairSpec`: a call of the server returns or raises
  (`WF(Look \/ Return \/ Select)` for each connector).

## 5. Proofs

All for every set of records, tags or nodes, every capacity, every bound and,
where nothing else is said, every set of failures. All that is assumed of the constants are the `ASSUME`s
of the modules (capacities and page sizes are positive, failures are of the
named kinds, the nodes are finitely many numbers with the root among them),
which TLC evaluates in every run. Each argument is an inductive invariant,
stronger than the property, that every action keeps.

**Spill: types and the file object.** `TypeCorrect`. Types alone are not
inductive: a step that extends `files[cur]` needs a file there, and one that
truncates needs the segment of the file object. The strengthening `FileObject`
says that an open file object has its segment, that only an open one buffers
anything, that a file object left closed by a failed rotation is of a full
segment (so the worker rotates, and never appends to it), and where in its
loop the worker may be with which kind. One lemma per group of actions
(`LoopType`, `FlowType`, `WritePathType`, `ControlType`, `EdgeType`,
`ProcessType`).

**Spill: the loan.** `LeaseCorrect`, under every failure. `_w_ack`, `_w_nack`
and `_CancelDrainReq` clear `_inflight` without comparing tokens, so it is the
order of the requests that keeps them from ending somebody else's loan. The
strengthening `OneLiveDrain` says that the drain a leader waits for is unique
and that nothing but the flush of `close()` is queued behind it; the queue
being first-in first-out, whatever ends a loan has been served before the next
is made. `LoanReturned`, without `cancel`: `ReturnInv` adds that an orphaned
drain has a cancel queued behind it, and that `close()` finds the leader idle.

**Spill: offsets, sizes, the end**, under every failure. `StoreSteps` sorts
the steps by what they do to the files, so that each proof looks at ten kinds
of steps and not at forty. `SizeCorrect` follows from it directly. For
`LeasedStay` and `OffsetsAdvance` the strengthening is `LoanInv`: what is lent
has its segment and lies at or above the acked offset (`LoanIsThere`), and a
queued ack is of the batch that is lent, with nothing but a flush before it
(`AckIsOfLoan`), so no ack of an older batch can be served after a newer one
was lent. `EndsEmpty`: a worker that shuts down was told to, and from then on
`write()` refuses everything.

**Spill: the cap**, under every failure. `CapIsFair`. `_w_enforce_cap` stops
at the first segment, fully acked ones first and older ones first, with which
enough is removed, and the sizes of what it removes are summed by a fold over
a set. That fold is the value of a recursive function on the subsets of the
set; by induction over the subsets (`OverSubsets`, an induction over a set,
which a proof can name, not over an operator) such a function exists
(`TheSumAdds`), any element may be taken out first (`TotalWithout`), and the sum
grows with the set (`TotalGrows`). So a segment that is removed has everything
that goes before it removed as well (`VictimsInOrder`).

**Spill: what the segments contain.** `KillCostsLittle`, under every failure,
and `FlagNotStale`. From here on most theorems assume `CleanDisk`: `rotate`,
`discard` and `flush`, the three failures after which the file object does not
pass on what it was given, do not happen. That is what the code is written
for; §6 shows what goes wrong with each of them. `CleanSteps` sorts the steps
by what they do to the file object then, and `ContentSteps` by what they do to
`Content`, the text of a segment with what is still buffered: it is kept,
extended by whole lines, or removed with its segment. `FileInv` says that the
worker's `_cur_size` is the length of that text and that the text ends with a
whole line. `has_data()` is then a comparison of sizes that cannot miss a
line that `_w_drain` would find (`StoredIsUnacked`).

**Spill: no ack too far, and no record lost**, under `CleanDisk`.
`AckedCommitted` and `NothingLostSilently`. An offset *covers* a set of records
if it is at an end of the text or behind a newline (`Aligned`) and every line
it reaches into is of the set.
The heart is `DrainCovers`: the tokens of a batch cover what was covered
before together with the records of the batch. For a segment the drain read to
its end this is `AllDelivered`: every line of it has a rank, the number of
lines read before it, ranks grow with the offset, and where no line completes
the batch each has a rank below `BatchSize`. `AckedInv` (no offset lies behind
the flushed size) and `LoanCovered` (while an ack is queued, the loan covers
nothing but records that are in the table or counted) carry it from the drain
over the insert to the ack. `LossInv` puts these together. For
`NothingLostSilently` the record is followed on: `QueuedStays` from the queue
through the worker's hand and backlog to the segment or to a metric,
`StoredStays` in the segment until an ack covers it, the cap counts it or a
kill takes the buffer, and `KilledStored` over a kill. `HandInv` and `EndInv`
say that an orderly end leaves nothing in memory.

**Spill: the refinement**, under `CleanDisk`. `SpillIsReplayStore`: every step
of the spill is a step of `ReplayStore` or a stutter. `RefineStep` spells out
the steps of `ReplayStore` in the variables of the spill, and one lemma per
group of actions shows which of them it is (`LoopRefines`, `LeaderRefines`,
`WorkerRefines`, `ProcessRefines`). Two more invariants are needed. Whatever
is held or written was accepted (`AcceptedInv`), so that what
`NothingLostSilently` says of accepted records holds of all that a kill can
take. The batch the leader holds is still readable in the segments that are
lent (`LeaseHeld`): neither the cap nor an ack takes it away meanwhile. That
nothing else leaves, and that nothing forgotten comes back, are `StoredStays`
and `QueuedStays` one way and `StoredFrom` and `QueuedFrom` the other.

**Spill: nothing twice.** `NothingRedelivered`, for every value of the
constants. `NoRedelivery` speaks of the behaviours in which nothing has failed
yet, so the proof does not restrict `Faults`: `OnceInv` holds as long as
`Calm` does (`faults = 0 /\ boots = 1`), and a step into a calm state left a calm
state without a failure (`CalmSteps`). Meanwhile the queue and the worker's
hand hold a record once (`QueueOnce`), and what has left them is written to one
place of one segment (`OutOnce`): a batch is encoded in its order, so its
lines, and their units, differ (`EncodingsDistinct`, `BlobDistinct`). `DoneOnce`
follows a line from there. If its record is committed, it ends behind the acked
offset or behind the token of the batch that is lent, which is the one the
queued ack carries; if its record is lent, the token reaches it
(`DrainReaches`, the other half of `DrainCovers`: ranks grow strictly with the
offset, so no line that is delivered ends behind the one that completes the
batch). A drain finds nothing lent and reads behind the acked offsets, so
what it reads is not committed.

**Writers: the stop.** `StopsEmpty`. The invariant of a task (`TaskInv`):
a writer that has ended or sleeps has no batch, and only a stopping writer is
in its final drain. With it the last writer that ends by itself leaves the
queue empty: it ends only from an empty queue, and those that ended before
cannot put anything back.

**Writers: where a value is.** `WritersTyped`, `ValuesStay`,
`LoanStaysSpilled`, `EachHasOneOwner`, for any number of writers, batches and
queues of any length. What is stated of the values is not
inductive alone: a requeued batch meets a queue and a spill that must not have
its values already. `Custody` says so of every place: the queue and each batch
hold a value once (`Orderly`), and queue, spill, counter and batches have
nothing in common. Whatever a step of a writer does to the values is then one
relation, `Transfer`: it takes what was in its own batch and in the shared
places and leaves all of it there, in the table, or with a cancelled writer.
One lemma per await shows it (`GetTransfers`, `DrainTransfers`,
`ReplayTransfers`, `FlushTransfers`, `FinalTransfers`, `CancelTransfers`), and
that it keeps the invariant is shown once (`TransferKeeps`). `Requeued`
is a fold over a batch of any length; `RequeuedSteps` turns it into a sequence
of places each of which an `enqueue_or_spill` leads to from the one before,
and `RequeueKeeps` goes along it. `RowsInv` adds that a value with a row is
nowhere else, save for the `doubtful` ones, so that `EachHasOneOwner` is a
count (`AtMostOne`); it is claimed of all other values. A partial ack
(`AckForgets`) takes from the spill what has a row and makes what it leaves
doubtful, and what the spill gives up goes to the counter (`GivingUpKeeps`).

**Process.** `ProcessTyped`, `GenerationsDoNotMeet`,
`PoolOutlivesWriters`, `NothingInMemory`, `ExitsOrderly`. `ConnInv` puts the session's place and the writers
together: before and after the session's serving part all writers have ended
(`Generation`), unless a signal abandoned the last teardown (`Abandoned`),
after which no session follows. `ExitsOrderly` joins the two: `NothingVanishes`
says that what was taken is put away, in memory, or was lost with a cancelled
writer, and `ConnInv` that an exit whose teardown was not cut off finds the memory empty.
`ProcessInv` is the conjunction, with the types and the bounds (`Budget`).

**Gap recovery.** `GapTypeCorrect`, `HolesHaveReasons`, `GapIsCovered`. In
`GapInv` every value there ever was is held, or given up for a named reason,
or unread by a session that has its tag monitored, or newer than all rows of
its tag while nobody is subscribed, so that the next watermark lies below it.
`MarksAreRows` (a watermark is the time of a row, also when the row is not the
newest any more) and `RangeIsUnread` (what lies between watermark and cutoff
is unread or held) carry the argument across the cutoff.

**Discovery.** `DiscoveryTypeCorrect`, `BrowseIsComplete`,
`DepthIsTheOnlyCause`, `AllFoundAreTaken`, `SlicesPartition`. Being within reach is defined as being in every set that
has the root and is closed under children. In `WalkInv` whatever was looked at
is in each such set, and as long as nothing was reported every child of an
object that was looked at was looked at too or waits in a frame of the stack:
with an empty stack the visited set is closed itself. `CauseInv` says of the
stack that each frame is of a child of the one below, and that all but the
first are of nodes looked at, none of them in two frames (`Descent`). An object
that is too deep is one more child, and was not looked at: with it the stack
is the way down that `ReportedForCause` asks for (`TooDeep`). `PositionHasSlice` is
the arithmetic of the slices; the rest of `SlicesPartition` is that
connectors that found the same list rank it alike.

Only model-checked:

- liveness under fairness, which is out of the prover's reach. Every invariant
  and every action property that a passing run checks is a theorem.

## 6. Where the code and its documentation disagree

Each of these is a run that TLC ends with a counterexample.

- **`writers_poison`**: a batch with a value the table cannot hold (status
  codes above 2^31 - 1, that is, every Bad quality, in an `INTEGER` column)
  fails and is requeued for ever, with whatever was batched with it.
- **`writers_quiet`** (`SpillReplayed`): a failed insert of the leader turns
  replay off, and only a successful insert of the leader turns it on. With no
  new values, or when the other writer takes them, the spill stays full
  although the database is back, and the README promises that what was
  spilled is inserted then.
- **`conn_sigterm`**: `main()` cancels the session on a signal. The session
  has seen the same event and is already in its `finally` block, where
  `except Exception` does not catch the cancellation: `_stop_writers` is
  skipped, and the queue and the writers' batches are lost.
- **`gap_silent`**: a session that ends before `recover_gaps` is through
  leaves what it had not read uncounted, as a `CancelledError` is no
  `Exception`. Its subscription has already stored newer values of the same
  tags, so the next watermark is past the gap: a hole that no metric shows and
  no later session reads.
- **`discovery_shift`**: each connector slices the list of its own browse. An
  error that is only logged shortens that list, and the slice shifts: two
  connectors take the same tag, and another is left to nobody. The catalog,
  said to be the source of truth, is written and never read.

Four more show when one line of a configuration is changed:

- *A cancelled leader* (`"cancel"` added to `Faults` in `MCSpillCore.cfg`,
  `InflightIsReturned`): a leader that outlives `shutdown_timeout_s` is
  cancelled. If it awaits a drain, or the insert of a replayed batch, it
  neither cancels the drain nor nacks: a `CancelledError` is no `Exception`
  (`writer.py:194`). `_inflight` then answers every later drain of the process
  with nothing: no replay until the next restart.
- *A failed rotation* (`"rotate"` added, `NoSilentLoss`): a segment is closed
  and the next cannot be opened (`spill.py:681`). The next batch hits
  `ValueError`, which is no `OSError`: the handler of the loop logs it, and the
  batch is lost without being counted.
- *A torn flush* (`"flush"` added, `AckedIsCommitted`; it takes a buffer of
  more than one line, say `FsyncEvery = 4` and `SegmentUnits = 6`): a flush that
  passes on a part of the buffer is ignored by `_w_drain` (`spill.py:914`). It
  skips the torn line and hands out an offset behind it; the ack covers a
  record that was never delivered.
- *The window of the cutoff* (`SeamlessCutoff` in place of `NothingBetween` in
  `MCGap.cfg`): the cutoff is taken before the monitored items are created
  (`main.py:89`). A value that comes after it and changes again before its item
  exists is behind the end of the history read and ahead of the first
  notification. The comment at the cutoff says that the two meet.

`cancel`, `rotate`, `flush` and `discard` are therefore not among the `Faults`
of `spill_core`, and the theorems under `CleanDisk` exclude the last three: what
`spill_core` claims, it claims without them.

Others are visible in the models and named in their properties. `NoSilentLoss`
is not claimed under `discard`: if the truncation after a failed write fails as
well, the torn line stays and takes the next one with it. A writer cancelled
after `shutdown_timeout_s` takes its batch along: `NothingVanishes` accounts
for it under `cancelled`, and no metric does. Since a requeued batch goes
behind newer values, what `enqueue_or_spill` drops from the head of the queue
need not be the oldest value. And `HolesAreExplained` lists, next to the
values that are counted, four kinds that are not: changes between the cutoff
and the monitored item (`window`), tags without a watermark after a failed
query (`unmarked`), and what a cancelled recovery or a kill took
(`cancelled`, `killed`).

## 7. What is abstracted, and what is left out

Spill, writers, process:

- *Power loss.* A kill loses the buffer of the file object; what reached the
  operating system is kept. fsync is modelled for its failures and its flush,
  not for durability.
- *Clock.* Segment names are time stamps; they are numbered, that is, the
  clock is taken to be monotonic across restarts.
- *`close()` that runs into its time limit* of ten seconds leaves a daemon
  thread to the end of the process: to the files that is `Crash`.
- *The last `_collect_pending`* of the worker does nothing in the model;
  `PendingEmptyAtEnd` says that there is nothing for it to do.
- *`drain()` and `flush()`*, the synchronous calls, are only used by tests.
- *A disabled spill* is not modelled; a spill that refuses everything is among
  the behaviours of `Enqueue`.
- *Inserts* are atomic: one COPY, or one transaction with a staging table. The
  fall-back for a violated unique index is part of the same outcome.
- *Record contents*, event ids, SQL and log texts are left out, and so is the
  size of a record: all have two units.
- *`RECONNECT_MAX_RETRIES` negative* (no limit) is not modelled.
- *Pool close* may end at any time after it begins; writers that still run
  then may or may not get their last insert done.
- *Cancellation* may land at every await of a session, also where the two
  tasks would have to be scheduled in one particular order. The order that
  matters in `conn_sigterm` is the one of Python 3.12, which the image uses.
- *Deliveries* go on from `subscribe()` until the client is disconnected.
- In `Connector` *the history task* is only a task the session waits for; the
  values it reads come from `Offer` like those of the subscription. What it
  reads is the subject of `GapRecovery`.
- `BatchWriters` is not stated to refine `ReplayStore` itself: one step of a
  writer inserts, acks and spills at once, which are several steps there. The
  link is that `SpillBuffer` does refine it (`ImplementsStore`), and that what
  `BatchWriters` lets the spill do follows the actions of `ReplayStore`:
  `Accept`, `Lend`, `EndInsert`, `Forget` of a part of an inserted batch or of
  none of it, `GiveUp`. Three freedoms of `ReplayStore` it does not grant: `Die`,
  since a kill ends the writers as well; giving up what is lent, which the cap
  spares (`LeasedSegmentsExist`); and a record that was given up and stays
  readable all the same, which may come back as a row. And the ack is served
  with the insert: the worker serves it before the next drain in any case,
  since its queue is first-in first-out.
- *A failed ack is counted as a failure* of the writers' model (`ack` in
  `Faults`), so it may happen as often as `MaxFaults` allows.

Gap recovery and subscription:

- *Source times* are distinct for each tag, and a value is identified by tag
  and time. The event id has the value in it as well, and a value without
  `SourceTimestamp` gets the time of this host on the live path
  (`subscription.py:80`) and `ServerTimestamp` on the history path
  (`history.py:142`): such a value may get two rows, which the model does not
  show. Nor does it show a time without time zone, which only one of the two
  paths repairs (`history.py:145`).
- *Duplicates* are one row, that is, `POSTGRES_DEDUP` is on.
- *The pipeline* from arrival to row is a set that gives up its values in any
  order; that it loses none without a count is what the other modules show.
  What is in the spill is still there in the next session.
- *The clock* of this host may lag by `Skew`, not run ahead: ahead it only
  makes the range longer.
- *`HISTORY_RECOVERY_ENABLED=false`* means that nothing is read; the holes
  are then intended.

Discovery:

- *Nodes* are objects or variables, numbered in the order of their `node_id`;
  other classes are passed over by the code. The address space does not change
  while it is browsed.
- *Names, data types and row ids* (`_describe`, the ids the upsert returns) are
  data.
- *The reads of one child* are one step: connectors share the catalog only.

Not modelled: `retry_async`, a loop around one call without state that outlives
it (in `Connector` the connection succeeds, is given up or is cancelled; how
long it waits is data); the health flag of `utils/metrics.py`, which all
writers write and only the HTTP endpoint reads, so that no other step depends
on it; configuration (`config.py`: parsing without state), schema
(`initializer.py`: a fixed sequence of idempotent statements that in
`Connector` succeeds or raises), the OPC UA client and TLS (thin layers over
libraries), logging, tools and deployment.

## 8. Plan

Order: the path of a value from the queue to the table first, since that is
what the connector is for; then where values come from; then the rest.

1. *(done)* `SegmentFile`, `SpillBuffer`, `ReplayStore`; types and the loan
   proved.
2. *(done)* `BatchWriters` over the promise of `ReplayStore`; `Connector`
   around it; their stop and lifecycle properties proved.
3. *(done)* `GapRecovery`, with its safety properties proved.
4. *(done)* `Discovery`, with its safety properties proved.
5. *(done)* Offsets, sizes and the end of the spill's worker proved under
   every failure.
6. *(done)* `HasDataIsNotStale`, `AckedIsCommitted` and `NoSilentLoss` proved
   without `rotate`, `discard` and `flush`, `KillWindow` under every failure.
   The refinement `ImplementsStore`, on top of them. `NoRedelivery`, and what
   the cap removes, under every failure.
7. *(done)* `ReplayLeader`: what `_db_healthy` leaves of the liveness of the
   spill. `ReportedForCause` proved.
8. *(open)* The identity of a value without source time, over both paths; the
   health flag, if something comes to depend on it.
