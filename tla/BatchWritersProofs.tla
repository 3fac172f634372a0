------------------------- MODULE BatchWritersProofs -------------------------
(***************************************************************************)
(* Proofs about BatchWriters: types and bounds, who holds a value, that    *)
(* none vanishes, and what a stop leaves behind.  For any number of        *)
(* writers and values, every capacity, and every failure there is.         *)
(***************************************************************************)
EXTENDS BatchWriters, SequenceTheorems, NumberLemmas

Ended == {"off", "done"}

\* A writer that has ended, or sleeps after a failed insert, has no batch, and
\* the last insert is one of a writer that was told to stop.
TaskInv ==
    /\ wpc = [w \in Writers |-> wpc[w]]
    /\ batch = [w \in Writers |-> batch[w]]
    /\ \A w \in Writers : wpc[w] \in Ended \cup {"backoff"} => batch[w] = <<>>
    /\ \A w \in Writers : wpc[w] = "final" => stopping

\* What a step of a writer does to its own place and batch: it ends without a
\* batch, and if it is not cancelled, then on a stop and with an empty queue.
Move(w, l, b) ==
    /\ Goto(w, l, b)
    /\ l \in {"done", "backoff"} => b = <<>>
    /\ l = "final" => stopping
    /\ l = "done" => cancelling \/ (stopping /\ queue' = <<>>)

Moves(w) == \E l \in Labels \ {"off"} : \E b : Move(w, l, b)

LEMMA FinishMoves ==
    ASSUME NEW w \in Writers, NEW rest, NEW p, stopping, Finish(w, rest, p)
    PROVE  Moves(w)
<1>1. Goto(w, "done", <<>>) BY DEF Finish
<1>2. queue' = <<>> BY DEF Finish, Become, Place
<1> QED BY <1>1, <1>2 DEF Moves, Move, Labels

LEMMA LoopHeadMoves ==
    ASSUME NEW w \in Writers, NEW b, NEW p, LoopHead(w, b, p)
    PROVE  Moves(w)
<1>1. CASE Goto(w, "get", b) BY <1>1 DEF Moves, Move, Labels
<1>2. CASE stopping /\ Goto(w, "final", b) BY <1>2 DEF Moves, Move, Labels
<1>3. CASE stopping /\ Finish(w, {}, p) BY <1>3, FinishMoves
<1> QED BY <1>1, <1>2, <1>3 DEF LoopHead

LEMMA AfterReplayMoves ==
    ASSUME NEW w \in Writers, NEW b, NEW p, AfterReplay(w, b, p)
    PROVE  Moves(w)
<1>1. CASE Goto(w, "insert", b) BY <1>1 DEF Moves, Move, Labels
<1>2. CASE LoopHead(w, b, p) BY <1>2, LoopHeadMoves
<1> QED BY <1>1, <1>2 DEF AfterReplay

LEMMA ReplayMoves ==
    ASSUME NEW w \in Writers, NEW b, NEW p, Replay(w, b, p)
    PROVE  Moves(w)
<1>1. CASE Goto(w, "drain", b) BY <1>1 DEF Moves, Move, Labels
<1>2. CASE AfterReplay(w, b, p) BY <1>2, AfterReplayMoves
<1> QED BY <1>1, <1>2 DEF Replay

\* A step of a writer is one of a writer that has not ended.
LEMMA WriterMoves ==
    ASSUME NEW w \in Writers, TaskInv, WriterStep(w)
    PROVE  /\ wpc[w] \notin Ended
           /\ Moves(w)
           /\ UNCHANGED <<control, spillOpen>>
<1>1. CASE GetItem(w) BY <1>1, ReplayMoves DEF GetItem, Active, Ended
<1>2. CASE GetTimeout(w) BY <1>2, ReplayMoves DEF GetTimeout, Active, Ended
<1>3. CASE Drained(w)
  <2>1. Goto(w, "replay", batch[w]) BY <1>3 DEF Drained
  <2>2. Moves(w) BY <2>1 DEF Moves, Move, Labels
  <2> QED BY <1>3, <2>2 DEF Drained, Active, Ended
<1>4. CASE DrainedNothing(w)
  BY <1>4, AfterReplayMoves DEF DrainedNothing, Active, Ended
<1>5. CASE Replayed(w)
  <2>1. \E p : AfterReplay(w, batch[w], p) BY <1>5 DEF Replayed
  <2>2. Moves(w) BY <2>1, AfterReplayMoves
  <2> QED BY <1>5, <2>2 DEF Replayed, Active, Ended
<1>6. CASE ReplayFailed(w)
  BY <1>6, AfterReplayMoves DEF ReplayFailed, Active, Ended
<1>7. CASE Flushed(w) BY <1>7, LoopHeadMoves DEF Flushed, Active, Ended
<1>8. CASE FlushFailed(w)
  <2>1. Goto(w, "backoff", <<>>) BY <1>8 DEF FlushFailed
  <2>2. Moves(w) BY <2>1 DEF Moves, Move, Labels
  <2> QED BY <1>8, <2>2 DEF FlushFailed, Active, Ended
<1>9. CASE BackedOff(w) BY <1>9, LoopHeadMoves DEF BackedOff, Active, Ended
<1>10. CASE FinalFlush(w)
  <2>1. wpc[w] = "final" /\ stopping BY <1>10 DEF FinalFlush, TaskInv
  <2>2. PICK rest : Finish(w, rest, Here) BY <1>10 DEF FinalFlush
  <2>3. Moves(w) BY <2>1, <2>2, FinishMoves, Zenon
  <2> QED BY <1>10, <2>1, <2>3 DEF FinalFlush, Ended
<1>11. CASE Cancelled(w)
  <2>1. Goto(w, "done", <<>>) /\ cancelling BY <1>11 DEF Cancelled
  <2>2. Moves(w) BY <2>1 DEF Moves, Move, Labels
  <2> QED BY <1>11, <2>2 DEF Cancelled, Ended
<1> QED BY <1>1, <1>2, <1>3, <1>4, <1>5, <1>6, <1>7, <1>8, <1>9, <1>10, <1>11
        DEF WriterStep

LEMMA TaskInvStep ==
    ASSUME NEW w \in Writers, TaskInv, WriterStep(w)
    PROVE  TaskInv'
<1>1. Moves(w) /\ stopping' = stopping BY WriterMoves DEF control
<1>2. PICK l \in Labels \ {"off"} : \E b : Move(w, l, b) BY <1>1 DEF Moves
<1> PICK b : Move(w, l, b) BY <1>2
<1>3. /\ wpc' = [wpc EXCEPT ![w] = l]
      /\ batch' = [batch EXCEPT ![w] = b]
  BY DEF Move, Goto
<1>4. \A u \in Writers : /\ wpc'[u] = IF u = w THEN l ELSE wpc[u]
                         /\ batch'[u] = IF u = w THEN b ELSE batch[u]
  BY <1>3 DEF TaskInv
<1>5. /\ wpc' = [u \in Writers |-> wpc'[u]]
      /\ batch' = [u \in Writers |-> batch'[u]]
  BY <1>3 DEF TaskInv
<1> QED BY <1>1, <1>4, <1>5 DEF TaskInv, Move, Ended

\* The writers are all ended by the step of the last of them.
LEMMA LastEnds ==
    ASSUME NEW w \in Writers, TaskInv, WriterStep(w), AllEnded', ~cancelling
    PROVE  stopping /\ queue' = <<>>
<1>1. Moves(w) BY WriterMoves
<1>2. PICK l \in Labels \ {"off"} : \E b : Move(w, l, b) BY <1>1 DEF Moves
<1>3. wpc'[w] = l BY <1>2 DEF Move, Goto, TaskInv
<1>4. l = "done" BY <1>3 DEF AllEnded
<1> QED BY <1>2, <1>4 DEF Move

LEMMA FreshTasks == ASSUME FreshWriters PROVE TaskInv' /\ ~AllEnded'
<1>1. Leader \in Writers
  BY WritersAssumption DEF Leader, Writers
<1> QED BY <1>1 DEF FreshWriters, TaskInv, Ended, AllEnded

LEMMA TaskInvStays ==
    ASSUME TaskInv, UNCHANGED <<wpc, batch>>, stopping => stopping'
    PROVE  TaskInv'
<1>1. wpc' = wpc /\ batch' = batch OBVIOUS
<1>2. wpc' = [w \in Writers |-> wpc'[w]] /\ batch' = [w \in Writers |-> batch'[w]]
  BY <1>1 DEF TaskInv
<1> QED BY <1>1, <1>2, Zenon DEF TaskInv

LEMMA EmptyMemory == TaskInv /\ AllEnded /\ queue = <<>> => InMemory = {}
<1> SUFFICES ASSUME TaskInv, AllEnded, queue = <<>> PROVE InMemory = {} OBVIOUS
<1>1. \A w \in Writers : batch[w] = <<>> BY DEF TaskInv, AllEnded, Ended
<1>2. Elems(<<>>) = {} BY DEF Elems
<1> QED BY <1>1, <1>2 DEF InMemory

LEMMA InitTasks == WritersInit => TaskInv /\ AllEnded /\ queue = <<>>
BY DEF WritersInit, TaskInv, AllEnded

-----------------------------------------------------------------------------
(* The writers by themselves.                                              *)

LEMMA WritersNextTasks ==
    ASSUME TaskInv, [WritersNext]_writerVars
    PROVE  /\ TaskInv'
           /\ AllEnded' /\ ~AllEnded /\ ~cancelling => InMemory' = {}
<1>1. CASE Source
  <2>1. UNCHANGED <<wpc, batch, stopping>> BY <1>1 DEF Source, Offer, task, control
  <2> QED BY <2>1, TaskInvStays DEF AllEnded
<1>2. ASSUME NEW w \in Writers, WriterStep(w) PROVE
          /\ TaskInv'
          /\ AllEnded' /\ ~AllEnded /\ ~cancelling => InMemory' = {}
  <2>1. TaskInv' BY <1>2, TaskInvStep
  <2>2. ASSUME AllEnded', ~cancelling PROVE queue' = <<>>
    BY <1>2, <2>2, LastEnds
  <2>3. (TaskInv /\ AllEnded /\ queue = <<>> => InMemory = {})'
    BY EmptyMemory, PTL
  <2> QED BY <2>1, <2>2, <2>3
<1>3. ASSUME NEW w \in Writers, Tick(w) PROVE UNCHANGED <<wpc, batch, stopping>>
  BY <1>3 DEF Tick, control
<1>4. CASE StartWriters BY <1>4, FreshTasks DEF StartWriters
<1>5. CASE SpillGivesUp \/ StopWriters \/ CancelWriters \/ UNCHANGED writerVars
  <2>1. UNCHANGED <<wpc, batch>> /\ (stopping => stopping')
    BY <1>5 DEF SpillGivesUp, StopWriters, CancelWriters, writerVars, task, control
  <2> QED BY <2>1, TaskInvStays DEF AllEnded
<1>6. CASE \E w \in Writers : Tick(w)
  BY <1>3, <1>6, TaskInvStays DEF AllEnded
<1> QED BY <1>1, <1>2, <1>4, <1>5, <1>6 DEF WritersNext, Tasks

\* Writers that end by themselves leave no value in a batch or in the queue
\* (_final_drain of the last of them), for any number of writers.
THEOREM StopsEmpty == WritersSpec => StopEmptiesMemory
<1>1. WritersInit => TaskInv BY InitTasks
<1>2. TaskInv /\ [WritersNext]_writerVars => TaskInv' BY WritersNextTasks
<1>3. TaskInv /\ [WritersNext]_writerVars =>
          [AllEnded' /\ ~AllEnded /\ ~cancelling => InMemory' = {}]_writerVars
  BY WritersNextTasks
<1> QED BY <1>1, <1>2, <1>3, PTL DEF WritersSpec, StopEmptiesMemory

-----------------------------------------------------------------------------
(* Who holds a value.                                                      *)

Distinct(s) == \A i, j \in DOMAIN s : s[i] = s[j] => i = j

Held(p) == Elems(p.queue) \cup p.spilled \cup p.dropped
Batches == UNION {Elems(batch[w]) : w \in Writers}

\* What a place may be: within its bounds, and no value in it twice.
Orderly(p) ==
    /\ p.queue \in Seq(Rec) /\ Len(p.queue) <= QueueMax
    /\ p.spilled \in SUBSET Rec /\ p.dropped \in SUBSET Rec
    /\ Distinct(p.queue)
    /\ Elems(p.queue) \cap p.spilled = {}
    /\ Elems(p.queue) \cap p.dropped = {}
    /\ p.spilled \cap p.dropped = {}

\* A value has one owner: the queue, one batch, the spill or the counter.
Custody ==
    /\ Orderly(Here)
    /\ \A w \in Writers : Distinct(batch[w]) /\ Elems(batch[w]) \cap Held(Here) = {}
    /\ \A v, w \in Writers : v # w => Elems(batch[v]) \cap Elems(batch[w]) = {}
    /\ Held(Here) \cup Batches \cup InTable \subseteq offered

\* A writer that awaits a value has room for it, and only the leader replays.
Room ==
    \A w \in Writers :
        /\ wpc[w] = "get" => Len(batch[w]) < BatchSize
        /\ wpc[w] \in {"drain", "replay"} => w = Leader

DataInv == WritersTypeOK /\ TaskInv /\ Room /\ Custody /\ LentIsSpilled /\ NothingVanishes

\* A value whose row is written is nowhere else, unless nobody took note of
\* that insert.
RowsInv ==
    \A r \in Rec \ doubtful :
        rows[r] > 0 => rows[r] = 1 /\ r \notin Held(Here) \cup Batches

-----------------------------------------------------------------------------
(* The queue, value by value.                                              *)

LEMMA Appended ==
    ASSUME NEW s \in Seq(Rec), NEW r \in Rec
    PROVE  /\ Append(s, r) \in Seq(Rec) /\ Len(Append(s, r)) = Len(s) + 1
           /\ Elems(Append(s, r)) = Elems(s) \cup {r}
           /\ Distinct(s) /\ r \notin Elems(s) => Distinct(Append(s, r))
<1> DEFINE t == Append(s, r)
<1>1. /\ t \in Seq(Rec) /\ Len(t) = Len(s) + 1
      /\ \A i \in 1..Len(s) : t[i] = s[i]
      /\ t[Len(s) + 1] = r
  BY AppendProperties
<1>2. Len(s) \in Nat /\ DOMAIN s = 1..Len(s) /\ DOMAIN t = 1..Len(t)
  BY <1>1, LenProperties
<1> HIDE DEF t
<1>3. DOMAIN t = DOMAIN s \cup {Len(s) + 1} BY <1>1, <1>2
<1>4. Elems(t) = Elems(s) \cup {r} BY <1>1, <1>2, <1>3 DEF Elems
<1>5. ASSUME Distinct(s), r \notin Elems(s) PROVE Distinct(t)
  BY <1>1, <1>2, <1>3, <1>5 DEF Distinct, Elems
<1> QED BY <1>1, <1>4, <1>5 DEF t

LEMMA Headed ==
    ASSUME NEW s \in Seq(Rec), s # <<>>
    PROVE  /\ Head(s) \in Rec /\ Tail(s) \in Seq(Rec)
           /\ Len(s) \in Nat \ {0} /\ Len(Tail(s)) = Len(s) - 1
           /\ Elems(s) = Elems(Tail(s)) \cup {Head(s)}
           /\ Distinct(s) => Distinct(Tail(s)) /\ Head(s) \notin Elems(Tail(s))
<1> DEFINE t == Tail(s)
<1>1. /\ Head(s) \in Rec /\ t \in Seq(Rec) /\ Head(s) = s[1]
      /\ Len(t) = Len(s) - 1 /\ \A i \in 1..Len(t) : t[i] = s[i + 1]
  BY HeadTailProperties
<1>2. Len(s) \in Nat \ {0} /\ DOMAIN s = 1..Len(s) /\ DOMAIN t = 1..Len(t)
  BY <1>1, LenProperties, EmptySeq
<1> HIDE DEF t
<1>3. Elems(s) = Elems(t) \cup {Head(s)}
  <2>1. ASSUME NEW i \in DOMAIN s PROVE s[i] \in Elems(t) \cup {Head(s)}
    <3>1. i = 1 \/ (i - 1 \in 1..Len(t) /\ t[i - 1] = s[i]) BY <1>1, <1>2
    <3> QED BY <1>1, <1>2, <3>1 DEF Elems
  <2>2. ASSUME NEW i \in DOMAIN t PROVE i + 1 \in DOMAIN s /\ t[i] = s[i + 1]
    BY <1>1, <1>2
  <2>3. 1 \in DOMAIN s BY <1>2
  <2> QED BY <1>1, <2>1, <2>2, <2>3 DEF Elems
<1>4. ASSUME Distinct(s) PROVE Distinct(t) /\ Head(s) \notin Elems(t)
  <2>1. \A i \in DOMAIN t : /\ i + 1 \in DOMAIN s /\ t[i] = s[i + 1]
                            /\ i \in Nat /\ i + 1 # 1
    BY <1>1, <1>2
  <2>2. 1 \in DOMAIN s BY <1>2
  <2>3. \A i, j \in DOMAIN t : t[i] = t[j] => i + 1 = j + 1
    BY <1>4, <2>1, Zenon DEF Distinct
  <2>4. Distinct(t) BY <2>1, <2>3 DEF Distinct
  <2>5. \A i \in DOMAIN t : t[i] # Head(s) BY <1>1, <1>4, <2>1, <2>2 DEF Distinct
  <2> QED BY <2>4, <2>5 DEF Elems
<1> QED BY <1>1, <1>2, <1>3, <1>4 DEF t

\* enqueue_or_spill keeps everything there was and the new value, each once.
LEMMA EnqueueKeeps ==
    ASSUME NEW p, Orderly(p), NEW r \in Rec, r \notin Held(p),
           NEW after \in Enqueue(p, r)
    PROVE  /\ Orderly(after)
           /\ Held(after) = Held(p) \cup {r}
           /\ p.spilled \subseteq after.spilled
<1> USE DEF Place
<1>1. p.queue \in Seq(Rec) /\ Len(p.queue) \in Nat /\ QueueMax \in Nat \ {0}
  BY WritersAssumption, LenProperties DEF Orderly
<1>2. CASE Len(p.queue) < QueueMax
  <2>1. after = Place(Append(p.queue, r), p.spilled, p.dropped)
    BY <1>2 DEF Enqueue
  <2>2. /\ after.queue = Append(p.queue, r)
        /\ after.spilled = p.spilled /\ after.dropped = p.dropped
    BY <2>1
  <2>3. /\ after.queue \in Seq(Rec) /\ Len(after.queue) <= QueueMax
        /\ Elems(after.queue) = Elems(p.queue) \cup {r}
        /\ Distinct(after.queue)
    BY <1>1, <1>2, <2>2, Appended DEF Orderly, Held
  <2> QED BY <2>2, <2>3 DEF Orderly, Held
<1>3. CASE ~(Len(p.queue) < QueueMax)
  <2>1. p.queue # <<>> BY <1>1, <1>3, EmptySeq
  <2>2. CASE after = Place(Append(Tail(p.queue), r), p.spilled,
                           p.dropped \cup {Head(p.queue)})
    <3>1. /\ after.queue = Append(Tail(p.queue), r)
          /\ after.spilled = p.spilled
          /\ after.dropped = p.dropped \cup {Head(p.queue)}
      BY <2>2
    <3>2. /\ Head(p.queue) \in Rec /\ Tail(p.queue) \in Seq(Rec)
          /\ Len(Tail(p.queue)) = Len(p.queue) - 1
          /\ Elems(p.queue) = Elems(Tail(p.queue)) \cup {Head(p.queue)}
          /\ Distinct(Tail(p.queue)) /\ Head(p.queue) \notin Elems(Tail(p.queue))
      BY <1>1, <2>1, Headed DEF Orderly
    <3>3. /\ after.queue \in Seq(Rec)
          /\ Len(after.queue) = Len(Tail(p.queue)) + 1
          /\ Elems(after.queue) = Elems(Tail(p.queue)) \cup {r}
          /\ Distinct(after.queue)
      <4>1. r \notin Elems(Tail(p.queue)) BY <3>2 DEF Held
      <4> DEFINE t == Tail(p.queue)
      <4>2. t \in Seq(Rec) /\ r \notin Elems(t) /\ Distinct(t) BY <3>2, <4>1
      <4> HIDE DEF t
      <4>3. /\ Append(t, r) \in Seq(Rec) /\ Len(Append(t, r)) = Len(t) + 1
            /\ Elems(Append(t, r)) = Elems(t) \cup {r}
            /\ Distinct(Append(t, r))
        BY <4>2, Appended
      <4>4. after.queue = Append(t, r) BY <3>1 DEF t
      <4>5. /\ after.queue \in Seq(Rec) /\ Len(after.queue) = Len(t) + 1
            /\ Elems(after.queue) = Elems(t) \cup {r}
            /\ Distinct(after.queue)
        BY <4>3, <4>4
      <4> QED BY <4>5 DEF t
    <3>4. Len(after.queue) <= QueueMax BY <1>1, <3>2, <3>3 DEF Orderly
    <3> QED BY <3>1, <3>2, <3>3, <3>4 DEF Orderly, Held
  <2>3. CASE after = Place(p.queue, p.spilled \cup {r}, p.dropped)
    <3>1. /\ after.queue = p.queue /\ after.spilled = p.spilled \cup {r}
          /\ after.dropped = p.dropped
      BY <2>3
    <3> QED BY <3>1 DEF Orderly, Held
  <2> QED BY <1>3, <2>2, <2>3 DEF Enqueue
<1> QED BY <1>2, <1>3

\* _requeue, step by step: reached[k] are the places the first k calls of
\* enqueue_or_spill may lead to.
LEMMA RequeuedSteps ==
    ASSUME NEW b \in Seq(Rec)
    PROVE  \E reached :
               /\ reached[0] = {Here}
               /\ \A k \in 1..Len(b) : reached[k] =
                      UNION {Enqueue(p, b[k]) : p \in reached[k - 1]}
               /\ reached[Len(b)] = Requeued(b)
<1> DEFINE n == Len(b)
           All(k, ps) == UNION {Enqueue(p, b[k]) : p \in ps}
           Of(f, s) == IF s = {} THEN {Here} ELSE All(Max(s), f[s \ {Max(s)}])
           Fits(f, k) == f = [s \in SUBSET (1..k) |-> Of(f, s)]
<1>1. n \in Nat /\ DOMAIN b = 1..n BY LenProperties
<1>2. Requeued(b) = (CHOOSE f : Fits(f, n))[1..n]
  BY <1>1 DEF Requeued, FoldLeft, MapThenFoldSet
<1> HIDE DEF n
<1>3. ASSUME NEW k \in Nat, NEW s \in SUBSET (1..k), s # {}
      PROVE  Max(s) \in s /\ \A x \in s : x <= Max(s)
  <2>1. s \subseteq Nat /\ \A x \in s : x <= k OBVIOUS
  <2>2. \E m \in s : \A x \in s : x <= m
    <3> DEFINE T == {i \in Nat : \A u \in SUBSET (1..i) :
                         u # {} => \E m \in u : \A x \in u : x <= m}
    <3>1. 0 \in T
      <4>1. 1..0 = {} BY SMT
      <4> QED BY <4>1
    <3>2. ASSUME NEW i \in Nat, i \in T, NEW u \in SUBSET (1..(i + 1)), u # {}
          PROVE  \E m \in u : \A x \in u : x <= m
      <4>1. CASE i + 1 \in u BY <4>1
      <4>2. CASE i + 1 \notin u
        <5>1. u \in SUBSET (1..i) BY <4>2
        <5> QED BY <3>2, <5>1
      <4> QED BY <4>1, <4>2
    <3>3. \A i \in Nat : i \in T => i + 1 \in T BY <3>2
    <3> HIDE DEF T
    <3>4. k \in T BY <3>1, <3>3, Inductive
    <3>5. \A u \in SUBSET (1..k) : u # {} => \E m \in u : \A x \in u : x <= m
      BY <3>4 DEF T
    <3> QED BY <1>3, <3>5, Zenon
  <2> QED BY <2>2 DEF Max
<1>4. \A k \in Nat : \E f : Fits(f, k)
  <2> DEFINE T == {k \in Nat : \E f : Fits(f, k)}
  <2>1. 0 \in T
    <3> DEFINE g == [s \in SUBSET (1..0) |-> {Here}]
    <3>1. \A s \in SUBSET (1..0) : s = {} OBVIOUS
    <3>2. Fits(g, 0) BY <3>1
    <3> QED BY <3>2
  <2>2. ASSUME NEW k \in Nat, NEW f, Fits(f, k) PROVE k + 1 \in T
    <3> DEFINE g == [s \in SUBSET (1..(k + 1)) |->
                        IF s \in SUBSET (1..k) THEN f[s] ELSE All(k + 1, f[s \ {k + 1}])]
    <3>1. ASSUME NEW s \in SUBSET (1..(k + 1)) PROVE g[s] = Of(g, s)
      <4>1. CASE s \in SUBSET (1..k)
        <5>1. g[s] = Of(f, s) BY <2>2, <4>1
        <5>2. CASE s = {} BY <5>1, <5>2
        <5>3. CASE s # {}
          <6>1. s \ {Max(s)} \in SUBSET (1..k) BY <4>1
          <6>2. g[s \ {Max(s)}] = f[s \ {Max(s)}] BY <6>1
          <6> HIDE DEF g, All
          <6> QED BY <5>1, <5>3, <6>2
        <5> QED BY <5>2, <5>3
      <4>2. CASE s \notin SUBSET (1..k)
        <5>1. k + 1 \in s /\ \A x \in s : x <= k + 1 BY <4>2
        <5>2. Max(s) = k + 1
          <6>1. k + 1 \in Nat BY SMT
          <6>2. Max(s) \in s /\ k + 1 <= Max(s)
            BY <1>3, <3>1, <5>1, <6>1
          <6> HIDE DEF Of, All
          <6>3. \A x \in s : x <= k + 1 /\ x \in Nat BY <3>1, <5>1
          <6>4. Max(s) <= k + 1 /\ Max(s) \in Nat BY <6>2, <6>3
          <6> QED BY <6>1, <6>2, <6>4
        <5>3. s \ {k + 1} \in SUBSET (1..k) BY SMT
        <5>4. g[s \ {k + 1}] = f[s \ {k + 1}] BY <5>3
        <5>5. g[s] = All(k + 1, f[s \ {k + 1}]) BY <4>2
        <5> HIDE DEF g, All
        <5> QED BY <5>1, <5>2, <5>4, <5>5
      <4> QED BY <4>1, <4>2
    <3>2. g = [s \in SUBSET (1..(k + 1)) |-> g[s]] OBVIOUS
    <3> HIDE DEF g
    <3>3. Fits(g, k + 1) BY <3>1, <3>2
    <3>4. k + 1 \in Nat BY SMT
    <3> QED BY <3>3, <3>4
  <2>3. \A k \in Nat : k \in T => k + 1 \in T BY <2>2
  <2> HIDE DEF T
  <2>4. Nat \subseteq T BY <2>1, <2>3, Inductive
  <2> QED BY <2>4 DEF T
<1> DEFINE F == CHOOSE f : Fits(f, n)
           reached == [k \in 0..n |-> F[1..k]]
<1>5. Fits(F, n) BY <1>1, <1>4
<1> HIDE DEF F
<1>6. ASSUME NEW k \in 0..n
      PROVE  1..k \in SUBSET (1..n) /\ F[1..k] = Of(F, 1..k)
  <2>1. 1..k \in SUBSET (1..n) BY <1>1
  <2> HIDE DEF Of
  <2>2. \A s \in SUBSET (1..n) : F[s] = Of(F, s) BY <1>5
  <2> QED BY <2>1, <2>2
<1>7. reached[0] = {Here}
  <2>1. 1..0 = {} BY SMT
  <2>2. 0 \in 0..n BY <1>1
  <2>3. reached[0] = F[1..0] BY <2>2
  <2> QED BY <1>6, <2>1, <2>2, <2>3
<1>8. ASSUME NEW k \in 1..n PROVE reached[k] = All(k, reached[k - 1])
  <2>1. k \in Nat /\ k \in 0..n /\ k - 1 \in 0..n /\ k \in 1..k BY <1>1
  <2>2. Max(1..k) = k
    <3>1. Max(1..k) \in 1..k /\ k <= Max(1..k) BY <1>3, <2>1
    <3> QED BY <3>1
  <2>3. (1..k) \ {k} = 1..(k - 1) BY <2>1
  <2>4. reached[k] = F[1..k] /\ reached[k - 1] = F[1..(k - 1)] BY <2>1
  <2>5. 1..k # {} BY <2>1
  <2> HIDE DEF All, reached
  <2> QED BY <1>6, <2>1, <2>2, <2>3, <2>4, <2>5
<1>9. reached[n] = Requeued(b) BY <1>1, <1>2 DEF F
<1> QED BY <1>7, <1>8, <1>9 DEF n

\* _requeue keeps everything there was and the whole batch, each value once.
LEMMA RequeueKeeps ==
    ASSUME Orderly(Here), NEW b \in Seq(Rec), Distinct(b),
           Elems(b) \cap Held(Here) = {}, NEW p \in Requeued(b)
    PROVE  /\ Orderly(p)
           /\ Held(p) = Held(Here) \cup Elems(b)
           /\ spilled \subseteq p.spilled
<1>1. PICK reached :
          /\ reached[0] = {Here}
          /\ \A k \in 1..Len(b) : reached[k] =
                 UNION {Enqueue(q, b[k]) : q \in reached[k - 1]}
          /\ reached[Len(b)] = Requeued(b)
  BY RequeuedSteps
<1> DEFINE n == Len(b)
           First(k) == {b[i] : i \in 1..k}
           Kept(k, q) == /\ Orderly(q)
                         /\ Held(q) = Held(Here) \cup First(k)
                         /\ spilled \subseteq q.spilled
           T == {k \in Nat : k <= n => \A q \in reached[k] : Kept(k, q)}
<1>2. n \in Nat /\ DOMAIN b = 1..n /\ \A i \in 1..n : b[i] \in Rec
  BY LenProperties, ElementOfSeq
<1>3. 0 \in T
  <2>1. First(0) = {} BY SMT
  <2>2. Kept(0, Here) BY <2>1 DEF Here, Place
  <2> HIDE DEF Kept
  <2> QED BY <1>1, <2>2
<1>4. ASSUME NEW k \in Nat, k \in T PROVE k + 1 \in T
  <2>1. k + 1 \in Nat BY SMT
  <2>2. SUFFICES ASSUME k + 1 <= n, NEW q \in reached[k + 1] PROVE Kept(k + 1, q)
    BY <2>1
  <2>3. k + 1 \in 1..n /\ (k + 1) - 1 = k /\ k <= n BY <1>2, <2>2
  <2>4. PICK before \in reached[k] : q \in Enqueue(before, b[k + 1])
    BY <1>1, <2>2, <2>3
  <2>5. Kept(k, before) BY <1>4, <2>3
  <2>6. b[k + 1] \in Rec /\ b[k + 1] \in Elems(b) BY <1>2, <2>3 DEF Elems
  <2>7. b[k + 1] \notin First(k)
    <3>1. \A i \in 1..k : i \in 1..n /\ i # k + 1 BY <1>2, <2>3
    <3> QED BY <1>2, <2>3, <3>1 DEF Distinct
  <2>8. b[k + 1] \notin Held(before) BY <2>5, <2>6, <2>7
  <2>9. /\ Orderly(q) /\ Held(q) = Held(before) \cup {b[k + 1]}
        /\ before.spilled \subseteq q.spilled
    BY <2>4, <2>5, <2>6, <2>8, EnqueueKeeps
  <2>10. First(k + 1) = First(k) \cup {b[k + 1]}
    <3>1. 1..(k + 1) = (1..k) \cup {k + 1} OBVIOUS
    <3> QED BY <3>1
  <2> HIDE DEF First
  <2> QED BY <2>5, <2>9, <2>10
<1>5. n \in T
  <2>1. \A k \in Nat : k \in T => k + 1 \in T BY <1>4
  <2> HIDE DEF T
  <2> QED BY <1>2, <1>3, <2>1, Inductive
<1>6. Kept(n, p)
  <2> HIDE DEF Kept
  <2> QED BY <1>1, <1>2, <1>5
<1>7. First(n) = Elems(b) BY <1>2 DEF Elems
<1> QED BY <1>6, <1>7

-----------------------------------------------------------------------------
(* What a step of a writer does to the values.                             *)

\* The writer goes on with batch b, or ends without one, and everything p
\* holds is still held.
Settles(w, b, p) ==
    /\ Orderly(Here')
    /\ Held(Here') = Held(p)
    /\ p.spilled \subseteq spilled'
    /\ \E l \in Labels \ {"off", "replay"} :
           /\ Goto(w, l, b)
           /\ l = "get" => Len(b) < BatchSize
           /\ l = "drain" => w = Leader

LEMMA Becomes ==
    ASSUME NEW p, Orderly(p), Become(p)
    PROVE  /\ Orderly(Here') /\ Held(Here') = Held(p) /\ spilled' = p.spilled
BY DEF Become, Here, Place, Orderly, Held

\* _final_drain puts the queue and what its insert left into the spill, or
\* counts it.
LEMMA FinishKeeps ==
    ASSUME NEW w, NEW p, Orderly(p), NEW rest \in SUBSET Rec,
           rest \cap Held(p) = {}, Finish(w, rest, p)
    PROVE  /\ Orderly(Here')
           /\ Held(Here') = Held(p) \cup rest
           /\ p.spilled \subseteq spilled'
           /\ Goto(w, "done", <<>>)
<1> DEFINE left == rest \cup Elems(p.queue)
<1>1. PICK kept \in SUBSET left :
          Become(Place(<<>>, p.spilled \cup kept, p.dropped \cup (left \ kept)))
  BY DEF Finish
<1>2. /\ queue' = <<>> /\ spilled' = p.spilled \cup kept
      /\ dropped' = p.dropped \cup (left \ kept)
  BY <1>1 DEF Become, Place
<1>3. Elems(p.queue) \subseteq Rec
  BY ElementOfSeq, LenProperties DEF Orderly, Elems
<1>4. /\ Elems(<<>>) = {} /\ <<>> \in Seq(Rec) /\ Len(<<>>) = 0
      /\ Distinct(<<>>) /\ 0 <= QueueMax
  BY WritersAssumption, EmptySeq DEF Elems, Distinct
<1>5. Here'.queue = <<>> /\ Here'.spilled = spilled' /\ Here'.dropped = dropped'
  BY <1>2 DEF Here, Place
<1>6. Orderly(Here') BY <1>2, <1>3, <1>4, <1>5 DEF Orderly, Held
<1>7. Held(Here') = Held(p) \cup rest BY <1>2, <1>4, <1>5 DEF Held
<1> QED BY <1>2, <1>6, <1>7 DEF Finish

LEMMA LoopHeadSettles ==
    ASSUME NEW w, NEW b, NEW p, Orderly(p), LoopHead(w, b, p),
           b = <<>> \/ Len(b) < BatchSize
    PROVE  Settles(w, b, p)
<1>1. Len(b) < BatchSize BY WritersAssumption, EmptySeq
<1>2. CASE (Goto(w, "get", b) \/ Goto(w, "final", b)) /\ Become(p)
  BY <1>1, <1>2, Becomes DEF Settles, Labels
<1>3. CASE b = <<>> /\ Finish(w, {}, p)
  <2>1. /\ Orderly(Here') /\ Held(Here') = Held(p)
        /\ p.spilled \subseteq spilled' /\ Goto(w, "done", <<>>)
    BY <1>3, FinishKeeps
  <2> QED BY <1>3, <2>1 DEF Settles, Labels
<1> QED BY <1>2, <1>3 DEF LoopHead

LEMMA AfterReplaySettles ==
    ASSUME NEW w, NEW b \in Seq(Rec), NEW p, Orderly(p), AfterReplay(w, b, p)
    PROVE  Settles(w, b, p)
<1>1. CASE b # <<>> /\ (Len(b) >= BatchSize \/ due[w])
  <2>1. Goto(w, "insert", b) /\ Become(p) BY <1>1 DEF AfterReplay
  <2> QED BY <2>1, Becomes DEF Settles, Labels
<1>2. CASE ~(b # <<>> /\ (Len(b) >= BatchSize \/ due[w]))
  <2>1. LoopHead(w, b, p) BY <1>2 DEF AfterReplay
  <2>2. b = <<>> \/ Len(b) < BatchSize
    BY <1>2, WritersAssumption, LenProperties
  <2> QED BY <2>1, <2>2, LoopHeadSettles
<1> QED BY <1>1, <1>2

LEMMA ReplaySettles ==
    ASSUME NEW w, NEW b \in Seq(Rec), NEW p, Orderly(p), Replay(w, b, p)
    PROVE  Settles(w, b, p)
<1>1. CASE w = Leader /\ Goto(w, "drain", b) /\ Become(p)
  BY <1>1, Becomes DEF Settles, Labels
<1>2. CASE AfterReplay(w, b, p) BY <1>2, AfterReplaySettles
<1> QED BY <1>1, <1>2 DEF Replay

\* The values a step of writer w leaves to the queue, the spill, the counter
\* and its batch are those it found there; what is missing is in the table, or
\* was in the hands of a cancelled writer.
Mine(w) == Held(Here) \cup Elems(batch[w])

GoesTo(w, l, b) ==
    /\ Goto(w, l, b)
    /\ l = "get" => Len(b) < BatchSize
    /\ l \in {"drain", "replay"} => w = Leader
    /\ l = "replay" => lent' # {}

KeepsWith(w, b) ==
    /\ Len(b) <= BatchSize /\ Distinct(b)
    /\ Elems(b) \cap Held(Here') = {}
    /\ Held(Here') \cup Elems(b) \subseteq Mine(w)
    /\ Mine(w) \subseteq Held(Here') \cup Elems(b) \cup InTable' \cup cancelled'

Transfer(w) ==
    /\ Orderly(Here')
    /\ \E l \in Labels \ {"off"}, b \in Seq(Rec) : GoesTo(w, l, b) /\ KeepsWith(w, b)
    /\ lent' \subseteq spilled' /\ (w # Leader => UNCHANGED lent)
    /\ rows' \in [Rec -> Nat] /\ InTable \subseteq InTable'
    /\ InTable' \subseteq InTable \cup Mine(w)
    /\ cancelled \subseteq cancelled' /\ cancelled' \subseteq Rec
    /\ doubtful \subseteq doubtful' /\ doubtful' \subseteq Rec
    /\ faults' \in 0..MaxFaults
    /\ due' \in [Writers -> BOOLEAN] /\ healthy' \in [Writers -> BOOLEAN]
    /\ UNCHANGED <<control, spillOpen, offered>>

LEMMA InsertKeeps ==
    ASSUME rows \in [Rec -> Nat], NEW recs \in SUBSET Rec, Insert(recs)
    PROVE  /\ rows' \in [Rec -> Nat]
           /\ InTable' = InTable \cup recs
           /\ \A r \in Rec : rows'[r] = rows[r] \/ (r \in recs /\ rows[r] = 0 => rows'[r] = 1)
<1>1. \A r \in Rec : rows'[r] = IF r \notin recs THEN rows[r]
                                ELSE IF Dedup THEN 1 ELSE rows[r] + 1
  BY DEF Insert
<1>2. rows' \in [Rec -> Nat] BY DEF Insert
<1> QED BY <1>1, <1>2 DEF InTable

\* An insert, however it ends.
LEMMA DbKeeps ==
    ASSUME WritersTypeOK, NEW recs \in SUBSET Rec, DbOk(recs) \/ DbFails(recs)
    PROVE  /\ rows' \in [Rec -> Nat]
           /\ InTable \subseteq InTable' /\ InTable' \subseteq InTable \cup recs
           /\ DbOk(recs) => recs \subseteq InTable'
           /\ doubtful \subseteq doubtful' /\ doubtful' \subseteq Rec
           /\ faults' \in 0..MaxFaults
<1>1. rows \in [Rec -> Nat] /\ doubtful \subseteq Rec /\ faults \in 0..MaxFaults
  BY DEF WritersTypeOK
<1>2. CASE DbOk(recs)
  BY <1>1, <1>2, InsertKeeps DEF DbOk, Stored, NoFault
<1>3. CASE DbFails(recs)
  <2>1. faults' \in 0..MaxFaults
    BY <1>1, <1>3, WritersAssumption DEF DbFails, Fault, NoFault
  <2>2. CASE UNCHANGED <<rows, doubtful>>
    BY <1>1, <2>1, <2>2, <1>3 DEF InTable, DbOk, Stored, Insert
  <2>3. CASE Insert(recs) /\ doubtful' = doubtful \cup recs
    BY <1>1, <2>1, <2>3, InsertKeeps
  <2> QED BY <1>3, <2>2, <2>3 DEF DbFails, Stored
<1> QED BY <1>2, <1>3

LEMMA SettledTransfers ==
    ASSUME NEW w, NEW b \in Seq(Rec), NEW p, Settles(w, b, p),
           Len(b) <= BatchSize, Distinct(b), Elems(b) \cap Held(p) = {},
           Held(p) \cup Elems(b) \subseteq Mine(w),
           Mine(w) \subseteq Held(p) \cup Elems(b) \cup InTable' \cup cancelled'
    PROVE  /\ Orderly(Here')
           /\ \E l \in Labels \ {"off"}, c \in Seq(Rec) : GoesTo(w, l, c) /\ KeepsWith(w, c)
<1>1. /\ Orderly(Here') /\ Held(Here') = Held(p)
      /\ \E l \in Labels \ {"off", "replay"} :
             /\ Goto(w, l, b)
             /\ l = "get" => Len(b) < BatchSize
             /\ l = "drain" => w = Leader
  BY DEF Settles
<1>2. KeepsWith(w, b) BY <1>1 DEF KeepsWith
<1>3. PICK l \in Labels \ {"off", "replay"} : GoesTo(w, l, b) BY <1>1 DEF GoesTo
<1> QED BY <1>1, <1>2, <1>3

LEMMA NoBatch ==
    /\ <<>> \in Seq(Rec) /\ Elems(<<>>) = {} /\ Distinct(<<>>)
    /\ Len(<<>>) <= BatchSize /\ Len(<<>>) < BatchSize
BY WritersAssumption, EmptySeq DEF Elems, Distinct

\* What DataInv says of one writer.
LEMMA DataOf ==
    ASSUME DataInv, NEW w \in Writers
    PROVE  /\ batch[w] \in Seq(Rec) /\ Len(batch[w]) <= BatchSize
           /\ Distinct(batch[w]) /\ Elems(batch[w]) \cap Held(Here) = {}
           /\ Elems(batch[w]) \in SUBSET Rec
           /\ wpc[w] = "get" => Len(batch[w]) < BatchSize
           /\ wpc[w] \in {"drain", "replay"} => w = Leader
           /\ Orderly(Here) /\ lent \subseteq spilled /\ lent \subseteq Rec
           /\ Held(Here) = Elems(queue) \cup spilled \cup dropped
<1>1. batch[w] \in Seq(Rec) /\ Len(batch[w]) <= BatchSize /\ lent \subseteq Rec
  BY DEF DataInv, WritersTypeOK
<1>2. Elems(batch[w]) \in SUBSET Rec BY <1>1, ElementOfSeq, LenProperties DEF Elems
<1> QED BY <1>1, <1>2 DEF DataInv, Custody, Room, LentIsSpilled, Held, Here, Place

\* The variables a step leaves alone.
LEMMA RestOf ==
    ASSUME DataInv
    PROVE  /\ rows \in [Rec -> Nat] /\ cancelled \subseteq Rec
           /\ doubtful \subseteq Rec /\ faults \in 0..MaxFaults
           /\ due \in [Writers -> BOOLEAN] /\ healthy \in [Writers -> BOOLEAN]
           /\ InTable \subseteq Rec /\ spilled \subseteq Rec
           /\ stopping \in BOOLEAN /\ cancelling \in BOOLEAN
           /\ pool \in {"open", "closing", "closed"} /\ spillOpen \in BOOLEAN
BY DEF DataInv, WritersTypeOK, InTable

LEMMA GetTransfers ==
    ASSUME DataInv, NEW w \in Writers, GetItem(w) \/ GetTimeout(w)
    PROVE  Transfer(w)
<1>1. /\ UNCHANGED <<due, healthy, control, lent, spillOpen, offered, rows,
                     cancelled, doubtful, faults>>
      /\ wpc[w] = "get"
  BY DEF GetItem, GetTimeout
<1>2. InTable' = InTable BY <1>1 DEF InTable
<1>3. SUFFICES ASSUME TRUE
               PROVE  /\ Orderly(Here')
                      /\ \E l \in Labels \ {"off"}, c \in Seq(Rec) :
                             GoesTo(w, l, c) /\ KeepsWith(w, c)
                      /\ spilled \subseteq spilled'
  BY <1>1, <1>2, RestOf, DataOf DEF Transfer
<1>4. CASE GetItem(w)
  <2> DEFINE b == Append(batch[w], Head(queue))
             p == Place(Tail(queue), spilled, dropped)
  <2>1. Replay(w, b, p) /\ queue # <<>>
    <3>1. [Here EXCEPT !.queue = Tail(@)] = p
      <4>1. Here.queue = queue BY DEF Here, Place
      <4>2. \A q : [Here EXCEPT !.queue = q] = Place(q, spilled, dropped)
        BY SMT DEF Here, Place
      <4> QED BY <4>1, <4>2
    <3>2. Replay(w, b, [Here EXCEPT !.queue = Tail(@)]) /\ queue # <<>>
      BY <1>4 DEF GetItem
    <3> HIDE DEF b, p
    <3> QED BY <3>1, <3>2
  <2>2. queue \in Seq(Rec) /\ Distinct(queue)
    BY DataOf DEF Orderly, Here, Place
  <2>3. /\ Head(queue) \in Rec /\ Tail(queue) \in Seq(Rec)
        /\ Len(queue) \in Nat \ {0} /\ Len(Tail(queue)) = Len(queue) - 1
        /\ Elems(queue) = Elems(Tail(queue)) \cup {Head(queue)}
        /\ Distinct(Tail(queue)) /\ Head(queue) \notin Elems(Tail(queue))
    BY <2>1, <2>2, Headed
  <2>4. /\ p.queue = Tail(queue) /\ p.spilled = spilled /\ p.dropped = dropped
        /\ Here.queue = queue /\ Here.spilled = spilled /\ Here.dropped = dropped
    BY DEF Place, Here
  <2>5. Orderly(p) /\ Held(p) \cup {Head(queue)} = Held(Here)
        /\ Head(queue) \notin Held(p)
    <3> HIDE DEF p
    <3>1. /\ Len(queue) <= QueueMax /\ QueueMax \in Nat
          /\ spilled \in SUBSET Rec /\ dropped \in SUBSET Rec
          /\ Elems(queue) \cap spilled = {} /\ Elems(queue) \cap dropped = {}
          /\ spilled \cap dropped = {}
      BY <2>4, DataOf, WritersAssumption DEF Orderly
    <3>2. Orderly(p) BY <2>3, <2>4, <3>1 DEF Orderly
    <3> QED BY <2>3, <2>4, <3>1, <3>2 DEF Held
  <2>6. Head(queue) \notin Elems(batch[w]) BY <2>5, DataOf
  <2>7. /\ b \in Seq(Rec) /\ Len(b) = Len(batch[w]) + 1
        /\ Elems(b) = Elems(batch[w]) \cup {Head(queue)} /\ Distinct(b)
    BY <2>3, <2>6, Appended, DataOf
  <2>8. Len(b) <= BatchSize
    BY <1>1, <2>7, DataOf, LenProperties, WritersAssumption
  <2> HIDE DEF b, p
  <2>9. Settles(w, b, p) BY <2>1, <2>5, <2>7, ReplaySettles
  <2>10. /\ Elems(b) \cap Held(p) = {}
         /\ Held(p) \cup Elems(b) = Mine(w)
    BY <2>5, <2>7, DataOf DEF Mine
  <2>11. spilled \subseteq spilled' BY <2>4, <2>9 DEF Settles
  <2> QED BY <2>7, <2>8, <2>9, <2>10, <2>11, SettledTransfers
<1>5. CASE GetTimeout(w)
  <2>1. Replay(w, batch[w], Here) BY <1>5 DEF GetTimeout
  <2>2. Settles(w, batch[w], Here) BY <2>1, ReplaySettles, DataOf
  <2>3. spilled \subseteq spilled' BY <2>2 DEF Settles, Here, Place
  <2> QED BY <2>2, <2>3, SettledTransfers, DataOf DEF Mine
<1> QED BY <1>4, <1>5

LEMMA DrainTransfers ==
    ASSUME DataInv, NEW w \in Writers, Drained(w) \/ DrainedNothing(w)
    PROVE  Transfer(w)
<1>1. wpc[w] = "drain" /\ w = Leader BY DataOf DEF Drained, DrainedNothing
<1>2. CASE Drained(w)
  <2>1. /\ lent' \in (SUBSET spilled) \ {{}}
        /\ Goto(w, "replay", batch[w])
        /\ UNCHANGED <<queue, due, healthy, control, spilled, spillOpen, results,
                       faults>>
    BY <1>2 DEF Drained
  <2>2. /\ Here' = Here /\ InTable' = InTable /\ Held(Here') = Held(Here)
        /\ UNCHANGED <<rows, cancelled, doubtful, offered>>
    BY <2>1 DEF Here, Place, InTable, results
  <2>3. GoesTo(w, "replay", batch[w])
    <3>1. lent' # {} BY <2>1
    <3>2. Goto(w, "replay", batch[w]) BY <2>1
    <3> QED BY <1>1, <3>1, <3>2 DEF GoesTo
  <2>4. KeepsWith(w, batch[w]) BY <2>2, DataOf DEF KeepsWith, Mine
  <2>5. "replay" \in Labels \ {"off"} /\ batch[w] \in Seq(Rec)
    BY DataOf DEF Labels
  <2>6. \E l \in Labels \ {"off"}, c \in Seq(Rec) : GoesTo(w, l, c) /\ KeepsWith(w, c)
    BY <2>3, <2>4, <2>5
  <2> QED BY <1>1, <2>1, <2>2, <2>6, RestOf, DataOf DEF Transfer
<1>3. CASE DrainedNothing(w)
  <2>1. /\ lent' = lent \/ lent' = {}
        /\ faults' \in 0..MaxFaults
        /\ AfterReplay(w, batch[w], Here)
        /\ UNCHANGED <<due, healthy, control, spillOpen, offered, rows,
                       cancelled, doubtful>>
    BY <1>3, RestOf, WritersAssumption DEF DrainedNothing, Fault, NoFault
  <2>2. InTable' = InTable BY <2>1 DEF InTable
  <2>3. Settles(w, batch[w], Here) BY <2>1, AfterReplaySettles, DataOf
  <2>4. spilled \subseteq spilled' BY <2>3 DEF Settles, Here, Place
  <2>5. /\ Orderly(Here')
        /\ \E l \in Labels \ {"off"}, c \in Seq(Rec) : GoesTo(w, l, c) /\ KeepsWith(w, c)
    BY <2>3, SettledTransfers, DataOf DEF Mine
  <2> QED BY <1>1, <2>1, <2>2, <2>4, <2>5, RestOf, DataOf DEF Transfer
<1> QED BY <1>2, <1>3

\* What the spill forgets of a batch that was inserted is in the table, and it
\* forgets nothing of one it keeps on loan.
LEMMA AckForgets ==
    ASSUME DataInv, NEW w \in Writers, Replayed(w)
    PROVE  \E kept \in SUBSET lent :
               /\ AfterReplay(w, batch[w],
                              Place(queue, spilled \ (lent \ kept), dropped))
               /\ Insert(lent)
               /\ lent' = {} \/ (lent' = lent /\ kept = lent)
               /\ doubtful' = doubtful \cup kept
               /\ faults' \in 0..MaxFaults
<1>1. PICK kept \in SUBSET lent :
          /\ AckKeeps(kept)
          /\ AfterReplay(w, batch[w], [Here EXCEPT !.spilled = @ \ (lent \ kept)])
  BY DEF Replayed
<1>2. [Here EXCEPT !.spilled = @ \ (lent \ kept)]
         = Place(queue, spilled \ (lent \ kept), dropped)
  <2>1. \A s : [Here EXCEPT !.spilled = s] = Place(queue, s, dropped)
    BY SMT DEF Here, Place
  <2>2. Here.spilled = spilled BY DEF Here, Place
  <2> QED BY <2>1, <2>2
<1>3. faults' \in 0..MaxFaults
  BY <1>1, RestOf, WritersAssumption DEF AckKeeps, Fault, NoFault
<1>4. lent' = {} \/ (lent' = lent /\ kept = lent) BY <1>1 DEF AckKeeps
<1>5. doubtful' = doubtful \cup kept BY <1>1 DEF AckKeeps
<1>6. Insert(lent) BY DEF Replayed, Stored
<1> QED BY <1>1, <1>2, <1>3, <1>4, <1>5, <1>6

\* The ack of a replay takes from the spill what is in the table; a nack, or
\* an ack of a closed spill, leaves everything where it is.
LEMMA ReplayTransfers ==
    ASSUME DataInv, NEW w \in Writers, Replayed(w) \/ ReplayFailed(w)
    PROVE  Transfer(w)
<1>1. w = Leader BY DataOf DEF Replayed, ReplayFailed
<1>2. /\ healthy' \in [Writers -> BOOLEAN]
      /\ UNCHANGED <<due, control, spillOpen, offered, cancelled>>
  BY RestOf DEF Replayed, ReplayFailed
<1>3. lent \in SUBSET Rec /\ lent \subseteq spilled BY DataOf
<1>4. PICK kept \in SUBSET lent :
          /\ AfterReplay(w, batch[w],
                         Place(queue, spilled \ (lent \ kept), dropped))
          /\ lent' = {} \/ (lent' = lent /\ kept = lent)
          /\ rows' \in [Rec -> Nat] /\ InTable \subseteq InTable'
          /\ InTable' \subseteq InTable \cup lent
          /\ lent \ kept \subseteq InTable'
          /\ doubtful \subseteq doubtful' /\ doubtful' \subseteq Rec
          /\ faults' \in 0..MaxFaults
  <2>1. CASE Replayed(w)
    <3>1. PICK kept \in SUBSET lent :
              /\ AfterReplay(w, batch[w],
                             Place(queue, spilled \ (lent \ kept), dropped))
              /\ Insert(lent)
              /\ lent' = {} \/ (lent' = lent /\ kept = lent)
              /\ doubtful' = doubtful \cup kept
              /\ faults' \in 0..MaxFaults
      BY <2>1, AckForgets
    <3>2. rows' \in [Rec -> Nat] /\ InTable' = InTable \cup lent
      BY <1>3, <3>1, InsertKeeps, RestOf
    <3> QED BY <1>3, <3>1, <3>2, RestOf
  <2>2. CASE ReplayFailed(w)
    <3>1. /\ DbFails(lent) /\ AfterReplay(w, batch[w], Here)
          /\ lent' = {} \/ lent' = lent
      BY <2>2 DEF ReplayFailed
    <3>2. spilled \ (lent \ lent) = spilled /\ lent \ lent = {} OBVIOUS
    <3>3. Here = Place(queue, spilled \ (lent \ lent), dropped) BY <3>2 DEF Here
    <3>4. /\ rows' \in [Rec -> Nat] /\ InTable \subseteq InTable'
          /\ InTable' \subseteq InTable \cup lent
          /\ doubtful \subseteq doubtful' /\ doubtful' \subseteq Rec
          /\ faults' \in 0..MaxFaults
      BY <1>3, <3>1, DbKeeps DEF DataInv
    <3> QED BY <3>1, <3>2, <3>3, <3>4
  <2> QED BY <2>1, <2>2
<1> DEFINE p == Place(queue, spilled \ (lent \ kept), dropped)
<1>5. /\ p.queue = queue /\ p.spilled = spilled \ (lent \ kept) /\ p.dropped = dropped
      /\ Here.queue = queue /\ Here.spilled = spilled /\ Here.dropped = dropped
  BY DEF Place, Here
<1>6. AfterReplay(w, batch[w], p) BY <1>4
<1> HIDE DEF p
<1>7. Orderly(p) BY <1>5, DataOf DEF Orderly
<1>8. Settles(w, batch[w], p) BY <1>7, <1>6, AfterReplaySettles, DataOf
<1>9. /\ Held(p) \subseteq Held(Here)
      /\ Held(Here) \subseteq Held(p) \cup InTable'
  BY <1>4, <1>5, DataOf DEF Held
<1>10. /\ Orderly(Here')
      /\ \E l \in Labels \ {"off"}, c \in Seq(Rec) : GoesTo(w, l, c) /\ KeepsWith(w, c)
  <2>1. /\ Elems(batch[w]) \cap Held(p) = {}
        /\ Held(p) \cup Elems(batch[w]) \subseteq Mine(w)
        /\ Mine(w) \subseteq Held(p) \cup Elems(batch[w]) \cup InTable' \cup cancelled'
    BY <1>9, DataOf DEF Mine
  <2> QED BY <1>8, <2>1, SettledTransfers, DataOf
<1>11. lent' \subseteq spilled'
  <2>1. p.spilled \subseteq spilled' BY <1>8 DEF Settles
  <2> QED BY <1>4, <1>3, <1>5, <2>1
<1>12. InTable' \subseteq InTable \cup Mine(w)
  BY <1>4, <1>3, DataOf DEF Mine
<1> QED BY <1>1, <1>4, <1>2, <1>10, <1>11, <1>12, RestOf DEF Transfer

\* An insert of the writer's own batch: it is in the table, or requeued.
LEMMA FlushTransfers ==
    ASSUME DataInv, NEW w \in Writers, Flushed(w) \/ FlushFailed(w) \/ BackedOff(w)
    PROVE  Transfer(w)
<1> DEFINE own == Elems(batch[w])
<1>1. own \in SUBSET Rec /\ lent \subseteq spilled BY DataOf
<1>2. /\ rows' \in [Rec -> Nat] /\ InTable \subseteq InTable'
      /\ InTable' \subseteq InTable \cup own
      /\ Flushed(w) => own \subseteq InTable'
      /\ doubtful \subseteq doubtful' /\ doubtful' \subseteq Rec
      /\ faults' \in 0..MaxFaults
  <2>1. CASE Flushed(w) \/ FlushFailed(w)
    <3>1. DbOk(own) \/ DbFails(own) BY <2>1 DEF Flushed, FlushFailed
    <3>2. Flushed(w) => DbOk(own) BY DEF Flushed
    <3> HIDE DEF own
    <3> QED BY <1>1, <3>1, <3>2, DbKeeps DEF DataInv
  <2>2. CASE BackedOff(w)
    <3>1. UNCHANGED <<rows, doubtful, faults>> /\ wpc[w] = "backoff"
      BY <2>2 DEF BackedOff
    <3>2. ~Flushed(w) BY <3>1 DEF Flushed
    <3> QED BY <3>1, <3>2, RestOf DEF InTable
  <2> QED BY <2>1, <2>2
<1>3. /\ healthy' \in [Writers -> BOOLEAN] /\ due' \in [Writers -> BOOLEAN]
      /\ UNCHANGED <<control, lent, spillOpen, offered, cancelled>>
  BY RestOf DEF Flushed, FlushFailed, BackedOff
<1>4. SUFFICES /\ Orderly(Here')
               /\ \E l \in Labels \ {"off"}, c \in Seq(Rec) :
                      GoesTo(w, l, c) /\ KeepsWith(w, c)
               /\ spilled \subseteq spilled'
  <2>1. InTable' \subseteq InTable \cup Mine(w) BY <1>2 DEF Mine
  <2> HIDE DEF own
  <2> QED BY <1>1, <1>2, <1>3, <2>1, RestOf DEF Transfer
<1>5. CASE Flushed(w) \/ BackedOff(w)
  <2>1. LoopHead(w, <<>>, Here) BY <1>5 DEF Flushed, BackedOff
  <2>2. Settles(w, <<>>, Here) BY <2>1, LoopHeadSettles, DataOf
  <2>3. own \subseteq InTable'
    <3>1. CASE Flushed(w) BY <1>2, <3>1
    <3>2. CASE BackedOff(w)
      <4>1. batch[w] = <<>> BY <3>2 DEF BackedOff, DataInv, TaskInv
      <4> QED BY <4>1, NoBatch
    <3> QED BY <1>5, <3>1, <3>2
  <2>4. spilled \subseteq spilled' BY <2>2 DEF Settles, Here, Place
  <2>5. /\ Elems(<<>>) \cap Held(Here) = {}
        /\ Held(Here) \cup Elems(<<>>) \subseteq Mine(w)
        /\ Mine(w) \subseteq Held(Here) \cup Elems(<<>>) \cup InTable' \cup cancelled'
    BY <2>3, NoBatch DEF Mine
  <2> QED BY <2>2, <2>4, <2>5, NoBatch, SettledTransfers
<1>6. CASE FlushFailed(w)
  <2>1. PICK p \in Requeued(batch[w]) : Become(p) BY <1>6 DEF FlushFailed
  <2>2. Goto(w, "backoff", <<>>) BY <1>6 DEF FlushFailed
  <2>3. Orderly(p) /\ Held(p) = Mine(w) /\ spilled \subseteq p.spilled
    BY RequeueKeeps, DataOf DEF Mine
  <2>4. Orderly(Here') /\ Held(Here') = Mine(w) /\ spilled \subseteq spilled'
    BY <2>1, <2>3, Becomes
  <2>5. KeepsWith(w, <<>>) BY <2>4, NoBatch DEF KeepsWith
  <2>6. GoesTo(w, "backoff", <<>>) BY <2>2 DEF GoesTo
  <2>7. "backoff" \in Labels \ {"off"} BY DEF Labels
  <2> QED BY <2>4, <2>5, <2>6, <2>7, NoBatch
<1> QED BY <1>5, <1>6

LEMMA FinalTransfers ==
    ASSUME DataInv, NEW w \in Writers, FinalFlush(w)
    PROVE  Transfer(w)
<1> DEFINE own == Elems(batch[w])
<1>1. own \in SUBSET Rec /\ lent \subseteq spilled /\ own \cap Held(Here) = {}
      /\ Orderly(Here)
  BY DataOf
<1>2. DbOk(own) \/ DbFails(own) BY DEF FinalFlush
<1>3. /\ rows' \in [Rec -> Nat] /\ InTable \subseteq InTable'
      /\ InTable' \subseteq InTable \cup own
      /\ DbOk(own) => own \subseteq InTable'
      /\ doubtful \subseteq doubtful' /\ doubtful' \subseteq Rec
      /\ faults' \in 0..MaxFaults
  <2> HIDE DEF own
  <2> QED BY <1>1, <1>2, DbKeeps DEF DataInv
<1>4. PICK rest \in {{}, own} :
          Finish(w, rest, Here) /\ (rest = {} => own \subseteq InTable')
  BY <1>3 DEF FinalFlush
<1>5. /\ Orderly(Here') /\ Held(Here') = Held(Here) \cup rest
      /\ spilled \subseteq spilled' /\ Goto(w, "done", <<>>)
  <2>1. rest \in SUBSET Rec /\ rest \cap Held(Here) = {} BY <1>1
  <2>2. Here.spilled = spilled BY DEF Here, Place
  <2> HIDE DEF own
  <2> QED BY <1>1, <1>4, <2>1, <2>2, FinishKeeps
<1>6. GoesTo(w, "done", <<>>) BY <1>5 DEF GoesTo
<1>7. KeepsWith(w, <<>>)
  BY <1>4, <1>5, NoBatch DEF KeepsWith, Mine
<1>8. "done" \in Labels \ {"off"} BY DEF Labels
<1>9. /\ healthy' \in [Writers -> BOOLEAN]
      /\ UNCHANGED <<due, control, lent, spillOpen, offered, cancelled>>
  BY RestOf DEF FinalFlush
<1>10. InTable' \subseteq InTable \cup Mine(w) BY <1>3 DEF Mine
<1>11. \E l \in Labels \ {"off"}, c \in Seq(Rec) : GoesTo(w, l, c) /\ KeepsWith(w, c)
  BY <1>6, <1>7, <1>8, NoBatch
<1> HIDE DEF own
<1> QED BY <1>1, <1>3, <1>5, <1>9, <1>10, <1>11, RestOf DEF Transfer

\* A cancelled writer takes its batch along, but for what is in the table.
LEMMA CancelTransfers ==
    ASSUME DataInv, NEW w \in Writers, Cancelled(w)
    PROVE  Transfer(w)
<1>1. PICK recs \in SUBSET Rec :
          /\ recs \subseteq Mine(w)
          /\ \/ UNCHANGED <<rows, doubtful>>
             \/ Insert(recs) /\ doubtful' = doubtful \cup recs
  <2>1. CASE UNCHANGED <<rows, doubtful>>
    <3>1. {} \in SUBSET Rec /\ {} \subseteq Mine(w) OBVIOUS
    <3> QED BY <2>1, <3>1
  <2>2. CASE ~UNCHANGED <<rows, doubtful>>
    <3> DEFINE recs == IF wpc[w] = "replay" THEN lent
                       ELSE IF wpc[w] \in {"insert", "final"}
                       THEN Elems(batch[w]) ELSE {}
    <3>1. Insert(recs) /\ doubtful' = doubtful \cup recs
      BY <2>2 DEF Cancelled, Stored
    <3>2. recs \in SUBSET Rec /\ recs \subseteq Mine(w) BY DataOf DEF Mine
    <3> HIDE DEF recs
    <3> QED BY <3>1, <3>2
  <2> QED BY <2>1, <2>2
<1>2. /\ rows' \in [Rec -> Nat] /\ InTable \subseteq InTable'
      /\ InTable' \subseteq InTable \cup Mine(w)
      /\ doubtful \subseteq doubtful' /\ doubtful' \subseteq Rec
  <2>1. CASE UNCHANGED <<rows, doubtful>> BY <2>1, RestOf DEF InTable
  <2>2. CASE Insert(recs) /\ doubtful' = doubtful \cup recs
    BY <1>1, <2>2, InsertKeeps, RestOf
  <2> QED BY <1>1, <2>1, <2>2
<1>3. /\ Goto(w, "done", <<>>)
      /\ cancelled' = cancelled \cup {r \in Elems(batch[w]) : rows'[r] = 0}
      /\ \/ lent' = lent
         \/ lent' \in SUBSET spilled /\ wpc[w] = "drain"
      /\ UNCHANGED <<queue, due, healthy, control, spilled, spillOpen, offered,
                     dropped, faults>>
  BY DEF Cancelled
<1>4. /\ Elems(batch[w]) \subseteq InTable' \cup cancelled'
      /\ cancelled \subseteq cancelled' /\ cancelled' \subseteq Rec
  BY <1>2, <1>3, DataOf, RestOf DEF InTable
<1>5. Here' = Here /\ Held(Here') = Held(Here) /\ Orderly(Here')
  BY <1>3, DataOf DEF Here, Place
<1>6. GoesTo(w, "done", <<>>) BY <1>3 DEF GoesTo
<1>7. KeepsWith(w, <<>>) BY <1>4, <1>5, NoBatch DEF KeepsWith, Mine
<1>8. "done" \in Labels \ {"off"} BY DEF Labels
<1>9. lent' \subseteq spilled' /\ (w # Leader => UNCHANGED lent)
  BY <1>3, DataOf
<1>10. \E l \in Labels \ {"off"}, c \in Seq(Rec) : GoesTo(w, l, c) /\ KeepsWith(w, c)
  BY <1>6, <1>7, <1>8, NoBatch
<1> QED BY <1>2, <1>3, <1>4, <1>5, <1>9, <1>10, RestOf DEF Transfer

LEMMA StepTransfers ==
    ASSUME DataInv, NEW w \in Writers, WriterStep(w)
    PROVE  Transfer(w)
BY GetTransfers, DrainTransfers, ReplayTransfers, FlushTransfers,
   FinalTransfers, CancelTransfers DEF WriterStep

-----------------------------------------------------------------------------
(* The invariant.                                                          *)

\* It is kept by whatever a step of a writer does to the values.
LEMMA TransferKeeps ==
    ASSUME DataInv, NEW w \in Writers, Transfer(w), TaskInv'
    PROVE  DataInv'
<1>1. PICK l \in Labels \ {"off"}, b \in Seq(Rec) : GoesTo(w, l, b) /\ KeepsWith(w, b)
  BY DEF Transfer
<1>2. /\ wpc \in [Writers -> Labels] /\ batch \in [Writers -> Seq(Rec)]
      /\ \A v \in Writers : Len(batch[v]) <= BatchSize
  BY DEF DataInv, WritersTypeOK
<1>3. /\ wpc' \in [Writers -> Labels] /\ batch' \in [Writers -> Seq(Rec)]
      /\ wpc'[w] = l /\ batch'[w] = b
      /\ \A v \in Writers \ {w} : wpc'[v] = wpc[v] /\ batch'[v] = batch[v]
  BY <1>1, <1>2 DEF GoesTo, Goto
<1>4. /\ l = "get" => Len(b) < BatchSize
      /\ l \in {"drain", "replay"} => w = Leader
      /\ l = "replay" => lent' # {}
  BY <1>1 DEF GoesTo
<1>5. /\ Len(b) <= BatchSize /\ Distinct(b) /\ Elems(b) \cap Held(Here') = {}
      /\ Held(Here') \cup Elems(b) \subseteq Mine(w)
      /\ Mine(w) \subseteq Held(Here') \cup Elems(b) \cup InTable' \cup cancelled'
  BY <1>1 DEF KeepsWith
<1>6. /\ queue' \in Seq(Rec) /\ Len(queue') <= QueueMax
      /\ spilled' \in SUBSET Rec /\ dropped' \in SUBSET Rec
  BY DEF Transfer, Orderly, Here, Place
<1>7. WritersTypeOK'
  <2>1. \A v \in Writers : Len(batch'[v]) <= BatchSize BY <1>2, <1>3, <1>5
  <2>2. /\ lent' \in SUBSET Rec /\ rows' \in [Rec -> Nat]
        /\ cancelled' \in SUBSET Rec /\ doubtful' \in SUBSET Rec
        /\ faults' \in 0..MaxFaults /\ due' \in [Writers -> BOOLEAN]
        /\ healthy' \in [Writers -> BOOLEAN]
    BY <1>6 DEF Transfer
  <2>3. UNCHANGED <<stopping, cancelling, pool, sessions, spillOpen, offered>>
    BY DEF Transfer, control
  <2> QED BY <1>3, <1>6, <2>1, <2>2, <2>3 DEF DataInv, WritersTypeOK
<1>8. Room'
  <2>1. ASSUME NEW v \in Writers
        PROVE  /\ wpc'[v] = "get" => Len(batch'[v]) < BatchSize
               /\ wpc'[v] \in {"drain", "replay"} => v = Leader
    BY <1>3, <1>4 DEF DataInv, Room
  <2> QED BY <2>1 DEF Room
<1>9. Mine(w) \cup Batches \cup InTable \subseteq offered /\ offered' = offered
  BY DEF DataInv, Custody, Mine, Batches, Transfer
<1>10. \A v \in Writers \ {w} : Distinct(batch[v]) /\ Elems(batch[v]) \cap Mine(w) = {}
  BY DEF DataInv, Custody, Mine
<1>11. Batches' \subseteq Batches \cup Elems(b)
  BY <1>3 DEF Batches
<1>12. Custody'
  <2>1. Orderly(Here)' BY DEF Transfer
  <2>2. ASSUME NEW v \in Writers
        PROVE  Distinct(batch'[v]) /\ Elems(batch'[v]) \cap Held(Here') = {}
    BY <1>3, <1>5, <1>10
  <2>3. ASSUME NEW u \in Writers, NEW v \in Writers, u # v
        PROVE  Elems(batch'[u]) \cap Elems(batch'[v]) = {}
    <3>1. CASE u = w BY <1>3, <1>5, <1>10, <2>3, <3>1
    <3>2. CASE v = w BY <1>3, <1>5, <1>10, <2>3, <3>2
    <3>3. CASE u # w /\ v # w BY <1>3, <2>3, <3>3 DEF DataInv, Custody
    <3> QED BY <3>1, <3>2, <3>3
  <2>4. Held(Here') \cup Batches' \cup InTable' \subseteq offered'
    BY <1>5, <1>9, <1>11 DEF Transfer
  <2> QED BY <2>1, <2>2, <2>3, <2>4 DEF Custody
<1>13. LentIsSpilled'
  <2>1. ASSUME wpc'[Leader] = "replay" PROVE lent' # {}
    <3>1. Leader \in Writers BY WritersAssumption DEF Leader, Writers
    <3>2. CASE w = Leader BY <1>3, <1>4, <2>1, <3>2
    <3>3. CASE w # Leader
      BY <1>3, <2>1, <3>1, <3>3 DEF DataInv, LentIsSpilled, Transfer
    <3> QED BY <3>2, <3>3
  <2> QED BY <2>1 DEF LentIsSpilled, Transfer
<1>14. NothingVanishes'
  <2>1. Held(Here') = Elems(queue') \cup spilled' \cup dropped'
    BY DEF Held, Here, Place
  <2>2. InMemory' = Elems(queue') \cup Batches' BY DEF InMemory, Batches
  <2>3. Elems(b) \subseteq Batches' BY <1>3 DEF Batches
  <2>4. Batches \subseteq Batches' \cup Mine(w) BY <1>3 DEF Batches, Mine
  <2>5. offered \subseteq InTable \cup Mine(w) \cup Batches \cup cancelled
    BY DEF DataInv, NothingVanishes, InMemory, Mine, Batches, Held, Here, Place
  <2>6. InTable \subseteq InTable' /\ cancelled \subseteq cancelled' BY DEF Transfer
  <2> QED BY <1>5, <1>9, <2>1, <2>2, <2>3, <2>4, <2>5, <2>6 DEF NothingVanishes
<1> QED BY <1>7, <1>8, <1>12, <1>13, <1>14 DEF DataInv

\* A new value enters by enqueue_or_spill.
LEMMA OfferKeeps == ASSUME DataInv, Source PROVE DataInv'
<1>1. PICK r \in Rec : Offer(r) BY DEF Source
<1>2. PICK p \in Enqueue(Here, r) : Become(p) BY <1>1 DEF Offer
<1>3. /\ offered = 1..(r - 1) /\ offered' = offered \cup {r}
      /\ UNCHANGED <<task, control, lent, spillOpen, rows, cancelled,
                     doubtful, faults>>
  BY <1>1 DEF Offer
<1>4. r \notin offered BY <1>3 DEF Rec
<1>5. /\ Orderly(Here) /\ r \notin Held(Here) \cup Batches
      /\ \A w \in Writers : Elems(batch[w]) \subseteq Batches
  BY <1>4 DEF DataInv, Custody, Batches
<1>6. Orderly(p) /\ Held(p) = Held(Here) \cup {r} /\ Here.spilled \subseteq p.spilled
  BY <1>2, <1>5, EnqueueKeeps
<1>7. /\ Orderly(Here') /\ Held(Here') = Held(Here) \cup {r}
      /\ spilled \subseteq spilled'
  BY <1>2, <1>6, Becomes DEF Here, Place
<1>8. /\ queue' \in Seq(Rec) /\ Len(queue') <= QueueMax
      /\ spilled' \in SUBSET Rec /\ dropped' \in SUBSET Rec
  BY <1>7 DEF Orderly, Here, Place
<1>9. UNCHANGED <<wpc, batch, due, healthy, stopping, cancelling, pool, sessions>>
  BY <1>3 DEF task, control
<1>10. WritersTypeOK'
  BY <1>3, <1>8, <1>9 DEF DataInv, WritersTypeOK
<1>11. TaskInv' BY <1>9, TaskInvStays DEF DataInv
<1>12. Room' BY <1>9 DEF DataInv, Room
<1>13. Batches' = Batches /\ InTable' = InTable BY <1>3, <1>9 DEF Batches, InTable
<1>14. Custody'
  <2>1. Held(Here') \cup Batches' \cup InTable' \subseteq offered'
    BY <1>3, <1>7, <1>13 DEF DataInv, Custody
  <2>2. \A w \in Writers :
            Distinct(batch'[w]) /\ Elems(batch'[w]) \cap Held(Here') = {}
    BY <1>5, <1>7, <1>9 DEF DataInv, Custody
  <2>3. \A v, w \in Writers : v # w => Elems(batch'[v]) \cap Elems(batch'[w]) = {}
    BY <1>9 DEF DataInv, Custody
  <2> QED BY <1>7, <2>1, <2>2, <2>3 DEF Custody
<1>15. LentIsSpilled' BY <1>3, <1>7, <1>9 DEF DataInv, LentIsSpilled
<1>16. NothingVanishes'
  <2>1. Held(Here') = Elems(queue') \cup spilled' \cup dropped'
        /\ Held(Here) = Elems(queue) \cup spilled \cup dropped
    BY DEF Held, Here, Place
  <2>2. InMemory' = Elems(queue') \cup Batches' /\ InMemory = Elems(queue) \cup Batches
    BY DEF InMemory, Batches
  <2> QED BY <1>3, <1>7, <1>13, <2>1, <2>2 DEF DataInv, NothingVanishes
<1> QED BY <1>10, <1>11, <1>12, <1>14, <1>15, <1>16 DEF DataInv

\* What the spill gives up is counted.
LEMMA GivingUpKeeps ==
    ASSUME DataInv, SpillGivesUp
    PROVE  /\ DataInv'
           /\ Held(Here') = Held(Here) /\ Batches' = Batches
           /\ UNCHANGED <<rows, doubtful, spillOpen>>
<1>1. PICK recs \in SUBSET (spilled \ lent) :
          spilled' = spilled \ recs /\ dropped' = dropped \cup recs
  BY DEF SpillGivesUp
<1>2. /\ UNCHANGED <<queue, wpc, batch, due, healthy, stopping, cancelling, pool,
                     sessions, lent, spillOpen, offered, rows, cancelled, doubtful>>
      /\ faults' \in 0..MaxFaults
  BY RestOf, WritersAssumption DEF SpillGivesUp, Fault, task, control
<1>3. /\ Orderly(Here) /\ spilled \subseteq Rec /\ dropped \subseteq Rec
      /\ Here.queue = queue /\ Here.spilled = spilled /\ Here.dropped = dropped
      /\ Here'.queue = queue /\ Here'.spilled = spilled \ recs
      /\ Here'.dropped = dropped \cup recs
  BY <1>1, <1>2 DEF DataInv, WritersTypeOK, Custody, Here, Place
<1>4. Orderly(Here') /\ Held(Here') = Held(Here)
  BY <1>3 DEF Orderly, Held
<1>5. Batches' = Batches /\ InTable' = InTable /\ InMemory' = InMemory
  BY <1>2 DEF Batches, InTable, InMemory
<1>6. WritersTypeOK' BY <1>1, <1>2, <1>3 DEF DataInv, WritersTypeOK
<1>7. TaskInv' BY <1>2, TaskInvStays DEF DataInv
<1>8. Room' BY <1>2 DEF DataInv, Room
<1>9. Custody' BY <1>2, <1>4, <1>5 DEF DataInv, Custody
<1>10. LentIsSpilled' BY <1>1, <1>2 DEF DataInv, LentIsSpilled
<1>11. NothingVanishes' BY <1>1, <1>2, <1>5 DEF DataInv, NothingVanishes
<1> QED BY <1>2, <1>4, <1>5, <1>6, <1>7, <1>8, <1>9, <1>10, <1>11 DEF DataInv

\* New writers start with empty batches, and those they replace have ended
\* with empty ones.
LEMMA FreshKeeps ==
    ASSUME DataInv, AllEnded, FreshWriters, sessions < MaxSessions,
           pool' \in {"open", "closing", "closed"}
    PROVE  DataInv'
<1>1. /\ sessions' = sessions + 1
      /\ wpc' = [w \in Writers |-> "get"] /\ batch' = [w \in Writers |-> <<>>]
      /\ due' = [w \in Writers |-> FALSE] /\ healthy' = [w \in Writers |-> TRUE]
      /\ stopping' = FALSE /\ cancelling' = FALSE
      /\ UNCHANGED <<queue, spilled, lent, spillOpen, offered, rows, dropped,
                     cancelled, doubtful, faults>>
  BY DEF FreshWriters, spill, results
<1>2. \A w \in Writers : batch[w] = <<>>
  BY DEF DataInv, TaskInv, AllEnded, Ended
<1>3. Here' = Here /\ Held(Here') = Held(Here) /\ InTable' = InTable
  BY <1>1 DEF Here, Place, InTable
<1>4. Batches = {} /\ Batches' = {} BY <1>1, <1>2, NoBatch DEF Batches
<1>5. WritersTypeOK'
  <2>1. sessions' \in 0..MaxSessions
    BY <1>1, WritersAssumption DEF DataInv, WritersTypeOK
  <2>2. /\ wpc' \in [Writers -> Labels] /\ batch' \in [Writers -> Seq(Rec)]
        /\ \A w \in Writers : Len(batch'[w]) <= BatchSize
        /\ due' \in [Writers -> BOOLEAN] /\ healthy' \in [Writers -> BOOLEAN]
    BY <1>1, NoBatch DEF Labels
  <2> QED BY <1>1, <2>1, <2>2 DEF DataInv, WritersTypeOK
<1>6. TaskInv' BY FreshTasks
<1>7. Room' BY <1>1, NoBatch DEF Room
<1>8. Custody'
  <2>1. \A w \in Writers : batch'[w] = <<>> BY <1>1
  <2>2. Orderly(Here') BY <1>3 DEF DataInv, Custody
  <2>3. Held(Here') \cup Batches' \cup InTable' \subseteq offered'
    BY <1>1, <1>3, <1>4 DEF DataInv, Custody
  <2> QED BY <2>1, <2>2, <2>3, NoBatch DEF Custody
<1>9. LentIsSpilled'
  <2>1. Leader \in Writers BY WritersAssumption DEF Leader, Writers
  <2> QED BY <1>1, <2>1 DEF DataInv, LentIsSpilled
<1>10. NothingVanishes'
  <2>1. InMemory' = Elems(queue) \cup Batches' /\ InMemory = Elems(queue) \cup Batches
    BY <1>1 DEF InMemory, Batches
  <2> QED BY <1>1, <1>3, <1>4, <2>1 DEF DataInv, NothingVanishes
<1> QED BY <1>5, <1>6, <1>7, <1>8, <1>9, <1>10 DEF DataInv

\* What starts, stops and cancels writers, and time, leave the values alone.
LEMMA ControlKeeps ==
    ASSUME DataInv,
           UNCHANGED <<queue, wpc, batch, healthy, spilled, lent, results>>,
           stopping' \in BOOLEAN, stopping => stopping',
           cancelling' \in BOOLEAN, pool' \in {"open", "closing", "closed"},
           due' \in [Writers -> BOOLEAN], sessions' = sessions,
           spillOpen' \in BOOLEAN, faults' \in 0..MaxFaults
    PROVE  DataInv'
<1>1. UNCHANGED <<offered, rows, dropped, cancelled, doubtful>> BY DEF results
<1>2. Here' = Here /\ Held(Here') = Held(Here) /\ InTable' = InTable /\ Batches' = Batches
  BY <1>1 DEF Here, Place, InTable, Batches
<1>3. WritersTypeOK' BY <1>1 DEF DataInv, WritersTypeOK
<1>4. TaskInv' BY TaskInvStays DEF DataInv
<1>5. Room' BY DEF DataInv, Room
<1>6. Custody' BY <1>1, <1>2 DEF DataInv, Custody
<1>7. LentIsSpilled' BY DEF DataInv, LentIsSpilled
<1>8. NothingVanishes'
  <2>1. InMemory' = InMemory BY DEF InMemory
  <2> QED BY <1>1, <1>2, <2>1 DEF DataInv, NothingVanishes
<1> QED BY <1>3, <1>4, <1>5, <1>6, <1>7, <1>8 DEF DataInv

LEMMA DataInit == WritersInit => DataInv
<1> SUFFICES ASSUME WritersInit PROVE DataInv OBVIOUS
<1> USE DEF WritersInit
<1>1. TaskInv BY InitTasks
<1>2. \A w \in Writers : batch[w] = <<>> /\ wpc[w] = "off" OBVIOUS
<1>3. /\ Here.queue = <<>> /\ Here.spilled = {} /\ Here.dropped = {}
      /\ Held(Here) = {} /\ InTable = {} /\ Batches = {}
  BY <1>2, NoBatch DEF Here, Place, Held, InTable, Batches
<1>4. WritersTypeOK
  <2>1. /\ queue \in Seq(Rec) /\ Len(queue) <= QueueMax
        /\ \A w \in Writers : Len(batch[w]) <= BatchSize
        /\ batch \in [Writers -> Seq(Rec)]
    BY NoBatch, WritersAssumption, EmptySeq
  <2>2. faults \in 0..MaxFaults /\ sessions \in 0..MaxSessions
    BY WritersAssumption
  <2>3. wpc \in [Writers -> Labels] BY DEF Labels
  <2> QED BY <2>1, <2>2, <2>3 DEF WritersTypeOK
<1>5. Orderly(Here) BY <1>3, NoBatch, WritersAssumption, EmptySeq DEF Orderly
<1>6. Custody BY <1>2, <1>3, <1>5, NoBatch DEF Custody
<1>7. LentIsSpilled
  <2>1. Leader \in Writers BY WritersAssumption DEF Leader, Writers
  <2> QED BY <1>2, <2>1 DEF LentIsSpilled
<1> QED BY <1>1, <1>2, <1>4, <1>6, <1>7 DEF DataInv, Room, NothingVanishes

LEMMA DataWriterKeeps ==
    ASSUME DataInv, NEW w \in Writers, WriterStep(w) PROVE DataInv'
<1>1. TaskInv' BY TaskInvStep DEF DataInv
<1> QED BY <1>1, StepTransfers, TransferKeeps

LEMMA DataTickKeeps == ASSUME DataInv, NEW w \in Writers, Tick(w) PROVE DataInv'
<1>1. due' \in [Writers -> BOOLEAN] BY DEF Tick, DataInv, WritersTypeOK
<1> QED BY <1>1, ControlKeeps
        DEF Tick, control, spill, DataInv, WritersTypeOK

LEMMA DataStep == DataInv /\ [WritersNext]_writerVars => DataInv'
<1> SUFFICES ASSUME DataInv, [WritersNext]_writerVars PROVE DataInv' OBVIOUS
<1>1. CASE Tasks BY <1>1, DataWriterKeeps, DataTickKeeps DEF Tasks
<1>2. CASE StartWriters BY <1>2, FreshKeeps DEF StartWriters
<1>3. CASE StopWriters \/ CancelWriters
  <2>1. faults' \in 0..MaxFaults
    BY <1>3, RestOf, WritersAssumption DEF StopWriters, CancelWriters, Fault
  <2> QED BY <1>3, <2>1, ControlKeeps
          DEF StopWriters, CancelWriters, task, control, spill, DataInv, WritersTypeOK
<1>4. CASE UNCHANGED writerVars
  BY <1>4, ControlKeeps, RestOf
     DEF writerVars, task, control, spill, DataInv, WritersTypeOK
<1> QED BY <1>1, <1>2, <1>3, <1>4, OfferKeeps, GivingUpKeeps DEF WritersNext

LEMMA DataHolds == WritersSpec => []DataInv
BY DataInit, DataStep, PTL DEF WritersSpec

\* Every queue and batch stays within its bound, however requeueing, replay
\* and the source interleave.
THEOREM WritersTyped == WritersSpec => []WritersTypeOK
<1>1. DataInv => WritersTypeOK BY DEF DataInv
<1> QED BY <1>1, DataHolds, PTL

\* A value the source delivered is in memory, in the spill, in the table,
\* counted, or was in the hands of a cancelled writer ("No perder datos:
\* re-encolar", _flush).
THEOREM ValuesStay == WritersSpec => []NothingVanishes
<1>1. DataInv => NothingVanishes BY DEF DataInv
<1> QED BY <1>1, DataHolds, PTL

\* What the leader inserts is still in the spill, whatever other writers put
\* there and whoever was cancelled with a batch in hand.
THEOREM LoanStaysSpilled == WritersSpec => []LentIsSpilled
<1>1. DataInv => LentIsSpilled BY DEF DataInv
<1> QED BY <1>1, DataHolds, PTL

-----------------------------------------------------------------------------
(* One owner.                                                              *)

\* A row is written of a value of the writer's own batch, or of the batch the
\* leader replays, and that value is then nowhere else.
Written(w) ==
    \A r \in Rec \ doubtful' :
        \/ rows'[r] = rows[r]
        \/ /\ r \in Mine(w)
           /\ rows[r] = 0 => rows'[r] = 1
           /\ r \notin Held(Here') \cup Elems(batch'[w])

LEMMA StepWrites ==
    ASSUME DataInv, spillOpen, NEW w \in Writers, WriterStep(w)
    PROVE  Written(w)
<1>1. CASE UNCHANGED rows BY <1>1 DEF Written
<1>2. ASSUME NEW recs \in SUBSET Rec, Insert(recs), doubtful' = doubtful \cup recs
      PROVE  Written(w)
  <2>1. \A r \in Rec \ recs : rows'[r] = rows[r] BY <1>2 DEF Insert
  <2> QED BY <1>2, <2>1 DEF Written
<1>3. ASSUME NEW recs \in SUBSET Rec, DbFails(recs) PROVE Written(w)
  <2>1. CASE UNCHANGED rows BY <1>1, <2>1
  <2>2. CASE Insert(recs) /\ doubtful' = doubtful \cup recs BY <1>2, <2>2
  <2> QED BY <1>3, <2>1, <2>2 DEF DbFails, Stored
<1>4. CASE GetItem(w) \/ GetTimeout(w) \/ Drained(w) \/ DrainedNothing(w) \/ BackedOff(w)
  BY <1>1, <1>4 DEF GetItem, GetTimeout, Drained, DrainedNothing, BackedOff, results
<1>5. CASE ReplayFailed(w) \/ FlushFailed(w)
  BY <1>3, <1>5, DataOf DEF ReplayFailed, FlushFailed
<1>6. CASE Cancelled(w)
  <2> DEFINE recs == IF wpc[w] = "replay" THEN lent
                     ELSE IF wpc[w] \in {"insert", "final"}
                     THEN Elems(batch[w]) ELSE {}
  <2>1. UNCHANGED rows \/ (Insert(recs) /\ doubtful' = doubtful \cup recs)
    BY <1>6 DEF Cancelled, Stored
  <2>2. recs \in SUBSET Rec BY DataOf
  <2> HIDE DEF recs
  <2> QED BY <1>1, <1>2, <2>1, <2>2
\* The insert was answered.
<1>7. ASSUME NEW recs \in SUBSET Rec, Insert(recs), recs \subseteq Mine(w),
             (recs \ doubtful') \cap (Held(Here') \cup Elems(batch'[w])) = {}
      PROVE  Written(w)
  <2>1. /\ \A r \in Rec \ recs : rows'[r] = rows[r]
        /\ \A r \in recs : rows[r] = 0 => rows'[r] = 1
    BY <1>7, WritersAssumption DEF Insert
  <2> QED BY <1>7, <2>1 DEF Written
<1>8. \A l, b : Goto(w, l, b) => batch'[w] = b
  BY DEF Goto, DataInv, WritersTypeOK
<1>9. CASE Replayed(w)
  <2>1. PICK kept \in SUBSET lent :
            /\ AfterReplay(w, batch[w],
                           Place(queue, spilled \ (lent \ kept), dropped))
            /\ Insert(lent) /\ doubtful' = doubtful \cup kept
    BY <1>9, AckForgets
  <2> DEFINE p == Place(queue, spilled \ (lent \ kept), dropped)
  <2>2. /\ p.queue = queue /\ p.spilled = spilled \ (lent \ kept)
        /\ p.dropped = dropped
        /\ Here.queue = queue /\ Here.spilled = spilled /\ Here.dropped = dropped
    BY DEF Place, Here
  <2>3. AfterReplay(w, batch[w], p) BY <2>1
  <2> HIDE DEF p
  <2>4. Orderly(p) BY <2>2, DataOf DEF Orderly
  <2>5. Settles(w, batch[w], p) BY <2>3, <2>4, AfterReplaySettles, DataOf
  <2>6. Held(Here') = Held(p) /\ batch'[w] = batch[w] BY <1>8, <2>5 DEF Settles
  <2>7. /\ Elems(queue) \cap spilled = {} /\ spilled \cap dropped = {}
        /\ Elems(batch[w]) \cap Held(Here) = {} /\ spilled \subseteq Held(Here)
        /\ lent \subseteq spilled
    BY <2>2, DataOf DEF Orderly, Held
  <2>8. (lent \ kept) \cap (Held(p) \cup Elems(batch[w])) = {}
    BY <2>2, <2>7 DEF Held
  <2>9. lent \ doubtful' \subseteq lent \ kept BY <2>1
  <2>10. lent \subseteq Mine(w) BY <2>7 DEF Mine
  <2> QED BY <1>7, <2>1, <2>6, <2>8, <2>9, <2>10, DataOf
<1>10. ASSUME DbOk(Elems(batch[w])), Held(Here') = Held(Here), batch'[w] = <<>>
       PROVE  Written(w)
  <2>1. Elems(batch[w]) \cap (Held(Here') \cup Elems(batch'[w])) = {}
    BY <1>10, DataOf, NoBatch
  <2>2. Elems(batch[w]) \subseteq Mine(w) BY DEF Mine
  <2>3. Insert(Elems(batch[w])) BY <1>10 DEF DbOk, Stored
  <2> QED BY <1>7, <2>1, <2>2, <2>3, DataOf
<1>11. CASE Flushed(w)
  <2>1. DbOk(Elems(batch[w])) /\ LoopHead(w, <<>>, Here) BY <1>11 DEF Flushed
  <2>2. Settles(w, <<>>, Here) BY <2>1, LoopHeadSettles, DataOf
  <2>3. Held(Here') = Held(Here) /\ batch'[w] = <<>> BY <1>8, <2>2 DEF Settles
  <2> QED BY <1>10, <2>1, <2>3
<1>12. CASE FinalFlush(w)
  <2>1. CASE DbOk(Elems(batch[w])) /\ Finish(w, {}, Here)
    <3>1. Held(Here') = Held(Here) \cup {} /\ Goto(w, "done", <<>>)
      BY <2>1, FinishKeeps, DataOf
    <3> QED BY <1>8, <1>10, <2>1, <3>1
  <2>2. CASE DbFails(Elems(batch[w])) BY <1>3, <2>2, DataOf
  <2> QED BY <1>12, <2>1, <2>2 DEF FinalFlush
<1> QED BY <1>4, <1>5, <1>6, <1>9, <1>11, <1>12 DEF WriterStep

LEMMA RowsWriterKeeps ==
    ASSUME DataInv, RowsInv, spillOpen, NEW w \in Writers, WriterStep(w)
    PROVE  RowsInv'
<1>1. Written(w) /\ Transfer(w) BY StepWrites, StepTransfers
<1>2. PICK l \in Labels \ {"off"}, b \in Seq(Rec) : GoesTo(w, l, b) /\ KeepsWith(w, b)
  BY <1>1 DEF Transfer
<1>3. /\ batch'[w] = b /\ \A v \in Writers \ {w} : batch'[v] = batch[v]
      /\ Held(Here') \cup Elems(b) \subseteq Mine(w)
  BY <1>2 DEF GoesTo, Goto, KeepsWith, DataInv, WritersTypeOK
<1>4. rows \in [Rec -> Nat] /\ doubtful \subseteq doubtful'
  BY <1>1, RestOf DEF Transfer
<1>5. SUFFICES ASSUME NEW r \in Rec \ doubtful', rows'[r] > 0
               PROVE  rows'[r] = 1 /\ r \notin Held(Here') \cup Batches'
  BY DEF RowsInv
<1>6. r \in Rec \ doubtful /\ rows[r] \in Nat BY <1>4
<1>7. CASE rows[r] > 0
  <2>1. rows[r] = 1 /\ r \notin Held(Here) \cup Batches BY <1>6, <1>7 DEF RowsInv
  <2>2. r \notin Mine(w) BY <2>1 DEF Mine, Batches
  <2>3. r \notin Held(Here') \cup Batches' BY <1>3, <2>1, <2>2 DEF Batches
  <2> QED BY <1>1, <2>1, <2>2, <2>3 DEF Written
<1>8. CASE rows[r] = 0
  <2>1. /\ r \in Mine(w) /\ rows'[r] = 1
        /\ r \notin Held(Here') \cup Elems(batch'[w])
    BY <1>1, <1>5, <1>8 DEF Written
  <2>2. \A v \in Writers \ {w} : r \notin Elems(batch[v])
    BY <2>1 DEF DataInv, Custody, Mine
  <2>3. r \notin Batches' BY <1>3, <2>1, <2>2 DEF Batches
  <2> QED BY <2>1, <2>3
<1> QED BY <1>6, <1>7, <1>8

LEMMA RowsStep ==
    ASSUME DataInv, RowsInv, spillOpen, [WritersNext]_writerVars
    PROVE  RowsInv' /\ spillOpen'
<1>1. ASSUME UNCHANGED <<queue, spilled, dropped, rows, doubtful>>,
             Batches' \subseteq Batches
      PROVE  RowsInv'
  <2>1. Here' = Here /\ Held(Here') = Held(Here) BY <1>1 DEF Here, Place
  <2> QED BY <1>1, <2>1 DEF RowsInv
<1>2. CASE Source
  <2>1. PICK r \in Rec : Offer(r) BY <1>2 DEF Source
  <2>2. PICK p \in Enqueue(Here, r) : Become(p) BY <2>1 DEF Offer
  <2>3. /\ offered = 1..(r - 1)
        /\ UNCHANGED <<batch, rows, doubtful, spillOpen>>
    BY <2>1 DEF Offer, task
  <2>4. r \notin Held(Here) \cup Batches \cup InTable /\ Orderly(Here)
    BY <2>3 DEF DataInv, Custody, Rec
  <2>5. Orderly(p) /\ Held(p) = Held(Here) \cup {r} BY <2>2, <2>4, EnqueueKeeps
  <2>6. Held(Here') = Held(Here) \cup {r} BY <2>2, <2>5, Becomes
  <2>7. Batches' = Batches BY <2>3 DEF Batches
  <2> QED BY <2>3, <2>4, <2>6, <2>7 DEF RowsInv, InTable
<1>3. CASE \E w \in Writers : WriterStep(w)
  <2>1. PICK w \in Writers : WriterStep(w) BY <1>3
  <2>2. Transfer(w) BY <2>1, StepTransfers
  <2> QED BY <2>1, <2>2, RowsWriterKeeps DEF Transfer
<1>4. CASE StartWriters
  <2>1. /\ batch' = [w \in Writers |-> <<>>]
        /\ UNCHANGED <<queue, spilled, spillOpen, dropped, rows, doubtful>>
    BY <1>4 DEF StartWriters, FreshWriters, spill, results
  <2>2. Batches' = {} BY <2>1, NoBatch DEF Batches
  <2> QED BY <1>1, <2>1, <2>2
<1>5. CASE StopWriters \/ CancelWriters \/ (\E w \in Writers : Tick(w))
           \/ UNCHANGED writerVars
  <2>1. UNCHANGED <<queue, batch, spilled, spillOpen, dropped, rows, doubtful>>
    BY <1>5 DEF StopWriters, CancelWriters, Tick, writerVars, task, spill, results
  <2>2. Batches' = Batches BY <2>1 DEF Batches
  <2> QED BY <1>1, <2>1, <2>2
<1>6. CASE SpillGivesUp
  <2>1. /\ Held(Here') = Held(Here) /\ Batches' = Batches
        /\ UNCHANGED <<rows, doubtful, spillOpen>>
    BY <1>6, GivingUpKeeps
  <2> QED BY <2>1 DEF RowsInv
<1> QED BY <1>2, <1>3, <1>4, <1>5, <1>6 DEF WritersNext, Tasks

\* No value has two owners, and no row is written twice without dedup: a failed
\* batch is requeued once, and a failed replay not at all ("no se reencola en
\* memoria para no duplicarlo", _replay_spill).  Values an insert of which
\* nobody took note, failed acks among them, are left out: those are written
\* again.
THEOREM EachHasOneOwner == WritersSpec => []OneOwner
<1>1. ASSUME DataInv, RowsInv, NEW r \in Rec \ doubtful
      PROVE  rows[r] + Cardinality({i \in DOMAIN queue : queue[i] = r})
             + Cardinality({w \in Writers : r \in Elems(batch[w])})
             + (IF r \in spilled THEN 1 ELSE 0)
             + (IF r \in dropped THEN 1 ELSE 0) <= 1
  <2> DEFINE q == {i \in DOMAIN queue : queue[i] = r}
             b == {w \in Writers : r \in Elems(batch[w])}
  <2>1. /\ Here.queue = queue /\ Here.spilled = spilled /\ Here.dropped = dropped
        /\ Held(Here) = Elems(queue) \cup spilled \cup dropped
    BY DEF Here, Place, Held
  <2>2. /\ Distinct(queue) /\ Elems(queue) \cap spilled = {}
        /\ Elems(queue) \cap dropped = {} /\ spilled \cap dropped = {}
    BY <1>1, <2>1 DEF DataInv, Custody, Orderly
  <2>3. Cardinality(q) = IF q = {} THEN 0 ELSE 1
    BY <2>2, AtMostOne DEF Distinct
  <2>4. Cardinality(b) = IF b = {} THEN 0 ELSE 1
    BY <1>1, AtMostOne DEF DataInv, Custody
  <2>5. q # {} <=> r \in Elems(queue) BY DEF Elems
  <2>6. b # {} => r \notin Held(Here) BY <1>1 DEF DataInv, Custody
  <2>7. b # {} => r \in Batches BY DEF Batches
  <2>8. rows[r] = 0 \/ (rows[r] = 1 /\ r \notin Held(Here) /\ b = {})
    BY <1>1, <2>7, RestOf DEF RowsInv
  <2> HIDE DEF q, b
  <2>9. rows[r] + Cardinality(q) + Cardinality(b) + (IF r \in spilled THEN 1 ELSE 0)
        + (IF r \in dropped THEN 1 ELSE 0) <= 1
    BY <2>1, <2>2, <2>3, <2>4, <2>5, <2>6, <2>8
  <2> QED BY <2>9 DEF q, b
<1>2. DataInv /\ RowsInv => OneOwner BY <1>1 DEF OneOwner
<1>3. WritersInit => RowsInv /\ spillOpen BY DEF WritersInit, RowsInv
<1>4. DataInv /\ RowsInv /\ spillOpen /\ [WritersNext]_writerVars
         => RowsInv' /\ spillOpen'
  BY RowsStep
<1> QED BY <1>2, <1>3, <1>4, DataInit, DataStep, PTL DEF WritersSpec

=============================================================================
