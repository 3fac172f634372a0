-------------------------- MODULE ConnectorProofs --------------------------
(***************************************************************************)
(* Proofs about Connector: that the generations of writers do not meet,    *)
(* that pool and spill outlive them, that retries stay within their bound, *)
(* and that a process exits without losing a value it accepted.  For any   *)
(* number of writers, values and retries, every capacity, and every        *)
(* failure there is.                                                       *)
(*                                                                         *)
(* What the writers do with the values is DataInv of BatchWritersProofs;   *)
(* here it is shown to survive what the session and main() do around them. *)
(***************************************************************************)
EXTENDS Connector, BatchWritersProofs

-----------------------------------------------------------------------------
(* The process.                                                            *)

Before   == {"off", "pool", "schema"}
Serving  == {"connect", "subscribe", "up", "gather", "disconnect"}
Teardown == {"wait", "reap"}
After    == {"close", "end"}

\* A session that was cancelled in its teardown leaves writers behind; then a
\* stop was requested, and main() starts no other.
Abandoned == stop /\ cut /\ main \in {"join", "closing", "cleanup", "ended"}

\* Where main() and the session are together.
SessionPlace ==
    /\ sess \in Before \cup Serving \cup Teardown \cup After
    /\ sess \in {"pool", "schema", "connect", "subscribe", "up"} =>
           main = "wait"
    /\ main \in {"wait", "join"} <=> sess # "off"
    /\ main = "join" => stop
    /\ pool = "open" \/ sess \in {"off", "pool"} \cup After
    /\ ~spillOpen => main \in {"cleanup", "ended"}

\* The writers of a session that serves are all there and have not been told
\* to stop; around a session there are none, unless they were abandoned.
Generation ==
    /\ sess \in Before \cup After => AllEnded \/ Abandoned
    /\ sess \in Serving =>
           ~stopping /\ ~cut /\ \A w \in Writers : wpc[w] \notin Ended
    /\ cancelling => cut \/ main = "ended"

ConnInv ==
    /\ TaskInv
    /\ SessionPlace
    /\ Generation
    /\ AllEnded /\ ~cut => queue = <<>>

Places == <<main, stop, sess, cut, pool, spillOpen, stopping, cancelling, queue,
            wpc, batch>>

LEMMA ServingHasWriters ==
    ASSUME ConnInv, sess \in Serving PROVE ~AllEnded
<1>1. Leader \in Writers BY WritersAssumption DEF Leader, Writers
<1>2. wpc[Leader] \notin Ended BY <1>1 DEF ConnInv, Generation
<1> QED BY <1>1, <1>2 DEF AllEnded, Ended

LEMMA ConnInitial == ConnectorInit => ConnInv
<1> SUFFICES ASSUME ConnectorInit PROVE ConnInv OBVIOUS
<1>1. TaskInv /\ AllEnded /\ queue = <<>> BY InitTasks DEF ConnectorInit
<1>2. SessionPlace /\ Generation
  BY <1>1 DEF ConnectorInit, WritersInit, SessionPlace, Generation, Before,
              Serving, Teardown, After
<1> QED BY <1>1, <1>2 DEF ConnInv

\* A writer that has not ended is of a session that serves or is torn down,
\* or abandoned; its step moves nothing but its own place and batch.
LEMMA WriterKeeps ==
    ASSUME ConnInv, NEW w \in Writers, Writer(w)
    PROVE  ConnInv'
<1> USE DEF Before, Serving, Teardown, After
<1>1. /\ wpc[w] \notin Ended
      /\ Moves(w)
      /\ TaskInv'
      /\ UNCHANGED <<stopping, cancelling, pool, spillOpen, main, stop, sess, cut>>
  BY WriterMoves, TaskInvStep
     DEF Writer, ConnInv, control, mainVars, sessVars
<1>2. ~AllEnded BY <1>1 DEF AllEnded, Ended
<1>3. SessionPlace' BY <1>1 DEF ConnInv, SessionPlace
<1>4. ~(sess \in Before \cup After) \/ Abandoned
  BY <1>2 DEF ConnInv, Generation
<1>5. Abandoned => Abandoned' BY <1>1 DEF Abandoned
<1>6. ASSUME sess \in Serving
      PROVE  \A u \in Writers : wpc'[u] \notin Ended
  <2>1. ~stopping /\ ~cancelling
    BY <1>6 DEF ConnInv, Generation, SessionPlace
  <2>2. PICK l \in Labels \ {"off"} : \E b : Move(w, l, b)
    BY <1>1 DEF Moves
  <2>3. l \notin Ended BY <2>1, <2>2 DEF Move, Ended
  <2>4. \A u \in Writers : wpc'[u] = IF u = w THEN l ELSE wpc[u]
    BY <2>2 DEF Move, Goto, ConnInv, TaskInv
  <2> QED BY <1>6, <2>3, <2>4 DEF ConnInv, Generation
<1>7. Generation'
  BY <1>1, <1>4, <1>5, <1>6 DEF ConnInv, Generation
<1>8. ASSUME AllEnded', ~cut PROVE queue' = <<>>
  <2>1. ~cancelling
    <3>1. main # "ended" BY <1>4, <1>8 DEF ConnInv, SessionPlace, Abandoned
    <3> QED BY <1>8, <3>1 DEF ConnInv, Generation
  <2> QED BY <1>1, <1>8, <2>1, LastEnds DEF ConnInv, Writer
<1> QED BY <1>1, <1>3, <1>7, <1>8 DEF ConnInv

\* The writers end or are waited for in the order of the inner finally.
LEMMA SessionKeeps ==
    ASSUME ConnInv, SessionStep \/ Lost
    PROVE  ConnInv'
<1> USE DEF Before, Serving, Teardown, After, Session, Returns, Raises, Goes,
            mainVars, SetPool, SetStop, spill
<1>1. CASE SchemaReady
  <2>1. TaskInv' /\ ~AllEnded' BY <1>1, FreshTasks DEF SchemaReady
  <2>2. SessionPlace'
    BY <1>1 DEF SchemaReady, FreshWriters, ConnInv, SessionPlace
  <2>3. Generation'
    BY <1>1 DEF SchemaReady, FreshWriters, ConnInv, Generation, Ended
  <2> QED BY <2>1, <2>2, <2>3 DEF ConnInv
<1>2. ASSUME UNCHANGED <<wpc, batch, queue, cancelling, spillOpen, main, stop>>,
             stopping => stopping',
             cut => cut',
             SessionPlace',
             Generation'
      PROVE  ConnInv'
  <2>1. TaskInv' BY <1>2, TaskInvStays DEF ConnInv
  <2>2. AllEnded' = AllEnded BY <1>2 DEF AllEnded
  <2> QED BY <1>2, <2>1, <2>2 DEF ConnInv
<1>3. CASE PoolCreated \/ PoolFailed \/ SchemaFailed \/ PoolClosed
  <2>1. UNCHANGED <<wpc, batch, queue, stopping, cancelling, spillOpen, main,
                    stop, cut>>
    BY <1>3 DEF PoolCreated, PoolFailed, SchemaFailed, PoolClosed, task,
                writerVars, control
  <2>2. SessionPlace'
    BY <1>3, <2>1 DEF PoolCreated, PoolFailed, SchemaFailed, PoolClosed,
                      ConnInv, SessionPlace, writerVars, control
  <2>3. Generation'
    BY <1>3, <2>1 DEF PoolCreated, PoolFailed, SchemaFailed, PoolClosed,
                      ConnInv, Generation, AllEnded, Abandoned
  <2> QED BY <1>2, <2>1, <2>2, <2>3
<1>4. CASE Connected \/ Subscribed \/ SubscribeFailed \/ Stopped \/ Lost
           \/ Gathered
  <2>1. UNCHANGED writerVars /\ UNCHANGED <<main, stop, cut>>
    BY <1>4 DEF Connected, Subscribed, SubscribeFailed, Stopped, Lost, Leave,
                Gathered
  <2>2. sess \in Serving /\ sess' \in Serving
    BY <1>4 DEF Connected, Subscribed, SubscribeFailed, Stopped, Lost, Leave,
                Gathered
  <2>3. SessionPlace'
    <3>1. sess' = "up" \/ sess' = "subscribe" => main = "wait"
      BY <1>4 DEF Connected, Subscribed, SubscribeFailed, Stopped, Lost, Leave,
                  Gathered, ConnInv, SessionPlace
    <3>2. sess' # "connect"
      BY <1>4 DEF Connected, Subscribed, SubscribeFailed, Stopped, Lost, Leave,
                  Gathered
    <3> QED BY <2>1, <2>2, <3>1, <3>2 DEF ConnInv, SessionPlace, writerVars,
                                          control
  <2>4. Generation'
    BY <2>1, <2>2 DEF ConnInv, Generation, writerVars, control, task
  <2> QED BY <1>2, <2>1, <2>3, <2>4 DEF writerVars, control, task
<1>5. CASE ConnectFailed \/ Disconnected \/ WritersLate
  <2>1. /\ UNCHANGED <<wpc, batch, queue, spillOpen, main, stop, pool>>
        /\ stopping => stopping'
        /\ cut => cut'
        /\ sess \in Serving \cup Teardown /\ sess' \in Teardown
    BY <1>5 DEF ConnectFailed, Disconnected, WritersLate, CancelWriters, task,
                writerVars
  <2>2. SessionPlace' BY <2>1 DEF ConnInv, SessionPlace
  <2>3. Generation'
    BY <1>5, <2>1 DEF ConnectFailed, Disconnected, WritersLate, CancelWriters,
                      ConnInv, Generation
  <2>4. TaskInv' BY <2>1, TaskInvStays DEF ConnInv
  <2>5. AllEnded' = AllEnded BY <2>1 DEF AllEnded
  <2> QED BY <2>1, <2>2, <2>3, <2>4, <2>5 DEF ConnInv
<1>6. CASE WritersEnded
  <2>1. /\ UNCHANGED <<wpc, batch, queue, cancelling, spillOpen, main, stop,
                       stopping, cut>>
        /\ AllEnded
        /\ sess \in Teardown /\ sess' = "close"
    BY <1>6 DEF WritersEnded, task
  <2>2. SessionPlace' BY <2>1 DEF ConnInv, SessionPlace
  <2>3. Generation' BY <2>1 DEF ConnInv, Generation, AllEnded
  <2> QED BY <1>2, <2>1, <2>2, <2>3
<1> QED BY <1>1, <1>3, <1>4, <1>5, <1>6 DEF SessionStep

\* A cancelled session goes on to its teardown, or leaves it for pool.close().
LEMMA CancelKeeps == ASSUME ConnInv, CancelSession PROVE ConnInv'
<1> USE DEF Before, Serving, Teardown, After, CancelTo, SetPool, SetStop
<1>1. /\ UNCHANGED <<wpc, batch, queue, cancelling, spillOpen, stop>>
      /\ stopping => stopping'
      /\ cut => cut'
      /\ main = "wait" /\ main' = "join" /\ stop
  BY DEF CancelSession, CancelNoWriters, CancelConnect, CancelSubscription,
         CancelTeardown, task, spill, writerVars, control
<1>2. /\ sess \in {"pool", "close"} /\ sess' = "end" /\ pool' = "closed"
           /\ UNCHANGED <<stopping, cut>>
      \/ /\ sess = "schema" /\ sess' = "close" /\ UNCHANGED <<stopping, cut>>
      \/ /\ sess = "connect" /\ sess' = "wait" /\ UNCHANGED <<pool, cut>>
      \/ /\ sess \in {"subscribe", "up"} /\ sess' \in {"gather", "disconnect"}
         /\ UNCHANGED <<pool, stopping, cut>>
      \/ /\ sess \in {"gather", "disconnect", "wait", "reap"}
         /\ sess' = "close" /\ cut' = TRUE /\ UNCHANGED stopping
  BY DEF CancelSession, CancelNoWriters, CancelConnect, CancelSubscription,
         CancelTeardown, writerVars, control
<1>3. SessionPlace' BY <1>1, <1>2 DEF ConnInv, SessionPlace
<1>4. AllEnded' = AllEnded BY <1>1 DEF AllEnded
<1>5. Generation'
  BY <1>1, <1>2, <1>4 DEF ConnInv, Generation, Abandoned
<1>6. TaskInv' BY <1>1, TaskInvStays DEF ConnInv
<1> QED BY <1>1, <1>3, <1>4, <1>5, <1>6 DEF ConnInv

\* main() starts a session only where none is, and not once it is to stop.
LEMMA MainKeeps == ASSUME ConnInv, MainStep PROVE ConnInv'
<1> USE DEF Before, Serving, Teardown, After
<1>1. CASE CancelSession BY <1>1, CancelKeeps
<1>2. CASE Begin \/ SessionReturned \/ SessionFailed \/ Slept
  <2>1. /\ UNCHANGED writerVars /\ UNCHANGED <<stop, cut>>
        /\ main \in {"start", "backoff"} \/ sess = "end"
        /\ \/ ~stop /\ main' = "wait" /\ sess' = "pool"
           \/ stop /\ main' = "closing" /\ sess' = "off"
           \/ main' \in {"closing", "backoff"} /\ sess' = "off"
              /\ (stop => main' = "closing")
    BY <1>2 DEF Begin, SessionReturned, SessionFailed, Slept, NextSession,
                SessionEnded
  <2>2. UNCHANGED <<wpc, batch, queue, stopping, cancelling, pool, spillOpen>>
    BY <2>1 DEF writerVars, task, control, spill
  <2>3. sess \in {"off", "end"} BY <2>1 DEF ConnInv, SessionPlace
  <2>4. SessionPlace'
    BY <2>1, <2>2, <2>3 DEF ConnInv, SessionPlace
  <2>5. AllEnded' = AllEnded BY <2>2 DEF AllEnded
  <2>6. Generation'
    BY <2>1, <2>2, <2>3, <2>5
       DEF ConnInv, Generation, SessionPlace, Abandoned
  <2>7. TaskInv' BY <2>2, TaskInvStays DEF ConnInv
  <2> QED BY <2>1, <2>2, <2>4, <2>5, <2>6, <2>7 DEF ConnInv
<1>3. CASE CloseSpill \/ End
  <2>1. /\ UNCHANGED <<wpc, batch, queue, stopping, pool, stop, sess, cut>>
        /\ main \in {"closing", "cleanup"} /\ main' \in {"cleanup", "ended"}
        /\ spillOpen' = FALSE \/ UNCHANGED spillOpen
        /\ cancelling' => cancelling \/ main' = "ended"
        /\ main = "cleanup" => main' = "ended"
    BY <1>3 DEF CloseSpill, End, task, control, sessVars, spill
  <2>2. SessionPlace' BY <2>1 DEF ConnInv, SessionPlace
  <2>3. AllEnded' = AllEnded BY <2>1 DEF AllEnded
  <2>4. Generation'
    BY <2>1, <2>3 DEF ConnInv, SessionPlace, Generation, Abandoned
  <2>5. TaskInv' BY <2>1, TaskInvStays DEF ConnInv
  <2> QED BY <2>1, <2>2, <2>3, <2>4, <2>5 DEF ConnInv
<1> QED BY <1>1, <1>2, <1>3 DEF MainStep

LEMMA OtherKeeps ==
    ASSUME ConnInv,
           \/ Signal \/ Delivery \/ Cap \/ UNCHANGED connVars
           \/ \E w \in Writers : Interval(w)
    PROVE  ConnInv'
<1> USE DEF Before, Serving, Teardown, After
<1>1. /\ UNCHANGED <<wpc, batch, stopping, cancelling, pool, spillOpen, main,
                     sess, cut>>
      /\ stop' = TRUE \/ UNCHANGED stop
      /\ UNCHANGED queue \/ sess \in Serving
  BY DEF Signal, Delivery, Source, Offer, Cap, SpillGivesUp, Interval, Tick,
         connVars, writerVars, task, control, spill, mainVars, sessVars
<1>2. SessionPlace' BY <1>1 DEF ConnInv, SessionPlace
<1>3. AllEnded' = AllEnded BY <1>1 DEF AllEnded
<1>4. Generation' BY <1>1, <1>3 DEF ConnInv, Generation, Abandoned
<1>5. TaskInv' BY <1>1, TaskInvStays DEF ConnInv
<1> QED BY <1>1, <1>2, <1>3, <1>4, <1>5, ServingHasWriters DEF ConnInv

LEMMA ConnStep == ConnInv /\ [ConnectorNext]_connVars => ConnInv'
BY WriterKeeps, SessionKeeps, MainKeeps, OtherKeeps DEF ConnectorNext

-----------------------------------------------------------------------------
\* The writers of a session never meet those of the one before, whatever call
\* failed and wherever a cancellation landed.
THEOREM GenerationsDoNotMeet == ConnectorSpec => []OneGeneration
<1>1. ConnInv => OneGeneration
  BY DEF ConnInv, SessionPlace, Generation, Abandoned, OneGeneration, Before
<1> QED BY <1>1, ConnInitial, ConnStep, PTL DEF ConnectorSpec

\* Pool and spill outlive the writers, unless a teardown was cut short.
THEOREM PoolOutlivesWriters == ConnectorSpec => []WritersEndFirst
<1>1. ConnInv => WritersEndFirst
  BY DEF ConnInv, SessionPlace, Generation, Abandoned, WritersEndFirst, Before,
         After
<1> QED BY <1>1, ConnInitial, ConnStep, PTL DEF ConnectorSpec

\* Between two sessions the process holds no value in memory.
THEOREM NothingInMemory == ConnectorSpec => []IdleMemoryEmpty
<1>1. ASSUME ConnInv PROVE IdleMemoryEmpty
  <2>1. SUFFICES ASSUME main = "backoff", ~cut PROVE InMemory = {}
    BY DEF IdleMemoryEmpty
  <2>2. AllEnded
    BY <2>1, <1>1 DEF ConnInv, SessionPlace, Generation, Abandoned, Before
  <2> QED BY <1>1, <2>1, <2>2, EmptyMemory DEF ConnInv
<1> QED BY <1>1, ConnInitial, ConnStep, PTL DEF ConnectorSpec
-----------------------------------------------------------------------------
(* The process and its values.                                             *)

\* A session that is being set up is one of those the bound allows, and a
\* session is tried again only below the limit.
Budget ==
    /\ sess \in {"pool", "schema"} => sessions < MaxSessions
    /\ main \in {"start", "wait", "join", "backoff"} =>
           attempts = 0 \/ attempts < MaxRetries

ProcessInv == DataInv /\ ConnInv /\ ConnectorTypeOK /\ Budget

LEMMA ProcessInitial == ConnectorInit => ProcessInv
<1> SUFFICES ASSUME ConnectorInit PROVE ProcessInv OBVIOUS
<1>1. DataInv BY DataInit DEF ConnectorInit
<1>2. WritersTypeOK BY <1>1 DEF DataInv
<1>3. attempts \in 0..(MaxRetries + 1)
  BY ConnectorAssumption DEF ConnectorInit
<1>4. ConnectorTypeOK BY <1>2, <1>3 DEF ConnectorInit, ConnectorTypeOK
<1>5. Budget BY DEF ConnectorInit, Budget
<1> QED BY <1>1, <1>4, <1>5, ConnInitial DEF ProcessInv

\* What the session and main() do around the writers moves no value: new
\* writers start where none is left.
LEMMA SessionLeavesData ==
    ASSUME ProcessInv, SessionStep \/ Lost
    PROVE  DataInv'
<1> USE DEF Session, SetPool, SetStop, ProcessInv
<1>1. CASE SchemaReady
  <2>1. sess = "schema" /\ UNCHANGED pool /\ FreshWriters
    BY <1>1 DEF SchemaReady
  <2>2. AllEnded
    BY <2>1 DEF ConnInv, Generation, SessionPlace, Abandoned, Before
  <2>3. sessions < MaxSessions BY <2>1 DEF Budget
  <2>4. pool' \in {"open", "closing", "closed"} BY <2>1, RestOf
  <2> QED BY <2>1, <2>2, <2>3, <2>4, FreshKeeps
<1>2. CASE ~SchemaReady
  <2>1. /\ UNCHANGED <<queue, wpc, batch, due, healthy, spilled, lent, spillOpen,
                       results, sessions>>
        /\ stopping' = stopping \/ stopping' = TRUE
        /\ cancelling' = cancelling \/ cancelling' = TRUE
        /\ pool' = pool \/ pool' \in {"open", "closing", "closed"}
        /\ faults' = faults \/ Fault("late")
    BY <1>2 DEF SessionStep, PoolCreated, PoolFailed, SchemaFailed, Connected,
                ConnectFailed, Subscribed, SubscribeFailed, Stopped, Lost, Leave,
                Gathered, Disconnected, WritersEnded, WritersLate, CancelWriters,
                PoolClosed, writerVars, task, control, spill
  <2>2. faults' \in 0..MaxFaults
    BY <2>1, RestOf, WritersAssumption DEF Fault
  <2>3. /\ stopping' \in BOOLEAN /\ cancelling' \in BOOLEAN
        /\ pool' \in {"open", "closing", "closed"}
        /\ due' \in [Writers -> BOOLEAN] /\ spillOpen' \in BOOLEAN
    BY <2>1, RestOf
  <2>4. stopping => stopping' BY <2>1
  <2> QED BY <2>1, <2>2, <2>3, <2>4, ControlKeeps
<1> QED BY <1>1, <1>2

LEMMA MainLeavesData ==
    ASSUME ProcessInv, MainStep \/ Signal \/ UNCHANGED connVars
    PROVE  DataInv'
<1>1. /\ UNCHANGED <<queue, wpc, batch, due, healthy, spilled, lent, results,
                     sessions, faults>>
      /\ stopping' = stopping \/ stopping' = TRUE
      /\ cancelling' = cancelling \/ cancelling' = TRUE
      /\ pool' = pool \/ pool' \in {"open", "closing", "closed"}
      /\ spillOpen' = spillOpen \/ spillOpen' = FALSE
  BY DEF MainStep, CancelSession, CancelNoWriters, CancelConnect,
         CancelSubscription, CancelTeardown, CancelTo, SetPool, SetStop, Begin,
         SessionReturned, SessionFailed, Slept, NextSession, CloseSpill, End,
         Signal, connVars, writerVars, task, control, spill
<1>2. DataInv BY DEF ProcessInv
<1>3. /\ stopping' \in BOOLEAN /\ cancelling' \in BOOLEAN
      /\ pool' \in {"open", "closing", "closed"}
      /\ due' \in [Writers -> BOOLEAN] /\ spillOpen' \in BOOLEAN
      /\ faults' \in 0..MaxFaults
  BY <1>1, <1>2, RestOf
<1>4. stopping => stopping' BY <1>1
<1> QED BY <1>1, <1>2, <1>3, <1>4, ControlKeeps

LEMMA DataSurvives ==
    ASSUME ProcessInv, [ConnectorNext]_connVars PROVE DataInv'
<1>1. DataInv BY DEF ProcessInv
<1>2. CASE \E w \in Writers : Writer(w) \/ Interval(w)
  BY <1>1, <1>2, DataWriterKeeps, DataTickKeeps DEF Writer, Interval
<1>3. CASE Delivery BY <1>1, <1>3, OfferKeeps DEF Delivery
<1>4. CASE Cap BY <1>1, <1>4, GivingUpKeeps DEF Cap
<1> QED BY <1>2, <1>3, <1>4, SessionLeavesData, MainLeavesData DEF ConnectorNext

\* A step starts at most one session, and no step but the end of a session
\* counts a failure.
LEMMA TypesSurvive ==
    ASSUME ProcessInv, [ConnectorNext]_connVars, DataInv'
    PROVE  ConnectorTypeOK' /\ Budget'
<1> USE DEF ProcessInv
<1>1. WritersTypeOK' BY DEF DataInv
<1>2. CASE SessionStep \/ Lost
  <2>1. UNCHANGED mainVars
    BY <1>2 DEF SessionStep, Lost, Session, PoolCreated, PoolFailed, SchemaReady,
                SchemaFailed, Connected, ConnectFailed, Subscribed,
                SubscribeFailed, Stopped, Leave, Gathered, Disconnected,
                WritersEnded, WritersLate, PoolClosed
  <2>2. /\ outcome' \in {outcome, "ok", "error"}
        /\ cut' \in {cut, TRUE, FALSE}
        /\ sess' \in {"schema", "connect", "subscribe", "up", "gather",
                      "disconnect", "wait", "reap", "close", "end"}
        /\ sess' = "schema" => sess = "pool" /\ UNCHANGED sessions
    BY <1>2 DEF SessionStep, Lost, Session, PoolCreated, PoolFailed, SchemaReady,
                SchemaFailed, Connected, ConnectFailed, Subscribed,
                SubscribeFailed, Stopped, Leave, Gathered, Disconnected,
                WritersEnded, WritersLate, PoolClosed, Returns, Raises, Goes,
                SetPool
  <2>3. UNCHANGED <<main, stop, attempts>> BY <2>1 DEF mainVars
  <2>4. ConnectorTypeOK BY DEF ProcessInv
  <2> HIDE DEF ProcessInv
  <2>5. /\ main' \in {"start", "wait", "join", "backoff", "closing", "cleanup",
                      "ended"}
        /\ stop' \in BOOLEAN /\ attempts' \in 0..(MaxRetries + 1)
    BY <2>3, <2>4 DEF ConnectorTypeOK
  <2>6. outcome' \in {"ok", "error", "cancelled"} /\ cut' \in BOOLEAN
    BY <2>2, <2>4 DEF ConnectorTypeOK
  <2>7. ConnectorTypeOK' BY <1>1, <2>2, <2>5, <2>6 DEF ConnectorTypeOK
  <2>8. Budget' BY <2>2, <2>3 DEF ProcessInv, Budget
  <2> QED BY <2>7, <2>8
<1>3. CASE CancelSession
  <2>1. /\ UNCHANGED <<stop, attempts>> /\ main = "wait" /\ main' = "join"
        /\ outcome' = "cancelled" /\ cut' \in {cut, TRUE}
        /\ sess' \in {"end", "close", "wait", "disconnect", "gather"}
    BY <1>3 DEF CancelSession, CancelNoWriters, CancelConnect, CancelTo,
                CancelSubscription, CancelTeardown
  <2> QED BY <1>1, <2>1 DEF ConnectorTypeOK, Budget
<1>4. CASE Begin \/ SessionReturned \/ Slept
  <2>1. PICK n \in 0..MaxRetries :
            NextSession(n) /\ (n = 0 \/ n < MaxRetries)
    BY <1>4, ConnectorAssumption DEF Begin, SessionReturned, Slept, Budget,
                                       ConnectorTypeOK
  <2>2. /\ attempts' = n /\ UNCHANGED <<stop, outcome, cut, sessions>>
        /\ \/ main' = "wait" /\ sess' = "pool" /\ sessions < MaxSessions
           \/ main' = "closing" /\ sess' = "off"
    BY <2>1 DEF NextSession, writerVars, control
  <2>3. attempts' \in 0..(MaxRetries + 1) BY <2>1, <2>2, ConnectorAssumption
  <2>4. ConnectorTypeOK' BY <1>1, <2>2, <2>3 DEF ConnectorTypeOK
  <2>5. Budget' BY <2>1, <2>2 DEF Budget
  <2> QED BY <2>4, <2>5
<1>5. CASE SessionFailed
  <2>1. /\ main \in {"wait", "join"}
        /\ attempts' = IF stop THEN attempts ELSE attempts + 1
        /\ main' = IF stop \/ attempts' >= MaxRetries THEN "closing"
                   ELSE "backoff"
        /\ sess' = "off" /\ UNCHANGED <<stop, outcome, cut>>
    BY <1>5 DEF SessionFailed, SessionEnded
  <2>2. attempts' \in 0..(MaxRetries + 1)
    BY <2>1, ConnectorAssumption DEF ConnectorTypeOK, Budget
  <2>3. main' = "backoff" => attempts' < MaxRetries
    BY <2>1, <2>2, ConnectorAssumption
  <2>4. ConnectorTypeOK' BY <1>1, <2>1, <2>2 DEF ConnectorTypeOK
  <2>5. Budget' BY <2>1, <2>3 DEF Budget
  <2> QED BY <2>4, <2>5
<1>6. CASE CloseSpill \/ End
  BY <1>1, <1>6 DEF CloseSpill, End, sessVars, control, ConnectorTypeOK, Budget
<1>7. CASE \/ Signal \/ Delivery \/ Cap \/ UNCHANGED connVars
           \/ \E w \in Writers : Writer(w) \/ Interval(w)
  <2>1. UNCHANGED <<main, attempts, sess, outcome, cut>> /\ stop' \in {stop, TRUE}
    BY <1>7 DEF Signal, Delivery, Cap, Writer, Interval, connVars, mainVars,
                sessVars
  <2>2. UNCHANGED sessions
    <3>1. ASSUME NEW w \in Writers, Writer(w) PROVE UNCHANGED sessions
      BY <3>1, StepTransfers DEF Writer, Transfer, DataInv, control
    <3>2. CASE \/ Signal \/ Delivery \/ Cap \/ UNCHANGED connVars
               \/ \E w \in Writers : Interval(w)
      BY <3>2 DEF Signal, Delivery, Source, Offer, Cap, SpillGivesUp, Interval,
                  Tick, connVars, writerVars, control
    <3> QED BY <1>7, <3>1, <3>2
  <2>3. ConnectorTypeOK /\ Budget BY DEF ProcessInv
  <2> HIDE DEF ProcessInv
  <2>4. ConnectorTypeOK' BY <1>1, <2>1, <2>3 DEF ConnectorTypeOK
  <2>5. Budget' BY <2>1, <2>2, <2>3 DEF Budget
  <2> QED BY <2>4, <2>5
<1> QED BY <1>2, <1>3, <1>4, <1>5, <1>6, <1>7 DEF ConnectorNext, MainStep

LEMMA ProcessStep == ProcessInv /\ [ConnectorNext]_connVars => ProcessInv'
BY ConnStep, DataSurvives, TypesSurvive DEF ProcessInv

LEMMA ProcessHolds == ConnectorSpec => []ProcessInv
BY ProcessInitial, ProcessStep, PTL DEF ConnectorSpec

\* The process stays within its states and bounds: queue and batches within
\* their capacities across sessions, and failed sessions in a row within
\* RECONNECT_MAX_RETRIES.
THEOREM ProcessTyped == ConnectorSpec => []ConnectorTypeOK
<1>1. ProcessInv => ConnectorTypeOK BY DEF ProcessInv
<1> QED BY <1>1, ProcessHolds, PTL

\* A process that exits has put away every value it accepted, in whatever
\* session it was, unless a cancellation landed in a teardown or writers were
\* late ("el resto de la cola se persiste en el spill", README.md).
THEOREM ExitsOrderly == ConnectorSpec => []OrderlyExit
<1>1. ASSUME ProcessInv PROVE OrderlyExit
  <2>1. SUFFICES ASSUME AllEnded, ~cut PROVE offered \subseteq Kept
    BY DEF OrderlyExit, Exited
  <2>2. InMemory = {} BY <1>1, <2>1, EmptyMemory DEF ProcessInv, ConnInv
  <2> QED BY <1>1, <2>2 DEF ProcessInv, DataInv, NothingVanishes, Kept
<1> QED BY <1>1, ProcessHolds, PTL
=============================================================================
