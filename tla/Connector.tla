----------------------------- MODULE Connector -----------------------------
(***************************************************************************)
(* connector/main.py: the main task runs one OPC UA session after another  *)
(* in a task of its own, and a signal makes it cancel that task.  A        *)
(* session creates the pool and the BatchWriters, connects, subscribes,    *)
(* waits until the server is lost or a stop is requested, and then, in its *)
(* two finally blocks, disconnects, stops the writers and closes the pool. *)
(* The queue and the spill live as long as the process.                    *)
(*                                                                         *)
(* A cancellation lands in whatever the session awaits, and that may be    *)
(* one of the awaits of a finally block: what that block has left to do    *)
(* is then skipped.                                                        *)
(***************************************************************************)
EXTENDS BatchWriters

CONSTANT MaxRetries \* RECONNECT_MAX_RETRIES, if it sets a limit (is not negative)

ASSUME ConnectorAssumption == MaxRetries \in Nat

VARIABLES
    main,     \* where main() awaits
    stop,     \* stop_event
    attempts, \* failed sessions in a row
    sess,     \* where the session task awaits
    outcome,  \* how it ends: it returns, raises, or is cancelled
    cut       \* history: the last writers were not all awaited to their end

mainVars == <<main, stop, attempts>>
sessVars == <<sess, outcome, cut>>
connVars == <<writerVars, mainVars, sessVars>>
-----------------------------------------------------------------------------
(* _run_opc_session, from one await to the next.                           *)

Session(from, to) == sess = from /\ sess' = to /\ UNCHANGED mainVars
Returns == outcome' = "ok" /\ UNCHANGED cut
Raises == outcome' = "error" /\ UNCHANGED cut
Goes == UNCHANGED <<outcome, cut>>

SetPool(state) ==
    /\ pool' = state
    /\ UNCHANGED <<queue, task, stopping, cancelling, sessions, spill, results,
                   faults>>

\* The first half of _stop_writers: every writer's stop().
SetStop ==
    /\ stopping' = TRUE
    /\ UNCHANGED <<queue, task, cancelling, pool, sessions, spill, results,
                   faults>>

PoolCreated == Session("pool", "schema") /\ Goes /\ SetPool("open")
PoolFailed == Session("pool", "end") /\ Raises /\ UNCHANGED writerVars

SchemaReady ==
    /\ Session("schema", "connect")
    /\ cut' = FALSE
    /\ FreshWriters
    /\ UNCHANGED <<outcome, pool>>

SchemaFailed == Session("schema", "close") /\ Raises /\ SetPool("closing")

\* retry_async of connect; there is no client to disconnect if it gives up.
Connected == Session("connect", "subscribe") /\ Goes /\ UNCHANGED writerVars
\* Mutant: the try begins after the connection.
ConnectFailedOrphans ==
    Session("connect", "close") /\ Raises /\ SetPool("closing")

ConnectFailed == Session("connect", "wait") /\ Raises /\ SetStop

\* discover_and_partition, load_watermarks and subscribe.
Subscribed == Session("subscribe", "up") /\ Goes /\ UNCHANGED writerVars
SubscribeFailed ==
    Session("subscribe", "disconnect") /\ Raises /\ UNCHANGED writerVars

\* _wait_until_disconnected returns; a history task, if there is one, is
\* awaited first.
Leave ==
    /\ \E to \in {"gather", "disconnect"} : Session("up", to)
    /\ Returns
    /\ UNCHANGED writerVars

Stopped == stop /\ Leave
Lost == ~stop /\ Leave

Gathered == Session("gather", "disconnect") /\ Goes /\ UNCHANGED writerVars

\* disconnect() returns, or raises what the session logs.
Disconnected == Session("disconnect", "wait") /\ Goes /\ SetStop

\* Mutant: the writers are stopped and not awaited.
WritersNotAwaited ==
    /\ \E from \in {"wait", "reap"} : Session(from, "close")
    /\ Goes
    /\ SetPool("closing")

\* asyncio.wait: all writers have ended, or those left are cancelled and
\* gathered.
WritersEnded ==
    /\ \E from \in {"wait", "reap"} : Session(from, "close")
    /\ Goes
    /\ AllEnded
    /\ SetPool("closing")

WritersLate ==
    Session("wait", "reap") /\ cut' = TRUE /\ CancelWriters /\ UNCHANGED outcome

\* pool.close() waits for the connections in use, but not for a writer that
\* asks for one once the pool is closing: that insert fails.
PoolClosed == Session("close", "end") /\ Goes /\ SetPool("closed")

SessionStep ==
    \/ PoolCreated \/ PoolFailed \/ SchemaReady \/ SchemaFailed
    \/ Connected \/ ConnectFailed \/ Subscribed \/ SubscribeFailed
    \/ Stopped \/ Gathered \/ Disconnected \/ WritersEnded \/ WritersLate
    \/ PoolClosed
-----------------------------------------------------------------------------
(* CancelledError at what the session awaits, and where it goes from there *)
(* by its finally blocks.                                                  *)

CancelTo(from, to) == sess \in from /\ sess' = to

\* Before the writers, and in pool.close(), which then drops its connections.
CancelNoWriters ==
    /\ \/ CancelTo({"pool", "close"}, "end") /\ SetPool("closed")
       \/ CancelTo({"schema"}, "close") /\ SetPool("closing")
    /\ UNCHANGED cut

CancelConnect == CancelTo({"connect"}, "wait") /\ SetStop /\ UNCHANGED cut

\* Mutant: no inner finally.
CancelSubscriptionAbandons ==
    /\ CancelTo({"subscribe", "up"}, "close")
    /\ SetPool("closing")
    /\ UNCHANGED cut

CancelSubscription ==
    /\ \/ CancelTo({"subscribe", "up"}, "disconnect")
       \/ CancelTo({"up"}, "gather")
    /\ UNCHANGED <<writerVars, cut>>

\* In the inner finally: its "except Exception" does not catch the
\* cancellation, and the writers are not stopped or not awaited.
CancelTeardown ==
    /\ CancelTo({"gather", "disconnect", "wait", "reap"}, "close")
    /\ SetPool("closing")
    /\ cut' = TRUE

\* main() sees the stop while the session runs.
CancelSession ==
    /\ main = "wait"
    /\ stop
    /\ \/ CancelNoWriters \/ CancelConnect \/ CancelSubscription
       \/ CancelTeardown
    /\ outcome' = "cancelled"
    /\ main' = "join"
    /\ UNCHANGED <<stop, attempts>>
-----------------------------------------------------------------------------
(* main().                                                                 *)

\* Mutant: the loop does not look at stop_event.
NextSessionAlways(n) ==
    /\ attempts' = n
    /\ sessions < MaxSessions
    /\ main' = "wait" /\ sess' = "pool"
    /\ UNCHANGED <<stop, outcome, cut, writerVars>>

\* The head of its loop: the next session, or the end.
NextSession(n) ==
    /\ attempts' = n
    /\ \/ /\ ~stop
          /\ sessions < MaxSessions
          /\ main' = "wait" /\ sess' = "pool"
       \/ stop /\ main' = "closing" /\ sess' = "off"
    /\ UNCHANGED <<stop, outcome, cut, writerVars>>

Begin == main = "start" /\ NextSession(0)

\* The session task has ended, by itself or because it was cancelled.
SessionEnded == main \in {"wait", "join"} /\ sess = "end"

SessionReturned == SessionEnded /\ outcome = "ok" /\ NextSession(0)

\* Mutant: main() never gives up.
SessionFailedForever ==
    /\ SessionEnded
    /\ outcome # "ok"
    /\ attempts' = IF stop THEN attempts ELSE attempts + 1
    /\ main' = IF stop THEN "closing" ELSE "backoff"
    /\ sess' = "off"
    /\ UNCHANGED <<stop, outcome, cut, writerVars>>

SessionFailed ==
    /\ SessionEnded
    /\ outcome # "ok"
    /\ attempts' = IF stop THEN attempts ELSE attempts + 1
    /\ main' = IF stop \/ attempts' >= MaxRetries THEN "closing" ELSE "backoff"
    /\ sess' = "off"
    /\ UNCHANGED <<stop, outcome, cut, writerVars>>

\* The sleep before the next session; a stop does not interrupt it.
Slept == main = "backoff" /\ NextSession(attempts)

\* spill.close(), then the HTTP server's cleanup,
CloseSpill ==
    /\ main = "closing"
    /\ main' = "cleanup"
    /\ spillOpen' = FALSE
    /\ UNCHANGED <<queue, task, control, spilled, lent, results, faults,
                   stop, attempts, sessVars>>

\* and asyncio.run cancels the tasks that are left.
End ==
    /\ main = "cleanup"
    /\ main' = "ended"
    /\ cancelling' = TRUE
    /\ UNCHANGED <<queue, task, stopping, pool, sessions, spill, results, faults,
                   stop, attempts, sessVars>>

MainStep ==
    \/ CancelSession \/ Begin \/ SessionReturned \/ SessionFailed \/ Slept
    \/ CloseSpill \/ End

\* SIGTERM or SIGINT.
Signal ==
    /\ ~stop
    /\ main # "ended"
    /\ stop' = TRUE
    /\ UNCHANGED <<writerVars, main, attempts, sessVars>>
-----------------------------------------------------------------------------
\* Values come from the first subscribe() until the client is disconnected.
Delivery ==
    /\ sess \in {"subscribe", "up", "gather", "disconnect"}
    /\ Source
    /\ UNCHANGED <<mainVars, sessVars>>

Writer(w) == WriterStep(w) /\ UNCHANGED <<mainVars, sessVars>>
Interval(w) == Tick(w) /\ UNCHANGED <<mainVars, sessVars>>

\* The spill's worker, as long as the process lives.
Cap == main # "ended" /\ SpillGivesUp /\ UNCHANGED <<mainVars, sessVars>>

ConnectorInit ==
    /\ WritersInit
    /\ main = "start" /\ stop = FALSE /\ attempts = 0
    /\ sess = "off" /\ outcome = "ok" /\ cut = FALSE

ConnectorNext ==
    \/ MainStep \/ Signal \/ SessionStep \/ Lost \/ Delivery \/ Cap
    \/ \E w \in Writers : Writer(w) \/ Interval(w)

ConnectorSpec == ConnectorInit /\ [][ConnectorNext]_connVars

\* The event loop serves every task and every call of a session ends.  That
\* the server is lost or a signal arrives is not assumed.
ConnectorFairSpec ==
    /\ ConnectorSpec
    /\ WF_connVars(MainStep)
    /\ WF_connVars(SessionStep)
    /\ \A w \in Writers : WF_connVars(Writer(w)) /\ WF_connVars(Interval(w))
-----------------------------------------------------------------------------
(* Properties.                                                             *)

ConnectorTypeOK ==
    /\ WritersTypeOK
    /\ main \in {"start", "wait", "join", "backoff", "closing", "cleanup",
                 "ended"}
    /\ stop \in BOOLEAN
    /\ attempts \in 0..(MaxRetries + 1)
    /\ sess \in {"off", "pool", "schema", "connect", "subscribe", "up",
                 "gather", "disconnect", "wait", "reap", "close", "end"}
    /\ outcome \in {"ok", "error", "cancelled"}
    /\ cut \in BOOLEAN

\* The writers of a session never meet those of the session before, with
\* which they would share the queue and the spill: "el finally interior los
\* para" (_run_opc_session).
OneGeneration == sess \in {"pool", "schema"} => AllEnded

\* A writer that still runs has a pool to insert with and a spill to put the
\* rest into, unless the session was cancelled while it waited for it.
WritersEndFirst ==
    ~cut /\ (pool # "open" \/ ~spillOpen) => AllEnded

\* While main() sleeps before the next session nothing stays in memory: what
\* the last one accepted is in the table, in the spill, or counted, unless its
\* writers were late.
IdleMemoryEmpty == main = "backoff" /\ ~cut => InMemory = {}

Exited == main = "ended" /\ AllEnded
Kept == InTable \cup spilled \cup dropped \cup cancelled

\* A process that exits has put away every value it accepted, unless a
\* cancellation landed in the session's teardown or writers were late.
OrderlyExit == Exited /\ ~cut => offered \subseteq Kept

\* The same wherever the cancellation lands: "El lote local intenta un último
\* insert; el resto de la cola se persiste en el spill" (README.md, Apagado
\* ordenado).
ExitKeepsValues == Exited => offered \subseteq Kept

\* A stop request ends the process, whatever the session was doing.
StopExits == stop ~> Exited
=============================================================================
