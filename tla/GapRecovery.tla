---------------------------- MODULE GapRecovery ----------------------------
(***************************************************************************)
(* How a series of values stays complete across sessions: opc/history.py,  *)
(* opc/subscription.py and the part of main.py that puts them in order.    *)
(* A session reads the newest stored time of each tag (its watermark),     *)
(* takes the time (the cutoff), creates the monitored items, and then      *)
(* reads back from the server's history what lies between the two.         *)
(*                                                                         *)
(* A value is <<tag, time>>: the event_id is computed from the tag, the    *)
(* source time and the value, so a value that arrives by both paths is one *)
(* row.  Between arrival and table a value is in memory (queue or batch of *)
(* a writer) or on disk; the writers share one queue and put failed        *)
(* batches back at its end, so values are saved in any order.              *)
(***************************************************************************)
EXTENDS Naturals, FiniteSets

CONSTANTS
    NumTags,    \* the tags of this connector, in the order of their node_id
    PageSize,   \* HISTORY_RECOVERY_BATCH
    MaxGap,     \* HISTORY_RECOVERY_MAX_GAP_S
    Skew,       \* how far the clock of this host may be behind the server's
    Faults,     \* the kinds of failure the environment may cause
    MaxFaults,  \* bound: failures in one behaviour
    MaxTime,    \* bound: changes of value in one behaviour
    MaxSessions \* bound: sessions in one behaviour

\* The watermark query fails; a history read fails or times out; a value goes
\* to disk, because the queue is full or its insert fails; the spill refuses it;
\* a writer outlives shutdown_timeout_s; the process dies; a value changes
\* between the cutoff and the creation of its monitored item.
FaultKinds == {"marks", "page", "spill", "drop", "late", "kill", "window"}

Tags == 1..NumTags
Value == Tags \X (1..MaxTime)

ASSUME GapAssumption ==
    /\ {NumTags, PageSize, MaxTime, MaxSessions} \subseteq Nat \ {0}
    /\ {MaxGap, Skew, MaxFaults} \subseteq Nat
    /\ Faults \subseteq FaultKinds

VARIABLES
    clock,      \* the server's time: it advances with every change of value
    values,     \* every value there was: the server's history
    table,      \* values with a row in the data table
    disk,       \* values in the spill
    mem,        \* values in the queue or in a writer's batch
    sess,       \* how far the session has come
    marks,      \* watermarks; 0 for a tag without one
    cutoff,     \* the time before the subscription was created
    monitored,  \* tags whose monitored item exists
    unread,     \* values the history reads of this session have yet to return
    todo,       \* tags recover_gaps has not finished with
    counted,    \* values a metric counts as not recovered or dropped
    window,     \* history: values that changed again before their item existed
    unmarked,   \* history: values of tags for which no watermark was found
    cancelled,  \* history: values of a recovery that the session's end cut off
    killed,     \* history: values in memory when process or writers died
    faults,     \* failures so far
    sessions    \* sessions so far

series  == <<clock, values>>
store   == <<table, disk, mem>>
session == <<sess, marks, cutoff, monitored, sessions>>
reading == <<unread, todo>>
fate    == <<counted, window, unmarked, cancelled, killed>>
vars    == <<series, store, session, reading, fate, faults>>
-----------------------------------------------------------------------------
Of(t, S) == {v \in S : v[1] = t}
Newest(S) == {v \in S : \A u \in S : u[2] <= v[2]}

Held == table \cup disk \cup mem

NoFault == UNCHANGED faults
Fault(kind) ==
    /\ kind \in Faults
    /\ faults < MaxFaults
    /\ faults' = faults + 1

-----------------------------------------------------------------------------
(* The server.                                                             *)

\* A value changes.  The notification of a monitored item goes to the queue
\* (datachange_notification); one that the session's end loses on the way is
\* a change without a session.
Change(t) ==
    /\ clock < MaxTime
    /\ IF sess = "subscribing" /\ t \notin monitored THEN Fault("window")
       ELSE NoFault
    /\ clock' = clock + 1
    /\ values' = values \cup {<<t, clock'>>}
    /\ mem' = IF t \in monitored THEN mem \cup {<<t, clock'>>} ELSE mem
    /\ UNCHANGED <<table, disk, session, reading, fate>>
-----------------------------------------------------------------------------
(* The writers and the spill, as far as they matter here: what BatchWriters*)
(* and ReplayStore promise.                                                *)

Save(v) ==
    /\ sess # "down"
    /\ table' = table \cup {v}
    /\ mem' = mem \ {v}
    /\ UNCHANGED <<series, disk, session, reading, fate, faults>>

Spill(v) ==
    /\ Fault("spill")
    /\ disk' = disk \cup {v}
    /\ mem' = mem \ {v}
    /\ UNCHANGED <<series, table, session, reading, fate>>

\* VALUES_DROPPED counts it.
Drop(v) ==
    /\ Fault("drop")
    /\ mem' = mem \ {v}
    /\ counted' = counted \cup {v}
    /\ UNCHANGED <<series, table, disk, session, reading, window, unmarked,
                   cancelled, killed>>

Replay(v) ==
    /\ sess # "down"
    /\ table' = table \cup {v}
    /\ disk' = disk \ {v}
    /\ UNCHANGED <<series, mem, session, reading, fate, faults>>
-----------------------------------------------------------------------------
(* _run_opc_session, as far as it decides what is read and what arrives.   *)

\* Writers started, client connected, tags discovered.
Open ==
    /\ sess = "down"
    /\ sessions < MaxSessions
    /\ sess' = "open"
    /\ sessions' = sessions + 1
    /\ UNCHANGED <<series, store, marks, cutoff, monitored, reading, fate,
                   faults>>

\* load_watermarks: MAX(ts) by tag; if the query fails the session goes on
\* without watermarks.
LoadWatermarks ==
    /\ sess = "open"
    /\ sess' = "marked"
    /\ marks' \in [Tags -> 0..MaxTime]
    /\ \/ /\ NoFault
          /\ \A t \in Tags : IF Of(t, table) = {} THEN marks'[t] = 0
                             ELSE <<t, marks'[t]>> \in Newest(Of(t, table))
       \/ /\ Fault("marks")
          /\ \A t \in Tags : marks'[t] = 0
    /\ UNCHANGED <<series, store, cutoff, monitored, sessions, reading, fate>>

\* Mutant: the end of the range is left out.
RangeOpen(t, end) ==
    IF marks[t] = 0 \/ marks[t] >= end THEN {}
    ELSE {v \in Of(t, values) : marks[t] <= v[2] /\ v[2] < end}

\* The range recover_gaps will ask for: nothing for a tag without a watermark
\* or with a watermark that is not before the cutoff.
Range(t, end) ==
    IF marks[t] = 0 \/ marks[t] >= end THEN {}
    ELSE {v \in Of(t, values) : marks[t] <= v[2] /\ v[2] <= end}

\* cutoff = datetime.now(timezone.utc), by this host's clock.
TakeCutoff ==
    /\ sess = "marked"
    /\ sess' = "subscribing"
    /\ \E late \in 0..Skew : late <= clock /\ cutoff' = clock - late
    /\ unread' = UNION {Range(t, cutoff') : t \in Tags}
    /\ UNCHANGED <<series, store, marks, monitored, sessions, todo, fate,
                   faults>>

\* subscribe, chunk by chunk: a new monitored item reports the value the tag
\* has now, and every later change.  What came before and is not in the range
\* of the history read is not asked for any more.
Subscribe(t) ==
    LET current == Newest(Of(t, values))
        past == Of(t, values) \ (current \cup Held \cup unread)
    IN
    /\ sess = "subscribing"
    /\ t \notin monitored
    /\ monitored' = monitored \cup {t}
    /\ mem' = mem \cup current
    /\ IF marks[t] = 0
       THEN unmarked' = unmarked \cup past /\ UNCHANGED window
       ELSE window' = window \cup {v \in past : v[2] > cutoff}
            /\ UNCHANGED unmarked
    /\ UNCHANGED <<series, table, disk, sess, marks, cutoff, sessions, reading,
                   counted, cancelled, killed, faults>>

\* The subscription is complete; the history task is started.
StartRecovery ==
    /\ sess = "subscribing"
    /\ monitored = Tags
    /\ sess' = "live"
    /\ todo' = {t \in Tags : Range(t, cutoff) # {}}
    /\ UNCHANGED <<series, store, marks, cutoff, monitored, sessions, unread,
                   fate, faults>>

\* Mutant: the continuation point is ignored.
ReadPageOnce(t) ==
    LET rest == Of(t, unread)
        page == {v \in rest : Cardinality({u \in rest : u[2] < v[2]}) < PageSize}
    IN
    /\ cutoff - marks[t] <= MaxGap
    /\ mem' = mem \cup page
    /\ unread' = unread \ rest
    /\ todo' = todo \ {t}
    /\ UNCHANGED <<series, table, disk, session, fate, faults>>

\* Mutant: every page is read from the start.
ReadPageAgain(t) ==
    LET rest == Of(t, unread)
        page == {v \in rest : Cardinality({u \in rest : u[2] < v[2]}) < PageSize}
    IN
    /\ cutoff - marks[t] <= MaxGap
    /\ mem' = mem \cup page
    /\ \/ page = rest /\ todo' = todo \ {t} /\ unread' = unread \ rest
       \/ page # rest /\ UNCHANGED reading
    /\ UNCHANGED <<series, table, disk, session, fate, faults>>

\* One page of the history of t, oldest values first; its values go to the
\* queue like those of the subscription.
ReadPage(t) ==
    LET rest == Of(t, unread)
        page == {v \in rest : Cardinality({u \in rest : u[2] < v[2]}) < PageSize}
    IN
    /\ cutoff - marks[t] <= MaxGap
    /\ mem' = mem \cup page
    /\ unread' = unread \ page
    /\ todo' = IF page = rest THEN todo \ {t} ELSE todo
    /\ UNCHANGED <<series, table, disk, session, fate, faults>>

\* The gap is larger than the limit, or a read fails, times out or needs too
\* many pages: HISTORY_GAP_UNRECOVERED, and on to the next tag.
GiveUp(t) ==
    /\ \/ cutoff - marks[t] > MaxGap /\ NoFault
       \/ cutoff - marks[t] <= MaxGap /\ Fault("page")
    /\ counted' = counted \cup Of(t, unread)
    /\ unread' = unread \ Of(t, unread)
    /\ todo' = todo \ {t}
    /\ UNCHANGED <<series, store, session, window, unmarked, cancelled, killed>>

\* recover_gaps goes through the tags in their order.
Recover ==
    /\ sess = "live"
    /\ \E t \in todo : /\ \A u \in todo : t <= u
                       /\ ReadPage(t) \/ GiveUp(t)

\* Mutant: the task outlives its session.
DropReadsLater ==
    /\ monitored' = {}
    /\ UNCHANGED <<reading, cancelled>>

\* What the end of a session does to its recovery: the task is cancelled (or
\* was never started), and a CancelledError is counted nowhere.
DropReads ==
    /\ monitored' = {}
    /\ unread' = {}
    /\ todo' = {}
    /\ cancelled' = cancelled \cup {v \in unread \ Held : v[1] \in monitored}

\* The connection is lost, a call of the session raises, or it is told to
\* stop: the finally block, up to _stop_writers.
Lose ==
    /\ sess \in {"open", "marked", "subscribing", "live"}
    /\ sess' = "closing"
    /\ DropReads
    /\ UNCHANGED <<series, store, marks, cutoff, sessions, counted, window,
                   unmarked, killed, faults>>

\* The writers have ended with nothing left in memory.
Close ==
    /\ sess = "closing"
    /\ mem = {}
    /\ sess' = "down"
    /\ UNCHANGED <<series, store, marks, cutoff, monitored, sessions, reading,
                   fate, faults>>

\* The process dies, or writers are cancelled after shutdown_timeout_s.
Kill ==
    /\ \/ sess # "down" /\ Fault("kill")
       \/ sess = "closing" /\ Fault("late")
    /\ sess' = "down"
    /\ mem' = {}
    /\ killed' = killed \cup (mem \ (table \cup disk))
    /\ DropReads
    /\ UNCHANGED <<series, table, disk, marks, cutoff, sessions, counted,
                   window, unmarked>>

Init ==
    /\ clock = 0 /\ values = {}
    /\ table = {} /\ disk = {} /\ mem = {}
    /\ sess = "down" /\ sessions = 0 /\ monitored = {}
    /\ marks = [t \in Tags |-> 0] /\ cutoff = 0
    /\ unread = {} /\ todo = {}
    /\ counted = {} /\ window = {} /\ unmarked = {} /\ cancelled = {}
    /\ killed = {}
    /\ faults = 0

Pipeline ==
    \/ \E v \in mem : Save(v) \/ Spill(v) \/ Drop(v)
    \/ \E v \in disk : Replay(v)

Setup ==
    \/ Open \/ LoadWatermarks \/ TakeCutoff
    \/ \E t \in Tags : Subscribe(t)
    \/ StartRecovery

Next ==
    \/ \E t \in Tags : Change(t)
    \/ Pipeline \/ Setup \/ Recover
    \/ Lose \/ Close \/ Kill

Spec == Init /\ [][Next]_vars

\* The event loop serves the recovery, and a history read has a timeout.  That
\* a session is lost or fails is not assumed, nor that it is not; nor that an
\* insert ever goes well, or that the disk is read.
FairSpec == Spec /\ WF_vars(Recover)
-----------------------------------------------------------------------------
(* Properties.                                                             *)

Stages == {"down", "open", "marked", "subscribing", "live", "closing"}

\* A value the connector has or will still ask for; one it will never ask for.
Pending == Held \cup unread
GivenUp == UNION {counted, window, unmarked, cancelled, killed}

\* Every variable has its type; what is stored, on its way or to be read is a
\* value the server had, and only a session that subscribes has anything to
\* read.
GapTypeOK ==
    /\ clock \in 0..MaxTime
    /\ values \subseteq Tags \X (1..clock)
    /\ Held \subseteq values /\ unread \subseteq values
    /\ sess \in Stages /\ sessions \in 0..MaxSessions
    /\ marks \in [Tags -> 0..MaxTime] /\ cutoff \in 0..MaxTime
    /\ monitored \subseteq Tags /\ todo \subseteq Tags
    /\ sess \notin {"subscribing", "live"} => monitored = {} /\ unread = {}
    /\ todo # {} => sess = "live"
    /\ GivenUp \subseteq values
    /\ faults \in 0..MaxFaults

\* A hole: a value without a row between two of its tag's rows.  No session
\* reads it again, since each starts from the newest row.
Holes ==
    {v \in values \ table :
        /\ \E a \in Of(v[1], table) : a[2] < v[2]
        /\ \E b \in Of(v[1], table) : b[2] > v[2]}

\* The series of a tag has a hole for five reasons only: a metric counts it,
\* the value changed between the cutoff and the creation of the item, there
\* was no watermark to read from, the recovery was cancelled with the session,
\* or the value was in memory when the process died.
HolesAreExplained == Holes \subseteq Pending \cup GivenUp

\* Once a session is live, whatever is newer than its tag's watermark is in the
\* connector's hands, will be read, or is given up for a reason of its own: the
\* history read and the subscription meet at the cutoff.
NothingBetween ==
    sess = "live" =>
        \A v \in values : marks[v[1]] # 0 /\ v[2] > marks[v[1]] =>
            v \in Pending \cup GivenUp

\* The same without the excuse of a value that changed again before its item
\* existed: "el histórico cubre hasta aquí; lo posterior llega por DataChange"
\* (main.py).
SeamlessCutoff ==
    sess = "live" =>
        \A v \in values : marks[v[1]] # 0 /\ v[2] > marks[v[1]] =>
            v \in Pending \cup UNION {counted, unmarked, cancelled, killed}

\* "El hueco se registra como no recuperado (nunca se ignora)" (history.py).
NoSilentHole == Holes \subseteq Pending \cup counted

\* As long as the session lives, a value recover_gaps is to read gets into the
\* connector's hands or is counted, whatever becomes of the reads of other tags.
RangeIsRead ==
    \A v \in Value : v \in unread ~> v \in Held \cup counted \/ sess # "live"
=============================================================================
