------------------------- MODULE GapRecoveryProofs -------------------------
(***************************************************************************)
(* Proofs about GapRecovery, for any number of tags, values and sessions,  *)
(* any page size and limit, and every failure there is.                    *)
(*                                                                         *)
(* HolesAreExplained is not inductive: nothing in it tells a value that    *)
(* the next session will read from one that it will not.  GapInv says that *)
(* a value the connector neither holds nor gave up is either to be read by *)
(* the session that already monitors its tag, or newer than all that is    *)
(* held of its tag, and then a watermark read later cannot pass over it.   *)
(***************************************************************************)
EXTENDS GapRecovery, TLAPS

Ahead(v) == \A u \in Held : u[1] = v[1] => u[2] < v[2]

Accounted(v) ==
    \/ v \in Held
    \/ v \in GivenUp
    \/ v \in unread /\ v[1] \in monitored
    \/ Ahead(v) /\ v[1] \notin monitored

MarksAreRows == \A t \in Tags : marks[t] = 0 \/ <<t, marks[t]>> \in table

RangeIsUnread ==
    \A v \in values :
        marks[v[1]] # 0 /\ marks[v[1]] < v[2] /\ v[2] <= cutoff => v \in unread

GapInv ==
    /\ GapTypeOK
    /\ \A v \in values : Accounted(v)
    /\ sess \in {"marked", "subscribing", "live"} => MarksAreRows
    /\ sess = "subscribing" => cutoff <= clock /\ RangeIsUnread
    /\ sess = "live" => monitored = Tags

\* Where every value is accounted for, a hole is one that was given up or is
\* still to come: between two rows of its tag nothing is ahead of them.
LEMMA AccountedHoles ==
    ASSUME GapTypeOK, \A v \in values : Accounted(v)
    PROVE  HolesAreExplained
<1> SUFFICES ASSUME NEW v \in Holes PROVE v \in Pending \cup GivenUp
  BY DEF HolesAreExplained
<1>1. v \in values /\ Accounted(v) BY DEF Holes
<1>2. PICK b \in Of(v[1], table) : b[2] > v[2] BY DEF Holes
<1>3. b \in Held /\ b[1] = v[1] BY <1>2 DEF Of, Held
<1>4. v[2] \in Nat /\ b[2] \in Nat
  <2>1. v \in values /\ b \in values BY <1>1, <1>3 DEF GapTypeOK
  <2>2. values \subseteq Tags \X Nat BY GapAssumption DEF GapTypeOK
  <2> QED BY <2>1, <2>2
<1>5. ~Ahead(v) BY <1>2, <1>3, <1>4 DEF Ahead
<1> QED BY <1>1, <1>5 DEF Accounted, Pending

\* Initially the server has no value.
LEMMA GapInit == Init => GapInv
<1> SUFFICES ASSUME Init PROVE GapInv OBVIOUS
<1>1. GapTypeOK
  BY GapAssumption DEF Init, GapTypeOK, Held, GivenUp, Tags, Stages
<1> QED BY <1>1 DEF Init, GapInv

-----------------------------------------------------------------------------
(* One lemma per group of actions.                                         *)

\* Newest picks from the set it is given, and what it leaves is older or equal.
LEMMA NewestOf ==
    ASSUME NEW t, NEW S
    PROVE  Newest(Of(t, S)) \subseteq S /\ \A v \in Newest(Of(t, S)) : v[1] = t
BY DEF Newest, Of

\* A step that moves values between memory, disk and table, or counts one that
\* leaves, keeps the account.
LEMMA PipelineInv == GapInv /\ Pipeline => GapInv'
<1> SUFFICES ASSUME GapInv, Pipeline PROVE GapInv' OBVIOUS
<1> USE DEF GapInv
<1>1. PICK v : \/ v \in mem /\ (Save(v) \/ Spill(v) \/ Drop(v))
               \/ v \in disk /\ Replay(v)
  BY DEF Pipeline
<1>2. v \in Held BY <1>1 DEF Held
<1>3. table \subseteq table' BY <1>1 DEF Save, Spill, Drop, Replay
<1>4. Held' \subseteq Held /\ Held \subseteq Held' \cup GivenUp'
      /\ GivenUp \subseteq GivenUp' /\ GivenUp' \subseteq GivenUp \cup {v}
  BY <1>1, <1>2 DEF Save, Spill, Drop, Replay, Held, GivenUp, fate
<1>5. UNCHANGED <<series, session, reading>>
  BY <1>1 DEF Save, Spill, Drop, Replay
<1>6. GapTypeOK'
  <2>1. faults' \in 0..MaxFaults
    BY <1>1, GapAssumption
    DEF Save, Spill, Drop, Replay, Fault, NoFault, GapTypeOK
  <2> QED BY <1>2, <1>4, <1>5, <2>1 DEF GapTypeOK, series, session, reading
<1>7. \A w \in values' : Accounted(w)'
  BY <1>4, <1>5 DEF Accounted, Ahead, series, session, reading
<1>8. MarksAreRows => MarksAreRows'
  BY <1>3, <1>5 DEF MarksAreRows, session
<1>9. RangeIsUnread => RangeIsUnread'
  BY <1>5 DEF RangeIsUnread, series, session, reading
<1> QED BY <1>5, <1>6, <1>7, <1>8, <1>9 DEF series, session, reading

\* A new value is delivered, or it is newer than all that is held.
LEMMA ChangeInv == ASSUME NEW t \in Tags PROVE GapInv /\ Change(t) => GapInv'
<1> SUFFICES ASSUME GapInv, Change(t) PROVE GapInv' OBVIOUS
<1> USE DEF GapInv
<1> PICK new : new = <<t, clock'>> OBVIOUS
<1>1. clock \in Nat /\ clock' = clock + 1 /\ clock' \in 0..MaxTime
  BY GapAssumption DEF Change, GapTypeOK
<1>2. values' = values \cup {new} BY DEF Change
<1>3. UNCHANGED <<table, disk, session, reading, fate>> BY DEF Change
<1>4. /\ t \in monitored => mem' = mem \cup {new}
      /\ t \notin monitored => mem' = mem
  BY DEF Change
<1>5. /\ Held \subseteq Held' /\ Held' \subseteq Held \cup {new}
      /\ t \in monitored => new \in Held'
      /\ t \notin monitored => Held' = Held
  BY <1>3, <1>4 DEF Held
<1>6. GivenUp' = GivenUp BY <1>3 DEF GivenUp, fate
<1>7. \A u \in Held : u[1] \in Tags /\ u[2] \in Nat /\ u[2] <= clock
  BY <1>1 DEF GapTypeOK
<1>8. GapTypeOK'
  <2>1. faults' \in 0..MaxFaults
    BY GapAssumption DEF Change, Fault, NoFault, GapTypeOK
  <2>2. Tags \X (1..clock) \subseteq Tags \X (1..clock') BY <1>1
  <2>3. new \in Tags \X (1..clock') BY <1>1
  <2>4. values' \subseteq Tags \X (1..clock')
    BY <1>2, <2>2, <2>3 DEF GapTypeOK
  <2> QED
    BY <1>1, <1>2, <1>3, <1>5, <1>6, <2>1, <2>4
    DEF GapTypeOK, session, reading
<1>9. \A w \in values' : Accounted(w)'
  <2>1. CASE t \in monitored
    <3>1. \A w \in values : Accounted(w)'
      BY <1>3, <1>5, <1>6, <2>1 DEF Accounted, Ahead, session, reading
    <3> QED BY <1>2, <1>5, <2>1, <3>1 DEF Accounted
  <2>2. CASE t \notin monitored
    <3>1. \A w \in values : Accounted(w)'
      BY <1>3, <1>5, <1>6, <2>2 DEF Accounted, Ahead, session, reading
    <3>2. Ahead(new)' BY <1>1, <1>5, <1>7, <2>2 DEF Ahead
    <3> QED BY <1>2, <1>3, <2>2, <3>1, <3>2 DEF Accounted, session
  <2> QED BY <2>1, <2>2
<1>10. MarksAreRows => MarksAreRows' BY <1>3 DEF MarksAreRows, session
<1>11. cutoff <= clock /\ RangeIsUnread => cutoff' <= clock' /\ RangeIsUnread'
  <2> SUFFICES ASSUME cutoff <= clock, RangeIsUnread
               PROVE  cutoff' <= clock' /\ RangeIsUnread'
    OBVIOUS
  <2>1. cutoff \in Nat /\ cutoff' = cutoff
    BY <1>3, GapAssumption DEF GapTypeOK, session
  <2>2. ~(new[2] <= cutoff) BY <1>1, <2>1
  <2> QED BY <1>1, <1>2, <1>3, <2>1, <2>2 DEF RangeIsUnread, session, reading
<1> QED BY <1>3, <1>8, <1>9, <1>10, <1>11 DEF session

\* Opening a session, closing it and reading watermarks move no value.
LEMMA StartInv == GapInv /\ (Open \/ LoadWatermarks \/ Close) => GapInv'
<1> SUFFICES ASSUME GapInv, Open \/ LoadWatermarks \/ Close PROVE GapInv'
  OBVIOUS
<1> USE DEF GapInv
<1>1. UNCHANGED <<series, store, monitored, cutoff, reading, fate>>
  BY DEF Open, LoadWatermarks, Close
<1>2. /\ sess \notin {"subscribing", "live"}
      /\ sess' \in Stages \ {"subscribing", "live"}
      /\ sessions' \in 0..MaxSessions
      /\ faults' \in 0..MaxFaults
      /\ marks' \in [Tags -> 0..MaxTime]
  BY GapAssumption
  DEF Open, LoadWatermarks, Close, NoFault, Fault, GapTypeOK, Stages
<1>3. Held' = Held /\ GivenUp' = GivenUp
  BY <1>1 DEF Held, GivenUp, store, fate
<1>4. GapTypeOK'
  BY <1>1, <1>2, <1>3 DEF GapTypeOK, series, reading
<1>5. \A w \in values' : Accounted(w)'
  BY <1>1, <1>3 DEF Accounted, Ahead, series, reading
<1>6. sess' = "marked" => MarksAreRows'
  <2> SUFFICES ASSUME sess' = "marked" PROVE MarksAreRows' OBVIOUS
  <2>1. LoadWatermarks BY DEF Open, Close
  <2>2. \A t \in Tags : marks'[t] = 0
                        \/ <<t, marks'[t]>> \in Newest(Of(t, table))
    BY <2>1 DEF LoadWatermarks
  <2> QED BY <1>1, <2>2, NewestOf DEF MarksAreRows, store
<1> QED BY <1>2, <1>4, <1>5, <1>6

\* What the cutoff makes the range of the history read covers every value
\* between the watermark and the cutoff.
LEMMA CutoffInv == GapInv /\ TakeCutoff => GapInv'
<1> SUFFICES ASSUME GapInv, TakeCutoff PROVE GapInv' OBVIOUS
<1> USE DEF GapInv
<1>1. UNCHANGED <<series, store, marks, monitored, sessions, todo, fate, faults>>
  BY DEF TakeCutoff
<1>2. PICK late \in 0..Skew : late <= clock /\ cutoff' = clock - late
  BY DEF TakeCutoff
<1>3. /\ clock \in 0..MaxTime /\ MaxTime \in Nat
      /\ cutoff' \in 0..MaxTime /\ cutoff' <= clock
  BY <1>2, GapAssumption DEF GapTypeOK
<1>4. unread' = UNION {Range(t, cutoff') : t \in Tags} BY DEF TakeCutoff
<1>5. unread' \subseteq values BY <1>4 DEF Range, Of
<1>6. sess = "marked" /\ sess' = "subscribing" /\ monitored = {}
  BY DEF TakeCutoff, GapTypeOK
<1>7. Held' = Held /\ GivenUp' = GivenUp
  BY <1>1 DEF Held, GivenUp, store, fate
<1>8. GapTypeOK'
  BY <1>1, <1>3, <1>5, <1>6, <1>7 DEF GapTypeOK, Stages, series
<1>9. \A w \in values' : Accounted(w)'
  BY <1>1, <1>6, <1>7 DEF Accounted, Ahead, series
<1>10. MarksAreRows' BY <1>1, <1>6 DEF MarksAreRows, store
<1>11. RangeIsUnread'
  <2> SUFFICES ASSUME NEW v \in values, marks[v[1]] # 0, marks[v[1]] < v[2],
                      v[2] <= cutoff'
               PROVE  v \in unread'
    BY <1>1 DEF RangeIsUnread, series
  <2>1. v[1] \in Tags /\ v[2] \in Nat BY <1>3 DEF GapTypeOK
  <2>2. marks[v[1]] \in Nat BY <1>3, <2>1 DEF GapTypeOK
  <2>3. ~(marks[v[1]] >= cutoff') /\ marks[v[1]] <= v[2]
    BY <1>3, <2>1, <2>2
  <2>4. v \in Range(v[1], cutoff') BY <2>3 DEF Range, Of
  <2> QED BY <1>4, <2>1, <2>4
<1> QED BY <1>1, <1>3, <1>6, <1>8, <1>9, <1>10, <1>11 DEF series

\* A new item reports the current value.  What came before it is held, in the
\* range, or given up here: it is newer than the watermark, which is a row.
LEMMA SubscribeInv ==
    ASSUME NEW t \in Tags PROVE GapInv /\ Subscribe(t) => GapInv'
<1> SUFFICES ASSUME GapInv, Subscribe(t) PROVE GapInv' OBVIOUS
<1> USE DEF GapInv
<1> DEFINE current == Newest(Of(t, values))
           past == Of(t, values) \ (current \cup Held \cup unread)
<1>1. /\ UNCHANGED <<series, table, disk, sess, marks, cutoff, sessions,
                     reading, counted, cancelled, killed, faults>>
      /\ sess = "subscribing"
      /\ monitored' = monitored \cup {t}
      /\ mem' = mem \cup current
  BY DEF Subscribe
<1>2. /\ marks[t] = 0 => unmarked' = unmarked \cup past /\ window' = window
      /\ marks[t] # 0 => /\ window' = window \cup {v \in past : v[2] > cutoff}
                         /\ unmarked' = unmarked
  BY DEF Subscribe
<1>3. current \subseteq values /\ \A u \in current : u[1] = t
  BY NewestOf
<1>4. past \subseteq values BY DEF Of
<1>5. Held' = Held \cup current BY <1>1 DEF Held
<1>6. GivenUp \subseteq GivenUp' /\ GivenUp' \subseteq GivenUp \cup past
  BY <1>1, <1>2 DEF GivenUp
<1>7. GapTypeOK'
  BY <1>1, <1>3, <1>4, <1>5, <1>6 DEF GapTypeOK, series, reading
<1>8. ASSUME NEW v \in values PROVE Accounted(v)'
  <2>1. CASE v[1] # t
    <3>1. Ahead(v) => Ahead(v)' BY <1>3, <1>5, <2>1 DEF Ahead
    <3> QED BY <1>1, <1>5, <1>6, <2>1, <3>1 DEF Accounted, reading
  <2>2. CASE v[1] = t /\ v \in Held \cup current \cup GivenUp \cup unread
    BY <1>1, <1>5, <1>6, <2>2 DEF Accounted, reading
  <2>3. CASE v[1] = t /\ v \notin Held \cup current \cup GivenUp \cup unread
    <3>1. v \in past BY <2>3 DEF Of
    <3>2. CASE marks[t] = 0
      BY <1>2, <3>1, <3>2 DEF Accounted, GivenUp
    <3>3. CASE marks[t] # 0
      <4>1. <<t, marks[t]>> \in Held BY <1>1, <3>3 DEF MarksAreRows, Held
      <4>2. marks[v[1]] < v[2]
        BY <2>3, <4>1 DEF Accounted, Ahead
      <4>3. ~(v[2] <= cutoff)
        BY <1>1, <2>3, <3>3, <4>2 DEF RangeIsUnread
      <4>4. v[2] > cutoff
        <5>1. v[2] \in Nat /\ cutoff \in Nat BY GapAssumption DEF GapTypeOK, Tags
        <5> QED BY <4>3, <5>1
      <4>5. v \in window' BY <1>2, <3>1, <3>3, <4>4
      <4> QED BY <4>5 DEF Accounted, GivenUp
    <3> QED BY <3>2, <3>3
  <2> QED BY <2>1, <2>2, <2>3
<1>9. \A v \in values' : Accounted(v)' BY <1>1, <1>8 DEF series
<1>10. MarksAreRows' BY <1>1 DEF MarksAreRows
<1>11. cutoff' <= clock' /\ RangeIsUnread'
  BY <1>1 DEF RangeIsUnread, series, reading
<1> QED BY <1>1, <1>7, <1>9, <1>10, <1>11

\* The history task starts with every tag monitored.
LEMMA StartRecoveryInv == GapInv /\ StartRecovery => GapInv'
<1> SUFFICES ASSUME GapInv, StartRecovery PROVE GapInv' OBVIOUS
<1> USE DEF GapInv
<1>1. /\ UNCHANGED <<series, store, marks, cutoff, monitored, sessions, unread,
                     fate, faults>>
      /\ sess = "subscribing" /\ sess' = "live" /\ monitored = Tags
      /\ todo' \subseteq Tags
  BY DEF StartRecovery
<1>2. Held' = Held /\ GivenUp' = GivenUp
  BY <1>1 DEF Held, GivenUp, store, fate
<1>3. GapTypeOK' BY <1>1, <1>2 DEF GapTypeOK, series, Stages
<1>4. \A v \in values' : Accounted(v)'
  BY <1>1, <1>2 DEF Accounted, Ahead, series
<1>5. MarksAreRows' BY <1>1 DEF MarksAreRows, store
<1> QED BY <1>1, <1>3, <1>4, <1>5

\* What a history read is asked for it returns to the queue, or it is counted.
LEMMA RecoverInv == GapInv /\ Recover => GapInv'
<1> SUFFICES ASSUME GapInv, Recover PROVE GapInv' OBVIOUS
<1> USE DEF GapInv
<1>1. PICK t \in todo : ReadPage(t) \/ GiveUp(t) BY DEF Recover
<1>2. sess = "live" /\ monitored = Tags BY DEF Recover
<1>3. /\ UNCHANGED <<series, table, disk, session>>
      /\ todo' \subseteq todo
      /\ unread' \subseteq unread
      /\ mem \subseteq mem' /\ mem' \subseteq mem \cup unread
      /\ counted \subseteq counted' /\ counted' \subseteq counted \cup unread
      /\ UNCHANGED <<window, unmarked, cancelled, killed>>
      /\ unread \subseteq unread' \cup mem' \cup counted'
      /\ faults' \in 0..MaxFaults
  <2>1. CASE ReadPage(t)
    BY <2>1 DEF ReadPage, Of, fate, store, GapTypeOK
  <2>2. CASE GiveUp(t)
    BY <2>2, GapAssumption
    DEF GiveUp, Of, store, Fault, NoFault, GapTypeOK
  <2> QED BY <1>1, <2>1, <2>2
<1>4. Held \subseteq Held' /\ Held' \subseteq Held \cup unread
      /\ mem' \subseteq Held'
  BY <1>3 DEF Held
<1>5. GivenUp \subseteq GivenUp' /\ GivenUp' \subseteq GivenUp \cup unread
      /\ counted' \subseteq GivenUp'
  BY <1>3 DEF GivenUp
<1>6. GapTypeOK'
  BY <1>2, <1>3, <1>4, <1>5 DEF GapTypeOK, series, session
<1>7. \A v \in values' : Accounted(v)'
  <2> SUFFICES ASSUME NEW v \in values PROVE Accounted(v)'
    BY <1>3 DEF series
  <2>1. v[1] \in monitored BY <1>2 DEF GapTypeOK
  <2> QED BY <1>3, <1>4, <1>5, <2>1 DEF Accounted, session
<1>8. MarksAreRows' BY <1>2, <1>3 DEF MarksAreRows, session
<1> QED BY <1>2, <1>3, <1>6, <1>7, <1>8 DEF session

\* What the end of a session or of the process costs is remembered; of a tag
\* not yet monitored the next session reads on from the same watermark.
LEMMA EndInv == GapInv /\ (Lose \/ Kill) => GapInv'
<1> SUFFICES ASSUME GapInv, Lose \/ Kill PROVE GapInv' OBVIOUS
<1> USE DEF GapInv
<1>1. /\ monitored' = {} /\ unread' = {} /\ todo' = {}
      /\ cancelled' = cancelled \cup {v \in unread \ Held : v[1] \in monitored}
      /\ UNCHANGED <<series, table, disk, marks, cutoff, sessions, counted,
                     window, unmarked>>
      /\ sess' \in {"closing", "down"}
  BY DEF Lose, Kill, DropReads, store
<1>2. /\ mem' \subseteq mem
      /\ killed \subseteq killed' /\ killed' \subseteq killed \cup mem
      /\ mem \subseteq mem' \cup killed' \cup table' \cup disk'
      /\ faults' \in 0..MaxFaults
  <2>1. CASE Lose BY <2>1 DEF Lose, store, GapTypeOK
  <2>2. CASE Kill
    BY <2>2, GapAssumption DEF Kill, Fault, GapTypeOK
  <2> QED BY <2>1, <2>2
<1>3. Held' \subseteq Held /\ Held \subseteq Held' \cup killed'
  BY <1>1, <1>2 DEF Held
<1>4. /\ GivenUp \subseteq GivenUp'
      /\ GivenUp' \subseteq GivenUp \cup unread \cup Held
      /\ killed' \cup cancelled' \subseteq GivenUp'
  BY <1>1, <1>2 DEF GivenUp, Held
<1>5. GapTypeOK'
  BY <1>1, <1>2, <1>3, <1>4 DEF GapTypeOK, series, Stages
<1>6. \A v \in values' : Accounted(v)'
  <2> SUFFICES ASSUME NEW v \in values PROVE Accounted(v)'
    BY <1>1 DEF series
  <2>1. CASE v \in Held BY <1>3, <1>4, <2>1 DEF Accounted
  <2>2. CASE v \in GivenUp BY <1>4, <2>2 DEF Accounted
  <2>3. CASE v \in unread \ Held /\ v[1] \in monitored
    BY <1>1, <1>4, <2>3 DEF Accounted
  <2>4. CASE Ahead(v) /\ v[1] \notin monitored
    BY <1>1, <1>3, <2>4 DEF Accounted, Ahead
  <2> QED BY <2>1, <2>2, <2>3, <2>4 DEF Accounted
<1> QED BY <1>1, <1>5, <1>6
-----------------------------------------------------------------------------
LEMMA GapNext == GapInv /\ [Next]_vars => GapInv'
<1> SUFFICES ASSUME GapInv, [Next]_vars PROVE GapInv' OBVIOUS
<1>1. CASE \E t \in Tags : Change(t) BY <1>1, ChangeInv
<1>2. CASE Pipeline BY <1>2, PipelineInv
<1>3. CASE Setup
  BY <1>3, StartInv, CutoffInv, SubscribeInv, StartRecoveryInv DEF Setup
<1>4. CASE Recover BY <1>4, RecoverInv
<1>5. CASE Lose \/ Kill BY <1>5, EndInv
<1>6. CASE Close BY <1>6, StartInv
<1>7. CASE UNCHANGED vars
  <2>1. UNCHANGED <<clock, values, table, disk, mem, sess, marks, cutoff,
                    monitored, sessions, unread, todo, counted, window,
                    unmarked, cancelled, killed, faults>>
    BY <1>7 DEF vars, series, store, session, reading, fate
  <2>2. Held' = Held /\ GivenUp' = GivenUp BY <2>1 DEF Held, GivenUp
  <2>3. GapTypeOK' BY <2>1, <2>2 DEF GapInv, GapTypeOK
  <2>4. \A v \in values' : Accounted(v)'
    BY <2>1, <2>2 DEF GapInv, Accounted, Ahead
  <2> QED
    BY <2>1, <2>3, <2>4 DEF GapInv, MarksAreRows, RangeIsUnread
<1> QED BY <1>1, <1>2, <1>3, <1>4, <1>5, <1>6, <1>7 DEF Next

LEMMA GapAlways == Spec => []GapInv
BY GapInit, GapNext, PTL DEF Spec

\* Every variable has its type in every reachable state.
THEOREM GapTypeCorrect == Spec => []GapTypeOK
<1>1. GapInv => GapTypeOK BY DEF GapInv
<1> QED BY <1>1, GapAlways, PTL

\* The series of a tag has a hole for the five reasons only, however many
\* sessions, whatever fails and in whatever order values are saved.
THEOREM HolesHaveReasons == Spec => []HolesAreExplained
<1>1. GapInv => HolesAreExplained BY AccountedHoles DEF GapInv
<1> QED BY <1>1, GapAlways, PTL

\* History read and subscription meet at the cutoff.
THEOREM GapIsCovered == Spec => []NothingBetween
<1>1. GapInv => NothingBetween
  <2> SUFFICES ASSUME GapInv, sess = "live", NEW v \in values
               PROVE  v \in Pending \cup GivenUp
    BY DEF NothingBetween
  <2>1. v[1] \in monitored BY DEF GapInv, GapTypeOK
  <2> QED BY <2>1 DEF GapInv, Accounted, Pending
<1> QED BY <1>1, GapAlways, PTL

=============================================================================
