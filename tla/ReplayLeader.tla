---------------------------- MODULE ReplayLeader ----------------------------
(***************************************************************************)
(* SpillBuffer with what decides in connector/db/writer.py whether its     *)
(* replay leader asks at all: BatchWriter._db_healthy of writer 0.  Every  *)
(* insert of that writer sets it, a replayed batch as well as one of its   *)
(* own queue, and _replay_spill does nothing while it is FALSE.            *)
(***************************************************************************)
EXTENDS SpillBuffer

VARIABLE dbHealthy  \* _db_healthy of writer 0

replayVars == <<vars, dbHealthy>>

Keeps(step) == step /\ UNCHANGED dbHealthy
-----------------------------------------------------------------------------
\* _replay_spill asks the spill only while the last insert went well,
Asks == dbHealthy /\ Keeps(Ask)

\* and notes how the insert of the batch it got ended.
Replays == CommitOk /\ dbHealthy' = TRUE
ReplayFails == CommitFails /\ dbHealthy' = FALSE

\* Between two replays the leader inserts values of its own queue, if any
\* arrive.  The new leader of the next session starts healthy as well.
OwnInsert ==
    /\ cpc = "idle"
    /\ dbHealthy' = TRUE
    /\ UNCHANGED vars

OwnInsertFails ==
    /\ cpc = "idle"
    /\ Fault("commit")
    /\ dbHealthy' = FALSE
    /\ UNCHANGED <<loopSide, worker, dropped>>

LeaderInit == Init /\ dbHealthy = TRUE

LeaderNext ==
    \/ Asks \/ Replays \/ ReplayFails \/ OwnInsert \/ OwnInsertFails
    \/ Keeps(Resume \/ DrainTimeout \/ Loop \/ Worker \/ Terminated)
    \/ (LeaderCancelled \/ Process) /\ dbHealthy' = TRUE

LeaderSpec == LeaderInit /\ [][LeaderNext]_replayVars
-----------------------------------------------------------------------------
(* Liveness.                                                               *)

\* The worker thread runs; its backoff elapses (it is capped at five
\* seconds); it finds the control queue empty now and then, because the
\* leader awaits its own queue between two drains; the loop runs the leader,
\* which asks after an empty queue.get() too; and a started insert ends.
\* Nothing is assumed of the values that arrive, so not of OwnInsert either.
Fairness ==
    /\ WF_replayVars(Keeps(Worker))
    /\ SF_replayVars(Keeps(WRetryDue))
    /\ SF_replayVars(Keeps(WServed))
    /\ WF_replayVars(Asks)
    /\ WF_replayVars(Keeps(Resume))
    /\ WF_replayVars(Replays)

FairSpec == LeaderSpec /\ Fairness

\* "los datos se reinyectan al recuperar la BD" (README.md), where the leader
\* notices: if its _db_healthy keeps coming back, whatever is accepted gets
\* into the database or is counted, unless the process ends first.
EventuallyReplayed ==
    []<>dbHealthy =>
        \A r \in Rec :
            r \in accepted ~> (r \in db \cup dropped \cup lost \/ closed)

\* close() always ends the worker, whatever the leader does.
WorkerStops == closed ~> (wpc = "done" \/ ~closed)
=============================================================================
