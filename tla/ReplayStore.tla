---------------------------- MODULE ReplayStore ----------------------------
(***************************************************************************)
(* What the disk spill promises to the rest of the connector, with no      *)
(* files, queues or threads: a store of records that lends them, one batch *)
(* at a time, to a leader who inserts them into the database, and that     *)
(* lets go of a record only when it is in the database or given up in the  *)
(* open.  At least once, never silently.                                   *)
(***************************************************************************)
EXTENDS FiniteSets

CONSTANT Rec

VARIABLES
    held,       \* records the store answers for
    lent,       \* the batch the leader is inserting, {} for none
    committed,  \* records in the database
    givenUp     \* records whose loss has been reported

storeVars == <<held, lent, committed, givenUp>>

StoreInit == held = {} /\ lent = {} /\ committed = {} /\ givenUp = {}

Accept(r) ==
    /\ r \notin held
    /\ held' = held \cup {r}
    /\ UNCHANGED <<lent, committed, givenUp>>

\* Only records it still answers for, and never two batches at a time.
Lend(batch) ==
    /\ lent = {}
    /\ batch # {}
    /\ batch \subseteq held
    /\ lent' = batch
    /\ UNCHANGED <<held, committed, givenUp>>

\* The leader ends its insert: the rows are in, or they are not.
EndInsert ==
    /\ lent # {}
    /\ lent' = {}
    /\ committed' \in {committed, committed \cup lent}
    /\ UNCHANGED <<held, givenUp>>

\* The store forgets records of the database, or gives records up.
Forget(recs) ==
    /\ recs \subseteq held \cap (committed \cup givenUp)
    /\ held' = held \ recs
    /\ UNCHANGED <<lent, committed, givenUp>>

\* What is given up may be forgotten at once, or later.
GiveUp(recs) ==
    /\ recs \subseteq held
    /\ givenUp' = givenUp \cup recs
    /\ held' \subseteq held /\ held \ recs \subseteq held'
    /\ UNCHANGED <<lent, committed>>

\* The process ends: nothing is lent any more, and what only its memory held
\* is given up, unless the database has it.
Die(recs) ==
    /\ recs \subseteq held
    /\ lent' = {}
    /\ givenUp' = givenUp \cup (recs \ committed)
    /\ held' = held \ recs
    /\ UNCHANGED committed

StoreNext ==
    \/ \E r \in Rec : Accept(r)
    \/ \E batch \in SUBSET Rec :
           Lend(batch) \/ Forget(batch) \/ GiveUp(batch) \/ Die(batch)
    \/ EndInsert

StoreSpec == StoreInit /\ [][StoreNext]_storeVars
=============================================================================
