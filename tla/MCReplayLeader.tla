--------------------------- MODULE MCReplayLeader ---------------------------
(* ReplayLeader for TLC; the records are model values. *)
EXTENDS ReplayLeader
=============================================================================
