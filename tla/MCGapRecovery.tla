--------------------------- MODULE MCGapRecovery ---------------------------
(* Instances of GapRecovery for TLC: the .cfg files give the constants.    *)
EXTENDS GapRecovery
=============================================================================
