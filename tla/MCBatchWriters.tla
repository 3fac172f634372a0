--------------------------- MODULE MCBatchWriters ---------------------------
(* Small instances of BatchWriters for TLC.                                *)
EXTENDS BatchWriters
=============================================================================
