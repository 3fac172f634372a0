--------------------------- MODULE MCSpillBuffer ---------------------------
(* SpillBuffer for TLC: the records are interchangeable model values, those *)
(* that can be encoded and those that cannot each among themselves.         *)
EXTENDS SpillBuffer, TLC

RecSymmetry ==
    Permutations(Rec \ Unserializable) \cup Permutations(Unserializable)
=============================================================================
