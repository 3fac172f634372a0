---------------------------- MODULE MCDiscovery ----------------------------
(***************************************************************************)
(* Instances of Discovery for TLC: the root 0, two more objects and three  *)
(* variables, in address spaces with cycles through the root and between   *)
(* objects, nodes with two parents, an object with a long and a short path *)
(* to it, and nodes out of reach.  With a depth of 2 only the last one can *)
(* be too deep: its object 2, if 1 is looked at first.                     *)
(***************************************************************************)
EXTENDS Discovery

MCObjects == {0, 1, 2}
MCVariables == {3, 4, 5}

Space(a, b, d) == [o \in MCObjects |-> CASE o = 0 -> a [] o = 1 -> b [] o = 2 -> d]

MCSpaces == {
    Space({1, 2, 3}, {2, 4}, {5}),          \* 2 by a long and a short path
    Space({1, 5}, {0, 3}, {4}),             \* through the root; 4 out of reach
    Space({1, 2}, {2, 4}, {1, 4, 5}),       \* between objects; 4 listed twice
    Space({1, 2}, {0, 3}, {4}) }            \* 2 again, below the root below 1

MCFlat == {Space({3, 4, 5}, {}, {})}
=============================================================================
