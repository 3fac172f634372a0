---------------------------- MODULE SegmentFile ----------------------------
(***************************************************************************)
(* One segment of the disk spill (connector/db/spill.py): a JSON-Lines     *)
(* file that is appended to, truncated after a failed write and read       *)
(* forward, line by line, from a byte offset.                              *)
(*                                                                         *)
(* Bytes are abstracted to half records.  A record's line is two units,    *)
(* <<r, 1>> (its text) and <<r, 2>> (its end, with the newline), and a     *)
(* file is the sequence of the units that reached it.  That is enough to   *)
(* say what the code can meet on disk: a whole line, a line torn by a      *)
(* write that stopped half way, the rest of a line read from an offset in  *)
(* its middle, and two lines glued together because the first was torn.    *)
(* Offsets and sizes are counted in units.                                 *)
(***************************************************************************)
EXTENDS Naturals, Sequences

Units(Rec) == Rec \X {1, 2}

\* The text of a batch: the lines of its records, one after the other.
Blob(batch) ==
    [i \in 1..(2 * Len(batch)) |->
        <<batch[(i + 1) \div 2], IF i % 2 = 1 THEN 1 ELSE 2>>]

\* The first n units of a file, and what is left after them.
Upto(file, n) == SubSeq(file, 1, n)
From(file, n) == SubSeq(file, n + 1, Len(file))

\* Mutant: one unit too many is cut.
TruncateMore(file, offset) ==
    IF offset < Len(file) THEN Upto(file, offset - 1) ELSE file

\* truncate(offset): cuts a longer file; a file is never extended here,
\* because the offset given to truncate() is at most the flushed size.
Truncate(file, offset) ==
    IF offset < Len(file) THEN Upto(file, offset) ELSE file

\* The ends of the lines a reader that starts at offset `start` can decode:
\* both halves of one record, and nothing else, between two newlines.
Whole(file, start) ==
    {e \in (start + 2)..Len(file) :
        /\ file[e][2] = 2
        /\ file[e - 1] = <<file[e][1], 1>>
        /\ \/ e - 2 = start
           \/ file[e - 2][2] = 2}

\* The records on those lines.
Readable(file, start) == {file[e][1] : e \in Whole(file, start)}
=============================================================================
