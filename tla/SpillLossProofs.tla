-------------------------- MODULE SpillLossProofs --------------------------
(***************************************************************************)
(* What becomes of a record: no acked offset covers one that is not in the *)
(* database, none that was accepted vanishes without a trace, and the      *)
(* spill implements the abstract ReplayStore.  For every value of the      *)
(* constants of SpillBuffer, as long as the file object passes on what it  *)
(* is given (CleanDisk of SpillSafetyProofs).  And, in every behaviour as  *)
(* long as nothing fails in it, no record is delivered twice.              *)
(***************************************************************************)
EXTENDS SpillSafetyProofs

-----------------------------------------------------------------------------
(* What a drain lends.                                                     *)

\* The files a drain reads: the contents of the segments.
Reads(fs) ==
    /\ DOMAIN fs = DOMAIN files
    /\ \A s \in DOMAIN files : fs[s] = Content(s)

LEMMA LinesAre ==
    ASSUME TypeInv, FileInv, wpc # "start", NEW fs, Reads(fs)
    PROVE  Lines(fs) = UNION {{s} \X Whole(fs[s], acks[s]) : s \in DOMAIN files}
<1>1. \A s \in DOMAIN files : /\ acks[s] \in Nat /\ fs[s] \in Seq(Units(Rec))
                              /\ SizeIn(fs, s) = Len(fs[s])
  <2>1. TAKE s \in DOMAIN files
  <2>2. fs[s] \in Seq(Units(Rec)) /\ fs[s] = Content(s)
    BY ContentType DEF Reads
  <2>3. s = cur => curSize = Len(Content(cur)) BY DEF FileInv
  <2> QED BY <2>2, <2>3 DEF SizeIn, TypeInv, TypeOK, DiskTypes
<1>2. ASSUME NEW s \in DOMAIN files, Whole(fs[s], acks[s]) # {}
      PROVE  SizeIn(fs, s) > acks[s]
  <2>1. PICK e : e \in (acks[s] + 2)..Len(fs[s]) BY <1>2 DEF Whole
  <2>2. acks[s] \in Nat /\ Len(fs[s]) \in Nat BY <1>1
  <2> QED BY <1>1, <2>1, <2>2
<1>3. DOMAIN fs = DOMAIN files BY DEF Reads
<1>4. ASSUME NEW p \in Lines(fs)
      PROVE  p \in UNION {{s} \X Whole(fs[s], acks[s]) : s \in DOMAIN files}
  BY <1>3, <1>4 DEF Lines
<1>5. ASSUME NEW s \in DOMAIN files, NEW p \in {s} \X Whole(fs[s], acks[s])
      PROVE  p \in Lines(fs)
  <2>1. Whole(fs[s], acks[s]) # {} BY <1>5
  <2>2. s \in {x \in DOMAIN fs : SizeIn(fs, x) > acks[x]} BY <1>2, <1>3, <2>1
  <2> QED BY <1>5, <2>2 DEF Lines
<1> QED BY <1>4, <1>5

LEMMA LinesFinite ==
    ASSUME TypeInv, FileInv, wpc # "start", NEW fs, Reads(fs)
    PROVE  IsFiniteSet(Lines(fs))
<1> DEFINE f == [s \in DOMAIN files |-> {s} \X Whole(fs[s], acks[s])]
           F == {f[s] : s \in DOMAIN files}
<1>1. Lines(fs) = UNION F BY LinesAre
<1>2. IsFiniteSet(DOMAIN files)
  <2>1. DOMAIN files \subseteq 1..cur /\ cur \in Nat
    BY DEF TypeInv, TypeOK, DiskTypes, Segments
  <2>2. IsFiniteSet(1..cur) BY <2>1, FS_Interval
  <2> QED BY <2>1, <2>2, FS_Subset
<1>3. f \in Surjection(DOMAIN files, F) BY DEF Surjection
<1>4. IsFiniteSet(F) BY <1>2, <1>3, FS_Surjection
<1>5. \A s \in DOMAIN files : IsFiniteSet(f[s])
  <2>1. TAKE s \in DOMAIN files
  <2>2. fs[s] \in Seq(Units(Rec)) /\ acks[s] \in Nat
    BY ContentType DEF Reads, TypeInv, TypeOK, DiskTypes
  <2>3. Whole(fs[s], acks[s]) \subseteq 1..Len(fs[s]) BY <2>2, WholeType
  <2>4. Len(fs[s]) \in Nat BY <2>2
  <2>f. IsFiniteSet(1..Len(fs[s])) BY <2>4, FS_Interval
  <2>5. IsFiniteSet(Whole(fs[s], acks[s])) BY <2>3, <2>f, FS_Subset
  <2>6. IsFiniteSet({s}) BY FS_Singleton
  <2> QED BY <2>5, <2>6, FS_Product
<1> HIDE DEF f
<1> QED BY <1>1, <1>4, <1>5, FS_UNION

\* Ranks grow with the order in which the lines are read.
LEMMA Ranks ==
    ASSUME TypeInv, FileInv, wpc # "start", NEW fs, Reads(fs),
           NEW s \in DOMAIN files, NEW d, NEW e,
           d \in Whole(fs[s], acks[s]), e \in Whole(fs[s], acks[s]), d < e
    PROVE  /\ Cardinality(LinesBefore(fs, <<s, d>>)) \in Nat
           /\ Cardinality(LinesBefore(fs, <<s, e>>)) \in Nat
           /\ Cardinality(LinesBefore(fs, <<s, d>>))
                  <= Cardinality(LinesBefore(fs, <<s, e>>))
<1>1. IsFiniteSet(Lines(fs)) BY LinesFinite
<1>2. \A p : LinesBefore(fs, p) \subseteq Lines(fs) BY DEF LinesBefore
<1>3. /\ IsFiniteSet(LinesBefore(fs, <<s, d>>))
      /\ IsFiniteSet(LinesBefore(fs, <<s, e>>))
  BY <1>1, <1>2, FS_Subset
<1>4. \A q \in Lines(fs) : q[2] \in Nat
  <2>1. ASSUME NEW q \in Lines(fs) PROVE q[2] \in Nat
    <3>1. PICK x \in DOMAIN files : q \in {x} \X Whole(fs[x], acks[x])
      BY <2>1, LinesAre
    <3>2. fs[x] \in Seq(Units(Rec)) /\ acks[x] \in Nat
      BY ContentType DEF Reads, TypeInv, TypeOK, DiskTypes
    <3>3. Whole(fs[x], acks[x]) \subseteq 1..Len(fs[x]) BY <3>2, WholeType
    <3> QED BY <3>1, <3>3
  <2> QED BY <2>1
<1>5. d \in Nat /\ e \in Nat
  <2>1. fs[s] \in Seq(Units(Rec)) /\ acks[s] \in Nat
    BY ContentType DEF Reads, TypeInv, TypeOK, DiskTypes
  <2>2. Whole(fs[s], acks[s]) \subseteq 1..Len(fs[s]) BY <2>1, WholeType
  <2> QED BY <2>2
<1>6. LinesBefore(fs, <<s, d>>) \subseteq LinesBefore(fs, <<s, e>>)
  BY <1>4, <1>5 DEF LinesBefore
<1> QED BY <1>3, <1>6, FS_Subset, FS_CardinalityType

\* A drain that delivers a line of a segment and no line of that segment
\* completes the batch delivers every line of it.
LEMMA AllDelivered ==
    ASSUME TypeInv, FileInv, wpc # "start", NEW fs, Reads(fs),
           NEW s \in DOMAIN files, NEW d, NEW e,
           <<s, d>> \in Delivered(fs), e \in Whole(fs[s], acks[s]),
           \A last \in Completing(fs) : last[1] # s
    PROVE  <<s, e>> \in Delivered(fs)
<1> DEFINE W == Whole(fs[s], acks[s])
           rank(x) == Cardinality(LinesBefore(fs, <<s, x>>))
           U == {x \in W : ~(rank(x) < BatchSize)}
<1>t. fs[s] \in Seq(Units(Rec)) /\ acks[s] \in Nat /\ BatchSize \in Nat \ {0}
  BY ContentType, ConstantsAssumption DEF Reads, TypeInv, TypeOK, DiskTypes
<1>w. W \in SUBSET Nat
  <2>1. W \subseteq 1..Len(fs[s]) BY <1>t, WholeType
  <2> QED BY <2>1
<1>l. \A x \in W : <<s, x>> \in Lines(fs) BY LinesAre
<1>d. d \in W /\ rank(d) < BatchSize
  <2>1. <<s, d>> \in Lines(fs) /\ rank(d) < BatchSize BY DEF Delivered
  <2>2. PICK x \in DOMAIN files : <<s, d>> \in {x} \X Whole(fs[x], acks[x])
    BY <2>1, LinesAre
  <2> QED BY <2>1, <2>2
<1>1. SUFFICES ASSUME U # {} PROVE FALSE BY <1>l DEF Delivered
\* The first line that is not delivered, and the one before it.
<1>2. PICK u \in U : \A k \in U : u <= k
  <2>1. U \in SUBSET Nat BY <1>w
  <2> QED BY <1>1, <2>1, Least
<1>3. u \in W /\ ~(rank(u) < BatchSize) OBVIOUS
<1>4. d < u
  <2>1. d # u BY <1>d, <1>3
  <2>2. ~(u < d)
    <3>1. SUFFICES ASSUME u < d PROVE FALSE OBVIOUS
    <3>2. rank(u) \in Nat /\ rank(d) \in Nat /\ rank(u) <= rank(d)
      BY <1>3, <1>d, <3>1, Ranks
    <3> QED BY <1>d, <1>t, <1>3, <3>2
  <2> QED BY <1>d, <1>3, <1>w, <2>1, <2>2
<1> DEFINE T == {x \in W : x < u}
<1>5. PICK c \in T : \A k \in T : k <= c
  <2>1. u \in Nat /\ T \in SUBSET (0..u) BY <1>w, <1>3
  <2>2. T # {} BY <1>d, <1>4
  <2> QED BY <2>1, <2>2, Greatest
<1>6. c \in W /\ c < u /\ c \in Nat /\ u \in Nat BY <1>5, <1>w, <1>3
<1>7. rank(c) < BatchSize
  <2>1. c \notin U BY <1>2, <1>6
  <2> QED BY <1>6, <2>1
<1>8. LinesBefore(fs, <<s, u>>) = LinesBefore(fs, <<s, c>>) \cup {<<s, c>>}
  <2>1. ASSUME NEW q \in LinesBefore(fs, <<s, u>>)
        PROVE  q \in LinesBefore(fs, <<s, c>>) \cup {<<s, c>>}
    <3>1. q \in Lines(fs) /\ (q[1] < s \/ (q[1] = s /\ q[2] < u))
      BY <2>1 DEF LinesBefore
    <3>2. CASE q[1] < s BY <3>1, <3>2 DEF LinesBefore
    <3>3. CASE q[1] = s /\ q[2] < u
      <4>1. PICK x \in DOMAIN files : q \in {x} \X Whole(fs[x], acks[x])
        BY <3>1, LinesAre
      <4>2. q = <<s, q[2]>> /\ q[2] \in W BY <3>3, <4>1
      <4>3. q[2] \in T /\ q[2] \in Nat BY <1>w, <3>3, <4>2
      <4>4. q[2] <= c BY <1>5, <4>3
      <4>5. q[2] = c \/ q[2] < c BY <1>6, <4>3, <4>4
      <4> QED BY <3>1, <3>3, <4>2, <4>5 DEF LinesBefore
    <3> QED BY <3>1, <3>2, <3>3
  <2>2. <<s, c>> \in LinesBefore(fs, <<s, u>>)
    BY <1>6, <1>l DEF LinesBefore
  <2>3. ASSUME NEW q \in LinesBefore(fs, <<s, c>>)
        PROVE  q \in LinesBefore(fs, <<s, u>>)
    <3>1. q \in Lines(fs) /\ (q[1] < s \/ (q[1] = s /\ q[2] < c))
      BY <2>3 DEF LinesBefore
    <3>2. q[1] = s => q[2] \in Nat
      <4>1. PICK x \in DOMAIN files : q \in {x} \X Whole(fs[x], acks[x])
        BY <3>1, LinesAre
      <4> QED BY <1>w, <4>1
    <3> QED BY <1>6, <3>1, <3>2 DEF LinesBefore
  <2> QED BY <2>1, <2>2, <2>3
<1>9. rank(u) = rank(c) + 1
  <2>1. IsFiniteSet(LinesBefore(fs, <<s, c>>))
    <3>1. IsFiniteSet(Lines(fs)) BY LinesFinite
    <3>2. LinesBefore(fs, <<s, c>>) \subseteq Lines(fs) BY DEF LinesBefore
    <3> QED BY <3>1, <3>2, FS_Subset
  <2>2. <<s, c>> \notin LinesBefore(fs, <<s, c>>)
    <3>1. s \in Nat
      BY DEF TypeInv, TypeOK, DiskTypes, Segments
    <3> QED BY <1>6, <3>1 DEF LinesBefore
  <2> QED BY <1>8, <2>1, <2>2, FS_AddElement
<1>10. rank(c) \in Nat /\ rank(u) \in Nat BY <1>3, <1>6, Ranks
<1>11. rank(c) = BatchSize - 1 BY <1>t, <1>3, <1>7, <1>9, <1>10
<1>12. <<s, c>> \in Completing(fs) BY <1>6, <1>11, <1>l DEF Completing
<1> QED BY <1>12
-----------------------------------------------------------------------------
(* What an offset covers.                                                  *)

\* An offset is at the start or the end of the text, or behind a newline.
Aligned(text, offset) ==
    offset = 0 \/ offset = Len(text) \/ text[offset][2] = 2

\* The whole lines of a text that an offset reaches into are of these records.
Covers(text, offset, recs) ==
    /\ Aligned(text, offset)
    /\ \A e \in Whole(text, 0) : e <= offset + 1 => text[e][1] \in recs

LEMMA CoversMore ==
    ASSUME NEW text, NEW a, NEW R, NEW S, Covers(text, a, R), R \subseteq S
    PROVE  Covers(text, a, S)
BY DEF Covers

\* A whole line behind an offset can be read from that offset.
LEMMA WholeFromStart ==
    ASSUME NEW text \in Seq(Units(Rec)), NEW a \in Nat, NEW e \in Whole(text, 0),
           ~(e <= a + 1)
    PROVE  e \in Whole(text, a)
<1>1. Len(text) \in Nat BY LenProperties
<1>2. e \in 2..Len(text) BY <1>1 DEF Whole
<1>3. e \in (a + 2)..Len(text) BY <1>1, <1>2
<1>4. /\ text[e][2] = 2 /\ text[e - 1] = <<text[e][1], 1>>
      /\ e - 2 = 0 \/ text[e - 2][2] = 2
  BY DEF Whole
<1>5. e - 2 = 0 => e - 2 = a BY <1>1, <1>3
<1> QED BY <1>3, <1>4, <1>5 DEF Whole

\* The line that ends at the unit before it would be torn.
LEMMA NoLineAcross ==
    ASSUME NEW text, NEW e \in Whole(text, 0), text[e - 1][2] = 2
    PROVE  FALSE
BY DEF Whole

\* A line after a text that ends with a whole line reaches into no offset
\* inside that text.
LEMMA CoversAppend ==
    ASSUME NEW text \in Seq(Units(Rec)), NEW more \in Seq(Units(Rec)),
           EndsLine(text), NEW a \in Nat, a <= Len(text), NEW S,
           Covers(text, a, S)
    PROVE  Covers(text \o more, a, S)
<1> DEFINE both == text \o more
           n == Len(text)
<1>1. /\ Len(both) = n + Len(more) /\ n \in Nat /\ Len(more) \in Nat
      /\ \A i \in 1..n : both[i] = text[i]
  <2>1. /\ Len(both) = Len(text) + Len(more)
        /\ \A i \in 1..(Len(text) + Len(more)) :
               both[i] = IF i <= Len(text) THEN text[i] ELSE more[i - Len(text)]
    BY ConcatProperties
  <2>2. Len(text) \in Nat /\ Len(more) \in Nat BY LenProperties
  <2> QED BY <2>1, <2>2
<1>2. EndsLine(text) => n = 0 \/ text[n][2] = 2
  <2>1. Len(<<>>) = 0 OBVIOUS
  <2> QED BY <1>1, <2>1 DEF EndsLine
<1>3. a <= n BY DEF n
<1> HIDE DEF both, n
<1>4. ASSUME NEW e \in Whole(both, 0), e <= a + 1 PROVE both[e][1] \in S
  <2>1. /\ e \in 2..Len(both) /\ both[e][2] = 2
        /\ both[e - 1] = <<both[e][1], 1>>
        /\ e - 2 = 0 \/ both[e - 2][2] = 2
    BY <1>1 DEF Whole
  <2>2. CASE e <= n
    <3>1. e \in 2..n /\ e \in 1..n /\ e - 1 \in 1..n BY <1>1, <2>1, <2>2
    <3>2. both[e] = text[e] /\ both[e - 1] = text[e - 1] BY <1>1, <3>1
    <3>3. e - 2 # 0 => e - 2 \in 1..n BY <1>1, <3>1
    <3>4. e - 2 # 0 => both[e - 2] = text[e - 2] BY <1>1, <3>3
    <3>5. e \in (0 + 2)..Len(text) BY <3>1 DEF n
    <3>6. e \in Whole(text, 0)
      BY <2>1, <3>2, <3>4, <3>5 DEF Whole
    <3> QED BY <1>4, <3>2, <3>6 DEF Covers
  <2>3. CASE ~(e <= n)
    <3>1. e = n + 1 /\ n \in 1..n /\ e - 1 = n BY <1>1, <1>3, <1>4, <2>1, <2>3
    <3>2. text[n][2] = 2 BY <1>1, <1>2, <3>1
    <3>3. both[e - 1][2] = 2 BY <1>1, <3>1, <3>2
    <3> QED BY <3>3, NoLineAcross
  <2> QED BY <2>2, <2>3
<1>5. Aligned(both, a)
  <2>1. a = 0 \/ a \in 1..n BY <1>1, <1>3
  <2>2. a # 0 => text[a][2] = 2
    <3>1. Aligned(text, a) BY DEF Covers
    <3>2. a = Len(text) => a = n BY DEF n
    <3> QED BY <1>2, <3>1, <3>2 DEF Aligned
  <2> QED BY <1>1, <2>1, <2>2 DEF Aligned
<1> QED BY <1>4, <1>5 DEF Covers, both

\* What a cut text still covers.
LEMMA CoversCut ==
    ASSUME NEW text \in Seq(Units(Rec)), NEW more \in Seq(Units(Rec)),
           NEW a \in 0..Len(text), NEW S, Covers(text \o more, a, S)
    PROVE  Covers(text, a, S)
<1> DEFINE both == text \o more
           n == Len(text)
<1>1. /\ Len(both) = n + Len(more) /\ n \in Nat /\ Len(more) \in Nat
      /\ \A i \in 1..n : both[i] = text[i]
  <2>1. /\ Len(both) = Len(text) + Len(more)
        /\ \A i \in 1..(Len(text) + Len(more)) :
               both[i] = IF i <= Len(text) THEN text[i] ELSE more[i - Len(text)]
    BY ConcatProperties
  <2>2. Len(text) \in Nat /\ Len(more) \in Nat BY LenProperties
  <2> QED BY <2>1, <2>2
<1>2. ASSUME NEW e \in Whole(text, 0)
      PROVE  e \in Whole(both, 0) /\ both[e] = text[e]
  <2>1. /\ e \in 2..n /\ text[e][2] = 2
        /\ text[e - 1] = <<text[e][1], 1>>
        /\ e - 2 = 0 \/ text[e - 2][2] = 2
    BY DEF Whole
  <2> HIDE DEF both, n
  <2>2. e \in 1..n /\ e - 1 \in 1..n /\ (e - 2 # 0 => e - 2 \in 1..n)
    BY <1>1, <2>1
  <2>3. /\ both[e] = text[e] /\ both[e - 1] = text[e - 1]
        /\ e - 2 # 0 => both[e - 2] = text[e - 2]
    BY <1>1, <2>2
  <2>4. e \in (0 + 2)..Len(both) BY <1>1, <2>1
  <2> QED BY <2>1, <2>3, <2>4 DEF Whole
<1>3. Aligned(text, a)
  <2>1. Aligned(both, a) BY DEF Covers
  <2>2. a \in 0..n BY DEF n
  <2>3. n = Len(text) BY DEF n
  <2> HIDE DEF both, n
  <2>4. a # 0 /\ a # n => a \in 1..n BY <1>1, <2>2
  <2>5. a = Len(both) => a = n BY <1>1, <2>2
  <2> QED BY <1>1, <2>1, <2>2, <2>3, <2>4, <2>5 DEF Aligned
<1> QED BY <1>2, <1>3 DEF Covers

\* The batch a drain lends: its offsets cover nothing but records it carries,
\* and what was covered before.
LEMMA DrainCovers ==
    ASSUME TypeInv, FileInv, wpc # "start", NEW fs, Reads(fs), NEW S,
           NEW t \in DrainBatch(fs).tokens, t[1] \in DOMAIN files,
           Covers(fs[t[1]], acks[t[1]], S)
    PROVE  /\ t[2] <= Len(fs[t[1]])
           /\ Covers(fs[t[1]], t[2], DrainBatch(fs).recs \cup S)
<1> DEFINE s == t[1]
           text == fs[s]
<1>1. /\ text \in Seq(Units(Rec)) /\ acks[s] \in Nat /\ Len(text) \in Nat
      /\ BatchSize \in Nat \ {0}
  BY ContentType, ConstantsAssumption DEF Reads, TypeInv, TypeOK, DiskTypes
<1>2. \A e : <<s, e>> \in Lines(fs) <=> e \in Whole(text, acks[s])
  BY LinesAre
\* A line behind the old offset and before the token is delivered.
<1>3. SUFFICES /\ t[2] <= Len(text) /\ Aligned(text, t[2])
               /\ \A e \in Whole(text, acks[s]) :
                      e <= t[2] + 1 /\ e \in Whole(text, 0)
                          => <<s, e>> \in Delivered(fs)
  <2>1. ASSUME \A e \in Whole(text, acks[s]) :
                   e <= t[2] + 1 /\ e \in Whole(text, 0)
                       => <<s, e>> \in Delivered(fs),
               NEW e \in Whole(text, 0), e <= t[2] + 1
        PROVE  text[e][1] \in DrainBatch(fs).recs \cup S
    <3>1. CASE e <= acks[s] + 1 BY <3>1 DEF Covers
    <3>2. CASE ~(e <= acks[s] + 1)
      <4>1. e \in Whole(text, acks[s]) BY <1>1, <3>2, WholeFromStart
      <4>2. <<s, e>> \in Delivered(fs) BY <2>1, <4>1
      <4>3. DrainBatch(fs).recs = {fs[p[1]][p[2]][1] : p \in Delivered(fs)}
        BY DEF DrainBatch
      <4>4. \E p \in Delivered(fs) : p[1] = s /\ p[2] = e BY <4>2
      <4>5. PICK p \in Delivered(fs) : fs[p[1]][p[2]][1] = text[e][1] BY <4>4
      <4> HIDE DEF text, s
      <4> QED BY <4>3, <4>5, Zenon
    <3> QED BY <3>1, <3>2
  <2> QED BY <2>1 DEF Covers
<1>4. CASE t \in Completing(fs)
  <2>1. t \in Lines(fs) /\ Cardinality(LinesBefore(fs, t)) = BatchSize - 1
    BY <1>4 DEF Completing
  <2>2. PICK x \in DOMAIN files : t \in {x} \X Whole(fs[x], acks[x])
    BY <2>1, LinesAre
  <2>3. t = <<s, t[2]>> /\ t[2] \in Whole(text, acks[s]) BY <2>2
  <2>4. t[2] \in 1..Len(text) BY <1>1, <2>3, WholeType
  <2>5. ASSUME NEW e \in Whole(text, acks[s]), e <= t[2] + 1, e \in Whole(text, 0)
        PROVE  <<s, e>> \in Delivered(fs)
    <3>1. e \in 1..Len(text) BY <1>1, WholeType
    <3>2. e # t[2] + 1
      <4>1. SUFFICES ASSUME e = t[2] + 1 PROVE FALSE OBVIOUS
      <4>2. e - 1 = t[2] BY <2>4, <4>1
      <4>3. text[t[2]][2] = 2 BY <2>3 DEF Whole
      <4> QED BY <2>5, <4>2, <4>3, NoLineAcross
    <3>3. e = t[2] \/ e < t[2] BY <2>4, <2>5, <3>1, <3>2
    <3>4. CASE e = t[2]
      <4>1. BatchSize - 1 < BatchSize BY <1>1
      <4> QED BY <2>1, <2>3, <3>4, <4>1 DEF Delivered
    <3>5. CASE e < t[2]
      <4>1. /\ Cardinality(LinesBefore(fs, <<s, e>>)) \in Nat
            /\ Cardinality(LinesBefore(fs, <<s, e>>))
                  <= Cardinality(LinesBefore(fs, <<s, t[2]>>))
        <5>1. s \in DOMAIN files /\ e \in Whole(fs[s], acks[s])
              /\ t[2] \in Whole(fs[s], acks[s])
          BY <2>3
        <5> HIDE DEF text, s
        <5> QED BY <3>5, <5>1, Ranks, Zenon
      <4>2. Cardinality(LinesBefore(fs, <<s, e>>)) < BatchSize
        <5>1. Cardinality(LinesBefore(fs, <<s, t[2]>>)) = BatchSize - 1
          BY <2>1, <2>3, Zenon
        <5> HIDE DEF s
        <5> QED BY <1>1, <4>1, <5>1
      <4> QED BY <1>2, <4>2 DEF Delivered
    <3> QED BY <3>3, <3>4, <3>5
  <2>6. Aligned(text, t[2]) BY <2>3 DEF Aligned, Whole
  <2> QED BY <1>1, <2>4, <2>5, <2>6
<1>5. CASE t \notin Completing(fs)
  <2>1. PICK p \in Delivered(fs) :
           /\ t = <<p[1], Len(fs[p[1]])>>
           /\ \A last \in Completing(fs) : p[1] # last[1]
    BY <1>5 DEF DrainBatch
  <2>2. p[1] = s /\ t[2] = Len(text) BY <2>1
  <2>3. p \in Lines(fs) BY DEF Delivered
  <2>4. PICK x \in DOMAIN files : p \in {x} \X Whole(fs[x], acks[x])
    BY <2>3, LinesAre
  <2>5. p = <<s, p[2]>> BY <2>2, <2>4
  <2>6. <<s, p[2]>> \in Delivered(fs) BY <2>5
  <2>7. \A last \in Completing(fs) : last[1] # s BY <2>1, <2>2
  <2>8. \A e \in Whole(text, acks[s]) : <<s, e>> \in Delivered(fs)
    BY <2>6, <2>7, AllDelivered
  <2>9. Aligned(text, t[2]) BY <2>2 DEF Aligned
  <2> QED BY <1>1, <2>2, <2>8, <2>9
<1> QED BY <1>4, <1>5
-----------------------------------------------------------------------------
(* What is acked is committed.                                             *)

Done == db \cup dropped

AckedInv == \A s \in DOMAIN files : acks[s] <= Len(files[s])
                                     /\ Covers(Content(s), acks[s], Done)

LoanCovers(recs) ==
    \A t \in inflight : Covers(Content(t[1]), t[2], recs)

\* The offsets of the batch that is lent are inside the files; while the
\* leader holds it they cover its records and those that are done, and once
\* it is acked they cover only what is done.
LoanCovered ==
    /\ \A t \in inflight : t[2] <= Len(files[t[1]])
    /\ Holding => LoanCovers(lease.recs \cup Done)
    /\ \A i \in DOMAIN requests :
           requests[i].kind = "ack" => LoanCovers(Done)

LEMMA DoneGrows ==
    [Next]_vars => Done \subseteq Done' /\ db \subseteq db' /\ dropped \subseteq dropped'
<1> SUFFICES ASSUME [Next]_vars
             PROVE  db \subseteq db' /\ dropped \subseteq dropped'
  BY DEF Done
<1>1. CASE Loop \/ Leader \/ UNCHANGED vars \/ Terminated
  BY <1>1 DEF Loop, Leader, Write, Close, Ask, Resume, DrainTimeout, CommitOk,
     CommitFails, LeaderCancelled, history, vars, Terminated
<1>2. CASE Process BY <1>2 DEF Process, Restart, Crash, Boot
<1>3. CASE Worker
  <2>1. UNCHANGED db
    BY <1>3 DEF Worker, WStart, WRetryNothing, WRetryLater, WRetryDue, WCollect,
       WCollectNothing, WritePath, Control, WHouse, WHouseLater, WLoop, WLast,
       WDropBacklog, WClose, WReady, WReopen, WRotate, WRotateRaises,
       WRollover, WAppend, WAppendNothing, WAppendFails, WFsync, WDrainNothing,
       WDrain, WAck, WReturn, WFlush, WServed, Step, Serve, loopSide, history
  <2>2. dropped \subseteq dropped'
    BY <1>3 DEF Worker, WStart, WRetryNothing, WRetryLater, WRetryDue, WCollect,
       WCollectNothing, WritePath, Control, WHouse, WHouseLater, WLoop, WLast,
       WDropBacklog, WClose, WReady, WReopen, WRotate, WRotateRaises,
       WRollover, WAppend, WAppendNothing, WAppendFails, WFsync, WDrainNothing,
       WDrain, WAck, WReturn, WFlush, WServed, Step, Serve, WriteFailed, Raised,
       loopSide, history
  <2> QED BY <2>1, <2>2
<1> QED BY <1>1, <1>2, <1>3 DEF Next

\* A file that stays gets no shorter.
LEMMA LengthStays ==
    ASSUME CleanDisk, TypeInv, TypeInv', FileInv, [Next]_vars,
           NEW s \in DOMAIN files, s \in DOMAIN files'
    PROVE  /\ Len(files[s]) <= Len(files'[s])
           /\ Len(files[s]) \in Nat /\ Len(files'[s]) \in Nat
<1>1. Len(files[s]) \in Nat /\ Len(files'[s]) \in Nat
  BY DEF TypeInv, TypeOK, DiskTypes
<1>2. ContentStep BY ContentSteps
<1>3. CASE Keeps(s) BY <1>1, <1>3 DEF Keeps
<1>4. CASE \E lines \in Encodings(hand) : ContentAppended(lines)
  BY <1>1, <1>4 DEF ContentAppended, Keeps
<1>5. CASE Boot BY <1>1, <1>5 DEF Boot, disk
<1> QED BY <1>2, <1>1, <1>3, <1>4, <1>5 DEF ContentStep, ContentKept, ContentShrunk

\* What an offset inside a file covers does not change when the contents do.
LEMMA CoversStays ==
    ASSUME CleanDisk, TypeInv, TypeInv', FileInv, [Next]_vars,
           NEW s \in DOMAIN files, s \in DOMAIN files',
           NEW a \in Nat, a <= Len(files[s]), NEW R, NEW S, R \subseteq S,
           Covers(Content(s), a, R)
    PROVE  Covers(Content(s)', a, S) /\ a <= Len(files'[s])
<1>t. /\ Content(s) \in Seq(Units(Rec)) /\ files[s] \in Seq(Units(Rec))
      /\ Len(files[s]) <= Len(Content(s))
      /\ Len(files[s]) \in Nat /\ Len(Content(s)) \in Nat
  BY ContentType
<1>l. Len(files'[s]) \in Nat BY DEF TypeInv, TypeOK, DiskTypes
<1>c. Covers(Content(s), a, S) BY CoversMore
<1>1. ContentStep BY ContentSteps
<1>2. CASE Keeps(s) BY <1>2, <1>c, <1>t, <1>l DEF Keeps
<1>3. CASE WAppend /\ \E lines \in Encodings(hand) : ContentAppended(lines)
  <2>1. PICK lines \in Encodings(hand) : ContentAppended(lines) BY <1>3
  <2>2. CASE s # cur BY <1>2, <2>1, <2>2 DEF ContentAppended
  <2>3. CASE s = cur
    <3>1. /\ Content(cur)' = Content(cur) \o Blob(lines)
          /\ Len(files[cur]) <= Len(files'[cur]) /\ file = "open"
      BY <2>1 DEF ContentAppended
    <3>2. cur' = cur BY <1>3 DEF WAppend
    <3>3. EndsLine(Content(s)) BY <2>3, <3>1 DEF FileInv
    <3>4. lines \in Seq(Rec)
      BY <2>1, EncodingsType DEF TypeInv, TypeOK, WritingTypes
    <3>5. Blob(lines) \in Seq(Units(Rec)) BY <3>4, BlobType
    <3>6. a <= Len(Content(s)) BY <1>t
    <3>7. Covers(Content(s) \o Blob(lines), a, S)
      BY <1>c, <1>t, <3>3, <3>5, <3>6, CoversAppend
    <3>8. Content(s)' = Content(s) \o Blob(lines) BY <2>3, <3>1, <3>2
    <3> QED BY <1>t, <1>l, <2>3, <3>1, <3>7, <3>8
  <2> QED BY <2>2, <2>3
<1>4. CASE Boot
  <2>1. Content(s)' = files[s] /\ files' = files
    BY <1>4 DEF Boot, disk, Content
  <2>2. Covers(files[s], a, S)
    <3>1. CASE Content(s) = files[s] BY <1>c, <3>1
    <3>2. CASE Content(s) = files[s] \o buf
      <4>1. buf \in Seq(Units(Rec)) BY DEF TypeInv, TypeOK, HandleTypes
      <4> QED BY <1>c, <1>t, <3>2, <4>1, CoversCut
    <3> QED BY <3>1, <3>2 DEF Content
  <2> QED BY <2>1, <2>2
<1> QED BY <1>1, <1>2, <1>3, <1>4 DEF ContentStep, ContentKept, ContentShrunk

LEMMA AckedStep ==
    ASSUME CleanDisk, TypeInv, TypeInv', FileInv, LoanInv, AckedInv, LoanCovered,
           [Next]_vars
    PROVE  AckedInv'
<1>t. /\ acks \in [DOMAIN files -> Nat] /\ acks' \in [DOMAIN files' -> Nat]
      /\ requests \in Seq(Requests) /\ inflight \in SUBSET Token
  BY DEF TypeInv, TypeOK, DiskTypes, SharedTypes, ControlTypes
<1>d. Done \subseteq Done' BY DoneGrows
<1>1. ASSUME NEW s \in DOMAIN files, s \in DOMAIN files', acks'[s] = acks[s]
      PROVE  acks'[s] <= Len(files'[s]) /\ Covers(Content(s)', acks'[s], Done')
  BY <1>1, <1>d, <1>t, CoversStays DEF AckedInv
<1>2. ASSUME NEW s \in DOMAIN files', Content(s)' = <<>>, acks'[s] = 0
      PROVE  acks'[s] <= Len(files'[s]) /\ Covers(Content(s)', acks'[s], Done')
  <2>1. Len(files'[s]) \in Nat BY DEF TypeInv, TypeOK, DiskTypes
  <2>2. Whole(<<>>, 0) = {} /\ Aligned(<<>>, 0) BY DEF Whole, Aligned
  <2> QED BY <1>2, <2>1, <2>2 DEF Covers
<1>3. CASE WAck
  <2> DEFINE tokens == Head(requests).tokens
  <2>1. tokens = inflight /\ LoanCovers(Done)
    <3>1. requests # <<>> /\ Head(requests).kind = "ack"
      BY <1>3 DEF WAck, Serve
    <3>2. 1 \in DOMAIN requests /\ Head(requests) = requests[1] BY <1>t, <3>1
    <3> QED BY <3>1, <3>2 DEF LoanInv, AckIsOfLoan, LoanCovered
  <2>2. /\ files' = Without(files, Finished(tokens))
        /\ \/ acks' = [s \in DOMAIN files \ Finished(tokens) |->
                          IF \E t \in tokens : t[1] = s
                          THEN (CHOOSE t \in tokens : t[1] = s)[2]
                          ELSE acks[s]]
           \/ acks' = Without(acks, Finished(tokens))
    BY <1>3 DEF WAck
  <2> HIDE DEF tokens
  <2>3. ASSUME NEW s \in DOMAIN files'
        PROVE  acks'[s] <= Len(files'[s]) /\ Covers(Content(s)', acks'[s], Done')
    <3>1. s \in DOMAIN files BY <2>2 DEF Without
    <3>2. CASE acks'[s] = acks[s] BY <1>1, <3>1, <3>2
    <3>3. CASE /\ \E t \in tokens : t[1] = s
               /\ acks'[s] = (CHOOSE t \in tokens : t[1] = s)[2]
      <4>1. PICK t \in inflight : t[1] = s /\ acks'[s] = t[2]
        BY <2>1, <3>3
      <4>2. t[2] <= Len(files[s]) /\ Covers(Content(s), t[2], Done)
        BY <2>1, <4>1 DEF LoanCovered, LoanCovers
      <4>3. t[2] \in Nat BY <1>t, <4>1 DEF Token
      <4> QED BY <1>d, <3>1, <4>1, <4>2, <4>3, CoversStays
    <3>4. DOMAIN acks = DOMAIN files BY <1>t
    <3> QED BY <2>2, <3>1, <3>2, <3>3, <3>4 DEF Without
  <2> QED BY <2>3 DEF AckedInv
<1>4. CASE WDrain \/ WHouse
  <2>1. \A s \in DOMAIN files' : s \in DOMAIN files /\ acks'[s] = acks[s]
    BY <1>4, DrainLends, CapSparesLoan DEF LoanInv
  <2> QED BY <1>1, <2>1 DEF AckedInv
<1>5. CASE Boot
  <2>1. files' = files /\ acks' = acks BY <1>5 DEF Boot, disk
  <2> QED BY <1>1, <2>1 DEF AckedInv
<1>6. CASE ContentKept
  <2>1. ASSUME NEW s \in DOMAIN files'
        PROVE  acks'[s] <= Len(files'[s]) /\ Covers(Content(s)', acks'[s], Done')
    <3>1. CASE s \in DOMAIN files BY <1>1, <1>6, <3>1 DEF ContentKept
    <3>2. CASE s \notin DOMAIN files BY <1>2, <1>6, <2>1, <3>2 DEF ContentKept
    <3> QED BY <3>1, <3>2
  <2> QED BY <2>1 DEF AckedInv
<1>7. CASE WAppend /\ \E lines \in Encodings(hand) : ContentAppended(lines)
  <2>1. DOMAIN files' = DOMAIN files /\ acks' = acks
    BY <1>7 DEF ContentAppended
  <2> QED BY <1>1, <2>1 DEF AckedInv
<1> QED BY <1>3, <1>4, <1>5, <1>6, <1>7, ContentSteps DEF ContentStep

AckQueued == \E i \in DOMAIN requests : requests[i].kind = "ack"

\* Only a committed batch is acked.
LEMMA AckComes ==
    ASSUME TypeInv, [Next]_vars, AckQueued', ~CommitOk
    PROVE  AckQueued
<1>0. requests \in Seq(Requests) BY DEF TypeInv, TypeOK, SharedTypes
<1>q. PICK i \in DOMAIN requests' : requests'[i].kind = "ack" BY DEF AckQueued
\* A request that is no ack, added at the end, adds none.
<1>a. ASSUME NEW reqs \in Seq(Requests), NEW req, req.kind # "ack",
             DOMAIN reqs = DOMAIN requests,
             \A j \in DOMAIN requests :
                 reqs[j] = requests[j] \/ reqs[j].kind = "orphan",
             requests' \in {reqs, Append(reqs, req)}
      PROVE  AckQueued
  <2>1. \/ i \in DOMAIN requests /\ requests'[i] = reqs[i]
        \/ requests'[i] = req
    BY <1>a
  <2> QED BY <1>a, <1>q, <2>1 DEF AckQueued
<1>1. CASE Loop \/ Ask
  <2>1. requests' \in {requests, Append(requests, Request("flush", {})),
                       Append(requests, Request("drain", {}))}
    BY <1>1 DEF Loop, Write, Close, Ask
  <2> QED BY <1>0, <1>a, <2>1 DEF Request
<1>2. CASE Resume BY <1>2, <1>q DEF Resume, shared, AckQueued
<1>3. CASE DrainTimeout \/ LeaderCancelled
  <2>1. requests' \in {Orphaned(requests),
                       Append(Orphaned(requests), Request("cancel", {}))}
    BY <1>3 DEF DrainTimeout, LeaderCancelled
  <2>2. /\ Orphaned(requests) \in Seq(Requests)
        /\ DOMAIN Orphaned(requests) = DOMAIN requests
    BY <1>0, OrphanedType
  <2>3. \A j \in DOMAIN requests :
            Orphaned(requests)[j] = requests[j] \/ Orphaned(requests)[j].kind = "orphan"
    BY DEF Orphaned, Request
  <2>4. Request("cancel", {}).kind # "ack" BY DEF Request
  <2> QED BY <1>a, <2>1, <2>2, <2>3, <2>4
<1>4. CASE CommitFails
  <2>1. requests' \in {requests, Append(requests, Request("nack", lease.tokens))}
    BY <1>4 DEF CommitFails, Send
  <2>2. Request("nack", lease.tokens).kind # "ack" BY DEF Request
  <2> QED BY <1>0, <1>a, <2>1, <2>2
<1>6. CASE Worker /\ ~(\E kind : Serve(kind))
  BY <1>6, <1>q, OtherStepsKeepLease DEF AckQueued
<1>7. ASSUME NEW kind, Serve(kind) PROVE AckQueued
  <2>1. requests # <<>> /\ requests' = Tail(requests) BY <1>7 DEF Serve
  <2>2. requests'[i] = requests[i + 1] /\ i + 1 \in DOMAIN requests
    BY <1>0, <1>q, <2>1
  <2> QED BY <1>q, <2>2 DEF AckQueued
<1>8. CASE Process BY <1>8, <1>q DEF Process, Restart, Crash, Boot
<1>9. CASE UNCHANGED vars BY <1>9, <1>q DEF vars, shared, AckQueued
<1> QED BY <1>1, <1>2, <1>3, <1>4, <1>6, <1>7, <1>8, <1>9
        DEF Next, Leader, Terminated

\* The leader comes to hold a batch only by the answer to a drain.
LEMMA HoldingStays ==
    ASSUME LeaseInv, [Next]_vars, Holding', ~WDrain
    PROVE  Holding /\ lease' = lease
<1>1. CASE Leader
  BY <1>1 DEF Leader, Ask, Resume, DrainTimeout, CommitOk, CommitFails,
              LeaderCancelled, Holding
<1>2. CASE Loop \/ UNCHANGED vars \/ Terminated
  BY <1>2 DEF Loop, Write, Close, leader, vars, Terminated, Holding
<1>3. CASE Process BY <1>3 DEF Process, Restart, Crash, Boot, Holding
<1>4. CASE WDrainNothing
  <2>1. UNCHANGED leader \/ (cpc' = "answered" /\ lease' = NoBatch)
    BY <1>4 DEF WDrainNothing, Answer
  <2> QED BY <2>1 DEF leader, Holding, NoBatch
<1>5. CASE Worker /\ ~WDrainNothing
  BY <1>5 DEF Worker, WStart, WRetryNothing, WRetryLater, WRetryDue, WCollect,
       WCollectNothing, WritePath, Control, WHouse, WHouseLater, WLoop, WLast,
       WDropBacklog, WClose, WReady, WReopen, WRotate, WRotateRaises,
       WRollover, WAppend, WAppendNothing, WAppendFails, WFsync,
       WAck, WReturn, WFlush, WServed, Step, loopSide, leader, Holding
<1> QED BY <1>1, <1>2, <1>3, <1>4, <1>5 DEF Next

LEMMA LoanCoveredStep ==
    ASSUME CleanDisk, TypeInv, TypeInv', FileInv, LeaseInv, LoanInv, LoanInv',
           AckedInv, LoanCovered, [Next]_vars
    PROVE  LoanCovered'
<1>t. /\ requests \in Seq(Requests) /\ inflight \in SUBSET Token
      /\ Done \subseteq Done'
      /\ \A t \in inflight : t[1] \in DOMAIN files
  BY DoneGrows
     DEF TypeInv, TypeOK, SharedTypes, ControlTypes, LoanInv, LoanIsThere
<1>1. CASE WAck \/ WReturn \/ Boot
  <2>1. inflight' = {} BY <1>1 DEF WAck, WReturn, Boot
  <2> QED BY <2>1 DEF LoanCovered, LoanCovers
<1>2. CASE WDrain
  <2>1. PICK fs : /\ Reads(fs)
                  /\ files' = Without(fs, Exhausted(fs))
                  /\ inflight' = DrainBatch(fs).tokens
                  /\ Answer(DrainBatch(fs))
    BY <1>2, DrainReads DEF Reads
  <2>2. wpc # "start" /\ UNCHANGED <<db, dropped>> /\ requests # <<>>
        /\ Head(requests).kind \in DrainKinds /\ requests' = Tail(requests)
    BY <1>2 DEF WDrain, Serve, Serving, history
  <2>3. \A t \in inflight' : t[1] \in DOMAIN files' BY DEF LoanInv, LoanIsThere
  <2>4. ASSUME NEW t \in inflight'
        PROVE  /\ t[2] <= Len(files'[t[1]])
               /\ Covers(Content(t[1])', t[2], DrainBatch(fs).recs \cup Done)
    <3>1. t[1] \in DOMAIN files /\ files'[t[1]] = fs[t[1]]
      BY <2>1, <2>3, <2>4 DEF Without, Reads
    <3>2. fs[t[1]] = Content(t[1]) BY <2>1, <3>1 DEF Reads
    <3>3. Covers(fs[t[1]], acks[t[1]], Done) BY <3>1, <3>2 DEF AckedInv
    <3>4. ContentShrunk BY <1>2, DrainContent
    <3>5. Content(t[1])' = Content(t[1])
      BY <2>3, <2>4, <3>4 DEF ContentShrunk, Keeps
    <3> HIDE DEF DrainBatch
    <3>6. t \in DrainBatch(fs).tokens BY <2>1, <2>4
    <3> QED BY <2>1, <2>2, <3>1, <3>2, <3>3, <3>5, <3>6, DrainCovers
  <2>5. Done' = Done BY <2>2 DEF Done
  <2>6. Holding' => lease' = DrainBatch(fs)
    <3>1. 1 \in DOMAIN requests /\ Head(requests) = requests[1] BY <1>t, <2>2
    <3>2. ~Holding
      BY <2>2, <3>1 DEF LeaseInv, LeaseIsInflight, Holding, DrainKinds
    <3>3. UNCHANGED leader \/ lease' = DrainBatch(fs) BY <2>1 DEF Answer
    <3> QED BY <3>2, <3>3 DEF leader, Holding
  <2>7. Holding' => LoanCovers(lease.recs \cup Done)'
    BY <2>4, <2>5, <2>6 DEF LoanCovers
  \* No ack is queued behind a drain.
  <2>8. \A i \in DOMAIN requests' : requests'[i].kind # "ack"
    <3>1. SUFFICES ASSUME NEW i \in DOMAIN requests', requests'[i].kind = "ack"
                   PROVE  FALSE
      OBVIOUS
    <3>2. /\ requests'[i] = requests[i + 1] /\ i + 1 \in DOMAIN requests
          /\ 1 < i + 1 /\ 1 \in DOMAIN requests /\ Head(requests) = requests[1]
      BY <1>t, <2>2, <3>1
    <3>3. requests[1].kind = "flush"
      BY <3>1, <3>2 DEF LoanInv, AckIsOfLoan
    <3> QED BY <2>2, <3>2, <3>3 DEF DrainKinds
  <2> QED BY <2>4, <2>7, <2>8 DEF LoanCovered
<1>3. CASE ~WDrain /\ ~WAck /\ ~WReturn /\ ~Boot
  <2>1. inflight' = inflight BY <1>3, LoanStays
  <2>2. \A t \in inflight : t[1] \in DOMAIN files'
    BY <2>1 DEF LoanInv, LoanIsThere
  <2>3. ASSUME NEW t \in inflight
        PROVE  /\ t[2] \in Nat /\ t[1] \in DOMAIN files /\ t[1] \in DOMAIN files'
               /\ t[2] <= Len(files[t[1]])
    BY <1>t, <2>2 DEF Token, LoanCovered
  <2>4. ASSUME NEW R, NEW S, R \subseteq S, LoanCovers(R), NEW t \in inflight
        PROVE  Covers(Content(t[1])', t[2], S)
    <3>1. Covers(Content(t[1]), t[2], R) BY <2>4 DEF LoanCovers
    <3> QED BY <2>3, <2>4, <3>1, CoversStays
  <2>5. \A t \in inflight : t[2] <= Len(files'[t[1]])
    <3>1. TAKE t \in inflight
    <3> QED BY <2>3, LengthStays
  <2>6. ASSUME Holding' PROVE LoanCovers(lease.recs \cup Done)'
    <3>1. Holding /\ lease' = lease BY <1>3, <2>6, HoldingStays
    <3>2. LoanCovers(lease.recs \cup Done) BY <3>1 DEF LoanCovered
    <3>3. lease.recs \cup Done \subseteq lease'.recs \cup Done' BY <1>t, <3>1
    <3>4. \A t \in inflight' : Covers(Content(t[1])', t[2], lease'.recs \cup Done')
      BY <2>1, <2>4, <3>2, <3>3
    <3> QED BY <3>4 DEF LoanCovers
  <2>7. ASSUME AckQueued' PROVE LoanCovers(Done)'
    <3>1. PICK R : LoanCovers(R) /\ R \subseteq Done'
      <4>1. CASE CommitOk
        <5>1. Holding /\ db' = db \cup lease.recs /\ dropped' = dropped
          BY <4>1 DEF CommitOk, Holding
        <5>2. lease.recs \cup Done \subseteq Done' BY <5>1 DEF Done
        <5> QED BY <5>1, <5>2 DEF LoanCovered
      <4>2. CASE ~CommitOk
        <5>1. AckQueued BY <2>7, <4>2, AckComes
        <5> QED BY <1>t, <5>1 DEF AckQueued, LoanCovered
      <4> QED BY <4>1, <4>2
    <3>2. \A t \in inflight' : Covers(Content(t[1])', t[2], Done')
      BY <2>1, <2>4, <3>1
    <3> QED BY <3>2 DEF LoanCovers
  <2>8. (\E i \in DOMAIN requests' : requests'[i].kind = "ack") => AckQueued'
    BY DEF AckQueued
  <2> QED BY <2>1, <2>5, <2>6, <2>7, <2>8 DEF LoanCovered
<1> QED BY <1>1, <1>2, <1>3

LossInv == TypeInv /\ FileInv /\ LeaseInv /\ LoanInv /\ AckedInv /\ LoanCovered

LEMMA AckedHolds ==
    ASSUME CleanDisk
    PROVE  Spec => []LossInv
<1>1. Init => AckedInv /\ LoanCovered
  BY DEF Init, AckedInv, LoanCovered, LoanCovers
<1>2. TypeInv /\ TypeInv' /\ FileInv /\ LeaseInv /\ LoanInv /\ LoanInv'
        /\ AckedInv /\ LoanCovered /\ [Next]_vars
          => AckedInv' /\ LoanCovered'
  BY AckedStep, LoanCoveredStep
<1> QED BY <1>1, <1>2, FileInvHolds, LoanHolds, PTL DEF Spec, LossInv

\* An acked offset covers nothing but whole lines of records that are in the
\* database or counted as dropped: not when the batch was cut in the middle of
\* a segment, not when lines were appended behind it before the ack, and not
\* when the ack comes after a time-out, a cap or a restart.
THEOREM AckedCommitted ==
    ASSUME CleanDisk
    PROVE  Spec => []AckedIsCommitted
<1>1. LossInv => AckedIsCommitted
  BY DEF LossInv, AckedInv, AckedIsCommitted, Covers, Done
<1> QED BY <1>1, AckedHolds, PTL
-----------------------------------------------------------------------------
(* No record vanishes: the parts.                                          *)

LEMMA ElemsConcat ==
    ASSUME NEW S, NEW s \in Seq(S), NEW t \in Seq(S)
    PROVE  Elems(s \o t) = Elems(s) \cup Elems(t)
<1>1. /\ Len(s \o t) = Len(s) + Len(t) /\ s \o t \in Seq(S)
      /\ \A i \in 1..(Len(s) + Len(t)) :
             (s \o t)[i] = IF i <= Len(s) THEN s[i] ELSE t[i - Len(s)]
  BY ConcatProperties
<1>2. /\ Len(s) \in Nat /\ Len(t) \in Nat
      /\ DOMAIN s = 1..Len(s) /\ DOMAIN t = 1..Len(t)
      /\ DOMAIN (s \o t) = 1..(Len(s) + Len(t))
  BY <1>1, LenProperties
<1> DEFINE st == s \o t
           n == Len(s)
           m == Len(t)
<1>3. /\ n \in Nat /\ m \in Nat /\ DOMAIN s = 1..n /\ DOMAIN t = 1..m
      /\ DOMAIN st = 1..(n + m)
      /\ \A i \in 1..(n + m) : st[i] = IF i <= n THEN s[i] ELSE t[i - n]
  BY <1>1, <1>2
<1> HIDE DEF st, n, m
<1>4. \A i \in 1..n : i \in 1..(n + m) /\ st[i] = s[i] BY <1>3
<1>5. \A i \in 1..m : i + n \in 1..(n + m) /\ st[i + n] = t[i]
  <2>1. TAKE i \in 1..m
  <2>2. i + n \in 1..(n + m) /\ ~(i + n <= n) /\ (i + n) - n = i BY <1>3
  <2> QED BY <1>3, <2>2
<1>6. \A i \in 1..(n + m) : i \in 1..n \/ i - n \in 1..m BY <1>3
<1>7. \A i \in 1..(n + m) : st[i] \in Elems(s) \cup Elems(t)
  <2>1. TAKE i \in 1..(n + m)
  <2>2. CASE i \in 1..n BY <1>3, <1>4, <2>2 DEF Elems
  <2>3. CASE ~(i \in 1..n)
    <3>1. i - n \in 1..m /\ ~(i <= n) BY <1>3, <1>6, <2>3
    <3>2. st[i] = t[i - n] BY <1>3, <3>1
    <3> QED BY <1>3, <3>1, <3>2 DEF Elems
  <2> QED BY <2>2, <2>3
<1>8. Elems(st) \subseteq Elems(s) \cup Elems(t)
  <2>1. \A x \in Elems(st) : \E i \in 1..(n + m) : x = st[i]
    BY <1>3 DEF Elems
  <2> QED BY <1>7, <2>1
<1>9. Elems(s) \subseteq Elems(st)
  <2>1. \A x \in Elems(s) : \E i \in 1..n : x = s[i] BY <1>3 DEF Elems
  <2>2. \A i \in 1..n : s[i] \in Elems(st) BY <1>3, <1>4 DEF Elems
  <2> QED BY <2>1, <2>2
<1>10. Elems(t) \subseteq Elems(st)
  <2>1. \A x \in Elems(t) : \E i \in 1..m : x = t[i] BY <1>3 DEF Elems
  <2>2. \A i \in 1..m : t[i] \in Elems(st) BY <1>3, <1>5 DEF Elems
  <2> QED BY <2>1, <2>2
<1>11. Elems(st) = Elems(s) \cup Elems(t) BY <1>8, <1>9, <1>10
<1> QED BY <1>11, Zenon DEF st

LEMMA ElemsHalves ==
    ASSUME NEW S, NEW t \in Seq(S), NEW n \in 0..Len(t)
    PROVE  Elems(t) = Elems(Upto(t, n)) \cup Elems(From(t, n))
<1> DEFINE u == Upto(t, n)
           v == From(t, n)
<1>1. u \in Seq(S) /\ v \in Seq(S) /\ u \o v = t BY Halves
<1> HIDE DEF u, v
<1>2. \A x, y \in Seq(S) : Elems(x \o y) = Elems(x) \cup Elems(y)
  BY ElemsConcat
<1>3. Elems(u \o v) = Elems(u) \cup Elems(v) BY <1>1, <1>2, Zenon
<1> QED BY <1>1, <1>3, Zenon DEF u, v

\* Every record of a batch that can be encoded is.
LEMMA EncodingsOnto ==
    ASSUME NEW batch \in Seq(Rec), NEW lines \in Encodings(batch),
           NEW r \in Elems(batch) \ Unserializable
    PROVE  \E k \in 1..Len(lines) : lines[k] = r
<1> DEFINE good == {i \in DOMAIN batch : batch[i] \notin Unserializable}
           n == Cardinality(good)
<1>1. IsFiniteSet(good) /\ n \in Nat
  <2>1. IsFiniteSet(1..Len(batch)) BY FS_Interval
  <2>2. good \subseteq 1..Len(batch) OBVIOUS
  <2> QED BY <2>1, <2>2, FS_Subset, FS_CardinalityType
<1>2. PICK f \in [1..n -> good] :
            /\ \A i, j \in DOMAIN f : i < j => f[i] < f[j]
            /\ lines = [k \in DOMAIN f |-> batch[f[k]]]
  BY DEF Encodings
<1>3. PICK b \in good : batch[b] = r BY DEF Elems
<1>g. good \subseteq Nat OBVIOUS
<1>b. \A i \in good : batch[i] \in Rec OBVIOUS
<1>4. Cardinality(1..n) = n /\ IsFiniteSet(1..n)
  <2>1. n \in Int /\ n - 1 + 1 = n /\ (1 > n => n = 0) BY <1>1
  <2> HIDE DEF n
  <2> QED BY <2>1, FS_Interval
<1>5. Cardinality(good) = n OBVIOUS
<1> HIDE DEF good, n
<1>6. f \in Injection(1..n, good)
  <2>1. ASSUME NEW i \in 1..n, NEW j \in 1..n, f[i] = f[j] PROVE i = j
    <3>1. f[i] \in Nat /\ f[j] \in Nat BY <1>2, <1>g
    <3>2. ~(f[i] < f[j]) /\ ~(f[j] < f[i]) BY <2>1, <3>1
    <3>3. ~(i < j) /\ ~(j < i) BY <1>2, <3>2
    <3> QED BY <1>1, <3>3
  <2> QED BY <1>2, <2>1 DEF Injection, IsInjective
<1>7. f \in Surjection(1..n, good) BY <1>1, <1>4, <1>5, <1>6, FS_Injection
<1>8. PICK k \in 1..n : f[k] = b BY <1>3, <1>7 DEF Surjection
<1>9. lines \in [1..n -> Rec] /\ lines[k] = r BY <1>2, <1>3, <1>8, <1>b
<1>10. Len(lines) = n
  <2>1. ASSUME NEW m \in Nat, NEW g \in [1..m -> Rec] PROVE Len(g) = m
    OBVIOUS
  <2> QED BY <1>1, <1>9, <2>1
<1> QED BY <1>8, <1>9, <1>10

\* What could be read can still be read once more has been appended.
LEMMA ReadableMore ==
    ASSUME NEW text \in Seq(Units(Rec)), NEW more \in Seq(Units(Rec)),
           NEW a \in Nat
    PROVE  Readable(text, a) \subseteq Readable(text \o more, a)
<1> DEFINE both == text \o more
           n == Len(text)
<1>1. /\ Len(both) = n + Len(more) /\ n \in Nat /\ Len(more) \in Nat
      /\ \A i \in 1..n : both[i] = text[i]
  <2>1. /\ Len(both) = Len(text) + Len(more)
        /\ \A i \in 1..(Len(text) + Len(more)) :
               both[i] = IF i <= Len(text) THEN text[i] ELSE more[i - Len(text)]
    BY ConcatProperties
  <2>2. Len(text) \in Nat /\ Len(more) \in Nat BY LenProperties
  <2> QED BY <2>1, <2>2
<1>2. ASSUME NEW e \in Whole(text, a)
      PROVE  e \in Whole(both, a) /\ both[e] = text[e]
  <2>1. /\ e \in (a + 2)..n /\ text[e][2] = 2
        /\ text[e - 1] = <<text[e][1], 1>>
        /\ e - 2 = a \/ text[e - 2][2] = 2
    BY DEF Whole
  <2> HIDE DEF both, n
  <2>2. e \in 1..n /\ e - 1 \in 1..n /\ (e - 2 # a => e - 2 \in 1..n)
    BY <1>1, <2>1
  <2>3. /\ both[e] = text[e] /\ both[e - 1] = text[e - 1]
        /\ e - 2 # a => both[e - 2] = text[e - 2]
    BY <1>1, <2>2
  <2>4. e \in (a + 2)..Len(both) BY <1>1, <2>1
  <2> QED BY <2>1, <2>3, <2>4 DEF Whole
<1> QED BY <1>2 DEF Readable

\* The lines appended to a text that ends with a whole line can be read.
LEMMA ReadableAppended ==
    ASSUME NEW text \in Seq(Units(Rec)), EndsLine(text), NEW lines \in Seq(Rec),
           NEW a \in Nat, a <= Len(text), NEW k \in 1..Len(lines)
    PROVE  lines[k] \in Readable(text \o Blob(lines), a)
<1> DEFINE more == Blob(lines)
           both == text \o more
           n == Len(text)
           m == Len(lines)
           e == n + 2 * k
<1>1. /\ more \in Seq(Units(Rec)) /\ Len(more) = 2 * m /\ m \in Nat /\ n \in Nat
      /\ k \in 1..m
  BY BlobType
<1>2. /\ \A i \in 1..m : more[2 * i][2] = 2
      /\ more[2 * k] = <<lines[k], 2>> /\ more[2 * k - 1] = <<lines[k], 1>>
  <2>1. more = [i \in 1..(2 * m) |->
                   <<lines[(i + 1) \div 2], IF i % 2 = 1 THEN 1 ELSE 2>>]
    BY DEF Blob
  <2>2. \A i \in 1..m : /\ 2 * i \in 1..(2 * m) /\ 2 * i - 1 \in 1..(2 * m)
                        /\ (2 * i) % 2 = 0 /\ (2 * i - 1) % 2 = 1
                        /\ (2 * i + 1) \div 2 = i /\ (2 * i - 1 + 1) \div 2 = i
    BY <1>1
  <2> HIDE DEF more, m
  <2> QED BY <1>1, <2>1, <2>2
<1>3. n = 0 \/ text[n][2] = 2
  <2>1. text # <<>> => text[Len(text)][2] = 2 BY DEF EndsLine
  <2>2. text = <<>> => Len(text) = 0 OBVIOUS
  <2> QED BY <2>1, <2>2
<1>a. a <= n OBVIOUS
<1>4. /\ Len(both) = n + 2 * m
      /\ \A i \in 1..n : both[i] = text[i]
      /\ \A i \in 1..(2 * m) : both[n + i] = more[i]
  <2>1. /\ Len(both) = n + Len(more)
        /\ \A i \in 1..(n + Len(more)) :
               both[i] = IF i <= n THEN text[i] ELSE more[i - n]
    BY <1>1, ConcatProperties
  <2> HIDE DEF both, n, m, more
  <2>2. \A i \in 1..(2 * m) : /\ n + i \in 1..(n + Len(more)) /\ ~(n + i <= n)
                              /\ (n + i) - n = i
    BY <1>1
  <2>3. \A i \in 1..n : i \in 1..(n + Len(more)) /\ i <= n BY <1>1
  <2> QED BY <1>1, <2>1, <2>2, <2>3
<1> HIDE DEF both, n, m, more
<1>5. /\ both[e] = <<lines[k], 2>> /\ both[e - 1] = <<lines[k], 1>>
  <2>1. 2 * k \in 1..(2 * m) /\ 2 * k - 1 \in 1..(2 * m)
        /\ e - 1 = n + (2 * k - 1)
    BY <1>1
  <2> QED BY <1>2, <1>4, <2>1
<1>6. e - 2 = a \/ both[e - 2][2] = 2
  <2>1. CASE k = 1
    <3>1. e - 2 = n BY <1>1, <2>1
    <3>2. CASE n = 0 BY <1>a, <3>1, <3>2
    <3>3. CASE n # 0
      <4>1. n \in 1..n BY <1>1, <3>3
      <4> QED BY <1>3, <1>4, <3>1, <3>3, <4>1
    <3> QED BY <3>2, <3>3
  <2>2. CASE k # 1
    <3>1. k - 1 \in 1..m /\ 2 * (k - 1) \in 1..(2 * m)
          /\ e - 2 = n + 2 * (k - 1)
      BY <1>1, <2>2
    <3>2. both[e - 2] = more[2 * (k - 1)] BY <1>4, <3>1
    <3> QED BY <1>2, <3>1, <3>2
  <2> QED BY <2>1, <2>2
<1>7. e \in (a + 2)..Len(both) BY <1>1, <1>4, <1>a
<1>8. e \in Whole(both, a)
  <2> HIDE DEF e
  <2> QED BY <1>5, <1>6, <1>7 DEF Whole
<1>9. both[e][1] = lines[k] BY <1>5
<1> HIDE DEF e
<1> QED BY <1>8, <1>9 DEF Readable, both, more

\* A line read from an aligned offset is a whole line of the file.
LEMMA WholeToStart ==
    ASSUME NEW text \in Seq(Units(Rec)), NEW a \in Nat, Aligned(text, a),
           NEW e \in Whole(text, a)
    PROVE  e \in Whole(text, 0)
<1>1. Len(text) \in Nat BY LenProperties
<1>2. /\ e \in (a + 2)..Len(text) /\ text[e][2] = 2
      /\ text[e - 1] = <<text[e][1], 1>>
      /\ e - 2 = a \/ text[e - 2][2] = 2
  BY DEF Whole
<1>3. e \in (0 + 2)..Len(text) BY <1>1, <1>2
<1>4. e - 2 = 0 \/ text[e - 2][2] = 2
  <2>1. CASE e - 2 = a
    <3>1. a # Len(text) BY <1>1, <1>2, <2>1
    <3> QED BY <2>1, <3>1 DEF Aligned
  <2> QED BY <1>2, <2>1
<1> QED BY <1>2, <1>3, <1>4 DEF Whole

\* What could be read still can, is counted by the cap, or is acked and in
\* the database.
LEMMA StoredStays ==
    ASSUME CleanDisk, LossInv, TypeInv', [Next]_vars, ~Boot
    PROVE  Stored \subseteq Stored' \cup dropped' \cup (IF WAck THEN db' ELSE {})
<1> USE DEF LossInv
<1>t. /\ acks \in [DOMAIN files -> Nat] /\ requests \in Seq(Requests)
      /\ inflight \in SUBSET Token /\ Done \subseteq Done'
  BY DoneGrows DEF TypeInv, TypeOK, DiskTypes, SharedTypes, ControlTypes
<1>0. SUFFICES ASSUME NEW s \in DOMAIN files, NEW e \in Whole(Content(s), acks[s])
               PROVE  Content(s)[e][1] \in Stored' \cup dropped'
                                            \cup (IF WAck THEN db' ELSE {})
  BY DEF Stored, Readable
<1>c. /\ Content(s) \in Seq(Units(Rec)) /\ Len(Content(s)) \in Nat
      /\ acks[s] \in Nat
      /\ acks[s] <= Len(files[s]) /\ Len(files[s]) <= Len(Content(s))
      /\ Covers(Content(s), acks[s], Done)
  BY <1>t, ContentType DEF AckedInv
<1>e. e \in Whole(Content(s), 0) /\ e \in 1..Len(Content(s))
  BY <1>c, WholeToStart, WholeType DEF Covers
\* A segment that stays, with the same content.
<1>k. ASSUME s \in DOMAIN files', Content(s)' = Content(s), acks'[s] = acks[s]
      PROVE  Content(s)[e][1] \in Stored'
  BY <1>k DEF Stored, Readable
<1>1. CASE ContentKept BY <1>1, <1>k DEF ContentKept, Keeps
<1>2. CASE WAppend /\ \E lines \in Encodings(hand) : ContentAppended(lines)
  <2>1. PICK lines \in Encodings(hand) : ContentAppended(lines) BY <1>2
  <2>2. CASE s # cur BY <1>k, <2>1, <2>2 DEF ContentAppended, Keeps
  <2>3. CASE s = cur
    <3>1. /\ Content(s)' = Content(s) \o Blob(lines)
          /\ s \in DOMAIN files' /\ acks'[s] = acks[s]
      <4>1. cur' = cur BY <1>2 DEF WAppend
      <4> QED BY <2>1, <2>3, <4>1 DEF ContentAppended
    <3>2. lines \in Seq(Rec)
      BY <2>1, EncodingsType DEF TypeInv, TypeOK, WritingTypes
    <3>3. Content(s)[e][1] \in Readable(Content(s) \o Blob(lines), acks[s])
      <4>1. Content(s)[e][1] \in Readable(Content(s), acks[s]) BY DEF Readable
      <4>2. Blob(lines) \in Seq(Units(Rec)) BY <3>2, BlobType
      <4> QED BY <1>c, <4>1, <4>2, ReadableMore
    <3> QED BY <3>1, <3>3 DEF Stored
  <2> QED BY <2>2, <2>3
<1>3. CASE WDrain
  <2>1. PICK fs : Reads(fs) /\ files' = Without(fs, Exhausted(fs))
    BY <1>3, DrainReads DEF Reads
  <2>2. s \notin Exhausted(fs)
    <3>1. fs[s] = Content(s) BY <2>1 DEF Reads
    <3>2. ~(acks[s] >= Len(Content(s)))
      <4>1. e \in (acks[s] + 2)..Len(Content(s)) BY DEF Whole
      <4> QED BY <1>c, <4>1
    <3> QED BY <3>1, <3>2 DEF Exhausted
  <2>3. s \in DOMAIN files' BY <2>1, <2>2 DEF Reads, Without
  <2>4. Content(s)' = Content(s)
    BY <1>3, <2>3, DrainContent DEF ContentShrunk, Keeps
  <2>5. acks'[s] = acks[s] BY <1>3, <2>3, DrainLends
  <2> QED BY <1>k, <2>3, <2>4, <2>5
<1>4. CASE WHouse
  <2>1. CASE s \in DOMAIN files'
    <3>1. acks'[s] = acks[s] BY <1>4, <2>1, CapSparesLoan DEF LoanInv
    <3>2. s \notin Victims BY <1>4, <2>1 DEF WHouse, Without
    <3>3. Content(s)' = Content(s)
      BY <1>4, <3>2 DEF WHouse, Without, handle, Content
    <3> QED BY <1>k, <2>1, <3>1, <3>3
  <2>2. CASE s \notin DOMAIN files'
    <3>1. s \in Victims BY <1>4, <2>2 DEF WHouse, Without
    <3>2. s # cur BY <3>1 DEF Victims, Candidates
    <3>3. Content(s) = files[s] BY <3>2 DEF Content
    <3>4. Content(s)[e][1] \in Given(Victims)
      <4> HIDE DEF Victims
      <4> QED BY <3>1, <3>3 DEF Given, Readable
    <3> QED BY <1>4, <3>4 DEF WHouse
  <2> QED BY <2>1, <2>2
<1>5. CASE WAck
  <2> DEFINE tokens == Head(requests).tokens
  <2>1. tokens = inflight /\ LoanCovers(Done)
    <3>1. requests # <<>> /\ Head(requests).kind = "ack"
      BY <1>5 DEF WAck, Serve
    <3>2. 1 \in DOMAIN requests /\ Head(requests) = requests[1] BY <1>t, <3>1
    <3> QED BY <3>1, <3>2 DEF LoanInv, AckIsOfLoan, LoanCovered
  <2>2. /\ files' = Without(files, Finished(tokens))
        /\ \/ acks' = [x \in DOMAIN files \ Finished(tokens) |->
                          IF \E t \in tokens : t[1] = x
                          THEN (CHOOSE t \in tokens : t[1] = x)[2]
                          ELSE acks[x]]
           \/ acks' = Without(acks, Finished(tokens))
    BY <1>5 DEF WAck
  <2> HIDE DEF tokens
  <2>3. ASSUME NEW t \in inflight, t[1] = s, e <= t[2] + 1
        PROVE  Content(s)[e][1] \in Done'
    <3>1. Covers(Content(s), t[2], Done) BY <2>1, <2>3 DEF LoanCovers
    <3> QED BY <1>e, <1>t, <2>3, <3>1 DEF Covers
  <2>d. WAck /\ Done' = db' \cup dropped' BY <1>5 DEF Done
  <2>4. CASE s \in Finished(tokens)
    <3>1. PICK t \in inflight : t[1] = s /\ s # cur /\ t[2] >= Size(s)
      BY <2>1, <2>4 DEF Finished
    <3>2. Content(s) = files[s] BY <3>1 DEF Content
    <3>3. t[2] \in Nat /\ Size(s) = Len(files[s])
      BY <1>t, <3>1 DEF Token, Size, SizeIn
    <3>4. e <= t[2] + 1 BY <1>c, <1>e, <3>1, <3>2, <3>3
    <3> QED BY <2>d, <2>3, <3>1, <3>4
  <2>5. CASE s \notin Finished(tokens)
    <3>1. s \in DOMAIN files' BY <2>2, <2>5 DEF Without
    <3>2. Content(s)' = Content(s)
      BY <1>5, <2>2, <2>5 DEF WAck, Without, handle, Content
    <3>3. CASE acks'[s] = acks[s] BY <1>k, <3>1, <3>2, <3>3
    <3>4. CASE /\ \E t \in tokens : t[1] = s
               /\ acks'[s] = (CHOOSE t \in tokens : t[1] = s)[2]
      <4>1. PICK t \in inflight : t[1] = s /\ acks'[s] = t[2]
        BY <2>1, <3>4
      <4>2. CASE e <= t[2] + 1 BY <2>d, <2>3, <4>1, <4>2
      <4>3. CASE ~(e <= t[2] + 1)
        <5>1. t[2] \in Nat BY <1>t, <4>1 DEF Token
        <5>2. e \in Whole(Content(s), t[2])
          BY <1>c, <1>e, <4>3, <5>1, WholeFromStart
        <5> QED BY <3>1, <3>2, <4>1, <5>2 DEF Stored, Readable
      <4> QED BY <4>2, <4>3
    <3>5. DOMAIN acks = DOMAIN files BY <1>t
    <3> QED BY <2>2, <2>5, <3>3, <3>4, <3>5 DEF Without
  <2> QED BY <2>4, <2>5
<1> QED BY <1>1, <1>2, <1>3, <1>4, <1>5, ContentSteps DEF ContentStep

\* The worker has a batch in its hand only while it writes it, and nothing in
\* its backlog or its file object once it has ended.
HandInv ==
    /\ wpc \notin {"write", "rotate", "rollover", "append"} => hand = <<>>
    /\ wpc \in {"fserve", "close", "done"} => backlog = <<>>
    /\ wpc = "done" => file = "none"

LEMMA HandInvStep ==
    ASSUME CleanDisk, TypeInv, FileInv, HandInv, [Next]_vars
    PROVE  HandInv'
<1> USE DEF writing, store, handle
<1>0. /\ mode \in {"live", "retry", "last"} /\ file \in {"none", "open"}
      /\ ~Fault("rotate") /\ wpc \in WorkerLabels
  BY DEF TypeInv, TypeOK, WritingTypes, HandleTypes, ControlTypes, FileInv,
     CleanDisk, Fault
<1>1. CASE Loop \/ Leader \/ UNCHANGED vars \/ Terminated
  BY <1>1 DEF Loop, Leader, Write, Close, Ask, Resume, DrainTimeout, CommitOk,
     CommitFails, LeaderCancelled, worker, vars, Terminated, HandInv
<1>2. CASE Process BY <1>2 DEF Process, Restart, Crash, Boot, HandInv
<1>3. CASE WStart \/ WRetryNothing \/ WRetryLater \/ WRetryDue \/ WCollect
           \/ WCollectNothing
  BY <1>3 DEF WStart, WRetryNothing, WRetryLater, WRetryDue, WCollect,
     WCollectNothing, Step, Goto, Take, HandInv
<1>4. CASE WHouse \/ WHouseLater \/ WLoop \/ WLast \/ WDropBacklog \/ WClose
  BY <1>0, <1>4 DEF WHouse, WHouseLater, WLoop, WLast, WDropBacklog, WClose,
     Step, Goto, Take, HandInv
<1>5. CASE Control
  <2>1. UNCHANGED <<hand, backlog>>
    BY <1>5 DEF Control, WDrainNothing, WDrain, WAck, WReturn, WFlush, WServed,
       Serve, Step
  <2>2. \/ wpc' = wpc /\ wpc \in {"serve", "fserve"}
        \/ wpc = "serve" /\ wpc' = "house"
        \/ wpc = "fserve" /\ wpc' = "close"
    BY <1>5 DEF Control, WDrainNothing, WDrain, WAck, WReturn, WFlush, WServed,
       Serve, Serving, Step, Goto
  <2> QED BY <2>1, <2>2 DEF HandInv
<1>6. CASE WReady \/ WReopen \/ WRotate \/ WRotateRaises \/ WRollover
  BY <1>0, <1>6 DEF WReady, WReopen, WRotate, WRotateRaises, WRollover, Step,
     Goto, WriteFailed, AfterWrite, HandInv
<1>7. CASE WAppend \/ WAppendNothing \/ WAppendFails \/ WFsync
  BY <1>0, <1>7 DEF WAppend, WAppendNothing, WAppendFails, WFsync, Step,
     Goto, WriteFailed, AfterWrite, HandInv
<1> QED BY <1>1, <1>2, <1>3, <1>4, <1>5, <1>6, <1>7
        DEF Next, Worker, WritePath

\* A batch taken from the front of a queue is in the worker's hand.
LEMMA TakeKeeps ==
    ASSUME NEW queue \in Seq(Rec), NEW m, Take(queue, m)
    PROVE  Elems(queue) = Elems(hand') \cup Elems(From(queue, Len(hand')))
<1> DEFINE n == MinOf(Len(queue), WriteBatch)
<1>1. n \in 0..Len(queue) BY ConstantsAssumption DEF MinOf
<1>2. hand' = Upto(queue, n) BY DEF Take
<1> HIDE DEF n
<1>3. Len(hand') = n BY <1>1, <1>2, CutType
<1> QED BY <1>1, <1>2, <1>3, ElemsHalves

\* A batch that could not be written is in the backlog or counted, and nothing
\* else is.
LEMMA FailureKeeps ==
    ASSUME TypeInv, NEW counted, WriteFailed(counted)
    PROVE  /\ Elems(hand) \cup Elems(backlog) \subseteq Elems(backlog') \cup dropped'
           /\ Elems(backlog') \subseteq Elems(hand) \cup Elems(backlog)
           /\ dropped' \subseteq dropped \cup counted \cup Elems(hand)
                                   \cup Elems(backlog)
<1> DEFINE all    == IF mode = "live" THEN backlog \o hand ELSE hand \o backlog
           excess == IF Len(all) > RetryMax THEN Len(all) - RetryMax ELSE 0
<1>1. hand \in Seq(Rec) /\ backlog \in Seq(Rec)
  BY DEF TypeInv, TypeOK, WritingTypes
<1>2. all \in Seq(Rec) /\ Elems(all) = Elems(hand) \cup Elems(backlog)
  BY <1>1, ElemsConcat
<1>3. /\ backlog' = From(all, excess)
      /\ dropped' = dropped \cup counted \cup Elems(Upto(all, excess))
  BY DEF WriteFailed
<1> HIDE DEF all
<1>4. excess \in 0..Len(all)
  <2>1. Len(all) \in Nat /\ RetryMax \in Nat BY <1>2, ConstantsAssumption
  <2> QED BY <2>1
<1> HIDE DEF excess
<1>5. Elems(all) = Elems(Upto(all, excess)) \cup Elems(From(all, excess))
  BY <1>2, <1>4, ElemsHalves
<1> QED BY <1>2, <1>3, <1>5

\* A batch that is written can be read, and what could not be encoded is
\* counted.
LEMMA AppendKeeps ==
    ASSUME TypeInv, FileInv, AckedInv, WAppend
    PROVE  Elems(hand) \subseteq Stored' \cup dropped'
<1>1. PICK lines \in Encodings(hand) : ContentAppended(lines) /\ lines \in Seq(Rec)
  BY AppendContent
<1>2. /\ hand \in Seq(Rec) /\ acks \in [DOMAIN files -> Nat]
      /\ cur' = cur /\ dropped' = dropped \cup (Elems(hand) \cap Unserializable)
  BY DEF TypeInv, TypeOK, WritingTypes, DiskTypes, WAppend, Refused
<1>3. /\ cur \in DOMAIN files /\ cur \in DOMAIN files' /\ acks' = acks
      /\ Content(cur)' = Content(cur) \o Blob(lines) /\ file = "open"
  BY <1>1 DEF ContentAppended
<1>4. /\ Content(cur) \in Seq(Units(Rec)) /\ acks[cur] \in Nat
      /\ acks[cur] <= Len(Content(cur)) /\ EndsLine(Content(cur))
  <2>1. /\ Content(cur) \in Seq(Units(Rec)) /\ Len(files[cur]) \in Nat
        /\ Len(Content(cur)) \in Nat /\ Len(files[cur]) <= Len(Content(cur))
    BY <1>3, ContentType DEF TypeInv, TypeOK, DiskTypes
  <2>2. acks[cur] <= Len(files[cur]) /\ acks[cur] \in Nat
    BY <1>2, <1>3 DEF AckedInv
  <2> QED BY <1>3, <2>1, <2>2 DEF FileInv
<1>5. ASSUME NEW r \in Elems(hand) \ Unserializable PROVE r \in Stored'
  <2>1. PICK k \in 1..Len(lines) : lines[k] = r BY <1>1, <1>2, <1>5, EncodingsOnto
  <2>2. r \in Readable(Content(cur) \o Blob(lines), acks[cur])
    BY <1>1, <1>4, <2>1, ReadableAppended
  <2>3. r \in Readable(Content(cur)', acks'[cur]) BY <1>3, <2>2
  <2>5. \A s \in DOMAIN files' : Readable(Content(s)', acks'[s]) \subseteq Stored'
    BY DEF Stored
  <2>6. PICK c : c = cur OBVIOUS
  <2>7. Content(c)' = Content(cur)' BY <1>2, <2>6 DEF Content
  <2> QED BY <1>3, <2>3, <2>5, <2>6, <2>7
<1> QED BY <1>2, <1>5

Queued == Elems(pending) \cup Elems(hand) \cup Elems(backlog)

LEMMA QueuedStays ==
    ASSUME CleanDisk, TypeInv, FileInv, AckedInv, HandInv, [Next]_vars, ~Boot
    PROVE  Queued \subseteq Queued' \cup Stored' \cup dropped'
<1>t. /\ pending \in Seq(Rec) /\ hand \in Seq(Rec) /\ backlog \in Seq(Rec)
      /\ file # "closed" /\ ~Fault("rotate") /\ Elems(<<>>) = {}
  BY DEF TypeInv, TypeOK, SharedTypes, WritingTypes, FileInv, CleanDisk, Fault,
     Elems
<1>1. CASE UNCHANGED <<pending, hand, backlog>> BY <1>1 DEF Queued
<1>2. CASE Loop
  <2>1. UNCHANGED <<hand, backlog>> /\ (pending' = pending
                   \/ \E r \in Rec : pending' = Append(pending, r))
    BY <1>2 DEF Loop, Write, Close, worker, writing
  <2>2. ASSUME NEW r \in Rec, pending' = Append(pending, r)
        PROVE  Elems(pending) \subseteq Elems(pending')
    <3>1. \A i \in DOMAIN pending : /\ i \in DOMAIN pending'
                                   /\ pending'[i] = pending[i]
      BY <1>t, <2>2
    <3> QED BY <3>1 DEF Elems
  <2> QED BY <2>1, <2>2 DEF Queued
<1>3. CASE WCollect
  <2>1. hand = <<>> /\ Take(pending, "live") /\ backlog' = backlog
        /\ pending' = From(pending, Len(hand'))
    BY <1>3 DEF WCollect, HandInv
  <2> QED BY <1>t, <2>1, TakeKeeps DEF Queued
<1>4. CASE WRetryDue \/ WLast
  <2>1. CASE UNCHANGED <<pending, hand, backlog>> BY <2>1 DEF Queued
  <2>2. CASE /\ hand = <<>> /\ pending' = pending
             /\ \E m : Take(backlog, m)
             /\ backlog' = From(backlog, Len(hand'))
    BY <1>t, <2>2, TakeKeeps DEF Queued
  <2> QED BY <1>4, <2>1, <2>2 DEF WRetryDue, WLast, HandInv, loopSide, shared,
                                  writing
<1>5. CASE UNCHANGED pending /\ \E counted : WriteFailed(counted)
  BY <1>5, FailureKeeps DEF Queued
<1>6. CASE WAppend
  <2>1. UNCHANGED <<pending, backlog>> BY <1>6 DEF WAppend, loopSide, shared
  <2> QED BY <1>6, <2>1, AppendKeeps DEF Queued
<1>7. CASE WAppendNothing
  <2>1. UNCHANGED <<pending, backlog>> /\ Elems(hand) \subseteq dropped'
    BY <1>7 DEF WAppendNothing, Refused, loopSide, shared
  <2> QED BY <2>1 DEF Queued
<1>8. CASE WDropBacklog
  BY <1>8 DEF WDropBacklog, loopSide, shared, Queued
<1>9. CASE Leader \/ UNCHANGED vars \/ Terminated
  BY <1>1, <1>9 DEF Leader, Ask, Resume, DrainTimeout, CommitOk, CommitFails,
     LeaderCancelled, worker, writing, shared, vars, Terminated
<1>10. CASE Process BY <1>10 DEF Process, Restart, Crash
<1>11. CASE WStart \/ WRetryNothing \/ WRetryLater \/ WCollectNothing \/ WHouse
            \/ WHouseLater \/ WLoop \/ WClose \/ Control
  BY <1>1, <1>11 DEF WStart, WRetryNothing, WRetryLater, WCollectNothing,
     WHouse, WHouseLater, WLoop, WClose, Control, WDrainNothing, WDrain, WAck,
     WReturn, WFlush, WServed, Serve, Step, loopSide, shared, writing
<1>12. CASE WReady \/ WReopen \/ WRotate \/ WRotateRaises \/ WRollover
            \/ WAppendFails \/ WFsync
  BY <1>t, <1>1, <1>5, <1>12 DEF WReady, WReopen, WRotate, WRotateRaises,
     WRollover, WAppendFails, WFsync, Step, loopSide, shared, writing
<1> QED BY <1>2, <1>3, <1>4, <1>6, <1>7, <1>8, <1>9, <1>10, <1>11, <1>12
        DEF Next, Worker, WritePath

\* What a kill leaves: a record that could be read before still can be, or
\* was only in the buffer of the file object.
LEMMA KilledStored ==
    ASSUME TypeInv, TypeInv', Boot
    PROVE  /\ Stored' = OnDisk
           /\ Stored \subseteq OnDisk \cup {u[1] : u \in Elems(buf)}
<1>t. /\ files \in [DOMAIN files -> Seq(Units(Rec))]
      /\ acks \in [DOMAIN files -> Nat] /\ buf \in Seq(Units(Rec))
  BY DEF TypeInv, TypeOK, DiskTypes, HandleTypes
<1>1. files' = files /\ acks' = acks /\ file' = "none" BY DEF Boot, disk
<1>2. Stored' = OnDisk
  <2>1. \A s : Content(s)' = files[s] BY <1>1 DEF Content
  <2> QED BY <1>1, <2>1 DEF Stored, OnDisk
<1>3. ASSUME NEW s \in DOMAIN files, NEW e \in Whole(Content(s), acks[s])
      PROVE  Content(s)[e][1] \in OnDisk \cup {u[1] : u \in Elems(buf)}
  <2>1. CASE Content(s) = files[s] BY <2>1 DEF OnDisk, Readable
  <2>2. CASE Content(s) = files[s] \o buf
    <3> DEFINE text == files[s]
               both == text \o buf
               n == Len(text)
               m == Len(buf)
               a == acks[s]
    <3>1. /\ n \in Nat /\ m \in Nat /\ a \in Nat /\ Len(both) = n + m
          /\ \A i \in 1..(n + m) : both[i] = IF i <= n THEN text[i] ELSE buf[i - n]
      BY <1>t, ConcatProperties
    <3>2. /\ e \in (a + 2)..Len(both) /\ both[e][2] = 2
          /\ both[e - 1] = <<both[e][1], 1>>
          /\ e - 2 = a \/ both[e - 2][2] = 2
      BY <2>2 DEF Whole
    <3>b. \A i \in 1..m : buf[i] \in Elems(buf) BY <1>t DEF Elems
    <3>o. Readable(text, a) \subseteq OnDisk BY DEF OnDisk
    <3>c. Content(s) = both BY <2>2
    <3> HIDE DEF both, n, m, text, a
    <3>3. CASE e <= n
      <4>1. /\ e \in 1..(n + m) /\ e - 1 \in 1..(n + m) /\ e - 1 <= n
            /\ e - 2 # a => e - 2 \in 1..(n + m) /\ e - 2 <= n
            /\ e \in (a + 2)..n
        BY <3>1, <3>2, <3>3
      <4>2. /\ both[e] = text[e] /\ both[e - 1] = text[e - 1]
            /\ e - 2 # a => both[e - 2] = text[e - 2]
        BY <3>1, <3>3, <4>1
      <4>3. e \in Whole(text, a) BY <3>2, <4>1, <4>2 DEF Whole, n
      <4>4. text[e][1] \in Readable(text, a) BY <4>3 DEF Readable
      <4> QED BY <3>c, <3>o, <4>2, <4>4
    <3>4. CASE ~(e <= n)
      <4>1. e \in 1..(n + m) /\ e - n \in 1..m BY <3>1, <3>2, <3>4
      <4>2. both[e] = buf[e - n] BY <3>1, <3>4, <4>1
      <4> QED BY <3>b, <3>c, <4>1, <4>2
    <3> QED BY <3>3, <3>4
  <2> QED BY <2>1, <2>2 DEF Content
<1>4. Stored \subseteq OnDisk \cup {u[1] : u \in Elems(buf)}
  BY <1>3 DEF Stored, Readable
<1> QED BY <1>2, <1>4

\* Only write() accepts a record, and puts it into the queue.
LEMMA LoopQueues ==
    ASSUME TypeInv, Loop
    PROVE  \/ /\ Queued' = Queued /\ accepted' = accepted
           \/ \E r \in Rec : /\ r \notin accepted
                             /\ Queued' = Queued \cup {r}
                             /\ accepted' = accepted \cup {r}
<1>1. pending \in Seq(Rec) BY DEF TypeInv, TypeOK, SharedTypes
<1>2. UNCHANGED <<hand, backlog>>
  BY DEF Loop, Write, Close, worker, writing
<1>3. CASE Close
  <2>1. UNCHANGED <<pending, accepted>> BY <1>3 DEF Close, history
  <2> QED BY <1>2, <2>1 DEF Queued
<1>4. ASSUME NEW r \in Rec, Write(r)
      PROVE  /\ r \notin accepted /\ accepted' = accepted \cup {r}
             /\ Queued' = Queued \cup {r}
  <2>1. /\ r \notin accepted /\ accepted' = accepted \cup {r}
        /\ pending' = Append(pending, r)
    BY <1>4 DEF Write
  <2>2. /\ DOMAIN pending' = DOMAIN pending \cup {Len(pending) + 1}
        /\ \A i \in DOMAIN pending : pending'[i] = pending[i]
        /\ pending'[Len(pending) + 1] = r
    BY <1>1, <2>1
  <2>3. Elems(pending') = Elems(pending) \cup {r}
    <3>1. Len(pending) + 1 \in DOMAIN pending' BY <2>2
    <3> QED BY <2>2, <3>1 DEF Elems
  <2> QED BY <1>2, <2>1, <2>3 DEF Queued
<1> QED BY <1>3, <1>4 DEF Loop

LEMMA OnlyLoopAccepts == [Next]_vars /\ ~Loop => accepted' = accepted
BY DEF Next, Leader, Ask, Resume, DrainTimeout, CommitOk, CommitFails,
       LeaderCancelled, history, vars, Terminated, Process, Restart, Crash, Boot,
       Worker, WStart, WRetryNothing, WRetryLater, WRetryDue, WCollect,
       WCollectNothing, WritePath, Control, WHouse, WHouseLater, WLoop, WLast,
       WDropBacklog, WClose, WReady, WReopen, WRotate, WRotateRaises,
       WRollover, WAppend, WAppendNothing, WAppendFails, WFsync, WDrainNothing,
       WDrain, WAck, WReturn, WFlush, WServed, Step, Serve, loopSide

LEMMA LostStays ==
    ASSUME [Next]_vars
    PROVE  lost \subseteq lost' /\ (~Process => lost' = lost)
<1>1. CASE Process BY <1>1 DEF Process, Restart, Crash
<1>2. CASE ~Process
  <2>1. lost' = lost
    BY <1>2 DEF Next, Loop, Write, Close, Leader, Ask, Resume, DrainTimeout,
       CommitOk, CommitFails, LeaderCancelled, history, vars, Terminated,
       Worker, WStart, WRetryNothing, WRetryLater, WRetryDue, WCollect,
       WCollectNothing, WritePath, Control, WHouse, WHouseLater, WLoop, WLast,
       WDropBacklog, WClose, WReady, WReopen, WRotate, WRotateRaises,
       WRollover, WAppend, WAppendNothing, WAppendFails, WFsync, WDrainNothing,
       WDrain, WAck, WReturn, WFlush, WServed, Step, Serve, loopSide
  <2> QED BY <2>1
<1> QED BY <1>1, <1>2

LEMMA NoSilentLossStep ==
    ASSUME CleanDisk, LossInv, EndInv, HandInv, NoSilentLoss, [Next]_vars,
           TypeInv'
    PROVE  NoSilentLoss'
<1> USE DEF LossInv
<1> DEFINE Kept == db \cup dropped \cup lost \cup Held
<1>1. accepted' \subseteq Kept' => NoSilentLoss'
  BY DEF NoSilentLoss
<1>h. Held = Queued \cup Stored /\ Held' = Queued' \cup Stored'
  BY DEF Held, Queued
<1>d. db \cup dropped \subseteq db' \cup dropped' BY DoneGrows DEF Done
<1>l. lost \subseteq lost' BY LostStays
<1>a. accepted' \subseteq accepted \cup Held'
  BY <1>h, LoopQueues, OnlyLoopAccepts
<1>n. accepted \subseteq Kept BY DEF NoSilentLoss
<1>2. CASE ~Boot
  <2>1. Queued \subseteq Queued' \cup Stored' \cup dropped' BY <1>2, QueuedStays
  <2>2. Stored \subseteq Stored' \cup db' \cup dropped'
    BY <1>2, StoredStays
  <2> QED BY <1>1, <1>h, <1>d, <1>l, <1>a, <1>n, <2>1, <2>2
<1>3. CASE Boot
  <2>1. Stored' = OnDisk /\ Stored \subseteq OnDisk \cup {u[1] : u \in Elems(buf)}
    BY <1>3, KilledStored
  <2>2. Queued \cup {u[1] : u \in Elems(buf)} = InMemory BY DEF Queued, InMemory
  <2>3. UNCHANGED <<db, dropped>> BY <1>3 DEF Boot
  <2>4. CASE lost' = lost \cup (InMemory \ (OnDisk \cup db \cup dropped))
    BY <1>1, <1>h, <1>d, <1>a, <1>n, <2>1, <2>2, <2>3, <2>4
  <2>5. CASE closed /\ wpc = "done"
    <3>1. pending = <<>> /\ hand = <<>> /\ backlog = <<>> /\ file = "none"
      BY <2>5 DEF EndInv, Ending, HandInv
    <3>2. Queued = {} BY <3>1 DEF Queued, Elems
    <3>3. Stored = OnDisk BY <3>1 DEF Stored, OnDisk, Content
    <3> QED BY <1>1, <1>h, <1>d, <1>l, <1>a, <1>n, <2>1, <3>2, <3>3
  <2>6. CASE ~Process
    <3>1. boots' = boots + 1 /\ boots \in Nat /\ boots' # boots
      BY <1>3 DEF Boot, TypeInv, TypeOK, BoundTypes
    <3>2. boots' = boots
      BY <2>6 DEF Next, Loop, Write, Close, Leader, Ask, Resume, DrainTimeout,
         CommitOk, CommitFails, LeaderCancelled, history, bounds, vars,
         Terminated, Worker, WStart, WRetryNothing, WRetryLater, WRetryDue,
         WCollect, WCollectNothing, WritePath, Control, WHouse, WHouseLater,
         WLoop, WLast, WDropBacklog, WClose, WReady, WReopen, WRotate,
         WRotateRaises, WRollover, WAppend, WAppendNothing, WAppendFails,
         WFsync, WDrainNothing, WDrain, WAck, WReturn, WFlush, WServed, Step,
         Serve, loopSide
    <3> QED BY <3>1, <3>2
  <2> QED BY <2>4, <2>5, <2>6 DEF Process, Restart, Crash
<1> QED BY <1>2, <1>3

\* No record that write() accepted vanishes without a trace, through failed
\* writes, timeouts, cancelled leaders, restarts and kills: it is in the
\* database, counted, still held, or was in the memory of a killed process
\* only.
THEOREM NothingLostSilently ==
    ASSUME CleanDisk
    PROVE  Spec => []NoSilentLoss
<1>1. Init => HandInv /\ EndInv /\ NoSilentLoss
  BY DEF Init, HandInv, EndInv, Ending, NoSilentLoss
<1>2. TypeInv /\ FileInv /\ HandInv /\ [Next]_vars => HandInv' BY HandInvStep
<1>3. LossInv /\ EndInv /\ HandInv /\ NoSilentLoss /\ [Next]_vars /\ TypeInv'
          => NoSilentLoss'
  BY NoSilentLossStep
<1>4. LossInv => TypeInv /\ FileInv BY DEF LossInv
<1>5. Spec => []LossInv BY AckedHolds
<1> QED BY <1>1, <1>2, <1>3, <1>4, <1>5, EndInvStep, TypeInvHolds, PTL DEF Spec
-----------------------------------------------------------------------------
(* The spill is a ReplayStore: the parts.                                  *)

\* The records with a unit in a text.
Written(text) == {u[1] : u \in Elems(text)}

LEMMA WrittenConcat ==
    ASSUME NEW text \in Seq(Units(Rec)), NEW more \in Seq(Units(Rec))
    PROVE  Written(text \o more) = Written(text) \cup Written(more)
<1>1. Elems(text \o more) = Elems(text) \cup Elems(more) BY ElemsConcat
<1> QED BY <1>1 DEF Written

\* The lines of a batch are of its records.
LEMMA WrittenLines ==
    ASSUME NEW batch \in Seq(Rec), NEW lines \in Encodings(batch)
    PROVE  Written(Blob(lines)) \subseteq Elems(batch)
<1> DEFINE good == {i \in DOMAIN batch : batch[i] \notin Unserializable}
           n == Cardinality(good)
           m == Len(lines)
<1>1. PICK f \in [1..n -> good] : lines = [k \in 1..n |-> batch[f[k]]]
  BY DEF Encodings
<1>2. \A k \in DOMAIN lines : lines[k] \in Elems(batch)
  <2>1. \A k \in 1..n : f[k] \in DOMAIN batch OBVIOUS
  <2> QED BY <1>1, <2>1 DEF Elems
<1>3. lines \in Seq(Rec) BY EncodingsType
<1> HIDE DEF good, n
<1>4. m \in Nat /\ DOMAIN lines = 1..m BY <1>3
<1>5. Blob(lines) = [i \in 1..(2 * m) |->
          <<lines[(i + 1) \div 2], IF i % 2 = 1 THEN 1 ELSE 2>>]
  BY DEF Blob
<1> HIDE DEF m
<1>6. \A i \in 1..(2 * m) : (i + 1) \div 2 \in 1..m BY <1>4
<1>7. ASSUME NEW u \in Elems(Blob(lines)) PROVE u[1] \in Elems(batch)
  <2>1. PICK i \in 1..(2 * m) : u = Blob(lines)[i] BY <1>5 DEF Elems
  <2>2. u[1] = lines[(i + 1) \div 2] BY <1>5, <2>1
  <2> QED BY <1>2, <1>4, <1>6, <2>2
<1> QED BY <1>7 DEF Written

\* What can be read after lines were appended could be read before, or is of
\* the new lines.
LEMMA ReadableOfConcat ==
    ASSUME NEW text \in Seq(Units(Rec)), NEW more \in Seq(Units(Rec)),
           NEW a \in Nat
    PROVE  Readable(text \o more, a) \subseteq Readable(text, a) \cup Written(more)
<1> DEFINE both == text \o more
           n == Len(text)
           m == Len(more)
<1>1. /\ n \in Nat /\ m \in Nat /\ Len(both) = n + m
      /\ \A i \in 1..(n + m) : both[i] = IF i <= n THEN text[i] ELSE more[i - n]
  BY ConcatProperties
<1>2. \A i \in 1..m : more[i] \in Elems(more) BY DEF Elems
<1> SUFFICES ASSUME NEW e \in Whole(both, a)
             PROVE  both[e][1] \in Readable(text, a) \cup Written(more)
  BY DEF Readable
<1>3. /\ e \in (a + 2)..Len(both) /\ both[e][2] = 2
      /\ both[e - 1] = <<both[e][1], 1>>
      /\ e - 2 = a \/ both[e - 2][2] = 2
  BY DEF Whole
<1> HIDE DEF both, m
<1>4. CASE e <= n
  <2>1. /\ e \in 1..(n + m) /\ e - 1 \in 1..(n + m) /\ e - 1 <= n
        /\ e - 2 # a => e - 2 \in 1..(n + m) /\ e - 2 <= n
        /\ e \in (a + 2)..n
    BY <1>1, <1>3, <1>4
  <2>2. /\ both[e] = text[e] /\ both[e - 1] = text[e - 1]
        /\ e - 2 # a => both[e - 2] = text[e - 2]
    <3> HIDE DEF n
    <3> QED BY <1>1, <1>4, <2>1
  <2>3. e \in Whole(text, a) BY <1>3, <2>1, <2>2 DEF Whole
  <2> QED BY <2>2, <2>3 DEF Readable
<1>5. CASE ~(e <= n)
  <2> HIDE DEF n
  <2>1. e \in 1..(n + m) /\ e - n \in 1..m BY <1>1, <1>3, <1>5
  <2>2. both[e] = more[e - n] BY <1>1, <1>5, <2>1
  <2> QED BY <1>2, <2>1, <2>2 DEF Written
<1> QED BY <1>4, <1>5

\* A segment that stays can still be read from where it is acked.
LEMMA ReadableStays ==
    ASSUME CleanDisk, LossInv, [Next]_vars, ~Boot, ~WAck,
           NEW s \in DOMAIN files, s \in DOMAIN files'
    PROVE  Readable(Content(s), acks[s]) \subseteq Readable(Content(s)', acks'[s])
<1> USE DEF LossInv
<1>t. Content(s) \in Seq(Units(Rec)) /\ acks[s] \in Nat
  BY ContentType DEF TypeInv, TypeOK, DiskTypes
<1>1. acks'[s] = acks[s]
  <2>1. CASE WDrain BY <2>1, DrainLends
  <2>2. CASE WHouse BY <2>2, CapSparesLoan DEF LoanInv
  <2>3. CASE ~WDrain /\ ~WHouse BY <2>3, OffsetsStay
  <2> QED BY <2>1, <2>2, <2>3
<1>2. CASE Content(s)' = Content(s) BY <1>1, <1>2
<1>3. CASE ContentKept \/ ContentShrunk
  BY <1>2, <1>3 DEF ContentKept, ContentShrunk, Keeps
<1>4. CASE WAppend /\ \E lines \in Encodings(hand) : ContentAppended(lines)
  <2>1. PICK lines \in Encodings(hand) : ContentAppended(lines) BY <1>4
  <2>2. CASE s # cur BY <1>2, <2>1, <2>2 DEF ContentAppended, Keeps
  <2>3. CASE s = cur
    <3>1. Content(s)' = Content(s) \o Blob(lines)
      <4>1. cur' = cur BY <1>4 DEF WAppend
      <4> QED BY <2>1, <2>3, <4>1 DEF ContentAppended
    <3>2. Blob(lines) \in Seq(Units(Rec))
      BY <2>1, EncodingsType, BlobType DEF TypeInv, TypeOK, WritingTypes
    <3> QED BY <1>t, <1>1, <3>1, <3>2, ReadableMore
  <2> QED BY <2>2, <2>3
<1> QED BY <1>3, <1>4, ContentSteps DEF ContentStep

\* Only a record that is in the worker's hand comes to be stored.
LEMMA StoredFrom ==
    ASSUME CleanDisk, LossInv, TypeInv', [Next]_vars, ~Boot
    PROVE  Stored' \subseteq Stored \cup Elems(hand)
<1> USE DEF LossInv
<1>t. acks \in [DOMAIN files -> Nat] /\ acks' \in [DOMAIN files' -> Nat]
      /\ hand \in Seq(Rec) /\ requests \in Seq(Requests)
  BY DEF TypeInv, TypeOK, DiskTypes, WritingTypes, SharedTypes
<1>0. SUFFICES ASSUME NEW s \in DOMAIN files'
               PROVE  Readable(Content(s)', acks'[s]) \subseteq Stored \cup Elems(hand)
  BY DEF Stored
<1>k. ASSUME s \in DOMAIN files, Content(s)' = Content(s), acks'[s] = acks[s]
      PROVE  Readable(Content(s)', acks'[s]) \subseteq Stored
  BY <1>k DEF Stored
<1>1. CASE ContentKept
  <2>1. CASE s \in DOMAIN files BY <1>1, <1>k, <2>1 DEF ContentKept, Keeps
  <2>2. CASE s \notin DOMAIN files
    <3>1. Content(s)' = <<>> /\ acks'[s] \in Nat
      BY <1>1, <1>t, <2>2 DEF ContentKept
    <3>2. Readable(<<>>, acks'[s]) = {} BY <3>1 DEF Readable, Whole
    <3> QED BY <3>1, <3>2
  <2> QED BY <2>1, <2>2
<1>2. CASE WAppend /\ \E lines \in Encodings(hand) : ContentAppended(lines)
  <2>1. PICK lines \in Encodings(hand) : ContentAppended(lines) BY <1>2
  <2>2. s \in DOMAIN files /\ acks'[s] = acks[s] /\ cur' = cur
    BY <1>2, <2>1 DEF ContentAppended, WAppend
  <2>3. CASE s # cur BY <1>k, <2>1, <2>2, <2>3 DEF ContentAppended, Keeps
  <2>4. CASE s = cur
    <3>1. Content(s)' = Content(s) \o Blob(lines)
      BY <2>1, <2>2, <2>4 DEF ContentAppended
    <3>2. /\ Content(s) \in Seq(Units(Rec)) /\ acks[s] \in Nat
          /\ Blob(lines) \in Seq(Units(Rec))
      BY <1>t, <2>2, ContentType, EncodingsType, BlobType
    <3>3. Readable(Content(s) \o Blob(lines), acks[s])
              \subseteq Readable(Content(s), acks[s]) \cup Written(Blob(lines))
      BY <3>2, ReadableOfConcat
    <3>4. Written(Blob(lines)) \subseteq Elems(hand) BY <1>t, WrittenLines
    <3>5. Readable(Content(s), acks[s]) \subseteq Stored BY <2>2 DEF Stored
    <3> QED BY <2>2, <3>1, <3>3, <3>4, <3>5
  <2> QED BY <2>3, <2>4
<1>3. CASE (WDrain \/ WHouse) /\ ContentShrunk
  <2>1. s \in DOMAIN files /\ Content(s)' = Content(s)
    BY <1>3 DEF ContentShrunk, Keeps
  <2>2. acks'[s] = acks[s]
    BY <1>3, DrainLends, CapSparesLoan DEF LoanInv
  <2> QED BY <1>k, <2>1, <2>2
<1>4. CASE WAck /\ ContentShrunk
  <2>1. s \in DOMAIN files /\ Content(s)' = Content(s)
    BY <1>4 DEF ContentShrunk, Keeps
  <2>2. CASE acks'[s] = acks[s] BY <1>k, <2>1, <2>2
  <2>3. CASE \E t \in inflight : t[1] = s /\ acks'[s] = t[2]
    <3>1. PICK t \in inflight : t[1] = s /\ acks'[s] = t[2] BY <2>3
    <3>2. t[2] \in Nat /\ acks[s] \in Nat /\ acks[s] <= t[2]
      BY <1>t, <2>1, <3>1 DEF LoanInv, LoanIsThere
    <3>3. 1 \in DOMAIN requests /\ Head(requests) = requests[1]
          /\ requests[1].kind = "ack"
      BY <1>4, <1>t DEF WAck, Serve
    <3>4. Aligned(Content(s), t[2])
      BY <3>1, <3>3 DEF LoanCovered, LoanCovers, Covers
    <3>5. Content(s) \in Seq(Units(Rec)) BY <2>1, ContentType
    <3>6. ASSUME NEW e \in Whole(Content(s), t[2])
          PROVE  e \in Whole(Content(s), acks[s])
      <4>1. e \in Whole(Content(s), 0) BY <3>2, <3>4, <3>5, WholeToStart
      <4>2. e \in (t[2] + 2)..Len(Content(s)) BY DEF Whole
      <4>3. ~(e <= acks[s] + 1) BY <3>2, <3>5, <4>2
      <4> QED BY <3>2, <3>5, <4>1, <4>3, WholeFromStart
    <3>7. Readable(Content(s), t[2]) \subseteq Readable(Content(s), acks[s])
      BY <3>6 DEF Readable
    <3> QED BY <2>1, <3>1, <3>7 DEF Stored
  <2>4. acks'[s] = acks[s] \/ \E t \in inflight : t[1] = s /\ acks'[s] = t[2]
    <3> DEFINE tokens == Head(requests).tokens
    <3>1. tokens = inflight
      <4>1. requests # <<>> /\ Head(requests).kind = "ack"
        BY <1>4 DEF WAck, Serve
      <4>2. 1 \in DOMAIN requests /\ Head(requests) = requests[1]
        BY <1>t, <4>1
      <4> QED BY <4>1, <4>2 DEF LoanInv, AckIsOfLoan
    <3>2. /\ DOMAIN files' = DOMAIN files \ Finished(tokens)
          /\ \/ acks' = [x \in DOMAIN files \ Finished(tokens) |->
                            IF \E t \in tokens : t[1] = x
                            THEN (CHOOSE t \in tokens : t[1] = x)[2]
                            ELSE acks[x]]
             \/ acks' = Without(acks, Finished(tokens))
      BY <1>4 DEF WAck, Without
    <3> HIDE DEF tokens
    <3>3. DOMAIN acks = DOMAIN files BY <1>t
    <3> QED BY <3>1, <3>2, <3>3 DEF Without
  <2> QED BY <2>2, <2>3, <2>4
<1> QED BY <1>1, <1>2, <1>3, <1>4, ContentSteps DEF ContentStep

LEMMA QueuedFrom ==
    ASSUME TypeInv, [Next]_vars, ~Loop
    PROVE  Queued' \subseteq Queued
<1>t. /\ pending \in Seq(Rec) /\ hand \in Seq(Rec) /\ backlog \in Seq(Rec)
      /\ Elems(<<>>) = {}
  BY DEF TypeInv, TypeOK, SharedTypes, WritingTypes, Elems
<1>1. CASE UNCHANGED <<pending, hand, backlog>> BY <1>1 DEF Queued
<1>2. CASE WCollect
  <2>1. Take(pending, "live") /\ backlog' = backlog
        /\ pending' = From(pending, Len(hand'))
    BY <1>2 DEF WCollect
  <2> QED BY <1>t, <2>1, TakeKeeps DEF Queued
<1>3. CASE WRetryDue \/ WLast
  <2>1. CASE UNCHANGED <<pending, hand, backlog>> BY <2>1 DEF Queued
  <2>2. CASE /\ pending' = pending /\ \E m : Take(backlog, m)
             /\ backlog' = From(backlog, Len(hand'))
    BY <1>t, <2>2, TakeKeeps DEF Queued
  <2> QED BY <1>3, <2>1, <2>2 DEF WRetryDue, WLast, loopSide, shared, writing
<1>4. CASE UNCHANGED pending /\ \E counted : WriteFailed(counted)
  <2>1. PICK counted : WriteFailed(counted) BY <1>4
  <2>2. hand' = <<>> /\ Elems(backlog') \subseteq Elems(hand) \cup Elems(backlog)
    BY <2>1, FailureKeeps DEF WriteFailed
  <2> QED BY <1>4, <1>t, <2>2 DEF Queued
<1>5. CASE UNCHANGED <<pending, backlog>> /\ hand' = <<>>
  BY <1>5, <1>t DEF Queued
<1>6. CASE WDropBacklog BY <1>6, <1>t DEF WDropBacklog, loopSide, shared, Queued
<1>7. CASE Process BY <1>7, <1>t DEF Process, Restart, Crash, Boot, Queued
<1>8. CASE Leader \/ UNCHANGED vars \/ Terminated
  BY <1>1, <1>8 DEF Leader, Ask, Resume, DrainTimeout, CommitOk, CommitFails,
     LeaderCancelled, worker, writing, shared, vars, Terminated
<1>9. CASE WStart \/ WRetryNothing \/ WRetryLater \/ WCollectNothing \/ WHouse
           \/ WHouseLater \/ WLoop \/ WClose \/ Control
  BY <1>1, <1>9 DEF WStart, WRetryNothing, WRetryLater, WCollectNothing,
     WHouse, WHouseLater, WLoop, WClose, Control, WDrainNothing, WDrain, WAck,
     WReturn, WFlush, WServed, Serve, Step, loopSide, shared, writing
<1>10. CASE WReady \/ WReopen \/ WRotate \/ WRollover \/ WAppendFails \/ WFsync
  BY <1>1, <1>4, <1>10 DEF WReady, WReopen, WRotate, WRollover, WAppendFails,
     WFsync, Step, loopSide, shared, writing
<1>11. CASE WAppend \/ WAppendNothing \/ WRotateRaises
  BY <1>5, <1>11 DEF WAppend, WAppendNothing, WRotateRaises, Raised, loopSide,
     shared
<1> QED BY <1>2, <1>3, <1>6, <1>7, <1>8, <1>9, <1>10, <1>11
        DEF Next, Worker, WritePath

\* Whatever the spill holds or has a unit of was accepted.
AcceptedInv ==
    /\ Queued \subseteq accepted
    /\ \A s \in DOMAIN files : Written(Content(s)) \subseteq accepted

\* What can be read has been written.
LEMMA ReadableWritten ==
    ASSUME NEW text \in Seq(Units(Rec)), NEW a \in Nat
    PROVE  Readable(text, a) \subseteq Written(text)
<1>1. ASSUME NEW e \in Whole(text, a) PROVE text[e][1] \in Written(text)
  <2>1. e \in DOMAIN text BY WholeType
  <2> QED BY <2>1 DEF Written, Elems
<1> QED BY <1>1 DEF Readable

LEMMA HeldAccepted ==
    ASSUME TypeInv, AcceptedInv
    PROVE  Held \subseteq accepted
<1>1. ASSUME NEW s \in DOMAIN files
      PROVE  Readable(Content(s), acks[s]) \subseteq accepted
  <2>1. Content(s) \in Seq(Units(Rec)) /\ acks[s] \in Nat
    BY ContentType DEF TypeInv, TypeOK, DiskTypes
  <2> QED BY <2>1, ReadableWritten DEF AcceptedInv
<1> QED BY <1>1 DEF Held, Stored, Queued, AcceptedInv

LEMMA AcceptedStep ==
    ASSUME CleanDisk, TypeInv, FileInv, AcceptedInv, [Next]_vars
    PROVE  AcceptedInv'
<1>t. /\ pending \in Seq(Rec) /\ hand \in Seq(Rec) /\ buf \in Seq(Units(Rec))
      /\ files \in [DOMAIN files -> Seq(Units(Rec))]
  BY DEF TypeInv, TypeOK, SharedTypes, WritingTypes, HandleTypes, DiskTypes
<1>1. accepted \subseteq accepted'
  <2>1. CASE Loop BY <2>1 DEF Loop, Write, Close, history
  <2>2. CASE ~Loop BY <2>2, OnlyLoopAccepts
  <2> QED BY <2>1, <2>2
<1>2. Queued' \subseteq accepted'
  <2>1. CASE ~Loop BY <1>1, <2>1, QueuedFrom DEF AcceptedInv
  <2>2. CASE Loop BY <1>1, <1>t, <2>2, LoopQueues DEF AcceptedInv
  <2> QED BY <2>1, <2>2
<1>3. ASSUME NEW s \in DOMAIN files' PROVE Written(Content(s)') \subseteq accepted
  <2>1. CASE s \in DOMAIN files /\ Content(s)' = Content(s)
    BY <2>1 DEF AcceptedInv
  <2>2. CASE ContentKept
    <3>1. CASE s \in DOMAIN files BY <2>1, <2>2, <3>1 DEF ContentKept, Keeps
    <3>2. CASE s \notin DOMAIN files
      <4>1. Content(s)' = <<>> BY <2>2, <3>2 DEF ContentKept
      <4>2. Written(<<>>) = {} BY DEF Written, Elems
      <4> QED BY <4>1, <4>2
    <3> QED BY <3>1, <3>2
  <2>3. CASE ContentShrunk BY <2>1, <2>3 DEF ContentShrunk, Keeps
  <2>4. CASE WAppend /\ \E lines \in Encodings(hand) : ContentAppended(lines)
    <3>1. PICK lines \in Encodings(hand) : ContentAppended(lines) BY <2>4
    <3>2. s \in DOMAIN files /\ cur' = cur BY <2>4, <3>1 DEF ContentAppended, WAppend
    <3>3. CASE s # cur BY <2>1, <3>1, <3>2, <3>3 DEF ContentAppended, Keeps
    <3>4. CASE s = cur
      <4>1. Content(s)' = Content(s) \o Blob(lines)
        BY <3>1, <3>2, <3>4 DEF ContentAppended
      <4>2. Content(s) \in Seq(Units(Rec)) /\ Blob(lines) \in Seq(Units(Rec))
        BY <1>t, <3>2, ContentType, EncodingsType, BlobType
      <4>3. Written(Content(s) \o Blob(lines))
                = Written(Content(s)) \cup Written(Blob(lines))
        BY <4>2, WrittenConcat
      <4>4. Written(Blob(lines)) \subseteq Elems(hand) BY <1>t, WrittenLines
      <4>5. Elems(hand) \subseteq accepted BY DEF AcceptedInv, Queued
      <4>6. Written(Content(s)) \subseteq accepted BY <3>2 DEF AcceptedInv
      <4> QED BY <4>1, <4>3, <4>4, <4>5, <4>6
    <3> QED BY <3>3, <3>4
  <2>5. CASE Boot
    <3>1. s \in DOMAIN files /\ Content(s)' = files[s]
      BY <2>5 DEF Boot, disk, Content
    <3>2. Written(files[s]) \subseteq Written(Content(s))
      <4>1. CASE Content(s) = files[s] BY <4>1
      <4>2. CASE Content(s) = files[s] \o buf
        <5>1. files[s] \in Seq(Units(Rec)) BY <1>t, <3>1
        <5> QED BY <1>t, <4>2, <5>1, WrittenConcat
      <4> QED BY <4>1, <4>2 DEF Content
    <3> QED BY <3>1, <3>2 DEF AcceptedInv
  <2> QED BY <2>2, <2>3, <2>4, <2>5, ContentSteps DEF ContentStep
<1>4. \A s \in DOMAIN files' : Written(Content(s)') \subseteq accepted'
  BY <1>1, <1>3
<1> QED BY <1>2, <1>4 DEF AcceptedInv

\* The batch the leader holds is still stored.
LeaseHeld ==
    /\ Holding => \A r \in lease.recs : \E t \in inflight :
                      r \in Readable(Content(t[1]), acks[t[1]])
    /\ cpc = "commit" => lease.recs # {}

LEMMA LeaseHeldStep ==
    ASSUME CleanDisk, LossInv, TypeInv', LoanInv', LeaseHeld, [Next]_vars
    PROVE  LeaseHeld'
<1> USE DEF LossInv
<1>1. ASSUME cpc' = "commit" PROVE lease'.recs # {}
  <2>1. Resume \/ (cpc = "commit" /\ lease' = lease)
    <3>1. Holding' BY <1>1 DEF Holding
    <3>2. CASE ~WDrain
      <4>1. Holding /\ lease' = lease BY <3>1, <3>2, HoldingStays
      <4>2. Resume \/ cpc = "commit"
        BY <1>1, <3>2 DEF Next, Loop, Write, Close, Leader, Ask, DrainTimeout,
         CommitOk, CommitFails, LeaderCancelled, leader, vars, Terminated,
         Process, Restart, Crash, Boot, Worker, WStart, WRetryNothing,
         WRetryLater, WRetryDue, WCollect, WCollectNothing, WritePath, Control,
         WHouse, WHouseLater, WLoop, WLast, WDropBacklog, WClose, WReady,
         WReopen, WRotate, WRotateRaises, WRollover, WAppend, WAppendNothing,
         WAppendFails, WFsync, WDrainNothing, WAck, WReturn, WFlush, WServed,
         Step, Serve, loopSide, Answer
      <4> QED BY <4>1, <4>2
    <3>3. CASE WDrain
      <4>1. UNCHANGED leader BY <1>1, <3>3 DEF WDrain, Answer
      <4> QED BY <1>1, <4>1 DEF leader
    <3> QED BY <3>2, <3>3
  <2> QED BY <1>1, <2>1 DEF Resume, LeaseHeld, NoBatch
<1>2. ASSUME Holding', NEW r \in lease'.recs
      PROVE  \E t \in inflight' : r \in Readable(Content(t[1])', acks'[t[1]])
  <2>1. CASE ~WDrain
    <3>1. Holding /\ lease' = lease BY <1>2, <2>1, HoldingStays
    <3>2. PICK t \in inflight : r \in Readable(Content(t[1]), acks[t[1]])
      BY <1>2, <3>1 DEF LeaseHeld
    <3>3. ~WAck /\ ~WReturn /\ ~Boot
      <4>1. requests \in Seq(Requests) BY DEF TypeInv, TypeOK, SharedTypes
      <4>2. \A i \in DOMAIN requests : requests[i].kind = "flush"
        BY <3>1 DEF Holding, LeaseInv, LeaseIsInflight
      <4>3. ASSUME NEW kind, Serve(kind) PROVE kind = "flush"
        <5>1. requests # <<>> /\ Head(requests).kind = kind BY <4>3 DEF Serve
        <5>2. 1 \in DOMAIN requests /\ Head(requests) = requests[1]
          BY <4>1, <5>1
        <5> QED BY <4>2, <5>1, <5>2
      <4>4. ~Boot BY <1>2 DEF Boot, Holding
      <4> QED BY <4>3, <4>4 DEF WAck, WReturn
    <3>4. inflight' = inflight BY <2>1, <3>3, LoanStays
    <3>5. t[1] \in DOMAIN files /\ t[1] \in DOMAIN files'
      BY <3>4 DEF LoanInv, LoanIsThere
    <3>6. PICK s : s = t[1] OBVIOUS
    <3>7. Readable(Content(s), acks[s]) \subseteq Readable(Content(s)', acks'[s])
      BY <3>3, <3>5, <3>6, ReadableStays
    <3> QED BY <3>2, <3>4, <3>6, <3>7
  <2>2. CASE WDrain
    <3>1. PICK fs : /\ Reads(fs)
                    /\ inflight' = DrainBatch(fs).tokens
                    /\ Answer(DrainBatch(fs))
      BY <2>2, DrainReads DEF Reads
    <3>2. lease' = DrainBatch(fs)
      <4>1. requests \in Seq(Requests) /\ requests # <<>>
            /\ Head(requests).kind \in DrainKinds
        BY <2>2 DEF WDrain, Serve, TypeInv, TypeOK, SharedTypes
      <4>2. 1 \in DOMAIN requests /\ Head(requests) = requests[1] BY <4>1
      <4>3. ~Holding
        BY <4>1, <4>2 DEF LeaseInv, LeaseIsInflight, Holding, DrainKinds
      <4>4. UNCHANGED leader \/ lease' = DrainBatch(fs) BY <3>1 DEF Answer
      <4> QED BY <1>2, <4>3, <4>4 DEF leader, Holding
    <3>3. PICK p \in Delivered(fs) : r = fs[p[1]][p[2]][1]
      BY <1>2, <3>2 DEF DrainBatch
    <3>4. wpc # "start" BY <2>2 DEF WDrain, Serve, Serving
    <3>5. PICK x \in DOMAIN files : p \in {x} \X Whole(fs[x], acks[x])
      BY <3>1, <3>3, <3>4, LinesAre DEF Delivered
    <3>6. /\ p[1] = x /\ p[2] \in Whole(fs[x], acks[x])
          /\ r \in Readable(fs[x], acks[x])
      BY <3>3, <3>5 DEF Readable
    <3>7. PICK t \in DrainBatch(fs).tokens : t[1] = x
      <4>1. CASE \E last \in Completing(fs) : last[1] = x
        BY <4>1 DEF DrainBatch
      <4>2. CASE \A last \in Completing(fs) : x # last[1]
        <5>1. p \in {q \in Delivered(fs) :
                        \A last \in Completing(fs) : q[1] # last[1]}
          BY <3>3, <3>6, <4>2
        <5>2. <<p[1], Len(fs[p[1]])>> \in DrainBatch(fs).tokens
          BY <5>1 DEF DrainBatch
        <5> QED BY <3>6, <5>2
      <4> QED BY <4>1, <4>2
    <3>8. t \in inflight' /\ x \in DOMAIN files'
      BY <3>1, <3>7 DEF LoanInv, LoanIsThere
    <3>9. Readable(Content(x), acks[x]) \subseteq Readable(Content(x)', acks'[x])
      <4>1. ~WAck /\ ~Boot
        BY <2>2 DEF WDrain, WAck, Serve, DrainKinds, Boot, Serving
      <4> QED BY <3>5, <3>8, <4>1, ReadableStays
    <3>10. fs[x] = Content(x) BY <3>1, <3>5 DEF Reads
    <3> QED BY <3>6, <3>7, <3>8, <3>9, <3>10
  <2> QED BY <2>1, <2>2
<1>3. Holding' => \A r \in lease'.recs : \E t \in inflight' :
                      r \in Readable(Content(t[1])', acks'[t[1]])
  BY <1>2
<1> QED BY <1>1, <1>3 DEF LeaseHeld

\* What waits in the file object was accepted.
LEMMA BufferAccepted ==
    ASSUME TypeInv, AcceptedInv
    PROVE  {u[1] : u \in Elems(buf)} \subseteq accepted
<1>1. CASE file = "open"
  <2>1. cur \in DOMAIN files /\ Content(cur) = files[cur] \o buf
    BY <1>1 DEF TypeInv, FileObject, Content
  <2>2. files[cur] \in Seq(Units(Rec)) /\ buf \in Seq(Units(Rec))
    BY <2>1 DEF TypeInv, TypeOK, DiskTypes, HandleTypes
  <2>3. Written(buf) \subseteq Written(Content(cur))
    BY <2>1, <2>2, WrittenConcat
  <2> QED BY <2>1, <2>3 DEF AcceptedInv, Written
<1>2. CASE file # "open"
  <2>1. buf = <<>> BY <1>2 DEF TypeInv, FileObject
  <2> QED BY <2>1 DEF Elems
<1> QED BY <1>1, <1>2

\* The worker gives up only what the spill holds.
LEMMA DroppedHeld ==
    ASSUME TypeInv, FileInv, Worker
    PROVE  dropped' \subseteq dropped \cup Held
<1>h. Elems(hand) \cup Elems(backlog) \cup Stored \subseteq Held BY DEF Held
<1>r. Refused \subseteq Elems(hand) BY DEF Refused
<1>1. CASE dropped' = dropped BY <1>1
<1>2. CASE \E counted : counted \subseteq Elems(hand) /\ WriteFailed(counted)
  BY <1>2, <1>h, FailureKeeps
<1>3. CASE WAppend \/ WAppendNothing
  BY <1>3, <1>h, <1>r DEF WAppend, WAppendNothing
<1>4. CASE WHouse
  <2>1. Given(Victims) \subseteq Stored
    <3>1. ASSUME NEW s \in Victims
          PROVE  Readable(files[s], acks[s]) \subseteq Stored
      <4>1. s \in DOMAIN files /\ s # cur BY DEF Victims, Candidates
      <4>2. Content(s) = files[s] BY <4>1 DEF Content
      <4> QED BY <4>1, <4>2 DEF Stored
    <3> HIDE DEF Victims
    <3> QED BY <3>1 DEF Given
  <2>2. dropped' = dropped \cup Given(Victims) BY <1>4 DEF WHouse
  <2> QED BY <1>h, <2>1, <2>2
<1>5. CASE WDropBacklog BY <1>5, <1>h DEF WDropBacklog
<1>6. CASE WReopen \/ WRollover \/ WAppendFails
  BY <1>1, <1>2, <1>6, <1>r DEF WReopen, WRollover, WAppendFails
<1>7. CASE Worker /\ ~WAppend /\ ~WAppendNothing /\ ~WHouse /\ ~WDropBacklog
           /\ ~WReopen /\ ~WRollover /\ ~WAppendFails
  BY <1>1, <1>7 DEF Worker, WStart, WRetryNothing, WRetryLater, WRetryDue,
     WCollect, WCollectNothing, WritePath, Control, WHouseLater, WLoop, WLast,
     WClose, WReady, WRotate, WRotateRaises, WFsync, WDrainNothing, WDrain,
     WAck, WReturn, WFlush, WServed, Step, Serve, Raised, loopSide, history
<1> QED BY <1>3, <1>4, <1>5, <1>6, <1>7

\* A worker's step is no step of the loop or the process, and leaves the
\* leader as it is unless it answers a drain.
LEMMA WorkerOnly ==
    ASSUME TypeInv, LeaseInv, Worker
    PROVE  /\ ~Loop /\ ~Boot
           /\ UNCHANGED <<db, lost>>
           /\ cpc = "commit" => UNCHANGED leader
           /\ cpc # "commit" => cpc' # "commit"
<1>0. requests \in Seq(Requests) /\ boots \in Nat
  BY DEF TypeInv, TypeOK, SharedTypes, BoundTypes
<1>1. UNCHANGED <<db, lost, accepted, closed, boots>>
  BY DEF Worker, WStart, WRetryNothing, WRetryLater, WRetryDue, WCollect,
     WCollectNothing, WritePath, Control, WHouse, WHouseLater, WLoop, WLast,
     WDropBacklog, WClose, WReady, WReopen, WRotate, WRotateRaises,
     WRollover, WAppend, WAppendNothing, WAppendFails, WFsync, WDrainNothing,
     WDrain, WAck, WReturn, WFlush, WServed, Step, Serve, loopSide, shared,
     history, bounds
<1>2. ~Loop /\ ~Boot
  <2>1. ~Boot BY <1>0, <1>1 DEF Boot
  <2>2. ~Close BY <1>1 DEF Close
  <2>3. ~(\E r \in Rec : Write(r))
    <3>1. \A r : accepted # accepted \cup {r} \/ r \in accepted OBVIOUS
    <3> QED BY <1>1, <3>1 DEF Write
  <2> QED BY <2>1, <2>2, <2>3 DEF Loop
<1>3. CASE WDrain \/ WDrainNothing
  <2>1. requests # <<>> /\ Head(requests).kind \in DrainKinds
    BY <1>3 DEF WDrain, WDrainNothing, Serve
  <2>2. 1 \in DOMAIN requests /\ Head(requests) = requests[1] BY <1>0, <2>1
  <2>3. cpc # "commit"
    BY <2>1, <2>2 DEF LeaseInv, LeaseIsInflight, DrainKinds
  <2>4. cpc' = "answered" \/ cpc' = cpc
    BY <1>3 DEF WDrain, WDrainNothing, Answer, leader
  <2> QED BY <1>1, <1>2, <2>3, <2>4
<1>4. CASE ~WDrain /\ ~WDrainNothing
  <2>1. UNCHANGED leader
    BY <1>4 DEF Worker, WStart, WRetryNothing, WRetryLater, WRetryDue, WCollect,
       WCollectNothing, WritePath, Control, WHouse, WHouseLater, WLoop, WLast,
       WDropBacklog, WClose, WReady, WReopen, WRotate, WRotateRaises,
       WRollover, WAppend, WAppendNothing, WAppendFails, WFsync,
       WAck, WReturn, WFlush, WServed, Step, loopSide
  <2> QED BY <1>1, <1>2, <2>1 DEF leader
<1> QED BY <1>3, <1>4

\* Neither the leader nor the loop touches what is stored.
LEMMA StoredSame ==
    ASSUME Loop \/ Leader \/ UNCHANGED vars
    PROVE  Stored' = Stored
<1>1. UNCHANGED <<files, acks, cur, file, buf>>
  BY DEF Loop, Leader, Write, Close, Ask, Resume, DrainTimeout, CommitOk,
     CommitFails, LeaderCancelled, worker, store, handle, disk, vars
<1> QED BY <1>1 DEF Stored, Content

RefineInv == LossInv /\ EndInv /\ HandInv /\ NoSilentLoss /\ AcceptedInv /\ LeaseHeld

Lent == IF cpc = "commit" THEN lease.recs ELSE {}
GivenUp == dropped \cup lost

\* The steps of ReplayStore, in the variables of the spill.
RefineStep ==
    \/ \E r \in Rec : r \notin Held /\ Held' = Held \cup {r}
                      /\ UNCHANGED <<Lent, db, GivenUp>>
    \/ Lent = {} /\ Lent' # {} /\ Lent' \subseteq Held /\ Lent' \subseteq Rec
       /\ UNCHANGED <<Held, db, GivenUp>>
    \/ \E recs \in SUBSET Rec :
          /\ recs \subseteq Held \cap (db \cup GivenUp)
          /\ Held' = Held \ recs
          /\ UNCHANGED <<Lent, db, GivenUp>>
    \/ \E recs \in SUBSET Rec :
          /\ recs \subseteq Held /\ GivenUp' = GivenUp \cup recs
          /\ Held' \subseteq Held /\ Held \ recs \subseteq Held'
          /\ UNCHANGED <<Lent, db>>
    \/ \E recs \in SUBSET Rec :
          /\ recs \subseteq Held /\ Lent' = {}
          /\ GivenUp' = GivenUp \cup (recs \ db)
          /\ Held' = Held \ recs /\ db' = db
    \/ /\ Lent # {} /\ Lent' = {} /\ db' \in {db, db \cup Lent}
       /\ UNCHANGED <<Held, GivenUp>>
    \/ UNCHANGED <<Held, Lent, db, GivenUp>>

LEMMA LoopRefines ==
    ASSUME RefineInv, Loop
    PROVE  RefineStep
<1>1. UNCHANGED <<Lent, db, GivenUp>>
  BY DEF Loop, Write, Close, leader, history, Lent, GivenUp
<1>2. Held = Queued \cup Stored /\ Held' = Queued' \cup Stored'
  BY DEF Held, Queued
<1>3. Stored' = Stored BY StoredSame
<1>4. Held \subseteq accepted BY HeldAccepted DEF RefineInv, LossInv
<1>5. TypeInv BY DEF RefineInv, LossInv
<1>6. CASE Queued' = Queued
  <2>1. Held' = Held BY <1>2, <1>3, <1>6
  <2> QED BY <1>1, <2>1 DEF RefineStep
<1>7. ASSUME NEW r \in Rec, r \notin accepted, Queued' = Queued \cup {r}
      PROVE  RefineStep
  <2>1. r \notin Held /\ Held' = Held \cup {r} BY <1>2, <1>3, <1>4, <1>7
  <2> QED BY <1>1, <2>1 DEF RefineStep
<1> QED BY <1>5, <1>6, <1>7, LoopQueues

LEMMA LeaderRefines ==
    ASSUME RefineInv, Leader
    PROVE  RefineStep
<1>1. UNCHANGED <<Held, GivenUp>>
  <2>1. UNCHANGED <<pending, hand, backlog, dropped, lost>>
    BY DEF Leader, Ask, Resume, DrainTimeout, CommitOk, CommitFails,
       LeaderCancelled, worker, writing, shared, history
  <2>2. Stored' = Stored BY StoredSame
  <2> QED BY <2>1, <2>2 DEF Held, GivenUp
<1>t. cpc \in {"idle", "wait", "answered", "commit"} /\ lease.recs \subseteq Rec
  BY DEF RefineInv, LossInv, TypeInv, TypeOK, LeaderTypes, Batch
<1>2. CASE Ask \/ DrainTimeout
  <2>1. UNCHANGED <<Lent, db>>
    BY <1>2 DEF Ask, DrainTimeout, Lent, history, NoBatch
  <2> QED BY <1>1, <2>1 DEF RefineStep
<1>3. CASE Resume
  <2>1. db' = db /\ Lent = {} BY <1>3 DEF Resume, Lent, history
  <2>2. CASE lease.recs = {}
    <3>1. Lent' = {} BY <1>3, <2>2 DEF Resume, Lent
    <3>2. UNCHANGED <<Held, Lent, db, GivenUp>> BY <1>1, <2>1, <3>1
    <3> QED BY <3>2 DEF RefineStep
  <2>3. CASE lease.recs # {}
    <3>1. Lent' = lease.recs /\ Holding
      BY <1>3, <2>3 DEF Resume, Lent, Holding
    <3>2. lease.recs \subseteq Held
      <4>1. \A t \in inflight : t[1] \in DOMAIN files
        BY DEF RefineInv, LossInv, LoanInv, LoanIsThere
      <4>2. \A r \in lease.recs : r \in Stored
        BY <3>1, <4>1 DEF RefineInv, LeaseHeld, Stored
      <4> QED BY <4>2 DEF Held
    <3> QED BY <1>1, <1>t, <2>1, <2>3, <3>1, <3>2 DEF RefineStep
  <2> QED BY <2>2, <2>3
<1>4. CASE cpc = "commit" /\ (CommitOk \/ CommitFails \/ LeaderCancelled)
  <2>1. Lent = lease.recs /\ Lent # {}
    BY <1>4 DEF Lent, RefineInv, LeaseHeld
  <2>2. cpc' = "idle" /\ db' \in {db, db \cup lease.recs}
    BY <1>4 DEF CommitOk, CommitFails, LeaderCancelled
  <2>3. Lent' = {} BY <2>2 DEF Lent
  <2> QED BY <1>1, <2>1, <2>2, <2>3 DEF RefineStep
<1>5. CASE cpc # "commit" /\ LeaderCancelled
  <2>1. cpc' = "idle" /\ db' = db BY <1>5 DEF LeaderCancelled
  <2>2. Lent = {} /\ Lent' = {} BY <1>5, <2>1 DEF Lent
  <2>3. UNCHANGED <<Held, Lent, db, GivenUp>> BY <1>1, <2>1, <2>2
  <2> QED BY <2>3 DEF RefineStep
<1>6. CommitOk \/ CommitFails => cpc = "commit" BY DEF CommitOk, CommitFails
<1> QED BY <1>2, <1>3, <1>4, <1>5, <1>6 DEF Leader

LEMMA WorkerRefines ==
    ASSUME CleanDisk, RefineInv, TypeInv', [Next]_vars, Worker
    PROVE  RefineStep
<1> USE DEF RefineInv, LossInv
<1>0. /\ ~Loop /\ ~Boot /\ UNCHANGED <<db, lost>> /\ Lent' = Lent
  <2>1. /\ ~Loop /\ ~Boot
        /\ UNCHANGED <<db, lost>>
        /\ cpc = "commit" => UNCHANGED leader
        /\ cpc # "commit" => cpc' # "commit"
    BY WorkerOnly
  <2> QED BY <2>1 DEF Lent, leader
<1>1. Held = Queued \cup Stored /\ Held' = Queued' \cup Stored'
  BY DEF Held, Queued
<1>2. Held' \subseteq Held
  <2>1. Queued' \subseteq Queued BY <1>0, QueuedFrom
  <2>2. Stored' \subseteq Stored \cup Elems(hand) BY <1>0, StoredFrom
  <2> QED BY <1>1, <2>1, <2>2 DEF Queued
<1>3. Held \subseteq Rec
  <2>1. Held \subseteq accepted BY HeldAccepted
  <2> QED BY <2>1 DEF TypeInv, TypeOK, HistoryTypes
<1>4. Queued \subseteq Queued' \cup Stored' \cup dropped'
  BY <1>0, QueuedStays
<1>5. Stored \subseteq Stored' \cup dropped' \cup (IF WAck THEN db' ELSE {})
  BY <1>0, StoredStays
<1>6. CASE WAck
  <2>1. dropped' = dropped BY <1>6 DEF WAck, Serve, history
  <2> DEFINE recs == Held \ Held'
  <2>2. /\ recs \in SUBSET Rec /\ recs \subseteq Held \cap (db \cup GivenUp)
        /\ Held' = Held \ recs
    BY <1>0, <1>1, <1>2, <1>3, <1>4, <1>5, <2>1 DEF GivenUp
  <2>3. UNCHANGED <<Lent, db, GivenUp>> BY <1>0, <2>1 DEF GivenUp
  <2> HIDE DEF recs
  <2> QED BY <2>2, <2>3 DEF RefineStep
<1>7. CASE ~WAck
  <2> DEFINE recs == Held \cap dropped'
  <2>1. dropped' \subseteq dropped \cup Held BY DroppedHeld
  <2>2. dropped \subseteq dropped' BY DoneGrows
  <2>3. /\ recs \in SUBSET Rec /\ recs \subseteq Held
        /\ GivenUp' = GivenUp \cup recs /\ Held \ recs \subseteq Held'
    BY <1>0, <1>1, <1>3, <1>4, <1>5, <1>7, <2>1, <2>2 DEF GivenUp
  <2> HIDE DEF recs
  <2> QED BY <1>0, <1>2, <2>3 DEF RefineStep
<1> QED BY <1>6, <1>7

LEMMA ProcessRefines ==
    ASSUME RefineInv, TypeInv', Process
    PROVE  RefineStep
<1> USE DEF RefineInv, LossInv
<1>0. Boot BY DEF Process, Restart, Crash
<1>1. Held = Queued \cup Stored /\ Held' = Queued' \cup Stored'
  BY DEF Held, Queued
<1>2. /\ Queued' = {} /\ Lent' = {} /\ UNCHANGED <<db, dropped>>
  BY <1>0 DEF Boot, Queued, Elems, Lent
<1>3. Stored' = OnDisk /\ Stored \subseteq OnDisk \cup {u[1] : u \in Elems(buf)}
  BY <1>0, KilledStored
<1>4. OnDisk \subseteq Stored
  <2>1. ASSUME NEW s \in DOMAIN files
        PROVE  Readable(files[s], acks[s]) \subseteq Readable(Content(s), acks[s])
    <3>1. files[s] \in Seq(Units(Rec)) /\ buf \in Seq(Units(Rec)) /\ acks[s] \in Nat
      BY DEF TypeInv, TypeOK, DiskTypes, HandleTypes
    <3> QED BY <3>1, ReadableMore DEF Content
  <2> QED BY <2>1 DEF OnDisk, Stored
<1>5. Held \subseteq accepted /\ accepted \subseteq Rec
  BY HeldAccepted DEF TypeInv, TypeOK, HistoryTypes
<1> DEFINE recs == Held \ OnDisk
<1>6. recs \in SUBSET Rec /\ recs \subseteq Held /\ Held' = Held \ recs
  BY <1>1, <1>2, <1>3, <1>4, <1>5
<1>7. GivenUp' = GivenUp \cup (recs \ db)
  <2>1. CASE Restart
    <3>1. pending = <<>> /\ hand = <<>> /\ backlog = <<>> /\ file = "none"
          /\ lost' = lost
      BY <2>1 DEF Restart, EndInv, Ending, HandInv
    <3>2. Queued = {} BY <3>1 DEF Queued, Elems
    <3>3. Stored = OnDisk BY <3>1 DEF Stored, OnDisk, Content
    <3> QED BY <1>1, <1>2, <3>1, <3>2, <3>3 DEF GivenUp
  <2>2. CASE Crash
    <3>1. lost' = lost \cup (InMemory \ (OnDisk \cup db \cup dropped))
      BY <2>2 DEF Crash
    <3>2. InMemory = Queued \cup {u[1] : u \in Elems(buf)}
      BY DEF InMemory, Queued
    <3>3. InMemory \subseteq accepted
      <4>1. {u[1] : u \in Elems(buf)} \subseteq accepted BY BufferAccepted
      <4> QED BY <3>2, <4>1 DEF AcceptedInv
    <3>4. accepted \subseteq db \cup dropped \cup lost \cup Held
      BY DEF NoSilentLoss
    <3>5. recs \subseteq InMemory BY <1>1, <1>3, <3>2
    <3> QED BY <1>2, <3>1, <3>3, <3>4, <3>5 DEF GivenUp
  <2> QED BY <2>1, <2>2 DEF Process
<1> HIDE DEF recs
<1> QED BY <1>2, <1>6, <1>7 DEF RefineStep

LEMMA StepsRefine ==
    ASSUME CleanDisk, RefineInv, TypeInv', [Next]_vars
    PROVE  RefineStep
<1>1. CASE UNCHANGED vars
  <2>1. UNCHANGED <<pending, hand, backlog, dropped, lost, db, cpc, lease>>
    BY <1>1 DEF vars, writing, shared, leader, history
  <2>2. Stored' = Stored BY <1>1, StoredSame
  <2>3. UNCHANGED <<Held, Lent, db, GivenUp>> BY <2>1, <2>2 DEF Held, Lent, GivenUp
  <2> QED BY <2>3 DEF RefineStep
<1> QED BY <1>1, LoopRefines, LeaderRefines, WorkerRefines, ProcessRefines
        DEF Next, Terminated

\* The spill implements the abstract ReplayStore: it lends one batch at a
\* time, only of records it holds, and lets go of a record only when it is in
\* the database or given up in the open.
THEOREM SpillIsReplayStore ==
    ASSUME CleanDisk
    PROVE  Spec => ImplementsStore
<1>1. Init => Store!StoreInit
  BY DEF Init, Store!StoreInit, Held, Stored, Elems
<1>2. RefineStep => [Store!StoreNext]_Store!storeVars
  <2>1. ASSUME NEW r \in Rec, r \notin Held, Held' = Held \cup {r},
               UNCHANGED <<Lent, db, GivenUp>>
        PROVE  Store!Accept(r)
    BY <2>1 DEF Store!Accept, Lent, GivenUp
  <2>2. ASSUME Lent = {}, Lent' # {}, Lent' \subseteq Held, Lent' \subseteq Rec,
               UNCHANGED <<Held, db, GivenUp>>
        PROVE  \E batch \in SUBSET Rec : Store!Lend(batch)
    BY <2>2 DEF Store!Lend, Lent, GivenUp
  <2>3. ASSUME NEW recs \in SUBSET Rec, recs \subseteq Held \cap (db \cup GivenUp),
               Held' = Held \ recs, UNCHANGED <<Lent, db, GivenUp>>
        PROVE  Store!Forget(recs)
    BY <2>3 DEF Store!Forget, Lent, GivenUp
  <2>4. ASSUME NEW recs \in SUBSET Rec, recs \subseteq Held,
               GivenUp' = GivenUp \cup recs, Held' \subseteq Held,
               Held \ recs \subseteq Held', UNCHANGED <<Lent, db>>
        PROVE  Store!GiveUp(recs)
    BY <2>4 DEF Store!GiveUp, Lent, GivenUp
  <2>5. ASSUME NEW recs \in SUBSET Rec, recs \subseteq Held, Lent' = {},
               GivenUp' = GivenUp \cup (recs \ db), Held' = Held \ recs, db' = db
        PROVE  Store!Die(recs)
    BY <2>5 DEF Store!Die, Lent, GivenUp
  <2>6. ASSUME Lent # {}, Lent' = {}, db' \in {db, db \cup Lent},
               UNCHANGED <<Held, GivenUp>>
        PROVE  Store!EndInsert
    BY <2>6 DEF Store!EndInsert, Lent, GivenUp
  <2>7. ASSUME UNCHANGED <<Held, Lent, db, GivenUp>>
        PROVE  UNCHANGED Store!storeVars
    BY <2>7 DEF Store!storeVars, Lent, GivenUp
  <2> QED BY <2>1, <2>2, <2>3, <2>4, <2>5, <2>6, <2>7
          DEF RefineStep, Store!StoreNext
<1>3. Init => HandInv /\ EndInv /\ AcceptedInv /\ LeaseHeld
  BY DEF Init, HandInv, EndInv, Ending, AcceptedInv, LeaseHeld, Queued, Elems,
         Holding
<1>4. LossInv /\ EndInv /\ HandInv /\ NoSilentLoss /\ AcceptedInv /\ LeaseHeld
      <=> RefineInv
  BY DEF RefineInv
<1>5. LossInv => TypeInv /\ FileInv /\ LoanInv BY DEF LossInv
<1>6. TypeInv /\ FileInv /\ HandInv /\ [Next]_vars => HandInv' BY HandInvStep
<1>7. TypeInv /\ FileInv /\ AcceptedInv /\ [Next]_vars => AcceptedInv'
  BY AcceptedStep
<1>8. LossInv /\ TypeInv' /\ LoanInv' /\ LeaseHeld /\ [Next]_vars => LeaseHeld'
  BY LeaseHeldStep
<1>9. RefineInv /\ TypeInv' /\ [Next]_vars => RefineStep BY StepsRefine
<1>10. Spec => []LossInv BY AckedHolds
<1>11. Spec => []NoSilentLoss BY NothingLostSilently
<1> QED BY <1>1, <1>2, <1>3, <1>4, <1>5, <1>6, <1>7, <1>8, <1>9, <1>10, <1>11,
           EndInvStep, PTL
        DEF Spec, ImplementsStore, Store!StoreSpec
-----------------------------------------------------------------------------
(* What is committed is not delivered again, as long as nothing fails and  *)
(* the process runs.  The failures that are left out here are all of them, *)
(* not only those of CleanDisk, but none of the constants is restricted:   *)
(* it is the behaviour so far that must be without a failure.              *)

Calm == faults = 0 /\ boots = 1

LEMMA CalmSteps ==
    ASSUME TypeInv, [Next]_vars, Calm'
    PROVE  Calm /\ UNCHANGED faults /\ ~Boot
<1>t. faults \in Nat /\ boots \in Nat \ {0}
  BY ConstantsAssumption DEF TypeInv, TypeOK, BoundTypes
<1>1. faults' \in {faults, faults + 1}
  <2>1. CASE Loop \/ Leader \/ UNCHANGED vars \/ Terminated
    BY <2>1 DEF Loop, Leader, Write, Close, Ask, Resume, DrainTimeout, CommitOk,
       CommitFails, LeaderCancelled, Fault, bounds, vars, Terminated
  <2>2. CASE Process BY <2>2 DEF Process, Restart, Crash, Boot
  <2>3. CASE WStart \/ WRetryNothing \/ WRetryLater \/ WRetryDue \/ WCollect
             \/ WCollectNothing \/ WHouse \/ WHouseLater \/ WLoop \/ WLast
             \/ WDropBacklog \/ WClose
    BY <2>3 DEF WStart, WRetryNothing, WRetryLater, WRetryDue, WCollect,
       WCollectNothing, WHouse, WHouseLater, WLoop, WLast, WDropBacklog, WClose,
       FlushAndDiscard, Step, NoFault, Fault, bounds
  <2>4. CASE WritePath
    BY <2>4 DEF WritePath, WReady, WReopen, WRotate, WRotateRaises, WRollover,
       WAppend, WAppendNothing, WAppendFails, WFsync, FsyncCur, Step, NoFault,
       Fault
  <2>5. CASE Control
    BY <2>5 DEF Control, WDrainNothing, WDrain, WAck, WReturn, WFlush, WServed,
       FsyncCur, Step, NoFault, Fault
  <2> QED BY <2>1, <2>2, <2>3, <2>4, <2>5 DEF Next, Worker
<1>2. boots' \in {boots, boots + 1} /\ (Boot => boots' = boots + 1)
  <2>1. CASE Loop \/ Leader \/ UNCHANGED vars \/ Terminated
    BY <2>1 DEF Loop, Leader, Write, Close, Ask, Resume, DrainTimeout, CommitOk,
       CommitFails, LeaderCancelled, Boot, bounds, vars, Terminated
  <2>2. CASE Process BY <2>2 DEF Process, Restart, Crash, Boot
  <2>3. CASE Worker
    BY <2>3 DEF Worker, WStart, WRetryNothing, WRetryLater, WRetryDue, WCollect,
       WCollectNothing, WritePath, Control, WHouse, WHouseLater, WLoop, WLast,
       WDropBacklog, WClose, WReady, WReopen, WRotate, WRotateRaises,
       WRollover, WAppend, WAppendNothing, WAppendFails, WFsync, WDrainNothing,
       WDrain, WAck, WReturn, WFlush, WServed, Step, Serve, loopSide, bounds,
       Boot
  <2> QED BY <2>1, <2>2, <2>3 DEF Next
<1> QED BY <1>t, <1>1, <1>2 DEF Calm

\* Nothing that a time-out, a cancellation or a failed insert leaves behind.
NothingReturned ==
    \A i \in DOMAIN requests : requests[i].kind \in {"drain", "ack", "flush"}

LEMMA NothingReturnedStep ==
    ASSUME TypeInv, NothingReturned, [Next]_vars, UNCHANGED faults, ~Boot
    PROVE  NothingReturned'
<1>t. requests \in Seq(Requests) /\ faults \in Nat
  BY ConstantsAssumption DEF TypeInv, TypeOK, SharedTypes, BoundTypes
<1>1. \A kind : ~Fault(kind) BY <1>t DEF Fault
<1>a. ASSUME NEW req, req.kind \in {"drain", "ack", "flush"},
             requests' \in {requests, Append(requests, req)}
      PROVE  NothingReturned'
  <2>1. \A i \in DOMAIN requests' :
            \/ i \in DOMAIN requests /\ requests'[i] = requests[i]
            \/ requests'[i] = req
    BY <1>t, <1>a
  <2> QED BY <1>a, <2>1 DEF NothingReturned
<1>2. CASE Loop \/ Ask
  <2>1. requests' \in {requests, Append(requests, Request("flush", {})),
                       Append(requests, Request("drain", {}))}
    BY <1>2 DEF Loop, Write, Close, Ask
  <2> QED BY <1>a, <2>1 DEF Request
<1>3. CASE CommitOk
  <2>1. requests' \in {requests, Append(requests, Request("ack", lease.tokens))}
    BY <1>3 DEF CommitOk, Send
  <2> QED BY <1>a, <2>1 DEF Request
<1>4. CASE Resume BY <1>4 DEF Resume, shared, NothingReturned
<1>5. CASE DrainTimeout \/ CommitFails \/ LeaderCancelled
  BY <1>1, <1>5 DEF DrainTimeout, CommitFails, LeaderCancelled
<1>6. CASE Worker /\ ~(\E kind : Serve(kind))
  BY <1>6, OtherStepsKeepLease DEF NothingReturned
<1>7. ASSUME NEW kind, Serve(kind) PROVE NothingReturned'
  <2>1. requests # <<>> /\ requests' = Tail(requests) BY <1>7 DEF Serve
  <2>2. \A i \in DOMAIN requests' :
            requests'[i] = requests[i + 1] /\ i + 1 \in DOMAIN requests
    BY <1>t, <2>1
  <2> QED BY <2>2 DEF NothingReturned
<1>8. CASE Process BY <1>8 DEF Process, Restart, Crash
<1>9. CASE UNCHANGED vars \/ Terminated
  BY <1>9 DEF vars, shared, Terminated, NothingReturned
<1> QED BY <1>2, <1>3, <1>4, <1>5, <1>6, <1>7, <1>8, <1>9 DEF Next, Leader

\* Records that are not written yet.
Waiting == Elems(pending) \cup Elems(hand)

Distinct(s) == \A i, j \in DOMAIN s : s[i] = s[j] => i = j

\* What a step without a failure does to them: it takes a new one, moves some
\* into the worker's hand, or empties the hand.
WaitingStep ==
    \/ UNCHANGED <<pending, hand, accepted>>
    \/ /\ \E r \in Rec \ accepted : /\ pending' = Append(pending, r)
                                    /\ accepted' = accepted \cup {r}
       /\ hand' = hand
    \/ /\ \E n \in 0..Len(pending) : /\ hand' = Upto(pending, n)
                                     /\ pending' = From(pending, n)
       /\ accepted' = accepted
    \/ hand' = <<>> /\ UNCHANGED <<pending, accepted>>

LEMMA WaitingSteps ==
    ASSUME TypeInv, backlog = <<>>, [Next]_vars, UNCHANGED faults, ~Boot
    PROVE  /\ backlog' = <<>> /\ WaitingStep
           /\ WAppend => hand' = <<>> /\ UNCHANGED <<pending, accepted>>
<1>t. faults \in Nat /\ pending \in Seq(Rec)
  BY ConstantsAssumption DEF TypeInv, TypeOK, SharedTypes, BoundTypes
<1>1. \A kind : ~Fault(kind) BY <1>t DEF Fault
<1> SUFFICES backlog' = <<>> /\ WaitingStep
  BY DEF WAppend, loopSide, shared
<1>a. WAppend => hand' = <<>> /\ UNCHANGED <<pending, accepted, backlog>>
  BY DEF WAppend, loopSide, shared
<1>2. CASE Loop
  BY <1>2 DEF Loop, Write, Close, worker, writing, history, WaitingStep
<1>3. CASE Leader \/ UNCHANGED vars \/ Terminated
  BY <1>3 DEF Leader, Ask, Resume, DrainTimeout, CommitOk, CommitFails,
     LeaderCancelled, worker, writing, shared, history, vars, Terminated,
     WaitingStep
<1>4. CASE Process BY <1>4 DEF Process, Restart, Crash
<1>5. CASE WCollect
  <2> DEFINE n == MinOf(Len(pending), WriteBatch)
  <2>1. n \in 0..Len(pending)
    BY <1>t, ConstantsAssumption DEF MinOf
  <2>2. hand' = Upto(pending, n) /\ pending' = From(pending, Len(hand'))
        /\ UNCHANGED <<backlog, accepted>>
    BY <1>5 DEF WCollect, Take, history
  <2> HIDE DEF n
  <2>3. Len(hand') = n BY <1>t, <2>1, <2>2, CutType
  <2> QED BY <2>1, <2>2, <2>3 DEF WaitingStep
<1>6. CASE WRetryDue \/ WLast \/ WDropBacklog
  BY <1>6 DEF WRetryDue, WLast, WDropBacklog, writing, loopSide, shared,
     WaitingStep
<1>7. CASE WStart \/ WRetryNothing \/ WRetryLater \/ WCollectNothing \/ WHouse
           \/ WHouseLater \/ WLoop \/ WClose
  BY <1>7 DEF WStart, WRetryNothing, WRetryLater, WCollectNothing, WHouse,
     WHouseLater, WLoop, WClose, Step, loopSide, shared, writing, WaitingStep
<1>8. CASE Control
  BY <1>8 DEF Control, WDrainNothing, WDrain, WAck, WReturn, WFlush, WServed,
     Serve, Step, loopSide, shared, writing, history, WaitingStep
<1>9. CASE WritePath
  <2>1. CASE WReady \/ WReopen \/ WRotate \/ WRollover \/ WFsync
    BY <1>1, <2>1 DEF WReady, WReopen, WRotate, WRollover, WFsync, Step, loopSide,
       shared, writing, WaitingStep
  <2>2. CASE WRotateRaises \/ WAppendNothing
    BY <2>2 DEF WRotateRaises, WAppendNothing, Raised, loopSide, shared,
       WaitingStep
  <2>3. CASE WAppendFails BY <1>1, <2>3 DEF WAppendFails
  <2>4. CASE WAppend BY <1>a, <2>4 DEF WaitingStep
  <2> QED BY <1>9, <2>1, <2>2, <2>3, <2>4 DEF WritePath
<1> QED BY <1>a, <1>2, <1>3, <1>4, <1>5, <1>6, <1>7, <1>8, <1>9 DEF Next, Worker

\* Records that have left the queues.
Out == accepted \ Waiting

\* A queue holds a record once, and no record is in both.
QueueOnce ==
    /\ backlog = <<>>
    /\ Distinct(pending) /\ Distinct(hand)
    /\ Elems(pending) \cap Elems(hand) = {}
    /\ Waiting \subseteq accepted

\* What is lent, committed or written is out of the queues, and it is written
\* once.
OutOnce ==
    /\ db \cup lease.recs \subseteq Out
    /\ \A s \in DOMAIN files : \A i \in DOMAIN Content(s) :
           Content(s)[i][1] \in Out
    /\ \A s, t \in DOMAIN files :
           \A i \in DOMAIN Content(s), j \in DOMAIN Content(t) :
               Content(s)[i] = Content(t)[j] => s = t /\ i = j

LEMMA DistinctAppend ==
    ASSUME NEW S, NEW s \in Seq(S), NEW r \in S, Distinct(s), r \notin Elems(s)
    PROVE  Distinct(Append(s, r)) /\ Elems(Append(s, r)) = Elems(s) \cup {r}
<1> DEFINE a == Append(s, r)
           n == Len(s)
<1>1. /\ n \in Nat /\ DOMAIN s = 1..n /\ DOMAIN a = 1..(n + 1)
      /\ \A i \in 1..n : a[i] = s[i]
      /\ a[n + 1] = r
  OBVIOUS
<1> HIDE DEF a, n
<1>2. \A i \in 1..(n + 1) : i \in 1..n \/ i = n + 1 BY <1>1
<1>3. \A i \in 1..n : s[i] # r /\ i \in 1..(n + 1) BY <1>1 DEF Elems
<1>4. n + 1 \in 1..(n + 1) BY <1>1
<1>5. Distinct(a)
  <2>1. ASSUME NEW i \in 1..(n + 1), NEW j \in 1..(n + 1), a[i] = a[j]
        PROVE  i = j
    <3>1. CASE i \in 1..n /\ j \in 1..n BY <1>1, <2>1, <3>1 DEF Distinct
    <3>2. CASE i = n + 1 \/ j = n + 1 BY <1>1, <1>2, <1>3, <2>1, <3>2
    <3> QED BY <1>2, <3>1, <3>2
  <2> QED BY <1>1, <2>1 DEF Distinct
<1>6. Elems(a) = Elems(s) \cup {r}
  <2>1. \A i \in 1..(n + 1) : a[i] \in Elems(s) \cup {r}
    BY <1>1, <1>2 DEF Elems
  <2>2. Elems(s) \cup {r} \subseteq Elems(a) BY <1>1, <1>3, <1>4 DEF Elems
  <2>3. Elems(a) \subseteq Elems(s) \cup {r} BY <1>1, <2>1 DEF Elems
  <2> QED BY <2>2, <2>3
<1> QED BY <1>5, <1>6 DEF a

LEMMA DistinctHalves ==
    ASSUME NEW S, NEW s \in Seq(S), NEW n \in 0..Len(s), Distinct(s)
    PROVE  /\ Distinct(Upto(s, n)) /\ Distinct(From(s, n))
           /\ Elems(Upto(s, n)) \cap Elems(From(s, n)) = {}
           /\ Elems(Upto(s, n)) \cup Elems(From(s, n)) = Elems(s)
<1> DEFINE u == Upto(s, n)
           v == From(s, n)
           l == Len(s)
<1>1. /\ l \in Nat /\ n \in 0..l /\ DOMAIN s = 1..l
      /\ DOMAIN u = 1..n /\ DOMAIN v = 1..(l - n)
      /\ \A i \in 1..n : u[i] = s[i]
      /\ \A i \in 1..(l - n) : v[i] = s[i + n]
  BY DEF Upto, From
<1>2. Elems(u) \cup Elems(v) = Elems(s) BY ElemsHalves
<1> HIDE DEF u, v, l
<1>3. /\ \A i \in 1..n : i \in 1..l
      /\ \A i \in 1..(l - n) : i + n \in 1..l /\ i + n > n /\ i \in Nat
  BY <1>1
<1>4. Distinct(u) BY <1>1, <1>3 DEF Distinct
<1>5. Distinct(v)
  <2>1. ASSUME NEW i \in 1..(l - n), NEW j \in 1..(l - n), v[i] = v[j]
        PROVE  i = j
    <3>1. s[i + n] = s[j + n] BY <1>1, <2>1
    <3>2. i + n = j + n BY <1>1, <1>3, <3>1 DEF Distinct
    <3> QED BY <1>1, <3>2
  <2> QED BY <1>1, <2>1 DEF Distinct
<1>6. ASSUME NEW x \in Elems(u), x \in Elems(v) PROVE FALSE
  <2>1. PICK i \in 1..n : x = s[i] BY <1>1, <1>6 DEF Elems
  <2>2. PICK j \in 1..(l - n) : x = s[j + n] BY <1>1, <1>6 DEF Elems
  <2>3. i = j + n BY <1>1, <1>3, <2>1, <2>2 DEF Distinct
  <2> QED BY <1>1, <1>3, <2>3
<1> QED BY <1>2, <1>4, <1>5, <1>6 DEF u, v

LEMMA QueueOnceStep ==
    ASSUME TypeInv, QueueOnce, [Next]_vars, UNCHANGED faults, ~Boot
    PROVE  QueueOnce' /\ Out \subseteq Out'
<1>t. pending \in Seq(Rec) /\ hand \in Seq(Rec)
  BY DEF TypeInv, TypeOK, SharedTypes, WritingTypes
<1>1. backlog' = <<>> /\ WaitingStep BY WaitingSteps DEF QueueOnce
<1>2. CASE UNCHANGED <<pending, hand, accepted>>
  BY <1>1, <1>2 DEF QueueOnce, Out, Waiting
<1>3. ASSUME NEW r \in Rec \ accepted, pending' = Append(pending, r),
             accepted' = accepted \cup {r}, hand' = hand
      PROVE  QueueOnce' /\ Out \subseteq Out'
  <2>1. r \notin Elems(pending) /\ r \notin Elems(hand)
    BY <1>3 DEF QueueOnce, Waiting
  <2>2. Distinct(pending') /\ Elems(pending') = Elems(pending) \cup {r}
    BY <1>t, <1>3, <2>1, DistinctAppend DEF QueueOnce
  <2>3. Elems(hand') = Elems(hand) /\ Distinct(hand')
    BY <1>3 DEF QueueOnce
  <2> QED BY <1>1, <1>3, <2>1, <2>2, <2>3 DEF QueueOnce, Out, Waiting
<1>4. ASSUME NEW n \in 0..Len(pending), hand' = Upto(pending, n),
             pending' = From(pending, n), accepted' = accepted
      PROVE  QueueOnce' /\ Out \subseteq Out'
  <2>1. /\ Distinct(hand') /\ Distinct(pending')
        /\ Elems(hand') \cap Elems(pending') = {}
        /\ Elems(hand') \cup Elems(pending') = Elems(pending)
    BY <1>t, <1>4, DistinctHalves DEF QueueOnce
  <2> QED BY <1>1, <1>4, <2>1 DEF QueueOnce, Out, Waiting
<1>5. CASE hand' = <<>> /\ UNCHANGED <<pending, accepted>>
  <2>1. Elems(<<>>) = {} /\ Distinct(<<>>) BY DEF Elems, Distinct
  <2>2. Elems(hand') = {} /\ Distinct(hand') BY <1>5, <2>1
  <2> QED BY <1>1, <1>5, <2>2 DEF QueueOnce, Out, Waiting
<1> QED BY <1>1, <1>2, <1>3, <1>4, <1>5 DEF WaitingStep

\* Encoding a batch keeps its order, so it repeats nothing.
LEMMA EncodingsDistinct ==
    ASSUME NEW batch \in Seq(Rec), NEW lines \in Encodings(batch),
           Distinct(batch)
    PROVE  Distinct(lines) /\ Elems(lines) \subseteq Elems(batch)
<1> DEFINE good == {i \in DOMAIN batch : batch[i] \notin Unserializable}
           n == Cardinality(good)
<1>1. PICK f \in [1..n -> good] :
            /\ \A i, j \in DOMAIN f : i < j => f[i] < f[j]
            /\ lines = [k \in DOMAIN f |-> batch[f[k]]]
  BY DEF Encodings
<1>2. n \in Nat
  <2>1. IsFiniteSet(1..Len(batch)) BY FS_Interval
  <2>2. good \subseteq 1..Len(batch) OBVIOUS
  <2>3. IsFiniteSet(good) BY <2>1, <2>2, FS_Subset
  <2> QED BY <2>3, FS_CardinalityType
<1>3. good \subseteq Nat /\ good \subseteq DOMAIN batch OBVIOUS
<1> HIDE DEF good, n
<1>4. DOMAIN lines = 1..n /\ \A k \in 1..n : lines[k] = batch[f[k]] BY <1>1
<1>5. ASSUME NEW i \in 1..n, NEW j \in 1..n, lines[i] = lines[j] PROVE i = j
  <2>1. f[i] = f[j] BY <1>1, <1>3, <1>4, <1>5 DEF Distinct
  <2>2. f[i] \in Nat BY <1>1, <1>3
  <2>3. ~(f[i] < f[j]) /\ ~(f[j] < f[i]) BY <2>1, <2>2
  <2>4. ~(i < j) /\ ~(j < i) BY <1>1, <2>3
  <2> QED BY <1>2, <2>4
<1>6. \A k \in 1..n : lines[k] \in Elems(batch)
  BY <1>1, <1>3, <1>4 DEF Elems
<1> QED BY <1>4, <1>5, <1>6 DEF Distinct, Elems

\* The text of such lines holds no unit twice.
LEMMA BlobDistinct ==
    ASSUME NEW lines \in Seq(Rec), Distinct(lines)
    PROVE  /\ Distinct(Blob(lines))
           /\ \A i \in DOMAIN Blob(lines) : Blob(lines)[i][1] \in Elems(lines)
<1> DEFINE n == Len(lines)
           b == Blob(lines)
<1>1. /\ n \in Nat /\ DOMAIN lines = 1..n /\ DOMAIN b = 1..(2 * n)
      /\ \A i \in 1..(2 * n) :
             /\ b[i][1] = lines[(i + 1) \div 2]
             /\ b[i][2] = IF i % 2 = 1 THEN 1 ELSE 2
  BY DEF Blob
<1> HIDE DEF n, b
<1>2. \A i \in 1..(2 * n) : (i + 1) \div 2 \in 1..n BY <1>1
<1>3. ASSUME NEW i \in 1..(2 * n), NEW j \in 1..(2 * n), b[i] = b[j]
      PROVE  i = j
  <2>1. lines[(i + 1) \div 2] = lines[(j + 1) \div 2] BY <1>1, <1>3
  <2>2. (i + 1) \div 2 = (j + 1) \div 2 BY <1>1, <1>2, <2>1 DEF Distinct
  <2>3. (i % 2 = 1) <=> (j % 2 = 1) BY <1>1, <1>3
  <2>4. i \in Nat /\ j \in Nat BY <1>1
  <2> QED BY <2>2, <2>3, <2>4
<1>4. \A i \in 1..(2 * n) : b[i][1] \in Elems(lines)
  BY <1>1, <1>2 DEF Elems
<1> QED BY <1>1, <1>3, <1>4 DEF b, Distinct

\* Where the units of the next state come from.
LEMMA UnitsFrom ==
    ASSUME TypeInv, FileInv, [Next]_vars, UNCHANGED faults, ~Boot, QueueOnce
    PROVE  \/ \A s \in DOMAIN files' :
                  \/ s \in DOMAIN files /\ Content(s)' = Content(s)
                  \/ Content(s)' = <<>>
           \/ /\ WAppend /\ DOMAIN files' = DOMAIN files /\ cur \in DOMAIN files
              /\ \A s \in DOMAIN files \ {cur} : Content(s)' = Content(s)
              /\ \E more \in Seq(Units(Rec)) :
                     /\ Content(cur)' = Content(cur) \o more
                     /\ Distinct(more)
                     /\ \A i \in DOMAIN more : more[i][1] \in Elems(hand)
<1>1. ContentStep BY ContentSteps
<1>2. CASE ContentKept BY <1>2 DEF ContentKept, Keeps
<1>3. CASE (WDrain \/ WAck \/ WHouse) /\ ContentShrunk
  BY <1>3 DEF ContentShrunk, Keeps
<1>4. ASSUME WAppend, NEW lines \in Encodings(hand), ContentAppended(lines)
      PROVE  /\ WAppend /\ DOMAIN files' = DOMAIN files /\ cur \in DOMAIN files
             /\ \A s \in DOMAIN files \ {cur} : Content(s)' = Content(s)
             /\ \E more \in Seq(Units(Rec)) :
                     /\ Content(cur)' = Content(cur) \o more
                     /\ Distinct(more)
                     /\ \A i \in DOMAIN more : more[i][1] \in Elems(hand)
  <2>1. hand \in Seq(Rec) BY DEF TypeInv, TypeOK, WritingTypes
  <2>2. lines \in Seq(Rec) BY <1>4, <2>1, EncodingsType
  <2>3. Distinct(lines) /\ Elems(lines) \subseteq Elems(hand)
    BY <1>4, <2>1, EncodingsDistinct DEF QueueOnce
  <2>4. Distinct(Blob(lines))
        /\ \A i \in DOMAIN Blob(lines) : Blob(lines)[i][1] \in Elems(hand)
    BY <2>2, <2>3, BlobDistinct
  <2>5. Blob(lines) \in Seq(Units(Rec)) BY <2>2, BlobType
  <2> QED BY <1>4, <2>4, <2>5 DEF ContentAppended, Keeps
<1> QED BY <1>1, <1>2, <1>3, <1>4 DEF ContentStep

\* A line that a drain delivers is whole, and behind what is acked.
LEMMA DeliveredAre ==
    ASSUME TypeInv, FileInv, wpc # "start", NEW fs, Reads(fs),
           NEW p \in Delivered(fs)
    PROVE  /\ p[1] \in DOMAIN files /\ p = <<p[1], p[2]>>
           /\ p[2] \in Whole(fs[p[1]], acks[p[1]])
           /\ fs[p[1]] = Content(p[1])
           /\ p[2] \in DOMAIN Content(p[1]) /\ Content(p[1])[p[2]][2] = 2
           /\ ~(p[2] <= acks[p[1]])
<1>1. p \in Lines(fs) BY DEF Delivered
<1>2. PICK s \in DOMAIN files : p \in {s} \X Whole(fs[s], acks[s])
  BY <1>1, LinesAre
<1>3. p = <<s, p[2]>> /\ p[2] \in Whole(fs[s], acks[s]) BY <1>2
<1>4. fs[s] = Content(s) /\ Content(s) \in Seq(Units(Rec)) /\ acks[s] \in Nat
  BY ContentType DEF Reads, TypeInv, TypeOK, DiskTypes
<1>5. Len(Content(s)) \in Nat /\ DOMAIN Content(s) = 1..Len(Content(s))
  BY <1>4, LenProperties
<1>6. p[2] \in (acks[s] + 2)..Len(Content(s)) /\ Content(s)[p[2]][2] = 2
  BY <1>3, <1>4 DEF Whole
<1>7. p[2] \in 1..Len(Content(s)) /\ ~(p[2] <= acks[s]) BY <1>4, <1>5, <1>6
<1> QED BY <1>3, <1>4, <1>5, <1>6, <1>7

\* What the leader's steps do when nothing fails.
LEMMA LeaderSteps ==
    ASSUME TypeInv, [Next]_vars, UNCHANGED faults, ~Boot, ~WDrain
    PROVE  /\ lease' \in {lease, NoBatch}
           /\ ~CommitOk => db' = db
<1>1. faults \in Nat /\ \A kind : ~Fault(kind)
  BY ConstantsAssumption DEF TypeInv, TypeOK, BoundTypes, Fault
<1>2. CASE Loop \/ Leader \/ UNCHANGED vars \/ Terminated
  BY <1>1, <1>2 DEF Loop, Leader, Write, Close, Ask, Resume, DrainTimeout,
     CommitOk, CommitFails, LeaderCancelled, leader, history, vars, Terminated
<1>3. CASE Process BY <1>3 DEF Process, Restart, Crash
<1>4. CASE WDrainNothing
  BY <1>4 DEF WDrainNothing, Answer, leader, Serve, history
<1>5. CASE Worker /\ ~WDrainNothing
  BY <1>5 DEF Worker, WStart, WRetryNothing, WRetryLater, WRetryDue, WCollect,
     WCollectNothing, WritePath, Control, WHouse, WHouseLater, WLoop, WLast,
     WDropBacklog, WClose, WReady, WReopen, WRotate, WRotateRaises,
     WRollover, WAppend, WAppendNothing, WAppendFails, WFsync, WAck, WReturn,
     WFlush, WServed, Step, Serve, loopSide, leader, history
<1> QED BY <1>2, <1>3, <1>4, <1>5 DEF Next

\* What is lent next is committed, lent or written already.
LEMMA TakenStep ==
    ASSUME TypeInv, FileInv, OutOnce, [Next]_vars, UNCHANGED faults, ~Boot
    PROVE  db' \cup lease'.recs \subseteq Out
<1>1. CASE WDrain
  <2>1. PICK fs : Reads(fs) /\ Answer(DrainBatch(fs))
    BY <1>1, DrainReads DEF Reads
  <2>2. wpc # "start" /\ db' = db
    BY <1>1 DEF WDrain, Serve, Serving, history
  <2>3. DrainBatch(fs).recs \subseteq Out
    <3>1. DrainBatch(fs).recs = {fs[p[1]][p[2]][1] : p \in Delivered(fs)}
      BY DEF DrainBatch
    <3>2. ASSUME NEW p \in Delivered(fs) PROVE fs[p[1]][p[2]][1] \in Out
      <4>1. /\ p[1] \in DOMAIN files /\ fs[p[1]] = Content(p[1])
            /\ p[2] \in DOMAIN Content(p[1])
        BY <2>1, <2>2, DeliveredAre
      <4> QED BY <4>1 DEF OutOnce
    <3> QED BY <3>1, <3>2
  <2>4. lease' \in {lease, DrainBatch(fs)} BY <2>1 DEF Answer, leader
  <2> QED BY <2>2, <2>3, <2>4 DEF OutOnce
<1>2. CASE ~WDrain
  <2>1. lease' \in {lease, NoBatch} /\ (~CommitOk => db' = db)
    BY <1>2, LeaderSteps
  <2>2. db' \subseteq db \cup lease.recs BY <2>1 DEF CommitOk
  <2>3. NoBatch.recs = {} BY DEF NoBatch
  <2> QED BY <2>1, <2>2, <2>3 DEF OutOnce
<1> QED BY <1>1, <1>2

\* A unit of a joined text is one of its parts'.
LEMMA ConcatUnits ==
    ASSUME NEW S, NEW old \in Seq(S), NEW more \in Seq(S)
    PROVE  /\ Len(old) \in Nat /\ DOMAIN old = 1..Len(old)
           /\ \A i \in DOMAIN (old \o more) :
                  \/ i \in DOMAIN old /\ (old \o more)[i] = old[i]
                  \/ /\ ~(i \in DOMAIN old)
                     /\ i - Len(old) \in DOMAIN more /\ i \in Nat
                     /\ (old \o more)[i] = more[i - Len(old)]
<1>1. /\ Len(old \o more) = Len(old) + Len(more) /\ old \o more \in Seq(S)
      /\ \A i \in 1..(Len(old) + Len(more)) :
             (old \o more)[i] = IF i <= Len(old) THEN old[i]
                               ELSE more[i - Len(old)]
  BY ConcatProperties
<1>2. /\ Len(old) \in Nat /\ Len(more) \in Nat
      /\ DOMAIN old = 1..Len(old) /\ DOMAIN more = 1..Len(more)
      /\ DOMAIN (old \o more) = 1..(Len(old) + Len(more))
  BY <1>1, LenProperties
<1> DEFINE n == Len(old)
           m == Len(more)
           both == old \o more
<1>3. /\ n \in Nat /\ m \in Nat /\ DOMAIN old = 1..n /\ DOMAIN more = 1..m
      /\ DOMAIN both = 1..(n + m)
      /\ \A i \in 1..(n + m) : both[i] = IF i <= n THEN old[i] ELSE more[i - n]
  BY <1>1, <1>2
<1> HIDE DEF n, m, both
<1>4. ASSUME NEW i \in 1..(n + m)
      PROVE  \/ i \in 1..n /\ both[i] = old[i]
             \/ /\ ~(i \in 1..n) /\ i - n \in 1..m /\ i \in Nat
                /\ both[i] = more[i - n]
  <2>1. CASE i <= n BY <1>3, <2>1
  <2>2. CASE ~(i <= n)
    <3>1. ~(i \in 1..n) /\ i - n \in 1..m /\ i \in Nat BY <1>3, <2>2
    <3> QED BY <1>3, <2>2, <3>1
  <2> QED BY <2>1, <2>2
<1>5. \A i \in DOMAIN both :
         \/ i \in DOMAIN old /\ both[i] = old[i]
         \/ /\ ~(i \in DOMAIN old) /\ i - n \in DOMAIN more /\ i \in Nat
            /\ both[i] = more[i - n]
  BY <1>3, <1>4
<1> QED BY <1>2, <1>5, Zenon DEF n, both

LEMMA OutOnceStep ==
    ASSUME TypeInv, FileInv, QueueOnce, OutOnce, [Next]_vars, UNCHANGED faults,
           ~Boot
    PROVE  OutOnce'
<1>q. QueueOnce' /\ Out \subseteq Out' BY QueueOnceStep
<1>1. (db \cup lease.recs)' \subseteq Out' BY <1>q, TakenStep
<1>2. CASE \A s \in DOMAIN files' :
               \/ s \in DOMAIN files /\ Content(s)' = Content(s)
               \/ Content(s)' = <<>>
  <2>1. ASSUME NEW s \in DOMAIN files', NEW i \in DOMAIN Content(s)'
        PROVE  s \in DOMAIN files /\ Content(s)' = Content(s)
    BY <1>2, <2>1
  <2>2. \A s \in DOMAIN files' : \A i \in DOMAIN Content(s)' :
            Content(s)'[i][1] \in Out'
    BY <1>q, <2>1 DEF OutOnce
  <2>3. ASSUME NEW s \in DOMAIN files', NEW t \in DOMAIN files',
               NEW i \in DOMAIN Content(s)', NEW j \in DOMAIN Content(t)',
               Content(s)'[i] = Content(t)'[j]
        PROVE  s = t /\ i = j
    BY <2>1, <2>3 DEF OutOnce
  <2> QED BY <1>1, <2>2, <2>3 DEF OutOnce
<1>3. ASSUME WAppend, DOMAIN files' = DOMAIN files, cur \in DOMAIN files,
             \A s \in DOMAIN files \ {cur} : Content(s)' = Content(s),
             NEW more \in Seq(Units(Rec)),
             Content(cur)' = Content(cur) \o more,
             Distinct(more),
             \A i \in DOMAIN more : more[i][1] \in Elems(hand)
      PROVE  OutOnce'
  <2> DEFINE n == Len(Content(cur))
  <2>1. cur' = cur BY <1>3 DEF WAppend
  <2>2. Content(cur) \in Seq(Units(Rec)) BY <1>3, ContentType
  <2>3. /\ n \in Nat /\ DOMAIN Content(cur) = 1..n
        /\ \A i \in DOMAIN (Content(cur) \o more) :
               \/ /\ i \in DOMAIN Content(cur)
                  /\ (Content(cur) \o more)[i] = Content(cur)[i]
               \/ /\ ~(i \in DOMAIN Content(cur))
                  /\ i - n \in DOMAIN more /\ i \in Nat
                  /\ (Content(cur) \o more)[i] = more[i - n]
    BY <1>3, <2>2, ConcatUnits
  <2> HIDE DEF n
  \* A unit is old, and its record was out; or new, and its record was not.
  <2>4. ASSUME NEW s \in DOMAIN files, NEW i \in DOMAIN Content(s)'
        PROVE  \/ i \in DOMAIN Content(s) /\ Content(s)'[i] = Content(s)[i]
                  /\ Content(s)'[i][1] \in Out
               \/ /\ s = cur /\ i - n \in DOMAIN more /\ i \in Nat
                  /\ Content(s)'[i] = more[i - n]
                  /\ Content(s)'[i][1] \in Elems(hand)
    <3>1. CASE s # cur
      <4>1. Content(s)' = Content(s) BY <1>3, <3>1
      <4>2. i \in DOMAIN Content(s) BY <2>4, <4>1
      <4> QED BY <4>1, <4>2 DEF OutOnce
    <3>2. CASE s = cur
      <4>1. Content(s)' = Content(cur) \o more BY <1>3, <2>1, <3>2
      <4>2. i \in DOMAIN (Content(cur) \o more) BY <2>4, <4>1
      <4> HIDE DEF Content
      <4>3. CASE /\ i \in DOMAIN Content(cur)
                 /\ (Content(cur) \o more)[i] = Content(cur)[i]
        <5>1. Content(cur)[i][1] \in Out BY <1>3, <4>3 DEF OutOnce
        <5> QED BY <3>2, <4>1, <4>3, <5>1
      <4>4. CASE /\ i - n \in DOMAIN more /\ i \in Nat
                 /\ (Content(cur) \o more)[i] = more[i - n]
        BY <1>3, <3>2, <4>1, <4>4
      <4> QED BY <2>3, <4>2, <4>3, <4>4
    <3> QED BY <3>1, <3>2
  <2>5. Elems(hand) \cap Out = {} BY DEF Out, Waiting
  <2>6. Elems(hand) \subseteq Out'
    <3>1. hand' = <<>> /\ UNCHANGED <<pending, accepted>>
      BY <1>3, WaitingSteps DEF QueueOnce
    <3>2. Elems(hand') = {} BY <3>1 DEF Elems
    <3>3. Elems(pending') = Elems(pending) BY <3>1
    <3> QED BY <3>1, <3>2, <3>3 DEF Out, Waiting, QueueOnce
  <2>7. \A s \in DOMAIN files' : \A i \in DOMAIN Content(s)' :
            Content(s)'[i][1] \in Out'
    BY <1>3, <1>q, <2>4, <2>6
  <2>8. ASSUME NEW s \in DOMAIN files', NEW t \in DOMAIN files',
               NEW i \in DOMAIN Content(s)', NEW j \in DOMAIN Content(t)',
               Content(s)'[i] = Content(t)'[j]
        PROVE  s = t /\ i = j
    <3>0. s \in DOMAIN files /\ t \in DOMAIN files BY <1>3
    <3>1. CASE Content(s)'[i][1] \in Out
      <4>1. Content(s)'[i][1] \notin Elems(hand) BY <2>5, <3>1
      <4>2. /\ i \in DOMAIN Content(s) /\ Content(s)'[i] = Content(s)[i]
            /\ j \in DOMAIN Content(t) /\ Content(t)'[j] = Content(t)[j]
        BY <2>4, <2>8, <3>0, <4>1
      <4>3. Content(s)[i] = Content(t)[j] BY <2>8, <4>2
      <4> QED BY <3>0, <4>2, <4>3 DEF OutOnce
    <3>2. CASE Content(s)'[i][1] \notin Out
      <4>1. /\ s = cur /\ i - n \in DOMAIN more /\ i \in Nat
            /\ Content(s)'[i] = more[i - n]
        BY <2>4, <3>0, <3>2
      <4>2. /\ t = cur /\ j - n \in DOMAIN more /\ j \in Nat
            /\ Content(t)'[j] = more[j - n]
        BY <2>4, <2>8, <3>0, <3>2
      <4>3. i - n = j - n BY <1>3, <2>8, <4>1, <4>2 DEF Distinct
      <4> QED BY <2>3, <4>1, <4>2, <4>3
    <3> QED BY <3>1, <3>2
  <2> QED BY <1>1, <2>7, <2>8 DEF OutOnce
<1> QED BY <1>2, <1>3, UnitsFrom

\* The tokens reach the end i of a line of segment s.
Reaches(tokens, s, i) ==
    /\ \E t \in tokens : t[1] = s
    /\ \A t \in tokens : t[1] = s => i <= t[2]

\* The line that ends there is of one of these records.
EndOf(s, i, recs) == Content(s)[i][1] \in recs /\ Content(s)[i][2] = 2

\* What is committed is behind an offset that is acked, or lent to be; what
\* is lent is not committed, and the tokens that are lent with it reach it.
DoneOnce ==
    /\ lease.recs \cap db = {}
    /\ \A s \in DOMAIN files : \A i \in DOMAIN Content(s) :
           /\ EndOf(s, i, db) => i <= acks[s] \/ Reaches(inflight, s, i)
           /\ EndOf(s, i, lease.recs) => Reaches(lease.tokens, s, i)

\* A later line of a segment has a higher rank.
LEMMA StrictRanks ==
    ASSUME TypeInv, FileInv, wpc # "start", NEW fs, Reads(fs),
           NEW s \in DOMAIN files, NEW d, NEW e,
           d \in Whole(fs[s], acks[s]), e \in Whole(fs[s], acks[s]), d < e
    PROVE  /\ Cardinality(LinesBefore(fs, <<s, d>>)) \in Nat
           /\ Cardinality(LinesBefore(fs, <<s, e>>)) \in Nat
           /\ Cardinality(LinesBefore(fs, <<s, d>>))
                  < Cardinality(LinesBefore(fs, <<s, e>>))
<1> DEFINE D == LinesBefore(fs, <<s, d>>)
           E == LinesBefore(fs, <<s, e>>)
           Both == D \cup {<<s, d>>}
<1>t. d \in Nat /\ e \in Nat /\ s \in Nat
  <2>1. fs[s] \in Seq(Units(Rec)) /\ acks[s] \in Nat
    BY ContentType DEF Reads, TypeInv, TypeOK, DiskTypes
  <2>2. Whole(fs[s], acks[s]) \subseteq 1..Len(fs[s]) BY <2>1, WholeType
  <2>3. s \in 1..cur BY DEF TypeInv, TypeOK, DiskTypes, Segments
  <2> QED BY <2>2, <2>3
<1>1. IsFiniteSet(D) /\ IsFiniteSet(E)
  <2>1. IsFiniteSet(Lines(fs)) BY LinesFinite
  <2>2. D \subseteq Lines(fs) /\ E \subseteq Lines(fs) BY DEF LinesBefore
  <2> QED BY <2>1, <2>2, FS_Subset
<1>2. <<s, d>> \in E
  <2>1. <<s, d>> \in Lines(fs) BY LinesAre
  <2> QED BY <2>1 DEF LinesBefore
<1>3. D \subseteq E
  <2>1. ASSUME NEW q \in D PROVE q \in E
    <3>1. q \in Lines(fs) /\ (q[1] < s \/ (q[1] = s /\ q[2] < d))
      BY <2>1 DEF LinesBefore
    <3>2. q[1] = s => q[2] \in Nat
      <4>1. PICK x \in DOMAIN files : q \in {x} \X Whole(fs[x], acks[x])
        BY <3>1, LinesAre
      <4>2. fs[x] \in Seq(Units(Rec)) /\ acks[x] \in Nat
        BY ContentType DEF Reads, TypeInv, TypeOK, DiskTypes
      <4>3. Whole(fs[x], acks[x]) \subseteq 1..Len(fs[x]) BY <4>2, WholeType
      <4> QED BY <4>1, <4>3
    <3> QED BY <1>t, <3>1, <3>2 DEF LinesBefore
  <2> QED BY <2>1
<1>4. <<s, d>> \notin D BY <1>t DEF LinesBefore
<1> HIDE DEF D, E
<1>5. Both \subseteq E BY <1>2, <1>3
<1>6. Cardinality(Both) = Cardinality(D) + 1 BY <1>1, <1>4, FS_AddElement
<1>7. Cardinality(Both) <= Cardinality(E) BY <1>1, <1>5, FS_Subset
<1>8. Cardinality(D) \in Nat /\ Cardinality(E) \in Nat
  BY <1>1, FS_CardinalityType
<1>9. Cardinality(D) < Cardinality(E) BY <1>6, <1>7, <1>8
<1> QED BY <1>8, <1>9 DEF D, E

\* The tokens of a drain reach every line it delivers.
LEMMA DrainReaches ==
    ASSUME TypeInv, FileInv, wpc # "start", NEW fs, Reads(fs),
           NEW p \in Delivered(fs)
    PROVE  Reaches(DrainBatch(fs).tokens, p[1], p[2])
<1> DEFINE tokens == DrainBatch(fs).tokens
           ends == {<<q[1], Len(fs[q[1]])>> :
                       q \in {q \in Delivered(fs) :
                                 \A last \in Completing(fs) : q[1] # last[1]}}
<1>0. tokens = Completing(fs) \cup ends BY DEF DrainBatch
<1>1. /\ p[1] \in DOMAIN files /\ p = <<p[1], p[2]>>
      /\ p[2] \in Whole(fs[p[1]], acks[p[1]])
  BY DeliveredAre
<1>2. BatchSize \in Nat \ {0} BY ConstantsAssumption
<1>3. \E t \in tokens : t[1] = p[1]
  <2>1. CASE \E last \in Completing(fs) : p[1] = last[1]
    BY <1>0, <2>1
  <2>2. CASE \A last \in Completing(fs) : p[1] # last[1]
    <3>1. <<p[1], Len(fs[p[1]])>> \in ends BY <2>2
    <3> QED BY <1>0, <3>1
  <2> QED BY <2>1, <2>2
<1>4. ASSUME NEW t \in tokens, t[1] = p[1] PROVE p[2] <= t[2]
  <2>w. /\ fs[p[1]] \in Seq(Units(Rec)) /\ acks[p[1]] \in Nat
        /\ Len(fs[p[1]]) \in Nat
    BY <1>1, ContentType DEF Reads, TypeInv, TypeOK, DiskTypes
  <2>n. Whole(fs[p[1]], acks[p[1]]) \subseteq 1..Len(fs[p[1]])
    BY <2>w, WholeType
  <2>1. CASE t \in ends
    <3>1. t[2] = Len(fs[p[1]]) BY <1>4, <2>1
    <3> QED BY <1>1, <2>w, <2>n, <3>1
  <2>2. CASE t \in Completing(fs)
    <3>1. t \in Lines(fs) /\ Cardinality(LinesBefore(fs, t)) = BatchSize - 1
      BY <2>2 DEF Completing
    <3>2. BatchSize - 1 < BatchSize BY <1>2
    <3>3. t \in Delivered(fs) BY <3>1, <3>2 DEF Delivered
    <3>4. t = <<p[1], t[2]>> /\ t[2] \in Whole(fs[p[1]], acks[p[1]])
      BY <1>4, <3>3, DeliveredAre
    <3>5. p[2] \in Nat /\ t[2] \in Nat BY <1>1, <2>n, <3>4
    <3>6. ~(t[2] < p[2])
      <4>1. SUFFICES ASSUME t[2] < p[2] PROVE FALSE OBVIOUS
      <4>2. /\ Cardinality(LinesBefore(fs, <<p[1], t[2]>>)) \in Nat
            /\ Cardinality(LinesBefore(fs, <<p[1], p[2]>>)) \in Nat
            /\ Cardinality(LinesBefore(fs, <<p[1], t[2]>>))
                   < Cardinality(LinesBefore(fs, <<p[1], p[2]>>))
        BY <1>1, <3>4, <4>1, StrictRanks
      <4>3. Cardinality(LinesBefore(fs, p)) < BatchSize BY DEF Delivered
      <4>4. Cardinality(LinesBefore(fs, <<p[1], p[2]>>)) < BatchSize
        BY <1>1, <4>3
      <4>5. Cardinality(LinesBefore(fs, <<p[1], t[2]>>)) = BatchSize - 1
        BY <3>1, <3>4
      <4> QED BY <1>2, <4>2, <4>4, <4>5
    <3> QED BY <3>5, <3>6
  <2> QED BY <1>0, <1>4, <2>1, <2>2
<1> HIDE DEF tokens
<1>5. Reaches(tokens, p[1], p[2]) BY <1>3, <1>4 DEF Reaches
<1> QED BY <1>5 DEF tokens

\* A unit of a record that was out of the queues was there before the step.
LEMMA OldUnits ==
    ASSUME TypeInv, FileInv, QueueOnce, [Next]_vars, UNCHANGED faults, ~Boot,
           NEW s \in DOMAIN files', NEW i \in DOMAIN Content(s)',
           Content(s)'[i][1] \in Out
    PROVE  /\ s \in DOMAIN files /\ i \in DOMAIN Content(s)
           /\ Content(s)'[i] = Content(s)[i]
<1>1. CASE \A x \in DOMAIN files' :
               \/ x \in DOMAIN files /\ Content(x)' = Content(x)
               \/ Content(x)' = <<>>
  <2>1. s \in DOMAIN files /\ Content(s)' = Content(s) BY <1>1
  <2> QED BY <2>1
<1>2. ASSUME WAppend, DOMAIN files' = DOMAIN files, cur \in DOMAIN files,
             \A x \in DOMAIN files \ {cur} : Content(x)' = Content(x),
             NEW more \in Seq(Units(Rec)),
             Content(cur)' = Content(cur) \o more,
             \A k \in DOMAIN more : more[k][1] \in Elems(hand)
      PROVE  /\ s \in DOMAIN files /\ i \in DOMAIN Content(s)
             /\ Content(s)'[i] = Content(s)[i]
  <2>1. CASE s # cur
    <3>1. Content(s)' = Content(s) BY <1>2, <2>1
    <3>2. i \in DOMAIN Content(s) BY <3>1
    <3> QED BY <1>2, <3>1, <3>2
  <2>2. CASE s = cur
    <3>1. cur' = cur BY <1>2 DEF WAppend
    <3>2. Content(s)' = Content(cur) \o more BY <1>2, <2>2, <3>1
    <3>3. i \in DOMAIN (Content(cur) \o more) BY <3>2
    <3>4. Content(cur) \in Seq(Units(Rec)) BY <1>2, ContentType
    <3> HIDE DEF Content
    <3>5. \/ i \in DOMAIN Content(cur) /\ (Content(cur) \o more)[i] = Content(cur)[i]
          \/ (Content(cur) \o more)[i][1] \in Elems(hand)
      BY <1>2, <3>3, <3>4, ConcatUnits
    <3>6. Elems(hand) \cap Out = {} BY DEF Out, Waiting
    <3> QED BY <1>2, <2>2, <3>2, <3>5, <3>6
  <2> QED BY <2>1, <2>2
<1> QED BY <1>1, <1>2, UnitsFrom

LEMMA DoneOnceDrain ==
    ASSUME TypeInv, FileInv, NothingReturned, QueueOnce, OutOnce, DoneOnce,
           [Next]_vars, UNCHANGED faults, ~Boot, WDrain
    PROVE  DoneOnce'
<1>1. PICK fs : Reads(fs) /\ Answer(DrainBatch(fs))
  BY DrainReads DEF Reads
<1>2. wpc # "start" /\ db' = db /\ inflight = {}
  BY DEF WDrain, Serve, Serving, history
\* Nobody has left the drain, so it is answered.
<1>3. lease' = DrainBatch(fs)
  <2>1. requests # <<>> /\ Head(requests).kind \in {"drain", "orphan"}
    BY DEF WDrain, Serve, DrainKinds
  <2>2. requests \in Seq(Requests) BY DEF TypeInv, TypeOK, SharedTypes
  <2>3. 1 \in DOMAIN requests /\ Head(requests) = requests[1] BY <2>1, <2>2
  <2>4. Head(requests).kind = "drain" BY <2>1, <2>3 DEF NothingReturned
  <2> QED BY <1>1, <2>4 DEF Answer
<1>4. DrainBatch(fs).recs = {fs[p[1]][p[2]][1] : p \in Delivered(fs)}
  BY DEF DrainBatch
<1>5. ASSUME NEW p \in Delivered(fs)
      PROVE  /\ p[1] \in DOMAIN files /\ p[2] \in DOMAIN Content(p[1])
             /\ fs[p[1]][p[2]] = Content(p[1])[p[2]]
             /\ Content(p[1])[p[2]][2] = 2
             /\ Content(p[1])[p[2]][1] \notin db
  <2>1. /\ p[1] \in DOMAIN files /\ p[2] \in DOMAIN Content(p[1])
        /\ fs[p[1]] = Content(p[1]) /\ Content(p[1])[p[2]][2] = 2
        /\ ~(p[2] <= acks[p[1]])
    BY <1>1, <1>2, DeliveredAre
  <2>2. ~Reaches(inflight, p[1], p[2]) BY <1>2 DEF Reaches
  <2>3. ~EndOf(p[1], p[2], db) BY <2>1, <2>2 DEF DoneOnce
  <2> QED BY <2>1, <2>3 DEF EndOf
<1>6. lease'.recs \cap db' = {} BY <1>2, <1>3, <1>4, <1>5
<1>7. lease'.recs \subseteq Out /\ db' \subseteq Out BY TakenStep
<1>8. ASSUME NEW s \in DOMAIN files', NEW i \in DOMAIN Content(s)'
      PROVE  /\ EndOf(s, i, db)' => i <= acks'[s] \/ Reaches(inflight', s, i)
             /\ EndOf(s, i, lease.recs)' => Reaches(lease'.tokens, s, i)
  <2>1. ASSUME EndOf(s, i, db)' PROVE i <= acks'[s]
    <3>1. Content(s)'[i][1] \in db' /\ Content(s)'[i][2] = 2
      BY <2>1 DEF EndOf
    <3>2. /\ s \in DOMAIN files /\ i \in DOMAIN Content(s)
          /\ Content(s)'[i] = Content(s)[i]
      BY <1>7, <3>1, OldUnits
    <3>3. EndOf(s, i, db) BY <1>2, <3>1, <3>2 DEF EndOf
    <3>4. ~Reaches(inflight, s, i) BY <1>2 DEF Reaches
    <3>5. i <= acks[s] BY <3>2, <3>3, <3>4 DEF DoneOnce
    <3>6. acks'[s] = acks[s] BY DrainLends
    <3> QED BY <3>5, <3>6
  <2>2. ASSUME EndOf(s, i, lease.recs)' PROVE Reaches(lease'.tokens, s, i)
    <3>1. Content(s)'[i][1] \in lease'.recs /\ Content(s)'[i][2] = 2
      BY <2>2 DEF EndOf
    <3>2. /\ s \in DOMAIN files /\ i \in DOMAIN Content(s)
          /\ Content(s)'[i] = Content(s)[i] /\ Content(s) \in Seq(Units(Rec))
      BY <1>7, <3>1, OldUnits, ContentType
    <3>3. PICK p \in Delivered(fs) : Content(s)[i][1] = Content(p[1])[p[2]][1]
      BY <1>3, <1>4, <1>5, <3>1, <3>2
    <3>4. /\ p[1] \in DOMAIN files /\ p[2] \in DOMAIN Content(p[1])
          /\ Content(p[1])[p[2]][2] = 2
          /\ Content(p[1]) \in Seq(Units(Rec))
      BY <1>5, ContentType
    <3>5. Content(s)[i] = Content(p[1])[p[2]]
      <4>1. Content(s)[i] \in Units(Rec) BY <3>2
      <4>2. Content(p[1])[p[2]] \in Units(Rec) BY <3>4
      <4> HIDE DEF Content
      <4>3. \A u, v \in Units(Rec) : u[1] = v[1] /\ u[2] = v[2] => u = v
        BY DEF Units
      <4> QED BY <3>1, <3>2, <3>3, <3>4, <4>1, <4>2, <4>3
    <3>6. s = p[1] /\ i = p[2] BY <3>2, <3>4, <3>5 DEF OutOnce
    <3>7. Reaches(DrainBatch(fs).tokens, p[1], p[2])
      BY <1>1, <1>2, DrainReaches
    <3> QED BY <1>3, <3>6, <3>7
  <2> QED BY <2>1, <2>2
<1> QED BY <1>6, <1>8 DEF DoneOnce

LEMMA DoneOnceOther ==
    ASSUME TypeInv, TypeInv', FileInv, LeaseInv, LoanInv, NothingReturned, QueueOnce,
           OutOnce, DoneOnce, [Next]_vars, UNCHANGED faults, ~Boot, ~WDrain
    PROVE  DoneOnce'
<1>t. /\ requests \in Seq(Requests)
      /\ acks \in [DOMAIN files -> Nat] /\ inflight \in SUBSET Token
  BY DEF TypeInv, TypeOK, SharedTypes, DiskTypes, ControlTypes
<1>f. faults \in Nat
  BY ConstantsAssumption DEF TypeInv, TypeOK, BoundTypes
<1>1. /\ lease' \in {lease, NoBatch} /\ NoBatch.recs = {}
      /\ ~CommitOk => db' = db
  BY LeaderSteps DEF NoBatch
<1>2. db' \subseteq Out /\ lease'.recs \subseteq Out BY TakenStep
\* The offsets and the loan: an ack moves them together.
<1>3. ASSUME NEW s \in DOMAIN files', s \in DOMAIN files, NEW i \in Nat,
             i <= acks[s] \/ Reaches(inflight, s, i)
      PROVE  i <= acks'[s] \/ Reaches(inflight', s, i)
  <2>1. CASE WAck
    <3> DEFINE tokens == Head(requests).tokens
    <3>1. tokens = inflight
      <4>1. requests # <<>> /\ Head(requests).kind = "ack"
        BY <2>1 DEF WAck, Serve
      <4>2. 1 \in DOMAIN requests /\ Head(requests) = requests[1]
        BY <1>t, <4>1
      <4> QED BY <4>1, <4>2 DEF LoanInv, AckIsOfLoan
    <3>2. /\ files' = Without(files, Finished(tokens))
          /\ acks' = [x \in DOMAIN files \ Finished(tokens) |->
                         IF \E t \in tokens : t[1] = x
                         THEN (CHOOSE t \in tokens : t[1] = x)[2]
                         ELSE acks[x]]
      <4>1. ~Fault("ack") BY <1>f DEF Fault
      <4> QED BY <2>1, <4>1 DEF WAck
    <3> HIDE DEF tokens
    <3>3. s \in DOMAIN files \ Finished(tokens) BY <1>3, <3>2 DEF Without
    <3>4. CASE \E t \in inflight : t[1] = s
      <4>1. PICK t \in inflight : t[1] = s /\ acks'[s] = t[2]
        BY <3>1, <3>2, <3>3, <3>4
      <4>2. acks[s] <= t[2] /\ t[2] \in Nat /\ acks[s] \in Nat
        BY <1>t, <1>3, <4>1 DEF LoanInv, LoanIsThere, Token
      <4>3. Reaches(inflight, s, i) => i <= t[2] BY <4>1 DEF Reaches
      <4>4. i <= t[2] BY <1>3, <4>2, <4>3
      <4> QED BY <4>1, <4>4
    <3>5. CASE ~(\E t \in inflight : t[1] = s)
      <4>1. acks'[s] = acks[s] BY <3>1, <3>2, <3>3, <3>5
      <4>2. ~Reaches(inflight, s, i) BY <3>5 DEF Reaches
      <4> QED BY <1>3, <4>1, <4>2
    <3> QED BY <3>4, <3>5
  <2>2. CASE ~WAck
    <3>1. ~WReturn
      <4>1. SUFFICES ASSUME WReturn PROVE FALSE OBVIOUS
      <4>2. requests # <<>> /\ Head(requests).kind \in {"nack", "cancel"}
        BY <4>1 DEF WReturn, Serve
      <4>3. 1 \in DOMAIN requests /\ Head(requests) = requests[1]
        BY <1>t, <4>2
      <4> QED BY <4>2, <4>3 DEF NothingReturned
    <3>2. inflight' = inflight BY <2>2, <3>1, LoanStays
    <3>3. acks'[s] = acks[s]
      <4>1. CASE WHouse BY <4>1, <1>3, CapSparesLoan DEF LoanInv
      <4>2. CASE ~WHouse BY <2>2, <4>2, <1>3, OffsetsStay
      <4> QED BY <4>1, <4>2
    <3> QED BY <1>3, <3>2, <3>3
  <2> QED BY <2>1, <2>2
<1>4. lease'.recs \cap db' = {}
  <2>1. CASE CommitOk BY <2>1, <1>1 DEF CommitOk
  <2>2. CASE ~CommitOk BY <1>1, <2>2 DEF DoneOnce
  <2> QED BY <2>1, <2>2
<1>5. ASSUME NEW s \in DOMAIN files', NEW i \in DOMAIN Content(s)'
      PROVE  /\ EndOf(s, i, db)' => i <= acks'[s] \/ Reaches(inflight', s, i)
             /\ EndOf(s, i, lease.recs)' => Reaches(lease'.tokens, s, i)
  <2>1. ASSUME EndOf(s, i, db)'
        PROVE  i <= acks'[s] \/ Reaches(inflight', s, i)
    <3>1. Content(s)'[i][1] \in db' /\ Content(s)'[i][2] = 2
      BY <2>1 DEF EndOf
    <3>2. /\ s \in DOMAIN files /\ i \in DOMAIN Content(s)
          /\ Content(s)'[i] = Content(s)[i] /\ Content(s) \in Seq(Units(Rec))
      BY <1>2, <3>1, OldUnits, ContentType
    <3>3. i \in Nat BY <3>2
    <3>4. i <= acks[s] \/ Reaches(inflight, s, i)
      <4>1. CASE Content(s)[i][1] \in db
        <5>1. EndOf(s, i, db) BY <3>1, <3>2, <4>1 DEF EndOf
        <5> QED BY <3>2, <5>1 DEF DoneOnce
      <4>2. CASE Content(s)[i][1] \notin db
        <5>1. CommitOk /\ Content(s)[i][1] \in lease.recs
          BY <1>1, <3>1, <3>2, <4>2 DEF CommitOk
        <5>2. EndOf(s, i, lease.recs) BY <3>1, <3>2, <5>1 DEF EndOf
        <5>3. Reaches(lease.tokens, s, i) BY <3>2, <5>2 DEF DoneOnce
        <5>4. inflight = lease.tokens
          BY <5>1 DEF CommitOk, LeaseInv, LeaseIsInflight
        <5> QED BY <5>3, <5>4
      <4> QED BY <4>1, <4>2
    <3> QED BY <1>3, <3>2, <3>3, <3>4
  <2>2. ASSUME EndOf(s, i, lease.recs)' PROVE Reaches(lease'.tokens, s, i)
    <3>1. Content(s)'[i][1] \in lease'.recs /\ Content(s)'[i][2] = 2
      BY <2>2 DEF EndOf
    <3>2. lease' = lease BY <1>1, <3>1
    <3>3. /\ s \in DOMAIN files /\ i \in DOMAIN Content(s)
          /\ Content(s)'[i] = Content(s)[i]
      BY <1>2, <3>1, OldUnits
    <3>4. EndOf(s, i, lease.recs) BY <3>1, <3>2, <3>3 DEF EndOf
    <3> QED BY <3>2, <3>3, <3>4 DEF DoneOnce
  <2> QED BY <2>1, <2>2
<1> QED BY <1>4, <1>5 DEF DoneOnce

OnceInv ==
    Calm => FileInv /\ NothingReturned /\ QueueOnce /\ OutOnce /\ DoneOnce

LEMMA OnceInvStep ==
    TypeInv /\ TypeInv' /\ LeaseInv /\ LoanInv /\ OnceInv /\ [Next]_vars
        => OnceInv'
<1> SUFFICES ASSUME TypeInv, TypeInv', LeaseInv, LoanInv, OnceInv, [Next]_vars,
                    Calm'
             PROVE  /\ FileInv' /\ NothingReturned' /\ QueueOnce' /\ OutOnce'
                    /\ DoneOnce'
  BY DEF OnceInv
<1>1. Calm /\ UNCHANGED faults /\ ~Boot BY CalmSteps
<1>2. FileInv /\ NothingReturned /\ QueueOnce /\ OutOnce /\ DoneOnce
  BY <1>1 DEF OnceInv
<1>3. FileInv' BY <1>1, <1>2, FileInvStep
<1>4. NothingReturned' BY <1>1, <1>2, NothingReturnedStep
<1>5. QueueOnce' BY <1>1, <1>2, QueueOnceStep
<1>6. OutOnce' BY <1>1, <1>2, OutOnceStep
<1>7. DoneOnce' BY <1>1, <1>2, DoneOnceDrain, DoneOnceOther
<1> QED BY <1>3, <1>4, <1>5, <1>6, <1>7

\* As long as nothing has failed and the process runs, the leader is never
\* lent a record that is in the database already: not with a batch cut in the
\* middle of a segment, not with lines written while it was lent, and not
\* when the ack is still queued behind it.
THEOREM NothingRedelivered == Spec => NoRedelivery
<1>1. Init => OnceInv
  <2> SUFFICES ASSUME Init
               PROVE  FileInv /\ NothingReturned /\ QueueOnce /\ OutOnce
                      /\ DoneOnce
    BY DEF OnceInv
  <2>1. Elems(<<>>) = {} /\ Distinct(<<>>) BY DEF Elems, Distinct
  <2>2. /\ pending = <<>> /\ hand = <<>> /\ backlog = <<>> /\ requests = <<>>
        /\ accepted = {} /\ db = {} /\ lease = NoBatch
        /\ file = "none" /\ wpc = "start" /\ files = [s \in {} |-> <<>>]
    BY DEF Init
  <2>3. lease.recs = {} /\ DOMAIN files = {} BY <2>2 DEF NoBatch
  <2>4. FileInv BY <2>2 DEF FileInv
  <2>5. NothingReturned BY <2>2 DEF NothingReturned
  <2>6. QueueOnce BY <2>1, <2>2 DEF QueueOnce, Waiting
  <2>7. OutOnce /\ DoneOnce BY <2>2, <2>3 DEF OutOnce, DoneOnce
  <2> QED BY <2>4, <2>5, <2>6, <2>7
<1>2. OnceInv => (cpc = "answered" /\ cpc' = "commit" /\ faults = 0 /\ boots = 1
                      => lease.recs \cap db = {})
  BY DEF OnceInv, Calm, DoneOnce
<1>3. TypeInv /\ TypeInv' /\ LeaseInv /\ LoanInv /\ OnceInv /\ [Next]_vars
        => OnceInv'
  BY OnceInvStep
<1>4. Spec => [](TypeInv /\ LeaseInv /\ LoanInv) BY LoanHolds
<1> QED BY <1>1, <1>2, <1>3, <1>4, PTL DEF Spec, NoRedelivery
=============================================================================
