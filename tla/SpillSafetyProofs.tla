------------------------- MODULE SpillSafetyProofs -------------------------
(***************************************************************************)
(* What the spill keeps whatever fails: the segments of a batch that is    *)
(* lent stay, acked offsets only grow, the cap removes the oldest unacked  *)
(* data last of all, the size the worker keeps in memory is never more     *)
(* than what it has written, it ends with an empty queue, and a kill costs *)
(* little.  And what the segments hold, the units still in the file object *)
(* included, as long as that object passes on what it is given             *)
(* (CleanDisk); with it, that has_data() never says False by mistake.  For *)
(* every value of the constants of SpillBuffer.                            *)
(***************************************************************************)
EXTENDS SpillBufferProofs, SequenceTheorems

-----------------------------------------------------------------------------
(* What a step does to the files.                                          *)

\* A failed open of a segment: there is no file object before or after.
FailedOpen ==
    /\ file = "none" /\ cur' = cur + 1
    /\ UNCHANGED <<files, acks, curSize, file, buf>>

\* A rotation that closes the file object and opens no other.
FailedRotation ==
    /\ file' = "closed" /\ cur' = cur + 1
    /\ files' = [files EXCEPT ![cur] = @ \o buf]
    /\ buf' = <<>>
    /\ UNCHANGED <<acks, curSize>>

Flush ==
    /\ \E n \in 0..Len(buf) : FlushUnits(n)
    /\ UNCHANGED <<curSize, file, acks, cur>>

Rollover ==
    \E n \in 0..Len(buf) : NewSegment([files EXCEPT ![cur] = @ \o Upto(buf, n)])

StoreStep ==
    \/ UNCHANGED <<files, acks, cur, curSize, file, buf>>
    \/ NewSegment(files) \/ (wpc = "rollover" /\ Rollover)
    \/ FailedOpen \/ FailedRotation
    \/ file = "open" /\ Flush
    \/ WAppend \/ WAppendFails
    \/ WDrain \/ WAck \/ WHouse \/ WClose
    \/ Boot

LEMMA StoreSteps == TypeInv /\ [Next]_vars => StoreStep
<1> SUFFICES ASSUME TypeInv, [Next]_vars PROVE StoreStep OBVIOUS
<1> USE DEF store, handle, disk
<1>1. CASE Loop \/ Leader \/ UNCHANGED vars \/ Terminated
  BY <1>1 DEF Loop, Leader, Write, Close, Ask, Resume, DrainTimeout, CommitOk,
              CommitFails, LeaderCancelled, worker, vars, Terminated, StoreStep
<1>2. CASE Process BY <1>2 DEF Process, Restart, Crash, StoreStep
<1>3. CASE WStart
  BY <1>3 DEF WStart, NoNewSegment, TypeInv, FileObject, StoreStep, FailedOpen
<1>4. CASE WRetryNothing \/ WRetryLater \/ WRetryDue \/ WCollect
           \/ WCollectNothing \/ WHouseLater \/ WLoop \/ WLast \/ WDropBacklog
  BY <1>4 DEF WRetryNothing, WRetryLater, WRetryDue, WCollect, WCollectNothing,
              WHouseLater, WLoop, WLast, WDropBacklog, Step, StoreStep
<1>5. CASE WReady \/ WRotateRaises \/ WAppendNothing
  BY <1>5 DEF WReady, WRotateRaises, WAppendNothing, Step, StoreStep
<1>6. CASE WReopen
  BY <1>6 DEF WReopen, NoNewSegment, StoreStep, FailedOpen
<1>f. ASSUME NEW health, NEW failed, FsyncCur(health, failed)
      PROVE  \E n \in 0..Len(buf) : FlushUnits(n)
  BY <1>f DEF FsyncCur, TypeInv, TypeOK, HandleTypes
<1>7. CASE WRotate \/ WFsync
  <2>1. file = "open"
    BY <1>7 DEF WRotate, WFsync, TypeInv, FileObject
  <2> QED BY <1>7, <1>f, <2>1 DEF WRotate, WFsync, StoreStep, Flush
<1>8. CASE WRollover
  BY <1>8 DEF WRollover, StoreStep, Rollover, FailedRotation
<1>9. CASE WFlush
  BY <1>9, <1>f DEF WFlush, StoreStep, Flush
<1>10. CASE WDrainNothing \/ WReturn \/ WServed
  BY <1>10 DEF WDrainNothing, WReturn, WServed, Step, StoreStep
<1>11. CASE WAppend \/ WAppendFails \/ WDrain \/ WAck \/ WHouse \/ WClose
  BY <1>11 DEF StoreStep
<1> QED BY <1>1, <1>2, <1>3, <1>4, <1>5, <1>6, <1>7, <1>8, <1>9, <1>10, <1>11
        DEF Next, Worker, WritePath, Control
-----------------------------------------------------------------------------
(* The size in memory.                                                     *)

LEMMA ConcatLength ==
    ASSUME NEW S, NEW s \in Seq(S), NEW u \in Seq(S)
    PROVE  s \o u \in Seq(S) /\ Len(s \o u) = Len(s) + Len(u)
OBVIOUS

LEMMA FlushKeepsLength ==
    ASSUME TypeInv, file = "open", NEW n \in 0..Len(buf), FlushUnits(n),
           cur' = cur
    PROVE  Len(files'[cur]) + Len(buf') = Len(files[cur]) + Len(buf)
<1>1. /\ cur \in DOMAIN files /\ files[cur] \in Seq(Units(Rec))
      /\ buf \in Seq(Units(Rec))
  BY DEF TypeInv, TypeOK, FileObject, DiskTypes, HandleTypes
<1>2. /\ Upto(buf, n) \in Seq(Units(Rec)) /\ Len(Upto(buf, n)) = n
      /\ Len(From(buf, n)) = Len(buf) - n
  BY <1>1, CutType
<1>3. files'[cur] = files[cur] \o Upto(buf, n) /\ buf' = From(buf, n)
  BY <1>1 DEF FlushUnits, DiskTypes
<1>4. Len(files'[cur]) = Len(files[cur]) + n
  <2> DEFINE old == files[cur]
             part == Upto(buf, n)
             U == Units(Rec)
  <2>1. old \in Seq(U) /\ part \in Seq(U) /\ Len(part) = n
        /\ files'[cur] = old \o part
    BY <1>1, <1>2, <1>3
  <2> HIDE DEF old, part, U
  <2>2. Len(old \o part) = Len(old) + Len(part) BY <2>1, ConcatLength, Zenon
  <2>3. Len(files'[cur]) = Len(old) + n BY <2>1, <2>2, Zenon
  <2> QED BY <2>3, Zenon DEF old
<1>5. Len(files[cur]) \in Nat /\ Len(buf) \in Nat BY <1>1
<1>6. n \in Nat BY <1>5
<1>7. Len(buf') = Len(buf) - n BY <1>2, <1>3
<1> QED BY <1>4, <1>5, <1>6, <1>7

LEMMA SizeStep ==
    TypeInv /\ SizeNotOverstated /\ [Next]_vars => SizeNotOverstated'
<1> SUFFICES ASSUME TypeInv, SizeNotOverstated, [Next]_vars, file' = "open"
             PROVE  curSize' <= Len(files'[cur']) + Len(buf')
  BY DEF SizeNotOverstated
<1>t. /\ files \in [DOMAIN files -> Seq(Units(Rec))] /\ buf \in Seq(Units(Rec))
      /\ hand \in Seq(Rec)
      /\ curSize \in Nat /\ cur \in Nat
      /\ wpc \in {"rollover", "append", "fsync"} => file = "open"
  BY DEF TypeInv, TypeOK, DiskTypes, HandleTypes, WritingTypes, FileObject
<1>o. file = "open" => /\ cur \in DOMAIN files
                       /\ files[cur] \in Seq(Units(Rec))
                       /\ curSize <= Len(files[cur]) + Len(buf)
  BY <1>t DEF TypeInv, FileObject, SizeNotOverstated
<1>s. StoreStep BY StoreSteps
<1>1. CASE UNCHANGED <<files, acks, cur, curSize, file, buf>>
  BY <1>1, <1>o
<1>2. ASSUME NEW fs, NewSegment(fs), cur + 1 \notin DOMAIN fs
      PROVE  curSize' <= Len(files'[cur']) + Len(buf')
  BY <1>2, <1>t DEF NewSegment
<1>3. CASE NewSegment(files)
  <2>1. cur + 1 \notin DOMAIN files
    BY <1>t DEF TypeInv, TypeOK, DiskTypes, Segments
  <2> QED BY <1>2, <1>3, <2>1
<1>4. CASE Rollover
  <2>1. cur + 1 \notin DOMAIN files
    BY <1>t DEF TypeInv, TypeOK, DiskTypes, Segments
  <2> QED BY <1>2, <1>4, <2>1 DEF Rollover
<1>5. CASE FailedOpen \/ FailedRotation
  BY <1>5 DEF FailedOpen, FailedRotation
<1>6. CASE file = "open" /\ Flush
  BY <1>6, <1>o, FlushKeepsLength DEF Flush
<1>7. CASE WAppend
  <2>1. PICK lines \in Encodings(hand) :
          LET all == buf \o Blob(lines) IN
          /\ \E n \in 0..Len(all) :
                /\ files' = [files EXCEPT ![cur] = @ \o Upto(all, n)]
                /\ buf' = From(all, n)
          /\ curSize' = curSize + Len(Blob(lines))
    BY <1>7 DEF WAppend
  <2>2. lines \in Seq(Rec) BY <1>t, <2>1, EncodingsType
  <2>3. Blob(lines) \in Seq(Units(Rec)) BY <2>2, BlobType
  <2> DEFINE all == buf \o Blob(lines)
  <2>4. all \in Seq(Units(Rec)) /\ Len(all) = Len(buf) + Len(Blob(lines))
    BY <1>t, <2>3
  <2>5. PICK n \in 0..Len(all) :
                /\ files' = [files EXCEPT ![cur] = @ \o Upto(all, n)]
                /\ buf' = From(all, n)
    BY <2>1
  <2>6. file = "open" /\ cur' = cur BY <1>7, <1>t DEF WAppend
  <2> HIDE DEF all
  <2>7. /\ Upto(all, n) \in Seq(Units(Rec)) /\ Len(Upto(all, n)) = n
        /\ Len(From(all, n)) = Len(all) - n
    BY <2>4, <2>5, CutType
  <2>8. files'[cur] = files[cur] \o Upto(all, n) BY <1>t, <1>o, <2>5, <2>6
  <2>9. Len(files'[cur]) = Len(files[cur]) + n
    <3> DEFINE old == files[cur]
               part == Upto(all, n)
               U == Units(Rec)
    <3>1. old \in Seq(U) /\ part \in Seq(U) /\ Len(part) = n
          /\ files'[cur] = old \o part
      BY <1>o, <2>6, <2>7, <2>8
    <3> HIDE DEF old, part, U
    <3>2. Len(old \o part) = Len(old) + Len(part) BY <3>1, ConcatLength, Zenon
    <3>3. Len(files'[cur]) = Len(old) + n BY <3>1, <3>2, Zenon
    <3> QED BY <3>3, Zenon DEF old
  <2>10. Len(Blob(lines)) \in Nat BY <2>3
  <2>11. Len(buf) \in Nat /\ Len(files[cur]) \in Nat BY <1>t, <1>o, <2>6
  <2>12. curSize' = curSize + Len(Blob(lines)) BY <2>1
  <2>13. curSize \in Nat /\ curSize <= Len(files[cur]) + Len(buf)
    BY <1>o, <1>t, <2>6
  <2>14. n \in Nat /\ Len(buf') = Len(all) - n BY <2>4, <2>5, <2>7
  <2>15. Len(all) = Len(buf) + Len(Blob(lines)) BY <2>4
  <2> DEFINE F == Len(files[cur])
             B == Len(buf)
             L == Len(Blob(lines))
  <2>16. /\ F \in Nat /\ B \in Nat /\ L \in Nat /\ n \in Nat /\ curSize \in Nat
         /\ curSize <= F + B
    BY <2>10, <2>11, <2>13, <2>14
  <2>17. /\ curSize' = curSize + L /\ Len(files'[cur]) = F + n
         /\ Len(buf') = (B + L) - n
    BY <2>9, <2>12, <2>14, <2>15
  <2> HIDE DEF F, B, L
  <2>18. curSize + L <= (F + n) + ((B + L) - n) BY <2>16
  <2> QED BY <2>6, <2>17, <2>18
<1>8. CASE WAppendFails
  <2>1. file = "open" /\ cur' = cur BY <1>8, <1>t DEF WAppendFails
  <2>2. CASE /\ files' = [files EXCEPT ![cur] = Truncate(@ \o buf, curSize)]
             /\ buf' = <<>>
             /\ UNCHANGED curSize
    <3>1. files'[cur] = Truncate(files[cur] \o buf, curSize)
      BY <1>o, <2>1, <2>2
    <3>2. /\ files[cur] \o buf \in Seq(Units(Rec))
          /\ Len(files[cur] \o buf) = Len(files[cur]) + Len(buf)
      BY <1>o, <1>t, <2>1, ConcatLength
    <3>3. Len(files'[cur]) >= curSize
      <4>1. CASE curSize < Len(files[cur] \o buf)
        <5>1. curSize \in 0..Len(files[cur] \o buf) BY <1>t, <3>2, <4>1
        <5>2. Len(Upto(files[cur] \o buf, curSize)) = curSize
          BY <3>2, <5>1, CutType
        <5> QED BY <1>t, <3>1, <4>1, <5>2 DEF Truncate
      <4>2. CASE ~(curSize < Len(files[cur] \o buf))
        BY <1>t, <1>o, <2>1, <3>1, <3>2, <4>2 DEF Truncate
      <4> QED BY <4>1, <4>2
    <3>4. Len(files'[cur]) \in Nat
      BY <3>1, <3>2, <1>t, TruncateType
    <3> QED BY <1>t, <2>1, <2>2, <3>3, <3>4
  <2>3. CASE /\ curSize' = Len(files'[cur])
             /\ \E lines \in Encodings(hand) :
                LET all == buf \o Blob(lines) IN
                \E n \in 0..(Len(all) - 1) :
                    /\ files' = [files EXCEPT ![cur] = @ \o Upto(all, n)]
                    /\ buf' = From(buf, MinOf(n, Len(buf)))
    <3>1. PICK lines \in Encodings(hand) :
                LET all == buf \o Blob(lines) IN
                \E n \in 0..(Len(all) - 1) :
                    /\ files' = [files EXCEPT ![cur] = @ \o Upto(all, n)]
                    /\ buf' = From(buf, MinOf(n, Len(buf)))
      BY <2>3
    <3>2. PICK n : n \in 0..(Len(buf \o Blob(lines)) - 1)
                   /\ files' = [files EXCEPT ![cur] = @ \o Upto(buf \o Blob(lines), n)]
                   /\ buf' = From(buf, MinOf(n, Len(buf)))
      BY <3>1
    <3>3. lines \in Seq(Rec) BY <1>t, <3>1, EncodingsType
    <3>4. Blob(lines) \in Seq(Units(Rec)) BY <3>3, BlobType
    <3>5. buf \o Blob(lines) \in Seq(Units(Rec))
          /\ n \in 0..Len(buf \o Blob(lines))
      BY <1>t, <3>2, <3>4
    <3>6. Upto(buf \o Blob(lines), n) \in Seq(Units(Rec)) BY <3>5, CutType
    <3>7. files'[cur] \in Seq(Units(Rec)) BY <1>o, <2>1, <3>2, <3>6
    <3>8. MinOf(n, Len(buf)) \in 0..Len(buf)
      BY <1>t, <3>2, <3>5 DEF MinOf
    <3>9. buf' \in Seq(Units(Rec)) BY <1>t, <3>2, <3>8, CutType
    <3> QED BY <2>1, <2>3, <3>7, <3>9
  <2> QED BY <1>8, <2>2, <2>3 DEF WAppendFails
<1>9. CASE WDrain
  <2>1. PICK n \in 0..Len(buf) :
          LET fs == IF buf = <<>> THEN files
                    ELSE [files EXCEPT ![cur] = @ \o Upto(buf, n)]
          IN  /\ files' = Without(fs, Exhausted(fs))
              /\ buf' = From(buf, n)
    BY <1>9 DEF WDrain
  <2> DEFINE fs == IF buf = <<>> THEN files
                   ELSE [files EXCEPT ![cur] = @ \o Upto(buf, n)]
  <2>2. file = "open" /\ UNCHANGED <<cur, curSize>> BY <1>9 DEF WDrain
  <2>3. files'[cur] = fs[cur]
    <3>1. cur \in DOMAIN fs \ Exhausted(fs) BY <1>o, <2>2 DEF Exhausted
    <3> QED BY <2>1, <3>1 DEF Without
  <2>4. /\ Upto(buf, n) \in Seq(Units(Rec)) /\ Len(Upto(buf, n)) = n
        /\ buf' \in Seq(Units(Rec)) /\ Len(buf') = Len(buf) - n
    BY <1>t, <2>1, CutType
  <2>5. Len(fs[cur]) = Len(files[cur]) + n
    <3>1. CASE buf = <<>>
      <4>1. n = 0 BY <2>1, <3>1
      <4>2. Len(files[cur]) \in Nat BY <1>o, <2>2
      <4> QED BY <3>1, <4>1, <4>2
    <3>2. CASE buf # <<>>
      <4>1. fs[cur] = files[cur] \o Upto(buf, n) BY <1>o, <2>2, <3>2
      <4> HIDE DEF fs
      <4> DEFINE old == files[cur]
                 part == Upto(buf, n)
                 U == Units(Rec)
      <4>2. old \in Seq(U) /\ part \in Seq(U) /\ Len(part) = n
            /\ fs[cur] = old \o part
        BY <1>o, <2>2, <2>4, <4>1
      <4> HIDE DEF old, part, U
      <4>3. Len(old \o part) = Len(old) + Len(part) BY <4>2, ConcatLength, Zenon
      <4>4. Len(fs[cur]) = Len(old) + n BY <4>2, <4>3, Zenon
      <4> QED BY <4>4, Zenon DEF old
    <3> QED BY <3>1, <3>2
  <2> HIDE DEF fs
  <2>6. Len(files[cur]) \in Nat /\ Len(buf) \in Nat BY <1>t, <1>o, <2>2
  <2> QED BY <1>t, <1>o, <2>1, <2>2, <2>3, <2>4, <2>5, <2>6
<1>10. ASSUME NEW gone, cur \notin gone, files' = Without(files, gone),
              UNCHANGED <<cur, file, buf, curSize>>
       PROVE  curSize' <= Len(files'[cur']) + Len(buf')
  BY <1>10, <1>o DEF Without
<1>11. CASE WAck
  <2>1. cur \notin Finished(Head(requests).tokens) BY DEF Finished
  <2> QED BY <1>10, <1>11, <2>1 DEF WAck, handle
<1>12. CASE WHouse
  <2>1. cur \notin Victims BY DEF Victims, Candidates
  <2> QED BY <1>10, <1>12, <2>1 DEF WHouse, handle
<1>13. CASE WClose BY <1>13 DEF WClose
<1>14. CASE Boot BY <1>14 DEF Boot
<1> QED BY <1>s, <1>1, <1>3, <1>4, <1>5, <1>6, <1>7, <1>8, <1>9, <1>11, <1>12,
           <1>13, <1>14 DEF StoreStep

\* The worker never believes a segment longer than what it has written to the
\* file object, so truncating to that size never extends the file: under every
\* failure, also of the truncation itself.
THEOREM SizeCorrect == Spec => []SizeNotOverstated
<1>1. Init => SizeNotOverstated BY DEF Init, SizeNotOverstated
<1> QED BY <1>1, SizeStep, TypeInvHolds, PTL DEF Spec
-----------------------------------------------------------------------------
(* The offsets.                                                            *)

\* A lent batch is of segments that are there, and its tokens are not behind
\* what is acked.
LoanIsThere ==
    \A t \in inflight : t[1] \in DOMAIN files /\ acks[t[1]] <= t[2]

\* An ack that is queued is of the batch that is lent, and nothing but the
\* flush of close() is served before it.
AckIsOfLoan ==
    \A i \in DOMAIN requests :
        requests[i].kind = "ack" =>
            /\ requests[i].tokens = inflight
            /\ \A j \in DOMAIN requests : j < i => requests[j].kind = "flush"

LoanInv == LoanIsThere /\ AckIsOfLoan

\* Only a drain, an ack and the cap change what is acked or remove a segment.
LEMMA OffsetsStay ==
    ASSUME TypeInv, [Next]_vars, ~WDrain, ~WAck, ~WHouse, ~Boot
    PROVE  /\ \A s \in DOMAIN files : s \in DOMAIN files' /\ acks'[s] = acks[s]
           /\ \A s \in DOMAIN files' : s \in DOMAIN files \/ s = cur + 1
<1>1. StoreStep BY StoreSteps
<1>2. files \in [DOMAIN files -> Seq(Units(Rec))]
  BY DEF TypeInv, TypeOK, DiskTypes
<1>3. ASSUME UNCHANGED acks, DOMAIN files' = DOMAIN files
      PROVE  /\ \A s \in DOMAIN files : s \in DOMAIN files' /\ acks'[s] = acks[s]
             /\ \A s \in DOMAIN files' : s \in DOMAIN files \/ s = cur + 1
  BY <1>3
<1>4. ASSUME NEW fs, DOMAIN fs = DOMAIN files, NewSegment(fs)
      PROVE  /\ \A s \in DOMAIN files : s \in DOMAIN files' /\ acks'[s] = acks[s]
             /\ \A s \in DOMAIN files' : s \in DOMAIN files \/ s = cur + 1
  BY <1>4 DEF NewSegment
<1>5. CASE NewSegment(files) BY <1>4, <1>5
<1>6. CASE Rollover
  <2>1. \A n : DOMAIN [files EXCEPT ![cur] = @ \o Upto(buf, n)] = DOMAIN files
    BY <1>2
  <2> QED BY <1>4, <1>6, <2>1 DEF Rollover
<1>7. CASE FailedOpen \/ FailedRotation \/ Flush \/ WAppend \/ WAppendFails
           \/ WClose \/ UNCHANGED <<files, acks>>
  <2>1. UNCHANGED acks
    BY <1>7 DEF FailedOpen, FailedRotation, Flush, WAppend, WAppendFails, WClose
  <2>2. DOMAIN files' = DOMAIN files
    BY <1>2, <1>7 DEF FailedOpen, FailedRotation, Flush, FlushUnits, WAppend,
       WAppendFails, WClose, FlushAndDiscard
  <2> QED BY <1>3, <2>1, <2>2
<1> QED BY <1>1, <1>5, <1>6, <1>7 DEF StoreStep

\* What a drain lends, it leaves in place.
LEMMA DrainLends ==
    ASSUME TypeInv, WDrain
    PROVE  /\ LoanIsThere'
           /\ \A s \in DOMAIN files' : s \in DOMAIN files /\ acks'[s] = acks[s]
<1>1. PICK n \in 0..Len(buf) :
        LET fs == IF buf = <<>> THEN files
                  ELSE [files EXCEPT ![cur] = @ \o Upto(buf, n)]
        IN  /\ files' = Without(fs, Exhausted(fs))
            /\ acks' = Without(acks, Exhausted(fs))
            /\ inflight' = DrainBatch(fs).tokens
  BY DEF WDrain
<1> DEFINE fs == IF buf = <<>> THEN files
                 ELSE [files EXCEPT ![cur] = @ \o Upto(buf, n)]
<1>2. /\ files' = Without(fs, Exhausted(fs))
      /\ acks' = Without(acks, Exhausted(fs))
      /\ inflight' = DrainBatch(fs).tokens
  BY <1>1
<1>3. /\ DiskTypes /\ buf \in Seq(Units(Rec))
      /\ files \in [DOMAIN files -> Seq(Units(Rec))]
      /\ acks \in [DOMAIN files -> Nat]
  BY DEF TypeInv, TypeOK, HandleTypes, DiskTypes
<1>4. fs \in [DOMAIN files -> Seq(Units(Rec))]
  <2>1. Upto(buf, n) \in Seq(Units(Rec)) BY <1>3, CutType
  <2> QED BY <1>3, <2>1, ExtendType
<1> HIDE DEF fs
<1>5. ASSUME NEW p \in Lines(fs)
      PROVE  /\ p[1] \in DOMAIN files \ Exhausted(fs)
             /\ acks[p[1]] <= p[2] /\ p[2] <= Len(fs[p[1]])
             /\ acks[p[1]] <= Len(fs[p[1]])
  <2>1. PICK s \in DOMAIN files : p \in {s} \X Whole(fs[s], acks[s])
    BY <1>4, <1>5 DEF Lines
  <2>2. p[1] = s /\ p[2] \in Whole(fs[s], acks[s]) BY <2>1
  <2>3. acks[s] \in Nat /\ Len(fs[s]) \in Nat BY <1>3, <1>4
  <2>4. p[2] \in (acks[s] + 2)..Len(fs[s]) BY <2>2 DEF Whole
  <2>5. ~(acks[s] >= Len(fs[s])) BY <2>3, <2>4
  <2>6. s \notin Exhausted(fs) BY <2>2, <2>5 DEF Exhausted
  <2> QED BY <2>2, <2>3, <2>4, <2>6
<1>6. ASSUME NEW t \in DrainBatch(fs).tokens
      PROVE  t[1] \in DOMAIN files \ Exhausted(fs) /\ acks[t[1]] <= t[2]
  <2>1. CASE t \in Completing(fs) BY <1>5, <2>1 DEF Completing
  <2>2. CASE \E p \in Delivered(fs) : t = <<p[1], Len(fs[p[1]])>>
    BY <1>5, <2>2 DEF Delivered
  <2> QED BY <1>6, <2>1, <2>2 DEF DrainBatch
<1>7. DOMAIN acks = DOMAIN files /\ DOMAIN fs = DOMAIN files BY <1>3, <1>4
<1>8. /\ DOMAIN files' = DOMAIN files \ Exhausted(fs)
      /\ \A s \in DOMAIN files \ Exhausted(fs) : acks'[s] = acks[s]
  BY <1>2, <1>7 DEF Without
<1> QED BY <1>2, <1>6, <1>8 DEF LoanIsThere

\* The cap removes no segment of a batch that is lent.
LEMMA CapSparesLoan ==
    ASSUME TypeInv, LoanIsThere, WHouse
    PROVE  /\ LoanIsThere'
           /\ \A s \in DOMAIN files' : s \in DOMAIN files /\ acks'[s] = acks[s]
<1>1. \A t \in inflight : t[1] \notin Victims BY DEF Victims, Candidates
<1>2. DOMAIN acks = DOMAIN files BY DEF TypeInv, TypeOK, DiskTypes
<1>3. files' = Without(files, Victims) /\ acks' = Without(acks, Victims)
      /\ inflight' = inflight
  BY DEF WHouse
<1> HIDE DEF Victims
<1> QED BY <1>1, <1>2, <1>3 DEF LoanIsThere, Without

LEMMA AckQueueStep ==
    ASSUME TypeInv, LeaseInv, AckIsOfLoan, [Next]_vars
    PROVE  AckIsOfLoan'
<1>0. requests \in Seq(Requests) /\ LeaseIsInflight
  BY DEF TypeInv, TypeOK, SharedTypes, LeaseInv
<1>u. ASSUME UNCHANGED <<requests, inflight>> PROVE AckIsOfLoan'
  BY <1>u DEF AckIsOfLoan
\* A request that is no ack, added at the end, disturbs none.
<1>a. ASSUME NEW reqs \in Seq(Requests), NEW req, req.kind # "ack",
             DOMAIN reqs = DOMAIN requests,
             \A i \in DOMAIN requests :
                 reqs[i] = requests[i]
                 \/ (requests[i].kind = "drain" /\ reqs[i].kind = "orphan"),
             requests' \in {reqs, Append(reqs, req)}, inflight' = inflight
      PROVE  AckIsOfLoan'
  <2>1. \A i \in DOMAIN requests' :
            \/ i \in DOMAIN requests /\ requests'[i] = reqs[i]
            \/ i = Len(reqs) + 1 /\ requests'[i] = req
    BY <1>a
  <2>2. \A i \in DOMAIN requests : i < Len(reqs) + 1 BY <1>a
  <2>3. ASSUME NEW i \in DOMAIN requests', requests'[i].kind = "ack"
        PROVE  i \in DOMAIN requests /\ requests'[i] = requests[i]
    BY <1>a, <2>1, <2>3
  <2>4. ASSUME NEW i \in DOMAIN requests, requests[i].kind = "ack",
               NEW j \in DOMAIN requests', j < i
        PROVE  requests'[j].kind = "flush"
    <3>1. j \in DOMAIN requests /\ requests'[j] = reqs[j]
      <4>1. i \in Nat /\ j \in Nat /\ i < Len(reqs) + 1 /\ Len(reqs) \in Nat
        BY <1>a, <2>2, <2>4
      <4>2. j # Len(reqs) + 1 BY <2>4, <4>1
      <4> QED BY <2>1, <4>2
    <3>2. requests[j].kind = "flush" BY <2>4, <3>1 DEF AckIsOfLoan
    <3> QED BY <1>a, <3>1, <3>2
  <2> QED BY <1>a, <2>3, <2>4 DEF AckIsOfLoan
<1>1. CASE Loop \/ Ask
  <2>1. /\ requests' \in {requests, Append(requests, Request("flush", {})),
                          Append(requests, Request("drain", {}))}
        /\ inflight' = inflight
    BY <1>1 DEF Loop, Write, Close, Ask, worker
  <2> QED BY <1>0, <1>a, <2>1 DEF Request
<1>2. CASE Resume BY <1>2, <1>u DEF Resume, shared, worker
<1>3. CASE DrainTimeout \/ LeaderCancelled
  <2>1. /\ requests' \in {Orphaned(requests),
                          Append(Orphaned(requests), Request("cancel", {}))}
        /\ inflight' = inflight
    BY <1>3 DEF DrainTimeout, LeaderCancelled, worker
  <2>2. /\ Orphaned(requests) \in Seq(Requests)
        /\ DOMAIN Orphaned(requests) = DOMAIN requests
    BY <1>0, OrphanedType
  <2>3. \A i \in DOMAIN requests :
            Orphaned(requests)[i] = requests[i]
            \/ (requests[i].kind = "drain" /\ Orphaned(requests)[i].kind = "orphan")
    BY DEF Orphaned, Request
  <2>4. Request("cancel", {}).kind # "ack" BY DEF Request
  <2> QED BY <1>a, <2>1, <2>2, <2>3, <2>4
<1>4. CASE CommitFails
  <2>1. /\ requests' \in {requests, Append(requests, Request("nack", lease.tokens))}
        /\ inflight' = inflight
    BY <1>4 DEF CommitFails, Send, worker
  <2>2. Request("nack", lease.tokens).kind # "ack" BY DEF Request
  <2> QED BY <1>0, <1>a, <2>1, <2>2
<1>5. CASE CommitOk
  <2>1. /\ requests' \in {requests, Append(requests, Request("ack", lease.tokens))}
        /\ inflight' = inflight /\ cpc = "commit"
    BY <1>5 DEF CommitOk, Send, worker
  <2>2. inflight = lease.tokens /\ \A i \in DOMAIN requests : requests[i].kind = "flush"
    BY <1>0, <2>1 DEF LeaseIsInflight
  <2>3. CASE requests' = Append(requests, Request("ack", lease.tokens))
    <3>1. \A i \in DOMAIN requests' :
              \/ requests'[i].kind = "flush"
              \/ i = Len(requests) + 1 /\ requests'[i].tokens = lease.tokens
      BY <1>0, <2>2, <2>3 DEF Request
    <3>2. \A i \in DOMAIN requests' : i \in Nat /\ i <= Len(requests) + 1
      BY <1>0, <2>3
    <3>3. Len(requests) \in Nat BY <1>0
    <3> QED BY <2>1, <2>2, <3>1, <3>2, <3>3 DEF AckIsOfLoan
  <2> QED BY <1>u, <2>1, <2>3
<1>6. CASE Worker /\ ~(\E kind : Serve(kind))
  BY <1>u, <1>6, OtherStepsKeepLease
<1>7. ASSUME NEW kind, Control, Serve(kind) PROVE AckIsOfLoan'
  <2>1. /\ requests # <<>> /\ Head(requests).kind = kind
        /\ requests' = Tail(requests)
    BY <1>7 DEF Serve
  <2>2. /\ requests[1].kind = kind /\ 1 \in DOMAIN requests
        /\ \A i \in DOMAIN requests' : requests'[i] = requests[i + 1]
                                       /\ i + 1 \in DOMAIN requests /\ i \in Nat \ {0}
    BY <1>0, <2>1
  <2>3. ASSUME NEW i \in DOMAIN requests', requests'[i].kind = "ack"
        PROVE  kind = "flush"
    <3>1. requests[i + 1].kind = "ack" /\ i + 1 \in DOMAIN requests /\ 1 < i + 1
      BY <2>2, <2>3
    <3> QED BY <2>2, <3>1 DEF AckIsOfLoan
  <2>4. kind = "flush" => inflight' = inflight
    BY <1>7, ServingSteps DEF DrainKinds
  <2>5. ASSUME NEW i \in DOMAIN requests', requests'[i].kind = "ack"
        PROVE  /\ requests'[i].tokens = inflight'
               /\ \A j \in DOMAIN requests' : j < i => requests'[j].kind = "flush"
    <3>1. requests[i + 1].kind = "ack" /\ i + 1 \in DOMAIN requests
      BY <2>2, <2>5
    <3>2. inflight' = inflight BY <2>3, <2>4, <2>5
    <3>3. \A j \in DOMAIN requests' : j < i => j + 1 < i + 1 BY <2>2, <2>5
    <3> QED BY <2>2, <2>5, <3>1, <3>2, <3>3 DEF AckIsOfLoan
  <2> QED BY <2>5 DEF AckIsOfLoan
<1>8. CASE Process
  BY <1>8 DEF Process, Restart, Crash, Boot, AckIsOfLoan
<1>9. CASE UNCHANGED vars
  BY <1>u, <1>9 DEF vars, shared
<1>10. Worker => Control \/ ~(\E kind : Serve(kind))
  BY DEF Worker, WStart, WRetryNothing, WRetryLater, WRetryDue, WCollect,
         WCollectNothing, WritePath, WHouse, WHouseLater, WLoop, WLast,
         WDropBacklog, WClose, WReady, WReopen, WRotate, WRotateRaises,
         WRollover, WAppend, WAppendNothing, WAppendFails, WFsync, Step, Serve,
         Serving
<1> QED BY <1>1, <1>2, <1>3, <1>4, <1>5, <1>6, <1>7, <1>8, <1>9, <1>10
        DEF Next, Leader, Terminated

\* What is lent changes only when a drain, an ack or a return is served.
LEMMA LoanStays ==
    [Next]_vars /\ ~WDrain /\ ~WAck /\ ~WReturn /\ ~Boot => inflight' = inflight
<1> SUFFICES ASSUME [Next]_vars, ~WDrain, ~WAck, ~WReturn, ~Boot
             PROVE  inflight' = inflight
  OBVIOUS
<1>1. CASE Loop \/ Leader \/ UNCHANGED vars \/ Terminated
  BY <1>1 DEF Loop, Leader, Write, Close, Ask, Resume, DrainTimeout, CommitOk,
              CommitFails, LeaderCancelled, worker, vars, Terminated
<1>2. CASE Process BY <1>2 DEF Process, Restart, Crash
<1>3. CASE WDrainNothing \/ WFlush \/ WServed
  BY <1>3 DEF WDrainNothing, WFlush, WServed, Step
<1>4. CASE Worker /\ ~Control
  BY <1>4 DEF Worker, WStart, WRetryNothing, WRetryLater, WRetryDue, WCollect,
       WCollectNothing, WritePath, WHouse, WHouseLater, WLoop, WLast,
       WDropBacklog, WClose, WReady, WReopen, WRotate, WRotateRaises, WRollover,
       WAppend, WAppendNothing, WAppendFails, WFsync, Step
<1> QED BY <1>1, <1>2, <1>3, <1>4 DEF Next, Control

LEMMA LoanInvStep ==
    TypeInv /\ LeaseInv /\ LoanInv /\ [Next]_vars => LoanInv'
<1> SUFFICES ASSUME TypeInv, LeaseInv, LoanInv, [Next]_vars PROVE LoanIsThere'
  BY AckQueueStep DEF LoanInv
<1>1. LoanIsThere BY DEF LoanInv
<1>2. CASE WDrain BY <1>2, DrainLends
<1>3. CASE WHouse BY <1>1, <1>3, CapSparesLoan
<1>4. CASE WAck \/ WReturn \/ Boot
  BY <1>4 DEF WAck, WReturn, Boot, LoanIsThere
<1>5. CASE ~WDrain /\ ~WHouse /\ ~WAck /\ ~WReturn /\ ~Boot
  <2>1. inflight' = inflight BY <1>5, LoanStays
  <2>2. \A s \in DOMAIN files : s \in DOMAIN files' /\ acks'[s] = acks[s]
    BY <1>5, OffsetsStay
  <2> QED BY <1>1, <2>1, <2>2 DEF LoanIsThere
<1> QED BY <1>2, <1>3, <1>4, <1>5

LEMMA LoanHolds == Spec => [](TypeInv /\ LeaseInv /\ LoanInv)
<1>1. Init => LeaseInv /\ LoanInv
  BY DEF Init, LeaseInv, OneLiveDrain, LeaseIsInflight, LoanInv, LoanIsThere,
         AckIsOfLoan
<1>2. TypeInv => TypeOK BY DEF TypeInv
<1> QED BY <1>1, <1>2, LeaseInvStep, LoanInvStep, TypeInvHolds, PTL DEF Spec

\* The segments of the batch the leader inserts are there, whatever the cap,
\* a drain or a late ack has removed meanwhile.
THEOREM LeasedStay == Spec => []LeasedSegmentsExist
<1>1. LeaseInv /\ LoanInv => LeasedSegmentsExist
  BY DEF LeaseInv, LeaseIsInflight, LoanInv, LoanIsThere, LeasedSegmentsExist
<1> QED BY <1>1, LoanHolds, PTL

\* What a step does to the offsets and to the set of segments.
Forward ==
    /\ \A s \in DOMAIN acks \cap DOMAIN acks' : acks'[s] >= acks[s]
    /\ \A s \in DOMAIN files' : s \in DOMAIN files \/ s > cur

LEMMA ForwardStep ==
    TypeInv /\ TypeInv' /\ LoanInv /\ [Next]_vars => Forward
<1> SUFFICES ASSUME TypeInv, TypeInv', LoanInv, [Next]_vars PROVE Forward
  OBVIOUS
<1>a. DOMAIN acks' = DOMAIN files' BY DEF TypeInv, TypeOK, DiskTypes
<1>1. /\ DOMAIN acks = DOMAIN files /\ acks \in [DOMAIN files -> Nat]
      /\ cur \in Nat /\ requests \in Seq(Requests)
  BY DEF TypeInv, TypeOK, DiskTypes, SharedTypes
<1>2. CASE ~WDrain /\ ~WHouse /\ ~WAck /\ ~Boot
  <2>1. /\ \A s \in DOMAIN files : s \in DOMAIN files' /\ acks'[s] = acks[s]
        /\ \A s \in DOMAIN files' : s \in DOMAIN files \/ s = cur + 1
    BY <1>2, OffsetsStay
  <2> QED BY <1>1, <2>1 DEF Forward
<1>3. CASE WDrain \/ WHouse
  <2>1. \A s \in DOMAIN files' : s \in DOMAIN files /\ acks'[s] = acks[s]
    BY <1>3, DrainLends, CapSparesLoan DEF LoanInv
  <2> QED BY <1>1, <1>a, <2>1 DEF Forward
<1>4. CASE WAck
  <2> DEFINE tokens == Head(requests).tokens
  \* The head of the queue is the ack of the batch that is lent.
  <2>1. tokens = inflight
    <3>1. requests # <<>> /\ Head(requests).kind = "ack"
      BY <1>4 DEF WAck, Serve
    <3>2. 1 \in DOMAIN requests /\ Head(requests) = requests[1] BY <1>1, <3>1
    <3> QED BY <3>1, <3>2 DEF LoanInv, AckIsOfLoan
  <2>2. /\ files' = Without(files, Finished(tokens))
        /\ \/ acks' = [s \in DOMAIN files \ Finished(tokens) |->
                          IF \E t \in tokens : t[1] = s
                          THEN (CHOOSE t \in tokens : t[1] = s)[2]
                          ELSE acks[s]]
           \/ acks' = Without(acks, Finished(tokens))
    BY <1>4 DEF WAck
  <2> HIDE DEF tokens
  <2>3. \A t \in tokens : acks[t[1]] <= t[2]
    BY <2>1 DEF LoanInv, LoanIsThere
  <2>4. ASSUME NEW s, \E t \in tokens : t[1] = s
        PROVE  acks[s] <= (CHOOSE t \in tokens : t[1] = s)[2]
    BY <2>3, <2>4
  <2>5. ASSUME NEW s \in DOMAIN acks \cap DOMAIN acks'
        PROVE  acks'[s] >= acks[s]
    <3>1. acks[s] \in Nat BY <1>1
    <3>2. inflight \in SUBSET Token BY DEF TypeInv, TypeOK, ControlTypes
    <3>3. ASSUME \E t \in tokens : t[1] = s
          PROVE  (CHOOSE t \in tokens : t[1] = s)[2] \in Nat
      BY <2>1, <3>2, <3>3 DEF Token
    <3>4. acks'[s] = acks[s]
          \/ ((\E t \in tokens : t[1] = s)
              /\ acks'[s] = (CHOOSE t \in tokens : t[1] = s)[2])
      BY <2>2 DEF Without
    <3> QED BY <2>4, <3>1, <3>3, <3>4
  <2>6. \A s \in DOMAIN files' : s \in DOMAIN files BY <2>2 DEF Without
  <2> QED BY <2>5, <2>6 DEF Forward
<1>5. CASE Boot BY <1>1, <1>5 DEF Boot, disk, Forward
<1> QED BY <1>2, <1>3, <1>4, <1>5

\* No ack ever moves an offset back and no removed segment reappears: a late
\* ack, one of another batch or a restart would have to come first.
THEOREM OffsetsAdvance == Spec => AcksAdvance
<1>1. TypeInv /\ TypeInv' /\ LoanInv /\ [Next]_vars => [Forward]_vars
  BY ForwardStep
<1>2. [][Forward]_vars => AcksAdvance
  BY PTL DEF AcksAdvance, Forward
<1> QED BY <1>1, <1>2, LoanHolds, PTL DEF Spec
-----------------------------------------------------------------------------
(* The cap.  It sums sizes with a fold of the library: the value, on the   *)
(* whole set, of a function on its subsets that takes one element of a     *)
(* subset after the other.                                                 *)

Total(S) == MapThenSumSet(Size, S)
Picked(S) == CHOOSE s \in S : TRUE

Adds(f, S) ==
    f = [u \in SUBSET S |->
            IF u = {} THEN 0 ELSE Size(Picked(u)) + f[u \ {Picked(u)}]]

TheSum(S) == CHOOSE f : Adds(f, S)

LEMMA TotalIs == ASSUME NEW S PROVE Total(S) = TheSum(S)[S]
BY DEF Total, MapThenSumSet, MapThenFoldSet, TheSum, Adds, Picked

\* Two such functions agree where both are defined.
LEMMA AddsAgree ==
    ASSUME NEW S, IsFiniteSet(S), NEW f, Adds(f, S),
           NEW U \in SUBSET S, NEW g, Adds(g, U)
    PROVE  g[U] = f[U]
<1> DEFINE T == {u \in SUBSET U : g[u] = f[u]}
<1>1. IsFiniteSet(U) BY FS_Subset
<1>2. ASSUME NEW u \in SUBSET U, \A v \in SUBSET u : v # u => v \in T
      PROVE  u \in T
  <2>1. CASE u = {} BY <2>1 DEF Adds
  <2>2. CASE u # {}
    <3>1. Picked(u) \in u BY <2>2 DEF Picked
    <3>2. u \ {Picked(u)} \in T BY <1>2, <3>1
    <3>3. /\ g[u] = Size(Picked(u)) + g[u \ {Picked(u)}]
          /\ f[u] = Size(Picked(u)) + f[u \ {Picked(u)}]
      BY <2>2 DEF Adds
    <3> QED BY <3>2, <3>3
  <2> QED BY <2>1, <2>2
<1> HIDE DEF T
<1>3. SUBSET U \subseteq T BY <1>1, <1>2, OverSubsets
<1>4. U \in SUBSET U OBVIOUS
<1>5. U \in T BY <1>3, <1>4
<1> QED BY <1>5 DEF T

LEMMA TheSumAdds ==
    ASSUME NEW B, IsFiniteSet(B) PROVE Adds(TheSum(B), B)
<1> DEFINE T == {S \in SUBSET B : Adds(TheSum(S), S)}
<1>1. ASSUME NEW S \in SUBSET B, \A u \in SUBSET S : u # S => u \in T
      PROVE  S \in T
  <2> DEFINE rest(u) == u \ {Picked(u)}
             h == [u \in SUBSET S |->
                      IF u = {} THEN 0
                      ELSE Size(Picked(u)) + TheSum(rest(u))[rest(u)]]
  <2>1. ASSUME NEW u \in SUBSET S, u # {}
        PROVE  rest(u) \in SUBSET S /\ h[rest(u)] = TheSum(rest(u))[rest(u)]
    <3>1. Picked(u) \in u BY <2>1 DEF Picked
    <3>2. rest(u) \in SUBSET S /\ rest(u) # S BY <3>1
    <3> DEFINE v == rest(u)
    <3>3. Adds(TheSum(v), v) BY <1>1, <3>2
    <3>4. v \in SUBSET S /\ IsFiniteSet(v) BY <3>2, FS_Subset
    <3> HIDE DEF v
    <3>5. ASSUME v = {} PROVE h[v] = TheSum(v)[v]
      <4>1. TheSum(v)[v] = 0 BY <3>3, <3>5 DEF Adds
      <4> QED BY <3>4, <3>5, <4>1
    <3>6. ASSUME v # {} PROVE h[v] = TheSum(v)[v]
      <4>1. Picked(v) \in v BY <3>6 DEF Picked
      <4>2. rest(v) \in SUBSET v /\ rest(v) # S BY <3>4, <4>1
      <4>3. Adds(TheSum(rest(v)), rest(v)) BY <1>1, <3>4, <4>2
      <4>4. TheSum(rest(v))[rest(v)] = TheSum(v)[rest(v)]
        BY <3>3, <3>4, <4>2, <4>3, AddsAgree
      <4>5. TheSum(v)[v] = Size(Picked(v)) + TheSum(v)[rest(v)]
        BY <3>3, <3>6 DEF Adds
      <4>6. h[v] = Size(Picked(v)) + TheSum(rest(v))[rest(v)] BY <3>4, <3>6
      <4> QED BY <4>4, <4>5, <4>6
    <3>7. h[v] = TheSum(v)[v] BY <3>5, <3>6
    <3> QED BY <3>2, <3>7 DEF v
  <2>2. Adds(h, S)
    <3>1. \A u \in SUBSET S : h[u] = IF u = {} THEN 0
                                     ELSE Size(Picked(u)) + h[rest(u)]
      BY <2>1
    <3> HIDE DEF h
    <3> SUFFICES h = [u \in SUBSET S |-> h[u]] BY <3>1 DEF Adds
    <3> QED BY DEF h
  <2> HIDE DEF h
  <2>3. Adds(TheSum(S), S) BY <2>2 DEF TheSum
  <2> QED BY <2>3
<1> HIDE DEF T
<1>2. SUBSET B \subseteq T BY <1>1, OverSubsets
<1>3. B \in SUBSET B OBVIOUS
<1>4. B \in T BY <1>2, <1>3
<1> QED BY <1>4 DEF T

\* The sum, one element after the other.
LEMMA TotalSteps ==
    ASSUME NEW S, IsFiniteSet(S)
    PROVE  Total(S) = IF S = {} THEN 0
                      ELSE Size(Picked(S)) + Total(S \ {Picked(S)})
<1>1. Adds(TheSum(S), S) BY TheSumAdds
<1>2. CASE S = {} BY <1>1, <1>2, TotalIs DEF Adds
<1>3. CASE S # {}
  <2> DEFINE rest == S \ {Picked(S)}
  <2>1. IsFiniteSet(rest) /\ rest \in SUBSET S BY FS_Subset
  <2>2. Adds(TheSum(rest), rest) BY <2>1, TheSumAdds
  <2>3. TheSum(rest)[rest] = TheSum(S)[rest] BY <1>1, <2>1, <2>2, AddsAgree
  <2>4. TheSum(S)[S] = Size(Picked(S)) + TheSum(S)[rest] BY <1>1, <1>3 DEF Adds
  <2>5. Total(S) = TheSum(S)[S] /\ Total(rest) = TheSum(rest)[rest] BY TotalIs
  <2> QED BY <1>3, <2>3, <2>4, <2>5
<1> QED BY <1>2, <1>3

\* It does not depend on the order: any element may be taken out.
LEMMA TotalWithout ==
    ASSUME NEW B, IsFiniteSet(B), \A s \in B : Size(s) \in Nat
    PROVE  \A S \in SUBSET B :
               /\ Total(S) \in Nat
               /\ \A s \in S : Total(S) = Size(s) + Total(S \ {s})
<1> DEFINE T == {S \in SUBSET B :
                    /\ Total(S) \in Nat
                    /\ \A s \in S : Total(S) = Size(s) + Total(S \ {s})}
<1>1. ASSUME NEW S \in SUBSET B, \A u \in SUBSET S : u # S => u \in T
      PROVE  S \in T
  <2>1. IsFiniteSet(S) BY FS_Subset
  <2>2. CASE S = {}
    <3>1. Total(S) = 0 BY <2>1, <2>2, TotalSteps
    <3> QED BY <2>2, <3>1
  <2>3. CASE S # {}
    <3> DEFINE p == Picked(S)
    <3>1. p \in S BY <2>3 DEF Picked
    <3>2. Total(S) = Size(p) + Total(S \ {p}) BY <2>1, <2>3, TotalSteps
    <3> HIDE DEF p
    <3>3. S \ {p} \in T BY <1>1, <3>1
    <3>4. Total(S) \in Nat BY <3>1, <3>2, <3>3
    <3>5. ASSUME NEW s \in S, s # p PROVE Total(S) = Size(s) + Total(S \ {s})
      <4>1. S \ {s} \in T BY <1>1
      <4>2. p \in S \ {s} /\ s \in S \ {p} BY <3>1, <3>5
      <4>3. (S \ {s}) \ {p} = (S \ {p}) \ {s} OBVIOUS
      <4> DEFINE both == Total((S \ {p}) \ {s})
      <4>4. Total(S \ {s}) = Size(p) + both BY <4>1, <4>2, <4>3
      <4>5. Total(S \ {p}) = Size(s) + both BY <3>3, <4>2
      <4>6. (S \ {p}) \ {s} \in T BY <1>1, <3>1
      <4>7. both \in Nat /\ Size(p) \in Nat /\ Size(s) \in Nat BY <3>1, <4>6
      <4> HIDE DEF both
      <4> QED BY <3>2, <4>4, <4>5, <4>7
    <3> QED BY <3>2, <3>4, <3>5
  <2> QED BY <2>2, <2>3
<1> HIDE DEF T
<1>2. SUBSET B \subseteq T BY <1>1, OverSubsets
<1> QED BY <1>2 DEF T

LEMMA TotalGrows ==
    ASSUME NEW B, IsFiniteSet(B), \A s \in B : Size(s) \in Nat,
           NEW U \in SUBSET B
    PROVE  Total(U) <= Total(B)
<1> DEFINE T == {S \in SUBSET B : U \subseteq S => Total(U) <= Total(S)}
<1>0. \A S \in SUBSET B : Total(S) \in Nat BY TotalWithout
<1>1. ASSUME NEW S \in SUBSET B, \A u \in SUBSET S : u # S => u \in T
      PROVE  S \in T
  <2>1. CASE ~(U \subseteq S) \/ U = S BY <1>0, <2>1
  <2>2. CASE U \subseteq S /\ U # S
    <3>1. PICK s \in S : s \notin U BY <2>2
    <3>2. Total(U) <= Total(S \ {s}) BY <1>1, <2>2, <3>1
    <3>3. Total(S) = Size(s) + Total(S \ {s}) BY TotalWithout
    <3>4. Size(s) \in Nat /\ Total(S \ {s}) \in Nat /\ Total(U) \in Nat BY <1>0
    <3>5. Total(U) <= Total(S) BY <3>2, <3>3, <3>4
    <3> QED BY <3>5
  <2> QED BY <2>1, <2>2
<1> HIDE DEF T
<1>2. SUBSET B \subseteq T BY <1>1, OverSubsets
<1>3. B \in T BY <1>2
<1> QED BY <1>3 DEF T

\* What the cap removes, it removes in order: whatever comes before a segment
\* it removes is removed as well.
LEMMA VictimsInOrder ==
    ASSUME TypeInv, NEW s \in Victims, NEW t \in Candidates, RemovedBefore(t, s)
    PROVE  t \in Victims
<1> DEFINE before(x) == {u \in Candidates : RemovedBefore(u, x)}
<1>1. /\ DOMAIN files \subseteq 1..cur /\ cur \in Nat /\ curSize \in Nat
      /\ files \in [DOMAIN files -> Seq(Units(Rec))]
  BY DEF TypeInv, TypeOK, DiskTypes, HandleTypes, Segments
<1>2. \A x \in DOMAIN files : x \in Nat /\ Size(x) \in Nat
  BY <1>1 DEF Size, SizeIn
<1>3. Candidates \subseteq DOMAIN files BY DEF Candidates
<1>4. before(t) \subseteq before(s)
  <2> SUFFICES ASSUME NEW u \in before(t) PROVE u \in before(s) OBVIOUS
  <2>1. u \in Nat /\ t \in Nat /\ s \in Nat BY <1>2, <1>3 DEF Victims
  <2>2. RemovedBefore(u, t) OBVIOUS
  <2>3. RemovedBefore(u, s) BY <2>1, <2>2 DEF RemovedBefore
  <2> QED BY <2>3
<1>5. IsFiniteSet(before(s))
  <2>1. IsFiniteSet(1..cur) BY <1>1, FS_Interval
  <2>2. before(s) \subseteq 1..cur BY <1>1, <1>3
  <2> QED BY <2>1, <2>2, FS_Subset
<1>6. IsFiniteSet(DOMAIN files)
  <2>1. IsFiniteSet(1..cur) BY <1>1, FS_Interval
  <2> QED BY <1>1, <2>1, FS_Subset
<1>7. before(s) \subseteq DOMAIN files BY <1>3
<1> DEFINE total == Total(DOMAIN files)
           freed(x) == Total(before(x))
<1>8. freed(t) <= freed(s)
  BY <1>2, <1>4, <1>5, <1>7, TotalGrows
<1>9. total \in Nat /\ freed(t) \in Nat /\ freed(s) \in Nat
  BY <1>2, <1>4, <1>6, <1>7, TotalWithout
<1>10. \A x \in Candidates : x \in Victims <=> total > MaxUnits + freed(x)
  BY DEF Victims, Total
<1>11. s \in Candidates BY DEF Victims
<1> HIDE DEF total, freed
<1> QED BY <1>8, <1>9, <1>10, <1>11, ConstantsAssumption

\* The cap gives up unacked data only when no segment acked to the end is left
\* that it may remove, and then the oldest first.
THEOREM CapIsFair == Spec => CapSparesUnacked
<1>1. ASSUME TypeInv, [Next]_vars, wpc = "house",
             NEW s \in DOMAIN files \ DOMAIN files', ~FullyAcked(s),
             NEW t \in Candidates \cap DOMAIN files'
      PROVE  ~FullyAcked(t) /\ s < t
  <2>1. s \in Victims /\ t \notin Victims
    <3>1. ~WDrain /\ ~WAck BY <1>1 DEF WDrain, WAck, Serve, Serving
    <3>2. ~Boot BY <1>1 DEF Boot, disk
    <3>3. WHouse BY <1>1, <3>1, <3>2, OffsetsStay
    <3> QED BY <1>1, <3>3 DEF WHouse, Without
  <2>2. ~RemovedBefore(t, s) BY <1>1, <2>1, VictimsInOrder
  <2>3. s \in Nat /\ t \in Nat
    <3>1. DOMAIN files \subseteq Nat
      BY <1>1 DEF TypeInv, TypeOK, DiskTypes, Segments
    <3> QED BY <3>1 DEF Candidates
  <2> QED BY <1>1, <2>1, <2>2, <2>3 DEF RemovedBefore
<1>2. TypeInv /\ [Next]_vars =>
         (wpc = "house" =>
             \A s \in DOMAIN files \ DOMAIN files' :
                 ~FullyAcked(s) =>
                     \A t \in Candidates \cap DOMAIN files' :
                         ~FullyAcked(t) /\ s < t)
  BY <1>1
<1> QED BY <1>2, TypeInvHolds, PTL DEF Spec, CapSparesUnacked

-----------------------------------------------------------------------------
(* The end of the worker.                                                  *)

Ending == mode = "last" \/ wpc \in {"last", "drop", "fserve", "close", "done"}

\* A worker that shuts down has been told to, and nobody writes any more.
EndInv == Ending => closed /\ pending = <<>>

LEMMA EndInvStep ==
    TypeInv /\ EndInv /\ [Next]_vars => EndInv'
<1> SUFFICES ASSUME TypeInv, EndInv, [Next]_vars PROVE EndInv' OBVIOUS
<1>0. mode \in {"live", "retry", "last"}
  BY DEF TypeInv, TypeOK, WritingTypes
<1>1. CASE Loop \/ Leader \/ UNCHANGED vars \/ Terminated
  BY <1>1 DEF Loop, Leader, Write, Close, Ask, Resume, DrainTimeout, CommitOk,
              CommitFails, LeaderCancelled, worker, writing, shared, vars,
              Terminated, EndInv, Ending
<1>2. CASE Process BY <1>2 DEF Process, Restart, Crash, Boot, EndInv, Ending
<1>3. CASE UNCHANGED <<mode, pending, closed, wpc>>
  BY <1>3 DEF EndInv, Ending
<1>4. ASSUME Control PROVE UNCHANGED <<mode, pending, closed>>
                           /\ (wpc' = wpc \/ wpc' = "house" \/ wpc = "fserve")
  BY <1>4 DEF Control, WDrainNothing, WDrain, WAck, WReturn, WFlush, WServed,
              Serve, Step, Goto, writing, loopSide, shared
<1>5. CASE Control BY <1>4, <1>5 DEF EndInv, Ending
<1>6. CASE WStart \/ WRetryNothing \/ WRetryLater \/ WRetryDue \/ WCollect
           \/ WCollectNothing \/ WHouse \/ WHouseLater \/ WLoop
  BY <1>6 DEF WStart, WRetryNothing, WRetryLater, WRetryDue, WCollect,
              WCollectNothing, WHouse, WHouseLater, WLoop, Step, Goto, Take,
              writing, loopSide, shared, EndInv, Ending
<1>7. CASE WLast \/ WDropBacklog \/ WClose
  BY <1>7 DEF WLast, WDropBacklog, WClose, Goto, Take, writing, loopSide,
              shared, EndInv, Ending
\* A step of the write path leaves for the shutdown only from it.
<1>8. CASE WritePath
  <2>1. UNCHANGED <<pending, closed, mode>>
    BY <1>8 DEF WritePath, WReady, WReopen, WRotate, WRotateRaises, WRollover,
       WAppend, WAppendNothing, WAppendFails, WFsync, Step, Raised, WriteFailed,
       writing, loopSide, shared
  <2>2. mode # "last" => wpc' \notin {"last", "drop", "fserve", "close", "done"}
    BY <1>0, <1>8 DEF WritePath, WReady, WReopen, WRotate, WRotateRaises,
       WRollover, WAppend, WAppendNothing, WAppendFails, WFsync, Step, Raised,
       WriteFailed, AfterWrite, Goto
  <2> QED BY <2>1, <2>2 DEF EndInv, Ending
<1> QED BY <1>1, <1>2, <1>5, <1>6, <1>7, <1>8 DEF Next, Worker

\* The worker leaves no record in its queue when it ends, although its last
\* look at the queue is bounded.
THEOREM EndsEmpty == Spec => []PendingEmptyAtEnd
<1>1. Init => EndInv BY DEF Init, EndInv, Ending
<1>2. EndInv => PendingEmptyAtEnd BY DEF EndInv, Ending, PendingEmptyAtEnd
<1> QED BY <1>1, <1>2, EndInvStep, TypeInvHolds, PTL DEF Spec
-----------------------------------------------------------------------------
(* The failures left out from here on (CleanDisk) are those after which    *)
(* lines are torn or a batch is lost: a rotation that leaves a closed file *)
(* object, a truncation that fails, and a flush that passes on a part.     *)

CleanDisk == {"rotate", "discard", "flush"} \cap Faults = {}
-----------------------------------------------------------------------------
(* What a step does to the files when flushes pass everything on.          *)

FlushAll ==
    /\ files' = [files EXCEPT ![cur] = @ \o buf]
    /\ buf' = <<>>

CleanStep ==
    \/ /\ UNCHANGED <<files, acks, cur, curSize, file, buf>>
       /\ wpc' # "start" => wpc # "start"
    \/ file = "none" /\ NewSegment(files)
    \/ file = "open" /\ NewSegment([files EXCEPT ![cur] = @ \o buf])
    \/ FailedOpen
    \/ file = "open" /\ file' \in {"open", "none"} /\ FlushAll
       /\ UNCHANGED <<curSize, acks, cur>>
    \/ WAppend
    \/ WAppendFails
    \/ WDrain \/ WAck \/ WHouse
    \/ Boot

LEMMA FlushIsAll ==
    ASSUME TypeInv, FlushUnits(Len(buf)) PROVE FlushAll
<1>1. buf \in Seq(Units(Rec)) BY DEF TypeInv, TypeOK, HandleTypes
<1>2. Upto(buf, Len(buf)) = buf /\ From(buf, Len(buf)) = <<>>
  BY <1>1 DEF Upto, From
<1> QED BY <1>2 DEF FlushUnits, FlushAll

\* These failures are left out, or there is none in this step.
LEMMA PassesOn ==
    ASSUME CleanDisk \/ UNCHANGED faults, TypeInv
    PROVE  ~Fault("rotate") /\ ~Fault("discard") /\ ~Fault("flush")
<1>1. faults \in Nat BY ConstantsAssumption DEF TypeInv, TypeOK, BoundTypes
<1> QED BY <1>1 DEF CleanDisk, Fault

LEMMA NoneLeftInBuffer ==
    ASSUME CleanDisk \/ UNCHANGED faults, TypeInv, NEW n \in 0..Len(buf),
           IF n = Len(buf) THEN NoFault ELSE Fault("flush")
    PROVE  n = Len(buf)
BY PassesOn

LEMMA CleanSteps ==
    ASSUME CleanDisk \/ UNCHANGED faults, TypeInv, file # "closed", [Next]_vars
    PROVE  CleanStep /\ file' # "closed"
<1> USE DEF store, handle, disk
<1>t. /\ wpc \in {"rollover", "append", "fsync"} => file = "open"
      /\ wpc = "start" => file = "none"
      /\ file \in {"none", "open"}
  BY DEF TypeInv, TypeOK, HandleTypes, FileObject
<1>1. CASE Loop \/ Leader \/ UNCHANGED vars \/ Terminated
  BY <1>1 DEF Loop, Leader, Write, Close, Ask, Resume, DrainTimeout, CommitOk,
              CommitFails, LeaderCancelled, worker, vars, Terminated, CleanStep
<1>2. CASE Process BY <1>2 DEF Process, Restart, Crash, Boot, CleanStep
<1>3. CASE WStart
  BY <1>3, <1>t DEF WStart, NoNewSegment, NewSegment, CleanStep, FailedOpen
<1>4. CASE WRetryNothing \/ WRetryLater \/ WRetryDue \/ WCollect
           \/ WCollectNothing \/ WHouseLater \/ WLoop \/ WLast \/ WDropBacklog
  BY <1>4 DEF WRetryNothing, WRetryLater, WRetryDue, WCollect, WCollectNothing,
              WHouseLater, WLoop, WLast, WDropBacklog, Step, CleanStep
<1>5. CASE WReady \/ WRotateRaises \/ WAppendNothing
  BY <1>5 DEF WReady, WRotateRaises, WAppendNothing, Step, CleanStep
<1>6. CASE WReopen
  BY <1>6 DEF WReopen, NoNewSegment, NewSegment, CleanStep, FailedOpen
<1>f. ASSUME NEW health, NEW failed, FsyncCur(health, failed)
      PROVE  FlushAll
  BY <1>f, FlushIsAll, PassesOn DEF FsyncCur
<1>7. CASE WRotate \/ WFsync
  BY <1>7, <1>f, <1>t DEF WRotate, WFsync, CleanStep
<1>8. CASE WRollover
  <2>1. buf \in Seq(Units(Rec)) BY DEF TypeInv, TypeOK, HandleTypes
  <2>2. Upto(buf, Len(buf)) = buf BY <2>1 DEF Upto
  <2>3. ~Fault("rotate") BY PassesOn
  <2>4. PICK n \in 0..Len(buf) :
              /\ IF n = Len(buf) THEN NoFault ELSE Fault("flush")
              /\ NewSegment([files EXCEPT ![cur] = @ \o Upto(buf, n)])
    BY <1>8, <2>3 DEF WRollover
  <2>5. n = Len(buf) BY <2>4, NoneLeftInBuffer
  <2> QED BY <1>8, <1>t, <2>2, <2>4, <2>5 DEF WRollover, NewSegment, CleanStep
<1>9. CASE WFlush
  BY <1>9, <1>f, <1>t DEF WFlush, CleanStep, Serve, Serving
<1>10. CASE WDrainNothing \/ WReturn \/ WServed
  BY <1>10 DEF WDrainNothing, WReturn, WServed, Step, CleanStep, Serve
<1>11. CASE WAppend \/ WAppendFails \/ WDrain \/ WAck \/ WHouse
  BY <1>11, <1>t DEF CleanStep, WAppend, WAppendFails, WDrain, WAck, WHouse
<1>12. CASE WClose
  BY <1>12, <1>t, FlushIsAll, PassesOn DEF WClose, FlushAndDiscard, CleanStep
<1> QED BY <1>1, <1>2, <1>3, <1>4, <1>5, <1>6, <1>7, <1>8, <1>9, <1>10, <1>11,
           <1>12 DEF Next, Worker, WritePath, Control
-----------------------------------------------------------------------------
(* The contents of the segments, buffered units included.                  *)

\* A text that ends with a whole line, or is empty.
EndsLine(text) == text # <<>> => text[Len(text)][2] = 2

\* The file object and the worker's idea of its size.
FileInv ==
    /\ file # "closed"
    /\ wpc # "start" /\ cur \in DOMAIN files => curSize = Len(Content(cur))
    /\ file = "open" => EndsLine(Content(cur))

LEMMA Halves ==
    ASSUME NEW S, NEW t \in Seq(S), NEW n \in 0..Len(t)
    PROVE  /\ Upto(t, n) \in Seq(S) /\ From(t, n) \in Seq(S)
           /\ Upto(t, n) \o From(t, n) = t
<1>1. /\ Upto(t, n) \in Seq(S) /\ From(t, n) \in Seq(S)
      /\ Len(Upto(t, n)) = n /\ Len(From(t, n)) = Len(t) - n
  BY CutType
<1>2. Len(t) \in Nat /\ n \in Nat BY LenProperties
<1>3. /\ \A i \in 1..n : Upto(t, n)[i] = t[i]
      /\ \A i \in 1..(Len(t) - n) : From(t, n)[i] = t[n + i]
  BY <1>2 DEF Upto, From
<1> DEFINE u == Upto(t, n)
           v == From(t, n)
<1>4. /\ u \in Seq(S) /\ v \in Seq(S) /\ Len(u) = n /\ Len(v) = Len(t) - n
      /\ \A i \in 1..n : u[i] = t[i]
      /\ \A i \in 1..(Len(t) - n) : v[i] = t[n + i]
  BY <1>1, <1>3
<1> HIDE DEF u, v
<1>5. /\ u \o v \in Seq(S) /\ Len(u \o v) = Len(t)
      /\ \A i \in 1..Len(t) : (u \o v)[i] = IF i <= n THEN u[i] ELSE v[i - n]
  <2>1. Len(u) + Len(v) = Len(t) BY <1>2, <1>4
  <2>2. /\ u \o v \in Seq(S) /\ Len(u \o v) = Len(u) + Len(v)
        /\ \A i \in 1..(Len(u) + Len(v)) :
               (u \o v)[i] = IF i <= Len(u) THEN u[i] ELSE v[i - Len(u)]
    BY <1>4, ConcatProperties
  <2> QED BY <1>4, <2>1, <2>2
<1>6. \A i \in 1..Len(t) : (u \o v)[i] = t[i] BY <1>2, <1>4, <1>5
<1>7. u \o v = t BY <1>5, <1>6, SeqEqual
<1> QED BY <1>1, <1>7 DEF u, v

\* Concatenation is associative.  (Under a name of its own the provers can
\* use the fact.)
Associates(s, t, u) == (s \o t) \o u = s \o (t \o u)

LEMMA ConcatAssociates ==
    ASSUME NEW S, NEW s \in Seq(S), NEW t \in Seq(S), NEW u \in Seq(S)
    PROVE  Associates(s, t, u)
BY ConcatAssociative DEF Associates

LEMMA Joins ==
    ASSUME NEW S, NEW s \in Seq(S), NEW t \in Seq(S), NEW n \in 0..Len(t)
    PROVE  (s \o Upto(t, n)) \o From(t, n) = s \o t
<1> DEFINE u == Upto(t, n)
           v == From(t, n)
<1>0. u \in Seq(S) /\ v \in Seq(S) BY Halves
<1>1. u \o v = t BY Halves
<1> HIDE DEF u, v
<1>2. Associates(s, u, v) BY <1>0, ConcatAssociates, Zenon
<1> QED BY <1>1, <1>2, Zenon DEF u, v, Associates

LEMMA ContentType ==
    ASSUME TypeInv, NEW s \in DOMAIN files
    PROVE  /\ files[s] \in Seq(Units(Rec))
           /\ Content(s) \in Seq(Units(Rec))
           /\ Len(files[s]) <= Len(Content(s))
           /\ s # cur \/ file # "open" => Content(s) = files[s]
<1>1. files[s] \in Seq(Units(Rec)) /\ buf \in Seq(Units(Rec))
  BY DEF TypeInv, TypeOK, DiskTypes, HandleTypes
<1>2. /\ files[s] \o buf \in Seq(Units(Rec))
      /\ Len(files[s] \o buf) = Len(files[s]) + Len(buf)
  BY <1>1, ConcatProperties
<1>3. Len(files[s]) \in Nat /\ Len(buf) \in Nat BY <1>1
<1> QED BY <1>1, <1>2, <1>3 DEF Content

\* What a segment holds stays as it is, and more of it is in the file.
Keeps(s) ==
    /\ Content(s)' = Content(s)
    /\ Len(files[s]) <= Len(files'[s])

\* The segment being written is the same, or is new and empty.
HandleKept ==
    \/ /\ cur' = cur /\ curSize' = curSize
       /\ file' = "open" => file = "open"
       /\ wpc' # "start" => wpc # "start"
       /\ cur' \in DOMAIN files' => cur \in DOMAIN files
    \/ /\ cur' \notin DOMAIN files
       /\ cur' \in DOMAIN files' => curSize' = 0
       /\ file' = "open" => cur' \in DOMAIN files'

ContentKept ==
    /\ \A s \in DOMAIN files : s \in DOMAIN files' /\ acks'[s] = acks[s] /\ Keeps(s)
    /\ \A s \in DOMAIN files' \ DOMAIN files : Content(s)' = <<>> /\ acks'[s] = 0
    /\ HandleKept

ContentAppended(lines) ==
    /\ DOMAIN files' = DOMAIN files /\ acks' = acks
    /\ cur \in DOMAIN files /\ file = "open"
    /\ Content(cur)' = Content(cur) \o Blob(lines)
    /\ Len(files[cur]) <= Len(files'[cur])
    /\ \A s \in DOMAIN files \ {cur} : Keeps(s)

ContentShrunk ==
    /\ DOMAIN files' \subseteq DOMAIN files
    /\ \A s \in DOMAIN files' : Keeps(s)
    /\ UNCHANGED <<cur, curSize, file>>
    /\ wpc # "start"

ContentStep ==
    \/ ContentKept
    \/ WAppend /\ \E lines \in Encodings(hand) : ContentAppended(lines)
    \/ (WDrain \/ WAck \/ WHouse) /\ ContentShrunk
    \/ Boot

\* Appending passes on a part of the text and keeps the rest in the buffer.
LEMMA AppendContent ==
    ASSUME TypeInv, WAppend
    PROVE  \E lines \in Encodings(hand) :
               /\ ContentAppended(lines)
               /\ curSize' = curSize + Len(Blob(lines))
               /\ lines \in Seq(Rec)
<1>t. /\ wpc = "append" => file = "open"
      /\ file = "open" => cur \in DOMAIN files
      /\ hand \in Seq(Rec) /\ buf \in Seq(Units(Rec))
      /\ files \in [DOMAIN files -> Seq(Units(Rec))]
  BY DEF TypeInv, TypeOK, WritingTypes, HandleTypes, DiskTypes, FileObject
<1>1. PICK lines \in Encodings(hand) :
        LET all == buf \o Blob(lines) IN
          /\ \E n \in 0..Len(all) :
                /\ files' = [files EXCEPT ![cur] = @ \o Upto(all, n)]
                /\ buf' = From(all, n)
          /\ curSize' = curSize + Len(Blob(lines))
  BY DEF WAppend
<1>2. lines \in Seq(Rec) BY <1>t, EncodingsType
<1>3. Blob(lines) \in Seq(Units(Rec)) BY <1>2, BlobType
<1> DEFINE all == buf \o Blob(lines)
<1>4. all \in Seq(Units(Rec)) BY <1>t, <1>3, ConcatProperties
<1>5. PICK n \in 0..Len(all) :
                /\ files' = [files EXCEPT ![cur] = @ \o Upto(all, n)]
                /\ buf' = From(all, n)
  BY <1>1
<1>6. /\ file = "open" /\ file' = "open" /\ cur' = cur /\ acks' = acks
      /\ cur \in DOMAIN files
  BY <1>t DEF WAppend
<1>7. all = buf \o Blob(lines) OBVIOUS
<1> HIDE DEF all
<1>8. /\ DOMAIN files' = DOMAIN files
      /\ files'[cur] = files[cur] \o Upto(all, n)
      /\ \A s \in DOMAIN files \ {cur} : files'[s] = files[s]
  BY <1>t, <1>5, <1>6
<1>9. Content(cur)' = Content(cur) \o Blob(lines)
  <2>1. Content(cur)' = (files[cur] \o Upto(all, n)) \o From(all, n)
    BY <1>5, <1>6, <1>8 DEF Content
  <2> DEFINE old == files[cur]
             text == Blob(lines)
             U == Units(Rec)
  <2>2. /\ old \in Seq(U) /\ text \in Seq(U) /\ buf \in Seq(U)
        /\ all \in Seq(U) /\ n \in 0..Len(all)
        /\ all = buf \o text /\ Content(cur) = old \o buf
        /\ Content(cur)' = (old \o Upto(all, n)) \o From(all, n)
    BY <1>t, <1>3, <1>4, <1>5, <1>6, <1>7, <2>1 DEF Content
  <2> HIDE DEF old, text, U
  <2>3. (old \o Upto(all, n)) \o From(all, n) = old \o all
    BY <2>2, Joins, Zenon
  <2>4. Associates(old, buf, text) BY <2>2, ConcatAssociates, Zenon
  <2>5. Content(cur)' = Content(cur) \o text
    BY <2>2, <2>3, <2>4, Zenon DEF Associates
  <2> QED BY <2>5, Zenon DEF text
<1>10. \A s \in DOMAIN files \ {cur} : Keeps(s)
  <2>1. TAKE s \in DOMAIN files \ {cur}
  <2>2. Content(s)' = files'[s] /\ Content(s) = files[s] BY <1>6 DEF Content
  <2>3. Len(files[s]) \in Nat BY <1>t
  <2> QED BY <1>8, <2>2, <2>3 DEF Keeps
<1>11. Len(files[cur]) <= Len(files'[cur])
  <2>1. files[cur] \in Seq(Units(Rec)) /\ Upto(all, n) \in Seq(Units(Rec))
    BY <1>t, <1>4, <1>5, <1>6, CutType
  <2>2. Len(files[cur] \o Upto(all, n)) = Len(files[cur]) + Len(Upto(all, n))
    BY <2>1, ConcatLength
  <2>3. Len(files[cur]) \in Nat /\ Len(Upto(all, n)) \in Nat BY <2>1
  <2> QED BY <1>8, <2>2, <2>3
<1> QED BY <1>1, <1>2, <1>6, <1>8, <1>9, <1>10, <1>11 DEF ContentAppended

LEMMA NewSegmentContent ==
    ASSUME TypeInv, file \in {"none", "open"},
           NewSegment(IF file = "none" THEN files
                      ELSE [files EXCEPT ![cur] = @ \o buf])
    PROVE  ContentKept
<1>1. /\ files \in [DOMAIN files -> Seq(Units(Rec))]
      /\ cur \in Nat /\ DOMAIN files \subseteq 1..cur
      /\ file = "open" => cur \in DOMAIN files
  BY DEF TypeInv, TypeOK, DiskTypes, FileObject, Segments
<1>2. cur + 1 \notin DOMAIN files BY <1>1
<1>3. /\ cur' = cur + 1 /\ DOMAIN files' = DOMAIN files \cup {cur + 1}
      /\ files'[cur + 1] = <<>> /\ buf' = <<>> /\ file' = "open"
      /\ curSize' = 0 /\ acks'[cur + 1] = 0
      /\ \A s \in DOMAIN files : acks'[s] = acks[s]
      /\ \A s \in DOMAIN files : files'[s] = Content(s)
  BY <1>1, <1>2 DEF NewSegment, Content
<1>4. ASSUME NEW s \in DOMAIN files PROVE Keeps(s)
  <2>1. Content(s)' = files'[s] BY <1>2, <1>3 DEF Content
  <2> QED BY <1>3, <2>1, ContentType DEF Keeps
<1>5. ASSUME NEW s, s = cur + 1 PROVE Content(s)' = <<>>
  <2>1. <<>> \o <<>> = <<>> OBVIOUS
  <2> QED BY <1>3, <1>5, <2>1 DEF Content
<1> QED BY <1>2, <1>3, <1>4, <1>5 DEF ContentKept, HandleKept

LEMMA FlushContent ==
    ASSUME TypeInv, file = "open", file' \in {"open", "none"}, FlushAll,
           UNCHANGED <<curSize, acks, cur>>
    PROVE  ContentKept
<1>1. /\ files \in [DOMAIN files -> Seq(Units(Rec))] /\ buf \in Seq(Units(Rec))
      /\ cur \in DOMAIN files /\ wpc # "start"
  BY DEF TypeInv, TypeOK, DiskTypes, HandleTypes, FileObject
<1>2. /\ DOMAIN files' = DOMAIN files /\ buf' = <<>>
      /\ \A s \in DOMAIN files : files'[s] = Content(s)
  BY <1>1 DEF FlushAll, Content
<1>3. ASSUME NEW s \in DOMAIN files PROVE Keeps(s)
  <2>1. Content(s) \in Seq(Units(Rec)) /\ Len(files[s]) <= Len(Content(s))
    BY ContentType
  <2>2. Content(s) \o <<>> = Content(s) BY <2>1, ConcatEmptySeq
  <2> QED BY <1>2, <2>1, <2>2 DEF Keeps, Content
<1> QED BY <1>1, <1>2, <1>3 DEF ContentKept, HandleKept

\* A failed write is cut off again: the size in memory is that of the content.
LEMMA AppendFailsContent ==
    ASSUME CleanDisk \/ UNCHANGED faults, TypeInv, FileInv, WAppendFails
    PROVE  ContentKept
<1>1. /\ files \in [DOMAIN files -> Seq(Units(Rec))] /\ buf \in Seq(Units(Rec))
      /\ file = "open" /\ cur \in DOMAIN files /\ wpc # "start"
  BY DEF TypeInv, TypeOK, DiskTypes, HandleTypes, FileObject, WAppendFails
<1>2. /\ files' = [files EXCEPT ![cur] = Truncate(@ \o buf, curSize)]
      /\ buf' = <<>> /\ UNCHANGED <<curSize, file, acks, cur>>
  BY PassesOn DEF WAppendFails
<1>3. curSize = Len(Content(cur)) BY <1>1 DEF FileInv
<1>4. Content(cur) = files[cur] \o buf BY <1>1 DEF Content
<1>5. Truncate(files[cur] \o buf, curSize) = files[cur] \o buf
  <2>1. Len(Content(cur)) \in Nat BY <1>1, ContentType
  <2> QED BY <1>3, <1>4, <2>1 DEF Truncate
<1>6. FlushAll BY <1>1, <1>2, <1>5 DEF FlushAll
<1> QED BY <1>1, <1>2, <1>6, FlushContent

\* The three steps that remove segments.
LEMMA RemovalContent ==
    ASSUME TypeInv, file # "closed", NEW gone, cur \notin gone,
           files' = Without(files, gone), UNCHANGED <<cur, file, buf>>
    PROVE  /\ DOMAIN files' \subseteq DOMAIN files
           /\ \A s \in DOMAIN files' : Keeps(s)
<1>1. files \in [DOMAIN files -> Seq(Units(Rec))]
  BY DEF TypeInv, TypeOK, DiskTypes
<1>2. DOMAIN files' = DOMAIN files \ gone
      /\ \A s \in DOMAIN files' : files'[s] = files[s]
  BY DEF Without
<1>3. ASSUME NEW s \in DOMAIN files' PROVE Keeps(s)
  <2>1. Content(s)' = Content(s) BY <1>2 DEF Content
  <2>2. Len(files[s]) \in Nat BY <1>1, <1>2
  <2> QED BY <1>2, <2>1, <2>2 DEF Keeps
<1> QED BY <1>2, <1>3

\* The files a drain reads are the contents.
LEMMA DrainReads ==
    ASSUME CleanDisk \/ UNCHANGED faults, TypeInv, FileInv, WDrain
    PROVE  \E fs :
             /\ DOMAIN fs = DOMAIN files
             /\ \A s \in DOMAIN files : fs[s] = Content(s)
             /\ files' = Without(fs, Exhausted(fs))
             /\ acks' = Without(acks, Exhausted(fs))
             /\ inflight' = DrainBatch(fs).tokens
             /\ Answer(DrainBatch(fs))
             /\ buf' = <<>>
<1>1. PICK n \in 0..Len(buf) :
        LET fs == IF buf = <<>> THEN files
                  ELSE [files EXCEPT ![cur] = @ \o Upto(buf, n)]
        IN  /\ IF n = Len(buf) THEN NoFault ELSE Fault("flush")
            /\ files' = Without(fs, Exhausted(fs))
            /\ acks' = Without(acks, Exhausted(fs))
            /\ buf' = From(buf, n)
            /\ inflight' = DrainBatch(fs).tokens
            /\ Answer(DrainBatch(fs))
  BY DEF WDrain
<1>2. n = Len(buf) BY <1>1, NoneLeftInBuffer
<1>3. /\ files \in [DOMAIN files -> Seq(Units(Rec))] /\ buf \in Seq(Units(Rec))
      /\ file \in {"none", "open"}
      /\ file = "none" => buf = <<>>
      /\ file = "open" => cur \in DOMAIN files
  BY DEF TypeInv, TypeOK, DiskTypes, HandleTypes, FileObject, FileInv
<1>4. Upto(buf, Len(buf)) = buf /\ From(buf, Len(buf)) = <<>>
  BY <1>3 DEF Upto, From
<1> DEFINE fs == IF buf = <<>> THEN files ELSE [files EXCEPT ![cur] = @ \o buf]
<1>5. DOMAIN fs = DOMAIN files BY <1>3
<1>6. ASSUME NEW s \in DOMAIN files PROVE fs[s] = Content(s)
  <2>1. files[s] \in Seq(Units(Rec)) BY <1>3
  <2>2. files[s] \o <<>> = files[s] BY <2>1, ConcatEmptySeq
  <2> QED BY <1>3, <2>2 DEF Content
<1>7. /\ files' = Without(fs, Exhausted(fs))
      /\ acks' = Without(acks, Exhausted(fs))
      /\ inflight' = DrainBatch(fs).tokens
      /\ Answer(DrainBatch(fs))
      /\ buf' = <<>>
  BY <1>1, <1>2, <1>4
<1> HIDE DEF fs
<1> QED BY <1>5, <1>6, <1>7

LEMMA DrainContent ==
    ASSUME CleanDisk \/ UNCHANGED faults, TypeInv, FileInv, WDrain
    PROVE  ContentShrunk
<1>1. PICK fs :
             /\ DOMAIN fs = DOMAIN files
             /\ \A s \in DOMAIN files : fs[s] = Content(s)
             /\ files' = Without(fs, Exhausted(fs))
             /\ buf' = <<>>
  BY DrainReads
<1>2. UNCHANGED <<cur, curSize, file>> /\ wpc # "start"
  BY DEF WDrain, Serve, Serving
<1>3. /\ DOMAIN files' \subseteq DOMAIN files
      /\ \A s \in DOMAIN files' : files'[s] = Content(s)
  BY <1>1 DEF Without
<1>4. ASSUME NEW s \in DOMAIN files' PROVE Keeps(s)
  <2>1. Content(s) \in Seq(Units(Rec)) /\ Len(files[s]) <= Len(Content(s))
    BY <1>3, ContentType
  <2>2. Content(s) \o <<>> = Content(s) BY <2>1, ConcatEmptySeq
  <2> QED BY <1>1, <1>3, <2>1, <2>2 DEF Keeps, Content
<1> QED BY <1>2, <1>3, <1>4 DEF ContentShrunk

LEMMA ContentSteps ==
    ASSUME CleanDisk \/ UNCHANGED faults, TypeInv, FileInv, [Next]_vars
    PROVE  ContentStep
<1>0. CleanStep /\ file \in {"none", "open"}
  BY CleanSteps DEF FileInv, TypeInv, TypeOK, HandleTypes
<1>t. /\ files \in [DOMAIN files -> Seq(Units(Rec))]
      /\ cur \in Nat /\ DOMAIN files \subseteq 1..cur
  BY DEF TypeInv, TypeOK, DiskTypes, Segments
<1>1. CASE /\ UNCHANGED <<files, acks, cur, curSize, file, buf>>
           /\ wpc' # "start" => wpc # "start"
  <2>1. \A s \in DOMAIN files : Len(files[s]) \in Nat BY <1>t
  <2>2. \A s \in DOMAIN files : Keeps(s) BY <1>1, <2>1 DEF Keeps, Content
  <2> QED BY <1>1, <2>2 DEF ContentKept, ContentStep, HandleKept
<1>2. CASE file = "none" /\ NewSegment(files)
  BY <1>0, <1>2, NewSegmentContent DEF ContentStep
<1>3. CASE file = "open" /\ NewSegment([files EXCEPT ![cur] = @ \o buf])
  BY <1>0, <1>3, NewSegmentContent DEF ContentStep
<1>4. CASE FailedOpen
  <2>1. \A s \in DOMAIN files : Len(files[s]) \in Nat BY <1>t
  <2>2. \A s \in DOMAIN files : Keeps(s)
    BY <1>4, <2>1 DEF Keeps, Content, FailedOpen
  <2>3. cur + 1 \notin DOMAIN files BY <1>t
  <2> QED BY <1>4, <2>2, <2>3 DEF FailedOpen, ContentKept, ContentStep, HandleKept
<1>5. CASE file = "open" /\ file' \in {"open", "none"} /\ FlushAll
           /\ UNCHANGED <<curSize, acks, cur>>
  BY <1>5, FlushContent DEF ContentStep
<1>6. CASE WAppend BY <1>6, AppendContent DEF ContentStep
<1>7. CASE WAppendFails BY <1>7, AppendFailsContent DEF ContentStep
<1>8. CASE WDrain BY <1>8, DrainContent DEF ContentStep
<1>9. CASE WAck
  <2>1. cur \notin Finished(Head(requests).tokens) BY DEF Finished
  <2>2. files' = Without(files, Finished(Head(requests).tokens))
        /\ UNCHANGED <<cur, file, buf, curSize>> /\ wpc # "start"
    BY <1>9 DEF WAck, handle, Serve, Serving
  <2> QED BY <1>0, <1>9, <2>1, <2>2, RemovalContent DEF ContentShrunk, ContentStep
<1>10. CASE WHouse
  <2>1. cur \notin Victims BY DEF Victims, Candidates
  <2>2. files' = Without(files, Victims)
        /\ UNCHANGED <<cur, file, buf, curSize>> /\ wpc # "start"
    BY <1>10 DEF WHouse, handle, Goto
  <2> QED BY <1>0, <1>10, <2>1, <2>2, RemovalContent DEF ContentShrunk, ContentStep
<1>11. CASE Boot BY <1>11 DEF ContentStep
<1> QED BY <1>0, <1>1, <1>2, <1>3, <1>4, <1>5, <1>6, <1>7, <1>8, <1>9, <1>10,
           <1>11 DEF CleanStep

LEMMA EndsLineAppend ==
    ASSUME NEW text \in Seq(Units(Rec)), EndsLine(text), NEW lines \in Seq(Rec)
    PROVE  EndsLine(text \o Blob(lines))
<1> DEFINE a == Len(text)
           more == Blob(lines)
           n == Len(lines)
           both == text \o more
<1>1. /\ more \in Seq(Units(Rec)) /\ Len(more) = 2 * n /\ n \in Nat /\ a \in Nat
  BY BlobType
<1>2. n # 0 => more[2 * n][2] = 2 BY <1>1 DEF Blob
<1> HIDE DEF more, n
<1>3. /\ Len(both) = a + 2 * n
      /\ \A i \in 1..(a + 2 * n) :
             both[i] = IF i <= a THEN text[i] ELSE more[i - a]
  BY <1>1, ConcatProperties
<1>4. CASE n = 0
  <2>1. more = <<>> BY <1>1, <1>4
  <2>2. both = text BY <2>1, ConcatEmptySeq
  <2> QED BY <2>2 DEF more
<1>5. CASE n # 0
  <2>1. a + 2 * n \in 1..(a + 2 * n) /\ ~(a + 2 * n <= a)
        /\ (a + 2 * n) - a = 2 * n
    BY <1>1, <1>5
  <2>2. both[a + 2 * n] = more[2 * n] BY <1>3, <2>1
  <2>3. both[Len(both)][2] = 2 BY <1>2, <1>3, <1>5, <2>2
  <2> QED BY <2>3 DEF EndsLine, more
<1> QED BY <1>4, <1>5

LEMMA FileInvStep ==
    ASSUME CleanDisk \/ UNCHANGED faults, TypeInv, TypeInv', FileInv, [Next]_vars
    PROVE  FileInv'
<1>0. ContentStep BY ContentSteps
<1>1. file' # "closed" BY CleanSteps DEF FileInv
<1>2. SUFFICES /\ wpc' # "start" /\ cur' \in DOMAIN files' =>
                      curSize' = Len(Content(cur)')
               /\ file' = "open" => EndsLine(Content(cur)')
  BY <1>1 DEF FileInv, EndsLine
<1>3. /\ wpc # "start" /\ cur \in DOMAIN files => curSize = Len(Content(cur))
      /\ file = "open" => EndsLine(Content(cur))
      /\ file = "open" => cur \in DOMAIN files
  BY DEF FileInv, TypeInv, FileObject
<1>4. CASE ContentKept
  <2>1. \A s \in DOMAIN files : Content(s)' = Content(s)
    BY <1>4 DEF ContentKept, Keeps
  <2>2. \A s \in DOMAIN files' \ DOMAIN files : Content(s)' = <<>>
    BY <1>4 DEF ContentKept
  <2>3. DOMAIN files \subseteq DOMAIN files' BY <1>4 DEF ContentKept
  <2>4. CASE /\ cur' = cur /\ curSize' = curSize
             /\ file' = "open" => file = "open"
             /\ wpc' # "start" => wpc # "start"
             /\ cur' \in DOMAIN files' => cur \in DOMAIN files
    <3>1. CASE cur \in DOMAIN files
      <4>1. Content(cur)' = Content(cur) BY <2>1, <2>4, <3>1
      <4> QED BY <1>3, <2>4, <3>1, <4>1
    <3>2. CASE cur \notin DOMAIN files
      <4>1. file # "open" BY <1>3, <3>2
      <4> QED BY <2>4, <3>2, <4>1
    <3> QED BY <3>1, <3>2
  <2>5. CASE /\ cur' \notin DOMAIN files
             /\ cur' \in DOMAIN files' => curSize' = 0
             /\ file' = "open" => cur' \in DOMAIN files'
    <3>1. cur' \in DOMAIN files' => Content(cur)' = <<>> BY <2>2, <2>5
    <3> QED BY <2>5, <3>1 DEF EndsLine
  <2> QED BY <1>4, <2>4, <2>5 DEF ContentKept, HandleKept
<1>5. CASE WAppend
  <2>1. PICK lines \in Encodings(hand) :
               /\ ContentAppended(lines)
               /\ curSize' = curSize + Len(Blob(lines))
               /\ lines \in Seq(Rec)
    BY <1>5, AppendContent
  <2>2. /\ file = "open" /\ cur \in DOMAIN files /\ wpc # "start"
        /\ Content(cur)' = Content(cur) \o Blob(lines)
    BY <1>5, <2>1 DEF ContentAppended, WAppend
  <2>3. Content(cur) \in Seq(Units(Rec)) BY <2>2, ContentType
  <2>4. EndsLine(Content(cur)') BY <1>3, <2>1, <2>2, <2>3, EndsLineAppend
  <2>5. Len(Content(cur) \o Blob(lines)) = Len(Content(cur)) + Len(Blob(lines))
    BY <2>1, <2>3, BlobType, ConcatProperties
  <2> QED BY <1>3, <2>1, <2>2, <2>4, <2>5
<1>6. CASE ContentShrunk
  <2>1. cur' = cur /\ curSize' = curSize /\ file' = file /\ wpc # "start"
        /\ DOMAIN files' \subseteq DOMAIN files
    BY <1>6 DEF ContentShrunk
  <2>2. \A s \in DOMAIN files' : Content(s)' = Content(s)
    BY <1>6 DEF ContentShrunk, Keeps
  <2>3. cur' \in DOMAIN files' => Content(cur)' = Content(cur)
    BY <2>1, <2>2
  <2>4. file' = "open" => cur' \in DOMAIN files'
    BY DEF TypeInv, FileObject
  <2> QED BY <1>3, <2>1, <2>3, <2>4
<1>7. CASE Boot BY <1>7 DEF Boot
<1> QED BY <1>0, <1>4, <1>5, <1>6, <1>7 DEF ContentStep
-----------------------------------------------------------------------------
(* The flag of has_data().                                                 *)

StoredIsUnacked ==
    wpc # "start" /\ Stored # {} => AnyUnacked(files, acks, cur, curSize)

LEMMA UnackedState == TypeInv /\ FileInv => StoredIsUnacked
<1> SUFFICES ASSUME TypeInv, FileInv, wpc # "start", Stored # {}
             PROVE  AnyUnacked(files, acks, cur, curSize)
  BY DEF StoredIsUnacked
<1>1. PICK s \in DOMAIN files : Readable(Content(s), acks[s]) # {}
  BY DEF Stored
<1>2. PICK e : e \in Whole(Content(s), acks[s]) BY <1>1 DEF Readable
<1>3. /\ Content(s) \in Seq(Units(Rec)) /\ acks[s] \in Nat
      /\ s # cur => Content(s) = files[s]
  BY ContentType DEF TypeInv, TypeOK, DiskTypes
<1>4. Len(Content(s)) > acks[s]
  <2>1. e \in (acks[s] + 2)..Len(Content(s)) BY <1>2 DEF Whole
  <2> QED BY <1>3, <2>1
<1>5. s = cur => curSize = Len(Content(cur)) BY DEF FileInv
<1> QED BY <1>3, <1>4, <1>5 DEF AnyUnacked

LEMMA FlagStep ==
    ASSUME CleanDisk, TypeInv, FileInv, HasDataIsNotStale, [Next]_vars,
           StoredIsUnacked'
    PROVE  HasDataIsNotStale'
<1>1. SUFFICES ASSUME wpc' # "start", Stored' # {} PROVE diskHasData'
  BY DEF HasDataIsNotStale
<1>2. ASSUME diskHasData' = AnyUnacked(files', acks', cur', curSize')
      PROVE  diskHasData'
  <2>1. AnyUnacked(files, acks, cur, curSize)'
    BY <1>1 DEF StoredIsUnacked
  <2> QED BY <1>2, <2>1 DEF AnyUnacked
<1>3. CASE WStart \/ WDrain \/ WAck \/ WFlush \/ WHouse \/ WClose
  <2>1. file # "closed" BY DEF FileInv
  <2>2. diskHasData' = AnyUnacked(files', acks', cur', curSize')
    BY <1>3, <2>1 DEF WStart, WDrain, WAck, WFlush, WHouse, WClose, handle
  <2> QED BY <1>2, <2>2
<1>4. CASE WAppend BY <1>4 DEF WAppend
<1>5. CASE Boot BY <1>1, <1>5 DEF Boot
<1>6. CASE ~WStart /\ ~WDrain /\ ~WAck /\ ~WFlush /\ ~WHouse /\ ~WClose
           /\ ~WAppend /\ ~Boot
  <2>1. diskHasData' = diskHasData /\ (wpc' # "start" => wpc # "start")
    <3>1. CASE Loop \/ Leader \/ UNCHANGED vars \/ Terminated
      BY <3>1 DEF Loop, Leader, Write, Close, Ask, Resume, DrainTimeout,
         CommitOk, CommitFails, LeaderCancelled, worker, flags, vars, Terminated
    <3>2. CASE Process BY <1>6, <3>2 DEF Process, Restart, Crash
    <3>3. CASE Worker
      BY <1>6, <3>3 DEF Worker, WritePath, Control, WRetryNothing, WRetryLater,
         WRetryDue, WCollect, WCollectNothing, WHouseLater, WLoop, WLast,
         WDropBacklog, WReady, WReopen, WRotate, WRotateRaises, WRollover,
         WAppendNothing, WAppendFails, WFsync, WDrainNothing, WReturn, WServed,
         Step, Serve, Serving, flags
    <3> QED BY <3>1, <3>2, <3>3 DEF Next
  <2>2. ContentKept BY <1>6, ContentSteps DEF ContentStep
  <2>3. Stored' \subseteq Stored
    <3>1. ASSUME NEW r \in Stored' PROVE r \in Stored
      <4>1. PICK s \in DOMAIN files' : r \in Readable(Content(s)', acks'[s])
        BY <3>1 DEF Stored
      <4>2. CASE s \in DOMAIN files
        <5>1. Content(s)' = Content(s) /\ acks'[s] = acks[s]
          BY <2>2, <4>2 DEF ContentKept, Keeps
        <5> QED BY <4>1, <4>2, <5>1 DEF Stored
      <4>3. CASE s \notin DOMAIN files
        <5>1. Content(s)' = <<>> /\ acks'[s] = 0
          BY <2>2, <4>1, <4>3 DEF ContentKept
        <5>2. Readable(<<>>, 0) = {} BY DEF Readable, Whole
        <5> QED BY <4>1, <5>1, <5>2
      <4> QED BY <4>2, <4>3
    <3> QED BY <3>1
  <2> QED BY <1>1, <2>1, <2>3 DEF HasDataIsNotStale
<1> QED BY <1>3, <1>4, <1>5, <1>6

LEMMA FileInvHolds ==
    ASSUME CleanDisk
    PROVE  Spec => [](TypeInv /\ FileInv)
<1>1. Init => FileInv BY DEF Init, FileInv
<1>2. TypeInv /\ TypeInv' /\ FileInv /\ [Next]_vars => FileInv'
  BY FileInvStep
<1> QED BY <1>1, <1>2, TypeInvHolds, PTL DEF Spec

\* has_data() never says False while a line is left to deliver, so the leader
\* always asks: the cached flag is never stale in that direction, although it
\* is computed from a size in memory and not every step that changes what is
\* stored refreshes it.
THEOREM FlagNotStale ==
    ASSUME CleanDisk
    PROVE  Spec => []HasDataIsNotStale
<1>1. Init => HasDataIsNotStale BY DEF Init, HasDataIsNotStale
<1>2. TypeInv /\ FileInv /\ HasDataIsNotStale /\ [Next]_vars
        /\ StoredIsUnacked' => HasDataIsNotStale'
  BY FlagStep
<1> QED BY <1>1, <1>2, FileInvHolds, UnackedState, PTL DEF Spec
-----------------------------------------------------------------------------
(* What a kill can cost, whatever fails.                                   *)

LEMMA WindowStep ==
    TypeInv /\ KillWindow /\ [Next]_vars => KillWindow'
<1> SUFFICES ASSUME TypeInv, KillWindow, [Next]_vars PROVE KillWindow' OBVIOUS
<1>0. /\ buf \in Seq(Units(Rec)) /\ writesSinceFsync \in Nat /\ faults \in Nat
      /\ hand \in Seq(Rec)
      /\ FsyncEvery \in Nat \ {0} /\ Len(buf) <= 2 * writesSinceFsync
      /\ faults = 0 /\ wpc # "fsync" => writesSinceFsync < FsyncEvery
      /\ Len(buf) \in Nat
  BY ConstantsAssumption
     DEF TypeInv, TypeOK, HandleTypes, BoundTypes, KillWindow, WritingTypes
\* Emptied and counted from nothing.
<1>e. ASSUME buf' = <<>>, writesSinceFsync' = 0 PROVE KillWindow'
  <2>1. Len(buf') = 0 BY <1>e
  <2> QED BY <1>0, <1>e, <2>1 DEF KillWindow
\* What is in the buffer is less or the same, and the count stays.
<1>k. ASSUME UNCHANGED writesSinceFsync, Len(buf') <= Len(buf), Len(buf') \in Nat,
             faults' = 0 /\ wpc' # "fsync" => faults = 0 /\ wpc # "fsync"
      PROVE  KillWindow'
  BY <1>0, <1>k DEF KillWindow
<1>c. \A n \in 0..Len(buf) : Len(From(buf, n)) \in Nat /\ Len(From(buf, n)) <= Len(buf)
  <2>1. ASSUME NEW n \in 0..Len(buf)
        PROVE  Len(From(buf, n)) \in Nat /\ Len(From(buf, n)) <= Len(buf)
    <3>1. Len(From(buf, n)) = Len(buf) - n BY <1>0, CutType
    <3> QED BY <1>0, <3>1
  <2> QED BY <2>1
<1>z. Len(<<>>) = 0 OBVIOUS
<1>n. \A k : Fault(k) => faults' # 0 BY <1>0 DEF Fault
<1>1. CASE Loop \/ Leader \/ UNCHANGED vars \/ Terminated
  <2>1. UNCHANGED <<buf, writesSinceFsync, wpc>>
    BY <1>1 DEF Loop, Leader, Write, Close, Ask, Resume, DrainTimeout, CommitOk,
       CommitFails, LeaderCancelled, worker, store, handle, vars, Terminated
  <2>2. faults' = 0 => faults = 0
    BY <1>1, <1>n DEF Loop, Leader, Write, Close, Ask, Resume, DrainTimeout,
       CommitOk, CommitFails, LeaderCancelled, bounds, vars, Terminated
  <2> QED BY <1>0, <1>k, <2>1, <2>2
<1>2. CASE Process BY <1>2, <1>e DEF Process, Restart, Crash, Boot
<1>3. CASE WStart \/ WReopen
  <2>1. CASE NewSegment(files) BY <1>e, <2>1 DEF NewSegment
  <2>2. CASE UNCHANGED <<buf, writesSinceFsync>> /\ Fault("open")
    BY <1>0, <1>k, <1>n, <2>2
  <2> QED BY <1>3, <2>1, <2>2 DEF WStart, WReopen, NoNewSegment
<1>4. CASE WRetryNothing \/ WRetryLater \/ WRetryDue \/ WCollect
           \/ WCollectNothing \/ WHouse \/ WHouseLater \/ WLoop \/ WLast
           \/ WDropBacklog \/ WReady \/ WRotateRaises \/ WAppendNothing
           \/ WDrainNothing \/ WReturn \/ WServed
  <2>1. UNCHANGED <<buf, writesSinceFsync, faults>> /\ wpc # "fsync"
    BY <1>4 DEF WRetryNothing, WRetryLater, WRetryDue, WCollect, WHouse,
       WCollectNothing, WHouseLater, WLoop, WLast, WDropBacklog, WReady,
       WRotateRaises, WAppendNothing, WDrainNothing, WReturn, WServed, Step,
       Serve, Serving, store, handle, history, bounds
  <2> QED BY <1>0, <1>k, <2>1
<1>5. CASE WRotate \/ WFsync \/ WFlush
  <2>1. (\E h, f : FsyncCur(h, f)) \/ (WFlush /\ UNCHANGED <<buf, writesSinceFsync, faults>>)
    BY <1>5 DEF WRotate, WFsync, WFlush, NoFault
  <2>2. ASSUME NEW h, NEW f, FsyncCur(h, f) PROVE KillWindow'
    <3>1. CASE FlushUnits(Len(buf)) /\ writesSinceFsync' = 0
      <4>1. buf' = <<>> BY <1>0, <3>1 DEF FlushUnits, From
      <4> QED BY <1>e, <3>1, <4>1
    <3>2. CASE Fault("fsync") /\ FlushUnits(Len(buf)) /\ UNCHANGED writesSinceFsync
      <4>1. buf' = <<>> BY <1>0, <3>2 DEF FlushUnits, From
      <4> QED BY <1>0, <1>k, <1>n, <1>z, <3>2, <4>1
    <3>3. CASE /\ Fault("flush") /\ UNCHANGED writesSinceFsync
               /\ \E n \in 0..(Len(buf) - 1) : FlushUnits(n)
      <4>1. PICK n \in 0..(Len(buf) - 1) : buf' = From(buf, n)
        BY <3>3 DEF FlushUnits
      <4>2. n \in 0..Len(buf) BY <1>0
      <4> QED BY <1>0, <1>c, <1>k, <1>n, <3>3, <4>1, <4>2
    <3> QED BY <2>2, <3>1, <3>2, <3>3 DEF FsyncCur
  <2>3. CASE WFlush /\ UNCHANGED <<buf, writesSinceFsync, faults>>
    <3>1. wpc # "fsync" BY <2>3 DEF WFlush, Serve, Serving
    <3> QED BY <1>0, <1>k, <2>3, <3>1
  <2> QED BY <2>1, <2>2, <2>3
<1>6. CASE WRollover
  <2>1. CASE \E fs : NewSegment(fs) BY <1>e, <2>1 DEF NewSegment
  <2>2. CASE Fault("rotate") /\ buf' = <<>> /\ UNCHANGED writesSinceFsync
    BY <1>0, <1>k, <1>n, <1>z, <2>2
  <2> QED BY <1>6, <2>1, <2>2 DEF WRollover
<1>7. CASE WAppend
  <2>1. PICK lines \in Encodings(hand) :
          /\ LET all == buf \o Blob(lines) IN
             \E n \in 0..Len(all) : buf' = From(all, n)
          /\ writesSinceFsync' = writesSinceFsync + Len(lines)
    BY <1>7 DEF WAppend
  <2>2. lines \in Seq(Rec) BY <1>0, <2>1, EncodingsType
  <2>3. /\ Blob(lines) \in Seq(Units(Rec)) /\ Len(Blob(lines)) = 2 * Len(lines)
        /\ Len(lines) \in Nat
    BY <2>2, BlobType
  <2> DEFINE all == buf \o Blob(lines)
  <2>4. all \in Seq(Units(Rec)) /\ Len(all) = Len(buf) + 2 * Len(lines)
    BY <1>0, <2>3, ConcatProperties
  <2>5. PICK n \in 0..Len(all) : buf' = From(all, n) BY <2>1
  <2> HIDE DEF all
  <2>6. Len(buf') = Len(all) - n BY <2>4, <2>5, CutType
  <2>7. n \in Nat BY <2>5, <2>4
  <2>8. Len(buf') <= 2 * writesSinceFsync' BY <1>0, <2>1, <2>3, <2>4, <2>6, <2>7
  <2>9. wpc' # "fsync" => writesSinceFsync' < FsyncEvery
    <3>1. wpc' = IF writesSinceFsync' >= FsyncEvery THEN "fsync" ELSE AfterWrite
      BY <1>7 DEF WAppend, Goto
    <3>2. writesSinceFsync' \in Nat BY <1>0, <2>1, <2>3
    <3> QED BY <1>0, <3>1, <3>2
  <2> QED BY <2>8, <2>9 DEF KillWindow
<1>8. CASE WAppendFails
  <2>1. faults' # 0 /\ UNCHANGED writesSinceFsync
    BY <1>8, <1>n DEF WAppendFails
  <2>2. Len(buf') \in Nat /\ Len(buf') <= Len(buf)
    <3>1. CASE buf' = <<>> BY <1>0, <1>z, <3>1
    <3>2. CASE \E n \in Nat : buf' = From(buf, MinOf(n, Len(buf)))
      <4>1. PICK n \in Nat : buf' = From(buf, MinOf(n, Len(buf))) BY <3>2
      <4>2. MinOf(n, Len(buf)) \in 0..Len(buf) BY <1>0, <4>1 DEF MinOf
      <4> QED BY <1>c, <4>1, <4>2
    <3>3. (buf' = <<>>) \/ \E lines, n : n \in 0..(Len(buf \o Blob(lines)) - 1)
                              /\ buf' = From(buf, MinOf(n, Len(buf)))
      BY <1>8 DEF WAppendFails
    <3> QED BY <3>1, <3>2, <3>3
  <2> QED BY <1>k, <2>1, <2>2
<1>9. CASE WDrain
  <2>1. PICK n \in 0..Len(buf) :
           (IF n = Len(buf) THEN NoFault ELSE Fault("flush")) /\ buf' = From(buf, n)
    BY <1>9 DEF WDrain
  <2>2. faults' = 0 => faults = 0 BY <1>n, <2>1 DEF NoFault
  <2>3. UNCHANGED <<writesSinceFsync, wpc>> BY <1>9 DEF WDrain, Serve
  <2> QED BY <1>c, <1>k, <2>1, <2>2, <2>3
<1>10. CASE WAck
  <2>1. UNCHANGED <<buf, writesSinceFsync, wpc>> /\ (faults' = 0 => faults = 0)
    BY <1>10, <1>n DEF WAck, handle, Serve, NoFault
  <2> QED BY <1>0, <1>k, <2>1
<1>11. CASE WClose
  <2>1. /\ UNCHANGED writesSinceFsync /\ wpc # "fsync"
        /\ faults' = 0 => faults = 0
    BY <1>11, <1>n DEF WClose, FlushAndDiscard, NoFault
  <2>2. buf' = buf \/ buf' = <<>>
    <3>1. From(buf, Len(buf)) = <<>> BY <1>0 DEF From
    <3> QED BY <1>11, <3>1 DEF WClose, FlushAndDiscard, FlushUnits
  <2> QED BY <1>0, <1>k, <1>z, <2>1, <2>2
<1> QED BY <1>1, <1>2, <1>3, <1>4, <1>5, <1>6, <1>7, <1>8, <1>9, <1>10, <1>11
        DEF Next, Worker, WritePath, Control

\* Whatever fails, the file object never holds more than the lines written
\* since the last fsync, and without a failure those are fewer than
\* FsyncEvery whenever the worker is not about to fsync: a rotation, a drain
\* and a failed write move both counts together.
THEOREM KillCostsLittle == Spec => []KillWindow
<1>1. Init => KillWindow
  <2>1. Len(<<>>) = 0 OBVIOUS
  <2> QED BY <2>1, ConstantsAssumption DEF Init, KillWindow
<1> QED BY <1>1, WindowStep, TypeInvHolds, PTL DEF Spec
=============================================================================
