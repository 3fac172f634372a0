-------------------------- MODULE DiscoveryProofs --------------------------
(***************************************************************************)
(* Proofs about Discovery, for every address space, any number of          *)
(* connectors and every failure.                                           *)
(***************************************************************************)
EXTENDS Discovery, TLAPS, FiniteSetTheorems, SequenceTheorems

Walk(c) == DOMAIN stack[c]

\* What a connector has looked at lies within reach, and so does whatever its
\* calls of _walk have yet to look at.
WithinReach(c) ==
    /\ visited[c] \subseteq Reachable
    /\ \A i \in Walk(c) : /\ stack[c][i].node \in Reachable
                          /\ stack[c][i].left \subseteq children[stack[c][i].node]

\* Unless an error was logged, each child of an object that was seen has been
\* seen or is left to one of the calls of _walk for that object.
NothingSkipped(c) ==
    ~reported[c] =>
        /\ \A n \in (visited[c] \cup {Root}) \cap Objects : \A k \in children[n] :
              \/ k \in visited[c]
              \/ \E i \in Walk(c) : stack[c][i].node = n /\ k \in stack[c][i].left
        /\ visited[c] \cap Variables \cap Matching \subseteq found[c]

\* A connector selects when its walk is over, all of its list if nothing may be
\* left out, and is ready when it has entered all it selected.
SliceTaken(c) ==
    /\ Selected(c) => stack[c] = <<>> /\ (explicit \/ Slice(c) = found[c])
    /\ phase[c] = "ready" => mine[c] = Slice(c)

WalkInv ==
    /\ DiscoveryTypeOK
    /\ \A c \in Connectors :
           phase[c] # "idle" => WithinReach(c) /\ NothingSkipped(c)
    /\ \A c \in Connectors : SliceTaken(c)

LEMMA MaxDepthIsNatural == MaxDepth \in Nat
BY DiscoveryAssumption

LEMMA RootIsReachable == Root \in Reachable
BY DiscoveryAssumption DEF Reachable, Closed, Nodes, Root

LEMMA ReachableIsClosed ==
    ASSUME DiscoveryTypeOK, NEW n \in Reachable \cap Objects
    PROVE  children[n] \subseteq Reachable
BY DEF Reachable, Closed, DiscoveryTypeOK

LEMMA ReachableIsLeast ==
    ASSUME NEW S \in SUBSET Nodes, Closed(S) PROVE Reachable \subseteq S
BY DEF Reachable

\* A browse that ended without an error has looked at all that is within reach.
LEMMA EndedIsComplete ==
    ASSUME DiscoveryTypeOK, NEW c \in Connectors, stack[c] = <<>>, ~reported[c],
           WithinReach(c), NothingSkipped(c)
    PROVE  found[c] = Wanted
<1> DEFINE S == visited[c] \cup {Root}
<1>1. Walk(c) = {} BY DEF Walk
<1>2. S \in SUBSET Nodes BY DiscoveryAssumption DEF DiscoveryTypeOK, Nodes
<1>3. Closed(S) BY <1>1 DEF NothingSkipped, Closed
<1>4. Reachable \subseteq S BY <1>2, <1>3, ReachableIsLeast
<1>5. Root \notin Variables BY DiscoveryAssumption
<1>6. Wanted \subseteq found[c] BY <1>4, <1>5 DEF Wanted, NothingSkipped
<1>7. found[c] \subseteq Wanted BY DEF Wanted, WithinReach, DiscoveryTypeOK
<1> QED BY <1>6, <1>7
-----------------------------------------------------------------------------
(* The stack of calls.                                                     *)

LEMMA BelowStack ==
    ASSUME NEW s \in Seq(Frames), s # <<>>
    PROVE  /\ Below(s) \in Seq(Frames)
           /\ Len(s) \in Nat \ {0} /\ Len(Below(s)) = Len(s) - 1
           /\ \A i \in 1..(Len(s) - 1) : Below(s)[i] = s[i]
           /\ Top(s) \in Frames
<1> DEFINE m == Len(s) - 1
<1>1. Len(s) \in Nat \ {0} BY EmptySeq
<1>2. m \in Int /\ \A i \in 1..m : i \in 1..Len(s) BY <1>1
<1>3. \A i \in 1..m : s[i] \in Frames BY <1>2, ElementOfSeq
<1>4. /\ SubSeq(s, 1, m) \in Seq(Frames)
      /\ Len(SubSeq(s, 1, m)) = IF 1 <= m THEN m - 1 + 1 ELSE 0
      /\ \A i \in 1..(m - 1 + 1) : SubSeq(s, 1, m)[i] = s[1 + i - 1]
  BY <1>2, <1>3, SubSeqProperties
<1>5. Len(SubSeq(s, 1, m)) = m
  <2>1. m \in Nat BY <1>1
  <2> HIDE DEF m
  <2> QED BY <1>4, <2>1
<1>6. \A i \in 1..m : SubSeq(s, 1, m)[i] = s[i] BY <1>1, <1>4
<1>7. Top(s) \in Frames
  <2>1. Len(s) \in 1..Len(s) BY <1>1
  <2> QED BY <2>1, ElementOfSeq DEF Top
<1> QED BY <1>1, <1>4, <1>5, <1>6, <1>7 DEF Below

LEMMA PushStack ==
    ASSUME NEW s \in Seq(Frames), NEW f \in Frames
    PROVE  /\ Append(s, f) \in Seq(Frames)
           /\ Len(Append(s, f)) = Len(s) + 1
           /\ \A i \in 1..Len(s) : Append(s, f)[i] = s[i]
           /\ Append(s, f)[Len(s) + 1] = f
BY AppendProperties

\* The calls of s keep their nodes, and the innermost has one child fewer to do.
Advanced(a, s, n) ==
    /\ a \in Seq(Frames)
    /\ Len(a) = Len(s)
    /\ Len(s) \in Nat \ {0}
    /\ \A i \in 1..Len(s) :
           /\ a[i].node = s[i].node
           /\ a[i].left = IF i = Len(s) THEN s[i].left \ {n} ELSE s[i].left

LEMMA AdvanceStack ==
    ASSUME NEW c \in Connectors, stack[c] \in Seq(Frames), stack[c] # <<>>, NEW n
    PROVE  Advanced(Advance(c, n), stack[c], n)
<1> DEFINE s == stack[c]
           f == Frame(Top(s).node, Top(s).left \ {n})
<1>1. /\ Below(s) \in Seq(Frames)
      /\ Len(s) \in Nat \ {0} /\ Len(Below(s)) = Len(s) - 1
      /\ \A i \in 1..(Len(s) - 1) : Below(s)[i] = s[i]
      /\ Top(s) \in Frames
  BY BelowStack
<1>2. /\ f \in Frames
      /\ f.node = Top(s).node /\ f.left = Top(s).left \ {n}
  BY <1>1 DEF Frames, Frame
<1> HIDE DEF f
<1>3. Advance(c, n) = Append(Below(s), f) BY DEF Advance, f
<1>4. /\ Append(Below(s), f) \in Seq(Frames)
      /\ Len(Append(Below(s), f)) = Len(Below(s)) + 1
      /\ \A i \in 1..Len(Below(s)) : Append(Below(s), f)[i] = Below(s)[i]
      /\ Append(Below(s), f)[Len(Below(s)) + 1] = f
  BY <1>1, <1>2, PushStack
<1>5. Len(Append(Below(s), f)) = Len(s) BY <1>1, <1>4
<1>6. ASSUME NEW i \in 1..Len(s)
      PROVE  /\ Advance(c, n)[i].node = s[i].node
             /\ Advance(c, n)[i].left = IF i = Len(s) THEN s[i].left \ {n}
                                                      ELSE s[i].left
  <2>1. CASE i = Len(s)
    <3>1. Advance(c, n)[i] = f BY <1>1, <1>3, <1>4, <2>1
    <3> QED BY <1>2, <2>1, <3>1 DEF Top
  <2>2. CASE i # Len(s)
    <3>1. i \in 1..(Len(s) - 1) BY <1>1, <2>2
    <3>2. Advance(c, n)[i] = s[i] BY <1>1, <1>3, <1>4, <3>1
    <3> QED BY <2>2, <3>2
  <2> QED BY <2>1, <2>2
<1> QED BY <1>1, <1>3, <1>4, <1>5, <1>6 DEF Advanced

-----------------------------------------------------------------------------
(* The steps.                                                              *)

LEMMA WalkInit == Init => WalkInv
<1> SUFFICES ASSUME Init PROVE WalkInv OBVIOUS
<1>1. DiscoveryTypeOK
  BY DiscoveryAssumption
  DEF Init, DiscoveryTypeOK, Phases, Frames, Nodes, Connectors
<1> QED BY <1>1 DEF Init, WalkInv, SliceTaken, Selected

\* A step of one connector leaves the others alone.
LEMMA StepOfOne ==
    ASSUME WalkInv, NEW c \in Connectors, UNCHANGED world, DiscoveryTypeOK',
           \A d \in Connectors \ {c} :
               UNCHANGED <<visited[d], stack[d], found[d], reported[d], phase[d], mine[d]>>,
           phase'[c] # "idle" => WithinReach(c)' /\ NothingSkipped(c)',
           SliceTaken(c)'
    PROVE  WalkInv'
<1>1. ASSUME NEW d \in Connectors \ {c}
      PROVE  phase'[d] # "idle" => WithinReach(d)' /\ NothingSkipped(d)'
  BY <1>1 DEF WalkInv, WithinReach, NothingSkipped, Walk, Reachable, Closed, world
<1>2. ASSUME NEW d \in Connectors \ {c} PROVE SliceTaken(d)'
  BY <1>2 DEF WalkInv, SliceTaken, Selected, Slice, world
<1> QED BY <1>1, <1>2 DEF WalkInv

LEMMA BeginInv ==
    ASSUME NEW c \in Connectors PROVE WalkInv /\ Begin(c) => WalkInv'
<1> SUFFICES ASSUME WalkInv, Begin(c) PROVE WalkInv' OBVIOUS
<1> DEFINE f == Frame(Root, children[Root])
<1> DiscoveryTypeOK BY DEF WalkInv
<1>1. /\ UNCHANGED <<world, catalog>>
      /\ phase' = [phase EXCEPT ![c] = "browsing"]
      /\ visited' = [visited EXCEPT ![c] = {}]
      /\ found' = [found EXCEPT ![c] = {}]
      /\ mine' = [mine EXCEPT ![c] = {}]
      /\ sessions' = [sessions EXCEPT ![c] = @ + 1] /\ sessions[c] < MaxSessions
  BY DEF Begin, Goto
<1>2. \/ /\ stack' = [stack EXCEPT ![c] = <<f>>]
         /\ reported' = [reported EXCEPT ![c] = FALSE] /\ UNCHANGED faults
      \/ /\ stack' = [stack EXCEPT ![c] = <<>>]
         /\ reported' = [reported EXCEPT ![c] = TRUE] /\ Fault("browse")
  BY DEF Begin, NoFault, Report
<1>3. f \in Frames /\ f.node = Root /\ f.left = children[Root]
  BY DiscoveryAssumption DEF DiscoveryTypeOK, Frame, Frames
<1> HIDE DEF f
<1>4. /\ stack'[c] = <<f>> \/ (stack'[c] = <<>> /\ reported'[c])
      /\ stack' = [stack EXCEPT ![c] = stack'[c]]
      /\ stack'[c] \in Seq(Frames)
      /\ Len(stack'[c]) = 0 \/ Len(stack'[c]) = 1
  <2>1. <<f>> \in Seq(Frames) /\ Len(<<f>>) = 1 BY <1>3
  <2>2. <<>> \in Seq(Frames) /\ Len(<<>>) = 0 BY EmptySeq
  <2>3. stack'[c] = <<f>> \/ (stack'[c] = <<>> /\ reported'[c])
    BY <1>2 DEF DiscoveryTypeOK
  <2>4. stack' = [stack EXCEPT ![c] = stack'[c]] BY <1>2 DEF DiscoveryTypeOK
  <2> QED BY <2>1, <2>2, <2>3, <2>4
<1>5. DiscoveryTypeOK'
  <2>1. faults' \in 0..MaxFaults
    BY <1>2, DiscoveryAssumption DEF Fault, DiscoveryTypeOK
  <2>2. stack' \in [Connectors -> Seq(Frames)]
    BY <1>4 DEF DiscoveryTypeOK
  <2>3. \A d \in Connectors : Len(stack'[d]) <= MaxDepth + 1
    <3>1. Len(stack'[c]) <= MaxDepth + 1 BY <1>4, MaxDepthIsNatural
    <3> QED BY <1>4, <3>1 DEF DiscoveryTypeOK
  <2>4. sessions' \in [Connectors -> 0..MaxSessions]
    BY <1>1, DiscoveryAssumption DEF DiscoveryTypeOK
  <2>5. reported' \in [Connectors -> BOOLEAN] BY <1>2 DEF DiscoveryTypeOK
  <2>6. phase' \in [Connectors -> Phases] BY <1>1 DEF DiscoveryTypeOK, Phases
  <2> QED
    BY <1>1, <2>1, <2>2, <2>3, <2>4, <2>5, <2>6 DEF DiscoveryTypeOK, world
<1>6. WithinReach(c)' /\ NothingSkipped(c)'
  <2>1. visited'[c] = {} /\ found'[c] = {} BY <1>1 DEF DiscoveryTypeOK
  <2>2. Reachable' = Reachable /\ children' = children
    BY <1>1 DEF Reachable, Closed, world
  <2>3. CASE stack'[c] = <<>> /\ reported'[c]
    <3>1. DOMAIN stack'[c] = {} BY <2>3
    <3> QED BY <2>1, <2>3, <3>1 DEF WithinReach, NothingSkipped, Walk
  <2>4. CASE stack'[c] = <<f>>
    <3>1. DOMAIN stack'[c] = {1} /\ stack'[c][1] = f BY <2>4
    <3> QED
      BY <1>3, <2>1, <2>2, <3>1, RootIsReachable
      DEF WithinReach, NothingSkipped, Walk
  <2> QED BY <1>4, <2>3, <2>4
<1>7. /\ phase'[c] = "browsing"
      /\ \A d \in Connectors \ {c} :
           UNCHANGED <<visited[d], stack[d], found[d], reported[d], phase[d], mine[d]>>
  BY <1>1, <1>2 DEF DiscoveryTypeOK
<1>8. SliceTaken(c)' BY <1>7 DEF SliceTaken, Selected
<1> QED BY <1>1, <1>5, <1>6, <1>7, <1>8, StepOfOne

\* What a step of Look comes to: the child counts as seen, and the walk goes on
\* or goes down.
LookedAt(c, n) ==
    /\ visited' = [visited EXCEPT ![c] = visited[c] \cup {n}]
    /\ \/ stack' = [stack EXCEPT ![c] = Advance(c, n)]
       \/ /\ stack' = [stack EXCEPT ![c] =
                            Append(Advance(c, n), Frame(n, children[n]))]
          /\ n \in Objects \ visited[c]
          /\ Len(stack[c]) <= MaxDepth
    /\ \/ UNCHANGED found
       \/ found' = [found EXCEPT ![c] = found[c] \cup ({n} \cap Matching)]
          /\ n \in Variables
    /\ \/ /\ reported' = [reported EXCEPT ![c] = TRUE]
          /\ Fault("browse") \/ (n \in Objects \ visited[c] /\ Len(stack[c]) > MaxDepth)
       \/ /\ UNCHANGED reported
          /\ n \in Objects \ visited[c] =>
                stack' = [stack EXCEPT ![c] =
                              Append(Advance(c, n), Frame(n, children[n]))]
          /\ n \in Variables \cap Matching => n \in found'[c] \/ n \in visited[c]
    /\ UNCHANGED <<world, phase, tags, sessions>>
    /\ UNCHANGED faults \/ Fault("browse")

LEMMA LookIsLookedAt ==
    ASSUME DiscoveryTypeOK, NEW c \in Connectors, Look(c)
    PROVE  /\ phase[c] = "browsing" /\ stack[c] # <<>>
           /\ \E n \in Top(stack[c]).left : LookedAt(c, n)
<1>1. PICK n \in Top(stack[c]).left :
          Skip(c, n) \/ Unreadable(c, n) \/ Collect(c, n) \/ Descend(c, n)
  BY DEF Look
<1>2. /\ phase[c] = "browsing" /\ stack[c] # <<>>
      /\ UNCHANGED <<world, phase, tags, sessions>>
  BY DEF Look
<1>3. CASE Skip(c, n)
  <2>1. n \in visited[c] BY <1>3 DEF Skip
  <2>2. visited' = [visited EXCEPT ![c] = visited[c] \cup {n}]
    BY <1>3, <2>1 DEF Skip, DiscoveryTypeOK
  <2> QED BY <1>2, <1>3, <2>1, <2>2 DEF Skip, LookedAt
<1>4. CASE Unreadable(c, n)
  BY <1>2, <1>4 DEF Unreadable, LookedAt, Report, DiscoveryTypeOK
<1>5. CASE Collect(c, n)
  BY <1>2, <1>5, DiscoveryAssumption DEF Collect, LookedAt, DiscoveryTypeOK
<1>6. CASE Descend(c, n)
  BY <1>2, <1>6, DiscoveryAssumption
  DEF Descend, LookedAt, Report, NoFault, DiscoveryTypeOK
<1> QED BY <1>1, <1>2, <1>3, <1>4, <1>5, <1>6

\* The calls that were there, L of them, keep their nodes and all they had left
\* but the child; a new one, if they are M = L + 1 now, has all children of its
\* node left.
Carried(c, n, L, M) ==
    /\ L \in Nat \ {0} /\ M \in {L, L + 1}
    /\ Walk(c) = 1..L /\ Walk(c)' = 1..M
    /\ \A i \in 1..L :
           /\ stack'[c][i].node = stack[c][i].node
           /\ stack'[c][i].left = IF i = L THEN stack[c][i].left \ {n}
                                           ELSE stack[c][i].left
    /\ M = L + 1 => /\ n \in Objects \ visited[c]
                    /\ stack'[c][M].node = n
                    /\ stack'[c][M].left = children[n]
    /\ n \in Objects
       /\ stack'[c] = Append(Advance(c, n), Frame(n, children[n])) => M = L + 1

LEMMA LookedAtStack ==
    ASSUME DiscoveryTypeOK, NEW c \in Connectors, stack[c] # <<>>,
           NEW n \in Nodes, LookedAt(c, n)
    PROVE  /\ stack' \in [Connectors -> Seq(Frames)]
           /\ Len(stack'[c]) <= MaxDepth + 1
           /\ Carried(c, n, Len(stack[c]), Len(stack'[c]))
<1> DEFINE L == Len(stack[c])
           M == Len(stack'[c])
           s == stack[c]
           a == Advance(c, n)
           f == Frame(n, children[n])
<1>1. s \in Seq(Frames) /\ L <= MaxDepth + 1 BY DEF DiscoveryTypeOK
<1>2. /\ a \in Seq(Frames) /\ Len(a) = L /\ L \in Nat \ {0}
      /\ \A i \in 1..L :
             /\ a[i].node = s[i].node
             /\ a[i].left = IF i = L THEN s[i].left \ {n} ELSE s[i].left
  <2>1. Advanced(a, s, n) BY <1>1, AdvanceStack
  <2> HIDE DEF a
  <2> QED BY <2>1 DEF Advanced
<1>3. Walk(c) = 1..L BY <1>1, LenProperties DEF Walk
<1>4. \/ stack' = [stack EXCEPT ![c] = a]
      \/ /\ stack' = [stack EXCEPT ![c] = Append(a, f)]
         /\ n \in Objects \ visited[c] /\ L <= MaxDepth
  BY DEF LookedAt
<1>5. n \in Objects => f \in Frames /\ f.node = n /\ f.left = children[n]
  BY DEF Frame, Frames, DiscoveryTypeOK
<1>6. SUFFICES
        /\ stack' \in [Connectors -> Seq(Frames)]
        /\ M \in {L, L + 1} /\ M <= MaxDepth + 1 /\ Walk(c)' = 1..M
        /\ \A i \in 1..L : stack'[c][i] = a[i]
        /\ M = L + 1 => n \in Objects \ visited[c] /\ stack'[c][M] = f
        /\ n \in Objects /\ stack'[c] = Append(a, f) => M = L + 1
  BY <1>2, <1>3, <1>5 DEF Carried
<1> HIDE DEF a, f
<1>7. n \in Objects =>
          /\ Append(a, f) \in Seq(Frames) /\ Len(Append(a, f)) = L + 1
          /\ \A i \in 1..L : Append(a, f)[i] = a[i]
          /\ Append(a, f)[L + 1] = f
  BY <1>2, <1>5, PushStack
<1>8. CASE stack' = [stack EXCEPT ![c] = a]
  <2>1. stack'[c] = a /\ stack' \in [Connectors -> Seq(Frames)]
    BY <1>2, <1>8 DEF DiscoveryTypeOK
  <2>2. Walk(c)' = 1..L BY <1>2, <2>1, LenProperties DEF Walk
  <2>3. M = L BY <1>2, <2>1
  <2>4. ~(stack'[c] = Append(a, f) /\ n \in Objects) BY <1>2, <1>7, <2>1
  <2> QED BY <1>1, <1>2, <2>1, <2>2, <2>3, <2>4
<1>9. CASE /\ stack' = [stack EXCEPT ![c] = Append(a, f)]
           /\ n \in Objects \ visited[c] /\ L <= MaxDepth
  <2>1. stack'[c] = Append(a, f) /\ stack' \in [Connectors -> Seq(Frames)]
    BY <1>7, <1>9 DEF DiscoveryTypeOK
  <2>2. Walk(c)' = 1..(L + 1) BY <1>7, <1>9, <2>1, LenProperties DEF Walk
  <2>3. M = L + 1 /\ M <= MaxDepth + 1
    BY <1>2, <1>7, <1>9, <2>1, MaxDepthIsNatural
  <2> QED BY <1>7, <1>9, <2>1, <2>2, <2>3
<1> QED BY <1>4, <1>8, <1>9

\* What is looked at is within reach.
LEMMA LookReaches ==
    ASSUME DiscoveryTypeOK, NEW c \in Connectors, stack[c] # <<>>, WithinReach(c),
           NEW n \in Top(stack[c]).left, LookedAt(c, n)
    PROVE  n \in Nodes /\ n \in Reachable /\ WithinReach(c)'
<1> DEFINE L == Len(stack[c])
           M == Len(stack'[c])
<1>1. L \in Nat \ {0} /\ Walk(c) = 1..L
  BY EmptySeq, LenProperties DEF DiscoveryTypeOK, Walk
<1>2. stack[c][L] \in Frames /\ Top(stack[c]) = stack[c][L]
  BY <1>1, ElementOfSeq DEF DiscoveryTypeOK, Top
<1>3. n \in Nodes BY <1>2 DEF Frames
<1>4. n \in Reachable
  <2>1. L \in Walk(c) BY <1>1
  <2>2. /\ stack[c][L].node \in Reachable /\ stack[c][L].node \in Objects
        /\ n \in children[stack[c][L].node]
    BY <1>2, <2>1 DEF WithinReach, Frames
  <2> QED BY <2>2, ReachableIsClosed
<1>5. /\ M \in {L, L + 1} /\ Walk(c)' = 1..M
      /\ \A i \in 1..L :
             /\ stack'[c][i].node = stack[c][i].node
             /\ stack'[c][i].left \subseteq stack[c][i].left
      /\ M = L + 1 => stack'[c][M].node = n /\ stack'[c][M].left = children[n]
  <2>1. Carried(c, n, L, M) BY <1>3, LookedAtStack
  <2> HIDE DEF L, M
  <2> QED BY <2>1 DEF Carried
<1>6. children' = children /\ Reachable' = Reachable
  BY DEF LookedAt, world, Reachable, Closed
<1>7. visited'[c] \subseteq Reachable
  BY <1>4 DEF LookedAt, WithinReach, DiscoveryTypeOK
<1>8. ASSUME NEW i \in 1..M
      PROVE  /\ stack'[c][i].node \in Reachable
             /\ stack'[c][i].left \subseteq children[stack'[c][i].node]
  <2> HIDE DEF L, M
  <2>1. CASE i \in 1..L BY <1>1, <1>5, <2>1 DEF WithinReach
  <2>2. CASE i \notin 1..L
    <3>1. M = L + 1 /\ i = M BY <1>1, <1>5, <2>2
    <3> QED BY <1>4, <1>5, <3>1
  <2> QED BY <2>1, <2>2
<1> QED BY <1>3, <1>4, <1>5, <1>6, <1>7, <1>8 DEF WithinReach

\* What is not looked at is left to a call of _walk.
LEMMA LookSkipsNothing ==
    ASSUME DiscoveryTypeOK, NEW c \in Connectors, stack[c] # <<>>,
           NothingSkipped(c), NEW n \in Nodes, LookedAt(c, n)
    PROVE  NothingSkipped(c)'
<1> DEFINE L == Len(stack[c])
           M == Len(stack'[c])
<1>1. /\ L \in Nat \ {0} /\ M \in {L, L + 1}
      /\ Walk(c) = 1..L /\ Walk(c)' = 1..M
      /\ \A i \in 1..L :
             /\ stack'[c][i].node = stack[c][i].node
             /\ \A k \in stack[c][i].left : k # n => k \in stack'[c][i].left
      /\ M = L + 1 => stack'[c][M].node = n /\ stack'[c][M].left = children[n]
      /\ n \in Objects
         /\ stack'[c] = Append(Advance(c, n), Frame(n, children[n])) => M = L + 1
  <2>1. Carried(c, n, L, M) BY LookedAtStack
  <2> HIDE DEF L, M
  <2> QED BY <2>1 DEF Carried
<1> SUFFICES ASSUME ~reported'[c]
             PROVE  /\ \A m \in (visited'[c] \cup {Root}) \cap Objects :
                          \A k \in children'[m] :
                              \/ k \in visited'[c]
                              \/ \E i \in Walk(c)' : /\ stack'[c][i].node = m
                                                   /\ k \in stack'[c][i].left
                    /\ visited'[c] \cap Variables \cap Matching \subseteq found'[c]
  BY DEF NothingSkipped
<1> HIDE DEF L, M
<1>2. /\ visited'[c] = visited[c] \cup {n} /\ children' = children
      /\ ~reported[c]
      /\ n \in Objects \ visited[c] => M = L + 1
      /\ found[c] \subseteq found'[c]
      /\ n \in Variables \cap Matching => n \in found'[c] \/ n \in visited[c]
  BY <1>1 DEF LookedAt, DiscoveryTypeOK, world
<1>3. ASSUME NEW m \in (visited[c] \cup {Root}) \cap Objects, NEW k \in children[m]
      PROVE  \/ k \in visited'[c]
             \/ \E i \in 1..M : stack'[c][i].node = m /\ k \in stack'[c][i].left
  <2>1. CASE k \in visited[c] \/ k = n BY <1>2, <2>1
  <2>2. CASE k \notin visited[c] /\ k # n
    <3>1. PICK i \in 1..L : stack[c][i].node = m /\ k \in stack[c][i].left
      BY <1>1, <1>2, <2>2 DEF NothingSkipped
    <3>2. i \in 1..M BY <1>1
    <3> QED BY <1>1, <2>2, <3>1, <3>2
  <2> QED BY <2>1, <2>2
<1>4. ASSUME n \in Objects \ visited[c], NEW k \in children[n]
      PROVE  \E i \in 1..M : stack'[c][i].node = n /\ k \in stack'[c][i].left
  <2>1. M = L + 1 /\ M \in 1..M BY <1>1, <1>2, <1>4
  <2> QED BY <1>1, <1>4, <2>1
<1>5. visited'[c] \cap Variables \cap Matching \subseteq found'[c]
  BY <1>2 DEF NothingSkipped
<1> QED BY <1>1, <1>2, <1>3, <1>4, <1>5

LEMMA LookInv ==
    ASSUME NEW c \in Connectors PROVE WalkInv /\ Look(c) => WalkInv'
<1> SUFFICES ASSUME WalkInv, Look(c) PROVE WalkInv' OBVIOUS
<1>1. DiscoveryTypeOK BY DEF WalkInv
<1>2. phase[c] = "browsing" /\ stack[c] # <<>> BY <1>1, LookIsLookedAt
<1>3. PICK n \in Top(stack[c]).left : LookedAt(c, n) BY <1>1, LookIsLookedAt
<1>4. WithinReach(c) /\ NothingSkipped(c) BY <1>2 DEF WalkInv
<1>5. n \in Nodes /\ n \in Reachable /\ WithinReach(c)'
  BY <1>1, <1>2, <1>3, <1>4, LookReaches
<1>6. NothingSkipped(c)' BY <1>1, <1>2, <1>3, <1>4, <1>5, LookSkipsNothing
<1>7. DiscoveryTypeOK'
  <2>1. /\ stack' \in [Connectors -> Seq(Frames)]
        /\ Len(stack'[c]) <= MaxDepth + 1
    BY <1>1, <1>2, <1>3, <1>5, LookedAtStack
  <2>2. \A d \in Connectors \ {c} : stack'[d] = stack[d]
    BY <1>1, <1>3 DEF LookedAt, DiscoveryTypeOK
  <2>3. \A d \in Connectors : Len(stack'[d]) <= MaxDepth + 1
    BY <1>1, <2>1, <2>2 DEF DiscoveryTypeOK
  <2>4. faults' \in 0..MaxFaults
    BY <1>1, <1>3, DiscoveryAssumption DEF LookedAt, Fault, DiscoveryTypeOK
  <2>5. /\ visited' \in [Connectors -> SUBSET Nodes]
        /\ found' \in [Connectors -> SUBSET (Variables \cap Matching)]
        /\ reported' \in [Connectors -> BOOLEAN]
    <3>1. visited' \in [Connectors -> SUBSET Nodes]
      BY <1>1, <1>3, <1>5 DEF LookedAt, DiscoveryTypeOK
    <3>2. found' \in [Connectors -> SUBSET (Variables \cap Matching)]
      <4>1. found \in [Connectors -> SUBSET (Variables \cap Matching)]
        BY <1>1 DEF DiscoveryTypeOK
      <4>2. CASE UNCHANGED found BY <4>1, <4>2
      <4>3. CASE /\ found' = [found EXCEPT ![c] = found[c] \cup ({n} \cap Matching)]
                 /\ n \in Variables
        BY <4>1, <4>3
      <4> QED BY <1>3, <4>2, <4>3 DEF LookedAt
    <3>3. reported' \in [Connectors -> BOOLEAN]
      BY <1>1, <1>3 DEF LookedAt, DiscoveryTypeOK
    <3> QED BY <3>1, <3>2, <3>3
  <2>6. \A d \in Connectors : found[d] \subseteq found'[d] /\ found'[d] \subseteq visited'[d]
    BY <1>1, <1>3, <1>5 DEF LookedAt, DiscoveryTypeOK
  <2>7. UNCHANGED <<world, phase, tags, sessions>> BY <1>3 DEF LookedAt
  <2> QED
    BY <1>1, <2>1, <2>3, <2>4, <2>5, <2>6, <2>7
    DEF DiscoveryTypeOK, world, tags
<1>8. /\ phase'[c] = "browsing" /\ UNCHANGED world
      /\ \A d \in Connectors \ {c} :
           UNCHANGED <<visited[d], stack[d], found[d], reported[d], phase[d], mine[d]>>
  BY <1>1, <1>2, <1>3 DEF LookedAt, DiscoveryTypeOK, tags
<1>9. SliceTaken(c)' BY <1>8 DEF SliceTaken, Selected
<1> QED BY <1>5, <1>6, <1>7, <1>8, <1>9, StepOfOne

\* The innermost call has nothing left, so no other call needs it.
LEMMA ReturnInv ==
    ASSUME NEW c \in Connectors PROVE WalkInv /\ Return(c) => WalkInv'
<1> SUFFICES ASSUME WalkInv, Return(c) PROVE WalkInv' OBVIOUS
<1> DEFINE L == Len(stack[c])
<1>1. /\ DiscoveryTypeOK /\ phase[c] = "browsing" /\ stack[c] # <<>>
      /\ Top(stack[c]).left = {}
      /\ stack' = [stack EXCEPT ![c] = Below(stack[c])]
      /\ UNCHANGED <<world, phase, visited, found, reported, tags, faults,
                     sessions>>
  BY DEF WalkInv, Return
<1>2. /\ stack'[c] \in Seq(Frames)
      /\ L \in Nat \ {0} /\ Len(stack'[c]) = L - 1
      /\ \A i \in 1..(L - 1) : stack'[c][i] = stack[c][i]
  BY <1>1, BelowStack DEF DiscoveryTypeOK
<1>3. Walk(c) = 1..L /\ Walk(c)' = 1..(L - 1)
  BY <1>1, <1>2, LenProperties DEF DiscoveryTypeOK, Walk
<1>4. WithinReach(c) /\ NothingSkipped(c) BY <1>1 DEF WalkInv
<1>5. children' = children /\ Reachable' = Reachable
  BY <1>1 DEF world, Reachable, Closed
<1>6. WithinReach(c)'
  BY <1>1, <1>2, <1>3, <1>4, <1>5 DEF WithinReach
<1>7. NothingSkipped(c)'
  <2>1. ASSUME NEW i \in 1..L, NEW k, k \in stack[c][i].left
        PROVE  i \in 1..(L - 1) /\ k \in stack'[c][i].left
    BY <1>1, <1>2, <2>1 DEF Top
  <2>2. ASSUME NEW i \in 1..(L - 1)
        PROVE  stack'[c][i].node = stack[c][i].node
    BY <1>2, <2>2
  <2> QED BY <1>1, <1>3, <1>4, <1>5, <2>1, <2>2 DEF NothingSkipped
<1>8. DiscoveryTypeOK'
  <2>1. stack' \in [Connectors -> Seq(Frames)]
    BY <1>1, <1>2 DEF DiscoveryTypeOK
  <2>2. Len(stack'[c]) <= MaxDepth + 1
    BY <1>1, <1>2, MaxDepthIsNatural DEF DiscoveryTypeOK
  <2>3. \A d \in Connectors \ {c} : stack'[d] = stack[d]
    BY <1>1 DEF DiscoveryTypeOK
  <2>4. \A d \in Connectors : Len(stack'[d]) <= MaxDepth + 1
    BY <1>1, <2>2, <2>3 DEF DiscoveryTypeOK
  <2> QED BY <1>1, <2>1, <2>4 DEF DiscoveryTypeOK, world, tags
<1>9. /\ SliceTaken(c)'
      /\ \A d \in Connectors \ {c} :
           UNCHANGED <<visited[d], stack[d], found[d], reported[d], phase[d], mine[d]>>
  BY <1>1 DEF SliceTaken, Selected, tags, DiscoveryTypeOK
<1> QED BY <1>1, <1>6, <1>7, <1>8, <1>9, StepOfOne

LEMMA SliceIsFound == \A c : Slice(c) \subseteq found[c]
BY DEF Slice

\* After the walk: the steps that browse nothing.
LEMMA TakeInv ==
    ASSUME NEW c \in Connectors
    PROVE  WalkInv /\ (Select(c) \/ Claim(c) \/ Fail(c) \/ Finish(c) \/ End(c))
               => WalkInv'
<1> SUFFICES ASSUME WalkInv, Select(c) \/ Claim(c) \/ Fail(c) \/ Finish(c) \/ End(c)
             PROVE  WalkInv'
  OBVIOUS
<1>1. DiscoveryTypeOK BY DEF WalkInv
<1>2. UNCHANGED <<world, browse, sessions>> /\ phase[c] # "idle"
  BY DEF Select, Claim, Fail, Finish, End
<1>3. UNCHANGED <<children, explicit, stack, visited, found, reported, sessions>>
  BY <1>2 DEF world, browse
<1>4. WithinReach(c)' /\ NothingSkipped(c)'
  <2>1. WithinReach(c) /\ NothingSkipped(c) BY <1>2 DEF WalkInv
  <2> QED BY <1>3, <2>1 DEF WithinReach, NothingSkipped, Walk, Reachable, Closed
<1>5. Slice(c)' = Slice(c) BY <1>3 DEF Slice
<1>6. /\ faults' \in 0..MaxFaults
      /\ \E p \in Phases : phase' = [phase EXCEPT ![c] = p]
      /\ mine' \in [Connectors -> SUBSET Nodes]
      /\ \A d \in Connectors : mine'[d] \subseteq found[d]
      /\ \A d \in Connectors \ {c} : mine'[d] = mine[d]
      /\ catalog' \subseteq Variables \cap Matching
      /\ SliceTaken(c)'
  <2>1. CASE Select(c)
    BY <1>1, <1>3, <1>5, <2>1
    DEF Select, Goto, tags, Phases, SliceTaken, Selected, DiscoveryTypeOK
  <2>2. CASE Claim(c)
    <3>1. PICK n \in Slice(c) : /\ mine' = [mine EXCEPT ![c] = mine[c] \cup {n}]
                               /\ catalog' = catalog \cup {n}
      BY <2>2 DEF Claim
    <3>2. n \in found[c] /\ n \in Variables \cap Matching /\ n \in Nodes
      BY <1>1, <3>1, SliceIsFound DEF DiscoveryTypeOK, Nodes
    <3>3. phase[c] = "claiming" /\ UNCHANGED <<phase, faults>> BY <2>2 DEF Claim
    <3>4. SliceTaken(c)'
      BY <1>3, <1>5, <3>3 DEF SliceTaken, Selected, WalkInv
    <3>5. phase' = [phase EXCEPT ![c] = phase[c]] /\ phase[c] \in Phases
      BY <1>1, <3>3 DEF DiscoveryTypeOK
    <3>6. /\ mine' \in [Connectors -> SUBSET Nodes]
          /\ \A d \in Connectors \ {c} : mine'[d] = mine[d]
          /\ mine'[c] = mine[c] \cup {n}
      BY <1>1, <3>1, <3>2 DEF DiscoveryTypeOK
    <3>7. \A d \in Connectors : mine'[d] \subseteq found[d]
      BY <1>1, <3>2, <3>6 DEF DiscoveryTypeOK
    <3>8. catalog' \subseteq Variables \cap Matching /\ faults' \in 0..MaxFaults
      BY <1>1, <3>1, <3>2, <3>3 DEF DiscoveryTypeOK
    <3> QED BY <3>4, <3>5, <3>6, <3>7, <3>8
  <2>3. CASE Fail(c)
    BY <1>1, <2>3, DiscoveryAssumption
    DEF Fail, Fault, Goto, tags, Phases, SliceTaken, Selected, DiscoveryTypeOK
  <2>4. CASE Finish(c)
    <3>1. SliceTaken(c) BY DEF WalkInv
    <3> QED
      BY <1>1, <1>3, <1>5, <2>4, <3>1
      DEF Finish, Goto, tags, Phases, SliceTaken, Selected, DiscoveryTypeOK
  <2>5. CASE End(c)
    BY <1>1, <2>5, DiscoveryAssumption
    DEF End, Fault, NoFault, Goto, tags, Phases, SliceTaken, Selected,
        DiscoveryTypeOK
  <2> QED BY <2>1, <2>2, <2>3, <2>4, <2>5
<1>7. phase' \in [Connectors -> Phases]
      /\ \A d \in Connectors \ {c} : phase'[d] = phase[d]
  BY <1>1, <1>6 DEF DiscoveryTypeOK
<1>8. DiscoveryTypeOK' BY <1>1, <1>3, <1>6, <1>7 DEF DiscoveryTypeOK
<1> QED BY <1>2, <1>3, <1>4, <1>6, <1>7, <1>8, StepOfOne

LEMMA WalkNext == WalkInv /\ [Next]_vars => WalkInv'
<1> SUFFICES ASSUME WalkInv, [Next]_vars PROVE WalkInv' OBVIOUS
<1>1. CASE Next
  <2>1. PICK c \in Connectors : Step(c) BY <1>1 DEF Next
  <2> QED BY <2>1, BeginInv, LookInv, ReturnInv, TakeInv DEF Step
<1>2. CASE UNCHANGED vars
  <2>1. UNCHANGED <<children, explicit, phase, stack, visited, found, reported,
                    mine, catalog, faults, sessions>>
    BY <1>2 DEF vars, world, browse, tags
  <2>2. DiscoveryTypeOK' BY <2>1 DEF WalkInv, DiscoveryTypeOK
  <2>3. ASSUME NEW c \in Connectors
        PROVE  /\ phase'[c] # "idle" => WithinReach(c)' /\ NothingSkipped(c)'
               /\ SliceTaken(c)'
    <3>1. /\ phase[c] # "idle" => WithinReach(c) /\ NothingSkipped(c)
          /\ SliceTaken(c)
      BY DEF WalkInv
    <3>2. WithinReach(c)' = WithinReach(c)
      BY <2>1 DEF WithinReach, Walk, Reachable, Closed
    <3>3. NothingSkipped(c)' = NothingSkipped(c)
      BY <2>1 DEF NothingSkipped, Walk
    <3>4. SliceTaken(c)' = SliceTaken(c)
      BY <2>1 DEF SliceTaken, Selected, Slice
    <3> QED BY <2>1, <3>1, <3>2, <3>3, <3>4
  <2> QED BY <2>2, <2>3 DEF WalkInv
<1> QED BY <1>1, <1>2

LEMMA WalkAlways == Spec => []WalkInv
<1> QED BY WalkInit, WalkNext, PTL DEF Spec
-----------------------------------------------------------------------------
(* What a browse reports.                                                  *)

\* The calls of _walk are for Objects and then, each for a child of the node
\* before, for objects that were seen once and are in one call only.  (Objects
\* itself may be among them: it is not in the set of seen nodes at first.)
Descent(c) ==
    /\ 1 \in Walk(c) => stack[c][1].node = Root
    /\ \A i \in Walk(c) \ {1} :
           stack[c][i].node \in visited[c] \cap children[stack[c][i - 1].node]
    /\ \A i, j \in Walk(c) \ {1} : stack[c][i].node = stack[c][j].node => i = j

CauseInv == ReportedForCause /\ \A c \in Connectors : Descent(c)

LEMMA CauseInit == Init => CauseInv
BY DEF Init, CauseInv, ReportedForCause, Descent, Walk

\* A step that reports nothing new and leaves the walks alone.
LEMMA CauseKept ==
    ASSUME CauseInv, DiscoveryTypeOK, faults' \in Nat, faults' = 0 => faults = 0,
           UNCHANGED <<children, stack, visited, reported>>
    PROVE  CauseInv'
BY DEF CauseInv, ReportedForCause, WayDown, Descent, Walk

\* A failure shows in the count of failures.
LEMMA FaultsCount ==
    ASSUME DiscoveryTypeOK, NEW kind, Fault(kind) PROVE faults' # 0
BY DiscoveryAssumption DEF DiscoveryTypeOK, Fault

LEMMA CauseBegin ==
    ASSUME NEW c \in Connectors PROVE WalkInv /\ CauseInv /\ Begin(c) => CauseInv'
<1> SUFFICES ASSUME WalkInv, CauseInv, Begin(c) PROVE CauseInv' OBVIOUS
<1> DEFINE f == Frame(Root, children[Root])
<1>1. DiscoveryTypeOK BY DEF WalkInv
<1>2. /\ UNCHANGED children
      /\ \A d \in Connectors \ {c} : UNCHANGED <<stack[d], visited[d], reported[d]>>
      /\ \/ stack'[c] = <<f>> /\ ~reported'[c] /\ faults' = faults
         \/ stack'[c] = <<>> /\ faults' # 0
  BY <1>1, FaultsCount DEF Begin, NoFault, Report, world, DiscoveryTypeOK
<1>3. f.node = Root BY DEF Frame
<1> HIDE DEF f
<1>4. Descent(c)'
  <2>1. CASE stack'[c] = <<f>>
    <3>1. Walk(c)' = {1} /\ stack'[c][1] = f BY <2>1 DEF Walk
    <3> QED BY <1>3, <3>1 DEF Descent
  <2>2. CASE stack'[c] = <<>>
    <3>1. Walk(c)' = {} BY <2>2 DEF Walk
    <3> QED BY <3>1 DEF Descent
  <2> QED BY <1>2, <2>1, <2>2
<1>5. ASSUME NEW d \in Connectors \ {c} PROVE Descent(d)'
  BY <1>2, <1>5 DEF CauseInv, Descent, Walk
<1>6. ReportedForCause'
  BY <1>2 DEF CauseInv, ReportedForCause, WayDown
<1> QED BY <1>4, <1>5, <1>6 DEF CauseInv

\* An object below a stack of MaxDepth + 1 calls is at the end of a way down
\* that is too long.
LEMMA TooDeep ==
    ASSUME DiscoveryTypeOK, NEW c \in Connectors, Descent(c), WithinReach(c),
           stack[c] # <<>>, Len(stack[c]) > MaxDepth,
           NEW n \in Top(stack[c]).left, n \in Objects \ visited[c]
    PROVE  \E p \in [0..(MaxDepth + 1) -> Objects] : WayDown(p, MaxDepth + 1)
<1> DEFINE s == stack[c]
           p == [i \in 0..(MaxDepth + 1) |-> IF i <= MaxDepth THEN s[i + 1].node ELSE n]
<1>1. MaxDepth \in Nat BY MaxDepthIsNatural
<1>2. /\ s \in Seq(Frames) /\ Len(s) = MaxDepth + 1
      /\ Walk(c) = 1..(MaxDepth + 1)
  <2>1. s \in Seq(Frames) /\ Len(s) <= MaxDepth + 1 BY DEF DiscoveryTypeOK
  <2>2. Len(s) \in Nat /\ DOMAIN s = 1..Len(s) BY <2>1, LenProperties
  <2> QED BY <1>1, <2>1, <2>2 DEF Walk
<1>3. \A i \in 1..(MaxDepth + 1) : s[i] \in Frames BY <1>2, ElementOfSeq
<1>4. \A i \in 0..MaxDepth : i + 1 \in 1..(MaxDepth + 1) /\ p[i] = s[i + 1].node
  BY <1>1
<1>5. p[MaxDepth + 1] = n BY <1>1
<1>6. p \in [0..(MaxDepth + 1) -> Objects]
  BY <1>1, <1>3, <1>4 DEF Frames
<1> HIDE DEF p
<1>7. p[0] = Root
  <2>1. p[0] = s[1].node /\ 1 \in Walk(c) BY <1>1, <1>2, <1>4
  <2> QED BY <2>1 DEF Descent
<1>8. ASSUME NEW i \in 1..(MaxDepth + 1) PROVE p[i] \in children[p[i - 1]]
  <2>1. CASE i <= MaxDepth
    <3>1. /\ p[i] = s[i + 1].node /\ p[i - 1] = s[i].node
          /\ i + 1 \in Walk(c) \ {1} /\ (i + 1) - 1 = i
      BY <1>1, <1>2, <1>4, <2>1
    <3> QED BY <3>1 DEF Descent
  <2>2. CASE i = MaxDepth + 1
    <3>1. p[i] = n /\ p[i - 1] = s[MaxDepth + 1].node BY <1>1, <1>4, <1>5, <2>2
    <3>2. n \in s[MaxDepth + 1].left BY <1>2 DEF Top
    <3>3. MaxDepth + 1 \in Walk(c) BY <1>1, <1>2
    <3> QED BY <3>1, <3>2, <3>3 DEF WithinReach
  <2> QED BY <1>1, <2>1, <2>2
<1>9. ASSUME NEW i \in 1..(MaxDepth + 1), NEW j \in 1..(MaxDepth + 1), p[i] = p[j]
      PROVE  i = j
  <2>1. ASSUME NEW k \in 1..(MaxDepth + 1), k <= MaxDepth
        PROVE  p[k] = s[k + 1].node /\ k + 1 \in Walk(c) \ {1} /\ p[k] \in visited[c]
    <3>1. p[k] = s[k + 1].node /\ k + 1 \in Walk(c) \ {1}
      BY <1>1, <1>2, <1>4, <2>1
    <3> QED BY <3>1 DEF Descent
  <2>2. CASE i <= MaxDepth /\ j <= MaxDepth
    <3>1. i + 1 = j + 1 BY <1>9, <2>1, <2>2 DEF Descent
    <3> QED BY <1>1, <3>1
  <2>3. CASE i > MaxDepth /\ j > MaxDepth BY <1>1, <2>3
  <2>4. CASE i <= MaxDepth /\ j > MaxDepth
    <3>1. j = MaxDepth + 1 BY <1>1, <2>4
    <3> QED BY <1>5, <1>9, <2>1, <2>4, <3>1
  <2>5. CASE i > MaxDepth /\ j <= MaxDepth
    <3>1. i = MaxDepth + 1 BY <1>1, <2>5
    <3> QED BY <1>5, <1>9, <2>1, <2>5, <3>1
  <2> QED BY <1>1, <2>2, <2>3, <2>4, <2>5
<1>10. WayDown(p, MaxDepth + 1) BY <1>7, <1>8, <1>9 DEF WayDown
<1> QED BY <1>6, <1>10

\* A step of Look keeps the calls in a descent.
LEMMA LookDescends ==
    ASSUME DiscoveryTypeOK, NEW c \in Connectors, Descent(c), WithinReach(c),
           stack[c] # <<>>, NEW n \in Top(stack[c]).left, n \in Nodes,
           LookedAt(c, n)
    PROVE  Descent(c)'
<1> DEFINE L == Len(stack[c])
           M == Len(stack'[c])
<1>1. /\ L \in Nat \ {0} /\ M \in {L, L + 1}
      /\ Walk(c) = 1..L /\ Walk(c)' = 1..M
      /\ \A i \in 1..L : stack'[c][i].node = stack[c][i].node
      /\ M = L + 1 => n \in Objects \ visited[c] /\ stack'[c][M].node = n
  <2>1. Carried(c, n, L, M) BY LookedAtStack
  <2> HIDE DEF L, M
  <2> QED BY <2>1 DEF Carried
<1>2. n \in children[stack[c][L].node]
  BY <1>1 DEF WithinReach, Top
<1> HIDE DEF L, M
<1>3. children' = children /\ visited'[c] = visited[c] \cup {n}
  BY DEF LookedAt, world, DiscoveryTypeOK
<1>4. stack'[c][1].node = Root BY <1>1 DEF Descent
<1>5. ASSUME NEW i \in (1..M) \ {1}
      PROVE  stack'[c][i].node \in visited'[c] \cap children'[stack'[c][i - 1].node]
  <2>1. i - 1 \in 1..L BY <1>1
  <2>2. CASE i \in 1..L BY <1>1, <1>3, <2>1, <2>2 DEF Descent
  <2>3. CASE i \notin 1..L
    <3>1. M = L + 1 /\ i = M /\ i - 1 = L BY <1>1, <2>3
    <3> QED BY <1>1, <1>2, <1>3, <2>1, <3>1
  <2> QED BY <2>2, <2>3
<1>6. ASSUME NEW i \in (1..M) \ {1}, NEW j \in (1..M) \ {1},
             stack'[c][i].node = stack'[c][j].node
      PROVE  i = j
  <2>1. ASSUME NEW k \in (1..M) \ {1}
        PROVE  \/ /\ k \in (1..L) \ {1} /\ stack'[c][k].node = stack[c][k].node
                  /\ stack[c][k].node \in visited[c]
               \/ k = M /\ M = L + 1
    BY <1>1, <2>1 DEF Descent
  <2>2. CASE i = M /\ M = L + 1 BY <1>1, <1>6, <2>1, <2>2
  <2>3. CASE j = M /\ M = L + 1 BY <1>1, <1>6, <2>1, <2>3
  <2>4. CASE i \in (1..L) \ {1} /\ j \in (1..L) \ {1}
    BY <1>1, <1>6, <2>4 DEF Descent
  <2> QED BY <2>1, <2>2, <2>3, <2>4
<1> QED BY <1>1, <1>4, <1>5, <1>6 DEF Descent

LEMMA CauseLook ==
    ASSUME NEW c \in Connectors PROVE WalkInv /\ CauseInv /\ Look(c) => CauseInv'
<1> SUFFICES ASSUME WalkInv, CauseInv, Look(c) PROVE CauseInv' OBVIOUS
<1>1. DiscoveryTypeOK BY DEF WalkInv
<1>2. phase[c] = "browsing" /\ stack[c] # <<>> BY <1>1, LookIsLookedAt
<1>3. PICK n \in Top(stack[c]).left : LookedAt(c, n) BY <1>1, LookIsLookedAt
<1>4. WithinReach(c) BY <1>2 DEF WalkInv
<1>5. n \in Nodes BY <1>1, <1>2, <1>3, <1>4, LookReaches
<1>6. Descent(c) BY DEF CauseInv
<1>7. Descent(c)' BY <1>1, <1>2, <1>3, <1>4, <1>5, <1>6, LookDescends
<1>8. /\ UNCHANGED children
      /\ \A d \in Connectors \ {c} : UNCHANGED <<stack[d], visited[d], reported[d]>>
      /\ UNCHANGED faults \/ Fault("browse")
  BY <1>1, <1>3 DEF LookedAt, world, DiscoveryTypeOK
<1>9. ASSUME NEW d \in Connectors \ {c} PROVE Descent(d)'
  BY <1>8, <1>9 DEF CauseInv, Descent, Walk
<1>10. ReportedForCause'
  <2> DEFINE Deep == \E p \in [0..(MaxDepth + 1) -> Objects] : WayDown(p, MaxDepth + 1)
  <2>1. Deep' = Deep BY <1>8 DEF WayDown
  <2>2. ASSUME faults' = 0, reported'[c] PROVE Deep
    <3>1. faults = 0 /\ ~Fault("browse") BY <1>1, <1>8, <2>2, FaultsCount
    <3>2. CASE reported[c] BY <3>1, <3>2 DEF CauseInv, ReportedForCause
    <3>3. CASE ~reported[c]
      <4>1. n \in Objects \ visited[c] /\ Len(stack[c]) > MaxDepth
        BY <1>3, <2>2, <3>1, <3>3 DEF LookedAt
      <4> QED BY <1>1, <1>2, <1>4, <1>6, <4>1, TooDeep
    <3> QED BY <3>2, <3>3
  <2>3. ASSUME NEW d \in Connectors \ {c}, faults' = 0, reported'[d] PROVE Deep
    <3>1. faults = 0 /\ reported[d] BY <1>1, <1>8, <2>3, FaultsCount
    <3> QED BY <3>1 DEF CauseInv, ReportedForCause
  <2> HIDE DEF Deep
  <2>4. \A d \in Connectors : reported'[d] /\ faults' = 0 => Deep'
    BY <2>1, <2>2, <2>3
  <2> QED BY <2>4 DEF ReportedForCause, Deep
<1> QED BY <1>7, <1>9, <1>10 DEF CauseInv

LEMMA CauseReturn ==
    ASSUME NEW c \in Connectors PROVE WalkInv /\ CauseInv /\ Return(c) => CauseInv'
<1> SUFFICES ASSUME WalkInv, CauseInv, Return(c) PROVE CauseInv' OBVIOUS
<1> DEFINE L == Len(stack[c])
<1>1. /\ DiscoveryTypeOK /\ stack[c] # <<>>
      /\ stack' = [stack EXCEPT ![c] = Below(stack[c])]
      /\ UNCHANGED <<children, visited, reported, faults>>
  BY DEF WalkInv, Return, world
<1>2. /\ stack'[c] \in Seq(Frames)
      /\ L \in Nat \ {0} /\ Len(stack'[c]) = L - 1
      /\ \A i \in 1..(L - 1) : stack'[c][i] = stack[c][i]
  BY <1>1, BelowStack DEF DiscoveryTypeOK
<1>3. Walk(c) = 1..L /\ Walk(c)' = 1..(L - 1)
  BY <1>1, <1>2, LenProperties DEF DiscoveryTypeOK, Walk
<1>4. \A i \in 1..(L - 1) : i \in 1..L /\ (i # 1 => i - 1 \in 1..(L - 1)) BY <1>2
<1> HIDE DEF L
<1>5. Descent(c)' BY <1>1, <1>2, <1>3, <1>4 DEF CauseInv, Descent
<1>6. ASSUME NEW d \in Connectors \ {c} PROVE Descent(d)'
  <2>1. UNCHANGED <<children, stack[d], visited[d]>>
    BY <1>1, <1>6 DEF DiscoveryTypeOK
  <2> QED BY <2>1 DEF CauseInv, Descent, Walk
<1>7. ReportedForCause' BY <1>1 DEF CauseInv, ReportedForCause, WayDown
<1> QED BY <1>5, <1>6, <1>7 DEF CauseInv

LEMMA CauseNext == WalkInv /\ CauseInv /\ [Next]_vars => CauseInv'
<1> SUFFICES ASSUME WalkInv, CauseInv, [Next]_vars PROVE CauseInv' OBVIOUS
<1>1. DiscoveryTypeOK BY DEF WalkInv
<1>2. ASSUME NEW c \in Connectors,
             Select(c) \/ Claim(c) \/ Fail(c) \/ Finish(c) \/ End(c)
      PROVE  CauseInv'
  <2>1. UNCHANGED <<children, stack, visited, reported>>
    BY <1>2 DEF Select, Claim, Fail, Finish, End, world, browse
  <2>2. UNCHANGED faults \/ \E kind \in FaultKinds : Fault(kind)
    BY <1>2 DEF Select, Claim, Fail, Finish, End, NoFault, FaultKinds
  <2>3. faults \in Nat BY <1>1, DiscoveryAssumption DEF DiscoveryTypeOK
  <2>4. faults' \in Nat /\ (faults' = 0 => faults = 0)
    BY <2>2, <2>3 DEF Fault
  <2> QED BY <1>1, <2>1, <2>4, CauseKept
<1>3. CASE Next
  <2>1. PICK c \in Connectors : Step(c) BY <1>3 DEF Next
  <2> QED BY <1>2, <2>1, CauseBegin, CauseLook, CauseReturn DEF Step
<1>4. CASE UNCHANGED vars
  <2>1. UNCHANGED <<children, stack, visited, reported, faults>>
    BY <1>4 DEF vars, world, browse
  <2>2. faults \in Nat BY <1>1, DiscoveryAssumption DEF DiscoveryTypeOK
  <2> QED BY <1>1, <2>1, <2>2, CauseKept
<1> QED BY <1>3, <1>4
-----------------------------------------------------------------------------
(* The theorems.                                                           *)

\* In every state the variables have their types, the walk of _collect_variables
\* is not deeper than _MAX_DEPTH, and what a connector takes was found.
THEOREM DiscoveryTypeCorrect == Spec => []DiscoveryTypeOK
<1>1. WalkInv => DiscoveryTypeOK BY DEF WalkInv
<1> QED BY <1>1, WalkAlways, PTL

\* Whatever the graph of the address space and the order in which the server
\* lists children, a browse of _collect_variables that logged no error has
\* found exactly the variables within reach that pass the filters.
THEOREM BrowseIsComplete == Spec => []CompleteUnlessReported
<1>1. WalkInv => CompleteUnlessReported
  BY EndedIsComplete DEF WalkInv, CompleteUnlessReported, SliceTaken, Selected
<1> QED BY <1>1, WalkAlways, PTL

\* When discover_and_partition returns to a connector that nobody allowed to
\* leave tags out, the connector has entered all it found; and what it found is
\* all there is, or its browse logged an error and it goes ready regardless.
THEOREM AllFoundAreTaken == Spec => []TakesAllItFound
<1>1. WalkInv => TakesAllItFound
  BY EndedIsComplete DEF WalkInv, TakesAllItFound, SliceTaken, Selected
<1> QED BY <1>1, WalkAlways, PTL

\* An address space that is nowhere deeper than _MAX_DEPTH is reported only
\* when a read fails: the set of seen nodes that _walk shares between its calls
\* keeps every cycle from growing the stack.
THEOREM DepthIsTheOnlyCause == Spec => []ReportedForCause
<1> QED BY CauseInit, CauseNext, WalkAlways, PTL DEF Spec, CauseInv

\* The slice a position of the list belongs to.
LEMMA PositionHasSlice ==
    ASSUME NEW r \in Nat, r < NumConnectors * Limit
    PROVE  \E c \in Connectors : /\ Offset(c) <= r /\ r < Offset(c) + Limit
                                /\ \A d \in Connectors :
                                       Offset(d) <= r /\ r < Offset(d) + Limit => d = c
<1> DEFINE q == r \div Limit
<1>1. Limit \in Nat \ {0} /\ NumConnectors \in Nat \ {0} BY DiscoveryAssumption
<1>2. q \in Nat /\ q * Limit <= r /\ r < q * Limit + Limit BY <1>1
<1> HIDE DEF q
<1>3. q < NumConnectors BY <1>1, <1>2
<1>4. q \in Connectors BY <1>1, <1>2, <1>3 DEF Connectors
<1>5. ASSUME NEW x \in Nat, NEW y \in Nat, x < y PROVE x * Limit + Limit <= y * Limit
  BY <1>1, <1>5
<1>6. ASSUME NEW d \in Connectors, d * Limit <= r, r < d * Limit + Limit PROVE d = q
  <2>1. d \in Nat BY <1>1 DEF Connectors
  <2> DEFINE x == d * Limit
             y == q * Limit
  <2>2. x \in Nat /\ y \in Nat BY <1>1, <1>2, <2>1
  <2>3. x <= r /\ r < x + Limit /\ y <= r /\ r < y + Limit BY <1>2, <1>6
  <2>4. /\ d < q => x + Limit <= y
        /\ q < d => y + Limit <= x
    BY <1>2, <1>5, <2>1
  <2> HIDE DEF x, y
  <2> QED BY <1>1, <1>2, <2>1, <2>2, <2>3, <2>4
<1> QED BY <1>2, <1>4, <1>6 DEF Offset

LEMMA RankIsNatural ==
    ASSUME DiscoveryTypeOK, NEW n PROVE Rank(n, Wanted) \in Nat
<1> DEFINE S == {m \in Wanted : m < n}
<1>1. S \subseteq Nodes BY DEF Wanted, Reachable
<1>2. IsFiniteSet(S) BY <1>1, FS_Subset, DiscoveryAssumption
<1> QED BY <1>2, FS_CardinalityType DEF Rank

\* When all connectors are ready and no browse logged an error, the slices of
\* _select_partition cover the first NumConnectors * Limit tags of the list,
\* and each of those tags is in one slice only.
THEOREM SlicesPartition == Spec => []PartitionIsExact
<1>1. ASSUME WalkInv PROVE PartitionIsExact
  <2> SUFFICES ASSUME \A c \in Connectors : phase[c] = "ready" /\ ~reported[c],
                      NEW n \in Wanted, Rank(n, Wanted) < NumConnectors * Limit
               PROVE  Cardinality({c \in Connectors : n \in mine[c]}) = 1
    BY DEF PartitionIsExact
  <2>1. DiscoveryTypeOK BY <1>1 DEF WalkInv
  <2>2. \A c \in Connectors : found[c] = Wanted /\ mine[c] = Slice(c)
    BY <1>1, EndedIsComplete DEF WalkInv, SliceTaken, Selected
  <2>3. Rank(n, Wanted) \in Nat BY <2>1, RankIsNatural
  <2>4. PICK c \in Connectors :
            /\ Offset(c) <= Rank(n, Wanted) /\ Rank(n, Wanted) < Offset(c) + Limit
            /\ \A d \in Connectors :
                   Offset(d) <= Rank(n, Wanted) /\ Rank(n, Wanted) < Offset(d) + Limit
                       => d = c
    BY <2>3, PositionHasSlice
  <2>5. \A d \in Connectors : n \in mine[d] <=> d = c
    BY <2>2, <2>4 DEF Slice
  <2>6. {d \in Connectors : n \in mine[d]} = {c} BY <2>5
  <2> QED BY <2>6, FS_Singleton
<1> QED BY <1>1, WalkAlways, PTL
=============================================================================
