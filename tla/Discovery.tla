----------------------------- MODULE Discovery -----------------------------
(***************************************************************************)
(* opc/browser.py: how each connector finds the variables of the server    *)
(* and which of them it takes.  A connector walks the address space depth  *)
(* first from Objects, sorts what it found by node_id, takes the slice     *)
(* given by OPC_TAG_OFFSET and OPC_TAG_LIMIT, and enters it into the       *)
(* catalog, which all connectors share and none of them reads.             *)
(*                                                                         *)
(* The address space is any graph: Organizes references may form cycles    *)
(* and several paths may lead to a node.  Nodes are numbered in the order  *)
(* of their node_id.  Connectors are processes that share the catalog      *)
(* only, so the reads that one child takes are one step.                   *)
(***************************************************************************)
EXTENDS Naturals, Sequences, FiniteSets

CONSTANTS
    Objects,       \* nodes of class Object, by number
    Variables,     \* nodes of class Variable, by number
    Matching,      \* those OPC_NAMESPACE_INDEX and OPC_NODE_ID_FILTER admit
    Spaces,        \* address spaces: the children of each object
    NumConnectors, \* connectors, each with the offset of its number
    Limit,         \* OPC_TAG_LIMIT
    MaxDepth,      \* _MAX_DEPTH
    Faults,        \* the kinds of failure the environment may cause
    MaxFaults,     \* bound: failures in one behaviour
    MaxSessions    \* bound: sessions of each connector in one behaviour

\* A read of the server is refused; a query of the catalog fails; a session
\* is lost later on.
FaultKinds == {"browse", "catalog", "lost"}

Root == 0
Nodes == Objects \cup Variables
Connectors == 0..(NumConnectors - 1)
Offset(c) == c * Limit

ASSUME DiscoveryAssumption ==
    /\ Nodes \subseteq Nat /\ IsFiniteSet(Nodes)
    /\ Objects \cap Variables = {}
    /\ Root \in Objects
    /\ Spaces \subseteq [Objects -> SUBSET Nodes]
    /\ {NumConnectors, Limit, MaxSessions} \subseteq Nat \ {0}
    /\ {MaxDepth, MaxFaults} \subseteq Nat
    /\ Faults \subseteq FaultKinds

VARIABLES
    children, \* the address space: does not change
    explicit, \* _selection_is_explicit: a filter, or OPC_ALLOW_TAG_OMISSION
    phase,    \* how far each connector has come
    stack,    \* its calls of _walk: a node and the children still to look at
    visited,  \* nodes it has looked at
    found,    \* variables it has found
    reported, \* a browse error was logged and counted since it began
    mine,     \* the tags it has entered into the catalog in this session
    catalog,  \* the nodes with a row in the catalog
    faults,   \* failures so far
    sessions  \* sessions of each connector so far

world  == <<children, explicit>>
browse == <<stack, visited, found, reported>>
tags   == <<mine, catalog>>
vars   == <<world, phase, browse, tags, faults, sessions>>
-----------------------------------------------------------------------------
NoFault == UNCHANGED faults
Fault(kind) ==
    /\ kind \in Faults
    /\ faults < MaxFaults
    /\ faults' = faults + 1

Frame(n, ns) == [node |-> n, left |-> ns]
Top(s) == s[Len(s)]
Below(s) == SubSeq(s, 1, Len(s) - 1)

Goto(c, p) == phase' = [phase EXCEPT ![c] = p]
Report(c) == reported' = [reported EXCEPT ![c] = TRUE]

-----------------------------------------------------------------------------
(* _collect_variables.                                                     *)

\* A session begins with the children of Objects.
Begin(c) ==
    /\ phase[c] = "idle"
    /\ sessions[c] < MaxSessions
    /\ sessions' = [sessions EXCEPT ![c] = @ + 1]
    /\ Goto(c, "browsing")
    /\ visited' = [visited EXCEPT ![c] = {}]
    /\ found' = [found EXCEPT ![c] = {}]
    /\ mine' = [mine EXCEPT ![c] = {}]
    /\ \/ /\ NoFault
          /\ stack' = [stack EXCEPT ![c] = <<Frame(Root, children[Root])>>]
          /\ reported' = [reported EXCEPT ![c] = FALSE]
       \/ /\ Fault("browse")
          /\ stack' = [stack EXCEPT ![c] = <<>>]
          /\ Report(c)
    /\ UNCHANGED <<world, catalog>>

\* The walk goes on with child n of the node on top of the stack.
Advance(c, n) ==
    LET s == stack[c] IN
    Append(Below(s), Frame(Top(s).node, Top(s).left \ {n}))

\* Mutant: the walk does not get past a node it has seen.
SkipStays(c, n) ==
    /\ n \in visited[c]
    /\ UNCHANGED <<browse, faults>>

\* The child was seen on another path.
Skip(c, n) ==
    /\ n \in visited[c]
    /\ stack' = [stack EXCEPT ![c] = Advance(c, n)]
    /\ UNCHANGED <<visited, found, reported, faults>>

\* Its class cannot be read: it is logged, and will not be tried again.
Unreadable(c, n) ==
    /\ n \notin visited[c]
    /\ Fault("browse")
    /\ visited' = [visited EXCEPT ![c] = @ \cup {n}]
    /\ Report(c)
    /\ stack' = [stack EXCEPT ![c] = Advance(c, n)]
    /\ UNCHANGED found

\* A variable; it is kept if it passes the filters.  Its own children are not
\* looked at.
Collect(c, n) ==
    /\ n \in Variables \ visited[c]
    /\ visited' = [visited EXCEPT ![c] = @ \cup {n}]
    /\ found' = [found EXCEPT ![c] = @ \cup ({n} \cap Matching)]
    /\ stack' = [stack EXCEPT ![c] = Advance(c, n)]
    /\ UNCHANGED <<reported, faults>>

\* Mutant: what lies too deep is not reported.
DescendQuietly(c, n) ==
    /\ n \in Objects \ visited[c]
    /\ visited' = [visited EXCEPT ![c] = @ \cup {n}]
    /\ stack' = [stack EXCEPT ![c] =
            IF Len(stack[c]) <= MaxDepth
            THEN Append(Advance(c, n), Frame(n, children[n]))
            ELSE Advance(c, n)]
    /\ UNCHANGED <<found, reported, faults>>

\* Mutant: one level more than the limit.
DescendDeeper(c, n) ==
    /\ n \in Objects \ visited[c]
    /\ visited' = [visited EXCEPT ![c] = @ \cup {n}]
    /\ stack' = [stack EXCEPT ![c] =
                     Append(Advance(c, n), Frame(n, children[n]))]
    /\ UNCHANGED <<found, reported, faults>>

\* Mutant: one level fewer than the limit.
DescendShallow(c, n) ==
    /\ n \in Objects \ visited[c]
    /\ visited' = [visited EXCEPT ![c] = @ \cup {n}]
    /\ stack' = [stack EXCEPT ![c] =
            IF Len(stack[c]) < MaxDepth
            THEN Append(Advance(c, n), Frame(n, children[n]))
            ELSE Advance(c, n)]
    /\ reported' = [reported EXCEPT ![c] = @ \/ Len(stack[c]) >= MaxDepth]
    /\ UNCHANGED <<found, faults>>

\* An object: the walk goes down, unless it is too deep or its children cannot
\* be read; both are logged.
Descend(c, n) ==
    /\ n \in Objects \ visited[c]
    /\ visited' = [visited EXCEPT ![c] = @ \cup {n}]
    /\ \/ /\ Len(stack[c]) <= MaxDepth
          /\ NoFault
          /\ stack' = [stack EXCEPT ![c] =
                           Append(Advance(c, n), Frame(n, children[n]))]
          /\ UNCHANGED reported
       \/ /\ \/ Len(stack[c]) > MaxDepth /\ NoFault
             \/ Len(stack[c]) <= MaxDepth /\ Fault("browse")
          /\ stack' = [stack EXCEPT ![c] = Advance(c, n)]
          /\ Report(c)
    /\ UNCHANGED found

\* One child of the innermost _walk, in the order the server lists them.
Look(c) ==
    /\ phase[c] = "browsing"
    /\ stack[c] # <<>>
    /\ \E n \in Top(stack[c]).left :
           Skip(c, n) \/ Unreadable(c, n) \/ Collect(c, n) \/ Descend(c, n)
    /\ UNCHANGED <<world, phase, tags, sessions>>

\* A _walk returns.
Return(c) ==
    /\ phase[c] = "browsing"
    /\ stack[c] # <<>>
    /\ Top(stack[c]).left = {}
    /\ stack' = [stack EXCEPT ![c] = Below(stack[c])]
    /\ UNCHANGED <<world, phase, visited, found, reported, tags, faults,
                   sessions>>
-----------------------------------------------------------------------------
(* discover_and_partition.                                                 *)

Rank(n, S) == Cardinality({m \in S : m < n})

\* Mutant: the end of the slice is part of it.
SliceLonger(c) ==
    {n \in found[c] : Offset(c) <= Rank(n, found[c])
                      /\ Rank(n, found[c]) <= Offset(c) + Limit}

\* variables[start:end] of the sorted list.
Slice(c) ==
    {n \in found[c] : Offset(c) <= Rank(n, found[c])
                      /\ Rank(n, found[c]) < Offset(c) + Limit}

\* Mutant: what is left out is only logged.
SelectAnyway(c) ==
    /\ phase[c] = "browsing"
    /\ stack[c] = <<>>
    /\ Goto(c, "claiming")
    /\ UNCHANGED <<world, browse, tags, faults, sessions>>

\* _select_partition raises DiscoveryError if it leaves tags out that nobody
\* said might be.
Select(c) ==
    /\ phase[c] = "browsing"
    /\ stack[c] = <<>>
    /\ Goto(c, IF Slice(c) # found[c] /\ ~explicit THEN "failed" ELSE "claiming")
    /\ UNCHANGED <<world, browse, tags, faults, sessions>>

\* The upsert of the next tag.
Claim(c) ==
    /\ phase[c] = "claiming"
    /\ \E n \in Slice(c) \ mine[c] :
           /\ \A m \in Slice(c) \ mine[c] : n <= m
           /\ mine' = [mine EXCEPT ![c] = @ \cup {n}]
           /\ catalog' = catalog \cup {n}
    /\ UNCHANGED <<world, phase, browse, faults, sessions>>

\* An upsert raises, or a read of the server raises what is no UaError: no
\* more connection.
Fail(c) ==
    /\ \/ phase[c] = "claiming" /\ Fault("catalog")
       \/ phase[c] = "browsing" /\ Fault("lost")
    /\ Goto(c, "failed")
    /\ UNCHANGED <<world, browse, tags, sessions>>

Finish(c) ==
    /\ phase[c] = "claiming"
    /\ mine[c] = Slice(c)
    /\ Goto(c, "ready")
    /\ UNCHANGED <<world, browse, tags, faults, sessions>>

\* The session fails, or is lost once it is up; the next one browses again.
End(c) ==
    /\ \/ phase[c] = "failed" /\ NoFault
       \/ phase[c] = "ready" /\ Fault("lost")
    /\ Goto(c, "idle")
    /\ UNCHANGED <<world, browse, tags, sessions>>

Init ==
    /\ children \in Spaces
    /\ explicit \in BOOLEAN /\ (Variables \subseteq Matching \/ explicit)
    /\ phase = [c \in Connectors |-> "idle"]
    /\ stack = [c \in Connectors |-> <<>>]
    /\ visited = [c \in Connectors |-> {}]
    /\ found = [c \in Connectors |-> {}]
    /\ reported = [c \in Connectors |-> FALSE]
    /\ mine = [c \in Connectors |-> {}]
    /\ catalog = {}
    /\ faults = 0
    /\ sessions = [c \in Connectors |-> 0]

Step(c) ==
    \/ Begin(c) \/ Look(c) \/ Return(c) \/ Select(c)
    \/ Claim(c) \/ Fail(c) \/ Finish(c) \/ End(c)

Next == \E c \in Connectors : Step(c)

Spec == Init /\ [][Next]_vars

\* Every call of the server and of the database returns or raises.
FairSpec == Spec /\ \A c \in Connectors : WF_vars(Look(c) \/ Return(c) \/ Select(c))
-----------------------------------------------------------------------------
(* Properties.                                                             *)

Phases == {"idle", "browsing", "claiming", "ready", "failed"}
Frames == [node : Objects, left : SUBSET Nodes]

\* Every variable has its type; a connector finds what it looked at and takes
\* what it found; the walk is never deeper than its limit.
DiscoveryTypeOK ==
    /\ children \in [Objects -> SUBSET Nodes] /\ explicit \in BOOLEAN
    /\ phase \in [Connectors -> Phases]
    /\ stack \in [Connectors -> Seq(Frames)]
    /\ visited \in [Connectors -> SUBSET Nodes]
    /\ found \in [Connectors -> SUBSET (Variables \cap Matching)]
    /\ reported \in [Connectors -> BOOLEAN]
    /\ mine \in [Connectors -> SUBSET Nodes]
    /\ catalog \subseteq Variables \cap Matching
    /\ faults \in 0..MaxFaults
    /\ sessions \in [Connectors -> 0..MaxSessions]
    /\ \A c \in Connectors : /\ Len(stack[c]) <= MaxDepth + 1
                             /\ found[c] \subseteq visited[c]
                             /\ mine[c] \subseteq found[c]

\* What lies within reach: the smallest set with Objects in it and with the
\* children of every object in it.
Closed(S) == Root \in S /\ \A n \in S \cap Objects : children[n] \subseteq S
Reachable == {n \in Nodes : \A S \in SUBSET Nodes : Closed(S) => n \in S}
Wanted == Reachable \cap Variables \cap Matching

Selected(c) == phase[c] \in {"claiming", "ready"}

\* A browse finds every variable within reach, whatever cycles and short cuts
\* there are and in whatever order the server lists children, or it has
\* logged an error ("un fallo de permisos o de navegación no debe pasar
\* desapercibido", _collect_variables).
CompleteUnlessReported ==
    \A c \in Connectors : Selected(c) /\ ~reported[c] => found[c] = Wanted

\* A way down from Objects, from object to object, that enters none twice.
WayDown(p, d) ==
    /\ p[0] = Root
    /\ \A i \in 1..d : p[i] \in children[p[i - 1]]
    /\ \A i, j \in 1..d : p[i] = p[j] => i = j

\* While every read succeeds, an error is logged of an address space only that
\* is deeper than _MAX_DEPTH somewhere: no cycle, no short cut and no order of
\* the children cuts a browse short in one that is not.
ReportedForCause ==
    \A c \in Connectors : reported[c] /\ faults = 0 =>
        \E p \in [0..(MaxDepth + 1) -> Objects] : WayDown(p, MaxDepth + 1)

\* A session that nobody allowed to leave tags out has taken all it found, or
\* it is not ready ("la sesión aborta en vez de dejar tags fuera", README.md).
\* That is all there is, unless the browse logged an error: what it could not
\* see is missing, and the session is ready all the same.
TakesAllItFound ==
    \A c \in Connectors :
        phase[c] = "ready" /\ ~explicit =>
            /\ mine[c] = found[c]
            /\ mine[c] = Wanted \/ reported[c]

\* The slices cover the list, and every tag is in one of them only, whenever
\* the connectors browsed and whatever failed meanwhile, so long as the browse
\* itself reported nothing ("evitando solapes/huecos entre instancias").
PartitionIsExact ==
    (\A c \in Connectors : phase[c] = "ready" /\ ~reported[c]) =>
        \A n \in Wanted :
            Rank(n, Wanted) < NumConnectors * Limit =>
                Cardinality({c \in Connectors : n \in mine[c]}) = 1

\* The same without the reservation about browse errors.
NoTagTwice ==
    \A c, d \in Connectors :
        c # d /\ phase[c] = "ready" /\ phase[d] = "ready" =>
            mine[c] \cap mine[d] = {}

\* A browse ends, though the graph has cycles.
BrowseEnds ==
    \A c \in Connectors : phase[c] = "browsing" ~> phase[c] # "browsing"
=============================================================================
