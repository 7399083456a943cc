----------------------------- MODULE SpecGraph -----------------------------
(***************************************************************************)
(* What is computed from the edges of a pipeline specification before it   *)
(* is stored or drawn: findCycle, the depth-first search whose answer lets *)
(* a specification be saved and run, and projectStages, which puts every   *)
(* node into a stage.  Both are loops over one graph; their iterations are *)
(* the steps here, and every graph over the vertices is tried.             *)
(***************************************************************************)
EXTENDS Naturals, Sequences, SequencesExt, FiniteSets

CONSTANT VertexCount  \* vertices 1 .. VertexCount, in the order of spec.nodes

ASSUME GraphConstants == VertexCount \in Nat \ {0}

Vertices == 1 .. VertexCount

VARIABLES
    adjacency,  \* adjacency[v]: the targets of v's edges
    roots,      \* keys of the adjacency the search has not started from
    path,       \* stack, which is also `visiting`
    untried,    \* untried[v]: targets the loop of v on the stack has still to visit
    visited,
    cycle,      \* the cycle found, <<>> if none
    stage,      \* stage[v] for the vertices that have one
    cursor,     \* the vertex the present pass looks at
    placed,     \* did this pass place a vertex
    passes,     \* passes made
    pinned      \* the vertices placed by the final sweep

searchVars == <<roots, path, untried, visited, cycle>>
stageVars == <<stage, cursor, placed, passes, pinned>>
graphVars == <<adjacency, searchVars, stageVars>>

\* Incoming edges; a loop at one vertex is left out.
Deps(v) == {u \in Vertices \ {v} : v \in adjacency[u]}

GraphTypeOK ==
    /\ adjacency \in [Vertices -> SUBSET Vertices]
    /\ ToSet(path) \cup visited \cup roots \subseteq Vertices
    /\ untried \in [Vertices -> SUBSET Vertices]
    /\ DOMAIN stage \cup pinned \subseteq Vertices
    /\ cursor \in 1 .. VertexCount + 1
    /\ passes \in Nat

GraphInit ==
    /\ adjacency \in [Vertices -> SUBSET Vertices]
    /\ roots = Vertices
    /\ path = <<>>
    /\ untried = [v \in Vertices |-> {}]
    /\ visited = {}
    /\ cycle = <<>>
    /\ stage = [v \in {u \in Vertices : Deps(u) = {}} |-> 0]
    /\ cursor = 1
    /\ placed = FALSE
    /\ passes = 0
    /\ pinned = {}

-----------------------------------------------------------------------------
(* findCycle                                                               *)

Searching == cycle = <<>> /\ (roots # {} \/ path # <<>>)

\* visit(v) for a vertex that is neither on the stack nor visited.
Enter(v) ==
    /\ path' = Append(path, v)
    /\ untried' = [untried EXCEPT ![v] = adjacency[v]]

\* The outer loop takes the next key.
VisitRoot(v) ==
    /\ Searching
    /\ path = <<>>
    /\ v = Min(roots)
    /\ roots' = roots \ {v}
    /\ IF v \in visited THEN UNCHANGED <<path, untried>> ELSE Enter(v)
    /\ UNCHANGED <<adjacency, visited, cycle, stageVars>>

\* Mutant: a vertex counts as visited from the moment it is entered.
VisitNextSeen(v) ==
    /\ Searching
    /\ path # <<>>
    /\ v \in untried[Last(path)]
    /\ IF v \in ToSet(path) \cup visited
       THEN /\ untried' = [untried EXCEPT ![Last(path)] = @ \ {v}]
            /\ UNCHANGED path
       ELSE /\ path' = Append(path, v)
            /\ untried' = [untried EXCEPT ![Last(path)] = @ \ {v}, ![v] = adjacency[v]]
    /\ UNCHANGED <<adjacency, roots, visited, cycle, stageVars>>

\* The loop over the targets of the vertex on top: one on the stack closes a
\* cycle, a visited one is passed over, another one is entered.
VisitNext(v) ==
    /\ Searching
    /\ path # <<>>
    /\ v \in untried[Last(path)]
    /\ IF v \in ToSet(path)
       THEN /\ cycle' = Append(SubSeq(path, CHOOSE i \in DOMAIN path : path[i] = v, Len(path)), v)
            /\ UNCHANGED <<path, untried>>
       ELSE /\ IF v \in visited
               THEN /\ untried' = [untried EXCEPT ![Last(path)] = @ \ {v}]
                    /\ UNCHANGED path
               ELSE /\ path' = Append(path, v)
                    /\ untried' = [untried EXCEPT ![Last(path)] = @ \ {v}, ![v] = adjacency[v]]
            /\ UNCHANGED cycle
    /\ UNCHANGED <<adjacency, roots, visited, stageVars>>

\* All targets are done: the vertex leaves the stack and is visited.
LeaveVertex ==
    /\ Searching
    /\ path # <<>>
    /\ untried[Last(path)] = {}
    /\ visited' = visited \cup {Last(path)}
    /\ path' = Front(path)
    /\ UNCHANGED <<adjacency, roots, untried, cycle, stageVars>>

-----------------------------------------------------------------------------
(* projectStages                                                           *)

\* `safety`, the guard of the loop.
MaxPasses == VertexCount * (VertexCount + 1)

\* The loop goes on while the last pass placed something, the roots at first; a
\* pass over vertices that are all placed would change nothing.
Relaxing == pinned = {} /\ DOMAIN stage # Vertices /\ DOMAIN stage # {} /\ passes < MaxPasses
Settled  == DOMAIN stage = Vertices

MaxStage(S) == IF S = {} THEN 0 ELSE Max({stage[v] + 1 : v \in S})

\* One vertex of a pass: it is placed once all its dependencies are.
RelaxVertex ==
    /\ Relaxing
    /\ cursor <= VertexCount
    /\ cursor' = cursor + 1
    /\ IF cursor \notin DOMAIN stage /\ Deps(cursor) \subseteq DOMAIN stage
       THEN /\ stage' = [v \in DOMAIN stage \cup {cursor} |->
                            IF v = cursor THEN MaxStage(Deps(cursor)) ELSE stage[v]]
            /\ placed' = TRUE
       ELSE UNCHANGED <<stage, placed>>
    /\ UNCHANGED <<adjacency, searchVars, passes, pinned>>

NextPass ==
    /\ Relaxing
    /\ cursor > VertexCount
    /\ placed
    /\ passes' = passes + 1
    /\ cursor' = 1
    /\ placed' = FALSE
    /\ UNCHANGED <<adjacency, searchVars, stage, pinned>>

\* A pass that placed nothing, or no root at all: what is left goes into one
\* more stage.
PinRest ==
    /\ ~Settled
    /\ ~Relaxing \/ (cursor > VertexCount /\ ~placed)
    /\ pinned' = Vertices \ DOMAIN stage
    /\ stage' = [v \in Vertices |-> IF v \in DOMAIN stage THEN stage[v]
                                    ELSE MaxStage(DOMAIN stage)]
    /\ UNCHANGED <<adjacency, searchVars, cursor, placed, passes>>

GraphNext ==
    IF Searching
    THEN (\E v \in Vertices : VisitRoot(v) \/ VisitNext(v)) \/ LeaveVertex
    ELSE RelaxVertex \/ NextPass \/ PinRest

GraphSpec == GraphInit /\ [][GraphNext]_graphVars

-----------------------------------------------------------------------------
(* Properties                                                              *)

\* Some set of vertices in which everyone has a successor: the graph has a cycle.
HasCycle == \E S \in SUBSET Vertices \ {{}} : \A v \in S : adjacency[v] \cap S # {}

\* What findCycle returns is a closed walk along edges, and it returns nothing
\* only for a graph without a cycle.
CycleExact ==
    /\ cycle # <<>> =>
           /\ Len(cycle) > 1
           /\ cycle[1] = Last(cycle)
           /\ \A i \in 1 .. Len(cycle) - 1 : cycle[i + 1] \in adjacency[cycle[i]]
    /\ ~Searching => (cycle # <<>> <=> HasCycle)

\* While the search runs, the stack is a walk and nothing leads from a visited
\* vertex out of what was visited.
SearchInvariant ==
    /\ \A i \in 1 .. Len(path) - 1 : path[i + 1] \in adjacency[path[i]]
    /\ \A v \in visited : adjacency[v] \subseteq visited
    /\ ToSet(path) \cap visited = {}

\* The vertices behind a cycle of several vertices, the cycle's own included.
BehindCycle == UNION {S \in SUBSET Vertices : \A v \in S : Deps(v) \cap S # {}}

\* Every stage comes after those of its dependencies, right after the last of
\* them, but for what lies behind a cycle: that is one stage of its own, the
\* last.  The cap on the passes never decides.
StagesExact ==
    /\ passes < MaxPasses
    /\ Settled =>
           /\ pinned = BehindCycle
           /\ \A v \in Vertices \ pinned : Deps(v) \cap pinned = {} /\ stage[v] = MaxStage(Deps(v))
           /\ \A v \in pinned : stage[v] = MaxStage(Vertices \ pinned)

GraphSafe == GraphTypeOK /\ SearchInvariant /\ CycleExact /\ StagesExact
=============================================================================
