----------------------------- MODULE SearchGraph -----------------------------
(***************************************************************************)
(* The problem every search of this repository is given: a graph seen      *)
(* through for_each_neighbor_of (src/src/shared/weighted_graph.hpp), a     *)
(* source, a destination and a heuristic.  Distances are C++ ints.         *)
(***************************************************************************)
EXTENDS Integers, Sequences, FiniteSets

CONSTANTS
    Vertex,       \* the vertex identifiers 0 .. number_vertices() - 1
    NoVertex,     \* the predecessor -1 of a vertex that was never reached
    Neighbors,    \* v |-> the arcs for_each_neighbor_of(v) visits, in order
    source,
    destination,
    Heuristic,    \* v |-> heuristic(v), an estimate of v's distance to go
    MaxWeight,    \* no arc is heavier
    IntMax        \* std::numeric_limits<int>::max()

\* class neighbor: the head of an arc and its weight
Arc == [vertex : Vertex, weight : 0..MaxWeight]

\* The graph loaders never build a negative arc, but LifeGraph builds arcs of
\* weight 0 (all arcs into row 0), so 0 is not excluded.
ASSUME GraphAssumption ==
    /\ IsFiniteSet(Vertex)
    /\ NoVertex \notin Vertex
    /\ source \in Vertex
    /\ destination \in Vertex
    /\ MaxWeight \in Nat
    /\ IntMax \in Nat
    /\ Neighbors \in [Vertex -> Seq(Arc)]
    /\ Heuristic \in [Vertex -> 0..IntMax]

\* What the code relies on without checking it: no sum of distances a search
\* can form exceeds an int.  At weight 14142 that is so for graphs of up to about
\* 151,000 vertices; a map of 512 by 512 cells may have more.
ASSUME DistancesFit ==
    MaxWeight * Cardinality(Vertex) < IntMax

degree(v) == Len(Neighbors[v])

\* int addition as the build performs it: two's complement wrap-around
Plus(a, b) == IF a + b <= IntMax THEN a + b ELSE a + b - 2 * (IntMax + 1)

\* struct vertpack, the pair every search keeps in one atomic word
VertPack == [distance : Int, pred : Vertex \cup {NoVertex}]

\* Broken InitGpred: the source is never stored.
InitGpred_NoSource == [v \in Vertex |-> [distance |-> IntMax, pred |-> NoVertex]]

\* The initial vertpacks: every vertex unreached, then the source stored
InitGpred ==
    [v \in Vertex |-> IF v = source
                      THEN [distance |-> 0, pred |-> source]
                      ELSE [distance |-> IntMax, pred |-> NoVertex]]

==============================================================================
