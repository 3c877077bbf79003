------------------------------ MODULE SearchTree ------------------------------
(***************************************************************************)
(* What a parallel weighted A* search promises, whatever its scheduling:   *)
(* vertices are expanded at most once and only after they were reached,    *)
(* and a vertpack is only ever replaced by a strictly shorter distance     *)
(* through an expanded predecessor.  The distance a relaxation writes may  *)
(* rest on an old g of the predecessor (the expander reads it once and it  *)
(* may improve afterwards), so it is bounded from below by the current g.  *)
(*                                                                         *)
(* The promise that makes a result usable is PathsReachSource: following   *)
(* predecessors from any reached vertex ends at the source.                *)
(***************************************************************************)
EXTENDS SearchGraph

VARIABLES
    gpred,        \* states[v].gpred
    is_expanded   \* states[v].is_expanded

tvars == <<gpred, is_expanded>>

Reached(v) == gpred[v].distance # IntMax

Init ==
    /\ gpred = InitGpred
    /\ is_expanded = [v \in Vertex |-> FALSE]

\* Someone claims the expansion of v.
Expand(v) ==
    /\ ~is_expanded[v]
    /\ Reached(v)
    /\ is_expanded' = [is_expanded EXCEPT ![v] = TRUE]
    /\ UNCHANGED gpred

\* The expander of u improves the head of u's i-th arc to distance d.
Relax(u, i, d) ==
    LET v == Neighbors[u][i].vertex
    IN  /\ is_expanded[u]
        /\ gpred[u].distance + Neighbors[u][i].weight <= d
        /\ d < gpred[v].distance
        /\ gpred' = [gpred EXCEPT ![v] = [distance |-> d, pred |-> u]]
        /\ UNCHANGED is_expanded

Next ==
    \/ \E v \in Vertex : Expand(v)
    \/ \E u \in Vertex : \E i \in 1..degree(u) : \E d \in 0..IntMax - 1 :
          Relax(u, i, d)

Spec == Init /\ [][Next]_tvars

------------------------------------------------------------------------------
TypeOK ==
    /\ gpred \in [Vertex -> [distance : 0..IntMax, pred : Vertex \cup {NoVertex}]]
    /\ is_expanded \in [Vertex -> BOOLEAN]

\* The source keeps distance 0 and is its own predecessor.
SourceIsRoot == gpred[source] = [distance |-> 0, pred |-> source]

\* The vertex v was reached over an arc from its predecessor, and g of the
\* predecessor plus that arc is at most g of v.
HasTreeArc(v) ==
    /\ gpred[v].pred \in Vertex
    /\ is_expanded[gpred[v].pred]
    /\ \E i \in 1..degree(gpred[v].pred) :
          LET a == Neighbors[gpred[v].pred][i]
          IN  /\ a.vertex = v
              /\ gpred[gpred[v].pred].distance + a.weight <= gpred[v].distance

\* Every reached vertex hangs on a tree arc, which pathlen walks back
\* (weighted_graph.hpp:239).
TreeArcs == \A v \in Vertex \ {source} : Reached(v) => HasTreeArc(v)

\* Only reached vertices are expanded.
ExpandedReached == \A v \in Vertex : is_expanded[v] => Reached(v)

\* No set of reached vertices other than the source is closed under
\* predecessors: with zero-weight arcs (LifeGraph row 0) g alone does not rule
\* out a cycle, the order of the strict improvements does.  Hence the loop of
\* pathlen, curr = predecessor(curr) until curr == src, ends.
PathsReachSource ==
    \A S \in SUBSET (Vertex \ {source}) :
       S # {} /\ (\A v \in S : Reached(v)) => \E v \in S : gpred[v].pred \notin S

==============================================================================
