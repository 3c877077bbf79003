---------------------------- MODULE ShortestPaths ----------------------------
(***************************************************************************)
(* What the results of a search are measured against: which vertices can   *)
(* be reached and how far away they are.                                   *)
(***************************************************************************)
EXTENDS SearchGraph

\* The weight of a cheapest arc from u to x
arcWeight(u, x) ==
    LET A == {Neighbors[u][j] : j \in {k \in 1..degree(u) : Neighbors[u][k].vertex = x}}
    IN  (CHOOSE a \in A : \A b \in A : a.weight <= b.weight).weight

\* The ends of the walks that go on from p, a pair of an end and a length, by
\* one arc
Onward(p) ==
    {<<Neighbors[p[1]][j].vertex, p[2] + Neighbors[p[1]][j].weight>> : j \in 1..degree(p[1])}

\* W and what one arc more leads to, for each end the shortest only
Longer(W) ==
    LET all == W \cup UNION {Onward(p) : p \in W}
    IN  {p \in all : \A q \in all : q[1] = p[1] => p[2] <= q[2]}

\* The ends of the walks of at most n arcs from the source, each with the
\* length of a shortest such walk
walks[n \in 0..Cardinality(Vertex)] ==
    IF n = 0 THEN {<<source, 0>>} ELSE Longer(walks[n - 1])

Walks == walks[Cardinality(Vertex)]

\* The vertices the source is connected to
Reachable == {p[1] : p \in Walks}

\* The length of a shortest path from the source to each vertex
Shortest ==
    LET all == Walks
    IN  [x \in Vertex |-> IF \E p \in all : p[1] = x
                          THEN (CHOOSE p \in all : p[1] = x)[2]
                          ELSE IntMax]

==============================================================================
