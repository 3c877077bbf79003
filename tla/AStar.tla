--------------------------------- MODULE AStar ---------------------------------
(***************************************************************************)
(* astar and astarT (src/src/astar.hpp), "wA*": the sequential search the  *)
(* parallel ones are compared with.  An expanded vertex is never expanded  *)
(* again, even if a shorter way to it turns up.                            *)
(*                                                                         *)
(* The SBPL planners have their own copy, wAStar                           *)
(* (src/libsbpl/src/include/sbpl/planners/pwsaplanner.h), which ends as    *)
(* soon as the destination has a distance instead of when it is popped.    *)
(***************************************************************************)
EXTENDS ShortestPaths, Frontier

CONSTANTS
    Destinations,   \* the destinations astar is called with
    Estimates       \* the heuristics: estimates of the distance between two vertices

ASSUME CallAssumption ==
    /\ Destinations \subseteq Vertex
    /\ Estimates \subseteq [Vertex -> [Vertex -> 0..IntMax]]

VARIABLES
    sbpl,          \* wAStar is called, not astar
    dst,           \* the destination of this call
    heuristic,     \* and its heuristic
    gpred,         \* states[_].dist and states[_].pred; astar has no pred of the source
    is_expanded,
    frontier,
    pc,
    v,
    arc            \* the arc of v the callback is called for

call == <<sbpl, dst, heuristic>>
vars == <<call, gpred, is_expanded, frontier, pc, v, arc>>

Init ==
    /\ sbpl \in BOOLEAN
    /\ dst \in Destinations
    /\ heuristic \in {[x \in Vertex |-> est[x][dst]] : est \in Estimates}
    /\ gpred = [InitGpred EXCEPT ![source].pred = IF sbpl THEN source ELSE NoVertex]
    /\ is_expanded = [x \in Vertex |-> FALSE]
    /\ frontier = {[f |-> heuristic[source], vertex |-> source]}
    /\ pc = "loop"
    /\ v = source
    /\ arc = 0

\* The loop goes on: astar loops forever, wAStar while (dest->g == INT_MAX).
Looping == pc = "loop" /\ (sbpl => gpred[dst].distance = IntMax)

\* wAStar is done.
DestReached ==
    /\ pc = "loop" /\ ~Looping
    /\ pc' = "done"
    /\ UNCHANGED <<call, gpred, is_expanded, frontier, v, arc>>

\* Broken DeleteMin: some entry is taken, not a least one.
DeleteMin_Any ==
    /\ Looping
    /\ \E e \in frontier :
          /\ frontier' = frontier \ {e}
          /\ v' = e.vertex
          /\ pc' = IF e.vertex = dst /\ ~sbpl THEN "done" ELSE "test"
    /\ UNCHANGED <<call, gpred, is_expanded, arc>>

DeleteMin ==
    /\ Looping
    /\ \E e \in MinEntries(frontier) :
          /\ frontier' = frontier \ {e}
          /\ v' = e.vertex
          /\ pc' = IF e.vertex = dst /\ ~sbpl THEN "done" ELSE "test"
    /\ UNCHANGED <<call, gpred, is_expanded, arc>>

\* delete_min on an empty heap, with its assert compiled out, reads and writes
\* outside the array: nothing is known of what follows.
DeleteMinEmpty ==
    /\ Looping
    /\ frontier = {}
    /\ pc' = "undefined"
    /\ UNCHANGED <<call, gpred, is_expanded, frontier, v, arc>>

\* An expanded vertex is skipped, another one is marked and its arcs follow.
Expand ==
    /\ pc = "test"
    /\ is_expanded' = [is_expanded EXCEPT ![v] = TRUE]
    /\ IF is_expanded[v] THEN pc' = "loop" /\ UNCHANGED arc
                         ELSE pc' = "relax" /\ arc' = 1
    /\ UNCHANGED <<call, gpred, frontier, v>>

\* Broken Relax: the improved vertex is not queued.
Relax_NoInsert ==
    /\ pc = "relax"
    /\ arc <= degree(v)
    /\ LET nbr     == Neighbors[v][arc].vertex
           nbrdist == Plus(gpred[v].distance, Neighbors[v][arc].weight)
       IN  gpred' = IF nbrdist < gpred[nbr].distance
                    THEN [gpred EXCEPT ![nbr] = [distance |-> nbrdist, pred |-> v]]
                    ELSE gpred
    /\ arc' = arc + 1
    /\ UNCHANGED <<call, is_expanded, frontier, pc, v>>

\* The callback of for_each_neighbor_of
Relax ==
    /\ pc = "relax"
    /\ arc <= degree(v)
    /\ LET nbr     == Neighbors[v][arc].vertex
           nbrdist == Plus(gpred[v].distance, Neighbors[v][arc].weight)
       IN  IF nbrdist < gpred[nbr].distance
           THEN /\ frontier' = frontier \cup {[f |-> Plus(heuristic[nbr], nbrdist), vertex |-> nbr]}
                /\ gpred' = [gpred EXCEPT ![nbr] = [distance |-> nbrdist, pred |-> v]]
           ELSE UNCHANGED <<frontier, gpred>>
    /\ arc' = arc + 1
    /\ UNCHANGED <<call, is_expanded, pc, v>>

EndRelax ==
    /\ pc = "relax"
    /\ arc > degree(v)
    /\ pc' = "loop" /\ arc' = 0
    /\ UNCHANGED <<call, gpred, is_expanded, frontier, v>>

\* The result is with the caller, or the program is lost.
Return == pc \in {"done", "undefined"} /\ UNCHANGED vars

Next == DestReached \/ DeleteMin \/ DeleteMinEmpty \/ Expand \/ Relax \/ EndRelax \/ Return

SafetySpec == Init /\ [][Next]_vars
Spec == SafetySpec /\ WF_vars(Next)

------------------------------------------------------------------------------
Consistent ==
    /\ heuristic[dst] = 0
    /\ \A u \in Vertex : \A j \in 1..degree(u) :
          heuristic[u] <= Neighbors[u][j].weight + heuristic[Neighbors[u][j].vertex]

\* With a consistent heuristic a vertex is expanded only once its distance is
\* that of a shortest path, so not expanding it again costs nothing; the
\* destination of astar is returned at its shortest distance.
ExpandedAreOptimal ==
    LET shortest == Shortest
    IN  Consistent =>
          /\ \A x \in Vertex : is_expanded[x] => gpred[x].distance = shortest[x]
          /\ pc = "done" /\ ~sbpl => gpred[dst].distance = shortest[dst]

\* A destination that can be reached is found: the heap, which astar.hpp:58 and
\* pwsaplanner.h:126 empty without looking at its size, does not run out before.
DestinationFound == dst \in Reachable => <>(pc = "done")

==============================================================================
