-------------------------------- MODULE PwsaPc --------------------------------
(***************************************************************************)
(* pwsa_pc (src/src/pwsa.hpp), the parallel weighted A* search "wPWSA*":   *)
(* parallel_while_pwsa with frontiers of vertices and the body do_work.    *)
(*                                                                         *)
(* The shared memory is states[v]: the flag is_expanded and the vertpack   *)
(* gpred, each one atomic word.  Each action performs at most one access   *)
(* to it.  Left out: pebbles (a statistic nothing reads), the busy loop    *)
(* that simulates expansion time, and the memo states[v].h, whose racing   *)
(* writers all write heuristic(v).  Locals that are dead are reset.        *)
(***************************************************************************)
EXTENDS ParallelWhile, ShortestPaths

CONSTANT PollCutoff   \* poll_cutoff, D of the drivers

ASSUME PollAssumption == PollCutoff \in Nat

VARIABLES
    gpred,             \* states[_].gpred
    is_expanded,       \* states[_].is_expanded
    steps_this_round,  \* locals of do_work, per worker
    v,                 \* the vertex popped last
    vdistance,         \* its distance when its expansion began
    arc,               \* the arc of v that is being relaxed
    gpred_nbr          \* the vertpack of the arc's head as last loaded

svars == <<gpred, is_expanded>>
lvars == <<steps_this_round, v, vdistance, arc, gpred_nbr>>
vars == <<pvars, svars, lvars>>

\* A frontier holds vertices under the priority g + h they were inserted with.
\* g decreases with every insertion of a vertex, so entries are distinct.
Entry == [f : Int, vertex : Vertex]

Unreached == [distance |-> IntMax, pred |-> NoVertex]

Init ==
    /\ PInit({[f |-> Heuristic[source], vertex |-> source]})
    /\ gpred = InitGpred
    /\ is_expanded = [x \in Vertex |-> FALSE]
    /\ steps_this_round = [w \in Worker |-> 0]
    /\ v = [w \in Worker |-> source]
    /\ vdistance = [w \in Worker |-> 0]
    /\ arc = [w \in Worker |-> 0]
    /\ gpred_nbr = [w \in Worker |-> Unreached]

------------------------------------------------------------------------------
(* do_work *)

\* The loop condition fails: the steps are accounted for, the body returns.
EndRound(w) ==
    /\ pc[w] = "body"
    /\ steps_this_round[w] >= PollCutoff \/ my_frontier[w] = {}
    /\ steps_since_load_balancing' =
          [steps_since_load_balancing EXCEPT
             ![w] = IF @ + steps_this_round[w] < StepsBound
                    THEN @ + steps_this_round[w] ELSE StepsBound]
    /\ steps_this_round' = [steps_this_round EXCEPT ![w] = 0]
    /\ Goto(w, "loop")
    /\ UNCHANGED <<my_frontier, frontiers, cvars, svars, v, vdistance, arc, gpred_nbr>>

\* delete_min, and the load of is_expanded that skips old entries
Pop(w) ==
    /\ pc[w] = "body"
    /\ steps_this_round[w] < PollCutoff
    /\ \E e \in MinEntries(my_frontier[w]) :
          /\ my_frontier' = [my_frontier EXCEPT ![w] = @ \ {e}]
          /\ v' = [v EXCEPT ![w] = e.vertex]
          /\ Goto(w, IF is_expanded[e.vertex] THEN "body" ELSE "claim")
    /\ steps_this_round' = [steps_this_round EXCEPT ![w] = @ + 1]
    /\ UNCHANGED <<frontiers, steps_since_load_balancing, cvars, svars, vdistance, arc, gpred_nbr>>

\* Broken Claim: the outcome of the compare-exchange is ignored.
Claim_Unchecked(w) ==
    /\ pc[w] = "claim"
    /\ is_expanded' = [is_expanded EXCEPT ![v[w]] = TRUE]
    /\ Goto(w, IF v[w] = destination THEN "found" ELSE "dist")
    /\ UNCHANGED <<wvars, cvars, gpred, lvars>>

\* The compare-exchange that makes w the one expander of v
Claim(w) ==
    /\ pc[w] = "claim"
    /\ is_expanded' = [is_expanded EXCEPT ![v[w]] = TRUE]
    /\ Goto(w, CASE is_expanded[v[w]]    -> "body"
                 [] v[w] = destination /\ ~is_expanded[v[w]] -> "found"
                 [] OTHER                -> "dist")
    /\ UNCHANGED <<wvars, cvars, gpred, lvars>>

\* Broken ArcOrEnd: one arc too many.
ArcOrEnd_OneMore(w, j) ==
    IF j <= degree(v[w]) + 1
    THEN /\ arc' = [arc EXCEPT ![w] = j]
         /\ Goto(w, "relax")
         /\ UNCHANGED vdistance
    ELSE /\ arc' = [arc EXCEPT ![w] = 0]
         /\ vdistance' = [vdistance EXCEPT ![w] = 0]
         /\ Goto(w, "body")

\* The j-th arc of v is next, or the loop over the neighbours is over.
ArcOrEnd(w, j) ==
    IF j <= degree(v[w])
    THEN /\ arc' = [arc EXCEPT ![w] = j]
         /\ Goto(w, "relax")
         /\ UNCHANGED vdistance
    ELSE /\ arc' = [arc EXCEPT ![w] = 0]
         /\ vdistance' = [vdistance EXCEPT ![w] = 0]
         /\ Goto(w, "body")

\* The one read of the distance of v; g of v may still improve afterwards.
ReadDistance(w) ==
    /\ pc[w] = "dist"
    /\ IF degree(v[w]) > 0
       THEN /\ vdistance' = [vdistance EXCEPT ![w] = gpred[v[w]].distance]
            /\ arc' = [arc EXCEPT ![w] = 1]
            /\ Goto(w, "relax")
       ELSE Goto(w, "body") /\ UNCHANGED <<vdistance, arc>>
    /\ UNCHANGED <<wvars, cvars, svars, steps_this_round, v, gpred_nbr>>

\* Broken mine: the weight of the arc is forgotten.
mine_NoWeight(w) == [distance |-> vdistance[w], pred |-> v[w]]

nbr(w) == Neighbors[v[w]][arc[w]].vertex
mine(w) == [distance |-> Plus(vdistance[w], Neighbors[v[w]][arc[w]].weight),
            pred     |-> v[w]]

\* Broken Load: <= in place of <, a relaxation need not improve.
Load_NotStrict(w) ==
    /\ pc[w] = "relax"
    /\ IF mine(w).distance <= gpred[nbr(w)].distance
       THEN /\ gpred_nbr' = [gpred_nbr EXCEPT ![w] = gpred[nbr(w)]]
            /\ Goto(w, "cas")
            /\ UNCHANGED <<vdistance, arc>>
       ELSE ArcOrEnd(w, arc[w] + 1) /\ UNCHANGED gpred_nbr
    /\ UNCHANGED <<wvars, cvars, svars, steps_this_round, v>>

\* Load the neighbour's vertpack; go on to the next one unless ours is shorter.
Load(w) ==
    /\ pc[w] = "relax"
    /\ IF mine(w).distance < gpred[nbr(w)].distance
       THEN /\ gpred_nbr' = [gpred_nbr EXCEPT ![w] = gpred[nbr(w)]]
            /\ Goto(w, "cas")
            /\ UNCHANGED <<vdistance, arc>>
       ELSE ArcOrEnd(w, arc[w] + 1) /\ UNCHANGED gpred_nbr
    /\ UNCHANGED <<wvars, cvars, svars, steps_this_round, v>>

\* Broken Cas: a plain store, which may undo a better relaxation.
Cas_Store(w) ==
    /\ pc[w] = "cas"
    /\ gpred' = [gpred EXCEPT ![nbr(w)] = mine(w)]
    /\ Goto(w, "insert")
    /\ gpred_nbr' = [gpred_nbr EXCEPT ![w] = Unreached]
    /\ UNCHANGED <<wvars, cvars, is_expanded, steps_this_round, v, vdistance, arc>>

\* compare_exchange_weak; the build targets x86, where it fails only when the
\* word has changed.  On failure load again.
Cas(w) ==
    /\ pc[w] = "cas"
    /\ IF gpred[nbr(w)] = gpred_nbr[w]
       THEN /\ gpred' = [gpred EXCEPT ![nbr(w)] = mine(w)]
            /\ Goto(w, "insert")
       ELSE Goto(w, "relax") /\ UNCHANGED gpred
    /\ gpred_nbr' = [gpred_nbr EXCEPT ![w] = Unreached]
    /\ UNCHANGED <<wvars, cvars, is_expanded, steps_this_round, v, vdistance, arc>>

NewEntry(w) == [f |-> Plus(mine(w).distance, Heuristic[nbr(w)]), vertex |-> nbr(w)]

\* Broken Insert: a vertex that is already queued is not queued again under
\* its new distance.
Insert_Once(w) ==
    /\ pc[w] = "insert"
    /\ my_frontier' = IF is_expanded[nbr(w)] \/ \E e \in my_frontier[w] : e.vertex = nbr(w)
                      THEN my_frontier
                      ELSE [my_frontier EXCEPT ![w] = @ \cup {NewEntry(w)}]
    /\ ArcOrEnd(w, arc[w] + 1)
    /\ UNCHANGED <<frontiers, steps_since_load_balancing, cvars, svars,
                   steps_this_round, v, gpred_nbr>>

\* Broken Insert: the flag is read off the expanding vertex, which is set.
Insert_WrongFlag(w) ==
    /\ pc[w] = "insert"
    /\ my_frontier' = IF is_expanded[v[w]] THEN my_frontier
                      ELSE [my_frontier EXCEPT ![w] = @ \cup {NewEntry(w)}]
    /\ ArcOrEnd(w, arc[w] + 1)
    /\ UNCHANGED <<frontiers, steps_since_load_balancing, cvars, svars,
                   steps_this_round, v, gpred_nbr>>

\* The neighbour is queued unless somebody has expanded it.
Insert(w) ==
    /\ pc[w] = "insert"
    /\ my_frontier' = IF is_expanded[nbr(w)] THEN my_frontier
                      ELSE [my_frontier EXCEPT ![w] = @ \cup {NewEntry(w)}]
    /\ ArcOrEnd(w, arc[w] + 1)
    /\ UNCHANGED <<frontiers, steps_since_load_balancing, cvars, svars,
                   steps_this_round, v, gpred_nbr>>

WorkStep(w) ==
    \/ EndRound(w) \/ Pop(w) \/ Claim(w) \/ ReadDistance(w)
    \/ Load(w) \/ Cas(w) \/ Insert(w)

Step(w) ==
    \/ ProtocolStep(w) /\ UNCHANGED <<svars, lvars>>
    \/ WorkStep(w)

\* All workers have left: pwsa_pc returns the states to its caller.
Return == AllExited /\ UNCHANGED vars

Next == Return \/ \E w \in Worker : Step(w)

\* As in WorkItems: threads run, the leader is started, others may never be.
Fairness ==
    /\ \A w \in Worker : WF_vars(pc[w] # "start" /\ Step(w))
    /\ WF_vars(Start(leader) /\ UNCHANGED <<svars, lvars>>)

SafetySpec == Init /\ [][Next]_vars
Spec == SafetySpec /\ Fairness

------------------------------------------------------------------------------
(* The cost of the path that a search leaves behind, a reference *)

\* pathcost[n][x]: what the arcs from the source to x along the predecessors
\* cost, or -1 if n steps back from x do not reach the source
pathcost[n \in 0..Cardinality(Vertex)] ==
    [x \in Vertex |->
       IF x = source THEN 0
       ELSE IF n = 0 \/ gpred[x].pred = NoVertex THEN -1
       ELSE LET rest == pathcost[n - 1][gpred[x].pred]
            IN  IF rest = -1 THEN -1 ELSE arcWeight(gpred[x].pred, x) + rest]

------------------------------------------------------------------------------
WorkPc == {"claim", "dist", "relax", "cas", "insert"}

TypeOK ==
    /\ PTypeOK(Entry, ProtocolPc \cup WorkPc)
    /\ gpred \in [Vertex -> VertPack]
    /\ is_expanded \in [Vertex -> BOOLEAN]
    /\ steps_this_round \in [Worker -> 0..PollCutoff]
    /\ v \in [Worker -> Vertex]
    /\ vdistance \in [Worker -> Int]
    /\ arc \in [Worker -> Nat]
    /\ \A w \in Worker : pc[w] \in {"relax", "cas", "insert"} => arc[w] \in 1..degree(v[w])
    /\ gpred_nbr \in [Worker -> VertPack]

Expanding(w) == pc[w] \in {"dist", "relax", "cas", "insert"}

\* The search is a run of the abstract search: reads, stale distances and
\* lost races included, every visible change of the shared states is an
\* Expand or a Relax of SearchTree.
Tree == INSTANCE SearchTree
ImplementsTree == Tree!Spec

\* The predecessors of a reached vertex lead to the source, always.
PathsReachSource == Tree!PathsReachSource

\* When the destination is found its predecessors lead to the source, and the
\* arcs on the way cost, in the weights the search used, at most the g it found
\* (pwsa.hpp:124: that g may rest on a distance that has improved since).  In
\* class Graph this cost is what pathlen adds up and grid_main.cpp:123 prints,
\* its weight_between being the weight of the arc (MCAStar checks that);
\* LifeGraph::pathlen charges other rows, of which nothing is said here.
PathMeasured ==
    is_done => LET cost == pathcost[Cardinality(Vertex)][destination]
               IN  cost # -1 /\ cost <= gpred[destination].distance

\* No reached vertex is forgotten: until it is expanded, it is queued under
\* its current distance, or the worker that improved it last is about to look
\* whether to queue it, or a worker is about to claim it (pwsa.hpp:134-137:
\* the improvement and the insertion are not one atomic step).
NoVertexLost ==
    \A x \in Vertex : gpred[x].distance # IntMax /\ ~is_expanded[x] =>
       \E w \in Worker :
          \/ [f |-> Plus(gpred[x].distance, Heuristic[x]), vertex |-> x] \in Held(w)
          \/ pc[w] = "insert" /\ nbr(w) = x /\ mine(w) = gpred[x]
          \/ pc[w] = "claim" /\ v[w] = x

\* No work is done twice: no vertex is expanded by two workers, though it is
\* queued several times (pwsa.hpp:116-117), and no entry is held twice, so sets
\* of entries represent heaps.
NoDuplicateWork ==
    /\ \A u, w \in Worker : u # w =>
          /\ Expanding(u) /\ Expanding(w) => v[u] # v[w]
          /\ Held(u) \cap Held(w) = {}
    /\ \A w \in Worker : pc[w] = "insert" =>
          \A u \in Worker : NewEntry(w) \notin Held(u)

\* No distance leaves the range of int (pwsa_pcT exits with "negative g").
NoOverflow ==
    /\ \A x \in Vertex : gpred[x].distance \in 0..IntMax
    /\ \A w \in Worker : pc[w] \in {"relax", "cas", "insert"} =>
          vdistance[w] + Neighbors[v[w]][arc[w]].weight <= IntMax

\* If the destination can be reached at all it is found, however the workers
\* interleave, steal and race.
DestinationFound == destination \in Reachable => <>is_done

\* If it cannot, the search exhausts everything that can be reached, though no
\* worker ever learns that (no worker leaves the loop but by is_done).
Exhausts ==
    destination \notin Reachable =>
       <>(\A x \in Reachable : is_expanded[x])

==============================================================================
