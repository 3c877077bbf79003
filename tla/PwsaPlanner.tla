----------------------------- MODULE PwsaPlanner -----------------------------
(***************************************************************************)
(* The SBPL planner pwsaPlanner                                            *)
(* (src/libsbpl/src/planners/PWSA/pwsaplanner.cpp) and the search it       *)
(* launches, the pwsa_pc of include/sbpl/planners/pwsa.h: the wPWSA* of    *)
(* PwsaPc, but its states live in a table that grows under the search      *)
(* (UbVec), and the path is put together from it afterwards.               *)
(*                                                                         *)
(* Composed here: the planner's main thread and its interface, the         *)
(* workers' relaxations, and GetState step by step.  The frontiers and how *)
(* work moves between them are abstracted to one set of queued ids from    *)
(* which any worker takes any id; ParallelWhile models them in full.       *)
(***************************************************************************)
EXTENDS UbVec

CONSTANTS
    Worker,
    Main     \* the thread that calls replan

\* pwsa_pc starts at least one worker.
ASSUME ThreadsAssumption ==
    /\ Main \notin Worker /\ Thread = Worker \cup {Main}
    /\ Worker # {}

VARIABLES
    start_state_id, goal_state_id,
    pc,        \* where each thread is outside GetState
    queued,    \* the ids in the frontiers
    is_done,
    v, arc,    \* of each worker: the vertex it expands, the arc it is at,
    dist,      \* vdistance
    seen,      \* and gpred_nbr
    path,      \* wholePathIds, from the goal
    solcost,
    answer     \* what replan returned last; -1 before

workvars == <<queued, is_done, v, arc, dist, seen>>
ids == <<start_state_id, goal_state_id>>
result == <<path, solcost, answer>>
vars == <<uvars, ids, pc, workvars, result>>

Init ==
    /\ UInit
    /\ start_state_id = NoVertex /\ goal_state_id = NoVertex
    /\ pc = [t \in Thread |-> IF t = Main THEN "idle" ELSE "off"]
    /\ queued = {} /\ is_done = FALSE
    /\ v = [w \in Worker |-> NoVertex]
    /\ arc = [w \in Worker |-> 0]
    /\ dist = [w \in Worker |-> 0]
    /\ seen = [w \in Worker |-> NewState.gpred]
    /\ path = <<>> /\ solcost = 0
    /\ answer = -1

Goto(t, l) == pc' = [pc EXCEPT ![t] = l]

\* Thread t is at l and not in GetState.
At(t, l) == pc[t] = l /\ upc[t] = "out"

\* t has its pointer.
gpredAt(t) == mem[ptr[t]].gpred

------------------------------------------------------------------------------
(* The caller and replan *)

\* One search is modelled: after it the caller names no new start or goal.
Searched == path # <<>>
set_start ==
    /\ At(Main, "idle") /\ ~Searched
    /\ start_state_id' = source
    /\ UNCHANGED <<uvars, goal_state_id, pc, workvars, result>>

set_goal ==
    /\ At(Main, "idle") /\ ~Searched
    /\ goal_state_id' = destination
    /\ UNCHANGED <<uvars, start_state_id, pc, workvars, result>>

\* replan without a start or a goal
Refuse ==
    /\ At(Main, "idle")
    /\ start_state_id = NoVertex \/ goal_state_id = NoVertex
    /\ answer' = 0
    /\ UNCHANGED <<uvars, ids, pc, workvars, path, solcost>>

\* replan goes on to initializeSearch: goal_state = GetState(goal_state_id), ...
Replan ==
    /\ At(Main, "idle")
    /\ start_state_id # NoVertex /\ goal_state_id # NoVertex
    /\ Call(Main, goal_state_id)
    /\ Goto(Main, "goal")
    /\ UNCHANGED <<ids, workvars, result>>

\* ... start_state = GetState(start_state_id), ...
InitStart ==
    /\ At(Main, "goal")
    /\ Call(Main, start_state_id)
    /\ Goto(Main, "start")
    /\ UNCHANGED <<ids, workvars, result>>

\* ... and only then EnsureHeuristicsUpdated
EnsureHeuristicsUpdated ==
    /\ At(Main, "start")
    /\ updated' = TRUE
    /\ Goto(Main, "run")
    /\ UNCHANGED <<vecs, init, mem, upc, id, ptr, ids, workvars, result>>

\* pwsa_pc stores the source, queues it and starts the workers.
Launch ==
    /\ At(Main, "run")
    /\ mem' = [mem EXCEPT ![ptr[Main]].gpred = [distance |-> 0, pred |-> start_state_id]]
    /\ queued' = {start_state_id}
    /\ pc' = [t \in Thread |-> IF t = Main THEN "join" ELSE "loop"]
    /\ UNCHANGED <<vecs, init, upc, id, ptr, updated, ids, is_done, v, arc, dist, seen, result>>

\* All workers left: GetState(goal_state_id) for the test in Search.
JoinWorkers ==
    /\ At(Main, "join")
    /\ \A w \in Worker : pc[w] = "off"
    /\ Call(Main, goal_state_id)
    /\ Goto(Main, "test")
    /\ UNCHANGED <<ids, workvars, result>>

\* The search failed, or GetSearchPath starts at the goal.
TestGoal ==
    /\ At(Main, "test")
    /\ IF gpredAt(Main).distance = IntMax
       THEN Goto(Main, "return") /\ UNCHANGED path
       ELSE Goto(Main, "walk") /\ path' = <<goal_state_id>>
    /\ UNCHANGED <<uvars, ids, workvars, solcost, answer>>

\* The cost of the cheapest arc from u to x
actioncost(u, x) ==
    Min({Neighbors[u][j].weight : j \in {k \in 1..degree(u) : Neighbors[u][k].vertex = x}})

Parentless == gpredAt(Main).pred = NoVertex \/ gpredAt(Main).distance = IntMax

\* One parent further; the ids of the call are at the end of path.
Walk ==
    /\ At(Main, "walk")
    /\ Last(path) # start_state_id /\ ~Parentless
    /\ LET u == gpredAt(Main).pred
       IN  /\ solcost' = solcost + actioncost(u, Last(path))
           /\ path' = Append(path, u)
           /\ Call(Main, u)
    /\ UNCHANGED <<ids, pc, workvars, answer>>

\* Broken WalkEnd: the path stops one state early.
WalkEnd_Early ==
    /\ At(Main, "walk")
    /\ Last(path) = start_state_id \/ gpredAt(Main).pred = start_state_id
    /\ Goto(Main, "return")
    /\ UNCHANGED <<uvars, ids, workvars, result>>

\* The start, or a state without a parent: the path ends there.
WalkEnd ==
    /\ At(Main, "walk")
    /\ Last(path) = start_state_id \/ Parentless
    /\ Goto(Main, "return")
    /\ UNCHANGED <<uvars, ids, workvars, result>>

\* replan forgets start and goal; a caller has to set both again.
Return ==
    /\ At(Main, "return")
    /\ start_state_id' = NoVertex /\ goal_state_id' = NoVertex
    /\ answer' = IF path = <<>> THEN 0 ELSE 1
    /\ Goto(Main, "idle")
    /\ UNCHANGED <<uvars, workvars, path, solcost>>

------------------------------------------------------------------------------
(* do_work *)

\* delete_min, then vState = GetState(v)
Pop(w) ==
    /\ At(w, "loop")
    /\ \E x \in queued :
          /\ queued' = queued \ {x}
          /\ Call(w, x)
    /\ Goto(w, "claim")
    /\ UNCHANGED <<ids, is_done, v, arc, dist, seen, result>>

\* Somebody found the goal.
Leave(w) ==
    /\ At(w, "loop") /\ is_done
    /\ Goto(w, "off")
    /\ UNCHANGED <<uvars, ids, workvars, result>>

\* The load and the exchange of is_expanded; the flag never goes back, so
\* the two are one step.
Claim(w) ==
    /\ At(w, "claim")
    /\ IF mem[ptr[w]].is_expanded
       THEN Goto(w, "loop") /\ UNCHANGED <<mem, is_done>>
       ELSE /\ mem' = [mem EXCEPT ![ptr[w]].is_expanded = TRUE]
            /\ IF id[w] = goal_state_id
               THEN is_done' = TRUE /\ Goto(w, "off")
               ELSE UNCHANGED is_done /\ Goto(w, "distance")
    /\ UNCHANGED <<vecs, init, upc, id, ptr, updated, ids, queued, v, arc, dist, seen, result>>

\* vdistance, and for_each_neighbor_of begins.
ReadDistance(w) ==
    /\ At(w, "distance")
    /\ dist' = [dist EXCEPT ![w] = gpredAt(w).distance]
    /\ v' = [v EXCEPT ![w] = id[w]]
    /\ arc' = [arc EXCEPT ![w] = 1]
    /\ Goto(w, "arc")
    /\ UNCHANGED <<uvars, ids, queued, is_done, seen, result>>

\* nbrState = GetState(nbr), or the arcs are done.
NextArc(w) ==
    /\ At(w, "arc")
    /\ IF arc[w] <= degree(v[w])
       THEN Call(w, Neighbors[v[w]][arc[w]].vertex) /\ Goto(w, "load") /\ UNCHANGED arc
       ELSE Goto(w, "loop") /\ arc' = [arc EXCEPT ![w] = 0] /\ UNCHANGED uvars
    /\ UNCHANGED <<ids, queued, is_done, v, dist, seen, result>>

mine(w) == [distance |-> Plus(dist[w], Neighbors[v[w]][arc[w]].weight), pred |-> v[w]]

Load(w) ==
    /\ At(w, "load")
    /\ seen' = [seen EXCEPT ![w] = gpredAt(w)]
    /\ IF mine(w).distance < gpredAt(w).distance
       THEN Goto(w, "cas") /\ UNCHANGED arc
       ELSE Goto(w, "arc") /\ arc' = [arc EXCEPT ![w] = @ + 1]
    /\ UNCHANGED <<uvars, ids, queued, is_done, v, dist, result>>

\* Broken Cas: gpred is stored without comparing it.
Cas_Store(w) ==
    /\ At(w, "cas")
    /\ mem' = [mem EXCEPT ![ptr[w]].gpred = mine(w)]
    /\ Goto(w, "insert")
    /\ UNCHANGED <<vecs, init, upc, id, ptr, updated, ids, workvars, result>>

\* compare_exchange_weak; after a failure gpred is loaded again.
Cas(w) ==
    /\ At(w, "cas")
    /\ IF gpredAt(w) = seen[w]
       THEN mem' = [mem EXCEPT ![ptr[w]].gpred = mine(w)] /\ Goto(w, "insert")
       ELSE UNCHANGED mem /\ Goto(w, "load")
    /\ UNCHANGED <<vecs, init, upc, id, ptr, updated, ids, workvars, result>>

\* The state is queued under mine.distance + heuristic(nbrState).
Insert(w) ==
    /\ At(w, "insert")
    /\ queued' = IF mem[ptr[w]].is_expanded THEN queued ELSE queued \cup {id[w]}
    /\ arc' = [arc EXCEPT ![w] = @ + 1]
    /\ Goto(w, "arc")
    /\ UNCHANGED <<uvars, ids, is_done, v, dist, seen, result>>

------------------------------------------------------------------------------
InGetState(t) == GetStateStep(t) /\ UNCHANGED <<ids, pc, workvars, result>>

MainStep ==
    \/ InGetState(Main) \/ InitStart \/ EnsureHeuristicsUpdated \/ Launch
    \/ JoinWorkers \/ TestGoal \/ Walk \/ WalkEnd \/ Return

\* A worker without work asks around, one without its array spins.
Busy ==
    /\ \E w \in Worker : \/ At(w, "loop") /\ queued = {}
                         \/ upc[w] = "hammer" /\ init[logI(w)] = 0
    /\ UNCHANGED vars

CallerStep == set_start \/ set_goal \/ Refuse \/ Replan

WorkerStep(w) ==
    \/ InGetState(w) \/ Pop(w) \/ Leave(w) \/ Claim(w) \/ ReadDistance(w)
    \/ NextArc(w) \/ Load(w) \/ Cas(w) \/ Insert(w)

Next == CallerStep \/ MainStep \/ Busy \/ \E w \in Worker : WorkerStep(w)

\* The threads run; what the caller does is its own affair.
Fairness == WF_vars(MainStep) /\ \A w \in Worker : WF_vars(WorkerStep(w))

SafetySpec == Init /\ [][Next]_vars
Spec == SafetySpec /\ Fairness

------------------------------------------------------------------------------
\* The state of vertex x as its address leads to it
StateOf(x) == IF Exists(x) THEN mem[Where(x)] ELSE NewState
Launched == pc[Main] \notin {"idle", "goal", "start", "run"} \/ Searched

\* Whatever the table does meanwhile, the states in it change as in the abstract
\* search: one state per id, never reset and never seen half made.
Tree == INSTANCE SearchTree
          WITH gpred <- IF Launched THEN [x \in Vertex |-> StateOf(x).gpred] ELSE InitGpred,
               is_expanded <- [x \in Vertex |-> StateOf(x).is_expanded]
ImplementsTree == Tree!Spec

\* Every priority of the search rests on an estimate for the goal of this call:
\* "ensure heuristics are up-to-date" (pwsaplanner.cpp:156), before it starts.
HeuristicFresh == \A w \in Worker : At(w, "insert") => mem[ptr[w]].h = "fresh"

\* A plan leads over arcs from the start to the goal and costs no more than
\* the g-value replan prints for the goal.
PathReported ==
    answer = 1 =>
       /\ path[1] = destination /\ Last(path) = source
       /\ \A k \in 1..Len(path) - 1 :
             \E i \in 1..degree(path[k + 1]) : Neighbors[path[k + 1]][i].vertex = path[k]
       /\ solcost <= StateOf(destination).gpred.distance

\* A search that was started ends with a plan.
PlanReturns == At(Main, "goal") ~> answer = 1

==============================================================================
