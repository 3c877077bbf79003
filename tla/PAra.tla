--------------------------------- MODULE PAra ---------------------------------
(***************************************************************************)
(* The parallel ARA* planner pARAPlanner                                   *)
(* (src/libsbpl/src/planners/pARAStar/pARA.cpp), searching forward: one    *)
(* construction, one call of replan, one destruction, as its test does.    *)
(*                                                                         *)
(* Search runs iterations of a weighted A* under a decreasing weight eps.  *)
(* In an iteration every worker takes from the queue OPEN a state that no  *)
(* state before it, and none in expansion, could still improve much, and   *)
(* expands it.  A state that is improved after its expansion waits in      *)
(* INCONS for the next iteration.                                          *)
(*                                                                         *)
(* The code outside the mutex is as it is: main resets iteration_done and  *)
(* sets the queue's copy of eps, a worker clears being_expanded and stores *)
(* improve_path_result, main walks the path, all without it.               *)
(***************************************************************************)
EXTENDS ThreadPool, ShortestPaths, SequencesExt

CONSTANTS
    Estimate,                      \* u |-> x |-> fastHeuristic(u, x)
    InitialEps, DecEps, FinalEps,  \* of ReplanParams
    FirstSolution                  \* the values of return_first_solution tried

ASSUME PAraAssumption ==
    /\ Estimate \in [Vertex -> [Vertex -> Nat]]
    /\ InitialEps \in Nat /\ DecEps \in Nat \ {0} /\ FinalEps \in 1..InitialEps
    /\ FirstSolution \subseteq BOOLEAN

VARIABLES
    gpred,                \* g and best_parent of the states
    v, iteration_closed,  \* the other fields of pARAState
    open,                 \* the multimap of myHeap: entries in order
    incons,               \* the vector of states; in_incons tells its members
    being_expanded,
    iteration_done, improve_path_result, search_iteration,
    eps, heap_eps,        \* the planner's weight and the queue's copy of it
    eps_satisfied,
    first,                \* params.return_first_solution
    expired,              \* the time allotted is over
    ret,                  \* what ImprovePath returns to each worker
    arc,                  \* the successor UpdateSuccs is at
    at,                   \* where GetSearchPath is
    answer                \* what replan returns

threads == <<wpc, sleeping_threads, planner_ok>>
states == <<gpred, v, iteration_closed>>
lists == <<open, incons>>
wlocals == <<being_expanded, ret, arc>>
outcome == <<iteration_done, improve_path_result>>
weights == <<search_iteration, eps, eps_satisfied, heap_eps>>
query == <<first, at, answer, expired>>
vars == <<poolvars, states, lists, wlocals, outcome, weights, query>>

INFINITECOST == IntMax
g(x) == gpred[x].distance
Key(d, x) == d + eps * Heuristic[x]

\* GetState creates the states with these values when they are first met.
Init ==
    /\ PoolInit
    /\ gpred = [InitGpred EXCEPT ![source] = [distance |-> 0, pred |-> NoVertex]]
    /\ v = [x \in Vertex |-> INFINITECOST]
    /\ iteration_closed = [x \in Vertex |-> -1]
    /\ open = <<>> /\ incons = <<>>
    /\ being_expanded = [w \in Worker |-> NoVertex]
    /\ iteration_done = FALSE
    /\ improve_path_result = -1
    /\ search_iteration = 0
    /\ eps = InitialEps /\ heap_eps = InitialEps
    /\ eps_satisfied = INFINITECOST
    /\ first \in FirstSolution
    /\ expired = FALSE
    /\ ret = [w \in Worker |-> -1]
    /\ arc = [w \in Worker |-> 0]
    /\ at = destination
    /\ answer = "none"

\* myHeap::insert: the entry that x->iter points to goes, if there is one, and
\* the new one stands behind its equals.
Inserted(q, x, key) ==
    LET I    == {i \in DOMAIN q : q[i].vertex = x}
        rest == IF I = {} THEN q ELSE RemoveAt(q, CHOOSE i \in I : TRUE)
        k    == Cardinality({i \in DOMAIN rest : rest[i].f <= key})
    IN  InsertAt(rest, k + 1, [f |-> key, vertex |-> x])

outOfTime == ~first /\ expired

\* The clock; with return_first_solution nobody looks at it.
Expire ==
    /\ ~first /\ ~expired
    /\ expired' = TRUE
    /\ UNCHANGED <<poolvars, states, lists, wlocals, outcome, weights, first, at, answer>>

------------------------------------------------------------------------------
(* The main thread *)

\* The constructor returns; replan calls initializeSearch.
Replan ==
    /\ mpc = "built" /\ MutexFree
    /\ open' = <<[f |-> InitialEps * Heuristic[source], vertex |-> source]>>
    /\ MGoto("loop")
    /\ UNCHANGED <<threads, states, incons, wlocals, outcome, weights, query>>

\* The loop condition of Search, then iteration_done = false
SearchLoop ==
    /\ mpc = "loop"
    /\ IF eps_satisfied > FinalEps /\ ~outOfTime
       THEN iteration_done' = FALSE /\ MGoto("setEps")
       ELSE UNCHANGED iteration_done /\ MGoto("goal")
    /\ UNCHANGED <<threads, states, lists, wlocals, improve_path_result, weights, query>>

SetEps ==
    /\ mpc = "setEps"
    /\ heap_eps' = eps
    /\ MGoto("launch")
    /\ UNCHANGED <<threads, states, lists, wlocals, outcome, search_iteration, eps,
                   eps_satisfied, query>>

\* prepareNextSearchIteration begins with a smaller weight.
NextEps == IF eps - DecEps < FinalEps THEN FinalEps ELSE eps - DecEps

\* Main holds the mutex from its wakeup to the end of the loop's body, which ends
\* with prepareNextSearchIteration if there is a next iteration.  ImprovePath
\* returns 0 for `no solution' and 2 for `out of time'; here 2 is `no solution'.
Collect ==
    /\ mpc = "notified" /\ MutexFree
    /\ eps_satisfied' = IF improve_path_result = 1 THEN eps ELSE eps_satisfied
    /\ CASE improve_path_result = 2 ->
              /\ answer' = "false" /\ MGoto("delete")
              /\ UNCHANGED eps
         [] improve_path_result # 2 /\ (first \/ improve_path_result = 0) ->
              MGoto("goal") /\ UNCHANGED <<answer, eps>>
         [] OTHER ->
              eps' = NextEps /\ MGoto("prepare") /\ UNCHANGED answer
    /\ UNCHANGED <<threads, states, lists, wlocals, outcome, search_iteration, heap_eps,
                   first, at, expired>>

\* Broken Requeue: the states in INCONS are forgotten.
Requeue_Clears ==
    /\ mpc = "prepare" /\ incons # <<>>
    /\ incons' = <<>>
    /\ UNCHANGED <<poolvars, states, open, wlocals, outcome, weights, query>>

\* The loop of prepareNextSearchIteration: INCONS is emptied into OPEN, last one
\* first, under the new weight; the other entries keep their keys.
Requeue ==
    /\ mpc = "prepare" /\ incons # <<>>
    /\ open' = Inserted(open, Last(incons), Key(g(Last(incons)), Last(incons)))
    /\ incons' = Front(incons)
    /\ UNCHANGED <<poolvars, states, wlocals, outcome, weights, query>>

NextIteration ==
    /\ mpc = "prepare" /\ incons = <<>>
    /\ search_iteration' = search_iteration + 1
    /\ MGoto("loop")
    /\ UNCHANGED <<threads, states, lists, wlocals, outcome, eps, eps_satisfied, heap_eps, query>>

\* After the loop; the mutex is free again.
TestGoal ==
    /\ mpc = "goal"
    /\ IF g(destination) = INFINITECOST
       THEN answer' = "false" /\ MGoto("delete")
       ELSE UNCHANGED answer /\ MGoto("path")
    /\ UNCHANGED <<threads, states, lists, wlocals, outcome, weights, first, at, expired>>

\* GetSearchPath, one parent at a time; it stops early where there is none.
Walk ==
    /\ mpc = "path"
    /\ IF at = source \/ gpred[at].pred = NoVertex \/ g(at) = INFINITECOST
       THEN answer' = "true" /\ MGoto("delete") /\ UNCHANGED at
       ELSE at' = gpred[at].pred /\ UNCHANGED <<answer, mpc>>
    /\ UNCHANGED <<threads, states, lists, wlocals, outcome, weights, first, expired>>

MainStep ==
    \/ Replan \/ SearchLoop \/ SetEps \/ Collect \/ Requeue \/ NextIteration \/ TestGoal \/ Walk
    \/ /\ Launch \/ Destroy \/ Join
       /\ UNCHANGED <<states, lists, wlocals, outcome, weights, query>>

------------------------------------------------------------------------------
(* ImprovePath *)

\* The states that are in OPEN, and the state of an entry
InOpen == {open[i].vertex : i \in DOMAIN open}

\* y cannot improve x by more than the factor eps allows.
independent(x, y) == g(x) - g(y) <= heap_eps * Estimate[x][y]

valid(k) ==
    /\ open[k].f < INFINITECOST
    /\ \A w \in Worker : being_expanded[w] # NoVertex =>
          independent(open[k].vertex, being_expanded[w])
    /\ \A i \in 1..k - 1 : independent(open[k].vertex, open[i].vertex)

Spent == open # <<>> => open[1].f >= INFINITECOST

\* No entry is left and nobody will make one.
Exhausted == Spent /\ \A w \in Worker : being_expanded[w] = NoVertex

\* Worker w has the mutex and looks for a state: in a new round of
\* ImprovePath, or in the loop of myHeap::remove.
Searching(w) ==
    /\ MutexFree /\ ~iteration_done
    /\ (wpc[w] = "improve" /\ ~outOfTime) \/ wpc[w] = "spin"

\* Somebody ended the iteration.
Leave(w) ==
    /\ wpc[w] = "improve" /\ iteration_done /\ MutexFree
    /\ WGoto(w, "sleep")
    /\ UNCHANGED <<mpc, sleeping_threads, planner_ok, states, lists, wlocals, outcome,
                   weights, query>>

\* What ImprovePath returns after its loop
Verdict ==
    CASE g(destination) = INFINITECOST /\ Spent -> 0
      [] open # <<>> /\ g(destination) > open[1].f -> 2
      [] OTHER -> 1

\* No state: time is over, the queue is exhausted, or the iteration was ended
\* while the worker was in remove.
GiveUp(w) ==
    /\ MutexFree
    /\ \/ wpc[w] = "improve" /\ ~iteration_done /\ outOfTime
       \/ wpc[w] = "spin" /\ iteration_done
       \/ Searching(w) /\ Exhausted
    /\ iteration_done' = TRUE
    /\ ret' = [ret EXCEPT ![w] = Verdict]
    /\ WGoto(w, "result")
    /\ UNCHANGED <<mpc, sleeping_threads, planner_ok, states, lists, being_expanded, arc,
                   improve_path_result, weights, query>>

\* Nothing can be expanded now, or being_expanded changes during the scan:
\* remove gives the mutex up and tries again.
Spin(w) ==
    /\ Searching(w) /\ ~Exhausted
    /\ (\E u \in Worker : wpc[u] = "clear") \/ ~\E k \in DOMAIN open : valid(k)
    /\ WGoto(w, "spin")
    /\ UNCHANGED <<mpc, sleeping_threads, planner_ok, states, lists, wlocals, outcome,
                   weights, query>>

\* Entry k is the first valid one; remove takes it out.
Removes(w, k) ==
    /\ Searching(w) /\ ~Exhausted
    /\ valid(k) /\ \A i \in 1..k - 1 : ~valid(i)
    /\ open' = RemoveAt(open, k)

\* The goal is as near as the state just removed: the iteration is over.  The
\* state is not put back.
Finish(w, k) ==
    /\ Removes(w, k)
    /\ g(destination) <= open[k].f
    /\ iteration_done' = TRUE
    /\ ret' = [ret EXCEPT ![w] = 1]
    /\ WGoto(w, "result")
    /\ UNCHANGED <<mpc, sleeping_threads, planner_ok, states, incons, being_expanded, arc,
                   improve_path_result, weights, query>>

Expand(w, k) ==
    LET x == open[k].vertex
    IN  /\ Removes(w, k)
        /\ g(destination) > open[k].f
        /\ v' = [v EXCEPT ![x] = g(x)]
        /\ iteration_closed' = [iteration_closed EXCEPT ![x] = search_iteration]
        /\ being_expanded' = [being_expanded EXCEPT ![w] = x]
        /\ WGoto(w, "update")
        /\ UNCHANGED <<mpc, sleeping_threads, planner_ok, gpred, incons, ret, arc, outcome,
                       weights, query>>

UpdateSuccs(w) ==
    /\ wpc[w] = "update" /\ MutexFree
    /\ arc' = [arc EXCEPT ![w] = 1]
    /\ WGoto(w, "locked")
    /\ UNCHANGED <<mpc, sleeping_threads, planner_ok, states, lists, being_expanded, ret,
                   outcome, weights, query>>

\* The head of the arc w is at, and its distance over that arc
succ(w) == Neighbors[being_expanded[w]][arc[w]].vertex
dist(w) == v[being_expanded[w]] + Neighbors[being_expanded[w]][arc[w]].weight

Relaxing(w) ==
    /\ wpc[w] = "locked" /\ arc[w] <= degree(being_expanded[w])
    /\ arc' = [arc EXCEPT ![w] = @ + 1]
    /\ UNCHANGED <<poolvars, v, iteration_closed, being_expanded, ret, outcome, weights, query>>

\* Broken Relax: a closed state that is improved is queued again.
Relax_Reopens(w) ==
    /\ Relaxing(w)
    /\ IF g(succ(w)) > dist(w)
       THEN /\ gpred' = [gpred EXCEPT ![succ(w)] =
                           [distance |-> dist(w), pred |-> being_expanded[w]]]
            /\ open' = Inserted(open, succ(w), Key(dist(w), succ(w)))
       ELSE UNCHANGED <<gpred, open>>
    /\ UNCHANGED incons

\* Broken Relax: the parent is set although the distance is no better.
Relax_Reparents(w) ==
    /\ Relaxing(w)
    /\ gpred' = [gpred EXCEPT ![succ(w)] =
                    [distance |-> IF dist(w) < @.distance THEN dist(w) ELSE @.distance,
                     pred     |-> being_expanded[w]]]
    /\ open' = IF g(succ(w)) > dist(w) THEN Inserted(open, succ(w), Key(dist(w), succ(w)))
               ELSE open
    /\ UNCHANGED incons

\* One iteration of the loop of UpdateSuccs
Relax(w) ==
    /\ Relaxing(w)
    /\ IF g(succ(w)) > dist(w)
       THEN /\ gpred' = [gpred EXCEPT ![succ(w)] =
                           [distance |-> dist(w), pred |-> being_expanded[w]]]
            /\ IF iteration_closed[succ(w)] # search_iteration
               THEN /\ open' = Inserted(open, succ(w), Key(dist(w), succ(w)))
                    /\ UNCHANGED incons
               ELSE /\ incons' = IF Contains(incons, succ(w)) THEN incons
                                 ELSE Append(incons, succ(w))
                    /\ UNCHANGED open
       ELSE UNCHANGED <<gpred, lists>>

Unlock(w) ==
    /\ wpc[w] = "locked" /\ arc[w] > degree(being_expanded[w])
    /\ arc' = [arc EXCEPT ![w] = 0]
    /\ WGoto(w, "clear")
    /\ UNCHANGED <<mpc, sleeping_threads, planner_ok, states, lists, being_expanded, ret,
                   outcome, weights, query>>

\* Broken Clear: the state stays in being_expanded.
Clear_Keeps(w) ==
    /\ wpc[w] = "clear"
    /\ WGoto(w, "improve")
    /\ UNCHANGED <<mpc, sleeping_threads, planner_ok, states, lists, wlocals, outcome,
                   weights, query>>

\* being_expanded is cleared without the mutex.
Clear(w) ==
    /\ wpc[w] = "clear"
    /\ being_expanded' = [being_expanded EXCEPT ![w] = NoVertex]
    /\ WGoto(w, "improve")
    /\ UNCHANGED <<mpc, sleeping_threads, planner_ok, states, lists, ret, arc, outcome,
                   weights, query>>

\* The result is stored without the mutex; the last one stays.
StoreResult(w) ==
    /\ wpc[w] = "result"
    /\ improve_path_result' = ret[w]
    /\ ret' = [ret EXCEPT ![w] = -1]
    /\ WGoto(w, "sleep")
    /\ UNCHANGED <<mpc, sleeping_threads, planner_ok, states, lists, being_expanded, arc,
                   iteration_done, weights, query>>

WorkerStep(w) ==
    \/ Leave(w) \/ GiveUp(w) \/ Spin(w) \/ UpdateSuccs(w) \/ Relax(w)
    \/ Unlock(w) \/ Clear(w) \/ StoreResult(w)
    \/ \E k \in DOMAIN open : Finish(w, k) \/ Expand(w, k)
    \/ /\ Sleep(w) \/ Wake(w) \/ Check(w)
       /\ UNCHANGED <<states, lists, wlocals, outcome, weights, query>>

\* The planner is deleted, or its destructor waits for a worker that sleeps.
Rest ==
    /\ mpc \in {"join", "gone"}
    /\ \A w \in Worker : wpc[w] \in {"waiting", "exited"}
    /\ UNCHANGED vars

Next == MainStep \/ Expire \/ Rest \/ \E w \in Worker : WorkerStep(w)

\* Threads run, and a thread that wants the mutex gets it in the end.
Fairness == WF_vars(MainStep) /\ \A w \in Worker : WF_vars(WorkerStep(w))

SafetySpec == Init /\ [][Next]_vars
Spec == SafetySpec /\ Fairness

------------------------------------------------------------------------------
Inconsistent(x) == g(x) < v[x]
Listed(x) == x \in InOpen \/ Contains(incons, x)

\* OPEN holds each state once, and only states that are inconsistent and were
\* not expanded in this iteration, except while the next one is prepared;
\* INCONS holds the inconsistent ones that were (pARA.cpp:348 "we only allow
\* one expansion per search iteration", and the error message at 488).
QueuesSound ==
    /\ \A i, j \in DOMAIN open : i # j => open[i].vertex # open[j].vertex
    /\ \A x \in InOpen :
          /\ Inconsistent(x)
          /\ iteration_closed[x] # search_iteration \/ mpc = "prepare"
    /\ \A i \in DOMAIN incons :
          /\ Inconsistent(incons[i]) /\ iteration_closed[incons[i]] = search_iteration
          /\ \A j \in 1..i - 1 : incons[j] # incons[i]

\* A state that was improved is expanded or stays in OPEN or INCONS, across
\* iterations too; the one exception is the state whose removal ends an
\* iteration (pARA.cpp:480-485).
OnlyLastIsDropped ==
    [][\A x \in Vertex :
          Inconsistent(x) /\ Inconsistent(x)' /\ Listed(x) /\ ~Listed(x)'
             => ~iteration_done /\ iteration_done']_vars

\* To the abstract search the start state is its own parent, and a state counts
\* as expanded once it was.
rooted == [gpred EXCEPT ![source] = [distance |-> gpred[source].distance, pred |-> source]]
expanded == [x \in Vertex |-> v[x] # INFINITECOST]
Tree == INSTANCE SearchTree WITH gpred <- rooted, is_expanded <- expanded

\* Every change of g and best_parent is a step of the abstract search.
ImplementsTree == Tree!Spec

\* replan returns, whatever wakes up late.
SearchReturns == <>(answer # "none")

\* Neither heuristic overestimates an arc.
Consistent ==
    /\ Heuristic[destination] = 0
    /\ \A x \in Vertex : Estimate[x][x] = 0
    /\ \A u \in Vertex : \A j \in 1..degree(u) :
          LET a == Neighbors[u][j]
          IN  /\ Heuristic[u] <= a.weight + Heuristic[a.vertex]
              /\ \A x \in Vertex : Estimate[x][u] <= a.weight + Estimate[x][a.vertex]

\* The bound that Search reports for its solution holds: with a consistent
\* heuristic the path costs at most eps_satisfied times the least cost
\* (planner.h:77: the default final_eps is 1.0, "optimal solution").
BoundHonoured ==
    Consistent /\ answer = "true" /\ eps_satisfied # INFINITECOST
       => g(destination) <= eps_satisfied * Shortest[destination]

==============================================================================
