-------------------------------- MODULE Wpanre --------------------------------
(***************************************************************************)
(* wpanre (src/src/wpanre.hpp), "wPA*NRE": parallel weighted A* with one   *)
(* shared frontier under a lock, each vertex expanded once.                *)
(*                                                                         *)
(* g, pred and the frontier are written under the lock only, but g is also *)
(* read without it, so the relaxations of one critical section are steps   *)
(* of their own.  The pop touches nothing that is read outside the lock.   *)
(***************************************************************************)
EXTENDS ShortestPaths, Frontier

CONSTANTS Worker, leader, Free   \* Free: nobody holds the lock

ASSUME WorkerAssumption == leader \in Worker /\ Free \notin Worker

VARIABLES
    gpred,         \* states[_].g and states[_].pred; pred of the source is -1
    is_expanded,   \* states[_].is_expanded
    frontier,      \* the shared heap
    lock,          \* who holds it
    is_done,
    pc, v, vdist, arc   \* locals of body

svars == <<gpred, is_expanded>>
vars == <<gpred, is_expanded, frontier, lock, is_done, pc, v, vdist, arc>>

Goto(w, l) == pc' = [pc EXCEPT ![w] = l]

Init ==
    /\ gpred = [InitGpred EXCEPT ![source] = [distance |-> 0, pred |-> NoVertex]]
    /\ is_expanded = [x \in Vertex |-> FALSE]
    /\ frontier = {[f |-> Heuristic[source], vertex |-> source]}
    /\ lock = Free
    /\ is_done = FALSE
    /\ pc = [w \in Worker |-> "start"]
    /\ v = [w \in Worker |-> source]
    /\ vdist = [w \in Worker |-> 0]
    /\ arc = [w \in Worker |-> 0]

\* The scheduler gives the body to worker w.
Start(w) ==
    /\ pc[w] = "start"
    /\ Goto(w, "loop")
    /\ UNCHANGED <<gpred, is_expanded, frontier, lock, is_done, v, vdist, arc>>

Loop(w) ==
    /\ pc[w] = "loop"
    /\ Goto(w, IF is_done THEN "exit" ELSE "pop")
    /\ UNCHANGED <<gpred, is_expanded, frontier, lock, is_done, v, vdist, arc>>

\* The first critical section: delete_min, or nothing is there and the worker
\* sleeps before it tries again.
Pop(w) ==
    /\ pc[w] = "pop"
    /\ lock = Free
    /\ \/ frontier = {} /\ Goto(w, "loop") /\ UNCHANGED <<frontier, v>>
       \/ \E e \in MinEntries(frontier) :
             /\ frontier' = frontier \ {e}
             /\ v' = [v EXCEPT ![w] = e.vertex]
             /\ Goto(w, "load")
    /\ UNCHANGED <<gpred, is_expanded, lock, is_done, vdist, arc>>

\* The load of is_expanded that skips old entries
LoadExpanded(w) ==
    /\ pc[w] = "load"
    /\ Goto(w, IF is_expanded[v[w]] THEN "loop" ELSE "claim")
    /\ UNCHANGED <<gpred, is_expanded, frontier, lock, is_done, v, vdist, arc>>

\* Broken Claim: a plain store in place of the compare-exchange.
Claim_Store(w) ==
    /\ pc[w] = "claim"
    /\ is_expanded' = [is_expanded EXCEPT ![v[w]] = TRUE]
    /\ Goto(w, IF v[w] = destination THEN "found" ELSE "dist")
    /\ UNCHANGED <<gpred, frontier, lock, is_done, v, vdist, arc>>

Claim(w) ==
    /\ pc[w] = "claim"
    /\ is_expanded' = [is_expanded EXCEPT ![v[w]] = TRUE]
    /\ Goto(w, CASE is_expanded[v[w]] -> "loop"
                 [] ~is_expanded[v[w]] /\ v[w] = destination -> "found"
                 [] OTHER -> "dist")
    /\ UNCHANGED <<gpred, frontier, lock, is_done, v, vdist, arc>>

Found(w) ==
    /\ pc[w] = "found"
    /\ is_done' = TRUE
    /\ Goto(w, "exit")
    /\ UNCHANGED <<gpred, is_expanded, frontier, lock, v, vdist, arc>>

\* The read of g without the lock: a relaxation by another worker may be
\* under way.
ReadDistance(w) ==
    /\ pc[w] = "dist"
    /\ vdist' = [vdist EXCEPT ![w] = gpred[v[w]].distance]
    /\ Goto(w, "lock")
    /\ UNCHANGED <<gpred, is_expanded, frontier, lock, is_done, v, arc>>

Lock(w) ==
    /\ pc[w] = "lock"
    /\ lock = Free
    /\ lock' = w
    /\ arc' = [arc EXCEPT ![w] = 1]
    /\ Goto(w, "relax")
    /\ UNCHANGED <<gpred, is_expanded, frontier, is_done, v, vdist>>

\* Broken Relax: whatever is found shorter or equal is overwritten.
Relax_NotStrict(w) ==
    /\ pc[w] = "relax"
    /\ arc[w] <= degree(v[w])
    /\ LET nbr     == Neighbors[v[w]][arc[w]].vertex
           nbrdist == Plus(vdist[w], Neighbors[v[w]][arc[w]].weight)
       IN  IF nbrdist <= gpred[nbr].distance
           THEN /\ frontier' = frontier \cup {[f |-> Plus(nbrdist, Heuristic[nbr]), vertex |-> nbr]}
                /\ gpred' = [gpred EXCEPT ![nbr] = [distance |-> nbrdist, pred |-> v[w]]]
           ELSE UNCHANGED <<frontier, gpred>>
    /\ arc' = [arc EXCEPT ![w] = @ + 1]
    /\ UNCHANGED <<is_expanded, lock, is_done, pc, v, vdist>>

\* Broken Relax: the improved vertex is not queued.
Relax_NoInsert(w) ==
    /\ pc[w] = "relax"
    /\ arc[w] <= degree(v[w])
    /\ LET nbr     == Neighbors[v[w]][arc[w]].vertex
           nbrdist == Plus(vdist[w], Neighbors[v[w]][arc[w]].weight)
       IN  IF nbrdist < gpred[nbr].distance
           THEN gpred' = [gpred EXCEPT ![nbr] = [distance |-> nbrdist, pred |-> v[w]]]
           ELSE UNCHANGED gpred
    /\ arc' = [arc EXCEPT ![w] = @ + 1]
    /\ UNCHANGED <<is_expanded, frontier, lock, is_done, pc, v, vdist>>

\* The callback of for_each_neighbor_of, under the lock
Relax(w) ==
    /\ pc[w] = "relax"
    /\ arc[w] <= degree(v[w])
    /\ LET nbr     == Neighbors[v[w]][arc[w]].vertex
           nbrdist == Plus(vdist[w], Neighbors[v[w]][arc[w]].weight)
       IN  IF nbrdist < gpred[nbr].distance
           THEN /\ frontier' = frontier \cup {[f |-> Plus(nbrdist, Heuristic[nbr]), vertex |-> nbr]}
                /\ gpred' = [gpred EXCEPT ![nbr] = [distance |-> nbrdist, pred |-> v[w]]]
           ELSE UNCHANGED <<frontier, gpred>>
    /\ arc' = [arc EXCEPT ![w] = @ + 1]
    /\ UNCHANGED <<is_expanded, lock, is_done, pc, v, vdist>>

Unlock(w) ==
    /\ pc[w] = "relax"
    /\ arc[w] > degree(v[w])
    /\ lock' = Free
    /\ arc' = [arc EXCEPT ![w] = 0]
    /\ vdist' = [vdist EXCEPT ![w] = 0]
    /\ Goto(w, "loop")
    /\ UNCHANGED <<gpred, is_expanded, frontier, is_done, v>>

Step(w) ==
    \/ Start(w) \/ Loop(w) \/ Pop(w) \/ LoadExpanded(w) \/ Claim(w) \/ Found(w)
    \/ ReadDistance(w) \/ Lock(w) \/ Relax(w) \/ Unlock(w)

\* parallel_while joins all workers and wpanre returns.
Return == (\A w \in Worker : pc[w] = "exit") /\ UNCHANGED vars

Next == Return \/ \E w \in Worker : Step(w)

\* Threads run, and one that waits for the mutex gets it when it stays free:
\* those that find no work sleep in between (hiccup).  Nothing obliges the
\* scheduler to start a worker other than the leader.
Fairness ==
    /\ \A w \in Worker : WF_vars(pc[w] # "start" /\ Step(w))
    /\ WF_vars(Start(leader))

SafetySpec == Init /\ [][Next]_vars
Spec == SafetySpec /\ Fairness

------------------------------------------------------------------------------
\* The result with the source as its own predecessor, which nobody reads
rooted == [gpred EXCEPT ![source] = [distance |-> gpred[source].distance, pred |-> source]]

\* Every visible change of the states is a step of the abstract search, though
\* the expander reads g outside the lock (wpanre.hpp:98).
Tree == INSTANCE SearchTree WITH gpred <- rooted
ImplementsTree == Tree!Spec

\* Each vertex is expanded once: a reached one that is not expanded is in the
\* frontier under its current distance, or a worker has popped it and will try
\* to claim it (entries pop out between the lock of line 83 and the claim of
\* line 91), and no two workers expand the same (wpanre.hpp:90-91).
ExpandedOnce ==
    /\ \A x \in Vertex : gpred[x].distance # IntMax /\ ~is_expanded[x] =>
          \/ [f |-> Plus(gpred[x].distance, Heuristic[x]), vertex |-> x] \in frontier
          \/ \E w \in Worker : pc[w] \in {"load", "claim"} /\ v[w] = x
    /\ \A u, w \in Worker : /\ u # w
                            /\ pc[u] \in {"dist", "lock", "relax"}
                            /\ pc[w] \in {"dist", "lock", "relax"}
                            => v[u] # v[w]

\* A destination that can be reached is found.
DestinationFound == destination \in Reachable => <>is_done

==============================================================================
