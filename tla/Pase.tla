--------------------------------- MODULE Pase ---------------------------------
(***************************************************************************)
(* pase (src/src/pase.hpp), "wPA*SE": a worker expands a vertex only if no *)
(* vertex before it in the queue could still improve it.                   *)
(*                                                                         *)
(* The queue M is a multimap ordered by priority, equal ones in order of   *)
(* insertion.  Workers keep iterators into it across critical sections.    *)
(* find_independent polls is_done once per entry and relaxations are seen  *)
(* by unlocked reads of g, so both loops take one step per iteration.      *)
(***************************************************************************)
EXTENDS ShortestPaths, SequencesExt

CONSTANTS Worker, leader,
          Free,       \* nobody holds the lock
          Estimate    \* u |-> v |-> heuristic(u, v)

ASSUME PaseAssumption ==
    /\ leader \in Worker /\ Free \notin Worker
    /\ Estimate \in [Vertex -> [Vertex -> Nat]]

VARIABLES
    gpred,            \* states[_].g and states[_].pred; pred of the source is -1
    is_expanded, being_expanded,
    M,                \* the queue, a sequence of entries
    lock, is_done,
    pc,
    cursor,           \* where find_independent is in M
    itv,              \* the entry the worker's iterator points to
    vdist, arc

qvars == <<M, lock, is_done>>
lvars == <<cursor, itv, vdist, arc>>
vars == <<gpred, is_expanded, being_expanded, qvars, pc, lvars>>

EntryOf(d, x) == [f |-> Plus(d, Estimate[x][destination]), vertex |-> x]

Goto(w, l) == pc' = [pc EXCEPT ![w] = l]

Init ==
    /\ gpred = [InitGpred EXCEPT ![source] = [distance |-> 0, pred |-> NoVertex]]
    /\ is_expanded = [x \in Vertex |-> FALSE]
    /\ being_expanded = [x \in Vertex |-> FALSE]
    /\ M = <<EntryOf(0, source)>>
    /\ lock = Free
    /\ is_done = FALSE
    /\ pc = [w \in Worker |-> "start"]
    /\ cursor = [w \in Worker |-> 0]
    /\ itv = [w \in Worker |-> EntryOf(0, source)]
    /\ vdist = [w \in Worker |-> 0]
    /\ arc = [w \in Worker |-> 0]

\* multimap::insert, behind the entries of equal priority
Inserted(s, e) ==
    LET k == Cardinality({i \in DOMAIN s : s[i].f <= e.f}) IN InsertAt(s, k + 1, e)

\* multimap::erase of the entry an iterator points to
Erased(s, e) == RemoveAt(s, CHOOSE i \in DOMAIN s : s[i] = e)

\* The scheduler gives the body to worker w.
Start(w) ==
    /\ pc[w] = "start"
    /\ Goto(w, "loop")
    /\ UNCHANGED <<gpred, is_expanded, being_expanded, qvars, lvars>>

Loop(w) ==
    /\ pc[w] = "loop"
    /\ Goto(w, IF is_done THEN "exit" ELSE "find")
    /\ UNCHANGED <<gpred, is_expanded, being_expanded, qvars, lvars>>

------------------------------------------------------------------------------
(* find_independent *)

FindLock(w) ==
    /\ pc[w] = "find"
    /\ lock = Free
    /\ lock' = w
    /\ cursor' = [cursor EXCEPT ![w] = 1]
    /\ Goto(w, "scan")
    /\ UNCHANGED <<gpred, is_expanded, being_expanded, M, is_done, itv, vdist, arc>>

\* Nothing was found: M.end() is returned, the worker sleeps and tries again.
ScanEnd(w) ==
    /\ pc[w] = "scan"
    /\ is_done \/ cursor[w] > Len(M)
    /\ lock' = Free
    /\ cursor' = [cursor EXCEPT ![w] = 0]
    /\ Goto(w, "loop")
    /\ UNCHANGED <<gpred, is_expanded, being_expanded, M, is_done, itv, vdist, arc>>

Scanning(w) == pc[w] = "scan" /\ ~is_done /\ cursor[w] <= Len(M)

\* Broken ScanErase: entries of vertices in expansion are taken for old ones.
ScanErase_Early(w) ==
    /\ Scanning(w)
    /\ LET x == M[cursor[w]].vertex IN is_expanded[x] \/ being_expanded[x]
    /\ M' = RemoveAt(M, cursor[w])
    /\ UNCHANGED <<gpred, is_expanded, being_expanded, lock, is_done, pc, lvars>>

\* An entry of an expanded vertex is removed on the way.
ScanErase(w) ==
    /\ Scanning(w)
    /\ is_expanded[M[cursor[w]].vertex]
    /\ M' = RemoveAt(M, cursor[w])
    /\ UNCHANGED <<gpred, is_expanded, being_expanded, lock, is_done, pc, lvars>>

\* Broken valid: whatever nobody expands yet will do.
valid_Any(k) == ~being_expanded[M[k].vertex]

\* Nothing before position k can improve the vertex there.
valid(k) ==
    LET x == M[k].vertex
    IN  /\ ~being_expanded[x]
        /\ \A i \in 1..k - 1 :
              Plus(gpred[M[i].vertex].distance, Estimate[M[i].vertex][x]) >= gpred[x].distance

\* The entry is taken: it stays in M until its vertex is expanded.
ScanClaim(w) ==
    /\ Scanning(w)
    /\ ~is_expanded[M[cursor[w]].vertex]
    /\ valid(cursor[w])
    /\ being_expanded' = [being_expanded EXCEPT ![M[cursor[w]].vertex] = TRUE]
    /\ itv' = [itv EXCEPT ![w] = M[cursor[w]]]
    /\ Goto(w, IF M[cursor[w]].vertex = destination THEN "found" ELSE "dist")
    /\ lock' = Free
    /\ cursor' = [cursor EXCEPT ![w] = 0]
    /\ UNCHANGED <<gpred, is_expanded, M, is_done, vdist, arc>>

ScanNext(w) ==
    /\ Scanning(w)
    /\ ~is_expanded[M[cursor[w]].vertex]
    /\ ~valid(cursor[w])
    /\ cursor' = [cursor EXCEPT ![w] = @ + 1]
    /\ UNCHANGED <<gpred, is_expanded, being_expanded, qvars, pc, itv, vdist, arc>>

------------------------------------------------------------------------------
(* The expansion of *itv *)

v(w) == itv[w].vertex

Found(w) ==
    /\ pc[w] = "found"
    /\ is_done' = TRUE
    /\ Goto(w, "exit")
    /\ UNCHANGED <<gpred, is_expanded, being_expanded, M, lock, lvars>>

\* The read of g without the lock
ReadDistance(w) ==
    /\ pc[w] = "dist"
    /\ vdist' = [vdist EXCEPT ![w] = gpred[v(w)].distance]
    /\ Goto(w, "lock")
    /\ UNCHANGED <<gpred, is_expanded, being_expanded, qvars, cursor, itv, arc>>

Lock(w) ==
    /\ pc[w] = "lock"
    /\ lock = Free
    /\ lock' = w
    /\ arc' = [arc EXCEPT ![w] = 1]
    /\ Goto(w, "relax")
    /\ UNCHANGED <<gpred, is_expanded, being_expanded, M, is_done, cursor, itv, vdist>>

\* Broken Relax: <= in place of <.
Relax_NotStrict(w) ==
    /\ pc[w] = "relax"
    /\ arc[w] <= degree(v(w))
    /\ LET nbr     == Neighbors[v(w)][arc[w]].vertex
           nbrdist == Plus(vdist[w], Neighbors[v(w)][arc[w]].weight)
       IN  IF nbrdist <= gpred[nbr].distance
           THEN /\ gpred' = [gpred EXCEPT ![nbr] = [distance |-> nbrdist, pred |-> v(w)]]
                /\ M' = Inserted(M, EntryOf(nbrdist, nbr))
           ELSE UNCHANGED <<gpred, M>>
    /\ arc' = [arc EXCEPT ![w] = @ + 1]
    /\ UNCHANGED <<is_expanded, being_expanded, lock, is_done, pc, cursor, itv, vdist>>

\* Broken Relax: the improved vertex is not queued.
Relax_NoInsert(w) ==
    /\ pc[w] = "relax"
    /\ arc[w] <= degree(v(w))
    /\ LET nbr     == Neighbors[v(w)][arc[w]].vertex
           nbrdist == Plus(vdist[w], Neighbors[v(w)][arc[w]].weight)
       IN  IF nbrdist < gpred[nbr].distance
           THEN gpred' = [gpred EXCEPT ![nbr] = [distance |-> nbrdist, pred |-> v(w)]]
           ELSE UNCHANGED gpred
    /\ arc' = [arc EXCEPT ![w] = @ + 1]
    /\ UNCHANGED <<is_expanded, being_expanded, qvars, pc, cursor, itv, vdist>>

\* The callback of for_each_neighbor_of, under the lock
Relax(w) ==
    /\ pc[w] = "relax"
    /\ arc[w] <= degree(v(w))
    /\ LET nbr     == Neighbors[v(w)][arc[w]].vertex
           nbrdist == Plus(vdist[w], Neighbors[v(w)][arc[w]].weight)
       IN  IF nbrdist < gpred[nbr].distance
           THEN /\ gpred' = [gpred EXCEPT ![nbr] = [distance |-> nbrdist, pred |-> v(w)]]
                /\ M' = Inserted(M, EntryOf(nbrdist, nbr))
           ELSE UNCHANGED <<gpred, M>>
    /\ arc' = [arc EXCEPT ![w] = @ + 1]
    /\ UNCHANGED <<is_expanded, being_expanded, lock, is_done, pc, cursor, itv, vdist>>

\* The end of the critical section: the vertex is expanded, its entry erased.
Finish(w) ==
    /\ pc[w] = "relax"
    /\ arc[w] > degree(v(w))
    /\ is_expanded' = [is_expanded EXCEPT ![v(w)] = TRUE]
    /\ M' = Erased(M, itv[w])
    /\ lock' = Free
    /\ arc' = [arc EXCEPT ![w] = 0]
    /\ vdist' = [vdist EXCEPT ![w] = 0]
    /\ Goto(w, "loop")
    /\ UNCHANGED <<gpred, being_expanded, is_done, cursor, itv>>

Step(w) ==
    \/ Start(w) \/ Loop(w)
    \/ FindLock(w) \/ ScanEnd(w) \/ ScanErase(w) \/ ScanClaim(w) \/ ScanNext(w)
    \/ Found(w) \/ ReadDistance(w) \/ Lock(w) \/ Relax(w) \/ Finish(w)

\* parallel_while joins all workers and pase returns.
Return == (\A w \in Worker : pc[w] = "exit") /\ UNCHANGED vars

Next == Return \/ \E w \in Worker : Step(w)

\* Threads run, and a thread that waits for the mutex gets it in the end, for
\* those that find nothing sleep before they ask again (hiccup).  Nothing
\* obliges the scheduler to start a worker other than the leader.
Fairness ==
    /\ \A w \in Worker : WF_vars(pc[w] # "start" /\ Step(w)) /\ SF_vars(Lock(w))
    /\ \A w \in Worker : SF_vars(FindLock(w))
    /\ WF_vars(Start(leader))

SafetySpec == Init /\ [][Next]_vars
Spec == SafetySpec /\ Fairness

------------------------------------------------------------------------------
Holding(w) == pc[w] \in {"dist", "lock", "relax", "found"}

\* An iterator stays valid while its worker holds it: nobody erases the entry,
\* though every scan erases entries (pase.hpp:105, 166).
IteratorsValid == \A w \in Worker : Holding(w) => \E i \in DOMAIN M : M[i] = itv[w]

\* To the abstract search the source is its own predecessor, and a vertex counts
\* as expanded from the moment it is claimed.
rooted == [gpred EXCEPT ![source] = [distance |-> gpred[source].distance, pred |-> source]]
Tree == INSTANCE SearchTree WITH gpred <- rooted, is_expanded <- being_expanded

\* Every visible change of the states is a step of the abstract search.
ImplementsTree == Tree!Spec

\* h never overestimates an arc, and the estimate for a vertex itself is 0.
Consistent ==
    /\ \A x \in Vertex : Estimate[x][x] = 0
    /\ \A u, x \in Vertex : \A j \in 1..degree(u) :
          Estimate[u][x] <= Neighbors[u][j].weight + Estimate[Neighbors[u][j].vertex][x]

\* What the independence test is for: with a consistent heuristic a vertex is
\* claimed only when its g is the length of a shortest path, whatever the
\* other workers are still expanding.
ClaimedAreOptimal ==
    Consistent => \A x \in Vertex : being_expanded[x] => gpred[x].distance = Shortest[x]

\* A destination that can be reached is found.
DestinationFound == destination \in Reachable => <>is_done

==============================================================================
