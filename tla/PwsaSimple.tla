------------------------------ MODULE PwsaSimple ------------------------------
(***************************************************************************)
(* pwsa (src/src/pwsa.hpp), "simple_wPWSA*": pwsa_pc without the test that *)
(* a relaxation improves the neighbour.  The last compare-exchange wins,   *)
(* so distances may grow and the predecessors are no tree; what remains is *)
(* that the search expands each vertex once and misses none.               *)
(***************************************************************************)
EXTENDS PwsaPc

SimpleEntry == [f : Int, vertex : Vertex, from : Vertex]

SimpleInit ==
    /\ PInit({[f |-> Heuristic[source], vertex |-> source, from |-> source]})
    /\ gpred = InitGpred
    /\ is_expanded = [x \in Vertex |-> FALSE]
    /\ steps_this_round = [w \in Worker |-> 0]
    /\ v = [w \in Worker |-> source]
    /\ vdistance = [w \in Worker |-> 0]
    /\ arc = [w \in Worker |-> 0]
    /\ gpred_nbr = [w \in Worker |-> Unreached]

\* nbr_prev is loaded twice before the exchange.  The first value serves only
\* the loop condition, which compares it with itself.
SimpleLoad(w) ==
    /\ pc[w] = "relax"
    /\ gpred_nbr' = [gpred_nbr EXCEPT ![w] = gpred[nbr(w)]]
    /\ Goto(w, "cas")
    /\ UNCHANGED <<wvars, cvars, svars, steps_this_round, v, vdistance, arc>>

\* Broken SimpleCas: the exchange may not fail, and nothing is queued.
SimpleCas_Skips(w) ==
    /\ pc[w] = "cas"
    /\ gpred' = [gpred EXCEPT ![nbr(w)] = mine(w)]
    /\ ArcOrEnd(w, arc[w] + 1)
    /\ gpred_nbr' = [gpred_nbr EXCEPT ![w] = Unreached]
    /\ UNCHANGED <<wvars, cvars, is_expanded, steps_this_round, v>>

\* One attempt: whoever loses the race leaves the neighbour to the winner.
SimpleCas(w) ==
    /\ pc[w] = "cas"
    /\ IF gpred[nbr(w)] = gpred_nbr[w]
       THEN /\ gpred' = [gpred EXCEPT ![nbr(w)] = mine(w)]
            /\ Goto(w, "insert")
            /\ UNCHANGED <<vdistance, arc>>
       ELSE ArcOrEnd(w, arc[w] + 1) /\ UNCHANGED gpred
    /\ gpred_nbr' = [gpred_nbr EXCEPT ![w] = Unreached]
    /\ UNCHANGED <<wvars, cvars, is_expanded, steps_this_round, v>>

\* A vertex can be queued twice under one priority; the vertex it was queued
\* from, which is expanded once, tells the two entries apart.
SimpleNewEntry(w) == [f      |-> Plus(mine(w).distance, Heuristic[nbr(w)]),
                      vertex |-> nbr(w),
                      from   |-> v[w]]

\* Broken SimpleInsert: a neighbour that is queued is not queued again.
SimpleInsert_Once(w) ==
    /\ pc[w] = "insert"
    /\ my_frontier' = IF is_expanded[nbr(w)] \/ \E e \in my_frontier[w] : e.vertex = nbr(w)
                      THEN my_frontier
                      ELSE [my_frontier EXCEPT ![w] = @ \cup {SimpleNewEntry(w)}]
    /\ ArcOrEnd(w, arc[w] + 1)
    /\ UNCHANGED <<frontiers, steps_since_load_balancing, cvars, svars,
                   steps_this_round, v, gpred_nbr>>

SimpleInsert(w) ==
    /\ pc[w] = "insert"
    /\ my_frontier' = IF is_expanded[nbr(w)] THEN my_frontier
                      ELSE [my_frontier EXCEPT ![w] = @ \cup {SimpleNewEntry(w)}]
    /\ ArcOrEnd(w, arc[w] + 1)
    /\ UNCHANGED <<frontiers, steps_since_load_balancing, cvars, svars,
                   steps_this_round, v, gpred_nbr>>

SimpleStep(w) ==
    \/ ProtocolStep(w) /\ UNCHANGED <<svars, lvars>>
    \/ EndRound(w) \/ Pop(w) \/ Claim(w) \/ ReadDistance(w)
    \/ SimpleLoad(w) \/ SimpleCas(w) \/ SimpleInsert(w)

SimpleNext == Return \/ \E w \in Worker : SimpleStep(w)

SimpleFairness ==
    /\ \A w \in Worker : WF_vars(pc[w] # "start" /\ SimpleStep(w))
    /\ WF_vars(Start(leader) /\ UNCHANGED <<svars, lvars>>)

SimpleSafetySpec == SimpleInit /\ [][SimpleNext]_vars
SimpleSpec == SimpleSafetySpec /\ SimpleFairness

------------------------------------------------------------------------------
\* A neighbour that lost its insertion to a race is queued by the winner: every
\* reached vertex that nobody expanded is queued under its current distance and
\* predecessor, or about to be, or about to be claimed (pwsa.hpp:398-405).
SimpleNoVertexLost ==
    \A x \in Vertex : gpred[x].distance # IntMax /\ ~is_expanded[x] =>
       \E w \in Worker :
          \/ [f      |-> Plus(gpred[x].distance, Heuristic[x]),
              vertex |-> x,
              from   |-> gpred[x].pred] \in Held(w)
          \/ pc[w] = "insert" /\ nbr(w) = x /\ mine(w) = gpred[x]
          \/ pc[w] = "claim" /\ v[w] = x

==============================================================================
