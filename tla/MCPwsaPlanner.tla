---------------------------- MODULE MCPwsaPlanner ----------------------------
(***************************************************************************)
(* pwsaPlanner with arrays of 2, 4 and 8 states on a small graph.          *)
(***************************************************************************)
EXTENDS PwsaPlanner, SmallGraphs

CONSTANTS w1, w2

MCWorker == {w1, w2}
MCThread == MCWorker \cup {Main}

==============================================================================
