------------------------------- MODULE MCPAra -------------------------------
(***************************************************************************)
(* The parallel ARA* on small graphs.                                      *)
(***************************************************************************)
EXTENDS PAra, SmallGraphs

==============================================================================
