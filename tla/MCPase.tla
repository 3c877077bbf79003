------------------------------- MODULE MCPase -------------------------------
(***************************************************************************)
(* pase on small graphs.                                                   *)
(***************************************************************************)
EXTENDS Pase, SmallGraphs

==============================================================================
