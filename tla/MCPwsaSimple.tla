----------------------------- MODULE MCPwsaSimple -----------------------------
(***************************************************************************)
(* pwsa on small graphs.                                                   *)
(***************************************************************************)
EXTENDS PwsaSimple, SmallGraphs

==============================================================================
