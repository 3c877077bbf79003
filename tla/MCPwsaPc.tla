------------------------------- MODULE MCPwsaPc -------------------------------
(***************************************************************************)
(* pwsa_pc on small graphs.                                                *)
(***************************************************************************)
EXTENDS PwsaPc, SmallGraphs

==============================================================================
