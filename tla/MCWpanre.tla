------------------------------- MODULE MCWpanre -------------------------------
(***************************************************************************)
(* wpanre on small graphs.                                                 *)
(***************************************************************************)
EXTENDS Wpanre, SmallGraphs

==============================================================================
