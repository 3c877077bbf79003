----------------------------- MODULE MCWorkItems -----------------------------
(***************************************************************************)
(* A root with three children, so that what was stolen is stolen again;    *)
(* the last child is the target.                                           *)
(***************************************************************************)
EXTENDS WorkItems, TLC

MCRoot == [f |-> 1, id |-> 1]
MCItem == {MCRoot} \cup [f : {2}, id : {2, 3}] \cup [f : {3}, id : {4}]
MCChildren == [x \in MCItem |-> IF x = MCRoot THEN MCItem \ {x} ELSE {}]
MCTarget == [f |-> 3, id |-> 4]

==============================================================================
