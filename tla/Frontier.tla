------------------------------- MODULE Frontier -------------------------------
(***************************************************************************)
(* A worker's frontier, the Heap of src/src/shared/bin_heap.hpp, as its    *)
(* users see it: a collection of entries with a priority in the field f.   *)
(* Which of several least entries delete_min returns, and which entries a  *)
(* split hands over, depends on the layout of the array and is left open.  *)
(***************************************************************************)
EXTENDS Integers

\* The entries delete_min may return
MinEntries(F) == {e \in F : \A x \in F : e.f <= x.f}

\* The parts that split(other) may move to the other heap.  The root goes to
\* the other heap, its left child stays, and a heap of fewer than two elements
\* moves nothing.
SplitParts(F) ==
    IF \A e, x \in F : e = x
    THEN {{}}
    ELSE {T \in SUBSET F : T # F /\ T \cap MinEntries(F) # {}}

==============================================================================
