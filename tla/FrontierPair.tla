---------------------------- MODULE FrontierPair ----------------------------
(***************************************************************************)
(* What the users of Heap (src/src/shared/bin_heap.hpp) rely on: two       *)
(* frontiers, a worker's own and a mailbox, as collections of entries.     *)
(***************************************************************************)
EXTENDS Frontier

CONSTANTS Heap,   \* the two heaps
          Entry   \* records with a priority f

VARIABLE content  \* heap |-> the entries it holds

Init == content = [h \in Heap |-> {}]

Insert(h, e) ==
    /\ \A k \in Heap : e \notin content[k]
    /\ content' = [content EXCEPT ![h] = @ \cup {e}]

DeleteMin(h) ==
    \E e \in MinEntries(content[h]) : content' = [content EXCEPT ![h] = @ \ {e}]

Split(h, o) ==
    /\ h # o
    /\ content[o] = {}
    /\ \E T \in SplitParts(content[h]) :
          content' = [content EXCEPT ![h] = @ \ T, ![o] = T]

Swap(h, o) == content' = [content EXCEPT ![h] = content[o], ![o] = content[h]]

Next ==
    \/ \E h \in Heap, e \in Entry : Insert(h, e)
    \/ \E h \in Heap : DeleteMin(h)
    \/ \E h, o \in Heap : Split(h, o) \/ Swap(h, o)

Spec == Init /\ [][Next]_content

==============================================================================
