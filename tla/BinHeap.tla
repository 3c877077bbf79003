------------------------------- MODULE BinHeap -------------------------------
(***************************************************************************)
(* Heap (src/src/shared/bin_heap.hpp): binary heaps in arrays, which are   *)
(* split level by level into the two subtrees of the root.  The loops of   *)
(* heapify_up_from and heapify_down_from take one step per iteration; each *)
(* heap has one user at a time, so nothing interleaves with them.          *)
(***************************************************************************)
EXTENDS Integers, Sequences, SequencesExt

CONSTANTS
    Heap,              \* a worker's frontier and a mailbox
    Priority, Value,   \* long priority, VALUE value
    InitialCapacity,   \* 4096 in the constructor
    LongMax            \* LONG_MAX, the priority of what is not there

ASSUME HeapAssumption ==
    /\ Priority \subseteq Int /\ InitialCapacity \in Nat /\ InitialCapacity > 0
    /\ \A p \in Priority : p < LongMax

VARIABLES
    values,     \* heap |-> values[0 .. n - 1], as a sequence
    capacity,   \* heap |-> the length of the allocated array
    pc,         \* "idle", or the loop that runs: "up" or "down"
    active,     \* the heap that loop works on
    curr        \* its position, counted from 0

vars == <<values, capacity, pc, active, curr>>

KV == [f : Priority, vertex : Value]

Init ==
    /\ values = [h \in Heap |-> <<>>]
    /\ capacity = [h \in Heap |-> InitialCapacity]
    /\ pc = "idle"
    /\ active = CHOOSE h \in Heap : TRUE
    /\ curr = 0

n(h) == Len(values[h])
parent(i) == (i - 1) \div 2
left_child(i) == 2 * i + 1
right_child(i) == 2 * i + 2
priority(h, i) == IF i >= n(h) THEN LongMax ELSE values[h][i + 1].f

\* Broken min_child: always the left one.
min_child_Left(h, i) == left_child(i)

min_child(h, i) ==
    IF priority(h, left_child(i)) < priority(h, right_child(i))
    THEN left_child(i) ELSE right_child(i)

\* values[i] and values[j] exchanged
Swapped(s, i, j) == [s EXCEPT ![i + 1] = s[j + 1], ![j + 1] = s[i + 1]]

\* insert makes room for one more before it writes
Room(len, cap) == IF len = cap THEN 2 * cap ELSE cap

------------------------------------------------------------------------------
Insert(h, e) ==
    /\ pc = "idle"
    /\ \A k \in Heap : ~ Contains(values[k], e)
    /\ capacity' = [capacity EXCEPT ![h] = Room(n(h), @)]
    /\ values' = [values EXCEPT ![h] = Append(@, e)]
    /\ pc' = "up" /\ active' = h /\ curr' = n(h)

HeapifyUp ==
    /\ pc = "up"
    /\ IF curr > 0 /\ priority(active, curr) < priority(active, parent(curr))
       THEN /\ values' = [values EXCEPT ![active] = Swapped(@, curr, parent(curr))]
            /\ curr' = parent(curr)
            /\ UNCHANGED pc
       ELSE pc' = "idle" /\ curr' = 0 /\ UNCHANGED values
    /\ UNCHANGED <<capacity, active>>

\* delete_min, and discard_min, which drops the result.  assert(n > 0)
DeleteMin(h) ==
    /\ pc = "idle"
    /\ n(h) > 0
    /\ values' = [values EXCEPT ![h] = Front(ReplaceAt(@, 1, Last(@)))]
    /\ pc' = "down" /\ active' = h /\ curr' = 0
    /\ UNCHANGED capacity

HeapifyDown ==
    /\ pc = "down"
    /\ IF \/ priority(active, curr) > priority(active, left_child(curr))
          \/ priority(active, curr) > priority(active, right_child(curr))
       THEN /\ values' = [values EXCEPT ![active] = Swapped(@, curr, min_child(active, curr))]
            /\ curr' = min_child(active, curr)
            /\ UNCHANGED pc
       ELSE pc' = "idle" /\ curr' = 0 /\ UNCHANGED values
    /\ UNCHANGED <<capacity, active>>

\* Broken Stays: the halves of every second level are exchanged.
Stays_Alternating(i) ==
    \E d \in 1..i + 1 : /\ 2^d <= i + 1
                        /\ i + 1 < 2^(d + 1)
                        /\ (i + 1 < 2^d + 2^(d - 1)) = (d % 2 = 1)

\* Position i > 0 is in the first half of its level: under the root's left child.
Stays(i) == \E d \in 1..i + 1 : 2^d <= i + 1 /\ i + 1 < 2^d + 2^(d - 1)

\* split(o): every level is cut in halves, then the root is inserted into o.
\* The array of o is replaced by one of n / 2 elements.  The mailbox of a thief
\* is empty (ParallelWhile, MailboxFree).  With n < 2 nothing happens.
Split(h, o) ==
    LET s     == values[h]
        below == [i \in 1..n(h) - 1 |-> i]
        take(part) == [k \in 1..Len(part) |-> s[part[k] + 1]]
        mine   == take(SelectSeq(below, Stays))
        theirs == take(SelectSeq(below, LAMBDA i : ~ Stays(i)))
    IN  /\ pc = "idle"
        /\ h # o /\ n(o) = 0
        /\ n(h) >= 2
        /\ values' = [values EXCEPT ![h] = mine, ![o] = Append(theirs, s[1])]
        /\ capacity' = [capacity EXCEPT ![o] = Room(Len(theirs), n(h) \div 2)]
        /\ pc' = "up" /\ active' = o /\ curr' = Len(theirs)

Swap(h, o) ==
    /\ pc = "idle"
    /\ values' = [values EXCEPT ![h] = values[o], ![o] = values[h]]
    /\ capacity' = [capacity EXCEPT ![h] = capacity[o], ![o] = capacity[h]]
    /\ UNCHANGED <<pc, active, curr>>

Next ==
    \/ \E h \in Heap, e \in KV : Insert(h, e)
    \/ \E h \in Heap : DeleteMin(h)
    \/ \E h, o \in Heap : Split(h, o) \/ Swap(h, o)
    \/ HeapifyUp
    \/ HeapifyDown

Spec == Init /\ [][Next]_vars

------------------------------------------------------------------------------
\* Heap order, everywhere but at the entry a running loop still moves, and no
\* entry beyond the array, the one a split shrinks included
\* (other.resize_bigger(m / 2), bin_heap.hpp:160).
HeapsSound ==
    \A h \in Heap :
       /\ n(h) <= capacity[h]
       /\ \A i \in 1..n(h) - 1 :
             \/ priority(h, parent(i)) <= priority(h, i)
             \/ h = active /\ pc = "up" /\ i = curr
             \/ h = active /\ pc = "down" /\ parent(i) = curr

\* Heaps are the collections their users take them for: delete_min yields a
\* least entry, a split loses and duplicates none.
Pair == INSTANCE FrontierPair WITH Entry <- KV,
                                   content <- [h \in Heap |-> ToSet(values[h])]
ImplementsFrontiers == Pair!Spec

==============================================================================
