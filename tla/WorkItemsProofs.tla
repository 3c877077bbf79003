--------------------------- MODULE WorkItemsProofs ---------------------------
(***************************************************************************)
(* parallel_while_pwsa neither loses nor duplicates work, for every number *)
(* of workers, every tree of items and every cutoff.                       *)
(***************************************************************************)
EXTENDS WorkItems, ParallelWhileProofs

TypeOK == PTypeOK(Item, ProtocolPc) /\ taken \subseteq Item

\* What was created so far: the root, and the children of what was processed
Created == {Root} \cup UNION {Children[x] : x \in taken \ {Target}}

\* Only what was created is processed.
TakenCreated == taken \subseteq Created

\* The properties of the run rest on this invariant.
IInv == TypeOK /\ PInv /\ TakenCreated /\ Conservation

------------------------------------------------------------------------------
\* At the start the root is with the leader.
LEMMA InitIInv == Init => IInv
<1> SUFFICES ASSUME Init PROVE IInv
  OBVIOUS
<1> USE WorkerAssumption, ItemAssumption
<1>1. TypeOK
  <2>1. {Root} \in SUBSET Item
    OBVIOUS
  <2>2. my_frontier \in [Worker -> SUBSET Item] /\ frontiers \in [Worker -> SUBSET Item]
    BY <2>1 DEF Init, PInit
  <2>3. steps_since_load_balancing \in [Worker -> 0..StepsBound]
    BY DEF Init, PInit, StepsBound
  <2>4. pc \in [Worker -> ProtocolPc]
    BY DEF Init, PInit, ProtocolPc
  <2>5. /\ requests \in [Worker -> Worker \cup {Waiting, Blocked}]
        /\ other \in [Worker -> Worker]
        /\ answers \in [Worker -> Answer]
        /\ is_done \in BOOLEAN
        /\ taken = {}
    BY DEF Init, PInit
  <2> QED
    BY <2>2, <2>3, <2>4, <2>5 DEF TypeOK, PTypeOK
<1>2. PInv
  BY InitPInv DEF Init
<1>3. TakenCreated
  BY DEF Init, TakenCreated
<1>4. Conservation
  <2>1. \A u \in Worker : Held(u) = IF u = leader THEN {Root} ELSE {}
    BY DEF Init, PInit, Held
  <2>2. Pending = {Root}
    BY DEF Init, Pending
  <2>3. UNION {Held(u) : u \in Worker} = {Root}
    BY <2>1
  <2>4. \A u \in Worker : my_frontier[u] \cap frontiers[u] = {}
    BY DEF Init, PInit
  <2> QED
    BY <2>1, <2>2, <2>3, <2>4 DEF Conservation
<1> QED
  BY <1>1, <1>2, <1>3, <1>4 DEF IInv

\* The two parts of Conservation: the work is what is pending, and held once.
LEMMA ConservationParts ==
    Conservation <=> UNION {Held(w) : w \in Worker} = Pending /\ HeldOnce
BY DEF Conservation, HeldOnce

\* A step of the protocol
LEMMA ProtocolIInv ==
    ASSUME IInv, NEW w \in Worker, ProtocolStep(w), UNCHANGED taken
    PROVE  IInv'
<1>1. PTypeOK(Item, ProtocolPc)
  BY DEF IInv, TypeOK
<1>2. TypeOK'
  BY <1>1, ProtocolPTypeOK DEF IInv, TypeOK
<1>3. PInv'
  BY <1>1, ProtocolPInv DEF IInv
<1>4. MailboxFree
  BY <1>1, MailboxFreeFromInv DEF IInv, PInv
<1>5. /\ UNION {Held(u)' : u \in Worker} = UNION {Held(u) : u \in Worker}
      /\ HeldOnce => HeldOnce'
  BY <1>1, <1>4, ProtocolMoves
<1>6. Pending' = Pending
  BY DEF Pending
<1>7. (UNION {Held(u) : u \in Worker} = Pending)' /\ HeldOnce'
  BY <1>5, <1>6, ConservationParts DEF IInv
<1>8. Conservation'
  BY <1>7 DEF Conservation, HeldOnce
<1>9. TakenCreated'
  BY DEF IInv, TakenCreated, Created
<1> QED
  BY <1>2, <1>3, <1>8, <1>9 DEF IInv

\* An item is replaced by its children, which nobody has seen before.
LEMMA BodyIInv ==
    ASSUME IInv, NEW w \in Worker, Body(w)
    PROVE  IInv'
<1> USE ItemAssumption
<1>1. PICK x \in MinEntries(my_frontier[w]) :
         /\ taken' = taken \cup {x}
         /\ IF x = Target
            THEN /\ my_frontier' = [my_frontier EXCEPT ![w] = @ \ {x}]
                 /\ Goto(w, "found")
                 /\ UNCHANGED steps_since_load_balancing
            ELSE /\ my_frontier' = [my_frontier EXCEPT ![w] = (@ \ {x}) \cup Children[x]]
                 /\ steps_since_load_balancing' =
                       [steps_since_load_balancing EXCEPT
                          ![w] = IF @ < StepsBound THEN @ + 1 ELSE @]
                 /\ \/ Goto(w, "loop")
                    \/ my_frontier'[w] # {} /\ UNCHANGED pc
  BY DEF Body
<1>2. pc[w] = "body" /\ UNCHANGED <<frontiers, cvars>>
  BY DEF Body
<1>3. x \in my_frontier[w] /\ x \in Item
  BY <1>1 DEF MinEntries, IInv, TypeOK, PTypeOK
<1>a. PTypeOK(Item, ProtocolPc)
  BY DEF IInv, TypeOK
<1> DEFINE new == IF x = Target THEN {} ELSE Children[x]
<1>4. my_frontier' = [my_frontier EXCEPT ![w] = (@ \ {x}) \cup new]
  BY <1>1
<1>5. new \subseteq Item
  BY <1>3
<1>6. TypeOK'
  <2>1. my_frontier' \in [Worker -> SUBSET Item]
    BY <1>a, <1>4, <1>5 DEF PTypeOK
  <2>2. pc' \in [Worker -> ProtocolPc]
    BY <1>a, <1>1 DEF PTypeOK, Goto, ProtocolPc
  <2>3. steps_since_load_balancing' \in [Worker -> 0..StepsBound]
    BY <1>a, <1>1, WorkerAssumption DEF PTypeOK, StepsBound
  <2>4. taken' \subseteq Item
    BY <1>1, <1>3 DEF IInv, TypeOK
  <2> QED
    BY <1>a, <1>2, <2>1, <2>2, <2>3, <2>4 DEF TypeOK, PTypeOK, cvars
<1>7. PInv'
  <2>1. \E l : l \notin ProtocolPc \ {"body", "loop", "found"} /\ Goto(w, l)
    BY <1>a, <1>1, <1>2 DEF Goto, ProtocolPc, PTypeOK
  <2>2. \A u \in Worker \ {w} : my_frontier'[u] = my_frontier[u]
    BY <1>a, <1>4 DEF PTypeOK
  <2>3. BodyStep(w)
    BY <1>2, <2>1, <2>2 DEF BodyStep
  <2> QED
    BY <1>a, <2>3, BodyPInv DEF IInv
<1> HIDE DEF new
<1>8. /\ x \in Created /\ x \notin taken
      /\ \A u \in Worker : Held(u) \subseteq Created /\ Held(u) \cap taken = {}
  <2>1. \A u \in Worker : Held(u) \subseteq Pending
    BY DEF IInv, Conservation
  <2>2. Pending = Created \ taken
    BY DEF Pending, Created
  <2>3. x \in Held(w)
    BY <1>3 DEF Held
  <2> QED
    BY <2>1, <2>2, <2>3
<1>9. Created' = Created \cup new
  BY <1>1, <1>3, <1>8 DEF Created, new
<1>10. new \cap Created = {}
  <2> SUFFICES ASSUME NEW c \in new, c \in Created PROVE FALSE
    OBVIOUS
  <2>1. c \in Children[x] /\ c # Root
    BY <1>3 DEF new
  <2>2. PICK y \in taken \ {Target} : c \in Children[y]
    BY <2>1 DEF Created
  <2>3. y \in Item /\ y # x
    BY <1>8 DEF IInv, TypeOK
  <2> QED
    BY <1>3, <2>1, <2>2, <2>3
<1>11. TakenCreated'
  BY <1>1, <1>8, <1>9 DEF IInv, TakenCreated
<1>12. /\ Held(w)' = (Held(w) \ {x}) \cup new
       /\ \A u \in Worker : u # w => Held(u)' = Held(u)
  <2>1. my_frontier'[w] = (my_frontier[w] \ {x}) \cup new
    BY <1>a, <1>4 DEF PTypeOK
  <2>2. \A u \in Worker : u # w => my_frontier'[u] = my_frontier[u]
    BY <1>a, <1>4 DEF PTypeOK
  <2>3. x \notin frontiers[w]
    BY <1>3 DEF IInv, Conservation
  <2> QED
    BY <1>2, <2>1, <2>2, <2>3 DEF Held
<1>13. Conservation'
  <2>1. Pending' = (Pending \ {x}) \cup new
    <3>1. Pending = Created \ taken /\ Pending' = Created' \ taken'
      BY DEF Pending, Created
    <3>2. new \cap taken = {} /\ x \notin new
      BY <1>8, <1>10 DEF IInv, TakenCreated
    <3> QED
      BY <1>1, <1>8, <1>9, <1>10, <3>1, <3>2
  <2>2. x \in Held(w) /\ \A u \in Worker : u # w => x \notin Held(u)
    BY <1>3 DEF Held, IInv, Conservation
  <2>3. ASSUME NEW e
        PROVE  (\E u \in Worker : e \in Held(u)') <=> e \in Pending'
    <3>1. (\E u \in Worker : e \in Held(u)) <=> e \in Pending
      BY DEF IInv, Conservation
    <3> QED
      BY <1>12, <2>1, <2>2, <3>1
  <2>4. UNION {Held(u)' : u \in Worker} = Pending'
    BY <2>3
  <2>5. \A u, t \in Worker : u # t => Held(u)' \cap Held(t)' = {}
    BY <1>8, <1>10, <1>12 DEF IInv, Conservation
  <2>6. \A u \in Worker : my_frontier'[u] \cap frontiers'[u] = {}
    <3>1. frontiers[w] \cap new = {}
      BY <1>8, <1>10 DEF Held
    <3> QED
      BY <1>a, <1>2, <1>4, <3>1 DEF IInv, Conservation, PTypeOK
  <2> QED
    BY <2>4, <2>5, <2>6 DEF Conservation
<1> QED
  BY <1>6, <1>7, <1>11, <1>13 DEF IInv

\* A body without work returns.
LEMMA EmptyBodyIInv ==
    ASSUME IInv, NEW w \in Worker, EmptyBody(w)
    PROVE  IInv'
<1>a. PTypeOK(Item, ProtocolPc)
  BY DEF IInv, TypeOK
<1>1. TypeOK'
  BY DEF EmptyBody, IInv, TypeOK, PTypeOK, Goto, ProtocolPc, wvars, cvars
<1>2. BodyStep(w)
  BY DEF EmptyBody, BodyStep, ProtocolPc, wvars
<1>3. PInv'
  BY <1>a, <1>2, BodyPInv DEF IInv
<1>4. TakenCreated' /\ Conservation'
  BY DEF EmptyBody, IInv, TakenCreated, Created, Conservation, Held, Pending, wvars
<1> QED
  BY <1>1, <1>3, <1>4 DEF IInv

\* Every step keeps the invariant.
LEMMA NextIInv == IInv /\ [Next]_vars => IInv'
<1> SUFFICES ASSUME IInv, [Next]_vars PROVE IInv'
  OBVIOUS
<1>1. CASE UNCHANGED vars
  <2>1. UNCHANGED pvars /\ UNCHANGED taken
    BY <1>1 DEF vars
  <2>2. PInv'
    BY <2>1, StutterPInv DEF IInv
  <2>3. TypeOK'
    BY <2>1 DEF IInv, pvars, TypeOK, PTypeOK
  <2>4. \A w \in Worker : Held(w)' = Held(w)
    BY <2>1 DEF pvars, Held
  <2>5. TakenCreated' /\ Pending' = Pending
    BY <2>1 DEF IInv, TakenCreated, Created, Pending
  <2>6. Conservation'
    BY <2>1, <2>4, <2>5 DEF IInv, pvars, Conservation
  <2> QED
    BY <2>2, <2>3, <2>5, <2>6 DEF IInv
<1>2. ASSUME NEW w \in Worker, Step(w) PROVE IInv'
  BY <1>2, ProtocolIInv, BodyIInv, EmptyBodyIInv DEF Step
<1> QED
  BY <1>1, <1>2 DEF Next, Return

\* The inductive invariant of parallel_while_pwsa with a client that works on
\* trees of items: types, who owns which cell and mailbox, and where work is.
THEOREM Invariant == Spec => []IInv
BY InitIInv, NextIInv, PTL DEF Spec

\* For any number of workers, every unanswered thief has exactly one victim that
\* will answer it, and nobody prepares an answer for a worker that does not
\* wait for it.
THEOREM StealingOneVictim == Spec => []OneVictimPerThief
<1>1. IInv => OneVictimPerThief
  BY DEF IInv, PInv, CInv
<1> QED
  BY <1>1, Invariant, PTL

\* A split fills a mailbox only while that mailbox is empty and its owner waits.
THEOREM StealingMailboxFree == Spec => []MailboxFree
<1>1. IInv => MailboxFree
  BY MailboxFreeFromInv DEF IInv, TypeOK, PInv
<1> QED
  BY <1>1, Invariant, PTL

\* With a cutoff of at least 1, a worker that leaves the acquire loop has work,
\* or the search is over; with a cutoff of 0 it may be told of a transfer that
\* moved nothing.
THEOREM StealingWorkOrDone == Spec => [](SplitCutoff > 0 => WorkOrDone)
<1>1. IInv => (SplitCutoff > 0 => WorkOrDone)
  BY DEF IInv, PInv, DInv
<1> QED
  BY <1>1, Invariant, PTL

\* Whatever is created is in exactly one frontier or mailbox until it is
\* processed.
THEOREM StealingConservation == Spec => []Conservation
<1>1. IInv => Conservation
  BY DEF IInv
<1> QED
  BY <1>1, Invariant, PTL

==============================================================================
