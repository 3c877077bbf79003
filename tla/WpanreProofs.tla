----------------------------- MODULE WpanreProofs -----------------------------
(***************************************************************************)
(* wpanre implements SearchTree and expands each vertex once, for every    *)
(* graph whose distances fit into an int and any number of workers.        *)
(***************************************************************************)
EXTENDS Wpanre, SearchGraphProofs

Entry == [f : Int, vertex : Vertex]

TypeOK ==
    /\ gpred \in [Vertex -> VertPack]
    /\ is_expanded \in [Vertex -> BOOLEAN]
    /\ frontier \in SUBSET Entry
    /\ lock \in Worker \cup {Free}
    /\ is_done \in BOOLEAN
    /\ pc \in [Worker -> {"start", "loop", "pop", "load", "claim", "found", "dist", "lock",
                          "relax", "exit"}]
    /\ v \in [Worker -> Vertex]
    /\ vdist \in [Worker -> Int]
    /\ arc \in [Worker -> Nat]

Expanded == {x \in Vertex : is_expanded[x]}
Expanding(w) == pc[w] \in {"dist", "lock", "relax"}

\* Whoever expands a vertex has marked it.
ExpanderMarked(w) == Expanding(w) => is_expanded[v[w]]

\* The distance read without the lock is a former g of the vertex, taken when
\* the vertex was expanded already.
StaleFromAbove(w) ==
    pc[w] \in {"lock", "relax"} =>
       /\ gpred[v[w]].distance <= vdist[w]
       /\ vdist[w] <= MaxWeight * (Cardinality(Expanded) - 1)

\* What was taken from the frontier is reached.
PoppedReached(w) == pc[w] \in {"load", "claim"} => gpred[v[w]].distance # IntMax

\* The relaxations of w are under the lock, and they start at the first arc.
UnderLock(w) == (pc[w] = "relax" <=> lock = w) /\ (pc[w] = "relax" => arc[w] > 0)

WorkerInv(w) == ExpanderMarked(w) /\ StaleFromAbove(w) /\ PoppedReached(w) /\ UnderLock(w)

\* Distances stay within the budget; the source stays the root.
DistanceInv ==
    /\ BudgetOf(gpred, Expanded)
    /\ gpred[source].distance = 0
    /\ \A e \in frontier : gpred[e.vertex].distance # IntMax

IInv == TypeOK /\ DistanceInv /\ \A w \in Worker : WorkerInv(w)

------------------------------------------------------------------------------
(* The invariant *)

\* The first state satisfies the invariant.
LEMMA InitIInv == Init => IInv
<1> SUFFICES ASSUME Init PROVE IInv
  OBVIOUS
<1>1. source \in Vertex /\ IntMax \in Nat /\ Heuristic[source] \in Int /\ 0 < IntMax
  <2>1. {} \in SUBSET Vertex
    OBVIOUS
  <2>2. 0 < IntMax
    BY <2>1, BudgetFits
  <2> QED
    BY <2>2, GraphAssumption
<1>2. gpred = [x \in Vertex |-> IF x = source THEN [distance |-> 0, pred |-> NoVertex]
                                ELSE [distance |-> IntMax, pred |-> NoVertex]]
  BY DEF Init, InitGpred
<1>3. gpred \in [Vertex -> VertPack]
  BY <1>1, <1>2 DEF VertPack
<1>4. TypeOK
  <2>1. [f |-> Heuristic[source], vertex |-> source] \in Entry
    BY <1>1 DEF Entry
  <2>2. frontier \in SUBSET Entry
    BY <2>1 DEF Init
  <2>3. /\ is_expanded \in [Vertex -> BOOLEAN] /\ v \in [Worker -> Vertex]
        /\ vdist \in [Worker -> Int] /\ arc \in [Worker -> Nat]
    BY <1>1 DEF Init
  <2> QED
    BY <1>3, <2>2, <2>3 DEF Init, TypeOK
<1>5. Expanded = {}
  BY DEF Init, Expanded
<1>6. \A x \in Vertex : gpred[x].distance = IF x = source THEN 0 ELSE IntMax
  BY <1>2
<1>7. BudgetOf(gpred, Expanded)
  BY <1>5, <1>6, BudgetInit
<1>8. DistanceInv
  BY <1>1, <1>6, <1>7 DEF DistanceInv, Init
<1>9. \A w \in Worker : WorkerInv(w)
  BY WorkerAssumption
     DEF Init, WorkerInv, ExpanderMarked, StaleFromAbove, PoppedReached, UnderLock, Expanding
<1> QED
  BY <1>4, <1>8, <1>9 DEF IInv

\* A relaxation writes the sum it should, and only a smaller one.
LEMMA RelaxLowers ==
    ASSUME IInv, NEW w \in Worker, pc[w] = "relax", arc[w] <= degree(v[w])
    PROVE  LET u   == v[w]
               wt  == Neighbors[u][arc[w]].weight
           IN  /\ u \in Vertex /\ arc[w] \in 1..degree(u) /\ is_expanded[u]
               /\ Neighbors[u][arc[w]].vertex \in Vertex
               /\ wt \in Nat /\ vdist[w] \in Nat
               /\ gpred[u].distance \in Nat /\ gpred[u].distance <= vdist[w]
               /\ Plus(vdist[w], wt) = vdist[w] + wt
               /\ vdist[w] + wt \in 0..IntMax - 1
               /\ vdist[w] + wt <= MaxWeight * Cardinality(Expanded)
<1>1. /\ v[w] \in Vertex /\ arc[w] \in Nat /\ arc[w] > 0 /\ vdist[w] \in Int /\ is_expanded[v[w]]
      /\ gpred[v[w]].distance <= vdist[w]
      /\ vdist[w] <= MaxWeight * (Cardinality(Expanded) - 1)
  BY DEF IInv, TypeOK, WorkerInv, ExpanderMarked, StaleFromAbove, UnderLock, Expanding
<1>2. gpred[v[w]].distance \in Nat
  BY <1>1 DEF IInv, DistanceInv, BudgetOf
<1>3. vdist[w] \in Nat
  BY <1>1, <1>2
<1>4. arc[w] \in 1..degree(v[w])
  BY <1>1, DegreeType
<1>5. Expanded \in SUBSET Vertex
  BY DEF Expanded
<1> QED
  BY <1>1, <1>2, <1>3, <1>4, <1>5, ArcType, RelaxFits

\* The invariant survives every relaxation.
LEMMA RelaxIInv ==
    ASSUME IInv, NEW w \in Worker, Relax(w)
    PROVE  IInv'
<1> DEFINE u   == v[w]
           wt  == Neighbors[u][arc[w]].weight
           nbr == Neighbors[u][arc[w]].vertex
           d   == vdist[w] + wt
<1>1. /\ pc[w] = "relax" /\ arc[w] <= degree(u)
      /\ arc' = [arc EXCEPT ![w] = @ + 1]
      /\ UNCHANGED <<is_expanded, lock, is_done, pc, v, vdist>>
  BY DEF Relax
<1>2. /\ u \in Vertex /\ nbr \in Vertex /\ Plus(vdist[w], wt) = d
      /\ d \in Nat /\ d < IntMax /\ d <= MaxWeight * Cardinality(Expanded)
  BY <1>1, RelaxLowers, BudgetFits, GraphAssumption
<1>3. IF d < gpred[nbr].distance
      THEN /\ frontier' = frontier \cup {[f |-> Plus(d, Heuristic[nbr]), vertex |-> nbr]}
           /\ gpred' = [gpred EXCEPT ![nbr] = [distance |-> d, pred |-> u]]
      ELSE UNCHANGED <<frontier, gpred>>
  BY <1>2 DEF Relax
<1>4. TypeOK /\ Expanded' = Expanded /\ Expanded \in SUBSET Vertex /\ Heuristic[nbr] \in Int
  BY <1>1, <1>2, GraphAssumption DEF IInv, Expanded
<1>5. BudgetOf(gpred, Expanded) /\ gpred[source].distance = 0 /\ source \in Vertex
  BY GraphAssumption DEF IInv, DistanceInv
<1> HIDE DEF d, nbr, u, wt
<1>6. TypeOK'
  <2>1. arc' \in [Worker -> Nat]
    BY <1>1, <1>4 DEF TypeOK
  <2>2. [distance |-> d, pred |-> u] \in VertPack
    BY <1>2 DEF VertPack
  <2>4. Plus(d, Heuristic[nbr]) \in Int
    <3>1. d \in Int
      BY <1>2
    <3> QED
      BY <1>4, <3>1, PlusType
  <2>3. gpred' \in [Vertex -> VertPack] /\ frontier' \in SUBSET Entry
    BY <1>2, <1>3, <1>4, <2>2, <2>4 DEF TypeOK, Entry
  <2> QED
    BY <1>1, <1>4, <2>1, <2>3 DEF TypeOK
<1>7. /\ BudgetOf(gpred', Expanded)
      /\ \A x \in Vertex : /\ gpred'[x].distance \in Nat /\ gpred[x].distance \in Nat
                           /\ gpred'[x].distance <= gpred[x].distance
                           /\ gpred[x].distance # IntMax => gpred'[x].distance # IntMax
  <2>1. CASE d < gpred[nbr].distance
    <3>1. gpred'[nbr].distance = d /\ \A x \in Vertex : x # nbr => gpred'[x].distance = gpred[x].distance
      BY <1>2, <1>3, <1>4, <2>1 DEF TypeOK
    <3> QED
      BY <1>2, <1>4, <1>5, <2>1, <3>1, BudgetRelax
  <2>2. CASE ~(d < gpred[nbr].distance)
    BY <1>3, <1>5, <2>2 DEF BudgetOf
  <2> QED
    BY <2>1, <2>2
<1>8. DistanceInv'
  <2>1. gpred'[source].distance = 0
    BY <1>5, <1>7
  <2>2. ASSUME NEW e \in frontier' PROVE gpred'[e.vertex].distance # IntMax
    <3>1. CASE e \in frontier
      BY <1>4, <1>7, <3>1 DEF IInv, DistanceInv, TypeOK, Entry
    <3>2. CASE e \notin frontier
      BY <1>2, <1>3, <1>4, <3>2 DEF TypeOK
    <3> QED
      BY <3>1, <3>2
  <2> QED
    BY <1>4, <1>7, <2>1, <2>2 DEF DistanceInv
<1>9. ASSUME NEW x \in Worker PROVE WorkerInv(x)'
  <2>1. WorkerInv(x) /\ v[x] \in Vertex /\ vdist[x] \in Int /\ arc[x] \in Nat
    BY <1>4 DEF IInv, TypeOK
  <2>2. ExpanderMarked(x)' /\ PoppedReached(x)'
    BY <1>1, <1>7, <2>1 DEF WorkerInv, ExpanderMarked, PoppedReached, Expanding
  <2>3. StaleFromAbove(x)'
    BY <1>1, <1>4, <1>7, <2>1 DEF WorkerInv, StaleFromAbove
  <2>4. UnderLock(x)'
    BY <1>1, <1>4, <2>1 DEF WorkerInv, UnderLock, TypeOK
  <2> QED
    BY <2>2, <2>3, <2>4 DEF WorkerInv
<1> QED
  BY <1>6, <1>8, <1>9 DEF IInv

\* A claim opens the budget of one more arc.
LEMMA ClaimIInv ==
    ASSUME IInv, NEW w \in Worker, Claim(w)
    PROVE  IInv'
<1>1. /\ TypeOK /\ pc[w] = "claim" /\ v[w] \in Vertex /\ gpred[v[w]].distance # IntMax
      /\ is_expanded' = [is_expanded EXCEPT ![v[w]] = TRUE]
      /\ UNCHANGED <<gpred, frontier, lock, is_done, v, vdist, arc>>
  BY DEF Claim, IInv, TypeOK, WorkerInv, PoppedReached
<1>2. \E l \in {"loop", "found", "dist"} : Goto(w, l)
  BY DEF Claim
<1>3. /\ pc'[w] \in {"loop", "found", "dist"} /\ \A x \in Worker : x # w => pc'[x] = pc[x]
  BY <1>1, <1>2 DEF Goto, TypeOK
<1>4. TypeOK'
  BY <1>1, <1>2 DEF Goto, TypeOK
<1>5. Expanded' = Expanded \cup {v[w]} /\ Expanded \in SUBSET Vertex
  BY <1>1 DEF Expanded, TypeOK
<1>6. /\ BudgetOf(gpred, Expanded')
      /\ MaxWeight * (Cardinality(Expanded) - 1) <= MaxWeight * (Cardinality(Expanded') - 1)
  <2>1. CASE v[w] \in Expanded
    <3>1. Expanded' = Expanded
      BY <1>5, <2>1
    <3>2. MaxWeight * (Cardinality(Expanded) - 1) \in Int
      BY <1>5, BudgetFits
    <3> QED
      BY <3>1, <3>2 DEF IInv, DistanceInv
  <2>2. CASE v[w] \notin Expanded
    BY <1>1, <1>5, <2>2, BudgetExpand DEF IInv, DistanceInv
  <2> QED
    BY <2>1, <2>2
<1>7. DistanceInv'
  BY <1>1, <1>6 DEF IInv, DistanceInv
<1>8. ASSUME NEW x \in Worker PROVE WorkerInv(x)'
  <2>1. WorkerInv(x) /\ v[x] \in Vertex /\ vdist[x] \in Int
    BY <1>1 DEF IInv, TypeOK
  <2>2. ExpanderMarked(x)'
    BY <1>1, <1>3, <2>1 DEF WorkerInv, ExpanderMarked, Expanding, TypeOK
  <2>3. StaleFromAbove(x)'
    <3>1. SUFFICES ASSUME pc[x] \in {"lock", "relax"}
                   PROVE  vdist[x] <= MaxWeight * (Cardinality(Expanded') - 1)
      BY <1>1, <1>3, <2>1 DEF WorkerInv, StaleFromAbove
    <3>2. vdist[x] <= MaxWeight * (Cardinality(Expanded) - 1)
      BY <2>1, <3>1 DEF WorkerInv, StaleFromAbove
    <3>3. /\ MaxWeight * (Cardinality(Expanded) - 1) \in Int
          /\ MaxWeight * (Cardinality(Expanded') - 1) \in Int
      BY <1>1, <1>5, BudgetFits
    <3> QED
      BY <1>6, <2>1, <3>2, <3>3
  <2>4. PoppedReached(x)' /\ UnderLock(x)'
    BY <1>1, <1>3, <2>1 DEF WorkerInv, PoppedReached, UnderLock
  <2> QED
    BY <2>2, <2>3, <2>4 DEF WorkerInv
<1> QED
  BY <1>4, <1>7, <1>8 DEF IInv

\* Every other step leaves the states alone.
LEMMA QuietIInv ==
    ASSUME IInv, NEW w \in Worker, Step(w), ~Claim(w), ~Relax(w)
    PROVE  IInv' /\ UNCHANGED <<gpred, is_expanded>>
<1>1. TypeOK /\ UNCHANGED <<gpred, is_expanded>>
  BY DEF IInv, Step, Start, Loop, Pop, LoadExpanded, Found, ReadDistance, Lock, Unlock
<1>2. Expanded' = Expanded /\ Expanded \in SUBSET Vertex
  BY <1>1 DEF Expanded
<1>3. frontier' \subseteq frontier
  BY DEF Step, Start, Loop, Pop, LoadExpanded, Found, ReadDistance, Lock, Unlock
<1>4. BudgetOf(gpred', Expanded')
  BY <1>1, <1>2 DEF IInv, DistanceInv
<1>5. DistanceInv'
  BY <1>1, <1>3, <1>4 DEF IInv, DistanceInv
<1>6. ASSUME UNCHANGED <<v, vdist, arc, lock>>, frontier' = frontier, is_done' \in BOOLEAN,
             NEW l \in {"loop", "pop", "claim", "exit"}, Goto(w, l),
             pc[w] # "relax", l = "claim" => pc[w] = "load"
      PROVE  IInv'
  <2>1. TypeOK'
    BY <1>1, <1>6 DEF TypeOK, Goto
  <2>2. pc'[w] = l /\ \A x \in Worker : x # w => pc'[x] = pc[x]
    BY <1>1, <1>6 DEF TypeOK, Goto
  <2>3. ASSUME NEW x \in Worker PROVE WorkerInv(x)'
    BY <1>1, <1>2, <1>6, <2>2
       DEF IInv, WorkerInv, ExpanderMarked, StaleFromAbove, PoppedReached, UnderLock, Expanding
  <2> QED
    BY <1>5, <2>1, <2>3 DEF IInv
<1>7. CASE Start(w)
  BY <1>1, <1>6, <1>7 DEF Start, TypeOK
<1>8. CASE Loop(w)
  BY <1>1, <1>6, <1>8 DEF Loop, TypeOK
<1>9. CASE LoadExpanded(w)
  BY <1>1, <1>6, <1>9 DEF LoadExpanded, TypeOK
<1>10. CASE Found(w)
  BY <1>1, <1>6, <1>10 DEF Found
<1>11. CASE Pop(w)
  <2>1. CASE frontier = {} /\ Goto(w, "loop") /\ UNCHANGED <<frontier, v>>
    BY <1>1, <1>6, <1>11, <2>1 DEF Pop, TypeOK
  <2>2. ASSUME NEW e \in MinEntries(frontier),
               frontier' = frontier \ {e}, v' = [v EXCEPT ![w] = e.vertex], Goto(w, "load")
        PROVE  IInv'
    <3>1. e \in frontier /\ e.vertex \in Vertex
      BY <1>1, <2>2 DEF MinEntries, TypeOK, Entry
    <3>2. gpred[e.vertex].distance # IntMax
      BY <3>1 DEF IInv, DistanceInv
    <3>3. TypeOK'
      BY <1>1, <1>11, <2>2, <3>1 DEF Pop, TypeOK, Goto
    <3>4. /\ pc'[w] = "load" /\ v'[w] = e.vertex
          /\ \A x \in Worker : x # w => pc'[x] = pc[x] /\ v'[x] = v[x]
      BY <1>1, <2>2 DEF Goto, TypeOK
    <3>5. lock = Free /\ pc[w] = "pop" /\ UNCHANGED <<lock, vdist, arc>>
      BY <1>11 DEF Pop
    <3>6. ASSUME NEW x \in Worker PROVE WorkerInv(x)'
      BY <1>1, <1>2, <3>2, <3>4, <3>5, WorkerAssumption
         DEF IInv, WorkerInv, ExpanderMarked, StaleFromAbove, PoppedReached, UnderLock, Expanding
    <3> QED
      BY <1>5, <3>3, <3>6 DEF IInv
  <2> QED
    BY <1>11, <2>1, <2>2 DEF Pop
<1>12. CASE ReadDistance(w)
  <2>1. /\ v[w] \in Vertex /\ gpred[v[w]].distance \in Nat /\ is_expanded[v[w]]
    BY <1>1, <1>12 DEF ReadDistance, IInv, TypeOK, DistanceInv, BudgetOf, WorkerInv, ExpanderMarked,
       Expanding
  <2>2. TypeOK'
    BY <1>1, <1>12, <2>1 DEF ReadDistance, TypeOK, Goto
  <2>3. /\ pc'[w] = "lock" /\ vdist'[w] = gpred[v[w]].distance
        /\ \A x \in Worker : x # w => pc'[x] = pc[x] /\ vdist'[x] = vdist[x]
        /\ pc[w] = "dist" /\ UNCHANGED <<v, arc, lock>>
    BY <1>1, <1>12 DEF ReadDistance, Goto, TypeOK
  <2>4. gpred[v[w]].distance <= MaxWeight * (Cardinality(Expanded) - 1)
    BY <2>1 DEF IInv, DistanceInv, BudgetOf, Expanded
  <2>5. ASSUME NEW x \in Worker PROVE WorkerInv(x)'
    BY <1>1, <1>2, <2>1, <2>3, <2>4
       DEF IInv, WorkerInv, ExpanderMarked, StaleFromAbove, PoppedReached, UnderLock, Expanding
  <2> QED
    BY <1>1, <1>5, <2>2, <2>5 DEF IInv
<1>13. CASE Lock(w)
  <2>1. TypeOK'
    BY <1>1, <1>13 DEF Lock, TypeOK, Goto
  <2>2. /\ pc'[w] = "relax" /\ arc'[w] = 1 /\ lock' = w /\ lock = Free
        /\ \A x \in Worker : x # w => pc'[x] = pc[x] /\ arc'[x] = arc[x]
        /\ pc[w] = "lock" /\ UNCHANGED <<v, vdist>>
    BY <1>1, <1>13 DEF Lock, Goto, TypeOK
  <2>3. ASSUME NEW x \in Worker PROVE WorkerInv(x)'
    BY <1>1, <1>2, <2>2, WorkerAssumption
       DEF IInv, WorkerInv, ExpanderMarked, StaleFromAbove, PoppedReached, UnderLock, Expanding
  <2> QED
    BY <1>1, <1>5, <2>1, <2>3 DEF IInv
<1>14. CASE Unlock(w)
  <2>1. TypeOK'
    BY <1>1, <1>14 DEF Unlock, TypeOK, Goto
  <2>2. /\ pc'[w] = "loop" /\ lock' = Free /\ pc[w] = "relax" /\ UNCHANGED v
        /\ \A x \in Worker : x # w => pc'[x] = pc[x] /\ arc'[x] = arc[x] /\ vdist'[x] = vdist[x]
    BY <1>1, <1>14 DEF Unlock, Goto, TypeOK
  <2>3. ASSUME NEW x \in Worker PROVE WorkerInv(x)'
    BY <1>1, <1>2, <2>2, WorkerAssumption
       DEF IInv, WorkerInv, ExpanderMarked, StaleFromAbove, PoppedReached, UnderLock, Expanding
  <2> QED
    BY <1>1, <1>5, <2>1, <2>3 DEF IInv
<1> QED
  BY <1>1, <1>7, <1>8, <1>9, <1>10, <1>11, <1>12, <1>13, <1>14 DEF Step

\* The invariant is inductive.
LEMMA NextIInv == IInv /\ [Next]_vars => IInv'
<1> SUFFICES ASSUME IInv, [Next]_vars PROVE IInv'
  OBVIOUS
<1>1. ASSUME NEW w \in Worker, Step(w) PROVE IInv'
  BY <1>1, ClaimIInv, RelaxIInv, QuietIInv
<1>2. CASE UNCHANGED vars
  <2>1. Expanded' = Expanded /\ BudgetOf(gpred', Expanded')
    BY <1>2 DEF vars, Expanded, IInv, DistanceInv
  <2> QED
    BY <1>2, <2>1 DEF vars, IInv, TypeOK, DistanceInv, WorkerInv, ExpanderMarked, StaleFromAbove,
       PoppedReached, UnderLock, Expanding
<1> QED
  BY <1>1, <1>2 DEF Next, Return

\* Every behaviour of wpanre satisfies the invariant.
THEOREM Invariant == SafetySpec => []IInv
BY InitIInv, NextIInv, PTL DEF SafetySpec

------------------------------------------------------------------------------
(* The search implements SearchTree *)

\* A step of wpanre is a claim, a relaxation, or invisible in the states.
LEMMA StepImplements ==
    ASSUME IInv, [Next]_vars
    PROVE  [Tree!Next]_<<rooted, is_expanded>>
<1>1. TypeOK /\ source \in Vertex /\ gpred[source].distance = 0
  BY GraphAssumption DEF IInv, DistanceInv
<1>2. ASSUME UNCHANGED gpred PROVE UNCHANGED rooted
  BY <1>2 DEF rooted
<1>3. \A x \in Vertex : rooted[x].distance = gpred[x].distance
  BY <1>1 DEF rooted, TypeOK
<1>4. ASSUME NEW w \in Worker, Claim(w) PROVE [Tree!Next]_<<rooted, is_expanded>>
  <2>1. /\ v[w] \in Vertex /\ gpred[v[w]].distance # IntMax /\ rooted' = rooted
        /\ is_expanded' = [is_expanded EXCEPT ![v[w]] = TRUE]
    BY <1>1, <1>2, <1>4 DEF Claim, IInv, WorkerInv, PoppedReached, TypeOK
  <2>2. CASE is_expanded[v[w]]
    BY <1>1, <2>1, <2>2 DEF TypeOK
  <2>3. CASE ~is_expanded[v[w]]
    BY <1>3, <2>1, <2>3 DEF Tree!Next, Tree!Expand, Tree!Reached
  <2> QED
    BY <2>2, <2>3
<1>5. ASSUME NEW w \in Worker, Relax(w) PROVE [Tree!Next]_<<rooted, is_expanded>>
  <2> DEFINE u   == v[w]
             i   == arc[w]
             nbr == Neighbors[u][i].vertex
             wt  == Neighbors[u][i].weight
             d   == vdist[w] + wt
  <2>1. /\ u \in Vertex /\ i \in 1..degree(u) /\ is_expanded[u] /\ nbr \in Vertex
        /\ wt \in Nat /\ vdist[w] \in Nat
        /\ gpred[u].distance \in Nat /\ gpred[u].distance <= vdist[w]
        /\ Plus(vdist[w], wt) = d /\ d \in 0..IntMax - 1
    BY <1>5, RelaxLowers DEF Relax
  <2>2. is_expanded' = is_expanded
    BY <1>5 DEF Relax
  <2>3. CASE ~(d < gpred[nbr].distance)
    BY <1>2, <1>5, <2>1, <2>2, <2>3 DEF Relax
  <2>4. CASE d < gpred[nbr].distance
    <3>1. gpred' = [gpred EXCEPT ![nbr] = [distance |-> d, pred |-> u]]
      BY <1>5, <2>1, <2>4 DEF Relax
    <3>2. nbr # source
      BY <1>1, <2>1, <2>4
    <3>3. gpred[u].distance + wt <= d
      BY <2>1
    <3> HIDE DEF d, nbr
    <3>4. rooted' = [rooted EXCEPT ![nbr] = [distance |-> d, pred |-> u]]
      BY <1>1, <2>1, <3>1, <3>2 DEF rooted, TypeOK
    <3>5. rooted[u].distance + wt <= d /\ d < rooted[nbr].distance
      BY <1>3, <2>1, <2>4, <3>3
    <3>6. Tree!Relax(u, i, d)
      BY <2>1, <2>2, <3>4, <3>5 DEF Tree!Relax, nbr
    <3>7. u \in Vertex /\ i \in 1..Tree!degree(u) /\ d \in 0..IntMax - 1
      BY <2>1 DEF degree, Tree!degree
    <3> HIDE DEF u, i
    <3>8. Tree!Next
      BY <3>6, <3>7, Zenon DEF Tree!Next
    <3> QED
      BY <3>8
  <2> QED
    BY <2>3, <2>4
<1>6. ASSUME NEW w \in Worker, Step(w), ~Claim(w), ~Relax(w)
      PROVE  UNCHANGED <<rooted, is_expanded>>
  BY <1>2, <1>6, QuietIInv
<1>7. CASE UNCHANGED vars
  BY <1>2, <1>7 DEF vars
<1> QED
  BY <1>4, <1>5, <1>6, <1>7 DEF Next, Return

\* wpanre implements the abstract search: although an expander reads the g of
\* its vertex outside the lock and uses it under the lock later, every change of
\* the states is one that SearchTree allows.
THEOREM WpanreImplementsTree == SafetySpec => ImplementsTree
<1>1. Init => Tree!Init
  <2> SUFFICES ASSUME Init PROVE rooted = InitGpred
    BY DEF Init, Tree!Init, InitGpred, Tree!InitGpred
  <2>1. source \in Vertex
    BY GraphAssumption
  <2>2. gpred = [InitGpred EXCEPT ![source] = [distance |-> 0, pred |-> NoVertex]]
    BY DEF Init
  <2>3. gpred[source].distance = 0
    BY <2>1, <2>2 DEF InitGpred
  <2>4. rooted = [gpred EXCEPT ![source] = [distance |-> 0, pred |-> source]]
    BY <2>3 DEF rooted
  <2> QED
    BY <2>1, <2>2, <2>4 DEF InitGpred
<1>2. IInv /\ [Next]_vars => [Tree!Next]_<<rooted, is_expanded>>
  BY StepImplements
<1> QED
  BY <1>1, <1>2, Invariant, PTL DEF SafetySpec, ImplementsTree, Tree!Spec, Tree!tvars

------------------------------------------------------------------------------
(* Each vertex is expanded once *)

\* Only a claim makes an expander, and a claim succeeds once.
LEMMA StepExpandedOnce ==
    ASSUME IInv, ExpandedOnce, NEW w \in Worker, Step(w)
    PROVE  ExpandedOnce'
<1> DEFINE entry(x) == [f |-> Plus(gpred[x].distance, Heuristic[x]), vertex |-> x]
           cared(x) == \/ entry(x) \in frontier
                       \/ \E u \in Worker : pc[u] \in {"load", "claim"} /\ v[u] = x
<1>1. TypeOK
  BY DEF IInv
<1>2. \A u \in Worker : u # w => pc'[u] = pc[u] /\ v'[u] = v[u]
  BY <1>1 DEF Step, Start, Loop, Pop, LoadExpanded, Claim, Found, ReadDistance, Lock, Relax, Unlock,
     Goto, TypeOK
<1>3. ASSUME NEW x \in Vertex, gpred'[x].distance # IntMax, ~is_expanded'[x]
      PROVE  cared(x)'
  <2>1. CASE Relax(w)
    <3> DEFINE nbr     == Neighbors[v[w]][arc[w]].vertex
               nbrdist == Plus(vdist[w], Neighbors[v[w]][arc[w]].weight)
    <3>1. UNCHANGED <<is_expanded, pc, v>>
      BY <2>1 DEF Relax
    <3>2. CASE gpred'[x] = gpred[x]
      <4>1. frontier \subseteq frontier'
        BY <2>1 DEF Relax
      <4>2. cared(x)
        BY <1>3, <3>1, <3>2 DEF ExpandedOnce
      <4> QED
        BY <3>1, <3>2, <4>1, <4>2
    <3>3. CASE gpred'[x] # gpred[x]
      <4>1. /\ frontier' = frontier \cup {[f |-> Plus(nbrdist, Heuristic[nbr]), vertex |-> nbr]}
            /\ gpred' = [gpred EXCEPT ![nbr] = [distance |-> nbrdist, pred |-> v[w]]]
        BY <2>1, <3>3 DEF Relax
      <4>2. x = nbr /\ gpred'[x].distance = nbrdist
        BY <1>1, <3>3, <4>1 DEF TypeOK
      <4>3. entry(x)' = [f |-> Plus(nbrdist, Heuristic[nbr]), vertex |-> nbr]
        BY <4>2
      <4> HIDE DEF nbr, nbrdist
      <4>4. entry(x)' \in frontier'
        BY <4>1, <4>3
      <4> QED
        BY <4>4
    <3> QED
      BY <3>2, <3>3
  <2>2. CASE ~Relax(w)
    <3>1. gpred' = gpred /\ ~is_expanded[x] /\ (Claim(w) => v[w] # x)
      BY <1>1, <1>3, <2>2 DEF Step, Start, Loop, Pop, LoadExpanded, Claim, Found, ReadDistance, Lock,
         Unlock, TypeOK
    <3>2. cared(x)
      BY <1>3, <3>1 DEF ExpandedOnce
    <3>3. CASE entry(x) \in frontier
      <4>1. CASE Pop(w) /\ entry(x) \notin frontier'
        <5>1. PICK e \in MinEntries(frontier) :
                 /\ frontier' = frontier \ {e}
                 /\ v' = [v EXCEPT ![w] = e.vertex]
                 /\ Goto(w, "load")
          BY <3>3, <4>1 DEF Pop
        <5>2. e = entry(x)
          BY <3>3, <4>1, <5>1
        <5>3. v'[w] = x /\ pc'[w] = "load"
          BY <1>1, <5>1, <5>2 DEF Goto, TypeOK
        <5> QED
          BY <5>3
      <4>2. CASE ~Pop(w)
        BY <2>2, <3>1, <3>3, <4>2 DEF Step, Start, Loop, LoadExpanded, Claim, Found, ReadDistance, Lock,
           Unlock
      <4> QED
        BY <3>1, <4>1, <4>2
    <3>4. ASSUME NEW u \in Worker, pc[u] \in {"load", "claim"}, v[u] = x
          PROVE  cared(x)'
      <4>1. CASE u # w
        BY <1>2, <3>4, <4>1
      <4>2. CASE u = w
        BY <1>1, <3>1, <3>4, <4>2 DEF Step, Start, Loop, Pop, LoadExpanded, Claim, Found, ReadDistance,
           Lock, Relax, Unlock, Goto, TypeOK
      <4> QED
        BY <4>1, <4>2
    <3> QED
      BY <3>2, <3>3, <3>4
  <2> QED
    BY <2>1, <2>2
<1>4. ASSUME NEW u \in Worker, u # w, Expanding(u), Expanding(w)'
      PROVE  v[u] # v'[w]
  <2>1. CASE Claim(w)
    BY <1>1, <1>4, <2>1 DEF Claim, Goto, TypeOK, Expanding, IInv, WorkerInv, ExpanderMarked
  <2>2. CASE ~Claim(w)
    <3>1. Expanding(w) /\ v'[w] = v[w]
      BY <1>1, <1>4, <2>2 DEF Step, Start, Loop, Pop, LoadExpanded, Found, ReadDistance, Lock, Relax,
         Unlock, Goto, TypeOK, Expanding
    <3> QED
      BY <1>4, <3>1 DEF ExpandedOnce, Expanding
  <2> QED
    BY <2>1, <2>2
<1>5. ASSUME NEW u \in Worker, NEW t \in Worker, u # t, Expanding(u)', Expanding(t)'
      PROVE  v'[u] # v'[t]
  BY <1>2, <1>4, <1>5 DEF ExpandedOnce, Expanding
<1> QED
  BY <1>3, <1>5 DEF ExpandedOnce, Expanding

\* Each vertex is expanded at most once, and none that was reached is lost
\* between the pop under the lock and the claim outside it.
THEOREM WpanreExpandedOnce == SafetySpec => []ExpandedOnce
<1>1. Init => ExpandedOnce
  <2> SUFFICES ASSUME Init PROVE ExpandedOnce
    OBVIOUS
  <2>1. /\ source \in Vertex /\ Heuristic[source] \in 0..IntMax /\ IntMax \in Nat
    BY GraphAssumption
  <2>2. Plus(0, Heuristic[source]) = Heuristic[source]
    BY <2>1 DEF Plus
  <2>3. \A x \in Vertex : gpred[x].distance = IF x = source THEN 0 ELSE IntMax
    BY DEF Init, InitGpred
  <2>4. \A x \in Vertex : gpred[x].distance # IntMax =>
           [f |-> Plus(gpred[x].distance, Heuristic[x]), vertex |-> x] \in frontier
    BY <2>2, <2>3 DEF Init
  <2>5. \A w \in Worker : pc[w] = "start"
    BY DEF Init
  <2> QED
    BY <2>4, <2>5 DEF ExpandedOnce
<1>2. IInv /\ ExpandedOnce /\ [Next]_vars => ExpandedOnce'
  <2> SUFFICES ASSUME IInv, ExpandedOnce, [Next]_vars PROVE ExpandedOnce'
    OBVIOUS
  <2>1. CASE UNCHANGED vars
    BY <2>1 DEF vars, ExpandedOnce
  <2> QED
    BY <2>1, StepExpandedOnce DEF Next, Return
<1> QED
  BY <1>1, <1>2, Invariant, PTL DEF SafetySpec

\* The heap is touched by one worker at a time: while one relaxes, no other
\* does, and none can pop.
THEOREM WpanreMutualExclusion ==
    SafetySpec => [](\A w \in Worker : pc[w] = "relax" =>
                        /\ lock # Free
                        /\ \A u \in Worker : pc[u] = "relax" => u = w)
<1>1. IInv => \A w \in Worker : pc[w] = "relax" =>
                 /\ lock # Free
                 /\ \A u \in Worker : pc[u] = "relax" => u = w
  BY WorkerAssumption DEF IInv, WorkerInv, UnderLock
<1> QED
  BY <1>1, Invariant, PTL

==============================================================================
