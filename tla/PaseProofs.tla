------------------------------ MODULE PaseProofs ------------------------------
(***************************************************************************)
(* pase implements SearchTree, keeps its iterators valid and claims only   *)
(* vertices whose distance is optimal, for every graph whose distances fit *)
(* into an int and any number of workers.                                  *)
(***************************************************************************)
EXTENDS Pase, SearchGraphProofs

Entry == [f : Int, vertex : Vertex]

TypeOK ==
    /\ gpred \in [Vertex -> VertPack]
    /\ is_expanded \in [Vertex -> BOOLEAN]
    /\ being_expanded \in [Vertex -> BOOLEAN]
    /\ M \in Seq(Entry)
    /\ lock \in Worker \cup {Free}
    /\ pc \in [Worker -> {"start", "loop", "find", "scan", "found", "dist", "lock", "relax", "exit"}]
    /\ cursor \in [Worker -> Nat]
    /\ itv \in [Worker -> Entry]
    /\ vdist \in [Worker -> Int]
    /\ arc \in [Worker -> Nat]

Claimed == {x \in Vertex : being_expanded[x]}

\* An entry some iterator may point to
Queued(e) == \E i \in DOMAIN M : M[i] = e

\* A worker that holds an iterator has claimed the vertex and not expanded it:
\* no scan takes the entry for an old one.
HolderInv(w) == Holding(w) => being_expanded[v(w)] /\ ~is_expanded[v(w)] /\ Queued(itv[w])

\* The distance read without the lock is a former g of the vertex, taken when
\* the vertex was claimed already.
StaleFromAbove(w) ==
    pc[w] \in {"lock", "relax"} =>
       /\ gpred[v(w)].distance <= vdist[w]
       /\ vdist[w] <= MaxWeight * (Cardinality(Claimed) - 1)

\* Scans and relaxations are under the lock and start at the first position.
UnderLock(w) ==
    /\ pc[w] \in {"scan", "relax"} <=> lock = w
    /\ pc[w] = "scan" => cursor[w] > 0
    /\ pc[w] = "relax" => arc[w] > 0

WorkerInv(w) == HolderInv(w) /\ StaleFromAbove(w) /\ UnderLock(w)

\* No two iterators point to entries of one vertex.
Exclusive == \A u, w \in Worker : u # w /\ Holding(u) /\ Holding(w) => v(u) # v(w)

\* Distances stay within the budget; the source stays the root.
DistanceInv ==
    /\ BudgetOf(gpred, Claimed)
    /\ gpred[source].distance = 0
    /\ \A i \in DOMAIN M : gpred[M[i].vertex].distance # IntMax

IInv == TypeOK /\ DistanceInv /\ Exclusive /\ \A w \in Worker : WorkerInv(w)

------------------------------------------------------------------------------
(* The queue *)

\* multimap::insert adds one entry and keeps the others.
LEMMA InsertedFacts ==
    ASSUME NEW s \in Seq(Entry), NEW e \in Entry
    PROVE  /\ Inserted(s, e) \in Seq(Entry)
           /\ \A i \in DOMAIN Inserted(s, e) :
                 Inserted(s, e)[i] = e \/ \E j \in DOMAIN s : Inserted(s, e)[i] = s[j]
           /\ \A j \in DOMAIN s : \E i \in DOMAIN Inserted(s, e) : Inserted(s, e)[i] = s[j]
<1> DEFINE k == Cardinality({i \in DOMAIN s : s[i].f <= e.f})
           p == k + 1
           t == Insertion(s, p, e)
<1>1. Len(s) \in Nat /\ DOMAIN s = 1..Len(s)
  OBVIOUS
<1>2. p \in 1..Len(s) + 1
  <2>1. k \in 0..Len(s)
    BY CountFits
  <2> QED
    BY <1>1, <2>1
<1> HIDE DEF k, p
<1>3. /\ t \in Seq(Entry) /\ Len(t) = Len(s) + 1 /\ t[p] = e
      /\ \A j \in 1..Len(s) : (j < p => t[j] = s[j]) /\ (j >= p => t[j + 1] = s[j])
  BY <1>2, InsertionFacts
<1> HIDE DEF t
<1>4. DOMAIN t = 1..Len(s) + 1
  BY <1>1, <1>3
<1>5. ASSUME NEW j \in DOMAIN s PROVE \E i \in DOMAIN t : t[i] = s[j]
  <2>1. j \in DOMAIN t /\ j + 1 \in DOMAIN t
    BY <1>1, <1>4
  <2> QED
    BY <1>1, <1>2, <1>3, <2>1
<1>6. ASSUME NEW i \in DOMAIN t PROVE t[i] = e \/ \E j \in DOMAIN s : t[i] = s[j]
  <2>1. CASE i < p
    BY <1>1, <1>2, <1>3, <1>4, <2>1
  <2>2. CASE i > p
    <3>1. i - 1 \in 1..Len(s) /\ i - 1 >= p /\ (i - 1) + 1 = i
      BY <1>1, <1>2, <1>4, <2>2
    <3>2. t[i] = s[i - 1]
      BY <1>3, <3>1
    <3> QED
      BY <1>1, <3>1, <3>2
  <2> QED
    BY <1>2, <1>3, <1>4, <2>1, <2>2
<1>7. Inserted(s, e) = t
  BY DEF Inserted, InsertAt, Insertion, t, p, k
<1> QED
  BY <1>3, <1>5, <1>6, <1>7

\* multimap::erase leaves the other entries.
LEMMA RemovedFacts ==
    ASSUME NEW s \in Seq(Entry), NEW k \in DOMAIN s
    PROVE  /\ RemoveAt(s, k) \in Seq(Entry)
           /\ \A i \in DOMAIN RemoveAt(s, k) : \E j \in DOMAIN s : RemoveAt(s, k)[i] = s[j]
           /\ \A j \in DOMAIN s :
                 s[j] # s[k] => \E i \in DOMAIN RemoveAt(s, k) : RemoveAt(s, k)[i] = s[j]
<1> DEFINE t == Removal(s, k)
<1>1. Len(s) \in Nat /\ DOMAIN s = 1..Len(s)
  OBVIOUS
<1>2. /\ t \in Seq(Entry) /\ Len(t) = Len(s) - 1
      /\ \A j \in 1..Len(s) : (j < k => t[j] = s[j]) /\ (j > k => t[j - 1] = s[j])
  <2>1. k \in 1..Len(s)
    BY <1>1
  <2> QED
    BY <2>1, RemovalFacts
<1> HIDE DEF t
<1>3. DOMAIN t = 1..Len(s) - 1
  BY <1>2
<1>4. ASSUME NEW i \in DOMAIN t PROVE \E j \in DOMAIN s : t[i] = s[j]
  <2>1. CASE i < k
    BY <1>1, <1>2, <1>3, <2>1
  <2>2. CASE i >= k
    <3>1. i + 1 \in 1..Len(s) /\ i + 1 > k /\ (i + 1) - 1 = i
      BY <1>1, <1>3, <2>2
    <3>2. t[i] = s[i + 1]
      BY <1>2, <3>1
    <3> QED
      BY <1>1, <3>1, <3>2
  <2> QED
    BY <1>1, <1>3, <2>1, <2>2
<1>5. ASSUME NEW j \in DOMAIN s, s[j] # s[k] PROVE \E i \in DOMAIN t : t[i] = s[j]
  <2>1. CASE j < k
    <3>1. j \in DOMAIN t
      BY <1>1, <1>3, <2>1
    <3> QED
      BY <1>1, <1>2, <2>1, <3>1
  <2>2. CASE j > k
    <3>1. j - 1 \in DOMAIN t
      BY <1>1, <1>3, <2>2
    <3> QED
      BY <1>1, <1>2, <2>2, <3>1
  <2> QED
    BY <1>1, <1>5, <2>1, <2>2
<1>6. RemoveAt(s, k) = t
  BY DEF RemoveAt, Removal, t
<1> QED
  BY <1>2, <1>4, <1>5, <1>6

------------------------------------------------------------------------------
(* The invariant *)

\* Entries are computed from ints.
LEMMA EntryType == ASSUME NEW d \in Int, NEW x \in Vertex PROVE EntryOf(d, x) \in Entry
<1>1. Estimate[x][destination] \in Int
  BY PaseAssumption, GraphAssumption
<1>2. Plus(d, Estimate[x][destination]) \in Int
  BY <1>1, PlusType
<1> QED
  BY <1>2 DEF EntryOf, Entry

\* The first state satisfies the invariant.
LEMMA InitIInv == Init => IInv
<1> SUFFICES ASSUME Init PROVE IInv
  OBVIOUS
<1>1. source \in Vertex /\ IntMax \in Nat /\ 0 < IntMax
  <2>1. {} \in SUBSET Vertex
    OBVIOUS
  <2>2. 0 < IntMax
    BY <2>1, BudgetFits
  <2> QED
    BY <2>2, GraphAssumption
<1>2. gpred = [x \in Vertex |-> IF x = source THEN [distance |-> 0, pred |-> NoVertex]
                                ELSE [distance |-> IntMax, pred |-> NoVertex]]
  BY DEF Init, InitGpred
<1>3. gpred \in [Vertex -> VertPack]
  BY <1>1, <1>2 DEF VertPack
<1>4. EntryOf(0, source) \in Entry
  BY <1>1, EntryType
<1>5. M \in Seq(Entry) /\ DOMAIN M = {1} /\ M[1].vertex = source
  <2>1. M = <<EntryOf(0, source)>>
    BY DEF Init
  <2> QED
    BY <1>4, <2>1 DEF EntryOf
<1>6. TypeOK
  <2>1. /\ is_expanded \in [Vertex -> BOOLEAN] /\ being_expanded \in [Vertex -> BOOLEAN]
        /\ itv \in [Worker -> Entry] /\ cursor \in [Worker -> Nat]
        /\ vdist \in [Worker -> Int] /\ arc \in [Worker -> Nat]
    BY <1>4 DEF Init
  <2> QED
    BY <1>3, <1>5, <2>1 DEF Init, TypeOK
<1>7. Claimed = {}
  BY DEF Init, Claimed
<1>8. \A x \in Vertex : gpred[x].distance = IF x = source THEN 0 ELSE IntMax
  BY <1>2
<1>9. BudgetOf(gpred, Claimed)
  BY <1>7, <1>8, BudgetInit
<1>10. DistanceInv
  BY <1>1, <1>5, <1>8, <1>9 DEF DistanceInv
<1>11. Exclusive /\ \A w \in Worker : WorkerInv(w)
  BY PaseAssumption DEF Init, Exclusive, WorkerInv, HolderInv, StaleFromAbove, UnderLock, Holding
<1> QED
  BY <1>6, <1>10, <1>11 DEF IInv

\* A relaxation writes the sum it should, and only a smaller one.
LEMMA RelaxLowers ==
    ASSUME IInv, NEW w \in Worker, pc[w] = "relax", arc[w] <= degree(v(w))
    PROVE  LET u   == v(w)
               wt  == Neighbors[u][arc[w]].weight
           IN  /\ u \in Vertex /\ arc[w] \in 1..degree(u) /\ being_expanded[u]
               /\ Neighbors[u][arc[w]].vertex \in Vertex
               /\ wt \in Nat /\ vdist[w] \in Nat
               /\ gpred[u].distance \in Nat /\ gpred[u].distance <= vdist[w]
               /\ Plus(vdist[w], wt) = vdist[w] + wt
               /\ vdist[w] + wt \in 0..IntMax - 1
               /\ vdist[w] + wt <= MaxWeight * Cardinality(Claimed)
<1> DEFINE u == v(w)
<1>1. /\ u \in Vertex /\ arc[w] \in Nat /\ arc[w] > 0 /\ vdist[w] \in Int /\ being_expanded[u]
      /\ gpred[u].distance <= vdist[w]
      /\ vdist[w] <= MaxWeight * (Cardinality(Claimed) - 1)
  BY DEF IInv, TypeOK, WorkerInv, HolderInv, StaleFromAbove, UnderLock, Holding, v, Entry
<1> HIDE DEF u
<1>2. gpred[u].distance \in Nat
  BY <1>1 DEF IInv, DistanceInv, BudgetOf
<1>3. vdist[w] \in Nat
  BY <1>1, <1>2
<1>4. arc[w] \in 1..degree(u)
  BY <1>1, DegreeType DEF u
<1>5. Claimed \in SUBSET Vertex
  BY DEF Claimed
<1> QED
  BY <1>1, <1>2, <1>3, <1>4, <1>5, ArcType, RelaxFits DEF u

\* The invariant survives every relaxation.
LEMMA RelaxIInv ==
    ASSUME IInv, NEW w \in Worker, Relax(w)
    PROVE  IInv'
<1> DEFINE u   == v(w)
           wt  == Neighbors[u][arc[w]].weight
           nbr == Neighbors[u][arc[w]].vertex
           d   == vdist[w] + wt
<1>1. /\ pc[w] = "relax" /\ arc[w] <= degree(u)
      /\ arc' = [arc EXCEPT ![w] = @ + 1]
      /\ UNCHANGED <<is_expanded, being_expanded, lock, is_done, pc, cursor, itv, vdist>>
  BY DEF Relax
<1>2. /\ u \in Vertex /\ nbr \in Vertex /\ Plus(vdist[w], wt) = d
      /\ d \in Nat /\ d < IntMax /\ d <= MaxWeight * Cardinality(Claimed)
  BY <1>1, RelaxLowers, BudgetFits, GraphAssumption
<1>3. IF d < gpred[nbr].distance
      THEN /\ gpred' = [gpred EXCEPT ![nbr] = [distance |-> d, pred |-> u]]
           /\ M' = Inserted(M, EntryOf(d, nbr))
      ELSE UNCHANGED <<gpred, M>>
  BY <1>2 DEF Relax
<1>4. TypeOK /\ Claimed' = Claimed /\ Claimed \in SUBSET Vertex
  BY <1>1 DEF IInv, Claimed
<1>5. BudgetOf(gpred, Claimed) /\ gpred[source].distance = 0 /\ source \in Vertex
  BY GraphAssumption DEF IInv, DistanceInv
<1> HIDE DEF d, nbr, u, wt
<1>6. EntryOf(d, nbr) \in Entry /\ EntryOf(d, nbr).vertex = nbr
  <2>1. d \in Int
    BY <1>2
  <2> QED
    BY <1>2, <2>1, EntryType DEF EntryOf
<1>7. /\ M' \in Seq(Entry)
      /\ \A e : Queued(e) => Queued(e)'
      /\ \A i \in DOMAIN M' : \/ M'[i] = EntryOf(d, nbr) /\ d < gpred[nbr].distance
                              \/ \E j \in DOMAIN M : M'[i] = M[j]
  <2>1. CASE d < gpred[nbr].distance
    <3>1. M' = Inserted(M, EntryOf(d, nbr)) /\ M \in Seq(Entry)
      BY <1>3, <1>4, <2>1 DEF TypeOK
    <3> QED
      BY <1>6, <2>1, <3>1, InsertedFacts DEF Queued
  <2>2. CASE ~(d < gpred[nbr].distance)
    BY <1>3, <1>4, <2>2 DEF TypeOK, Queued
  <2> QED
    BY <2>1, <2>2
<1>8. TypeOK'
  <2>1. arc' \in [Worker -> Nat]
    BY <1>1, <1>4 DEF TypeOK
  <2>2. [distance |-> d, pred |-> u] \in VertPack
    BY <1>2 DEF VertPack
  <2>3. gpred' \in [Vertex -> VertPack]
    BY <1>2, <1>3, <1>4, <2>2 DEF TypeOK
  <2> QED
    BY <1>1, <1>4, <1>7, <2>1, <2>3 DEF TypeOK
<1>9. /\ BudgetOf(gpred', Claimed)
      /\ \A x \in Vertex : /\ gpred'[x].distance \in Nat /\ gpred[x].distance \in Nat
                           /\ gpred'[x].distance <= gpred[x].distance
                           /\ gpred[x].distance # IntMax => gpred'[x].distance # IntMax
  <2>1. CASE d < gpred[nbr].distance
    <3>1. gpred'[nbr].distance = d /\ \A x \in Vertex : x # nbr => gpred'[x].distance = gpred[x].distance
      BY <1>2, <1>3, <1>4, <2>1 DEF TypeOK
    <3> QED
      BY <1>2, <1>4, <1>5, <2>1, <3>1, BudgetRelax
  <2>2. CASE ~(d < gpred[nbr].distance)
    BY <1>3, <1>5, <2>2 DEF BudgetOf
  <2> QED
    BY <2>1, <2>2
<1>10. DistanceInv'
  <2>1. gpred'[source].distance = 0
    BY <1>5, <1>9
  <2>2. ASSUME NEW i \in DOMAIN M' PROVE gpred'[M'[i].vertex].distance # IntMax
    <3>1. CASE M'[i] = EntryOf(d, nbr) /\ d < gpred[nbr].distance
      <4>1. M'[i].vertex = nbr /\ gpred'[nbr].distance = d
        BY <1>2, <1>3, <1>4, <1>6, <3>1 DEF TypeOK
      <4> QED
        BY <1>2, <4>1
    <3>2. ASSUME NEW j \in DOMAIN M, M'[i] = M[j] PROVE gpred'[M'[i].vertex].distance # IntMax
      <4>1. gpred[M[j].vertex].distance # IntMax
        BY DEF IInv, DistanceInv
      <4>2. M[j] \in Entry
        BY <1>4 DEF TypeOK
      <4> QED
        BY <1>9, <3>2, <4>1, <4>2 DEF Entry
    <3> QED
      BY <1>7, <3>1, <3>2
  <2> QED
    BY <1>4, <1>9, <2>1, <2>2 DEF DistanceInv
<1>11. Exclusive'
  BY <1>1 DEF IInv, Exclusive, Holding, v
<1>12. ASSUME NEW x \in Worker PROVE WorkerInv(x)'
  <2>1. WorkerInv(x) /\ v(x) \in Vertex /\ vdist[x] \in Int /\ arc[x] \in Nat /\ v(x)' = v(x)
    BY <1>1, <1>4 DEF IInv, TypeOK, v, Entry
  <2>2. HolderInv(x)'
    BY <1>1, <1>7, <2>1 DEF WorkerInv, HolderInv, Holding
  <2>3. StaleFromAbove(x)'
    BY <1>1, <1>4, <1>9, <2>1 DEF WorkerInv, StaleFromAbove
  <2>4. UnderLock(x)'
    BY <1>1, <1>4, <2>1 DEF WorkerInv, UnderLock, TypeOK
  <2> QED
    BY <2>2, <2>3, <2>4 DEF WorkerInv
<1> QED
  BY <1>8, <1>10, <1>11, <1>12 DEF IInv

\* A claim opens the budget of one more arc, and its vertex had no holder.
LEMMA ClaimIInv ==
    ASSUME IInv, NEW w \in Worker, ScanClaim(w)
    PROVE  IInv'
<1> DEFINE e == M[cursor[w]]
           x == e.vertex
<1>1. /\ TypeOK /\ pc[w] = "scan" /\ cursor[w] \in DOMAIN M /\ e \in Entry /\ x \in Vertex
      /\ ~is_expanded[x] /\ ~being_expanded[x] /\ lock = w
      /\ being_expanded' = [being_expanded EXCEPT ![x] = TRUE]
      /\ itv' = [itv EXCEPT ![w] = e]
      /\ lock' = Free /\ cursor' = [cursor EXCEPT ![w] = 0]
      /\ UNCHANGED <<gpred, is_expanded, M, is_done, vdist, arc>>
  <2>1. TypeOK /\ pc[w] = "scan" /\ cursor[w] <= Len(M) /\ cursor[w] > 0 /\ lock = w
    BY DEF ScanClaim, Scanning, IInv, WorkerInv, UnderLock
  <2>2. cursor[w] \in DOMAIN M /\ e \in Entry
    BY <2>1 DEF TypeOK
  <2> QED
    BY <2>1, <2>2 DEF ScanClaim, valid, Entry
<1>2. gpred[x].distance # IntMax
  BY <1>1 DEF IInv, DistanceInv
<1>3. \E i \in DOMAIN M' : M'[i] = e
  BY <1>1
<1> HIDE DEF e
<1>4. \E l \in {"found", "dist"} : Goto(w, l)
  BY DEF ScanClaim
<1>5. /\ pc'[w] \in {"found", "dist"} /\ itv'[w] = e /\ being_expanded'[x]
      /\ \A y \in Worker : y # w => pc'[y] = pc[y] /\ itv'[y] = itv[y] /\ cursor'[y] = cursor[y]
      /\ \A y \in Vertex : being_expanded[y] => being_expanded'[y]
  BY <1>1, <1>4 DEF Goto, TypeOK
<1>6. TypeOK'
  BY <1>1, <1>4 DEF Goto, TypeOK
<1>7. Claimed' = Claimed \cup {x} /\ Claimed \in SUBSET Vertex /\ x \notin Claimed
  BY <1>1 DEF Claimed, TypeOK
<1>8. /\ BudgetOf(gpred, Claimed')
      /\ MaxWeight * (Cardinality(Claimed) - 1) <= MaxWeight * (Cardinality(Claimed') - 1)
  BY <1>1, <1>2, <1>7, BudgetExpand DEF IInv, DistanceInv
<1>9. DistanceInv'
  BY <1>1, <1>8 DEF IInv, DistanceInv
<1>10. ASSUME NEW u \in Worker, u # w, Holding(u)
       PROVE  v(u) # x /\ v(u) \in Vertex
  BY <1>1, <1>10 DEF IInv, TypeOK, Entry, v, WorkerInv, HolderInv
<1>11. Exclusive'
  <2>1. v(w)' = x /\ \A u \in Worker : u # w => v(u)' = v(u) /\ (Holding(u)' <=> Holding(u))
    BY <1>5 DEF v, Holding
  <2> QED
    BY <1>10, <2>1 DEF IInv, Exclusive
<1>12. ASSUME NEW y \in Worker PROVE WorkerInv(y)'
  <2>1. WorkerInv(y) /\ v(y) \in Vertex /\ vdist[y] \in Int
    BY <1>1 DEF IInv, TypeOK, v, Entry
  <2>2. HolderInv(y)'
    <3>1. CASE y = w
      <4>1. v(w)' = x /\ Queued(itv[w])'
        BY <1>3, <1>5 DEF v, Queued
      <4> QED
        BY <1>1, <1>5, <3>1, <4>1 DEF HolderInv
    <3>2. CASE y # w
      BY <1>1, <1>5, <2>1, <3>2 DEF WorkerInv, HolderInv, Holding, v, Queued
    <3> QED
      BY <3>1, <3>2
  <2>3. StaleFromAbove(y)'
    <3>1. SUFFICES ASSUME y # w, pc[y] \in {"lock", "relax"}
                   PROVE  vdist[y] <= MaxWeight * (Cardinality(Claimed') - 1)
      BY <1>1, <1>5, <2>1 DEF WorkerInv, StaleFromAbove, v
    <3>2. vdist[y] <= MaxWeight * (Cardinality(Claimed) - 1)
      BY <2>1, <3>1 DEF WorkerInv, StaleFromAbove
    <3>3. /\ MaxWeight * (Cardinality(Claimed) - 1) \in Int
          /\ MaxWeight * (Cardinality(Claimed') - 1) \in Int
      BY <1>1, <1>7, BudgetFits
    <3> QED
      BY <1>8, <2>1, <3>2, <3>3
  <2>4. UnderLock(y)'
    BY <1>1, <1>5, <2>1, PaseAssumption DEF WorkerInv, UnderLock
  <2> QED
    BY <2>2, <2>3, <2>4 DEF WorkerInv
<1> QED
  BY <1>6, <1>9, <1>11, <1>12 DEF IInv

\* An erased entry is nobody's but the eraser's: what other workers hold stays.
LEMMA EraseKeeps ==
    ASSUME IInv, NEW k \in DOMAIN M, M' = RemoveAt(M, k)
    PROVE  /\ M' \in Seq(Entry)
           /\ \A i \in DOMAIN M' : gpred[M'[i].vertex].distance # IntMax
           /\ \A u \in Worker : Holding(u) /\ v(u) # M[k].vertex => \E i \in DOMAIN M' : M'[i] = itv[u]
<1>1. M \in Seq(Entry)
  BY DEF IInv, TypeOK
<1>2. /\ M' \in Seq(Entry)
      /\ \A i \in DOMAIN M' : \E j \in DOMAIN M : M'[i] = M[j]
      /\ \A j \in DOMAIN M : M[j] # M[k] => \E i \in DOMAIN M' : M'[i] = M[j]
  BY <1>1, RemovedFacts
<1>3. ASSUME NEW i \in DOMAIN M' PROVE gpred[M'[i].vertex].distance # IntMax
  BY <1>2 DEF IInv, DistanceInv
<1>4. ASSUME NEW u \in Worker, Holding(u), v(u) # M[k].vertex
      PROVE  \E i \in DOMAIN M' : M'[i] = itv[u]
  <2>1. PICK j \in DOMAIN M : M[j] = itv[u]
    BY <1>4 DEF IInv, WorkerInv, HolderInv, Queued
  <2>2. M[j] # M[k]
    BY <1>4, <2>1 DEF v
  <2> QED
    BY <1>2, <2>1, <2>2
<1> QED
  BY <1>2, <1>3, <1>4

\* A scan erases an entry of an expanded vertex: no holder's.
LEMMA ScanEraseIInv ==
    ASSUME IInv, NEW w \in Worker, ScanErase(w)
    PROVE  IInv'
<1>1. /\ TypeOK /\ cursor[w] \in DOMAIN M /\ is_expanded[M[cursor[w]].vertex]
      /\ M' = RemoveAt(M, cursor[w])
      /\ UNCHANGED <<gpred, is_expanded, being_expanded, lock, is_done, pc, lvars>>
  <2>1. TypeOK /\ pc[w] = "scan" /\ cursor[w] <= Len(M) /\ cursor[w] > 0
    BY DEF ScanErase, Scanning, IInv, WorkerInv, UnderLock
  <2>2. cursor[w] \in DOMAIN M
    BY <2>1 DEF TypeOK
  <2> QED
    BY <2>1, <2>2 DEF ScanErase
<1>2. /\ M' \in Seq(Entry)
      /\ \A i \in DOMAIN M' : gpred[M'[i].vertex].distance # IntMax
      /\ \A u \in Worker : Holding(u) /\ v(u) # M[cursor[w]].vertex => \E i \in DOMAIN M' : M'[i] = itv[u]
  BY <1>1, EraseKeeps
<1>3. TypeOK'
  BY <1>1, <1>2 DEF TypeOK, lvars
<1>4. Claimed' = Claimed /\ BudgetOf(gpred', Claimed')
  BY <1>1 DEF Claimed, IInv, DistanceInv
<1>5. DistanceInv' /\ Exclusive'
  BY <1>1, <1>2, <1>4 DEF IInv, DistanceInv, Exclusive, Holding, v, lvars
<1>6. ASSUME NEW u \in Worker PROVE WorkerInv(u)'
  <2>1. WorkerInv(u)
    BY DEF IInv
  <2>2. HolderInv(u)'
    BY <1>1, <1>2, <2>1 DEF WorkerInv, HolderInv, Holding, v, Queued, lvars
  <2>3. StaleFromAbove(u)' /\ UnderLock(u)'
    BY <1>1, <1>4, <2>1 DEF WorkerInv, StaleFromAbove, UnderLock, v, lvars
  <2> QED
    BY <2>2, <2>3 DEF WorkerInv
<1> QED
  BY <1>3, <1>5, <1>6 DEF IInv

\* The end of an expansion erases the entry of its own vertex, no other holder's.
LEMMA FinishIInv ==
    ASSUME IInv, NEW w \in Worker, Finish(w)
    PROVE  IInv'
<1> DEFINE k == CHOOSE i \in DOMAIN M : M[i] = itv[w]
<1>1. /\ TypeOK /\ pc[w] = "relax" /\ lock = w /\ v(w) \in Vertex
      /\ is_expanded' = [is_expanded EXCEPT ![v(w)] = TRUE]
      /\ M' = RemoveAt(M, k) /\ lock' = Free
      /\ arc' = [arc EXCEPT ![w] = 0] /\ vdist' = [vdist EXCEPT ![w] = 0] /\ Goto(w, "loop")
      /\ UNCHANGED <<gpred, being_expanded, is_done, cursor, itv>>
  BY DEF Finish, Erased, IInv, WorkerInv, UnderLock, TypeOK, v, Entry
<1>2. k \in DOMAIN M /\ M[k] = itv[w]
  BY <1>1 DEF IInv, WorkerInv, HolderInv, Holding, Queued
<1> HIDE DEF k
<1>3. /\ M' \in Seq(Entry)
      /\ \A i \in DOMAIN M' : gpred[M'[i].vertex].distance # IntMax
      /\ \A u \in Worker : Holding(u) /\ v(u) # M[k].vertex => \E i \in DOMAIN M' : M'[i] = itv[u]
  BY <1>1, <1>2, EraseKeeps
<1>4. TypeOK'
  BY <1>1, <1>3 DEF TypeOK, Goto
<1>5. /\ pc'[w] = "loop"
      /\ \A u \in Worker : u # w => pc'[u] = pc[u] /\ arc'[u] = arc[u] /\ vdist'[u] = vdist[u]
  BY <1>1 DEF TypeOK, Goto
<1>6. Claimed' = Claimed /\ BudgetOf(gpred', Claimed')
  BY <1>1 DEF Claimed, IInv, DistanceInv
<1>7. DistanceInv' /\ Exclusive'
  BY <1>1, <1>3, <1>5, <1>6 DEF IInv, DistanceInv, Exclusive, Holding, v
<1>8. ASSUME NEW u \in Worker PROVE WorkerInv(u)'
  <2>1. WorkerInv(u) /\ v(u) \in Vertex
    BY <1>1 DEF IInv, TypeOK, v, Entry
  <2>2. CASE u = w
    BY <1>1, <1>5, <2>2, PaseAssumption DEF WorkerInv, HolderInv, StaleFromAbove, UnderLock, Holding
  <2>3. CASE u # w
    <3>1. Holding(u) => v(u) # v(w)
      BY <1>1, <2>3 DEF IInv, Exclusive, Holding
    <3>2. HolderInv(u)'
      <4>1. SUFFICES ASSUME Holding(u) PROVE HolderInv(u)'
        BY <1>5, <2>3 DEF HolderInv, Holding
      <4>2. being_expanded[v(u)] /\ ~is_expanded[v(u)] /\ v(u)' = v(u)
        BY <1>1, <2>1, <4>1 DEF WorkerInv, HolderInv, v
      <4>3. ~is_expanded'[v(u)]
        BY <1>1, <2>1, <3>1, <4>1, <4>2 DEF TypeOK
      <4>4. Queued(itv[u])'
        BY <1>1, <1>2, <1>3, <3>1, <4>1 DEF Queued, v
      <4> QED
        BY <1>1, <4>2, <4>3, <4>4 DEF HolderInv
    <3>3. StaleFromAbove(u)' /\ UnderLock(u)'
      BY <1>1, <1>5, <1>6, <2>1, <2>3, PaseAssumption DEF WorkerInv, StaleFromAbove, UnderLock, v
    <3> QED
      BY <3>2, <3>3 DEF WorkerInv
  <2> QED
    BY <2>2, <2>3
<1> QED
  BY <1>4, <1>7, <1>8 DEF IInv

\* The steps that change nothing but the worker itself and the lock.
LEMMA QuietIInv ==
    ASSUME IInv, NEW w \in Worker,
           \/ Start(w) \/ Loop(w) \/ FindLock(w) \/ ScanEnd(w) \/ ScanNext(w)
           \/ Found(w) \/ ReadDistance(w) \/ Lock(w)
    PROVE  IInv'
<1>1. TypeOK /\ UNCHANGED <<gpred, is_expanded, being_expanded, M, itv>>
  BY DEF IInv, Start, Loop, FindLock, ScanEnd, ScanNext, Found, ReadDistance, Lock, lvars, qvars
<1>2. Claimed' = Claimed /\ BudgetOf(gpred', Claimed')
  BY <1>1 DEF Claimed, IInv, DistanceInv
<1>3. DistanceInv'
  BY <1>1, <1>2 DEF IInv, DistanceInv
<1>4. /\ \A u \in Worker : u # w => /\ pc'[u] = pc[u] /\ cursor'[u] = cursor[u]
                                    /\ vdist'[u] = vdist[u] /\ arc'[u] = arc[u]
                                    /\ lock' = u <=> lock = u
      /\ Holding(w)' => Holding(w)
  BY <1>1, PaseAssumption DEF IInv, WorkerInv, UnderLock, Start, Loop, FindLock, ScanEnd, ScanNext, Found, ReadDistance,
     Lock, Goto, lvars, qvars, Holding, TypeOK
<1>5. Exclusive'
  BY <1>1, <1>4 DEF IInv, Exclusive, Holding, v
<1>6. v(w) \in Vertex /\ gpred[v(w)].distance \in Nat /\ v(w)' = v(w)
  BY <1>1 DEF IInv, TypeOK, DistanceInv, BudgetOf, v, Entry
<1>7. TypeOK'
  <2>1. /\ lock' \in {lock, w, Free}
        /\ arc' \in {arc, [arc EXCEPT ![w] = 1]}
        /\ cursor' \in {cursor, [cursor EXCEPT ![w] = 0], [cursor EXCEPT ![w] = 1],
                        [cursor EXCEPT ![w] = cursor[w] + 1]}
    BY DEF Start, Loop, FindLock, ScanEnd, ScanNext, Found, ReadDistance, Lock, lvars, qvars
  <2>2. lock' \in Worker \cup {Free} /\ arc' \in [Worker -> Nat]
    BY <1>1, <2>1 DEF TypeOK
  <2>3. cursor' \in [Worker -> Nat]
    <3>1. cursor \in [Worker -> Nat] /\ cursor[w] + 1 \in Nat
      BY <1>1 DEF TypeOK
    <3>2. \A n \in Nat : [cursor EXCEPT ![w] = n] \in [Worker -> Nat]
      BY <3>1
    <3> QED
      BY <2>1, <3>1, <3>2
  <2>4. vdist' \in [Worker -> Int]
    BY <1>1, <1>6 DEF TypeOK, Start, Loop, FindLock, ScanEnd, ScanNext, Found, ReadDistance, Lock, lvars
  <2>5. \E l \in {"loop", "exit", "find", "scan", "lock", "relax"} : Goto(w, l) \/ UNCHANGED pc
    BY DEF Start, Loop, FindLock, ScanEnd, ScanNext, Found, ReadDistance, Lock
  <2>6. pc' \in [Worker -> {"start", "loop", "find", "scan", "found", "dist", "lock", "relax", "exit"}]
    BY <1>1, <2>5 DEF TypeOK, Goto
  <2> QED
    BY <1>1, <2>2, <2>3, <2>4, <2>6 DEF TypeOK
<1>8. WorkerInv(w)'
  <2>1. WorkerInv(w) /\ cursor[w] \in Nat
    BY <1>1 DEF IInv, TypeOK
  <2>2. HolderInv(w)'
    BY <1>1, <1>4, <2>1 DEF WorkerInv, HolderInv, Queued, v
  <2>3. StaleFromAbove(w)'
    <3>1. CASE ReadDistance(w)
      <4>1. being_expanded[v(w)]
        BY <2>1, <3>1 DEF ReadDistance, WorkerInv, HolderInv, Holding
      <4>2. gpred[v(w)].distance <= MaxWeight * (Cardinality(Claimed) - 1)
        BY <1>6, <4>1 DEF IInv, DistanceInv, BudgetOf, Claimed
      <4>3. vdist'[w] = gpred[v(w)].distance
        BY <1>1, <3>1 DEF ReadDistance, TypeOK
      <4> QED
        BY <1>1, <1>2, <1>6, <4>2, <4>3 DEF StaleFromAbove
    <3>2. CASE ~ReadDistance(w)
      <4>1. (pc'[w] \in {"lock", "relax"} => pc[w] \in {"lock", "relax"}) /\ vdist' = vdist
        BY <1>1, <3>2 DEF TypeOK, Start, Loop, FindLock, ScanEnd, ScanNext, Found, Lock, Goto, lvars, qvars
      <4> QED
        BY <1>1, <1>2, <1>6, <2>1, <4>1 DEF WorkerInv, StaleFromAbove
    <3> QED
      BY <3>1, <3>2
  <2>4. UnderLock(w)'
    BY <1>1, <2>1, PaseAssumption DEF WorkerInv, UnderLock, TypeOK, Start, Loop, FindLock, ScanEnd,
       ScanNext, Found, ReadDistance, Lock, Goto, lvars, qvars
  <2> QED
    BY <2>2, <2>3, <2>4 DEF WorkerInv
<1>9. ASSUME NEW u \in Worker, u # w PROVE WorkerInv(u)'
  BY <1>1, <1>2, <1>4, <1>9 DEF IInv, WorkerInv, HolderInv, StaleFromAbove, UnderLock, Holding, Queued, v
<1> QED
  BY <1>3, <1>5, <1>7, <1>8, <1>9 DEF IInv

\* The invariant is inductive.
LEMMA NextIInv == IInv /\ [Next]_vars => IInv'
<1> SUFFICES ASSUME IInv, [Next]_vars PROVE IInv'
  OBVIOUS
<1>1. ASSUME NEW w \in Worker, Step(w) PROVE IInv'
  BY <1>1, ClaimIInv, RelaxIInv, ScanEraseIInv, FinishIInv, QuietIInv DEF Step
<1>2. CASE UNCHANGED vars
  <2>1. Claimed' = Claimed /\ BudgetOf(gpred', Claimed')
    BY <1>2 DEF vars, Claimed, IInv, DistanceInv
  <2> QED
    BY <1>2, <2>1 DEF vars, qvars, lvars, IInv, TypeOK, DistanceInv, Exclusive, WorkerInv, HolderInv,
       StaleFromAbove, UnderLock, Holding, Queued, v
<1> QED
  BY <1>1, <1>2 DEF Next, Return

\* Every behaviour of pase satisfies the invariant.
THEOREM Invariant == SafetySpec => []IInv
BY InitIInv, NextIInv, PTL DEF SafetySpec

\* No worker's iterator is ever invalidated, whatever the scans of the others
\* erase between its critical sections.
THEOREM PaseIteratorsValid == SafetySpec => []IteratorsValid
<1>1. IInv => IteratorsValid
  BY DEF IInv, WorkerInv, HolderInv, Queued, IteratorsValid
<1> QED
  BY <1>1, Invariant, PTL

------------------------------------------------------------------------------
(* The search implements SearchTree *)

\* A step of pase is a claim, a relaxation, or invisible in the states.
LEMMA StepImplements ==
    ASSUME IInv, [Next]_vars
    PROVE  [Tree!Next]_<<rooted, being_expanded>>
<1>1. TypeOK /\ source \in Vertex /\ gpred[source].distance = 0
  BY GraphAssumption DEF IInv, DistanceInv
<1>2. ASSUME UNCHANGED gpred PROVE UNCHANGED rooted
  BY <1>2 DEF rooted
<1>3. \A x \in Vertex : rooted[x].distance = gpred[x].distance
  BY <1>1 DEF rooted, TypeOK
<1>4. ASSUME NEW w \in Worker, ScanClaim(w) PROVE [Tree!Next]_<<rooted, being_expanded>>
  <2> DEFINE e == M[cursor[w]]
             x == e.vertex
  <2>1. cursor[w] \in DOMAIN M
    BY <1>1, <1>4 DEF ScanClaim, Scanning, IInv, WorkerInv, UnderLock, TypeOK
  <2>2. e \in Entry
    BY <1>1, <2>1 DEF TypeOK
  <2>3. gpred[x].distance # IntMax
    BY <2>1 DEF IInv, DistanceInv
  <2>4. /\ ~being_expanded[x] /\ being_expanded' = [being_expanded EXCEPT ![x] = TRUE]
        /\ rooted' = rooted
    BY <1>2, <1>4 DEF ScanClaim, valid
  <2> HIDE DEF e
  <2>5. x \in Vertex
    BY <2>2 DEF Entry
  <2> QED
    BY <1>3, <2>3, <2>4, <2>5 DEF Tree!Next, Tree!Expand, Tree!Reached
<1>5. ASSUME NEW w \in Worker, Relax(w) PROVE [Tree!Next]_<<rooted, being_expanded>>
  <2> DEFINE u   == v(w)
             i   == arc[w]
             nbr == Neighbors[u][i].vertex
             wt  == Neighbors[u][i].weight
             d   == vdist[w] + wt
  <2>1. /\ u \in Vertex /\ i \in 1..degree(u) /\ being_expanded[u] /\ nbr \in Vertex
        /\ wt \in Nat /\ vdist[w] \in Nat
        /\ gpred[u].distance \in Nat /\ gpred[u].distance <= vdist[w]
        /\ Plus(vdist[w], wt) = d /\ d \in 0..IntMax - 1
    BY <1>5, RelaxLowers DEF Relax
  <2>2. being_expanded' = being_expanded
    BY <1>5 DEF Relax
  <2>3. CASE ~(d < gpred[nbr].distance)
    BY <1>2, <1>5, <2>1, <2>2, <2>3 DEF Relax
  <2>4. CASE d < gpred[nbr].distance
    <3>1. gpred' = [gpred EXCEPT ![nbr] = [distance |-> d, pred |-> u]]
      BY <1>5, <2>1, <2>4 DEF Relax
    <3>2. nbr # source
      BY <1>1, <2>1, <2>4
    <3>3. gpred[u].distance + wt <= d
      BY <2>1
    <3> HIDE DEF d, nbr
    <3>4. rooted' = [rooted EXCEPT ![nbr] = [distance |-> d, pred |-> u]]
      BY <1>1, <2>1, <3>1, <3>2 DEF rooted, TypeOK
    <3>5. rooted[u].distance + wt <= d /\ d < rooted[nbr].distance
      BY <1>3, <2>1, <2>4, <3>3
    <3>6. Tree!Relax(u, i, d)
      BY <2>1, <2>2, <3>4, <3>5 DEF Tree!Relax, nbr
    <3>7. u \in Vertex /\ i \in 1..Tree!degree(u) /\ d \in 0..IntMax - 1
      BY <2>1 DEF degree, Tree!degree
    <3> HIDE DEF u, i
    <3>8. Tree!Next
      BY <3>6, <3>7, Zenon DEF Tree!Next
    <3> QED
      BY <3>8
  <2> QED
    BY <2>3, <2>4
<1>6. ASSUME NEW w \in Worker, Step(w), ~ScanClaim(w), ~Relax(w)
      PROVE  UNCHANGED <<rooted, being_expanded>>
  BY <1>2, <1>6 DEF Step, Start, Loop, FindLock, ScanEnd, ScanErase, ScanNext, Found, ReadDistance, Lock,
     Finish
<1>7. CASE UNCHANGED vars
  BY <1>2, <1>7 DEF vars
<1> QED
  BY <1>4, <1>5, <1>6, <1>7 DEF Next, Return

\* pase implements the abstract search, counting a vertex as expanded from its
\* claim: although several vertices are open at once and each is relaxed from
\* a g read outside the lock, every change of the states is one that
\* SearchTree allows.
THEOREM PaseImplementsTree == SafetySpec => ImplementsTree
<1>1. Init => Tree!Init
  <2> SUFFICES ASSUME Init PROVE rooted = InitGpred
    BY DEF Init, Tree!Init, InitGpred, Tree!InitGpred
  <2>1. source \in Vertex
    BY GraphAssumption
  <2>2. gpred = [InitGpred EXCEPT ![source] = [distance |-> 0, pred |-> NoVertex]]
    BY DEF Init
  <2>3. gpred[source].distance = 0
    BY <2>1, <2>2 DEF InitGpred
  <2>4. rooted = [gpred EXCEPT ![source] = [distance |-> 0, pred |-> source]]
    BY <2>3 DEF rooted
  <2> QED
    BY <2>1, <2>2, <2>4 DEF InitGpred
<1>2. IInv /\ [Next]_vars => [Tree!Next]_<<rooted, being_expanded>>
  BY StepImplements
<1> QED
  BY <1>1, <1>2, Invariant, PTL DEF SafetySpec, ImplementsTree, Tree!Spec, Tree!tvars

------------------------------------------------------------------------------
(* Claimed vertices are optimal *)

\* What the code relies on without checking it: no priority exceeds an int.
PrioritiesFit ==
    \A x \in Vertex : MaxWeight * Cardinality(Vertex) + Estimate[x][destination] <= IntMax

Sorted(s) == \A i, j \in DOMAIN s : i < j => s[i].f <= s[j].f

\* The queue is sorted, priorities are at least what they would be now, and a
\* vertex that waits or is being expanded has an entry with its priority.
QueueInv ==
    /\ Sorted(M)
    /\ \A i \in DOMAIN M :
          gpred[M[i].vertex].distance + Estimate[M[i].vertex][destination] <= M[i].f
    /\ \A x \in Vertex :
          gpred[x].distance # IntMax /\ ~is_expanded[x] => Queued(EntryOf(gpred[x].distance, x))

\* The first n arcs of u cannot improve their heads any more.
Relaxed(u, n) ==
    \A j \in 1..degree(u) :
       j <= n => gpred[Neighbors[u][j].vertex].distance <= gpred[u].distance + Neighbors[u][j].weight

\* Expanded vertices are relaxed over all arcs, a vertex in expansion over those
\* before the current one, from the g it has.
ClosedInv ==
    /\ \A u \in Vertex : is_expanded[u] => being_expanded[u] /\ Relaxed(u, degree(u))
    /\ \A w \in Worker : pc[w] \in {"lock", "relax"} => vdist[w] = gpred[v(w)].distance
    /\ \A w \in Worker : pc[w] = "relax" => Relaxed(v(w), arc[w] - 1)

\* Each distance is that of a walk; its arcs start at claimed vertices.
WalksInv ==
    \A x \in Vertex :
       /\ gpred[x].distance # IntMax => WalkWithin(x, Cardinality(Claimed), gpred[x].distance)
       /\ being_expanded[x] => WalkWithin(x, Cardinality(Claimed) - 1, gpred[x].distance)

\* Some bound shows that no walk to x is shorter than its g.
Certified(x) == \E b : LowerBound(b) /\ gpred[x].distance <= b[x]

OptInv == QueueInv /\ ClosedInv /\ WalksInv /\ \A x \in Vertex : being_expanded[x] => Certified(x)

\* multimap::insert keeps the order.
LEMMA InsertedSorted ==
    ASSUME NEW s \in Seq(Entry), NEW e \in Entry, Sorted(s)
    PROVE  Sorted(Inserted(s, e))
<1> DEFINE B == {i \in DOMAIN s : s[i].f <= e.f}
           C == {i \in 1..Len(s) + 1 : i = Len(s) + 1 \/ e.f < s[i].f}
<1>1. Len(s) \in Nat /\ DOMAIN s = 1..Len(s) /\ e.f \in Int
  BY DEF Entry
<1>2. \A i \in 1..Len(s) : s[i].f \in Int
  <2>1. \A i \in 1..Len(s) : s[i] \in Entry
    BY <1>1
  <2> QED
    BY <2>1 DEF Entry
<1>3. C \in SUBSET Nat /\ Len(s) + 1 \in C
  BY <1>1
<1>4. PICK m \in C : \A k \in C : m <= k
  BY <1>3, LeastNumber
<1>5. m \in 1..Len(s) + 1 /\ (m # Len(s) + 1 => e.f < s[m].f)
  BY <1>4
<1>6. ASSUME NEW i \in 1..Len(s), i < m PROVE s[i].f <= e.f
  <2>1. i \notin C
    BY <1>3, <1>4, <1>6
  <2>2. ~(e.f < s[i].f)
    BY <1>1, <2>1
  <2> QED
    BY <1>1, <1>2, <2>2
<1>7. ASSUME NEW i \in 1..Len(s), i >= m PROVE e.f < s[i].f
  <2>1. m \in 1..Len(s) /\ e.f < s[m].f
    BY <1>1, <1>5, <1>7
  <2>2. m < i => s[m].f <= s[i].f
    BY <1>1, <2>1 DEF Sorted
  <2> QED
    BY <1>1, <1>2, <1>7, <2>1, <2>2
<1> HIDE DEF C
<1>8. Cardinality(B) + 1 = m
  <2>1. B = 1..m - 1
    BY <1>1, <1>2, <1>5, <1>6, <1>7
  <2>2. Cardinality(1..m - 1) = IF 1 > m - 1 THEN 0 ELSE (m - 1) - 1 + 1
    BY <1>5, FS_Interval
  <2> HIDE DEF B
  <2> QED
    BY <1>1, <1>5, <2>1, <2>2
<1> DEFINE t == Insertion(s, m, e)
<1>9. Inserted(s, e) = t
  BY <1>8 DEF Inserted, InsertAt, Insertion
<1>10. /\ t \in Seq(Entry) /\ Len(t) = Len(s) + 1 /\ t[m] = e
       /\ \A j \in 1..Len(s) : (j < m => t[j] = s[j]) /\ (j >= m => t[j + 1] = s[j])
  BY <1>5, InsertionFacts
<1> HIDE DEF t, B
<1>11. DOMAIN t = 1..Len(s) + 1
  BY <1>1, <1>10
<1>12. ASSUME NEW i \in DOMAIN t, i > m PROVE i - 1 \in 1..Len(s) /\ i - 1 >= m /\ t[i] = s[i - 1]
  <2>1. i - 1 \in 1..Len(s) /\ i - 1 >= m /\ (i - 1) + 1 = i
    BY <1>1, <1>5, <1>11, <1>12
  <2> QED
    BY <1>10, <2>1
<1>13. ASSUME NEW i \in DOMAIN t, i < m PROVE i \in 1..Len(s) /\ t[i] = s[i]
  BY <1>1, <1>5, <1>10, <1>11, <1>13
<1>14. ASSUME NEW i \in DOMAIN t, NEW j \in DOMAIN t, i < j PROVE t[i].f <= t[j].f
  <2>1. CASE j < m
    <3>1. i < m
      BY <1>1, <1>5, <1>11, <1>14, <2>1
    <3> QED
      BY <1>1, <1>13, <1>14, <2>1, <3>1 DEF Sorted
  <2>2. CASE j = m
    BY <1>6, <1>10, <1>13, <1>14, <2>2
  <2>3. CASE j > m
    <3>1. j - 1 \in 1..Len(s) /\ j - 1 >= m /\ t[j] = s[j - 1] /\ e.f < s[j - 1].f
      BY <1>7, <1>12, <2>3
    <3>2. CASE i < m
      <4>1. i \in 1..Len(s) /\ t[i] = s[i] /\ s[i].f <= e.f
        BY <1>6, <1>13, <3>2
      <4> QED
        BY <1>1, <1>2, <3>1, <4>1
    <3>3. CASE i = m
      BY <1>1, <1>2, <1>10, <3>1, <3>3
    <3>4. CASE i > m
      <4>1. i - 1 \in 1..Len(s) /\ t[i] = s[i - 1] /\ i - 1 < j - 1
        BY <1>11, <1>12, <1>14, <3>4
      <4> QED
        BY <1>1, <3>1, <4>1 DEF Sorted
    <3> QED
      BY <1>5, <1>11, <3>2, <3>3, <3>4
  <2> QED
    BY <1>5, <1>11, <2>1, <2>2, <2>3
<1> QED
  BY <1>9, <1>14 DEF Sorted

\* multimap::insert inserts.
LEMMA InsertedHas ==
    ASSUME NEW s \in Seq(Entry), NEW e \in Entry
    PROVE  \E i \in DOMAIN Inserted(s, e) : Inserted(s, e)[i] = e
<1> DEFINE k == Cardinality({i \in DOMAIN s : s[i].f <= e.f})
           t == Insertion(s, k + 1, e)
<1>1. k \in 0..Len(s) /\ Len(s) \in Nat
  BY CountFits
<1> HIDE DEF k
<1>2. k + 1 \in 1..Len(s) + 1
  BY <1>1
<1>3. t \in Seq(Entry) /\ Len(t) = Len(s) + 1 /\ t[k + 1] = e
  BY <1>2, InsertionFacts
<1> HIDE DEF t
<1>4. k + 1 \in DOMAIN t
  BY <1>2, <1>3
<1>5. Inserted(s, e) = t
  BY DEF Inserted, InsertAt, Insertion, t, k
<1> QED
  BY <1>3, <1>4, <1>5

\* multimap::erase keeps the order.
LEMMA RemovedSorted ==
    ASSUME NEW s \in Seq(Entry), NEW k \in DOMAIN s, Sorted(s)
    PROVE  Sorted(RemoveAt(s, k))
<1> DEFINE t == Removal(s, k)
<1>1. Len(s) \in Nat /\ DOMAIN s = 1..Len(s)
  OBVIOUS
<1>2. /\ t \in Seq(Entry) /\ Len(t) = Len(s) - 1
      /\ \A j \in 1..Len(s) : (j < k => t[j] = s[j]) /\ (j > k => t[j - 1] = s[j])
  <2>1. k \in 1..Len(s)
    BY <1>1
  <2> QED
    BY <2>1, RemovalFacts
<1> HIDE DEF t
<1>3. DOMAIN t = 1..Len(s) - 1
  BY <1>2
<1>4. ASSUME NEW i \in DOMAIN t
      PROVE  /\ i < k => i \in 1..Len(s) /\ t[i] = s[i]
             /\ i >= k => i + 1 \in 1..Len(s) /\ t[i] = s[i + 1]
  <2>1. CASE i < k
    BY <1>1, <1>2, <1>3, <2>1
  <2>2. CASE i >= k
    <3>1. i + 1 \in 1..Len(s) /\ i + 1 > k /\ (i + 1) - 1 = i
      BY <1>1, <1>3, <2>2
    <3> QED
      BY <1>1, <1>2, <2>2, <3>1
  <2> QED
    BY <1>1, <1>3, <2>1, <2>2
<1>5. ASSUME NEW i \in DOMAIN t, NEW j \in DOMAIN t, i < j PROVE t[i].f <= t[j].f
  <2>1. CASE j < k
    <3>1. i < k
      BY <1>1, <1>3, <1>5, <2>1
    <3> QED
      BY <1>1, <1>4, <1>5, <2>1, <3>1 DEF Sorted
  <2>2. CASE j >= k
    <3>1. j + 1 \in 1..Len(s) /\ t[j] = s[j + 1] /\ i < j + 1 /\ i + 1 < j + 1
      BY <1>1, <1>3, <1>4, <1>5, <2>2
    <3>2. CASE i < k
      BY <1>1, <1>4, <3>1, <3>2 DEF Sorted
    <3>3. CASE i >= k
      BY <1>1, <1>4, <3>1, <3>3 DEF Sorted
    <3> QED
      BY <1>1, <1>3, <3>2, <3>3
  <2> QED
    BY <1>1, <1>3, <2>1, <2>2
<1>6. RemoveAt(s, k) = t
  BY DEF RemoveAt, Removal, t
<1> QED
  BY <1>5, <1>6 DEF Sorted

\* A priority that is computed from a g within the budget does not wrap around.
LEMMA PriorityFits ==
    ASSUME PrioritiesFit, NEW x \in Vertex, NEW d \in Nat, NEW E \in SUBSET Vertex,
           d <= MaxWeight * Cardinality(E)
    PROVE  /\ Estimate[x][destination] \in Nat
           /\ EntryOf(d, x) = [f |-> d + Estimate[x][destination], vertex |-> x]
<1> DEFINE a == MaxWeight * Cardinality(E)
           b == MaxWeight * Cardinality(Vertex)
           h == Estimate[x][destination]
<1>1. a \in Nat /\ b \in Nat /\ a <= b
  <2>1. Cardinality(E) \in Nat /\ Cardinality(Vertex) \in Nat /\ Cardinality(E) <= Cardinality(Vertex)
    BY VerticesCard
  <2>2. MaxWeight \in Nat
    BY GraphAssumption
  <2> QED
    BY <2>1, <2>2, Product
<1>2. h \in Nat
  BY PaseAssumption, GraphAssumption
<1>3. b + h <= IntMax /\ IntMax \in Nat
  BY GraphAssumption DEF PrioritiesFit
<1>4. d <= a
  OBVIOUS
<1> HIDE DEF a, b, h
<1>5. d + h <= IntMax
  BY <1>1, <1>2, <1>3, <1>4
<1>6. Plus(d, h) = d + h
  BY <1>5 DEF Plus
<1> QED
  BY <1>2, <1>6 DEF EntryOf, h

\* The first state: only the source waits.
LEMMA InitOpt == ASSUME PrioritiesFit, Init PROVE OptInv
<1>1. source \in Vertex /\ IntMax \in Nat /\ 0 < IntMax
  <2>1. {} \in SUBSET Vertex
    OBVIOUS
  <2>2. 0 < IntMax
    BY <2>1, BudgetFits
  <2> QED
    BY <2>2, GraphAssumption
<1>2. \A x \in Vertex : gpred[x].distance = IF x = source THEN 0 ELSE IntMax
  BY DEF Init, InitGpred
<1>3. Claimed = {} /\ Cardinality(Claimed) = 0
  BY FS_EmptySet DEF Init, Claimed
<1>4. /\ Estimate[source][destination] \in Nat
      /\ EntryOf(0, source) = [f |-> 0 + Estimate[source][destination], vertex |-> source]
  <2>1. {} \in SUBSET Vertex /\ 0 \in Nat /\ 0 <= MaxWeight * Cardinality({})
    BY FS_EmptySet, GraphAssumption
  <2> QED
    BY <1>1, <2>1, PriorityFits
<1>5. DOMAIN M = {1} /\ M[1] = EntryOf(0, source)
  <2>1. M = <<EntryOf(0, source)>>
    BY DEF Init
  <2> QED
    BY <2>1
<1>6. QueueInv
  <2>1. Sorted(M)
    BY <1>5 DEF Sorted
  <2>2. \A i \in DOMAIN M : gpred[M[i].vertex].distance + Estimate[M[i].vertex][destination] <= M[i].f
    BY <1>1, <1>2, <1>4, <1>5
  <2>3. \A x \in Vertex : gpred[x].distance # IntMax => Queued(EntryOf(gpred[x].distance, x))
    BY <1>2, <1>5 DEF Queued
  <2> QED
    BY <2>1, <2>2, <2>3 DEF QueueInv
<1>7. ClosedInv
  BY DEF Init, ClosedInv
<1>8. WalksInv
  BY <1>2, <1>3, WalkStart DEF Init, WalksInv
<1> QED
  BY <1>6, <1>7, <1>8 DEF Init, OptInv

\* What the independence test ensures: the smallest of the present distances and
\* of two distances the estimates give is a bound, exact at the claimed vertex.
LEMMA ClaimCertified ==
    ASSUME Consistent, PrioritiesFit, IInv, OptInv, NEW w \in Worker, ScanClaim(w)
    PROVE  Certified(M[cursor[w]].vertex)
<1> DEFINE k == cursor[w]
           x == M[k].vertex
           g(z) == gpred[z].distance
           h(z) == Estimate[z][destination]
           F == g(x) + h(x)
           a(z) == g(x) - Estimate[z][x]
           c(z) == F - h(z)
           min(p, q) == IF p <= q THEN p ELSE q
           b == [z \in Vertex |-> min(g(z), min(a(z), c(z)))]
<1>1. TypeOK /\ k \in DOMAIN M /\ x \in Vertex /\ ~is_expanded[x] /\ valid(k)
  <2>1. TypeOK /\ k <= Len(M) /\ k > 0 /\ ~is_expanded[x] /\ valid(k)
    BY DEF ScanClaim, Scanning, IInv, WorkerInv, UnderLock
  <2>2. k \in DOMAIN M /\ M[k] \in Entry
    BY <2>1 DEF TypeOK
  <2> QED
    BY <2>1, <2>2 DEF Entry
<1>2. g(x) # IntMax /\ M[k].f \in Int /\ F <= M[k].f /\ BudgetOf(gpred, Claimed) /\ g(source) = 0
  <2>1. M[k] \in Entry
    BY <1>1 DEF TypeOK
  <2>2. M[k].f \in Int
    BY <2>1 DEF Entry
  <2>3. g(x) # IntMax /\ BudgetOf(gpred, Claimed) /\ g(source) = 0
    BY <1>1 DEF IInv, DistanceInv
  <2>4. F <= M[k].f
    BY <1>1 DEF OptInv, QueueInv
  <2> QED
    BY <2>2, <2>3, <2>4
<1>3. \A z \in Vertex : /\ g(z) \in Nat /\ g(z) <= IntMax
                        /\ g(z) # IntMax => g(z) <= MaxWeight * Cardinality(Claimed)
  <2>1. \A z \in Vertex : g(z) \in Nat /\ (g(z) # IntMax => g(z) <= MaxWeight * Cardinality(Claimed))
    BY <1>2 DEF BudgetOf
  <2>2. Claimed \in SUBSET Vertex
    BY DEF Claimed
  <2>3. MaxWeight * Cardinality(Claimed) \in Nat /\ MaxWeight * Cardinality(Claimed) < IntMax
        /\ IntMax \in Nat
    BY <2>2, BudgetFits
  <2> QED
    BY <2>1, <2>3
<1>4. \A z, y \in Vertex : Estimate[z][y] \in Nat
  BY PaseAssumption
<1>5. destination \in Vertex /\ source \in Vertex /\ Estimate[x][x] = 0
  BY <1>1, GraphAssumption DEF Consistent
<1>6. \A i \in 1..k - 1 : g(M[i].vertex) + Estimate[M[i].vertex][x] >= g(x)
  <2>1. \A i \in 1..k - 1 : Plus(g(M[i].vertex), Estimate[M[i].vertex][x]) >= g(x)
    BY <1>1 DEF valid
  <2>2. \A i \in 1..k - 1 : M[i] \in Entry
    BY <1>1 DEF TypeOK
  <2> HIDE DEF x, k
  <2>3. ASSUME NEW i \in 1..k - 1
        PROVE  /\ g(M[i].vertex) \in Nat /\ g(x) \in Nat
               /\ Estimate[M[i].vertex][x] \in Nat
    BY <1>1, <1>3, <1>4, <2>2 DEF Entry
  <2>4. ASSUME NEW p \in Nat, NEW q \in Nat PROVE Plus(p, q) <= p + q /\ Plus(p, q) \in Int
    BY GraphAssumption DEF Plus
  <2>5. ASSUME NEW i \in 1..k - 1 PROVE g(M[i].vertex) + Estimate[M[i].vertex][x] >= g(x)
    <3> DEFINE p == g(M[i].vertex)
               q == Estimate[M[i].vertex][x]
               r == g(x)
    <3>1. p \in Nat /\ q \in Nat /\ r \in Nat /\ Plus(p, q) >= r
      BY <2>1, <2>3
    <3> HIDE DEF p, q, r
    <3>2. p + q >= r
      BY <2>4, <3>1
    <3> QED
      BY <3>2 DEF p, q, r
  <2> QED
    BY <2>5
<1> HIDE DEF x, k
\* A vertex that none of the two estimates undercuts is expanded.
<1>7. ASSUME NEW u \in Vertex, g(u) < a(u), g(u) < c(u) PROVE is_expanded[u]
  <2> SUFFICES ASSUME ~is_expanded[u] PROVE FALSE
    OBVIOUS
  <2>1. g(u) \in Nat /\ g(x) \in Nat /\ Estimate[u][x] \in Nat /\ h(u) \in Nat /\ h(x) \in Nat
    BY <1>1, <1>3, <1>4, <1>5
  <2>2. g(u) # IntMax
    BY <1>1, <1>3, <1>7, <2>1
  <2>3. Queued(EntryOf(g(u), u))
    BY <2>2 DEF OptInv, QueueInv
  <2>4. EntryOf(g(u), u) = [f |-> g(u) + h(u), vertex |-> u]
    <3>1. Claimed \in SUBSET Vertex
      BY DEF Claimed
    <3>2. g(u) <= MaxWeight * Cardinality(Claimed)
      BY <1>3, <2>2
    <3> QED
      BY <2>1, <3>1, <3>2, PriorityFits
  <2>5. PICK i \in DOMAIN M : M[i].f = g(u) + h(u) /\ M[i].vertex = u
    BY <2>3, <2>4 DEF Queued
  <2>6. i \in Nat /\ k \in Nat /\ i > 0
    BY <1>1 DEF TypeOK
  <2>7. CASE i < k
    BY <1>6, <1>7, <2>1, <2>5, <2>6, <2>7
  <2>8. CASE i = k
    <3>1. u = x
      BY <2>5, <2>8 DEF x
    <3> QED
      BY <1>5, <1>7, <2>1, <3>1
  <2>9. CASE i > k
    <3>1. M[k].f <= M[i].f
      BY <1>1, <2>9 DEF OptInv, QueueInv, Sorted
    <3> QED
      BY <1>2, <1>7, <2>1, <2>5, <3>1
  <2> QED
    BY <2>6, <2>7, <2>8, <2>9
<1>8. ASSUME NEW z \in Vertex
      PROVE  /\ g(z) \in Int /\ a(z) \in Int /\ c(z) \in Int
             /\ b[z] \in Int /\ b[z] \in {g(z), a(z), c(z)}
             /\ b[z] <= g(z) /\ b[z] <= a(z) /\ b[z] <= c(z)
  <2>1. g(z) \in Int /\ a(z) \in Int /\ c(z) \in Int
    BY <1>1, <1>3, <1>4, <1>5
  <2>2. b[z] = min(g(z), min(a(z), c(z)))
    OBVIOUS
  <2> HIDE DEF g, a, c, b
  <2> QED
    BY <2>1, <2>2
<1>9. b \in [Vertex -> Int] /\ b[source] <= 0 /\ g(x) <= b[x]
  <2>1. b \in [Vertex -> Int]
    BY <1>8
  <2>2. b[source] <= 0
    BY <1>2, <1>5, <1>8
  <2>3. a(x) = g(x) /\ c(x) = g(x) /\ g(x) \in Int
    BY <1>1, <1>3, <1>4, <1>5
  <2>4. b[x] = g(x)
    BY <1>1, <1>8, <2>3
  <2> QED
    BY <2>1, <2>2, <2>3, <2>4
<1>10. ASSUME NEW u \in Vertex, NEW j \in 1..degree(u)
       PROVE  b[Neighbors[u][j].vertex] <= b[u] + Neighbors[u][j].weight
  <2> DEFINE y == Neighbors[u][j].vertex
             wt == Neighbors[u][j].weight
  <2>1. y \in Vertex /\ wt \in Nat
    BY ArcType
  <2>2. Estimate[u][x] <= wt + Estimate[y][x] /\ h(u) <= wt + h(y)
    BY <1>1, <1>5 DEF Consistent
  <2> HIDE DEF y, wt
  <2>3. a(y) <= a(u) + wt /\ c(y) <= c(u) + wt
    BY <1>1, <1>3, <1>4, <1>5, <2>1, <2>2
  <2>4. b[u] = g(u) /\ g(u) < a(u) /\ g(u) < c(u) => g(y) <= g(u) + wt
    <3> SUFFICES ASSUME g(u) < a(u), g(u) < c(u) PROVE g(y) <= g(u) + wt
      OBVIOUS
    <3>1. Relaxed(u, degree(u))
      BY <1>7 DEF OptInv, ClosedInv
    <3>2. j \in 1..degree(u) /\ j <= degree(u)
      BY DegreeType
    <3> QED
      BY <3>1, <3>2 DEF Relaxed, y, wt
  <2>5. /\ g(u) \in Int /\ a(u) \in Int /\ c(u) \in Int /\ b[u] \in {g(u), a(u), c(u)}
        /\ b[u] <= g(u) /\ b[u] <= a(u) /\ b[u] <= c(u)
    BY <1>8
  <2>6. /\ g(y) \in Int /\ a(y) \in Int /\ c(y) \in Int /\ b[y] \in Int
        /\ b[y] <= g(y) /\ b[y] <= a(y) /\ b[y] <= c(y)
    BY <1>8, <2>1
  <2> HIDE DEF g, a, c, b
  <2>7. b[y] <= b[u] + wt
    <3>1. CASE b[u] = a(u)
      BY <2>1, <2>3, <2>5, <2>6, <3>1
    <3>2. CASE b[u] = c(u)
      BY <2>1, <2>3, <2>5, <2>6, <3>2
    <3>3. CASE b[u] # a(u) /\ b[u] # c(u)
      <4>1. b[u] = g(u) /\ g(u) < a(u) /\ g(u) < c(u)
        BY <2>5, <3>3
      <4> QED
        BY <2>1, <2>4, <2>5, <2>6, <4>1
    <3> QED
      BY <3>1, <3>2, <3>3
  <2> QED
    BY <2>7 DEF y, wt
<1> HIDE DEF b
<1>11. LowerBound(b) /\ gpred[x].distance <= b[x]
  BY <1>9, <1>10 DEF LowerBound
<1>12. Certified(x)
  BY <1>11 DEF Certified
<1> QED
  BY <1>12 DEF x, k

\* A claimed vertex is never improved again.
LEMMA ClaimedFixed ==
    ASSUME IInv, OptInv, NEW w \in Worker, pc[w] = "relax", arc[w] <= degree(v(w))
    PROVE  LET nbr == Neighbors[v(w)][arc[w]].vertex
               d   == vdist[w] + Neighbors[v(w)][arc[w]].weight
           IN  /\ WalkWithin(nbr, Cardinality(Claimed), d)
               /\ vdist[w] = gpred[v(w)].distance
               /\ being_expanded[nbr] => ~(d < gpred[nbr].distance)
<1> DEFINE u   == v(w)
           nbr == Neighbors[u][arc[w]].vertex
           wt  == Neighbors[u][arc[w]].weight
           n   == Cardinality(Claimed) - 1
<1>1. /\ u \in Vertex /\ arc[w] \in 1..degree(u) /\ being_expanded[u] /\ nbr \in Vertex
      /\ wt \in Nat /\ vdist[w] \in Nat
  BY RelaxLowers
<1>2. vdist[w] = gpred[u].distance
  BY DEF OptInv, ClosedInv
<1>3. WalkWithin(u, n, vdist[w])
  BY <1>1, <1>2 DEF OptInv, WalksInv
<1>4. n \in Nat /\ n < Cardinality(Vertex) /\ n + 1 = Cardinality(Claimed) /\ n \in 0..Cardinality(Vertex)
  <2>1. Claimed \in SUBSET Vertex /\ u \in Claimed
    BY <1>1 DEF Claimed
  <2>2. /\ IsFiniteSet(Claimed) /\ Cardinality(Claimed) \in Nat /\ Cardinality(Vertex) \in Nat
        /\ Cardinality(Claimed) <= Cardinality(Vertex)
    BY <2>1, VerticesCard
  <2>3. Cardinality(Claimed) # 0
    BY <2>1, <2>2, FS_EmptySet
  <2> QED
    BY <2>2, <2>3
<1> HIDE DEF n, u
<1>5. WalkWithin(nbr, n + 1, vdist[w] + wt)
  BY <1>1, <1>3, <1>4, WalkOn
<1>6. ASSUME being_expanded[nbr] PROVE ~(vdist[w] + wt < gpred[nbr].distance)
  <2>1. PICK b : LowerBound(b) /\ gpred[nbr].distance <= b[nbr]
    BY <1>1, <1>6 DEF OptInv, Certified
  <2>2. PICK p \in walks[n] : p[1] = u /\ p[2] <= vdist[w]
    BY <1>3 DEF WalkWithin
  <2>3. b[u] <= p[2] /\ p[2] \in Nat
    BY <1>4, <2>1, <2>2, WalkAbove, WalksType DEF WalkEnds
  <2>4. b[u] \in Int /\ b[nbr] \in Int /\ b[nbr] <= b[u] + wt
    BY <1>1, <2>1 DEF LowerBound
  <2>5. gpred[nbr].distance \in Nat
    BY <1>1 DEF IInv, DistanceInv, BudgetOf
  <2> HIDE DEF nbr, wt
  <2> QED
    BY <1>1, <2>1, <2>2, <2>3, <2>4, <2>5
<1> QED
  BY <1>2, <1>4, <1>5, <1>6 DEF u

\* Distances that only fall, and not at relaxed vertices, leave those relaxed.
LEMMA StillRelaxed ==
    ASSUME NEW u \in Vertex, NEW n, Relaxed(u, n), gpred'[u].distance = gpred[u].distance,
           \A x \in Vertex : /\ gpred[x].distance \in Nat /\ gpred'[x].distance \in Nat
                             /\ gpred'[x].distance <= gpred[x].distance
    PROVE  Relaxed(u, n)'
<1> SUFFICES ASSUME NEW j \in 1..degree(u), j <= n
             PROVE  gpred'[Neighbors[u][j].vertex].distance
                       <= gpred'[u].distance + Neighbors[u][j].weight
  BY DEF Relaxed
<1>1. Neighbors[u][j].vertex \in Vertex /\ Neighbors[u][j].weight \in Nat
  BY ArcType
<1>2. gpred[Neighbors[u][j].vertex].distance <= gpred[u].distance + Neighbors[u][j].weight
  BY DEF Relaxed
<1> QED
  BY <1>1, <1>2

\* A relaxation lowers the head of an arc, if at all, to the length of a walk, and
\* queues it.
LEMMA RelaxOpt ==
    ASSUME PrioritiesFit, IInv, OptInv, NEW w \in Worker, Relax(w)
    PROVE  OptInv'
<1> DEFINE u   == v(w)
           wt  == Neighbors[u][arc[w]].weight
           nbr == Neighbors[u][arc[w]].vertex
           d   == vdist[w] + wt
<1>1. /\ TypeOK /\ pc[w] = "relax" /\ arc[w] <= degree(u)
      /\ arc' = [arc EXCEPT ![w] = @ + 1]
      /\ UNCHANGED <<is_expanded, being_expanded, lock, is_done, pc, cursor, itv, vdist>>
      /\ Claimed' = Claimed /\ Claimed \in SUBSET Vertex
  BY DEF Relax, IInv, Claimed
<1>2. /\ u \in Vertex /\ nbr \in Vertex /\ Plus(vdist[w], wt) = d /\ arc[w] \in 1..degree(u)
      /\ d \in Nat /\ d < IntMax /\ d <= MaxWeight * Cardinality(Claimed)
      /\ being_expanded[u] /\ wt \in Nat /\ vdist[w] \in Nat
  BY <1>1, RelaxLowers, BudgetFits, GraphAssumption
<1>3. IF d < gpred[nbr].distance
      THEN /\ gpred' = [gpred EXCEPT ![nbr] = [distance |-> d, pred |-> u]]
           /\ M' = Inserted(M, EntryOf(d, nbr))
      ELSE UNCHANGED <<gpred, M>>
  BY <1>2 DEF Relax
<1>4. /\ WalkWithin(nbr, Cardinality(Claimed), d)
      /\ vdist[w] = gpred[u].distance
      /\ being_expanded[nbr] => ~(d < gpred[nbr].distance)
  BY <1>1, ClaimedFixed
<1>5. \A x \in Vertex : gpred[x].distance \in Nat
  BY DEF IInv, DistanceInv, BudgetOf
<1>6. IntMax \in Nat
  BY GraphAssumption
<1> HIDE DEF d, wt, nbr, u
<1>7. /\ \A x \in Vertex : x # nbr => gpred'[x].distance = gpred[x].distance
      /\ d < gpred[nbr].distance => gpred'[nbr].distance = d
      /\ ~(d < gpred[nbr].distance) => gpred'[nbr].distance = gpred[nbr].distance
  BY <1>1, <1>2, <1>3 DEF TypeOK
<1>8. \A x \in Vertex :
         /\ gpred'[x].distance \in Nat
         /\ gpred'[x].distance <= gpred[x].distance
         /\ being_expanded[x] => gpred'[x].distance = gpred[x].distance
  BY <1>2, <1>4, <1>5, <1>7
<1>9. gpred'[nbr].distance <= d
  BY <1>2, <1>5, <1>7
<1>10. QueueInv'
  <2>1. CASE d < gpred[nbr].distance
    <3>1. M' = Inserted(M, EntryOf(d, nbr)) /\ M \in Seq(Entry) /\ gpred'[nbr].distance = d
      BY <1>1, <1>3, <1>7, <2>1 DEF TypeOK
    <3>2. EntryOf(d, nbr) \in Entry
      BY <1>2, EntryType
    <3>3. /\ Estimate[nbr][destination] \in Nat
          /\ EntryOf(d, nbr) = [f |-> d + Estimate[nbr][destination], vertex |-> nbr]
      BY <1>1, <1>2, PriorityFits
    <3>4. Sorted(M')
      <4>1. Sorted(M)
        BY DEF OptInv, QueueInv
      <4> QED
        BY <3>1, <3>2, <4>1, InsertedSorted
    <3>5. /\ \A i \in DOMAIN M' : M'[i] = EntryOf(d, nbr) \/ \E j \in DOMAIN M : M'[i] = M[j]
          /\ \A j \in DOMAIN M : \E i \in DOMAIN M' : M'[i] = M[j]
          /\ M' \in Seq(Entry)
      BY <3>1, <3>2, InsertedFacts
    <3>6. \E i \in DOMAIN M' : M'[i] = EntryOf(d, nbr)
      BY <3>1, <3>2, InsertedHas
    <3>7. ASSUME NEW i \in DOMAIN M'
          PROVE  gpred'[M'[i].vertex].distance + Estimate[M'[i].vertex][destination] <= M'[i].f
      <4>1. CASE M'[i] = EntryOf(d, nbr)
        BY <1>2, <3>1, <3>3, <4>1
      <4>2. ASSUME NEW j \in DOMAIN M, M'[i] = M[j]
            PROVE  gpred'[M'[i].vertex].distance + Estimate[M'[i].vertex][destination] <= M'[i].f
        <5>1. M[j] \in Entry
          BY <3>1
        <5>2. M[j].vertex \in Vertex /\ M[j].f \in Int
          BY <5>1 DEF Entry
        <5>3. gpred[M[j].vertex].distance + Estimate[M[j].vertex][destination] <= M[j].f
          BY DEF OptInv, QueueInv
        <5>4. Estimate[M[j].vertex][destination] \in Nat
          BY <5>2, PaseAssumption, GraphAssumption
        <5> QED
          BY <1>5, <1>8, <4>2, <5>2, <5>3, <5>4
      <4> QED
        BY <3>5, <4>1, <4>2
    <3>8. ASSUME NEW x \in Vertex, gpred'[x].distance # IntMax, ~is_expanded[x]
          PROVE  \E i \in DOMAIN M' : M'[i] = EntryOf(gpred'[x].distance, x)
      <4>1. CASE x = nbr
        BY <3>1, <3>6, <4>1
      <4>2. CASE x # nbr
        <5>1. gpred'[x].distance = gpred[x].distance
          BY <1>7, <4>2
        <5>2. PICK j \in DOMAIN M : M[j] = EntryOf(gpred[x].distance, x)
          BY <3>8, <5>1 DEF OptInv, QueueInv, Queued
        <5> QED
          BY <3>5, <5>1, <5>2
      <4> QED
        BY <4>1, <4>2
    <3> QED
      BY <1>1, <3>4, <3>7, <3>8 DEF QueueInv, Queued, EntryOf
  <2>2. CASE ~(d < gpred[nbr].distance)
    BY <1>1, <1>3, <2>2 DEF OptInv, QueueInv, Queued, EntryOf
  <2> QED
    BY <2>1, <2>2
<1>11. ClosedInv'
  <2>1. ASSUME NEW x \in Vertex, is_expanded'[x] PROVE being_expanded'[x] /\ Relaxed(x, degree(x))'
    <3>1. being_expanded[x] /\ Relaxed(x, degree(x))
      BY <1>1, <2>1 DEF OptInv, ClosedInv
    <3> QED
      BY <1>1, <1>5, <1>8, <3>1, StillRelaxed
  <2>2. ASSUME NEW y \in Worker, pc'[y] \in {"lock", "relax"}
        PROVE  /\ vdist'[y] = gpred'[v(y)].distance /\ v(y) \in Vertex /\ v(y)' = v(y)
               /\ gpred'[v(y)].distance = gpred[v(y)].distance
    <3>1. v(y) \in Vertex /\ v(y)' = v(y) /\ vdist'[y] = vdist[y]
      BY <1>1 DEF TypeOK, v, Entry
    <3>2. being_expanded[v(y)] /\ vdist[y] = gpred[v(y)].distance
      BY <1>1, <2>2 DEF IInv, WorkerInv, HolderInv, Holding, OptInv, ClosedInv
    <3> QED
      BY <1>8, <3>1, <3>2
  <2>3. ASSUME NEW y \in Worker, pc'[y] = "relax" PROVE Relaxed(v(y), arc[y] - 1)'
    <3>1. pc[y] = "relax" /\ y = w
      BY <1>1, <2>3 DEF IInv, WorkerInv, UnderLock
    <3>2. Relaxed(u, arc[w] - 1) /\ arc'[w] - 1 = arc[w] /\ arc[w] \in Nat
      BY <1>1, <3>1 DEF OptInv, ClosedInv, TypeOK, u
    <3>3. v(y)' = u /\ gpred'[u].distance = gpred[u].distance
      BY <1>1, <2>2, <2>3, <3>1 DEF u
    <3>4. ASSUME NEW j \in 1..degree(u), j <= arc[w]
          PROVE  gpred'[Neighbors[u][j].vertex].distance
                    <= gpred'[u].distance + Neighbors[u][j].weight
      <4>1. CASE j = arc[w]
        BY <1>4, <1>9, <3>3, <4>1 DEF d, wt, nbr
      <4>2. CASE j # arc[w]
        <5>1. j <= arc[w] - 1
          BY <3>2, <3>4, <4>2
        <5>2. gpred[Neighbors[u][j].vertex].distance <= gpred[u].distance + Neighbors[u][j].weight
          BY <3>2, <5>1 DEF Relaxed
        <5>3. Neighbors[u][j].vertex \in Vertex /\ Neighbors[u][j].weight \in Nat
          BY <1>2, ArcType
        <5> QED
          BY <1>2, <1>5, <1>8, <3>3, <5>2, <5>3
      <4> QED
        BY <4>1, <4>2
    <3> QED
      BY <3>1, <3>2, <3>3, <3>4 DEF Relaxed
  <2> QED
    BY <2>1, <2>2, <2>3 DEF ClosedInv
<1>12. WalksInv'
  BY <1>1, <1>4, <1>7, <1>8 DEF OptInv, WalksInv
<1>13. ASSUME NEW x \in Vertex, being_expanded'[x] PROVE Certified(x)'
  <2>1. Certified(x) /\ gpred'[x].distance = gpred[x].distance
    BY <1>1, <1>8, <1>13 DEF OptInv
  <2> QED
    BY <2>1 DEF Certified
<1> QED
  BY <1>10, <1>11, <1>12, <1>13 DEF OptInv

\* A claim allows walks of one arc more.
LEMMA ClaimWalks ==
    ASSUME IInv, OptInv, NEW w \in Worker, ScanClaim(w)
    PROVE  WalksInv'
<1> DEFINE x == M[cursor[w]].vertex
           n == Cardinality(Claimed)
<1>1. /\ TypeOK /\ x \in Vertex /\ ~being_expanded[x] /\ gpred[x].distance # IntMax
      /\ being_expanded' = [being_expanded EXCEPT ![x] = TRUE] /\ gpred' = gpred
  <2>1. TypeOK /\ cursor[w] <= Len(M) /\ cursor[w] > 0
    BY DEF ScanClaim, Scanning, IInv, WorkerInv, UnderLock
  <2>2. cursor[w] \in DOMAIN M /\ M[cursor[w]] \in Entry
    BY <2>1 DEF TypeOK
  <2>3. gpred[x].distance # IntMax
    BY <2>2 DEF IInv, DistanceInv
  <2> QED
    BY <2>1, <2>2, <2>3 DEF ScanClaim, valid, Entry
<1> HIDE DEF x
<1>2. Claimed' = Claimed \cup {x} /\ Claimed \in SUBSET Vertex /\ x \notin Claimed
  BY <1>1 DEF Claimed, TypeOK
<1>3. n \in Nat /\ Cardinality(Claimed') = n + 1 /\ n < Cardinality(Vertex)
  <2>1. IsFiniteSet(Claimed) /\ n \in Nat
    BY <1>2, VerticesCard
  <2>2. Cardinality(Claimed') = n + 1
    BY <1>2, <2>1, FS_AddElement
  <2>3. Claimed' \in SUBSET Vertex
    BY <1>1, <1>2
  <2>4. n + 1 <= Cardinality(Vertex) /\ Cardinality(Vertex) \in Nat
    BY <2>2, <2>3, VerticesCard
  <2> QED
    BY <2>1, <2>2, <2>4
<1>4. ASSUME NEW y \in Vertex, gpred[y].distance # IntMax
      PROVE  WalkWithin(y, n, gpred[y].distance) /\ WalkWithin(y, n + 1, gpred[y].distance)
  <2>1. WalkWithin(y, n, gpred[y].distance) /\ gpred[y].distance \in Int
    BY <1>4 DEF OptInv, WalksInv, IInv, DistanceInv, BudgetOf
  <2> HIDE DEF n
  <2> QED
    BY <1>3, <2>1, WalkOn
<1>5. ASSUME NEW y \in Vertex, being_expanded[y] PROVE gpred[y].distance # IntMax
  <2>1. y \in Claimed
    BY <1>5 DEF Claimed
  <2>2. gpred[y].distance <= MaxWeight * (n - 1) /\ gpred[y].distance \in Nat
    BY <2>1 DEF IInv, DistanceInv, BudgetOf
  <2>3. /\ MaxWeight * n \in Nat /\ MaxWeight * (n - 1) \in Int
        /\ MaxWeight * (n - 1) + MaxWeight = MaxWeight * n /\ MaxWeight * n < IntMax
        /\ IntMax \in Nat /\ MaxWeight \in Nat
    BY <1>2, BudgetFits
  <2> HIDE DEF n
  <2> QED
    BY <2>2, <2>3
<1>6. Cardinality(Claimed)' = n + 1 /\ (n + 1) - 1 = n
  BY <1>3
<1>7. ASSUME NEW y \in Vertex, being_expanded'[y] PROVE gpred[y].distance # IntMax
  BY <1>1, <1>5, <1>7 DEF TypeOK
<1> HIDE DEF n
<1> QED
  BY <1>1, <1>4, <1>6, <1>7 DEF WalksInv

\* A claim adds a vertex that the independence test certifies.
LEMMA ClaimOpt ==
    ASSUME Consistent, PrioritiesFit, IInv, OptInv, NEW w \in Worker, ScanClaim(w)
    PROVE  OptInv'
<1> DEFINE x == M[cursor[w]].vertex
<1>1. /\ TypeOK /\ being_expanded' = [being_expanded EXCEPT ![x] = TRUE]
      /\ \A y \in Worker : y # w => pc'[y] = pc[y] /\ itv'[y] = itv[y]
      /\ pc'[w] \in {"found", "dist"}
      /\ UNCHANGED <<gpred, is_expanded, M, is_done, vdist, arc>>
  <2>1. \E l \in {"found", "dist"} : Goto(w, l)
    BY DEF ScanClaim
  <2>2. TypeOK
    BY DEF IInv
  <2>3. \A y \in Worker : y # w => itv'[y] = itv[y]
    BY <2>2 DEF ScanClaim, TypeOK
  <2> QED
    BY <2>1, <2>2, <2>3 DEF ScanClaim, Goto, TypeOK
<1>2. Certified(x)
  BY ClaimCertified
<1> HIDE DEF x
<1>3. QueueInv'
  BY <1>1 DEF OptInv, QueueInv, Queued, EntryOf
<1>4. ClosedInv'
  <2>1. \A u \in Vertex : is_expanded'[u] => being_expanded'[u] /\ Relaxed(u, degree(u))'
    BY <1>1 DEF OptInv, ClosedInv, Relaxed, TypeOK
  <2>2. ASSUME NEW y \in Worker, pc'[y] \in {"lock", "relax"}
        PROVE  /\ vdist'[y] = gpred'[v(y)'].distance
               /\ pc'[y] = "relax" => Relaxed(v(y), arc[y] - 1)'
    <3>1. y # w /\ v(y)' = v(y) /\ pc'[y] = pc[y]
      BY <1>1, <2>2 DEF v
    <3> QED
      BY <1>1, <2>2, <3>1 DEF OptInv, ClosedInv, Relaxed
  <2> QED
    BY <2>1, <2>2 DEF ClosedInv
<1>5. ASSUME NEW y \in Vertex, being_expanded'[y] PROVE Certified(y)'
  <2>1. Certified(y)
    BY <1>1, <1>2, <1>5 DEF OptInv, TypeOK
  <2> QED
    BY <1>1, <2>1 DEF Certified
<1> QED
  BY <1>3, <1>4, <1>5, ClaimWalks DEF OptInv

\* Erasing an entry of a vertex that is expanded keeps the queue sound.
LEMMA EraseQueue ==
    ASSUME IInv, QueueInv, NEW k \in DOMAIN M, M' = RemoveAt(M, k), gpred' = gpred,
           is_expanded'[M[k].vertex], \A x \in Vertex : is_expanded[x] => is_expanded'[x]
    PROVE  QueueInv'
<1>1. M \in Seq(Entry) /\ Sorted(M)
  BY DEF IInv, TypeOK, QueueInv
<1>2. /\ \A i \in DOMAIN M' : \E j \in DOMAIN M : M'[i] = M[j]
      /\ \A j \in DOMAIN M : M[j] # M[k] => \E i \in DOMAIN M' : M'[i] = M[j]
      /\ Sorted(M')
  BY <1>1, RemovedFacts, RemovedSorted
<1>3. ASSUME NEW i \in DOMAIN M'
      PROVE  gpred'[M'[i].vertex].distance + Estimate[M'[i].vertex][destination] <= M'[i].f
  BY <1>2 DEF QueueInv
<1>4. ASSUME NEW x \in Vertex, gpred[x].distance # IntMax, ~is_expanded'[x]
      PROVE  \E i \in DOMAIN M' : M'[i] = EntryOf(gpred[x].distance, x)
  <2>1. PICK j \in DOMAIN M : M[j] = EntryOf(gpred[x].distance, x)
    BY <1>4 DEF QueueInv, Queued
  <2>2. M[j] # M[k]
    BY <1>4, <2>1 DEF EntryOf
  <2> QED
    BY <1>2, <2>1, <2>2
<1> QED
  BY <1>2, <1>3, <1>4 DEF QueueInv, Queued, EntryOf

\* A scan erases an entry nobody needs.
LEMMA ScanEraseOpt ==
    ASSUME IInv, OptInv, NEW w \in Worker, ScanErase(w)
    PROVE  OptInv'
<1>1. /\ cursor[w] \in DOMAIN M /\ is_expanded[M[cursor[w]].vertex]
      /\ M' = RemoveAt(M, cursor[w])
      /\ UNCHANGED <<gpred, is_expanded, being_expanded, lock, is_done, pc, lvars>>
  <2>1. TypeOK /\ pc[w] = "scan" /\ cursor[w] <= Len(M) /\ cursor[w] > 0
    BY DEF ScanErase, Scanning, IInv, WorkerInv, UnderLock
  <2>2. cursor[w] \in DOMAIN M
    BY <2>1 DEF TypeOK
  <2> QED
    BY <2>1, <2>2 DEF ScanErase
<1>2. QueueInv'
  BY <1>1, EraseQueue DEF OptInv
<1>3. ClosedInv' /\ Claimed' = Claimed
  BY <1>1 DEF OptInv, ClosedInv, Relaxed, Claimed, v, lvars
<1>4. WalksInv' /\ \A x \in Vertex : being_expanded'[x] => Certified(x)'
  BY <1>1, <1>3 DEF OptInv, WalksInv, Certified
<1> QED
  BY <1>2, <1>3, <1>4 DEF OptInv

\* The end of an expansion: all arcs are relaxed.
LEMMA FinishOpt ==
    ASSUME IInv, OptInv, NEW w \in Worker, Finish(w)
    PROVE  OptInv'
<1> DEFINE k == CHOOSE i \in DOMAIN M : M[i] = itv[w]
<1>1. /\ TypeOK /\ pc[w] = "relax" /\ v(w) \in Vertex /\ arc[w] > degree(v(w)) /\ arc[w] \in Nat
      /\ is_expanded' = [is_expanded EXCEPT ![v(w)] = TRUE]
      /\ M' = RemoveAt(M, k)
      /\ arc' = [arc EXCEPT ![w] = 0] /\ vdist' = [vdist EXCEPT ![w] = 0] /\ Goto(w, "loop")
      /\ UNCHANGED <<gpred, being_expanded, is_done, cursor, itv>>
  BY DEF Finish, Erased, IInv, TypeOK, v, Entry
<1>2. k \in DOMAIN M /\ M[k] = itv[w] /\ being_expanded[v(w)]
  BY <1>1 DEF IInv, WorkerInv, HolderInv, Holding, Queued
<1> HIDE DEF k
<1>3. is_expanded'[v(w)] /\ \A x \in Vertex : is_expanded'[x] <=> is_expanded[x] \/ x = v(w)
  BY <1>1 DEF TypeOK
<1>4. QueueInv'
  BY <1>1, <1>2, <1>3, EraseQueue DEF OptInv, v
<1>5. ClosedInv'
  <2>1. Relaxed(v(w), degree(v(w)))
    <3>1. Relaxed(v(w), arc[w] - 1) /\ degree(v(w)) \in Nat
      BY <1>1, DegreeType DEF OptInv, ClosedInv
    <3> QED
      BY <1>1, <3>1 DEF Relaxed
  <2>2. ASSUME NEW u \in Vertex, is_expanded'[u] PROVE being_expanded'[u] /\ Relaxed(u, degree(u))'
    <3>1. being_expanded[u] /\ Relaxed(u, degree(u))
      BY <1>2, <1>3, <2>1, <2>2 DEF OptInv, ClosedInv
    <3> QED
      BY <1>1, <3>1 DEF Relaxed
  <2>3. ASSUME NEW y \in Worker, pc'[y] \in {"lock", "relax"}
        PROVE  /\ vdist'[y] = gpred'[v(y)'].distance
               /\ pc'[y] = "relax" => Relaxed(v(y), arc[y] - 1)'
    <3>1. y # w /\ v(y)' = v(y) /\ pc'[y] = pc[y] /\ vdist'[y] = vdist[y] /\ arc'[y] = arc[y]
      BY <1>1, <2>3 DEF v, Goto, TypeOK
    <3> QED
      BY <1>1, <2>3, <3>1 DEF OptInv, ClosedInv, Relaxed
  <2> QED
    BY <2>2, <2>3 DEF ClosedInv
<1>6. Claimed' = Claimed
  BY <1>1 DEF Claimed
<1>7. WalksInv' /\ \A x \in Vertex : being_expanded'[x] => Certified(x)'
  BY <1>1, <1>6 DEF OptInv, WalksInv, Certified
<1> QED
  BY <1>4, <1>5, <1>7 DEF OptInv

\* The other steps leave the states and the queue alone.
LEMMA QuietOpt ==
    ASSUME IInv, OptInv, NEW w \in Worker,
           \/ Start(w) \/ Loop(w) \/ FindLock(w) \/ ScanEnd(w) \/ ScanNext(w)
           \/ Found(w) \/ ReadDistance(w) \/ Lock(w)
    PROVE  OptInv'
<1>1. TypeOK /\ UNCHANGED <<gpred, is_expanded, being_expanded, M, itv>>
  BY DEF IInv, Start, Loop, FindLock, ScanEnd, ScanNext, Found, ReadDistance, Lock, lvars, qvars
<1>2. QueueInv'
  BY <1>1 DEF OptInv, QueueInv, Queued, EntryOf
<1>3. \A u \in Worker : u # w => pc'[u] = pc[u] /\ vdist'[u] = vdist[u] /\ arc'[u] = arc[u]
  BY <1>1 DEF Start, Loop, FindLock, ScanEnd, ScanNext, Found, ReadDistance, Lock, Goto, lvars, TypeOK
<1>4. \/ pc'[w] \notin {"lock", "relax"}
      \/ ReadDistance(w)
      \/ Lock(w)
  BY <1>1 DEF Start, Loop, FindLock, ScanEnd, ScanNext, Found, Scanning, Goto, TypeOK
<1>5. pc'[w] \in {"lock", "relax"} => vdist'[w] = gpred[v(w)].distance
  BY <1>1, <1>4 DEF ReadDistance, Lock, OptInv, ClosedInv, TypeOK, Goto
<1>6. pc'[w] = "relax" => arc'[w] = 1
  BY <1>1, <1>4 DEF ReadDistance, Lock, TypeOK, Goto
<1>7. ClosedInv'
  <2>1. \A u \in Vertex : is_expanded'[u] => being_expanded'[u] /\ Relaxed(u, degree(u))'
    BY <1>1 DEF OptInv, ClosedInv, Relaxed
  <2>2. ASSUME NEW y \in Worker, pc'[y] \in {"lock", "relax"}
        PROVE  /\ vdist'[y] = gpred'[v(y)'].distance
               /\ pc'[y] = "relax" => Relaxed(v(y), arc[y] - 1)'
    <3>1. v(y)' = v(y)
      BY <1>1 DEF v
    <3>2. CASE y = w
      <4>1. pc'[y] = "relax" => arc'[y] - 1 = 0
        BY <1>6, <3>2
      <4> QED
        BY <1>1, <1>5, <2>2, <3>1, <3>2, <4>1 DEF Relaxed
    <3>3. CASE y # w
      BY <1>1, <1>3, <2>2, <3>1, <3>3 DEF OptInv, ClosedInv, Relaxed
    <3> QED
      BY <3>2, <3>3
  <2> QED
    BY <2>1, <2>2 DEF ClosedInv
<1>8. Claimed' = Claimed
  BY <1>1 DEF Claimed
<1>9. WalksInv' /\ \A x \in Vertex : being_expanded'[x] => Certified(x)'
  BY <1>1, <1>8 DEF OptInv, WalksInv, Certified
<1> QED
  BY <1>2, <1>7, <1>9 DEF OptInv

\* The strengthened invariant is inductive.
LEMMA NextOpt == ASSUME Consistent, PrioritiesFit PROVE IInv /\ OptInv /\ [Next]_vars => OptInv'
<1> SUFFICES ASSUME IInv, OptInv, [Next]_vars PROVE OptInv'
  OBVIOUS
<1>1. ASSUME NEW w \in Worker, Step(w) PROVE OptInv'
  BY <1>1, ClaimOpt, RelaxOpt, ScanEraseOpt, FinishOpt, QuietOpt DEF Step
<1>2. CASE UNCHANGED vars
  <2>1. Claimed' = Claimed
    BY <1>2 DEF vars, Claimed
  <2>2. QueueInv' /\ ClosedInv'
    BY <1>2 DEF vars, qvars, lvars, OptInv, QueueInv, ClosedInv, Queued, EntryOf, Relaxed, v
  <2>3. WalksInv' /\ \A x \in Vertex : being_expanded'[x] => Certified(x)'
    BY <1>2, <2>1 DEF vars, OptInv, WalksInv, Certified
  <2> QED
    BY <2>2, <2>3 DEF OptInv
<1> QED
  BY <1>1, <1>2 DEF Next, Return

\* A claimed vertex has a walk of the length of its g, and a bound that excludes
\* shorter ones.
LEMMA OptIsOptimal ==
    ASSUME IInv, OptInv, NEW x \in Vertex, being_expanded[x]
    PROVE  gpred[x].distance = Shortest[x]
<1> DEFINE n == Cardinality(Claimed) - 1
<1>1. gpred[x].distance \in Int /\ WalkWithin(x, n, gpred[x].distance)
  BY DEF IInv, DistanceInv, BudgetOf, OptInv, WalksInv
<1>2. n \in 0..Cardinality(Vertex)
  <2>1. Claimed \in SUBSET Vertex /\ x \in Claimed
    BY DEF Claimed
  <2>2. /\ IsFiniteSet(Claimed) /\ Cardinality(Claimed) \in Nat /\ Cardinality(Vertex) \in Nat
        /\ Cardinality(Claimed) <= Cardinality(Vertex)
    BY <2>1, VerticesCard
  <2>3. Cardinality(Claimed) # 0
    BY <2>1, <2>2, FS_EmptySet
  <2> QED
    BY <2>2, <2>3
<1> HIDE DEF n
<1>3. PICK b : LowerBound(b) /\ gpred[x].distance <= b[x]
  BY DEF OptInv, Certified
<1> QED
  BY <1>1, <1>2, <1>3, ShortestIs

\* With a consistent heuristic whose priorities fit into an int, pase claims a
\* vertex only when its g is the length of a shortest path: the independence
\* test of find_independent is enough, however many workers are in the middle
\* of their relaxations (pase.hpp:106-111).
THEOREM PaseClaimedAreOptimal == PrioritiesFit => (SafetySpec => []ClaimedAreOptimal)
<1>1. CASE Consistent /\ PrioritiesFit
  <2>1. Init => OptInv
    BY <1>1, InitOpt
  <2>2. IInv /\ OptInv /\ [Next]_vars => OptInv'
    BY <1>1, NextOpt
  <2>3. IInv /\ OptInv => ClaimedAreOptimal
    BY OptIsOptimal DEF ClaimedAreOptimal
  <2> QED
    BY <2>1, <2>2, <2>3, Invariant, PTL DEF SafetySpec
<1>2. CASE ~Consistent
  <2>1. ClaimedAreOptimal
    BY <1>2 DEF ClaimedAreOptimal
  <2> QED
    BY <2>1, PTL
<1> QED
  BY <1>1, <1>2

==============================================================================
