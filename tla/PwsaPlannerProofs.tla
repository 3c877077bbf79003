--------------------------- MODULE PwsaPlannerProofs ---------------------------
(***************************************************************************)
(* Proofs about PwsaPlanner and the table of states it rests on, UbVec:    *)
(* pointers into the table stay good while it grows, a priority rests on a *)
(* heuristic value of this call, the search implements SearchTree, and     *)
(* the path replan returns leads from the start to the goal.               *)
(***************************************************************************)
EXTENDS PwsaPlanner, SearchGraphProofs

------------------------------------------------------------------------------
(* The inductive invariant *)

\* The vertpacks and the flags of all states, wherever they are
gOf == [x \in Vertex |-> StateOf(x).gpred]
eOf == [x \in Vertex |-> StateOf(x).is_expanded]

\* The vertices that are expanded
Expanded == {x \in Vertex : eOf[x]}

InCall == {"lookup", "create", "hammer", "cas", "alloc", "publish", "index", "memo", "setH"}
VPack == [distance : 0..IntMax, pred : Vertex \cup {NoVertex}]
PwsaState == [is_expanded : BOOLEAN, h : {"unset", "fresh", "stale"}, gpred : VPack]

TableType ==
    /\ vecs \in [Chunk -> Nat]
    /\ init \in [Chunk -> {-1, 0, 1}]
    /\ mem \in [DOMAIN mem -> PwsaState]
    /\ DOMAIN mem \subseteq Nat \X Nat
    /\ upc \in [Thread -> InCall \cup {"out"}]
    /\ id \in [Thread -> Vertex \cup {NoVertex}]
    /\ ptr \in [Thread -> Nat \X Nat]
    /\ updated \in BOOLEAN
    /\ \A t \in Thread : upc[t] # "out" => id[t] \in Vertex

\* Addresses are given out in order, every array in use is there in full, and no
\* two arrays have the same address.
Arrays ==
    /\ IsFiniteSet(Allocated) /\ Allocated = 1..Cardinality(Allocated)
    /\ \A k \in Chunk : vecs[k] # NULL => {vecs[k]} \X (0..vecSize(k) - 1) \subseteq DOMAIN mem
    /\ \A k, l \in Chunk : vecs[k] # NULL /\ vecs[k] = vecs[l] => k = l

\* init[k] is 0 while one thread makes array k, and only then is it allocated.
Makers ==
    /\ \A k \in Chunk : init[k] = -1 => vecs[k] = NULL
    /\ \A t \in Thread : upc[t] \in {"alloc", "publish"} => init[logI(t)] = 0
    /\ \A t \in Thread : upc[t] = "alloc" => vecs[logI(t)] = NULL
    /\ \A t \in Thread : upc[t] \in {"publish", "index"} => vecs[logI(t)] # NULL
    /\ \A t, u \in Thread : /\ upc[t] \in {"alloc", "publish"} /\ upc[u] \in {"alloc", "publish"}
                            /\ logI(t) = logI(u)
                            => t = u

\* A thread whose call is past the array has the place of its state.
HasState(t) == id[t] # NoVertex /\ upc[t] \in {"memo", "setH", "out"}
Pointers == \A t \in Thread : HasState(t) => Exists(id[t]) /\ ptr[t] = Where(id[t])

TableInv == TableType /\ Arrays /\ Makers /\ Pointers

\* A state whose call returned has a heuristic value, and it is one of this call
\* except for the two states looked up before.
HInv ==
    /\ \A t \in Thread : id[t] # NoVertex /\ upc[t] = "out" => StateOf(id[t]).h # "unset"
    /\ \A x \in Vertex : StateOf(x).h = "stale" => x \in {source, destination}

PlannerType ==
    /\ start_state_id \in {source, NoVertex}
    /\ goal_state_id \in {destination, NoVertex}
    /\ pc \in [Thread -> {"idle", "goal", "start", "run", "join", "test", "walk", "return",
                          "off", "loop", "claim", "distance", "arc", "load", "cas", "insert"}]
    /\ queued \in SUBSET Vertex
    /\ is_done \in BOOLEAN
    /\ v \in [Worker -> Vertex \cup {NoVertex}]
    /\ arc \in [Worker -> Nat]
    /\ dist \in [Worker -> 0..IntMax]
    /\ seen \in [Worker -> VPack]
    /\ path \in Seq(Vertex)
    /\ solcost \in Nat
    /\ answer \in {-1, 0, 1}

\* Where the threads are, together
Control ==
    /\ pc[Main] \in {"idle", "goal", "start", "run", "join", "test", "walk", "return"}
    /\ upc[Main] # "out" => pc[Main] \in {"goal", "start", "test", "walk"}
    /\ \A w \in Worker : upc[w] # "out" => pc[w] \in {"claim", "load"}
    /\ pc[Main] # "join" => \A w \in Worker : pc[w] = "off"
    /\ pc[Main] # "idle" => start_state_id = source /\ goal_state_id = destination
    /\ pc[Main] = "idle" /\ Searched => start_state_id = NoVertex
    /\ pc[Main] \in {"goal", "start", "run", "join", "test"} => path = <<>>
    /\ pc[Main] \in {"walk", "return"} => Searched
    /\ pc[Main] \in {"goal", "test"} => id[Main] = destination
    /\ pc[Main] \in {"start", "run"} => id[Main] = source
    /\ pc[Main] \in {"run", "join", "test", "walk", "return"} => updated
    /\ answer = 1 => pc[Main] = "idle" /\ Searched

\* The search so far
Search ==
    /\ ~Launched => /\ \A x \in Vertex : gOf[x] = NewState.gpred /\ ~eOf[x]
                    /\ queued = {} /\ ~is_done
    /\ Launched => TreeOf(gOf, eOf) /\ BudgetOf(gOf, Expanded)
    /\ \A x \in queued : gOf[x].distance # IntMax

\* The destination is expanded before the search ends.
Done ==
    /\ is_done => eOf[destination]
    /\ pc[Main] = "join" => \A w \in Worker : pc[w] = "off" => is_done
    /\ pc[Main] \in {"test", "walk", "return"} => is_done

\* What a worker knows of the vertex it expands
WorkOf(w) ==
    /\ pc[w] \in {"claim", "distance", "insert"} => id[w] \in Vertex
    /\ pc[w] \in {"claim", "insert"} => gOf[id[w]].distance # IntMax
    /\ pc[w] = "distance" => eOf[id[w]]
    /\ pc[w] \in {"arc", "load", "cas", "insert"} =>
          /\ v[w] \in Vertex /\ eOf[v[w]]
          /\ arc[w] \in 1..degree(v[w]) + 1
          /\ gOf[v[w]].distance <= dist[w]
          /\ dist[w] <= MaxWeight * (Cardinality(Expanded) - 1)
    /\ pc[w] \in {"load", "cas", "insert"} =>
          arc[w] <= degree(v[w]) /\ id[w] = Neighbors[v[w]][arc[w]].vertex
    /\ pc[w] = "cas" => mine(w).distance < seen[w].distance

Work == \A w \in Worker : WorkOf(w)

\* The path so far leads over arcs to the goal, and what it costs is covered.
PathInv ==
    /\ ~Searched => solcost = 0
    /\ Searched =>
         /\ path[1] = destination
         /\ \A k \in 1..Len(path) - 1 :
               \E i \in 1..degree(path[k + 1]) : Neighbors[path[k + 1]][i].vertex = path[k]
         /\ gOf[Last(path)].distance # IntMax
         /\ solcost + gOf[Last(path)].distance <= gOf[destination].distance
         /\ pc[Main] = "walk" => id[Main] = Last(path)
         /\ pc[Main] \in {"idle", "return"} => Last(path) = source

IInv ==
    /\ TableInv /\ HInv
    /\ PlannerType /\ Control /\ Search /\ Done /\ Work /\ PathInv

------------------------------------------------------------------------------
(* Where a state is *)

\* A product of naturals grows with its factors.
LEMMA Times ==
    ASSUME NEW a \in Nat, NEW b \in Nat, NEW c \in Nat
    PROVE  /\ a * b \in Nat
           /\ b <= c => a * b <= a * c
           /\ a * b < a * c => b < c
OBVIOUS

\* The quotient of a division
LEMMA Quotient ==
    ASSUME NEW m \in Nat, NEW p \in Nat \ {0}
    PROVE  /\ m \div p \in Nat
           /\ p * (m \div p) <= m
           /\ m + 1 <= p * (m \div p + 1)
           /\ p <= m => m \div p >= 1
OBVIOUS

\* pow2 is what its definition says.
LEMMA Pow2Def ==
    ASSUME NEW n \in 0..31
    PROVE  pow2[n] = IF n = 0 THEN 1 ELSE 2 * pow2[n - 1]
<1> DEFINE Def(m, h) == [k \in 0..m |-> IF k = 0 THEN 1 ELSE 2 * h[k - 1]]
           T == {m \in Nat : \E h : h = Def(m, h)}
<1>1. 0 \in T
  <2> DEFINE h == [k \in 0..0 |-> 1]
  <2>1. h = Def(0, h)
    OBVIOUS
  <2> QED
    BY <2>1
<1>2. ASSUME NEW m \in Nat, m \in T PROVE m + 1 \in T
  <2>1. PICK h : h = Def(m, h)
    BY <1>2
  <2> DEFINE e == [k \in 0..m + 1 |-> IF k = m + 1 THEN 2 * h[m] ELSE h[k]]
  <2>2. ASSUME NEW k \in 0..m + 1
        PROVE  e[k] = IF k = 0 THEN 1 ELSE 2 * e[k - 1]
    <3>1. CASE k = m + 1
      <4>1. k # 0 /\ k - 1 = m /\ m \in 0..m + 1 /\ m # m + 1
        BY <3>1
      <4> QED
        BY <3>1, <4>1
    <3>2. CASE k # m + 1
      <4>1. k \in 0..m /\ e[k] = h[k]
        BY <3>2
      <4>2. h[k] = IF k = 0 THEN 1 ELSE 2 * h[k - 1]
        BY <2>1, <4>1
      <4>3. k # 0 => k - 1 \in 0..m + 1 /\ k - 1 # m + 1
        BY <4>1
      <4> QED
        BY <4>1, <4>2, <4>3
    <3> QED
      BY <3>1, <3>2
  <2>3. e = Def(m + 1, e)
    BY <2>2
  <2> HIDE DEF e
  <2>4. \E h1 : h1 = Def(m + 1, h1)
    BY <2>3
  <2>5. m + 1 \in Nat
    OBVIOUS
  <2> QED
    BY <2>4, <2>5, Zenon
<1> HIDE DEF T
<1>3. 31 \in T
  BY <1>1, <1>2, Induction
<1>4. \E h : h = Def(31, h)
  BY <1>3 DEF T
<1>5. pow2 = Def(31, pow2)
  BY <1>4 DEF pow2
<1> QED
  BY <1>5

\* Powers of two are positive.
LEMMA Pow2Type == ASSUME NEW n \in 0..31 PROVE pow2[n] \in Nat /\ pow2[n] >= 1
<1> DEFINE T == {k \in Nat : k <= 31 => pow2[k] \in Nat /\ pow2[k] >= 1}
<1>1. 0 \in T
  BY Pow2Def
<1>2. ASSUME NEW k \in Nat, k \in T PROVE k + 1 \in T
  <2> SUFFICES ASSUME k + 1 <= 31 PROVE pow2[k + 1] \in Nat /\ pow2[k + 1] >= 1
    OBVIOUS
  <2>1. k + 1 \in 0..31 /\ k + 1 # 0 /\ (k + 1) - 1 = k /\ pow2[k] \in Nat /\ pow2[k] >= 1
    BY <1>2
  <2>2. pow2[k + 1] = 2 * pow2[k]
    BY <2>1, Pow2Def
  <2> QED
    BY <2>1, <2>2
<1> HIDE DEF T
<1>3. n \in T
  BY <1>1, <1>2, Induction
<1> QED
  BY <1>3 DEF T

\* The power of a sum is a product.
LEMMA Pow2Sum ==
    ASSUME NEW i \in 0..31, NEW k \in 0..31, i + k <= 31
    PROVE  pow2[i + k] = pow2[i] * pow2[k]
<1> DEFINE T == {m \in Nat : i + m <= 31 => pow2[i + m] = pow2[i] * pow2[m]}
<1>0. pow2[i] \in Nat
  BY Pow2Type
<1>1. 0 \in T
  <2>1. pow2[0] = 1
    BY Pow2Def
  <2> QED
    BY <1>0, <2>1
<1>2. ASSUME NEW m \in Nat, m \in T PROVE m + 1 \in T
  <2> SUFFICES ASSUME i + (m + 1) <= 31 PROVE pow2[i + (m + 1)] = pow2[i] * pow2[m + 1]
    OBVIOUS
  <2>1. /\ m + 1 \in 0..31 /\ m + 1 # 0 /\ (m + 1) - 1 = m /\ m \in 0..31
        /\ i + (m + 1) \in 0..31 /\ i + (m + 1) # 0 /\ (i + (m + 1)) - 1 = i + m /\ i + m <= 31
    OBVIOUS
  <2>2. pow2[i + (m + 1)] = 2 * pow2[i + m] /\ pow2[m + 1] = 2 * pow2[m]
    BY <2>1, Pow2Def
  <2>3. pow2[i + m] = pow2[i] * pow2[m] /\ pow2[m] \in Nat
    BY <1>2, <2>1, Pow2Type
  <2> QED
    BY <1>0, <2>2, <2>3
<1> HIDE DEF T
<1>3. k \in T
  BY <1>1, <1>2, Induction
<1> QED
  BY <1>3 DEF T

\* The powers uint64_log2 is made of
LEMMA Powers ==
    /\ pow2[0] = 1 /\ pow2[1] = 2
    /\ pow2[2] = pow2[1] * pow2[1] /\ pow2[4] = pow2[2] * pow2[2]
    /\ pow2[8] = pow2[4] * pow2[4] /\ pow2[16] = pow2[8] * pow2[8]
    /\ pow2[30] <= pow2[16] * pow2[16]
    /\ pow2[31] = 2 * pow2[30]
    /\ \A k \in {1, 2, 4, 8, 16, 30} : pow2[k] \in Nat
<1>1. pow2[0] = 1
  BY Pow2Def
<1>2. pow2[1] = 2 /\ pow2[31] = 2 * pow2[30]
  <2>1. 1 \in 0..31 /\ 1 # 0 /\ 1 - 1 = 0 /\ 31 \in 0..31 /\ 31 # 0 /\ 31 - 1 = 30
    OBVIOUS
  <2> QED
    BY <2>1, <1>1, Pow2Def
<1>3. ASSUME NEW k \in {1, 2, 4, 8} PROVE pow2[k + k] = pow2[k] * pow2[k]
  BY Pow2Sum
<1>4. /\ pow2[2] = pow2[1] * pow2[1] /\ pow2[4] = pow2[2] * pow2[2]
      /\ pow2[8] = pow2[4] * pow2[4] /\ pow2[16] = pow2[8] * pow2[8]
  <2>1. 1 + 1 = 2 /\ 2 + 2 = 4 /\ 4 + 4 = 8 /\ 8 + 8 = 16
    OBVIOUS
  <2> QED
    BY <2>1, <1>3
<1>5. ASSUME NEW k \in {1, 2, 4, 8, 14, 16, 30} PROVE pow2[k] \in Nat /\ pow2[k] >= 1
  BY Pow2Type
<1>6. pow2[30] <= pow2[16] * pow2[16]
  <2>1. 16 + 14 = 30 /\ 14 + 2 = 16
    OBVIOUS
  <2>2. pow2[30] = pow2[16] * pow2[14]
    BY <2>1, Pow2Sum
  <2>3. pow2[16] = pow2[14] * pow2[2]
    BY <2>1, Pow2Sum
  <2>4. pow2[14] <= pow2[16]
    BY <1>5, <2>3
  <2> QED
    BY <1>5, <2>2, <2>4, Times
<1> QED
  BY <1>1, <1>2, <1>4, <1>5, <1>6

\* a.i bits of n are taken off and a.n is what remains.
HighBit(a, n) ==
    /\ a.i \in 0..31
    /\ a.n \in Nat /\ a.n >= 1
    /\ pow2[a.i] * a.n <= n
    /\ n < pow2[a.i] * (a.n + 1)

\* One step of the halving takes k more bits off, or none.
LEMMA Halved ==
    ASSUME NEW n \in Nat, NEW a, HighBit(a, n), NEW k \in 0..31, a.i + k <= 31,
           a.n < pow2[k] * pow2[k]
    PROVE  /\ HighBit(S(a, k), n)
           /\ S(a, k).n < pow2[k]
           /\ S(a, k).i <= a.i + k
<1> DEFINE P == pow2[k]
           Q == pow2[a.i]
           q == a.n \div P
<1>1. a.i \in 0..31 /\ a.n \in Nat /\ a.n >= 1
  BY DEF HighBit
<1>2. P \in Nat \ {0} /\ Q \in Nat
  BY <1>1, Pow2Type
<1>3. CASE ~(a.n >= P)
  <2>1. S(a, k) = a
    BY <1>3 DEF S
  <2>2. a.n < P
    BY <1>1, <1>2, <1>3
  <2> HIDE DEF P, Q, q
  <2> QED
    BY <1>1, <2>1, <2>2 DEF P
<1>4. CASE a.n >= P
  <2>1. S(a, k) = [i |-> a.i + k, n |-> q]
    BY <1>4 DEF S
  <2>2. S(a, k).i = a.i + k /\ S(a, k).n = q
    BY <2>1
  <2>3. pow2[a.i + k] = Q * P /\ a.i + k \in 0..31
    BY <1>1, Pow2Sum
  <2> HIDE DEF P, Q
  <2>4. /\ q \in Nat /\ q >= 1
        /\ P * q <= a.n
        /\ a.n + 1 <= P * (q + 1)
    BY <1>1, <1>2, <1>4, Quotient
  <2>5. Q * a.n <= n /\ n < Q * (a.n + 1)
    BY DEF HighBit, Q
  <2> HIDE DEF q
  <2>6. (Q * P) * q <= Q * a.n
    <3>1. Q * (P * q) <= Q * a.n
      BY <1>1, <1>2, <2>4, Times
    <3> QED
      BY <1>2, <2>4, <3>1
  <2>7. Q * (a.n + 1) <= (Q * P) * (q + 1)
    <3>0. P * (q + 1) \in Nat /\ a.n + 1 \in Nat
      BY <1>1, <1>2, <2>4
    <3>1. Q * (a.n + 1) <= Q * (P * (q + 1))
      BY <1>2, <2>4, <3>0, Times
    <3> QED
      BY <1>2, <2>4, <3>1
  <2>8. q < P
    <3>1. P * q < P * P
      BY <1>1, <1>2, <2>4 DEF P
    <3> QED
      BY <1>2, <2>4, <3>1, Times
  <2>9. (Q * P) * q <= n /\ n < (Q * P) * (q + 1)
    <3>1. (Q * P) * q \in Int /\ Q * a.n \in Int /\ Q * (a.n + 1) \in Int /\ (Q * P) * (q + 1) \in Int
      BY <1>1, <1>2, <2>4
    <3> QED
      BY <2>5, <2>6, <2>7, <3>1
  <2>10. HighBit(S(a, k), n)
    BY <2>2, <2>3, <2>4, <2>9 DEF HighBit
  <2> QED
    BY <1>1, <2>2, <2>3, <2>8, <2>10 DEF P
<1> QED
  BY <1>3, <1>4

\* uint64_log2 finds the highest bit of an id.
LEMMA Log2 ==
    ASSUME NEW n \in 1..pow2[30] - 1
    PROVE  LET l == uint64_log2(n)
           IN  /\ l \in 0..29
               /\ pow2[l] <= n
               /\ n < 2 * pow2[l]
<1> DEFINE a == [i |-> 0, n |-> n]
           b == S(a, 16)
           c == S(b, 8)
           d == S(c, 4)
           e == S(d, 2)
           f == S(e, 1)
<1>0. n \in Nat /\ n >= 1 /\ n < pow2[30]
  BY Powers
<1>1. HighBit(a, n) /\ a.n < pow2[16] * pow2[16] /\ a.i = 0
  <2>1. a.i = 0 /\ a.n = n
    OBVIOUS
  <2>2. n < pow2[16] * pow2[16]
    BY <1>0, Powers
  <2> HIDE DEF a
  <2> QED
    BY <1>0, <2>1, <2>2, Powers DEF HighBit
<1> HIDE DEF a
<1>2. HighBit(b, n) /\ b.n < pow2[8] * pow2[8] /\ b.i <= 16
  BY <1>1, Powers, Halved
<1> HIDE DEF b
<1>3. HighBit(c, n) /\ c.n < pow2[4] * pow2[4] /\ c.i <= 24
  <2>1. b.i + 8 <= 31
    BY <1>2 DEF HighBit
  <2>2. HighBit(c, n) /\ c.n < pow2[8] /\ c.i <= b.i + 8
    BY <1>2, <2>1, Halved
  <2> QED
    BY <1>2, <2>2, Powers DEF HighBit
<1> HIDE DEF c
<1>4. HighBit(d, n) /\ d.n < pow2[2] * pow2[2] /\ d.i <= 28
  <2>1. c.i + 4 <= 31
    BY <1>3 DEF HighBit
  <2>2. HighBit(d, n) /\ d.n < pow2[4] /\ d.i <= c.i + 4
    BY <1>3, <2>1, Halved
  <2> QED
    BY <1>3, <2>2, Powers DEF HighBit
<1> HIDE DEF d
<1>5. HighBit(e, n) /\ e.n < pow2[1] * pow2[1] /\ e.i <= 30
  <2>1. d.i + 2 <= 31
    BY <1>4 DEF HighBit
  <2>2. HighBit(e, n) /\ e.n < pow2[2] /\ e.i <= d.i + 2
    BY <1>4, <2>1, Halved
  <2> QED
    BY <1>4, <2>2, Powers DEF HighBit
<1> HIDE DEF e
<1>6. HighBit(f, n) /\ f.n < 2
  <2>1. e.i + 1 <= 31
    BY <1>5 DEF HighBit
  <2>2. HighBit(f, n) /\ f.n < pow2[1]
    BY <1>5, <2>1, Halved
  <2> QED
    BY <2>2, Powers
<1> HIDE DEF f
<1>7. f.i \in 0..31 /\ f.n = 1 /\ pow2[f.i] * 1 <= n /\ n < pow2[f.i] * 2
  BY <1>6 DEF HighBit
<1>8. pow2[f.i] \in Nat
  BY <1>7, Pow2Type
<1>9. f.i \notin 30..31
  BY <1>0, <1>7, <1>8, Powers
<1>10. uint64_log2(n) = f.i
  BY DEF uint64_log2, a, b, c, d, e, f
<1> QED
  BY <1>7, <1>8, <1>9, <1>10

\* A larger exponent, a larger power
LEMMA Pow2Mono ==
    ASSUME NEW i \in 0..31, NEW k \in 0..31, i <= k
    PROVE  pow2[i] <= pow2[k]
<1>1. k - i \in 0..31 /\ i + (k - i) = k
  OBVIOUS
<1>2. pow2[k] = pow2[i] * pow2[k - i]
  BY <1>1, Pow2Sum
<1>3. pow2[i] \in Nat /\ pow2[k - i] \in Nat /\ pow2[k - i] >= 1
  BY <1>1, Pow2Type
<1>4. pow2[i] * 1 <= pow2[i] * pow2[k - i]
  BY <1>3, Times
<1> QED
  BY <1>2, <1>3, <1>4

\* (a - 2) * (b - 2) is not negative.
LEMMA Excess ==
    ASSUME NEW a \in Nat, NEW b \in Nat, a >= 2, b >= 2
    PROVE  2 * a + 2 * b <= a * b + 4
<1>1. PICK c \in Nat : a = c + 2
  <2>1. a - 2 \in Nat /\ a = (a - 2) + 2
    OBVIOUS
  <2> QED
    BY <2>1
<1>2. c * 2 <= c * b
  BY <1>1, Times
<1>3. a * b = c * b + 2 * b
  BY <1>1
<1> QED
  BY <1>1, <1>2, <1>3

\* The first array holds the ids below MIN_VEC_SIZE, and speclog and get_index
\* place a larger id within an array of the size createVec gives it.
LEMMA Place ==
    ASSUME NEW i \in Vertex
    PROVE  LET k == speclog(i)
           IN  /\ i \in Nat
               /\ MIN_VEC_SIZE \in Nat
               /\ k \in Nat /\ k + LOG_MIN_VEC_SIZE \in 0..31
               /\ get_index(k, i) \in 0..vecSize(k) - 1
               /\ i < MIN_VEC_SIZE => k = 0 /\ get_index(k, i) = i
               /\ i >= MIN_VEC_SIZE =>
                     /\ k >= 1
                     /\ pow2[k] \in Nat
                     /\ get_index(k, i) = i - pow2[k] - MIN_VEC_SIZE + 2
<1> DEFINE g == LOG_MIN_VEC_SIZE
           m == MIN_VEC_SIZE
           l == uint64_log2(i)
           k == speclog(i)
<1>1. g \in 1..30 /\ i \in Nat /\ i < pow2[30] /\ m = pow2[g] /\ m \in Nat
  BY UbVecAssumption, Powers, Pow2Type DEF MIN_VEC_SIZE
<1>2. m >= 2
  <2>1. pow2[1] <= pow2[g]
    BY <1>1, Pow2Mono
  <2> QED
    BY <1>1, <2>1, Powers
<1>3. i # 0 => l \in 0..29 /\ pow2[l] <= i /\ i < 2 * pow2[l]
  BY <1>1, Powers, Log2
<1>4. k = IF i = 0 \/ l - g + 1 < 0 THEN 0 ELSE l - g + 1
  BY DEF speclog
<1> HIDE DEF l, k
<1>5. CASE i < m
  <2>1. k = 0
    <3>1. CASE i # 0
      <4>1. l \in 0..29 /\ pow2[l] <= i /\ pow2[l] \in Nat
        BY <1>3, <3>1, Pow2Type
      <4>2. ~(g <= l)
        BY <1>1, <1>5, <4>1, Pow2Mono
      <4> QED
        BY <1>1, <1>4, <4>1, <4>2
    <3> QED
      BY <1>4, <3>1
  <2>2. get_index(k, i) = i
    BY <1>1, <1>5 DEF get_index
  <2>3. vecSize(k) = m
    <3>1. 0 + g = g
      BY <1>1
    <3> QED
      BY <1>1, <2>1, <3>1 DEF vecSize
  <2>4. k \in Nat /\ k + g \in 0..31 /\ get_index(k, i) \in 0..vecSize(k) - 1
    BY <1>1, <1>5, <2>1, <2>2, <2>3
  <2> QED
    BY <1>1, <1>5, <2>1, <2>2, <2>4 DEF k
<1>6. CASE i >= m
  <2>1. l \in 0..29 /\ pow2[l] <= i /\ i < 2 * pow2[l] /\ i # 0
    BY <1>1, <1>2, <1>3, <1>6
  <2>2. pow2[l + 1] = 2 * pow2[l] /\ pow2[l] \in Nat
    <3>1. l + 1 \in 0..31 /\ l + 1 # 0 /\ (l + 1) - 1 = l
      BY <2>1
    <3> QED
      BY <2>1, <3>1, Pow2Def, Pow2Type
  <2>3. g <= l
    <3> SUFFICES ASSUME l + 1 <= g PROVE FALSE
      BY <1>1, <2>1
    <3>1. pow2[l + 1] <= pow2[g]
      BY <1>1, <2>1, Pow2Mono
    <3> QED
      BY <1>1, <1>6, <2>1, <2>2, <3>1
  <2>4. k = l - g + 1 /\ k \in 1..30 /\ k + g = l + 1
    BY <1>1, <1>4, <2>1, <2>3
  <2>5. pow2[k] * m = 2 * pow2[l] /\ pow2[k] \in Nat /\ pow2[k] >= 2 /\ vecSize(k) = 2 * pow2[l]
    <3>0. k \in 0..31 /\ g \in 0..31 /\ k + g <= 31
      BY <1>1, <2>1, <2>4
    <3>1. pow2[k + g] = pow2[k] * pow2[g]
      BY <3>0, Pow2Sum
    <3>2. pow2[1] <= pow2[k]
      BY <2>4, Pow2Mono
    <3>3. pow2[k] \in Nat
      BY <2>4, Pow2Type
    <3> QED
      BY <1>1, <2>2, <2>4, <3>1, <3>2, <3>3, Powers DEF vecSize
  <2>6. get_index(k, i) = i - pow2[k] - m + 2
    BY <1>1, <1>6, <2>5 DEF get_index
  <2>7. get_index(k, i) >= 0
    <3>1. 2 * pow2[k] + 2 * m <= pow2[k] * m + 4
      BY <1>1, <1>2, <2>5, Excess
    <3> QED
      BY <1>1, <2>1, <2>2, <2>5, <2>6, <3>1
  <2>8. get_index(k, i) \in 0..vecSize(k) - 1
    BY <1>1, <1>2, <2>1, <2>2, <2>5, <2>6, <2>7
  <2> QED
    BY <1>1, <1>6, <2>1, <2>4, <2>5, <2>6, <2>8 DEF k
<1> QED
  BY <1>1, <1>5, <1>6

\* Every id has a place in the array of its chunk.
LEMMA PlaceType ==
    ASSUME NEW i \in Vertex
    PROVE  /\ ChunkOf[i] \in Chunk
           /\ IndexOf[i] \in Nat
           /\ IndexOf[i] \in 0..vecSize(ChunkOf[i]) - 1
<1>1. ChunkOf[i] = speclog(i) /\ IndexOf[i] = get_index(speclog(i), i)
  BY DEF ChunkOf, IndexOf
<1>2. IndexOf[i] \in 0..vecSize(ChunkOf[i]) - 1
  BY <1>1, Place
<1> QED
  BY <1>1, <1>2 DEF Chunk

\* The place of an id within its array is its own.
LEMMA PlaceUnique ==
    ASSUME NEW i \in Vertex, NEW j \in Vertex, ChunkOf[i] = ChunkOf[j], IndexOf[i] = IndexOf[j]
    PROVE  i = j
<1>1. speclog(i) = speclog(j) /\ get_index(speclog(i), i) = get_index(speclog(i), j)
  BY DEF ChunkOf, IndexOf
<1> QED
  BY <1>1, Place

\* An array that is made is not empty.
LEMMA ChunkSize == ASSUME NEW k \in Chunk PROVE k \in Nat /\ vecSize(k) \in Nat /\ vecSize(k) >= 1
<1>1. PICK i \in Vertex : k = speclog(i)
  BY DEF Chunk, ChunkOf
<1>2. k \in Nat /\ k + LOG_MIN_VEC_SIZE \in 0..31
  BY <1>1, Place
<1> QED
  BY <1>2, Pow2Type DEF vecSize

------------------------------------------------------------------------------
(* The table of states *)

\* A state whose array is there is in memory.
LEMMA Located ==
    ASSUME TableInv, NEW x \in Vertex, Exists(x)
    PROVE  Where(x) \in DOMAIN mem /\ mem[Where(x)] \in PwsaState
<1>1. ChunkOf[x] \in Chunk /\ IndexOf[x] \in 0..vecSize(ChunkOf[x]) - 1
  BY PlaceType
<1>2. {vecs[ChunkOf[x]]} \X (0..vecSize(ChunkOf[x]) - 1) \subseteq DOMAIN mem
  BY <1>1 DEF TableInv, Arrays, Exists
<1>3. Where(x) \in DOMAIN mem
  BY <1>1, <1>2 DEF Where
<1> QED
  BY <1>3 DEF TableInv, TableType

\* Two states that exist are at two places.
LEMMA WhereUnique ==
    ASSUME TableInv, NEW x \in Vertex, NEW y \in Vertex, Exists(x), Exists(y), Where(x) = Where(y)
    PROVE  x = y
<1>1. ChunkOf[x] \in Chunk /\ ChunkOf[y] \in Chunk
  BY PlaceType
<1>2. vecs[ChunkOf[x]] = vecs[ChunkOf[y]] /\ IndexOf[x] = IndexOf[y]
  BY DEF Where
<1>3. ChunkOf[x] = ChunkOf[y]
  BY <1>1, <1>2 DEF TableInv, Arrays, Exists
<1> QED
  BY <1>2, <1>3, PlaceUnique

\* What a thread in GetState asks for is in a chunk.
LEMMA CallType ==
    ASSUME TableInv, NEW t \in Thread, upc[t] # "out"
    PROVE  id[t] \in Vertex /\ id[t] # NoVertex /\ logI(t) \in Chunk
<1>1. id[t] \in Vertex
  BY DEF TableInv, TableType
<1> QED
  BY <1>1, PlaceType, GraphAssumption DEF logI

\* A state that changes in place stays where it is.
LEMMA StoreTable ==
    ASSUME TableInv, UNCHANGED <<vecs, init, upc, id, ptr>>, updated' \in BOOLEAN,
           mem' \in [DOMAIN mem -> PwsaState]
    PROVE  TableInv'
<1>1. DOMAIN mem' = DOMAIN mem
  OBVIOUS
<1>2. TableType'
  BY <1>1 DEF TableInv, TableType
<1>3. Arrays'
  <2>1. Allocated' = Allocated
    BY <1>1 DEF Allocated
  <2> QED
    BY <1>1, <2>1 DEF TableInv, Arrays
<1>4. Makers'
  BY DEF TableInv, Makers, logI
<1>5. Pointers'
  BY DEF TableInv, Pointers, HasState, Exists, Where
<1> QED
  BY <1>2, <1>3, <1>4, <1>5 DEF TableInv

\* The call of GetState: nothing is known of the new id yet.
LEMMA CallTable ==
    ASSUME TableInv, NEW t \in Thread, upc[t] = "out", NEW i \in Vertex, Call(t, i)
    PROVE  /\ TableInv'
           /\ upc' = [upc EXCEPT ![t] = "lookup"]
           /\ id' = [id EXCEPT ![t] = i]
<1>1. /\ upc' = [upc EXCEPT ![t] = "lookup"]
      /\ id' = [id EXCEPT ![t] = i]
      /\ UNCHANGED <<vecs, init, mem, ptr, updated>>
  BY DEF Call, UGoto
<1>2. /\ upc'[t] = "lookup" /\ id'[t] = i
      /\ \A u \in Thread : u # t => upc'[u] = upc[u] /\ id'[u] = id[u]
  BY <1>1 DEF TableInv, TableType
<1>3. TableType'
  BY <1>1, <1>2 DEF TableInv, TableType, InCall
<1>4. Arrays'
  BY <1>1 DEF TableInv, Arrays, Allocated
<1>5. Makers'
  BY <1>1, <1>2 DEF TableInv, Makers, logI
<1>6. Pointers'
  BY <1>1, <1>2 DEF TableInv, Pointers, HasState, Exists, Where
<1> QED
  BY <1>1, <1>3, <1>4, <1>5, <1>6 DEF TableInv

\* The steps of GetState that only go on
LEMMA LookTable ==
    ASSUME TableInv, NEW t \in Thread, upc[t] # "out",
           UNCHANGED <<vecs, init, mem, id, ptr, updated>>,
           NEW l \in {"create", "hammer", "cas", "index", "setH", "out"},
           upc' = [upc EXCEPT ![t] = l],
           l = "index" => vecs[logI(t)] # NULL,
           l \in {"setH", "out"} => upc[t] = "memo"
    PROVE  TableInv'
<1>2. /\ upc'[t] = l
      /\ \A u \in Thread : u # t => upc'[u] = upc[u]
  BY DEF TableInv, TableType
<1>3. TableType'
  BY <1>2 DEF TableInv, TableType, InCall
<1>4. Arrays'
  BY DEF TableInv, Arrays, Allocated
<1>5. Makers'
  BY <1>2 DEF TableInv, Makers, logI
<1>6. Pointers'
  BY <1>2 DEF TableInv, Pointers, HasState, Exists, Where
<1> QED
  BY <1>3, <1>4, <1>5, <1>6 DEF TableInv

\* The exchange of init lets one thread of all that want the array make it.
LEMMA CasTable ==
    ASSUME TableInv, NEW t \in Thread, CreateCas(t)
    PROVE  TableInv'
<1>1. logI(t) \in Chunk
  BY CallType DEF CreateCas
<1>2. CASE init[logI(t)] # -1
  <2>1. upc[t] # "out" /\ upc' = [upc EXCEPT ![t] = "create"] /\ UNCHANGED <<vecs, init, mem, id, ptr, updated>>
    BY <1>2 DEF CreateCas, UGoto
  <2> QED
    BY <2>1, LookTable
<1>3. CASE init[logI(t)] = -1
  <2>1. /\ upc[t] = "cas" /\ upc' = [upc EXCEPT ![t] = "alloc"]
        /\ init' = [init EXCEPT ![logI(t)] = 0]
        /\ UNCHANGED <<vecs, mem, id, ptr, updated>>
    BY <1>3 DEF CreateCas, UGoto
  <2>2. /\ upc'[t] = "alloc"
        /\ \A u \in Thread : u # t => upc'[u] = upc[u]
        /\ init'[logI(t)] = 0
        /\ \A k \in Chunk : k # logI(t) => init'[k] = init[k]
        /\ \A u \in Thread : logI(u)' = logI(u)
    BY <1>1, <2>1 DEF TableInv, TableType, logI
  <2>3. vecs[logI(t)] = NULL /\ vecs' = vecs
    BY <1>1, <1>3, <2>1 DEF TableInv, Makers
  <2>4. \A u \in Thread : upc[u] \in {"alloc", "publish"} => logI(u) # logI(t)
    BY <1>3 DEF TableInv, Makers
  <2>5. \A u \in Thread : upc[u] \in {"alloc", "publish"} => logI(u) \in Chunk
    BY CallType
  <2>6. TableType'
    BY <2>1, <2>2 DEF TableInv, TableType, InCall
  <2>7. Arrays'
    BY <2>1 DEF TableInv, Arrays, Allocated
  <2>8. Makers'
    <3>1. \A k \in Chunk : init'[k] = -1 => vecs'[k] = NULL
      BY <2>2, <2>3 DEF TableInv, Makers
    <3>2. \A u \in Thread : upc'[u] \in {"alloc", "publish"} => init'[logI(u)'] = 0
      BY <2>2, <2>4, <2>5 DEF TableInv, Makers
    <3>3. \A u \in Thread : upc'[u] = "alloc" => vecs'[logI(u)'] = NULL
      BY <2>2, <2>3 DEF TableInv, Makers
    <3>4. \A u \in Thread : upc'[u] \in {"publish", "index"} => vecs'[logI(u)'] # NULL
      BY <2>2, <2>3 DEF TableInv, Makers
    <3>5. \A s, u \in Thread : /\ upc'[s] \in {"alloc", "publish"} /\ upc'[u] \in {"alloc", "publish"}
                               /\ logI(s)' = logI(u)'
                               => s = u
      BY <2>2, <2>4 DEF TableInv, Makers
    <3> QED
      BY <3>1, <3>2, <3>3, <3>4, <3>5 DEF Makers
  <2>9. Pointers'
    BY <2>1, <2>2 DEF TableInv, Pointers, HasState, Exists, Where
  <2> QED
    BY <2>6, <2>7, <2>8, <2>9 DEF TableInv
<1> QED
  BY <1>2, <1>3

\* The address of an array in use is one that was given out.
LEMMA InUse ==
    ASSUME TableInv, NEW k \in Chunk, vecs[k] # NULL
    PROVE  vecs[k] \in Allocated
<1>1. 0 \in 0..vecSize(k) - 1
  BY ChunkSize
<1>2. <<vecs[k], 0>> \in DOMAIN mem
  BY <1>1 DEF TableInv, Arrays
<1> QED
  BY <1>2 DEF Allocated

\* A new array is at an address nobody has, and holds new states.
LEMMA AllocFacts ==
    ASSUME TableInv, NEW t \in Thread, Alloc(t)
    PROVE  \E nv \in Nat :
              /\ nv # NULL /\ nv \notin Allocated
              /\ IsFiniteSet(Allocated') /\ Allocated' = 1..Cardinality(Allocated')
              /\ {nv} \X (0..vecSize(logI(t)) - 1) \subseteq DOMAIN mem'
              /\ DOMAIN mem \subseteq DOMAIN mem'
              /\ DOMAIN mem' \subseteq Nat \X Nat
              /\ mem' \in [DOMAIN mem' -> PwsaState]
              /\ \A p \in DOMAIN mem : mem'[p] = mem[p]
              /\ \A p \in DOMAIN mem' : p[1] = nv => mem'[p] = NewState
              /\ vecs' = [vecs EXCEPT ![logI(t)] = nv]
              /\ upc' = [upc EXCEPT ![t] = "publish"]
              /\ UNCHANGED <<init, id, ptr, updated>>
<1> DEFINE n == Cardinality(Allocated)
           nv == n + 1
           D == {nv} \X (0..vecSize(logI(t)) - 1)
<1>1. /\ upc[t] = "alloc"
      /\ mem' = [p \in DOMAIN mem \cup D |-> IF p \in DOMAIN mem THEN mem[p] ELSE NewState]
      /\ vecs' = [vecs EXCEPT ![logI(t)] = nv]
      /\ upc' = [upc EXCEPT ![t] = "publish"]
      /\ UNCHANGED <<init, id, ptr, updated>>
  BY DEF Alloc, UGoto
<1>2. IsFiniteSet(Allocated) /\ Allocated = 1..n
  BY DEF TableInv, Arrays
<1>3. n \in Nat /\ nv \in Nat
  BY <1>2, FS_CardinalityType
<1>4. vecSize(logI(t)) \in Nat /\ vecSize(logI(t)) >= 1
  BY <1>1, CallType, ChunkSize
<1> HIDE DEF n
<1>5. DOMAIN mem' = DOMAIN mem \cup D
  BY <1>1
<1>6. D \subseteq Nat \X Nat /\ (\A p \in D : p[1] = nv) /\ <<nv, 0>> \in D
  BY <1>3, <1>4
<1>7. \A p \in DOMAIN mem : p[1] \in 1..n /\ p[1] # nv
  <2>1. \A p \in DOMAIN mem : p[1] \in Allocated
    BY DEF Allocated
  <2> QED
    BY <1>2, <1>3, <2>1
<1>8. Allocated' = 1..n + 1
  <2>1. \A a \in 1..n : \E p \in DOMAIN mem : a = p[1]
    BY <1>2 DEF Allocated
  <2>2. Allocated' = {p[1] : p \in DOMAIN mem \cup D}
    BY <1>5 DEF Allocated
  <2>3. <<nv, 0>>[1] = nv
    OBVIOUS
  <2> HIDE DEF D
  <2>4. ASSUME NEW a \in 1..n + 1 PROVE a \in Allocated'
    <3>1. CASE a = nv
      BY <1>6, <2>2, <2>3, <3>1
    <3>2. CASE a # nv
      <4>1. a \in 1..n
        BY <1>3, <3>2
      <4> QED
        BY <2>1, <2>2, <4>1
    <3> QED
      BY <3>1, <3>2
  <2>5. ASSUME NEW a \in Allocated' PROVE a \in 1..n + 1
    <3>1. PICK p \in DOMAIN mem \cup D : a = p[1]
      BY <2>2
    <3> QED
      BY <1>3, <1>6, <1>7, <3>1
  <2> QED
    BY <2>4, <2>5
<1>9. IsFiniteSet(Allocated') /\ Allocated' = 1..Cardinality(Allocated')
  <2>1. IsFiniteSet(1..n + 1) /\ Cardinality(1..n + 1) = n + 1
    BY <1>3, FS_Interval
  <2> QED
    BY <1>8, <2>1
<1> HIDE DEF D
<1>10. /\ \A p \in DOMAIN mem : mem'[p] = mem[p]
       /\ \A p \in D : p \notin DOMAIN mem /\ mem'[p] = NewState
  BY <1>1, <1>6, <1>7
<1>11. NewState \in PwsaState
  BY GraphAssumption DEF NewState, PwsaState, VPack
<1>12. mem' \in [DOMAIN mem' -> PwsaState]
  <2>1. \A p \in DOMAIN mem : mem[p] \in PwsaState
    BY DEF TableInv, TableType
  <2> QED
    BY <1>1, <1>5, <1>11, <2>1
<1>13. \A p \in DOMAIN mem' : p[1] = nv => mem'[p] = NewState
  BY <1>5, <1>7, <1>10
<1>14. DOMAIN mem \subseteq Nat \X Nat
  BY DEF TableInv, TableType
<1>15. nv # NULL /\ nv \notin Allocated
  BY <1>2, <1>3 DEF NULL
<1>16. {nv} \X (0..vecSize(logI(t)) - 1) \subseteq DOMAIN mem'
  BY <1>5 DEF D
<1> HIDE DEF nv
<1> QED
  BY <1>1, <1>3, <1>5, <1>6, <1>9, <1>10, <1>12, <1>13, <1>14, <1>15, <1>16

\* A new array keeps the table sound, and no state changes by it.
LEMMA AllocTable ==
    ASSUME TableInv, NEW t \in Thread, Alloc(t)
    PROVE  /\ TableInv'
           /\ \A x \in Vertex : StateOf(x)' = StateOf(x)
<1>1. PICK nv \in Nat :
         /\ nv # NULL /\ nv \notin Allocated
         /\ IsFiniteSet(Allocated') /\ Allocated' = 1..Cardinality(Allocated')
         /\ {nv} \X (0..vecSize(logI(t)) - 1) \subseteq DOMAIN mem'
         /\ DOMAIN mem \subseteq DOMAIN mem'
         /\ DOMAIN mem' \subseteq Nat \X Nat
         /\ mem' \in [DOMAIN mem' -> PwsaState]
         /\ \A p \in DOMAIN mem : mem'[p] = mem[p]
         /\ \A p \in DOMAIN mem' : p[1] = nv => mem'[p] = NewState
         /\ vecs' = [vecs EXCEPT ![logI(t)] = nv]
         /\ upc' = [upc EXCEPT ![t] = "publish"]
         /\ UNCHANGED <<init, id, ptr, updated>>
  BY AllocFacts
<1>2. upc[t] = "alloc" /\ logI(t) \in Chunk
  BY CallType DEF Alloc
<1>3. /\ init[logI(t)] = 0 /\ vecs[logI(t)] = NULL
      /\ \A u \in Thread : u # t /\ upc[u] \in {"alloc", "publish"} => logI(u) # logI(t)
  BY <1>2 DEF TableInv, Makers
<1>4. /\ vecs'[logI(t)] = nv
      /\ \A k \in Chunk : k # logI(t) => vecs'[k] = vecs[k]
      /\ upc'[t] = "publish"
      /\ \A u \in Thread : u # t => upc'[u] = upc[u]
      /\ \A u \in Thread : logI(u)' = logI(u)
  BY <1>1, <1>2 DEF TableInv, TableType, logI
<1>5. \A u \in Thread : upc[u] # "out" => logI(u) \in Chunk
  BY CallType
<1>6. TableType'
  BY <1>1, <1>2, <1>4 DEF TableInv, TableType, InCall
<1>7. Arrays'
  <2>1. ASSUME NEW k \in Chunk, vecs'[k] # NULL
        PROVE  {vecs'[k]} \X (0..vecSize(k) - 1) \subseteq DOMAIN mem'
    <3>1. CASE k = logI(t)
      BY <1>1, <1>4, <3>1
    <3>2. CASE k # logI(t)
      <4>1. {vecs[k]} \X (0..vecSize(k) - 1) \subseteq DOMAIN mem
        BY <1>4, <2>1, <3>2 DEF TableInv, Arrays
      <4> QED
        BY <1>1, <1>4, <3>2, <4>1
    <3> QED
      BY <3>1, <3>2
  <2>2. \A k \in Chunk : k # logI(t) /\ vecs'[k] # NULL => vecs'[k] # nv
    BY <1>1, <1>4, InUse
  <2>3. \A k, l \in Chunk : vecs'[k] # NULL /\ vecs'[k] = vecs'[l] => k = l
    BY <1>1, <1>4, <2>2 DEF TableInv, Arrays
  <2> QED
    BY <1>1, <2>1, <2>3 DEF Arrays
<1>8. Makers'
  <2>1. \A k \in Chunk : init'[k] = -1 => vecs'[k] = NULL
    BY <1>1, <1>3, <1>4 DEF TableInv, Makers
  <2>2. \A u \in Thread : upc'[u] \in {"alloc", "publish"} => init'[logI(u)'] = 0
    BY <1>1, <1>3, <1>4 DEF TableInv, Makers
  <2>3. \A u \in Thread : upc'[u] = "alloc" => vecs'[logI(u)'] = NULL
    BY <1>3, <1>4, <1>5 DEF TableInv, Makers
  <2>4. \A u \in Thread : upc'[u] \in {"publish", "index"} => vecs'[logI(u)'] # NULL
    BY <1>1, <1>4, <1>5 DEF TableInv, Makers
  <2>5. \A s, u \in Thread : /\ upc'[s] \in {"alloc", "publish"} /\ upc'[u] \in {"alloc", "publish"}
                             /\ logI(s)' = logI(u)'
                             => s = u
    BY <1>3, <1>4 DEF TableInv, Makers
  <2> QED
    BY <2>1, <2>2, <2>3, <2>4, <2>5 DEF Makers
<1>9. \A x \in Vertex : Exists(x) => Exists(x)' /\ Where(x)' = Where(x)
  BY <1>3, <1>4, PlaceType DEF Exists, Where
<1>10. Pointers'
  <2> SUFFICES ASSUME NEW u \in Thread, HasState(u)'
               PROVE  Exists(id[u])' /\ (ptr[u] = Where(id[u]))'
    BY DEF Pointers
  <2>1. u # t /\ HasState(u)
    BY <1>1, <1>4 DEF HasState
  <2>2. Exists(id[u]) /\ ptr[u] = Where(id[u]) /\ id[u] \in Vertex
    BY <2>1 DEF TableInv, Pointers, TableType, HasState
  <2>3. id'[u] = id[u] /\ ptr'[u] = ptr[u]
    BY <1>1
  <2> QED
    BY <1>9, <2>2, <2>3 DEF Exists, Where
<1>11. ASSUME NEW x \in Vertex PROVE StateOf(x)' = StateOf(x)
  <2>1. CASE Exists(x)
    <3>1. Where(x) \in DOMAIN mem
      BY <2>1, Located
    <3> QED
      BY <1>1, <1>9, <2>1, <3>1 DEF StateOf
  <2>2. CASE ~Exists(x) /\ Exists(x)'
    <3>0. ChunkOf[x] \in Chunk /\ IndexOf[x] \in 0..vecSize(ChunkOf[x]) - 1
      BY PlaceType
    <3>1. ChunkOf[x] = logI(t)
      BY <1>4, <2>2, <3>0 DEF Exists
    <3>2. Where(x)' = <<nv, IndexOf[x]>>
      BY <1>4, <3>1 DEF Where
    <3>3. <<nv, IndexOf[x]>> \in DOMAIN mem' /\ <<nv, IndexOf[x]>>[1] = nv
      BY <1>1, <3>0, <3>1
    <3>4. mem'[<<nv, IndexOf[x]>>] = NewState
      BY <1>1, <3>3
    <3> QED
      BY <2>2, <3>2, <3>4 DEF StateOf
  <2>3. CASE ~Exists(x) /\ ~Exists(x)'
    BY <2>3 DEF StateOf, NewState
  <2> QED
    BY <2>1, <2>2, <2>3
<1> QED
  BY <1>6, <1>7, <1>8, <1>10, <1>11 DEF TableInv

\* Releasing the spinning threads does not let a second one make the array.
LEMMA PublishTable ==
    ASSUME TableInv, NEW t \in Thread, Publish(t)
    PROVE  TableInv'
<1>1. /\ upc[t] = "publish" /\ upc' = [upc EXCEPT ![t] = "create"]
      /\ init' = [init EXCEPT ![logI(t)] = 1]
      /\ UNCHANGED <<vecs, mem, id, ptr, updated>>
  BY DEF Publish, UGoto
<1>2. logI(t) \in Chunk
  BY <1>1, CallType
<1>3. /\ upc'[t] = "create"
      /\ \A u \in Thread : u # t => upc'[u] = upc[u]
      /\ init'[logI(t)] = 1
      /\ \A k \in Chunk : k # logI(t) => init'[k] = init[k]
      /\ \A u \in Thread : logI(u)' = logI(u)
  BY <1>1, <1>2 DEF TableInv, TableType, logI
<1>4. /\ vecs[logI(t)] # NULL
      /\ \A u \in Thread : u # t /\ upc[u] \in {"alloc", "publish"} => logI(u) # logI(t)
  BY <1>1 DEF TableInv, Makers
<1>5. \A u \in Thread : upc[u] # "out" => logI(u) \in Chunk
  BY CallType
<1>6. TableType'
  BY <1>1, <1>2, <1>3 DEF TableInv, TableType, InCall
<1>7. Arrays'
  BY <1>1 DEF TableInv, Arrays, Allocated
<1>8. Makers'
  <2>1. \A k \in Chunk : init'[k] = -1 => vecs'[k] = NULL
    BY <1>1, <1>3 DEF TableInv, Makers
  <2>2. \A u \in Thread : upc'[u] \in {"alloc", "publish"} => init'[logI(u)'] = 0
    BY <1>3, <1>4, <1>5 DEF TableInv, Makers
  <2>3. \A u \in Thread : upc'[u] = "alloc" => vecs'[logI(u)'] = NULL
    BY <1>1, <1>3 DEF TableInv, Makers
  <2>4. \A u \in Thread : upc'[u] \in {"publish", "index"} => vecs'[logI(u)'] # NULL
    BY <1>1, <1>3 DEF TableInv, Makers
  <2>5. \A s, u \in Thread : /\ upc'[s] \in {"alloc", "publish"} /\ upc'[u] \in {"alloc", "publish"}
                             /\ logI(s)' = logI(u)'
                             => s = u
    BY <1>3 DEF TableInv, Makers
  <2> QED
    BY <2>1, <2>2, <2>3, <2>4, <2>5 DEF Makers
<1>9. Pointers'
  BY <1>1, <1>3 DEF TableInv, Pointers, HasState, Exists, Where
<1> QED
  BY <1>6, <1>7, <1>8, <1>9 DEF TableInv

\* The second look at vecs[logI] finds the array the first one found.
LEMMA IndexTable ==
    ASSUME TableInv, NEW t \in Thread, Index(t)
    PROVE  TableInv'
<1>1. /\ upc[t] = "index" /\ upc' = [upc EXCEPT ![t] = "memo"]
      /\ ptr' = [ptr EXCEPT ![t] = <<vecs[logI(t)], IndexOf[id[t]]>>]
      /\ UNCHANGED <<vecs, init, mem, id, updated>>
  BY DEF Index, UGoto
<1>2. logI(t) \in Chunk /\ id[t] \in Vertex
  BY <1>1, CallType
<1>3. /\ upc'[t] = "memo"
      /\ \A u \in Thread : u # t => upc'[u] = upc[u]
      /\ ptr'[t] = <<vecs[logI(t)], IndexOf[id[t]]>>
      /\ \A u \in Thread : u # t => ptr'[u] = ptr[u]
      /\ \A u \in Thread : logI(u)' = logI(u)
  BY <1>1, <1>2 DEF TableInv, TableType, logI
<1>4. <<vecs[logI(t)], IndexOf[id[t]]>> \in Nat \X Nat
  BY <1>2, PlaceType DEF TableInv, TableType
<1>5. vecs[logI(t)] # NULL
  BY <1>1 DEF TableInv, Makers
<1>6. TableType'
  BY <1>1, <1>3, <1>4 DEF TableInv, TableType, InCall
<1>7. Arrays'
  BY <1>1 DEF TableInv, Arrays, Allocated
<1>8. Makers'
  BY <1>1, <1>3 DEF TableInv, Makers
<1>9. Pointers'
  BY <1>1, <1>3, <1>5 DEF TableInv, Pointers, HasState, Exists, Where, logI
<1> QED
  BY <1>6, <1>7, <1>8, <1>9 DEF TableInv

\* The pointer of a thread leads to the state it asked for.
LEMMA Deref ==
    ASSUME TableInv, NEW t \in Thread, HasState(t)
    PROVE  /\ id[t] \in Vertex /\ Exists(id[t])
           /\ ptr[t] = Where(id[t]) /\ ptr[t] \in DOMAIN mem
           /\ mem[ptr[t]] = StateOf(id[t])
           /\ StateOf(id[t]) \in PwsaState
<1>1. id[t] \in Vertex /\ Exists(id[t]) /\ ptr[t] = Where(id[t])
  BY DEF TableInv, TableType, Pointers, HasState
<1> QED
  BY <1>1, Located DEF StateOf

\* A store through it changes that state and no other.
LEMMA StoreAt ==
    ASSUME TableInv, NEW t \in Thread, HasState(t), NEW r \in PwsaState,
           mem' = [mem EXCEPT ![ptr[t]] = r], vecs' = vecs
    PROVE  /\ mem' \in [DOMAIN mem -> PwsaState]
           /\ \A x \in Vertex : StateOf(x)' = IF x = id[t] THEN r ELSE StateOf(x)
<1>1. /\ id[t] \in Vertex /\ Exists(id[t])
      /\ ptr[t] = Where(id[t]) /\ ptr[t] \in DOMAIN mem
  BY Deref
<1>2. mem \in [DOMAIN mem -> PwsaState]
  BY DEF TableInv, TableType
<1>3. /\ mem' \in [DOMAIN mem -> PwsaState]
      /\ mem'[ptr[t]] = r
      /\ \A p \in DOMAIN mem : p # ptr[t] => mem'[p] = mem[p]
  BY <1>1, <1>2
<1>4. \A x \in Vertex : (Exists(x)' <=> Exists(x)) /\ Where(x)' = Where(x)
  BY DEF Exists, Where
<1>5. ASSUME NEW x \in Vertex PROVE StateOf(x)' = IF x = id[t] THEN r ELSE StateOf(x)
  <2>1. CASE x = id[t]
    BY <1>1, <1>3, <1>4, <2>1 DEF StateOf
  <2>2. CASE x # id[t] /\ Exists(x)
    <3>1. Where(x) \in DOMAIN mem /\ Where(x) # ptr[t]
      BY <1>1, <2>2, Located, WhereUnique
    <3> QED
      BY <1>3, <1>4, <2>2, <3>1 DEF StateOf
  <2>3. CASE x # id[t] /\ ~Exists(x)
    BY <1>4, <2>3 DEF StateOf, NewState
  <2> QED
    BY <2>1, <2>2, <2>3
<1> QED
  BY <1>3, <1>5

\* What a step of GetState does to the states: nothing, or one gets its heuristic value.
LEMMA GetStateTable ==
    ASSUME TableInv, NEW t \in Thread, GetStateStep(t)
    PROVE  /\ TableInv'
           /\ id' = id /\ updated' = updated
           /\ upc[t] # "out"
           /\ \A u \in Thread : u # t => upc'[u] = upc[u]
           /\ \A x \in Vertex :
                 \/ StateOf(x)' = StateOf(x)
                 \/ /\ upc[t] = "setH" /\ x = id[t]
                    /\ StateOf(x)' = [StateOf(x) EXCEPT !.h = IF updated THEN "fresh" ELSE "stale"]
           /\ upc'[t] = "out" => \A x \in Vertex : x = id[t] => StateOf(x)'.h # "unset"
<1>0. upc \in [Thread -> InCall \cup {"out"}]
  BY DEF TableInv, TableType
<1> DEFINE Same == \A x \in Vertex : StateOf(x)' = StateOf(x)
<1>1. ASSUME UNCHANGED <<vecs, mem>> PROVE Same
  BY <1>1 DEF StateOf, Exists, Where
<1>2. CASE Lookup(t)
  <2>1. PICK l \in {"create", "index"} :
           /\ upc[t] = "lookup" /\ upc' = [upc EXCEPT ![t] = l]
           /\ l = "index" => vecs[logI(t)] # NULL
           /\ UNCHANGED <<vecs, init, mem, id, ptr, updated>>
    BY <1>2 DEF Lookup, UGoto
  <2>2. TableInv'
    BY <2>1, LookTable
  <2> QED
    BY <1>0, <1>1, <2>1, <2>2
<1>3. CASE Create(t)
  <2>1. PICK l \in {"hammer", "index"} :
           /\ upc[t] = "create" /\ upc' = [upc EXCEPT ![t] = l]
           /\ l = "index" => vecs[logI(t)] # NULL
           /\ UNCHANGED <<vecs, init, mem, id, ptr, updated>>
    BY <1>3 DEF Create, UGoto
  <2>2. TableInv'
    BY <2>1, LookTable
  <2> QED
    BY <1>0, <1>1, <2>1, <2>2
<1>4. CASE Hammer(t)
  <2>1. /\ upc[t] = "hammer" /\ upc' = [upc EXCEPT ![t] = "cas"]
        /\ UNCHANGED <<vecs, init, mem, id, ptr, updated>>
    BY <1>4 DEF Hammer, UGoto
  <2>2. TableInv'
    BY <2>1, LookTable
  <2> QED
    BY <1>0, <1>1, <2>1, <2>2
<1>5. CASE CreateCas(t)
  <2>1. PICK l \in {"alloc", "create"} :
           /\ upc[t] = "cas" /\ upc' = [upc EXCEPT ![t] = l]
           /\ UNCHANGED <<vecs, mem, id, updated>>
    BY <1>5 DEF CreateCas, UGoto
  <2>2. TableInv'
    BY <1>5, CasTable
  <2> QED
    BY <1>0, <1>1, <2>1, <2>2
<1>6. CASE Alloc(t)
  <2>1. upc[t] = "alloc" /\ upc' = [upc EXCEPT ![t] = "publish"] /\ UNCHANGED <<id, updated>>
    BY <1>6 DEF Alloc, UGoto
  <2>2. TableInv' /\ Same
    BY <1>6, AllocTable
  <2> QED
    BY <1>0, <2>1, <2>2
<1>7. CASE Publish(t)
  <2>1. /\ upc[t] = "publish" /\ upc' = [upc EXCEPT ![t] = "create"]
        /\ UNCHANGED <<vecs, mem, id, updated>>
    BY <1>7 DEF Publish, UGoto
  <2>2. TableInv'
    BY <1>7, PublishTable
  <2> QED
    BY <1>0, <1>1, <2>1, <2>2
<1>8. CASE Index(t)
  <2>1. /\ upc[t] = "index" /\ upc' = [upc EXCEPT ![t] = "memo"]
        /\ UNCHANGED <<vecs, mem, id, updated>>
    BY <1>8 DEF Index, UGoto
  <2>2. TableInv'
    BY <1>8, IndexTable
  <2> QED
    BY <1>0, <1>1, <2>1, <2>2
<1>9. CASE Memo(t)
  <2>1. PICK l \in {"setH", "out"} :
           /\ upc[t] = "memo" /\ upc' = [upc EXCEPT ![t] = l]
           /\ l = "out" => mem[ptr[t]].h # "unset"
           /\ UNCHANGED <<vecs, init, mem, id, ptr, updated>>
    BY <1>9 DEF Memo, UGoto
  <2>2. TableInv'
    BY <2>1, LookTable
  <2>3. mem[ptr[t]] = StateOf(id[t])
    BY <2>1, CallType, Deref DEF HasState
  <2>4. Same
    BY <1>1, <2>1
  <2> QED
    BY <1>0, <2>1, <2>2, <2>3, <2>4
<1>10. CASE SetH(t)
  <2> DEFINE hv == IF updated THEN "fresh" ELSE "stale"
             r == [mem[ptr[t]] EXCEPT !.h = hv]
  <2>1. /\ upc[t] = "setH" /\ upc' = [upc EXCEPT ![t] = "out"]
        /\ mem' = [mem EXCEPT ![ptr[t]].h = hv]
        /\ UNCHANGED <<vecs, init, id, ptr, updated>>
    BY <1>10 DEF SetH, UGoto
  <2>2. HasState(t)
    BY <2>1, CallType DEF HasState
  <2>3. /\ id[t] \in Vertex /\ ptr[t] = Where(id[t])
        /\ mem[ptr[t]] = StateOf(id[t]) /\ StateOf(id[t]) \in PwsaState
    BY <2>2, Deref
  <2>4. r \in PwsaState /\ r.h = hv
    BY <2>3 DEF PwsaState
  <2>5. mem' = [mem EXCEPT ![ptr[t]] = r]
    BY <2>1
  <2>6. /\ mem' \in [DOMAIN mem -> PwsaState]
        /\ \A x \in Vertex : StateOf(x)' = IF x = id[t] THEN r ELSE StateOf(x)
    BY <2>1, <2>2, <2>4, <2>5, StoreAt
  <2>7. /\ upc'[t] = "out"
        /\ \A u \in Thread : u # t => upc'[u] = upc[u]
    BY <1>0, <2>1
  <2>8. TableInv'
    <3>1. DOMAIN mem' = DOMAIN mem /\ mem' \in [DOMAIN mem' -> PwsaState]
      BY <2>6
    <3>2. TableType'
      BY <2>1, <2>7, <3>1 DEF TableInv, TableType, InCall
    <3>3. Allocated' = Allocated
      BY <3>1 DEF Allocated
    <3>4. Arrays'
      BY <2>1, <3>1, <3>3 DEF TableInv, Arrays
    <3>5. Makers'
      BY <2>1, <2>7 DEF TableInv, Makers, logI
    <3>6. Pointers'
      BY <2>1, <2>7 DEF TableInv, Pointers, HasState, Exists, Where
    <3> QED
      BY <3>2, <3>4, <3>5, <3>6 DEF TableInv
  <2>9. \A x \in Vertex : x = id[t] => StateOf(x)' = [StateOf(x) EXCEPT !.h = hv] /\ StateOf(x)'.h # "unset"
    <3> SUFFICES ASSUME NEW x \in Vertex, x = id[t]
                 PROVE  StateOf(x)' = [StateOf(x) EXCEPT !.h = hv] /\ StateOf(x)'.h # "unset"
      OBVIOUS
    <3>1. StateOf(x)' = r
      BY <2>6
    <3>2. StateOf(x) = mem[ptr[t]]
      BY <2>3
    <3>3. r = [StateOf(x) EXCEPT !.h = hv]
      BY <3>2
    <3>4. hv # "unset"
      OBVIOUS
    <3> HIDE DEF r, hv
    <3> QED
      BY <2>4, <3>1, <3>3, <3>4
  <2> HIDE DEF r
  <2> QED
    BY <2>1, <2>6, <2>7, <2>8, <2>9
<1> QED
  BY <1>2, <1>3, <1>4, <1>5, <1>6, <1>7, <1>8, <1>9, <1>10 DEF GetStateStep

------------------------------------------------------------------------------
(* The planner: what the steps leave alone *)

\* Every state, made or not, is a state.
LEMMA StatesType ==
    ASSUME TableInv
    PROVE  /\ \A x \in Vertex : StateOf(x) \in PwsaState
           /\ gOf \in [Vertex -> VPack]
           /\ eOf \in [Vertex -> BOOLEAN]
<1>1. NewState \in PwsaState
  BY GraphAssumption DEF NewState, PwsaState, VPack
<1>2. \A x \in Vertex : StateOf(x) \in PwsaState
  BY <1>1, Located DEF StateOf
<1>3. \A x \in Vertex : StateOf(x).gpred \in VPack /\ StateOf(x).is_expanded \in BOOLEAN
  BY <1>2 DEF PwsaState
<1> QED
  BY <1>2, <1>3 DEF gOf, eOf

\* What a thread that has its pointer reads
LEMMA AtState ==
    ASSUME TableInv, NEW t \in Thread, upc[t] = "out", id[t] \in Vertex
    PROVE  /\ HasState(t)
           /\ mem[ptr[t]] = StateOf(id[t])
           /\ gpredAt(t) = gOf[id[t]]
           /\ mem[ptr[t]].is_expanded = eOf[id[t]]
           /\ gOf[id[t]] \in VPack
<1>1. HasState(t)
  BY GraphAssumption DEF HasState
<1> QED
  BY <1>1, Deref, StatesType DEF gpredAt, gOf, eOf

\* Without a store no state changes.
LEMMA SameStates ==
    ASSUME UNCHANGED <<vecs, mem>>
    PROVE  /\ \A x \in Vertex : StateOf(x)' = StateOf(x)
           /\ gOf' = gOf /\ eOf' = eOf /\ Expanded' = Expanded
<1>1. \A x \in Vertex : StateOf(x)' = StateOf(x)
  BY DEF StateOf, Exists, Where, NewState
<1>2. gOf' = gOf /\ eOf' = eOf
  BY <1>1 DEF gOf, eOf
<1> QED
  BY <1>1, <1>2 DEF Expanded

\* Heuristic values stay, and who returned from GetState did so before.
LEMMA SameH ==
    ASSUME HInv, TableType,
           \A x \in Vertex : StateOf(x)'.h = StateOf(x).h,
           \A t \in Thread : upc'[t] = "out" => upc[t] = "out" /\ id'[t] = id[t]
    PROVE  HInv'
<1>1. \A x \in Vertex : StateOf(x)'.h = "stale" => x \in {source, destination}
  BY DEF HInv
<1>2. ASSUME NEW t \in Thread, id'[t] # NoVertex, upc'[t] = "out"
      PROVE  \A x \in Vertex : x = id'[t] => StateOf(x)'.h # "unset"
  BY <1>2 DEF HInv
<1>3. ASSUME NEW t \in Thread, id'[t] # NoVertex, upc'[t] = "out" PROVE StateOf(id[t])'.h # "unset"
  <2>1. id[t]' = id[t] /\ id[t] \in Vertex
    BY <1>3 DEF TableType
  <2> QED
    BY <1>2, <1>3, <2>1 DEF StateOf, Exists, Where
<1> QED
  BY <1>1, <1>3 DEF HInv

\* What a worker knows stays true while distances improve and expansions grow.
LEMMA WorkKept ==
    ASSUME NEW w \in Worker, WorkOf(w), gOf \in [Vertex -> VPack], gOf' \in [Vertex -> VPack],
           \A x \in Vertex : /\ eOf[x] => eOf'[x]
                             /\ gOf'[x].distance <= gOf[x].distance
                             /\ gOf[x].distance # IntMax => gOf'[x].distance # IntMax,
           MaxWeight * (Cardinality(Expanded) - 1) <= MaxWeight * (Cardinality(Expanded') - 1),
           dist[w] \in Nat,
           pc'[w] = pc[w], id'[w] = id[w], v'[w] = v[w], arc'[w] = arc[w],
           dist'[w] = dist[w], seen'[w] = seen[w],
           Expanded \in SUBSET Vertex, Expanded' \in SUBSET Vertex
    PROVE  WorkOf(w)'
<1>1. mine(w)' = mine(w)
  BY DEF mine
<1>2. pc[w] \in {"claim", "distance", "insert"} => id'[w] \in Vertex
  BY DEF WorkOf
<1>3. pc[w] \in {"claim", "insert"} => gOf'[id[w]].distance # IntMax
  BY DEF WorkOf
<1>4. pc[w] = "distance" => eOf'[id[w]]
  BY DEF WorkOf
<1>5. pc[w] \in {"arc", "load", "cas", "insert"} =>
          /\ v[w] \in Vertex /\ eOf'[v[w]]
          /\ arc[w] \in 1..degree(v[w]) + 1
          /\ gOf'[v[w]].distance <= dist[w]
          /\ dist[w] <= MaxWeight * (Cardinality(Expanded') - 1)
  <2> SUFFICES ASSUME pc[w] \in {"arc", "load", "cas", "insert"}
               PROVE  /\ v[w] \in Vertex /\ eOf'[v[w]]
                      /\ arc[w] \in 1..degree(v[w]) + 1
                      /\ gOf'[v[w]].distance <= dist[w]
                      /\ dist[w] <= MaxWeight * (Cardinality(Expanded') - 1)
    OBVIOUS
  <2>1. /\ v[w] \in Vertex /\ eOf[v[w]] /\ arc[w] \in 1..degree(v[w]) + 1
        /\ gOf[v[w]].distance <= dist[w]
        /\ dist[w] <= MaxWeight * (Cardinality(Expanded) - 1)
    BY DEF WorkOf
  <2>2. gOf[v[w]].distance \in Int /\ gOf'[v[w]].distance \in Int
    BY <2>1, GraphAssumption DEF VPack
  <2>3. /\ MaxWeight * (Cardinality(Expanded) - 1) \in Int
        /\ MaxWeight * (Cardinality(Expanded') - 1) \in Int
    BY BudgetFits
  <2>4. gOf'[v[w]].distance <= gOf[v[w]].distance
    BY <2>1
  <2>5. gOf'[v[w]].distance <= dist[w]
    BY <2>1, <2>2, <2>4
  <2>6. dist[w] <= MaxWeight * (Cardinality(Expanded') - 1)
    BY <2>1, <2>3
  <2> QED
    BY <2>1, <2>5, <2>6
<1>6. pc[w] \in {"load", "cas", "insert"} =>
          arc[w] <= degree(v[w]) /\ id[w] = Neighbors[v[w]][arc[w]].vertex
  BY DEF WorkOf
<1>7. pc[w] = "cas" => mine(w).distance < seen[w].distance
  BY DEF WorkOf
<1> QED
  BY <1>1, <1>2, <1>3, <1>4, <1>5, <1>6, <1>7 DEF WorkOf

\* What a worker knows stays true while the search stands still.
LEMMA WorkSame ==
    ASSUME NEW w \in Worker, WorkOf(w), gOf' = gOf, eOf' = eOf,
           pc'[w] = pc[w], id'[w] = id[w], v'[w] = v[w], arc'[w] = arc[w],
           dist'[w] = dist[w], seen'[w] = seen[w]
    PROVE  WorkOf(w)'
<1>1. mine(w)' = mine(w)
  BY DEF mine
<1>2. Expanded' = Expanded
  BY DEF Expanded
<1> QED
  BY <1>1, <1>2 DEF WorkOf

\* The search after a step that leaves it alone
LEMMA SearchSame ==
    ASSUME Search, gOf' = gOf, eOf' = eOf, queued' = queued, is_done' = is_done,
           Launched' <=> Launched
    PROVE  Search'
<1>1. Expanded' = Expanded
  BY DEF Expanded
<1>2. ~Launched' => (\A x \in Vertex : gOf'[x] = NewState.gpred /\ ~eOf'[x]) /\ queued' = {} /\ ~is_done'
  BY DEF Search
<1>3. Launched' => TreeOf(gOf', eOf') /\ BudgetOf(gOf', Expanded')
  BY <1>1 DEF Search
<1>4. \A x \in queued' : gOf'[x].distance # IntMax
  BY DEF Search
<1>5. NewState.gpred' = NewState.gpred
  BY DEF NewState
<1> QED
  BY <1>2, <1>3, <1>4 DEF Search, TreeOf, TreeArcOf, RootedOf, BudgetOf, NewState

\* The path stays good while the search and the main thread stand still.
LEMMA PathSame ==
    ASSUME PathInv, gOf' = gOf, path' = path, solcost' = solcost,
           pc'[Main] = pc[Main], id'[Main] = id[Main]
    PROVE  PathInv'
BY DEF PathInv, Searched

\* The main thread is not one of the workers.
LEMMA MainIn == Main \in Thread /\ Worker \subseteq Thread /\ (\A w \in Worker : w # Main) /\ Worker # {}
BY ThreadsAssumption

\* The invariant holds before anything is called.
LEMMA InitInv == ASSUME Init PROVE IInv
<1>0. /\ UInit
      /\ start_state_id = NoVertex /\ goal_state_id = NoVertex
      /\ pc = [t \in Thread |-> IF t = Main THEN "idle" ELSE "off"]
      /\ queued = {} /\ is_done = FALSE
      /\ v = [w \in Worker |-> NoVertex]
      /\ arc = [w \in Worker |-> 0]
      /\ dist = [w \in Worker |-> 0]
      /\ seen = [w \in Worker |-> NewState.gpred]
      /\ path = <<>> /\ solcost = 0
      /\ answer = -1
  BY DEF Init
<1>1. /\ vecs = [k \in Chunk |-> NULL] /\ init = [k \in Chunk |-> -1] /\ mem = <<>>
      /\ upc = [t \in Thread |-> "out"] /\ id = [t \in Thread |-> NoVertex]
      /\ ptr = [t \in Thread |-> <<NULL, 0>>] /\ updated = FALSE
  BY <1>0 DEF UInit
<1>2. DOMAIN mem = {} /\ Allocated = {}
  BY <1>1 DEF Allocated
<1>3. TableInv
  <2>1. TableType
    <3>1. mem \in [DOMAIN mem -> PwsaState]
      <4>1. <<>> \in Seq(PwsaState) /\ Len(<<>>) = 0
        BY EmptySeq
      <4>2. <<>> \in [1..0 -> PwsaState]
        BY <4>1, LenProperties
      <4> QED
        BY <1>1, <1>2, <4>2
    <3>2. vecs \in [Chunk -> Nat] /\ init \in [Chunk -> {-1, 0, 1}]
      BY <1>1 DEF NULL
    <3>3. upc \in [Thread -> InCall \cup {"out"}] /\ \A t \in Thread : upc[t] = "out"
      BY <1>1
    <3>4. id \in [Thread -> Vertex \cup {NoVertex}] /\ ptr \in [Thread -> Nat \X Nat]
      BY <1>1 DEF NULL
    <3> QED
      BY <1>1, <1>2, <3>1, <3>2, <3>3, <3>4 DEF TableType
  <2>2. Arrays
    <3>1. IsFiniteSet({}) /\ Cardinality({}) = 0
      BY FS_EmptySet
    <3>2. 1..0 = {}
      OBVIOUS
    <3> QED
      BY <1>1, <1>2, <3>1, <3>2 DEF Arrays
  <2>3. Makers
    BY <1>1 DEF Makers
  <2>4. Pointers
    BY <1>1 DEF Pointers, HasState
  <2> QED
    BY <2>1, <2>2, <2>3, <2>4 DEF TableInv
<1>4. \A x \in Vertex : StateOf(x) = NewState
  <2>1. \A x \in Vertex : ~Exists(x)
    BY <1>1, PlaceType DEF Exists
  <2> QED
    BY <2>1 DEF StateOf
<1>5. HInv
  BY <1>1, <1>4 DEF HInv, NewState
<1>6. \A x \in Vertex : gOf[x] = NewState.gpred /\ ~eOf[x]
  BY <1>4 DEF gOf, eOf, NewState
<1>7. PlannerType
  <2>1. NewState.gpred \in VPack
    BY GraphAssumption DEF NewState, VPack
  <2>2. seen \in [Worker -> VPack]
    BY <1>0, <2>1
  <2>3. dist \in [Worker -> 0..IntMax] /\ arc \in [Worker -> Nat] /\ v \in [Worker -> Vertex \cup {NoVertex}]
    BY <1>0, GraphAssumption
  <2>4. path \in Seq(Vertex)
    BY <1>0, EmptySeq
  <2>5. pc \in [Thread -> {"idle", "goal", "start", "run", "join", "test", "walk", "return",
                           "off", "loop", "claim", "distance", "arc", "load", "cas", "insert"}]
    BY <1>0
  <2>6. solcost \in Nat /\ answer \in {-1, 0, 1} /\ is_done \in BOOLEAN /\ queued \in SUBSET Vertex
    BY <1>0
  <2> QED
    BY <1>0, <2>2, <2>3, <2>4, <2>5, <2>6 DEF PlannerType
<1>8. ~Searched /\ ~Launched
  BY <1>0, MainIn DEF Searched, Launched
<1>9. pc[Main] = "idle" /\ \A w \in Worker : pc[w] = "off"
  BY <1>0, MainIn
<1>10. Control
  BY <1>0, <1>1, <1>8, <1>9, MainIn DEF Control
<1>11. Search
  BY <1>0, <1>6, <1>8 DEF Search
<1>12. Done /\ Work
  BY <1>0, <1>9 DEF Done, Work, WorkOf
<1>13. PathInv
  BY <1>0, <1>8 DEF PathInv
<1> QED
  BY <1>3, <1>5, <1>7, <1>10, <1>11, <1>12, <1>13 DEF IInv

\* A step inside GetState keeps the invariant and leaves the search alone.
LEMMA GetStateInv ==
    ASSUME IInv, NEW t \in Thread, InGetState(t)
    PROVE  IInv' /\ gOf' = gOf /\ eOf' = eOf
<1>0. TableInv /\ HInv /\ PlannerType /\ Control /\ Search /\ Done /\ Work /\ PathInv
  BY DEF IInv
<1>1. /\ UNCHANGED <<start_state_id, goal_state_id, pc>>
      /\ UNCHANGED <<queued, is_done, v, arc, dist, seen>>
      /\ UNCHANGED <<path, solcost, answer>>
      /\ GetStateStep(t)
  BY DEF InGetState, ids, workvars, result
<1>2. /\ TableInv'
      /\ id' = id /\ updated' = updated
      /\ upc[t] # "out"
      /\ \A u \in Thread : u # t => upc'[u] = upc[u]
      /\ \A x \in Vertex :
            \/ StateOf(x)' = StateOf(x)
            \/ /\ upc[t] = "setH" /\ x = id[t]
               /\ StateOf(x)' = [StateOf(x) EXCEPT !.h = IF updated THEN "fresh" ELSE "stale"]
      /\ upc'[t] = "out" => \A x \in Vertex : x = id[t] => StateOf(x)'.h # "unset"
  BY <1>0, <1>1, GetStateTable
<1>3. /\ t = Main => pc[Main] \in {"goal", "start", "test", "walk"}
      /\ t # Main => t \in Worker /\ pc[t] \in {"claim", "load"} /\ pc[Main] = "join"
  BY <1>0, <1>2, ThreadsAssumption DEF Control
<1>4. ~updated => id[t] \in {source, destination}
  BY <1>0, <1>3 DEF Control
<1>5. \A x \in Vertex : StateOf(x) \in PwsaState
  BY <1>0, StatesType
<1>6. \A x \in Vertex : /\ StateOf(x)'.gpred = StateOf(x).gpred
                        /\ StateOf(x)'.is_expanded = StateOf(x).is_expanded
                        /\ StateOf(x)'.h = "unset" => StateOf(x).h = "unset"
                        /\ StateOf(x)'.h = "stale" => StateOf(x).h = "stale" \/ x \in {source, destination}
  BY <1>2, <1>4, <1>5 DEF PwsaState
<1>7. gOf' = gOf /\ eOf' = eOf
  BY <1>6 DEF gOf, eOf
<1>8. HInv'
  <2>1. \A x \in Vertex : StateOf(x)'.h = "stale" => x \in {source, destination}
    BY <1>0, <1>6 DEF HInv
  <2>2. ASSUME NEW u \in Thread, id[u] # NoVertex, upc'[u] = "out", NEW x \in Vertex, x = id[u]
        PROVE  StateOf(x)'.h # "unset"
    <3>1. CASE u = t
      BY <1>2, <2>2, <3>1
    <3>2. CASE u # t
      BY <1>0, <1>2, <1>6, <2>2, <3>2 DEF HInv
    <3> QED
      BY <3>1, <3>2
  <2>3. ASSUME NEW u \in Thread, id'[u] # NoVertex, upc'[u] = "out" PROVE StateOf(id[u])'.h # "unset"
    <3>1. id[u] \in Vertex
      BY <1>0, <1>2, <2>3 DEF TableInv, TableType
    <3> QED
      BY <1>2, <2>2, <2>3, <3>1 DEF StateOf, Exists, Where
  <2> QED
    BY <2>1, <2>3 DEF HInv
<1>9. PlannerType'
  BY <1>0, <1>1 DEF PlannerType
<1>10. Control'
  BY <1>0, <1>1, <1>2, <1>3, MainIn DEF Control, Searched
<1>11. Launched' <=> Launched
  BY <1>1 DEF Launched, Searched
<1>12. Search'
  BY <1>0, <1>1, <1>7, <1>11, SearchSame
<1>13. Done'
  BY <1>0, <1>1, <1>7 DEF Done
<1>14. Work'
  BY <1>0, <1>1, <1>2, <1>7, WorkSame DEF Work
<1>15. PathInv'
  BY <1>0, <1>1, <1>2, <1>7, PathSame
<1> QED
  BY <1>2, <1>7, <1>8, <1>9, <1>10, <1>12, <1>13, <1>14, <1>15 DEF IInv

------------------------------------------------------------------------------
(* The planner: the main thread *)

\* A step of the main thread that stores nothing in a state
LEMMA MainQuiet ==
    ASSUME IInv, UNCHANGED <<vecs, mem>>, UNCHANGED workvars, Launched' <=> Launched,
           \A w \in Worker : pc'[w] = pc[w] /\ upc'[w] = upc[w] /\ id'[w] = id[w],
           upc'[Main] = "out" => upc[Main] = "out" /\ id'[Main] = id[Main],
           TableInv', PlannerType', Control', gOf' = gOf /\ eOf' = eOf => Done' /\ PathInv'
    PROVE  IInv' /\ gOf' = gOf /\ eOf' = eOf
<1>0. TableInv /\ HInv /\ PlannerType /\ Control /\ Search /\ Done /\ Work /\ PathInv
  BY DEF IInv
<1>1. (\A x \in Vertex : StateOf(x)' = StateOf(x)) /\ gOf' = gOf /\ eOf' = eOf
  BY SameStates
<1>2. HInv'
  <2>1. \A t \in Thread : upc'[t] = "out" => upc[t] = "out" /\ id'[t] = id[t]
    BY ThreadsAssumption
  <2>2. \A x \in Vertex : StateOf(x)'.h = StateOf(x).h
    BY <1>1
  <2> QED
    BY <1>0, <2>1, <2>2, SameH DEF TableInv
<1>3. Search'
  BY <1>0, <1>1, SearchSame DEF workvars
<1>4. Work'
  <2> SUFFICES ASSUME NEW w \in Worker PROVE WorkOf(w)'
    BY DEF Work
  <2>1. WorkOf(w) /\ v' = v /\ arc' = arc /\ dist' = dist /\ seen' = seen
    BY <1>0 DEF Work, workvars
  <2> QED
    BY <1>1, <2>1, WorkSame
<1> QED
  BY <1>1, <1>2, <1>3, <1>4 DEF IInv

\* The caller's steps
LEMMA CallerInv ==
    ASSUME IInv, CallerStep
    PROVE  IInv' /\ gOf' = gOf /\ eOf' = eOf /\ (Launched' <=> Launched)
<1>0. TableInv /\ PlannerType /\ Control /\ Done /\ PathInv
  BY DEF IInv
<1>00. pc[Main] = "idle" /\ upc[Main] = "out"
  BY DEF CallerStep, set_start, set_goal, Refuse, Replan, At
<1>1. CASE set_start \/ set_goal \/ Refuse
  <2>1. /\ UNCHANGED uvars /\ UNCHANGED pc /\ UNCHANGED workvars /\ UNCHANGED <<path, solcost>>
        /\ start_state_id' \in {source, NoVertex} /\ goal_state_id' \in {destination, NoVertex}
        /\ Searched => start_state_id' = start_state_id
        /\ answer' \in {answer, 0}
    BY <1>0, <1>1 DEF set_start, set_goal, Refuse, ids, result, PlannerType
  <2>2. UNCHANGED <<vecs, init, mem, upc, id, ptr, updated>>
    BY <2>1 DEF uvars
  <2>3. TableInv'
    BY <1>0, <2>2, StoreTable DEF TableInv, TableType
  <2>4. PlannerType'
    BY <1>0, <2>1 DEF PlannerType, workvars
  <2>5. Searched' <=> Searched
    BY <2>1 DEF Searched
  <2>6. Control'
    BY <1>0, <1>00, <2>1, <2>2, <2>5 DEF Control
  <2>7. Launched' <=> Launched
    BY <2>1, <2>5 DEF Launched
  <2>8. gOf' = gOf /\ eOf' = eOf => Done' /\ PathInv'
    BY <1>0, <2>1, <2>2, <2>5, PathSame DEF Done, workvars
  <2> QED
    BY <2>1, <2>2, <2>3, <2>4, <2>6, <2>7, <2>8, MainQuiet
<1>2. CASE Replan
  <2>1. /\ start_state_id # NoVertex /\ goal_state_id # NoVertex
        /\ Call(Main, goal_state_id)
        /\ pc' = [pc EXCEPT ![Main] = "goal"]
        /\ UNCHANGED <<start_state_id, goal_state_id>> /\ UNCHANGED workvars /\ UNCHANGED <<path, solcost, answer>>
    BY <1>2 DEF Replan, Goto, ids, result
  <2>2. goal_state_id = destination /\ start_state_id = source /\ ~Searched /\ destination \in Vertex
    BY <1>0, <1>00, <2>1, GraphAssumption DEF PlannerType, Control
  <2>3. /\ TableInv' /\ upc' = [upc EXCEPT ![Main] = "lookup"]
        /\ id' = [id EXCEPT ![Main] = destination]
    BY <1>0, <1>00, <2>1, <2>2, MainIn, CallTable
  <2>4. UNCHANGED <<vecs, mem, updated>>
    BY <2>1 DEF Call
  <2>5. /\ pc'[Main] = "goal" /\ upc'[Main] = "lookup" /\ id'[Main] = destination
        /\ \A w \in Worker : pc'[w] = pc[w] /\ upc'[w] = upc[w] /\ id'[w] = id[w]
    BY <1>0, <2>1, <2>3, MainIn DEF PlannerType, TableInv, TableType
  <2>6. PlannerType'
    BY <1>0, <2>1 DEF PlannerType, workvars
  <2>7. ~Searched' /\ path = <<>>
    BY <2>1, <2>2 DEF Searched
  <2>8. Control'
    BY <1>0, <1>00, <2>1, <2>2, <2>4, <2>5, <2>7 DEF Control
  <2>9. Launched' <=> Launched
    BY <1>00, <2>2, <2>5, <2>7 DEF Launched
  <2>10. gOf' = gOf /\ eOf' = eOf => Done' /\ PathInv'
    BY <1>0, <2>1, <2>2, <2>5, <2>7 DEF Done, workvars, PathInv
  <2> QED
    BY <2>1, <2>3, <2>4, <2>5, <2>6, <2>8, <2>9, <2>10, MainQuiet
<1> QED
  BY <1>1, <1>2 DEF CallerStep

\* initializeSearch before the launch, and the call after the workers are joined
LEMMA PrepareInv ==
    ASSUME IInv, InitStart \/ EnsureHeuristicsUpdated \/ JoinWorkers
    PROVE  IInv' /\ gOf' = gOf /\ eOf' = eOf /\ (Launched' <=> Launched)
<1>0. TableInv /\ PlannerType /\ Control /\ Done /\ PathInv
  BY DEF IInv
<1>1. CASE InitStart
  <2>1. /\ pc[Main] = "goal" /\ upc[Main] = "out"
        /\ Call(Main, start_state_id)
        /\ pc' = [pc EXCEPT ![Main] = "start"]
        /\ UNCHANGED <<start_state_id, goal_state_id>> /\ UNCHANGED workvars /\ UNCHANGED <<path, solcost, answer>>
    BY <1>1 DEF InitStart, Goto, ids, result, At
  <2>2. start_state_id = source /\ source \in Vertex /\ path = <<>>
    BY <1>0, <2>1, GraphAssumption DEF Control
  <2>3. /\ TableInv' /\ upc' = [upc EXCEPT ![Main] = "lookup"]
        /\ id' = [id EXCEPT ![Main] = source]
    BY <1>0, <2>1, <2>2, MainIn, CallTable
  <2>4. UNCHANGED <<vecs, mem, updated>>
    BY <2>1 DEF Call
  <2>5. /\ pc'[Main] = "start" /\ upc'[Main] = "lookup" /\ id'[Main] = source
        /\ \A w \in Worker : pc'[w] = pc[w] /\ upc'[w] = upc[w] /\ id'[w] = id[w]
    BY <1>0, <2>1, <2>3, MainIn DEF PlannerType, TableInv, TableType
  <2>6. PlannerType'
    BY <1>0, <2>1 DEF PlannerType, workvars
  <2>7. ~Searched' /\ ~Searched
    BY <2>1, <2>2 DEF Searched
  <2>8. Control'
    BY <1>0, <2>1, <2>2, <2>4, <2>5, <2>7 DEF Control
  <2>9. Launched' <=> Launched
    BY <2>1, <2>5, <2>7 DEF Launched
  <2>10. gOf' = gOf /\ eOf' = eOf => Done' /\ PathInv'
    BY <1>0, <2>1, <2>5, <2>7 DEF Done, workvars, PathInv
  <2> QED
    BY <2>1, <2>3, <2>4, <2>5, <2>6, <2>8, <2>9, <2>10, MainQuiet
<1>2. CASE EnsureHeuristicsUpdated
  <2>1. /\ pc[Main] = "start" /\ upc[Main] = "out"
        /\ updated' = TRUE
        /\ pc' = [pc EXCEPT ![Main] = "run"]
        /\ UNCHANGED <<vecs, init, mem, upc, id, ptr>>
        /\ UNCHANGED <<start_state_id, goal_state_id>> /\ UNCHANGED workvars /\ UNCHANGED <<path, solcost, answer>>
    BY <1>2 DEF EnsureHeuristicsUpdated, Goto, ids, result, At
  <2>2. path = <<>>
    BY <1>0, <2>1 DEF Control
  <2>3. TableInv'
    BY <1>0, <2>1, StoreTable DEF TableInv, TableType
  <2>5. pc'[Main] = "run" /\ \A w \in Worker : pc'[w] = pc[w]
    BY <1>0, <2>1, MainIn DEF PlannerType
  <2>6. PlannerType'
    BY <1>0, <2>1 DEF PlannerType, workvars
  <2>7. ~Searched' /\ ~Searched
    BY <2>1, <2>2 DEF Searched
  <2>8. Control'
    BY <1>0, <2>1, <2>2, <2>5, <2>7 DEF Control
  <2>9. Launched' <=> Launched
    BY <2>1, <2>5, <2>7 DEF Launched
  <2>10. gOf' = gOf /\ eOf' = eOf => Done' /\ PathInv'
    BY <1>0, <2>1, <2>5, <2>7 DEF Done, workvars, PathInv
  <2> QED
    BY <2>1, <2>3, <2>5, <2>6, <2>8, <2>9, <2>10, MainQuiet
<1>3. CASE JoinWorkers
  <2>1. /\ pc[Main] = "join" /\ upc[Main] = "out"
        /\ \A w \in Worker : pc[w] = "off"
        /\ Call(Main, goal_state_id)
        /\ pc' = [pc EXCEPT ![Main] = "test"]
        /\ UNCHANGED <<start_state_id, goal_state_id>> /\ UNCHANGED workvars /\ UNCHANGED <<path, solcost, answer>>
    BY <1>3 DEF JoinWorkers, Goto, ids, result, At
  <2>2. goal_state_id = destination /\ destination \in Vertex /\ path = <<>>
    BY <1>0, <2>1, GraphAssumption DEF Control
  <2>3. /\ TableInv' /\ upc' = [upc EXCEPT ![Main] = "lookup"]
        /\ id' = [id EXCEPT ![Main] = destination]
    BY <1>0, <2>1, <2>2, MainIn, CallTable
  <2>4. UNCHANGED <<vecs, mem, updated>>
    BY <2>1 DEF Call
  <2>5. /\ pc'[Main] = "test" /\ upc'[Main] = "lookup" /\ id'[Main] = destination
        /\ \A w \in Worker : pc'[w] = pc[w] /\ upc'[w] = upc[w] /\ id'[w] = id[w]
    BY <1>0, <2>1, <2>3, MainIn DEF PlannerType, TableInv, TableType
  <2>6. PlannerType'
    BY <1>0, <2>1 DEF PlannerType, workvars
  <2>7. ~Searched' /\ ~Searched
    BY <2>1, <2>2 DEF Searched
  <2>8. Control'
    BY <1>0, <2>1, <2>2, <2>4, <2>5, <2>7 DEF Control
  <2>9. Launched' <=> Launched
    BY <2>1, <2>5, <2>7 DEF Launched
  <2>10. is_done
    BY <1>0, <2>1, MainIn DEF Done
  <2>11. gOf' = gOf /\ eOf' = eOf => Done' /\ PathInv'
    BY <1>0, <2>1, <2>5, <2>7, <2>10 DEF Done, workvars, PathInv
  <2> QED
    BY <2>1, <2>3, <2>4, <2>5, <2>6, <2>8, <2>9, <2>11, MainQuiet
<1> QED
  BY <1>1, <1>2, <1>3

\* The cheapest arc between two vertices costs no more than any arc between them.
LEMMA ActionCost ==
    ASSUME NEW u \in Vertex, NEW i \in 1..degree(u), NEW x, Neighbors[u][i].vertex = x
    PROVE  actioncost(u, x) \in Nat /\ actioncost(u, x) <= Neighbors[u][i].weight
<1> DEFINE K == {k \in 1..degree(u) : Neighbors[u][k].vertex = x}
           C == {Neighbors[u][j].weight : j \in K}
<1>1. C \in SUBSET Nat
  BY ArcType
<1>2. Neighbors[u][i].weight \in C
  OBVIOUS
<1>3. \E m \in C : \A k \in C : m <= k
  <2> HIDE DEF C
  <2> QED
    BY <1>1, <1>2, LeastNumber
<1>4. actioncost(u, x) = Min(C)
  BY DEF actioncost
<1> HIDE DEF C
<1>5. Min(C) \in C /\ \A k \in C : Min(C) <= k
  BY <1>3 DEF Min
<1> QED
  BY <1>1, <1>2, <1>4, <1>5

\* After the workers are joined the destination is reached, and every reached
\* vertex other than the source hangs on its parent.
LEMMA ParentOf ==
    ASSUME IInv, Launched, NEW x \in Vertex, x # source, gOf[x].distance # IntMax
    PROVE  LET u == gOf[x].pred
           IN  /\ u \in Vertex /\ u # NoVertex
               /\ gOf[u].distance # IntMax
               /\ gOf[u].distance \in Nat /\ gOf[x].distance \in Nat
               /\ \E i \in 1..degree(u) : /\ Neighbors[u][i].vertex = x
                                          /\ gOf[u].distance + Neighbors[u][i].weight <= gOf[x].distance
<1>1. TreeOf(gOf, eOf) /\ TableInv
  BY DEF IInv, Search
<1>2. TreeArcOf(gOf, eOf, x)
  BY <1>1 DEF TreeOf
<1>3. gOf[x].pred \in Vertex /\ eOf[gOf[x].pred]
  BY <1>2 DEF TreeArcOf
<1>4. gOf[gOf[x].pred].distance # IntMax
  BY <1>1, <1>3 DEF TreeOf
<1>5. gOf \in [Vertex -> VPack]
  BY <1>1, StatesType
<1>6. gOf[gOf[x].pred].distance \in Nat /\ gOf[x].distance \in Nat
  BY <1>3, <1>5, GraphAssumption DEF VPack
<1>7. \E i \in 1..degree(gOf[x].pred) :
         /\ Neighbors[gOf[x].pred][i].vertex = x
         /\ gOf[gOf[x].pred].distance + Neighbors[gOf[x].pred][i].weight <= gOf[x].distance
  BY <1>2 DEF TreeArcOf
<1>8. gOf[x].pred # NoVertex
  BY <1>3, GraphAssumption
<1> QED
  BY <1>3, <1>4, <1>6, <1>7, <1>8

\* The test in Search succeeds: the workers end only with the destination.
LEMMA TestGoalInv ==
    ASSUME IInv, TestGoal
    PROVE  IInv' /\ gOf' = gOf /\ eOf' = eOf /\ (Launched' <=> Launched)
<1>0. TableInv /\ PlannerType /\ Control /\ Done /\ PathInv /\ Search
  BY DEF IInv
<1>1. /\ pc[Main] = "test" /\ upc[Main] = "out"
      /\ UNCHANGED <<vecs, init, mem, upc, id, ptr, updated>>
      /\ UNCHANGED <<start_state_id, goal_state_id>> /\ UNCHANGED workvars /\ UNCHANGED <<solcost, answer>>
  BY DEF TestGoal, ids, At, uvars
<1>2. /\ id[Main] = destination /\ goal_state_id = destination /\ destination \in Vertex /\ path = <<>>
      /\ is_done /\ eOf[destination]
  BY <1>0, <1>1, GraphAssumption DEF Control, Done
<1>3. Launched /\ ~Searched
  BY <1>1, <1>2 DEF Launched, Searched
<1>4. gOf[destination].distance # IntMax
  BY <1>0, <1>2, <1>3 DEF Search, TreeOf
<1>5. gpredAt(Main) = gOf[destination] /\ gOf[destination] \in VPack
  BY <1>0, <1>1, <1>2, MainIn, AtState
<1>6. pc' = [pc EXCEPT ![Main] = "walk"] /\ path' = <<destination>>
  BY <1>2, <1>4, <1>5 DEF TestGoal, Goto
<1>7. pc'[Main] = "walk" /\ \A w \in Worker : pc'[w] = pc[w]
  BY <1>0, <1>6, MainIn DEF PlannerType
<1>8. path' \in Seq(Vertex) /\ Len(path') = 1 /\ path'[1] = destination
  BY <1>2, <1>6
<1>9. Last(path)' = destination
  BY <1>8 DEF Last
<1>10. Searched'
  BY <1>6 DEF Searched
<1>11. TableInv'
  BY <1>0, <1>1, StoreTable DEF TableInv, TableType
<1>12. PlannerType'
  BY <1>0, <1>1, <1>6, <1>8 DEF PlannerType, workvars
<1>13. Control'
  BY <1>0, <1>1, <1>2, <1>7, <1>10 DEF Control
<1>14. Launched' <=> Launched
  BY <1>3, <1>10 DEF Launched
<1>15. solcost = 0 /\ gOf[destination].distance \in Int
  BY <1>0, <1>3, <1>5, GraphAssumption DEF PathInv, VPack
<1>16. ASSUME gOf' = gOf, eOf' = eOf PROVE Done' /\ PathInv'
  <2>1. Done'
    BY <1>0, <1>1, <1>2, <1>7, <1>16 DEF Done, workvars
  <2>2. \A k \in 1..Len(path') - 1 : FALSE
    BY <1>8
  <2>3. solcost' + gOf'[Last(path)'].distance <= gOf'[destination].distance
    BY <1>1, <1>9, <1>15, <1>16
  <2>4. id'[Main] = destination
    BY <1>1, <1>2
  <2> QED
    BY <1>4, <1>7, <1>8, <1>9, <1>10, <1>16, <2>1, <2>2, <2>3, <2>4 DEF PathInv
<1> QED
  BY <1>1, <1>7, <1>11, <1>12, <1>13, <1>14, <1>16, MainQuiet

\* One parent further the cost of the path is still covered by g of the goal.
LEMMA WalkInv ==
    ASSUME IInv, Walk
    PROVE  IInv' /\ gOf' = gOf /\ eOf' = eOf /\ (Launched' <=> Launched)
<1> DEFINE x == Last(path)
           u == gOf[x].pred
<1>0. TableInv /\ PlannerType /\ Control /\ Done /\ PathInv /\ Search
  BY DEF IInv
<1>1. /\ pc[Main] = "walk" /\ upc[Main] = "out" /\ x # start_state_id
      /\ solcost' = solcost + actioncost(gpredAt(Main).pred, x)
      /\ path' = Append(path, gpredAt(Main).pred)
      /\ Call(Main, gpredAt(Main).pred)
      /\ UNCHANGED <<start_state_id, goal_state_id, pc, answer>> /\ UNCHANGED workvars
  BY DEF Walk, ids, At
<1>2. Searched /\ start_state_id = source /\ goal_state_id = destination /\ Launched
  BY <1>0, <1>1 DEF Control, Launched
<1>3. path \in Seq(Vertex) /\ Len(path) \in Nat /\ Len(path) >= 1
  BY <1>0, <1>2, EmptySeq, LenProperties DEF Searched, PlannerType
<1>4. x \in Vertex /\ x = path[Len(path)]
  BY <1>3 DEF Last
<1>5. /\ id[Main] = x /\ gOf[x].distance # IntMax
      /\ solcost + gOf[x].distance <= gOf[destination].distance
      /\ path[1] = destination
      /\ \A k \in 1..Len(path) - 1 :
            \E i \in 1..degree(path[k + 1]) : Neighbors[path[k + 1]][i].vertex = path[k]
  BY <1>0, <1>1, <1>2 DEF PathInv
<1>6. gpredAt(Main) = gOf[x]
  BY <1>0, <1>1, <1>4, <1>5, MainIn, AtState
<1> HIDE DEF x
<1>7. /\ u \in Vertex /\ gOf[u].distance # IntMax
      /\ gOf[u].distance \in Nat /\ gOf[x].distance \in Nat
      /\ \E i \in 1..degree(u) : /\ Neighbors[u][i].vertex = x
                                 /\ gOf[u].distance + Neighbors[u][i].weight <= gOf[x].distance
  BY <1>1, <1>2, <1>4, <1>5, ParentOf
<1> HIDE DEF u
<1>8. PICK i \in 1..degree(u) : /\ Neighbors[u][i].vertex = x
                                /\ gOf[u].distance + Neighbors[u][i].weight <= gOf[x].distance
  BY <1>7
<1>9. /\ actioncost(u, x) \in Nat /\ actioncost(u, x) <= Neighbors[u][i].weight
      /\ Neighbors[u][i].weight \in Nat
  BY <1>7, <1>8, ActionCost, ArcType
<1>10. /\ solcost' = solcost + actioncost(u, x) /\ path' = Append(path, u) /\ Call(Main, u)
  BY <1>1, <1>6 DEF u
<1>11. /\ path' \in Seq(Vertex) /\ Len(path') = Len(path) + 1 /\ path'[Len(path) + 1] = u
       /\ \A k \in 1..Len(path) : path'[k] = path[k]
  BY <1>3, <1>7, <1>10, AppendProperties
<1>12. Last(path)' = u
  BY <1>11 DEF Last
<1>13. Searched' /\ path' # <<>>
  BY <1>3, <1>11, EmptySeq DEF Searched
<1>14. /\ TableInv' /\ upc' = [upc EXCEPT ![Main] = "lookup"]
       /\ id' = [id EXCEPT ![Main] = u]
  BY <1>0, <1>1, <1>7, <1>10, MainIn, CallTable
<1>15. UNCHANGED <<vecs, mem, updated>>
  BY <1>10 DEF Call
<1>16. /\ upc'[Main] = "lookup" /\ id'[Main] = u
       /\ \A w \in Worker : upc'[w] = upc[w] /\ id'[w] = id[w]
  BY <1>0, <1>14, MainIn DEF TableInv, TableType
<1>17. PlannerType'
  BY <1>0, <1>1, <1>9, <1>10, <1>11 DEF PlannerType, workvars
<1>18. Control'
  BY <1>0, <1>1, <1>2, <1>13, <1>15, <1>16 DEF Control
<1>19. Launched' <=> Launched
  BY <1>2, <1>13 DEF Launched
<1>20. ASSUME gOf' = gOf, eOf' = eOf PROVE Done' /\ PathInv'
  <2>1. Done'
    BY <1>0, <1>1, <1>20 DEF Done, workvars
  <2>2. ASSUME NEW k \in 1..Len(path') - 1
        PROVE  \E j \in 1..degree(path'[k + 1]) : Neighbors[path'[k + 1]][j].vertex = path'[k]
    <3>1. CASE k = Len(path)
      <4>1. path'[k + 1] = u /\ path'[k] = x
        BY <1>3, <1>4, <1>11, <3>1
      <4> QED
        BY <1>8, <4>1
    <3>2. CASE k # Len(path)
      <4>1. k \in 1..Len(path) - 1 /\ k \in 1..Len(path) /\ k + 1 \in 1..Len(path)
        BY <1>3, <1>11, <3>2
      <4>2. path'[k + 1] = path[k + 1] /\ path'[k] = path[k]
        BY <1>11, <4>1
      <4> QED
        BY <1>5, <4>1, <4>2
    <3> QED
      BY <3>1, <3>2
  <2>3. solcost' + gOf'[Last(path)'].distance <= gOf'[destination].distance
    <3>1. solcost \in Nat /\ gOf[destination].distance \in Int
      <4>1. gOf \in [Vertex -> VPack]
        BY <1>0, StatesType
      <4> QED
        BY <1>0, <4>1, GraphAssumption DEF PlannerType, VPack
    <3>2. gOf'[Last(path)'].distance = gOf[u].distance /\ gOf'[destination].distance = gOf[destination].distance
      BY <1>12, <1>20
    <3>3. gOf[u].distance \in Nat /\ gOf[x].distance \in Nat
      BY <1>7
    <3>4. solcost + gOf[x].distance <= gOf[destination].distance
      BY <1>5
    <3>5. (solcost + actioncost(u, x)) + gOf[u].distance <= gOf[destination].distance
      BY <1>8, <1>9, <3>1, <3>3, <3>4
    <3> QED
      BY <1>10, <3>2, <3>5
  <2>4. gOf'[Last(path)'].distance # IntMax /\ path'[1] = destination
    BY <1>3, <1>5, <1>7, <1>11, <1>12, <1>20
  <2> QED
    BY <1>1, <1>12, <1>13, <1>16, <2>1, <2>2, <2>3, <2>4 DEF PathInv
<1> QED
  BY <1>1, <1>14, <1>15, <1>16, <1>17, <1>18, <1>19, <1>20, MainQuiet

\* The walk ends at the source, not at a state without a parent.
LEMMA EndInv ==
    ASSUME IInv, WalkEnd \/ Return
    PROVE  IInv' /\ gOf' = gOf /\ eOf' = eOf /\ (Launched' <=> Launched)
<1>0. TableInv /\ PlannerType /\ Control /\ Done /\ PathInv /\ Search
  BY DEF IInv
<1>1. UNCHANGED <<vecs, init, mem, upc, id, ptr, updated>> /\ UNCHANGED workvars /\ UNCHANGED <<path, solcost>>
  BY DEF WalkEnd, Return, uvars, result
<1>2. TableInv'
  BY <1>0, <1>1, StoreTable DEF TableInv, TableType
<1>3. Searched /\ Searched'
  BY <1>0, <1>1 DEF WalkEnd, Return, At, Control, Searched
<1>4. Launched' <=> Launched
  BY <1>3 DEF Launched
<1>5. CASE WalkEnd
  <2>1. /\ pc[Main] = "walk" /\ upc[Main] = "out"
        /\ Last(path) = start_state_id \/ Parentless
        /\ pc' = [pc EXCEPT ![Main] = "return"]
        /\ UNCHANGED <<start_state_id, goal_state_id, answer>>
    BY <1>5 DEF WalkEnd, Goto, ids, result, At
  <2>2. start_state_id = source /\ Launched
    BY <1>0, <1>3, <2>1 DEF Control, Launched
  <2>3. path \in Seq(Vertex) /\ Len(path) \in Nat /\ Len(path) >= 1
    BY <1>0, <1>3, EmptySeq, LenProperties DEF Searched, PlannerType
  <2>4. Last(path) \in Vertex
    BY <2>3 DEF Last
  <2>5. id[Main] = Last(path) /\ gOf[Last(path)].distance # IntMax
    BY <1>0, <1>3, <2>1 DEF PathInv
  <2>6. gpredAt(Main) = gOf[Last(path)]
    BY <1>0, <2>1, <2>4, <2>5, MainIn, AtState
  <2>7. Last(path) = source
    BY <2>1, <2>2, <2>4, <2>5, <2>6, ParentOf DEF Parentless
  <2>8. pc'[Main] = "return" /\ \A w \in Worker : pc'[w] = pc[w]
    BY <1>0, <2>1, MainIn DEF PlannerType
  <2>9. PlannerType'
    BY <1>0, <1>1, <2>1 DEF PlannerType, workvars
  <2>10. Control'
    BY <1>0, <1>1, <1>3, <2>1, <2>8 DEF Control
  <2>11. gOf' = gOf /\ eOf' = eOf => Done' /\ PathInv'
    BY <1>0, <1>1, <1>3, <2>1, <2>7, <2>8 DEF Done, workvars, PathInv
  <2> QED
    BY <1>1, <1>2, <1>4, <2>8, <2>9, <2>10, <2>11, MainQuiet
<1>6. CASE Return
  <2>1. /\ pc[Main] = "return" /\ upc[Main] = "out"
        /\ pc' = [pc EXCEPT ![Main] = "idle"]
        /\ start_state_id' = NoVertex /\ goal_state_id' = NoVertex
        /\ answer' \in {0, 1}
    BY <1>6 DEF Return, Goto, At
  <2>2. pc'[Main] = "idle" /\ \A w \in Worker : pc'[w] = pc[w]
    BY <1>0, <2>1, MainIn DEF PlannerType
  <2>3. PlannerType'
    BY <1>0, <1>1, <2>1 DEF PlannerType, workvars
  <2>4. Control'
    BY <1>0, <1>1, <1>3, <2>1, <2>2 DEF Control
  <2>5. gOf' = gOf /\ eOf' = eOf => Done' /\ PathInv'
    BY <1>0, <1>1, <1>3, <2>1, <2>2 DEF Done, workvars, PathInv
  <2> QED
    BY <1>1, <1>2, <1>4, <2>2, <2>3, <2>4, <2>5, MainQuiet
<1> QED
  BY <1>5, <1>6

------------------------------------------------------------------------------
(* The planner: the workers *)

\* A step of a worker that stores nothing in a state.  The other workers do not
\* see it.
LEMMA WorkerQuiet ==
    ASSUME IInv, NEW w \in Worker, pc[w] # "off",
           UNCHANGED <<vecs, mem, updated>>, UNCHANGED ids, UNCHANGED result,
           is_done' = is_done,
           pc' = [pc EXCEPT ![w] = pc'[w]],
           \A t \in Thread : t # w => upc'[t] = upc[t] /\ id'[t] = id[t],
           upc'[w] = "out" => upc[w] = "out" /\ id'[w] = id[w],
           upc'[w] # "out" => pc'[w] \in {"claim", "load"},
           \A u \in Worker : u # w => v'[u] = v[u] /\ arc'[u] = arc[u] /\ dist'[u] = dist[u] /\ seen'[u] = seen[u],
           pc'[w] = "off" => is_done,
           queued' \in SUBSET Vertex,
           \A x \in queued' : gOf[x].distance # IntMax,
           TableInv', PlannerType', gOf' = gOf /\ eOf' = eOf => WorkOf(w)'
    PROVE  IInv' /\ gOf' = gOf /\ eOf' = eOf /\ Launched /\ Launched'
<1>0. TableInv /\ HInv /\ PlannerType /\ Control /\ Search /\ Done /\ Work /\ PathInv
  BY DEF IInv
<1>1. (\A x \in Vertex : StateOf(x)' = StateOf(x)) /\ gOf' = gOf /\ eOf' = eOf /\ Expanded' = Expanded
  BY SameStates
<1>2. w \in Thread /\ w # Main /\ Main \in Thread
  BY MainIn
<1>3. /\ pc'[Main] = pc[Main] /\ upc'[Main] = upc[Main] /\ id'[Main] = id[Main]
      /\ pc[Main] = "join"
      /\ \A u \in Worker : u # w => pc'[u] = pc[u]
  BY <1>0, <1>2, MainIn DEF Control, PlannerType
<1>4. HInv'
  <2>1. \A t \in Thread : upc'[t] = "out" => upc[t] = "out" /\ id'[t] = id[t]
    OBVIOUS
  <2>2. \A x \in Vertex : StateOf(x)'.h = StateOf(x).h
    BY <1>1
  <2> QED
    BY <1>0, <2>1, <2>2, SameH DEF TableInv
<1>5. Launched /\ Launched'
  BY <1>3 DEF Launched
<1>6. Search'
  <2>1. TreeOf(gOf, eOf) /\ BudgetOf(gOf, Expanded)
    BY <1>0, <1>5 DEF Search
  <2> QED
    BY <1>1, <1>5, <2>1 DEF Search, TreeOf, TreeArcOf, RootedOf, BudgetOf
<1>7. Control'
  <2>1. \A u \in Worker : upc'[u] # "out" => pc'[u] \in {"claim", "load"}
    BY <1>0, <1>3, MainIn DEF Control
  <2> QED
    BY <1>0, <1>3, <2>1 DEF Control, Searched, ids, result
<1>8. Done'
  BY <1>0, <1>1, <1>3 DEF Done
<1>9. Work'
  <2> SUFFICES ASSUME NEW u \in Worker, u # w PROVE WorkOf(u)'
    BY <1>1 DEF Work
  <2>1. WorkOf(u) /\ u \in Thread
    BY <1>0, MainIn DEF Work
  <2> QED
    BY <1>1, <1>3, <2>1, WorkSame
<1>10. PathInv'
  BY <1>0, <1>1, <1>3, PathSame DEF result
<1> QED
  BY <1>1, <1>4, <1>5, <1>6, <1>7, <1>8, <1>9, <1>10 DEF IInv

\* do_work up to the claim, and the loop over the arcs
LEMMA PopInv ==
    ASSUME IInv, NEW w \in Worker, Pop(w)
    PROVE  IInv' /\ gOf' = gOf /\ eOf' = eOf /\ Launched /\ Launched'
<1>0. TableInv /\ PlannerType /\ Search /\ w \in Thread
  BY MainIn DEF IInv
<1>1. PICK x \in queued :
         /\ pc[w] = "loop" /\ upc[w] = "out"
         /\ queued' = queued \ {x} /\ Call(w, x)
         /\ pc' = [pc EXCEPT ![w] = "claim"]
         /\ UNCHANGED ids /\ UNCHANGED result
         /\ UNCHANGED <<is_done, v, arc, dist, seen>>
  BY DEF Pop, Goto, At
<1>2. x \in Vertex /\ gOf[x].distance # IntMax
  BY <1>0 DEF PlannerType, Search
<1>3. /\ TableInv' /\ upc' = [upc EXCEPT ![w] = "lookup"]
      /\ id' = [id EXCEPT ![w] = x]
  BY <1>0, <1>1, <1>2, CallTable
<1>4. UNCHANGED <<vecs, mem, updated>>
  BY <1>1 DEF Call
<1>5. /\ upc'[w] = "lookup" /\ id'[w] = x /\ pc'[w] = "claim"
      /\ \A t \in Thread : t # w => upc'[t] = upc[t] /\ id'[t] = id[t]
  BY <1>0, <1>1, <1>3 DEF TableInv, TableType, PlannerType
<1>6. PlannerType'
  BY <1>0, <1>1 DEF PlannerType, ids, result
<1>7. gOf' = gOf /\ eOf' = eOf => WorkOf(w)'
  BY <1>2, <1>5 DEF WorkOf
<1>8. queued' \in SUBSET Vertex /\ \A y \in queued' : gOf[y].distance # IntMax
  BY <1>0, <1>1 DEF PlannerType, Search
<1> QED
  BY <1>1, <1>3, <1>4, <1>5, <1>6, <1>7, <1>8, WorkerQuiet

\* A worker leaves when somebody claimed the goal.
LEMMA LeaveInv ==
    ASSUME IInv, NEW w \in Worker, Leave(w)
    PROVE  IInv' /\ gOf' = gOf /\ eOf' = eOf /\ Launched /\ Launched'
<1>0. TableInv /\ PlannerType /\ Search /\ w \in Thread
  BY MainIn DEF IInv
<1>1. /\ pc[w] = "loop" /\ upc[w] = "out" /\ is_done
      /\ pc' = [pc EXCEPT ![w] = "off"]
      /\ UNCHANGED <<vecs, init, mem, upc, id, ptr, updated>>
      /\ UNCHANGED ids /\ UNCHANGED result
      /\ UNCHANGED <<queued, is_done, v, arc, dist, seen>>
  BY DEF Leave, Goto, At, uvars, workvars
<1>2. TableInv'
  BY <1>0, <1>1, StoreTable DEF TableInv, TableType
<1>3. pc'[w] = "off"
  BY <1>0, <1>1 DEF PlannerType
<1>4. PlannerType'
  BY <1>0, <1>1 DEF PlannerType, ids, result
<1>5. gOf' = gOf /\ eOf' = eOf => WorkOf(w)'
  BY <1>3 DEF WorkOf
<1>6. queued' \in SUBSET Vertex /\ \A y \in queued' : gOf[y].distance # IntMax
  BY <1>0, <1>1 DEF PlannerType, Search
<1> QED
  BY <1>1, <1>2, <1>3, <1>4, <1>5, <1>6, WorkerQuiet

\* vdistance is within the budget of the vertices expanded so far.
LEMMA ReadDistanceInv ==
    ASSUME IInv, NEW w \in Worker, ReadDistance(w)
    PROVE  IInv' /\ gOf' = gOf /\ eOf' = eOf /\ Launched /\ Launched'
<1>0. TableInv /\ PlannerType /\ Control /\ Search /\ WorkOf(w) /\ w \in Thread
  BY MainIn DEF IInv, Work
<1>1. /\ pc[w] = "distance" /\ upc[w] = "out"
      /\ dist' = [dist EXCEPT ![w] = gpredAt(w).distance]
      /\ v' = [v EXCEPT ![w] = id[w]]
      /\ arc' = [arc EXCEPT ![w] = 1]
      /\ pc' = [pc EXCEPT ![w] = "arc"]
      /\ UNCHANGED <<vecs, init, mem, upc, id, ptr, updated>>
      /\ UNCHANGED ids /\ UNCHANGED result
      /\ UNCHANGED <<queued, is_done, seen>>
  BY DEF ReadDistance, Goto, At, uvars
<1>2. TableInv'
  BY <1>0, <1>1, StoreTable DEF TableInv, TableType
<1>3. id[w] \in Vertex /\ eOf[id[w]]
  BY <1>0, <1>1 DEF WorkOf
<1>4. gpredAt(w) = gOf[id[w]] /\ gOf[id[w]] \in VPack
  BY <1>0, <1>1, <1>3, AtState
<1>5. gOf[id[w]].distance \in 0..IntMax
  BY <1>4 DEF VPack
<1>6. /\ pc'[w] = "arc" /\ v'[w] = id[w] /\ arc'[w] = 1 /\ dist'[w] = gOf[id[w]].distance
      /\ \A u \in Worker : u # w => v'[u] = v[u] /\ arc'[u] = arc[u] /\ dist'[u] = dist[u] /\ seen'[u] = seen[u]
  BY <1>0, <1>1, <1>4 DEF PlannerType
<1>7. PlannerType'
  BY <1>0, <1>1, <1>3, <1>4, <1>5 DEF PlannerType, ids, result
<1>8. pc[Main] = "join" /\ Launched
  BY <1>0, <1>1 DEF Control, Launched
<1>9. gOf[id[w]].distance <= MaxWeight * (Cardinality(Expanded) - 1)
  <2>1. BudgetOf(gOf, Expanded) /\ id[w] \in Expanded
    BY <1>0, <1>3, <1>8 DEF Search, Expanded
  <2> QED
    BY <1>3, <2>1 DEF BudgetOf
<1>10. ASSUME gOf' = gOf, eOf' = eOf PROVE WorkOf(w)'
  <2>1. Expanded' = Expanded
    BY <1>10 DEF Expanded
  <2>2. 1 \in 1..degree(id[w]) + 1
    BY <1>3, DegreeType
  <2>3. gOf[id[w]].distance <= gOf[id[w]].distance
    BY <1>5, GraphAssumption
  <2> QED
    BY <1>3, <1>6, <1>9, <1>10, <2>1, <2>2, <2>3 DEF WorkOf
<1>11. queued' \in SUBSET Vertex /\ \A y \in queued' : gOf[y].distance # IntMax
  BY <1>0, <1>1 DEF PlannerType, Search
<1> QED
  BY <1>1, <1>2, <1>6, <1>7, <1>10, <1>11, WorkerQuiet

\* The head of the next arc, or the end of the loop.
LEMMA NextArcInv ==
    ASSUME IInv, NEW w \in Worker, NextArc(w)
    PROVE  IInv' /\ gOf' = gOf /\ eOf' = eOf /\ Launched /\ Launched'
<1>0. TableInv /\ PlannerType /\ Search /\ WorkOf(w) /\ w \in Thread
  BY MainIn DEF IInv, Work
<1>1. /\ pc[w] = "arc" /\ upc[w] = "out"
      /\ UNCHANGED ids /\ UNCHANGED result
      /\ UNCHANGED <<queued, is_done, v, dist, seen>>
  BY DEF NextArc, At
<1>2. /\ v[w] \in Vertex /\ eOf[v[w]]
      /\ arc[w] \in 1..degree(v[w]) + 1
      /\ gOf[v[w]].distance <= dist[w]
      /\ dist[w] <= MaxWeight * (Cardinality(Expanded) - 1)
      /\ degree(v[w]) \in Nat
  BY <1>0, <1>1, DegreeType DEF WorkOf
<1>3. queued' \in SUBSET Vertex /\ \A y \in queued' : gOf[y].distance # IntMax
  BY <1>0, <1>1 DEF PlannerType, Search
<1>4. CASE arc[w] <= degree(v[w])
  <2> DEFINE y == Neighbors[v[w]][arc[w]].vertex
  <2>1. Call(w, y) /\ pc' = [pc EXCEPT ![w] = "load"] /\ arc' = arc
    BY <1>4 DEF NextArc, Goto
  <2>2. arc[w] \in 1..degree(v[w])
    BY <1>2, <1>4
  <2>3. y \in Vertex
    BY <1>2, <2>2, ArcType
  <2> HIDE DEF y
  <2>4. /\ TableInv' /\ upc' = [upc EXCEPT ![w] = "lookup"]
        /\ id' = [id EXCEPT ![w] = y]
    BY <1>0, <1>1, <2>1, <2>3, CallTable
  <2>5. UNCHANGED <<vecs, mem, updated>>
    BY <2>1 DEF Call
  <2>6. /\ upc'[w] = "lookup" /\ id'[w] = y /\ pc'[w] = "load"
        /\ \A t \in Thread : t # w => upc'[t] = upc[t] /\ id'[t] = id[t]
    BY <1>0, <2>1, <2>4 DEF TableInv, TableType, PlannerType
  <2>7. PlannerType'
    BY <1>0, <1>1, <2>1 DEF PlannerType, ids, result
  <2>8. ASSUME gOf' = gOf, eOf' = eOf PROVE WorkOf(w)'
    <3>1. Expanded' = Expanded
      BY <2>8 DEF Expanded
    <3> QED
      BY <1>1, <1>2, <1>4, <2>1, <2>6, <2>8, <3>1 DEF WorkOf, y
  <2> QED
    BY <1>1, <1>3, <2>1, <2>4, <2>5, <2>6, <2>7, <2>8, WorkerQuiet
<1>5. CASE ~(arc[w] <= degree(v[w]))
  <2>1. /\ pc' = [pc EXCEPT ![w] = "loop"] /\ arc' = [arc EXCEPT ![w] = 0]
        /\ UNCHANGED <<vecs, init, mem, upc, id, ptr, updated>>
    BY <1>5 DEF NextArc, Goto, uvars
  <2>2. TableInv'
    BY <1>0, <2>1, StoreTable DEF TableInv, TableType
  <2>3. pc'[w] = "loop" /\ \A u \in Worker : u # w => arc'[u] = arc[u]
    BY <1>0, <2>1 DEF PlannerType
  <2>4. PlannerType'
    BY <1>0, <1>1, <2>1 DEF PlannerType, ids, result
  <2>5. gOf' = gOf /\ eOf' = eOf => WorkOf(w)'
    BY <2>3 DEF WorkOf
  <2> QED
    BY <1>1, <1>3, <2>1, <2>2, <2>3, <2>4, <2>5, WorkerQuiet
<1> QED
  BY <1>4, <1>5

\* What a worker at an arc knows: its sum fits, and is a distance of the head.
LEMMA AtArc ==
    ASSUME IInv, NEW w \in Worker, pc[w] \in {"load", "cas", "insert"}
    PROVE  /\ v[w] \in Vertex /\ eOf[v[w]] /\ arc[w] \in 1..degree(v[w])
           /\ id[w] \in Vertex /\ id[w] = Neighbors[v[w]][arc[w]].vertex
           /\ mine(w) = [distance |-> dist[w] + Neighbors[v[w]][arc[w]].weight, pred |-> v[w]]
           /\ mine(w).distance \in 0..IntMax - 1
           /\ mine(w).distance <= MaxWeight * Cardinality(Expanded)
           /\ gOf[v[w]].distance + Neighbors[v[w]][arc[w]].weight <= mine(w).distance
           /\ mine(w) \in VPack
           /\ Launched
<1>0. TableInv /\ PlannerType /\ Control /\ WorkOf(w)
  BY DEF IInv, Work
<1>1. /\ v[w] \in Vertex /\ eOf[v[w]]
      /\ arc[w] \in 1..degree(v[w]) + 1
      /\ gOf[v[w]].distance <= dist[w]
      /\ dist[w] <= MaxWeight * (Cardinality(Expanded) - 1)
      /\ arc[w] <= degree(v[w]) /\ id[w] = Neighbors[v[w]][arc[w]].vertex
  BY <1>0 DEF WorkOf
<1>2. arc[w] \in 1..degree(v[w])
  BY <1>1, DegreeType
<1> DEFINE wt == Neighbors[v[w]][arc[w]].weight
<1>3. id[w] \in Vertex /\ wt \in Nat
  BY <1>1, <1>2, ArcType
<1>4. dist[w] \in Nat /\ gOf[v[w]].distance \in Int
  <2>1. gOf \in [Vertex -> VPack]
    BY <1>0, StatesType
  <2> QED
    BY <1>0, <1>1, <2>1, GraphAssumption DEF PlannerType, VPack
<1>5. Expanded \in SUBSET Vertex
  BY DEF Expanded
<1>6. /\ Plus(dist[w], wt) = dist[w] + wt
      /\ dist[w] + wt \in 0..IntMax - 1
      /\ dist[w] + wt <= MaxWeight * Cardinality(Expanded)
  BY <1>1, <1>2, <1>4, <1>5, RelaxFits
<1>7. mine(w) = [distance |-> dist[w] + wt, pred |-> v[w]]
  BY <1>6 DEF mine
<1> HIDE DEF wt
<1>8. mine(w).distance = dist[w] + wt
  BY <1>7
<1>9. mine(w) \in VPack
  BY <1>1, <1>6, <1>7, GraphAssumption DEF VPack
<1>10. gOf[v[w]].distance + wt <= mine(w).distance
  BY <1>1, <1>3, <1>4, <1>8
<1>11. Launched
  BY <1>0 DEF Control, Launched
<1> QED
  BY <1>1, <1>2, <1>3, <1>6, <1>7, <1>8, <1>9, <1>10, <1>11 DEF wt

\* Only a sum below the loaded distance leads to the exchange.
LEMMA LoadInv ==
    ASSUME IInv, NEW w \in Worker, Load(w)
    PROVE  IInv' /\ gOf' = gOf /\ eOf' = eOf /\ Launched /\ Launched'
<1>0. TableInv /\ PlannerType /\ Search /\ WorkOf(w) /\ w \in Thread
  BY MainIn DEF IInv, Work
<1>1. /\ pc[w] = "load" /\ upc[w] = "out"
      /\ seen' = [seen EXCEPT ![w] = gpredAt(w)]
      /\ UNCHANGED <<vecs, init, mem, upc, id, ptr, updated>>
      /\ UNCHANGED ids /\ UNCHANGED result
      /\ UNCHANGED <<queued, is_done, v, dist>>
  BY DEF Load, At, uvars
<1>2. v[w] \in Vertex /\ arc[w] \in 1..degree(v[w]) /\ id[w] \in Vertex /\ degree(v[w]) \in Nat
  BY <1>1, AtArc, DegreeType
<1>3. gpredAt(w) = gOf[id[w]] /\ gOf[id[w]] \in VPack
  BY <1>0, <1>1, <1>2, AtState
<1>4. TableInv'
  BY <1>0, <1>1, StoreTable DEF TableInv, TableType
<1>5. queued' \in SUBSET Vertex /\ \A y \in queued' : gOf[y].distance # IntMax
  BY <1>0, <1>1 DEF PlannerType, Search
<1>6. seen'[w] = gOf[id[w]] /\ \A u \in Worker : u # w => seen'[u] = seen[u]
  BY <1>0, <1>1, <1>3 DEF PlannerType
<1>7. CASE mine(w).distance < gpredAt(w).distance
  <2>1. pc' = [pc EXCEPT ![w] = "cas"] /\ arc' = arc
    BY <1>7 DEF Load, Goto
  <2>2. pc'[w] = "cas"
    BY <1>0, <2>1 DEF PlannerType
  <2>3. PlannerType'
    BY <1>0, <1>1, <1>3, <2>1 DEF PlannerType, ids, result
  <2>4. ASSUME gOf' = gOf, eOf' = eOf PROVE WorkOf(w)'
    <3>1. Expanded' = Expanded
      BY <2>4 DEF Expanded
    <3>2. mine(w)' = mine(w)
      BY <1>1, <2>1 DEF mine
    <3>3. mine(w)'.distance < seen'[w].distance
      BY <1>3, <1>6, <1>7, <3>2
    <3> QED
      BY <1>0, <1>1, <2>1, <2>2, <2>4, <3>1, <3>3 DEF WorkOf
  <2> QED
    BY <1>1, <1>4, <1>5, <1>6, <2>1, <2>2, <2>3, <2>4, WorkerQuiet
<1>8. CASE ~(mine(w).distance < gpredAt(w).distance)
  <2>1. pc' = [pc EXCEPT ![w] = "arc"] /\ arc' = [arc EXCEPT ![w] = arc[w] + 1]
    BY <1>8 DEF Load, Goto
  <2>2. pc'[w] = "arc" /\ arc'[w] = arc[w] + 1 /\ \A u \in Worker : u # w => arc'[u] = arc[u]
    BY <1>0, <2>1 DEF PlannerType
  <2>3. PlannerType'
    BY <1>0, <1>1, <1>3, <2>1 DEF PlannerType, ids, result
  <2>4. ASSUME gOf' = gOf, eOf' = eOf PROVE WorkOf(w)'
    <3>1. Expanded' = Expanded
      BY <2>4 DEF Expanded
    <3>2. arc[w] + 1 \in 1..degree(v[w]) + 1
      BY <1>2
    <3> QED
      BY <1>0, <1>1, <2>2, <2>4, <3>1, <3>2 DEF WorkOf
  <2> QED
    BY <1>1, <1>4, <1>5, <1>6, <2>1, <2>2, <2>3, <2>4, WorkerQuiet
<1> QED
  BY <1>7, <1>8

\* What is queued was reached.
LEMMA InsertInv ==
    ASSUME IInv, NEW w \in Worker, Insert(w)
    PROVE  IInv' /\ gOf' = gOf /\ eOf' = eOf /\ Launched /\ Launched'
<1>0. TableInv /\ PlannerType /\ Search /\ WorkOf(w) /\ w \in Thread
  BY MainIn DEF IInv, Work
<1>1. /\ pc[w] = "insert" /\ upc[w] = "out"
      /\ queued' \in {queued, queued \cup {id[w]}}
      /\ arc' = [arc EXCEPT ![w] = arc[w] + 1]
      /\ pc' = [pc EXCEPT ![w] = "arc"]
      /\ UNCHANGED <<vecs, init, mem, upc, id, ptr, updated>>
      /\ UNCHANGED ids /\ UNCHANGED result
      /\ UNCHANGED <<is_done, v, dist, seen>>
  BY DEF Insert, At, uvars, Goto
<1>2. v[w] \in Vertex /\ arc[w] \in 1..degree(v[w]) /\ id[w] \in Vertex /\ degree(v[w]) \in Nat
  BY <1>1, AtArc, DegreeType
<1>3. gOf[id[w]].distance # IntMax
  BY <1>0, <1>1 DEF WorkOf
<1>4. TableInv'
  BY <1>0, <1>1, StoreTable DEF TableInv, TableType
<1>5. queued' \in SUBSET Vertex /\ \A y \in queued' : gOf[y].distance # IntMax
  BY <1>0, <1>1, <1>2, <1>3 DEF PlannerType, Search
<1>6. pc'[w] = "arc" /\ arc'[w] = arc[w] + 1 /\ \A u \in Worker : u # w => arc'[u] = arc[u]
  BY <1>0, <1>1 DEF PlannerType
<1>7. PlannerType'
  BY <1>0, <1>1, <1>5 DEF PlannerType, ids, result
<1>8. ASSUME gOf' = gOf, eOf' = eOf PROVE WorkOf(w)'
  <2>1. Expanded' = Expanded
    BY <1>8 DEF Expanded
  <2>2. arc[w] + 1 \in 1..degree(v[w]) + 1
    BY <1>2
  <2> QED
    BY <1>0, <1>1, <1>6, <1>8, <2>1, <2>2 DEF WorkOf
<1> QED
  BY <1>1, <1>4, <1>5, <1>6, <1>7, <1>8, WorkerQuiet

\* A step of a worker that stores in the state it points to: what the others
\* know stays true if distances only improve and flags are only set.
LEMMA WorkerStores ==
    ASSUME IInv, NEW w \in Worker, pc[w] # "off", upc[w] = "out", id[w] \in Vertex,
           NEW r \in PwsaState, mem' = [mem EXCEPT ![ptr[w]] = r], r.h = StateOf(id[w]).h,
           UNCHANGED <<vecs, init, upc, id, ptr, updated>>,
           UNCHANGED ids, UNCHANGED result, UNCHANGED <<queued, v, arc, dist, seen>>,
           is_done => is_done', is_done' \in BOOLEAN,
           NEW l \in {"off", "loop", "distance", "insert", "load"}, pc' = [pc EXCEPT ![w] = l],
           is_done' => eOf'[destination], l = "off" => is_done',
           eOf[id[w]] => r.is_expanded,
           r.gpred.distance <= gOf[id[w]].distance,
           r.gpred.distance # IntMax \/ gOf[id[w]].distance = IntMax,
           TreeOf(gOf', eOf'), BudgetOf(gOf', Expanded'),
           MaxWeight * (Cardinality(Expanded) - 1) <= MaxWeight * (Cardinality(Expanded') - 1),
           WorkOf(w)'
    PROVE  IInv' /\ Launched /\ Launched'
<1>0. TableInv /\ HInv /\ PlannerType /\ Control /\ Search /\ Done /\ Work /\ PathInv
  BY DEF IInv
<1>1. w \in Thread /\ w # Main /\ Main \in Thread
  BY MainIn
<1>2. HasState(w)
  BY <1>0, <1>1, AtState
<1>3. /\ mem' \in [DOMAIN mem -> PwsaState]
      /\ \A x \in Vertex : StateOf(x)' = IF x = id[w] THEN r ELSE StateOf(x)
  BY <1>0, <1>1, <1>2, StoreAt
<1>4. TableInv'
  BY <1>0, <1>3, StoreTable DEF TableInv, TableType
<1>5. HInv'
  <2>1. \A x \in Vertex : StateOf(x)'.h = StateOf(x).h
    BY <1>3
  <2> QED
    BY <1>0, <2>1, SameH DEF TableInv
<1>6. /\ pc'[Main] = pc[Main] /\ pc[Main] = "join" /\ pc'[w] = l
      /\ \A u \in Worker : u # w => pc'[u] = pc[u]
  BY <1>0, <1>1, MainIn DEF Control, PlannerType
<1>7. Launched /\ Launched'
  BY <1>6 DEF Launched
<1>8. \A x \in Vertex : /\ eOf[x] => eOf'[x]
                        /\ gOf'[x].distance <= gOf[x].distance
                        /\ gOf[x].distance # IntMax => gOf'[x].distance # IntMax
  <2>1. gOf \in [Vertex -> VPack]
    BY <1>0, StatesType
  <2>2. \A x \in Vertex : gOf[x].distance \in Int
    BY <2>1, GraphAssumption DEF VPack
  <2>3. \A x \in Vertex : gOf'[x] = IF x = id[w] THEN r.gpred ELSE gOf[x]
    BY <1>3 DEF gOf
  <2>4. \A x \in Vertex : eOf'[x] = IF x = id[w] THEN r.is_expanded ELSE eOf[x]
    BY <1>3 DEF eOf
  <2> QED
    BY <2>2, <2>3, <2>4
<1>9. PlannerType'
  BY <1>0 DEF PlannerType, ids, result
<1>10. Search'
  <2>1. \A x \in queued' : gOf'[x].distance # IntMax
    BY <1>0, <1>8 DEF Search, PlannerType
  <2> QED
    BY <1>7, <2>1 DEF Search, TreeOf, TreeArcOf, RootedOf, BudgetOf
<1>11. Control'
  <2>1. \A u \in Worker : upc'[u] # "out" => pc'[u] \in {"claim", "load"}
    BY <1>0, <1>6, MainIn DEF Control
  <2> QED
    BY <1>0, <1>6, <2>1 DEF Control, Searched, ids, result
<1>12. Done'
  BY <1>0, <1>6 DEF Done
<1>13. Work'
  <2> SUFFICES ASSUME NEW u \in Worker, u # w PROVE WorkOf(u)'
    BY DEF Work
  <2>1. WorkOf(u) /\ u \in Thread /\ dist[u] \in Nat
    BY <1>0, MainIn, GraphAssumption DEF Work, PlannerType
  <2>2. gOf \in [Vertex -> VPack] /\ gOf' \in [Vertex -> VPack]
    <3>1. (\A x \in Vertex : StateOf(x) \in PwsaState) /\ gOf \in [Vertex -> VPack]
      BY <1>0, StatesType
    <3>2. \A x \in Vertex : StateOf(x)' \in PwsaState
      BY <1>3, <3>1
    <3>3. \A x \in Vertex : StateOf(x)'.gpred \in VPack
      BY <3>2 DEF PwsaState
    <3> QED
      BY <3>1, <3>3 DEF gOf
  <2>3. Expanded \in SUBSET Vertex /\ Expanded' \in SUBSET Vertex
    BY DEF Expanded
  <2> QED
    BY <1>6, <1>8, <2>1, <2>2, <2>3, WorkKept
<1>14. PathInv'
  BY <1>0, <1>6 DEF PathInv, Control, Searched, result
<1> QED
  BY <1>4, <1>5, <1>7, <1>9, <1>10, <1>11, <1>12, <1>13, <1>14 DEF IInv

\* The claim of a vertex
LEMMA ClaimInv ==
    ASSUME IInv, NEW w \in Worker, Claim(w)
    PROVE  /\ IInv' /\ Launched /\ Launched'
           /\ \/ gOf' = gOf /\ eOf' = eOf
              \/ \E x \in Vertex : /\ gOf[x].distance # IntMax /\ ~eOf[x]
                                   /\ gOf' = gOf /\ eOf' = [eOf EXCEPT ![x] = TRUE]
<1>0. TableInv /\ PlannerType /\ Control /\ Search /\ Done /\ WorkOf(w) /\ w \in Thread
  BY MainIn DEF IInv, Work
<1>1. /\ pc[w] = "claim" /\ upc[w] = "out"
      /\ UNCHANGED <<vecs, init, upc, id, ptr, updated>>
      /\ UNCHANGED ids /\ UNCHANGED result
      /\ UNCHANGED <<queued, v, arc, dist, seen>>
  BY DEF Claim, At
<1> DEFINE x == id[w]
<1>2. x \in Vertex /\ gOf[x].distance # IntMax
  BY <1>0, <1>1 DEF WorkOf
<1>3. /\ HasState(w) /\ mem[ptr[w]] = StateOf(x) /\ mem[ptr[w]].is_expanded = eOf[x]
      /\ StateOf(x) \in PwsaState
  BY <1>0, <1>1, <1>2, AtState, StatesType
<1>4. CASE eOf[x]
  <2>1. pc' = [pc EXCEPT ![w] = "loop"] /\ UNCHANGED <<mem, is_done>>
    BY <1>3, <1>4 DEF Claim, Goto
  <2>2. TableInv'
    BY <1>0, <1>1, <2>1, StoreTable DEF TableInv, TableType
  <2>3. pc'[w] = "loop"
    BY <1>0, <2>1 DEF PlannerType
  <2>4. PlannerType'
    BY <1>0, <1>1, <2>1 DEF PlannerType, ids, result
  <2>5. gOf' = gOf /\ eOf' = eOf => WorkOf(w)'
    BY <2>3 DEF WorkOf
  <2>6. queued' \in SUBSET Vertex /\ \A y \in queued' : gOf[y].distance # IntMax
    BY <1>0, <1>1 DEF PlannerType, Search
  <2> QED
    BY <1>1, <2>1, <2>2, <2>3, <2>4, <2>5, <2>6, WorkerQuiet
<1>5. CASE ~eOf[x]
  <2> DEFINE r == [StateOf(x) EXCEPT !.is_expanded = TRUE]
             l == IF x = goal_state_id THEN "off" ELSE "distance"
  <2>1. mem' = [mem EXCEPT ![ptr[w]].is_expanded = TRUE]
    BY <1>3, <1>5 DEF Claim
  <2>2. pc' = [pc EXCEPT ![w] = l] /\ is_done' = (is_done \/ x = goal_state_id)
    <3>1. is_done \in BOOLEAN
      BY <1>0 DEF PlannerType
    <3> QED
      BY <1>3, <1>5, <3>1 DEF Claim, Goto
  <2>3. mem' = [mem EXCEPT ![ptr[w]] = r]
    BY <1>3, <2>1
  <2>4. r \in PwsaState /\ r.h = StateOf(x).h /\ r.gpred = StateOf(x).gpred /\ r.is_expanded = TRUE
    BY <1>3 DEF PwsaState
  <2> HIDE DEF r
  <2>5. \A y \in Vertex : StateOf(y)' = IF y = x THEN r ELSE StateOf(y)
    BY <1>0, <1>1, <1>3, <2>3, <2>4, StoreAt
  <2>6. gOf' = gOf /\ eOf' = [eOf EXCEPT ![x] = TRUE]
    BY <2>4, <2>5 DEF gOf, eOf
  <2>7. eOf \in [Vertex -> BOOLEAN] /\ gOf \in [Vertex -> VPack]
    BY <1>0, StatesType
  <2>8. eOf'[x] /\ \A y \in Vertex : y # x => eOf'[y] = eOf[y]
    BY <1>2, <2>6, <2>7
  <2>9. pc[Main] = "join" /\ Launched /\ goal_state_id = destination
    BY <1>0, <1>1 DEF Control, Launched
  <2>10. TreeOf(gOf, eOf) /\ BudgetOf(gOf, Expanded)
    BY <1>0, <2>9 DEF Search
  <2>11. TreeOf(gOf', eOf')
    BY <1>2, <2>6, <2>10, TreeExpand
  <2>12. Expanded \in SUBSET Vertex /\ x \notin Expanded /\ Expanded' = Expanded \cup {x}
    BY <1>2, <1>5, <2>8 DEF Expanded
  <2>13. /\ BudgetOf(gOf', Expanded')
         /\ MaxWeight * (Cardinality(Expanded) - 1) <= MaxWeight * (Cardinality(Expanded') - 1)
    BY <1>2, <2>6, <2>10, <2>12, BudgetExpand
  <2>14. l \in {"off", "loop", "distance", "insert", "load"} /\ (l = "off" => is_done')
    BY <2>2
  <2>15. is_done' => eOf'[destination]
    <3>1. is_done => eOf[destination]
      BY <1>0 DEF Done
    <3> QED
      BY <2>2, <2>8, <2>9, <3>1, GraphAssumption
  <2>16. pc'[w] = l
    BY <1>0, <2>2 DEF PlannerType
  <2>17. WorkOf(w)'
    BY <1>1, <1>2, <2>8, <2>14, <2>16 DEF WorkOf
  <2>18. /\ r.gpred.distance <= gOf[x].distance
         /\ r.gpred.distance # IntMax
         /\ is_done' \in BOOLEAN /\ (is_done => is_done')
    <3>1. r.gpred = gOf[x] /\ gOf[x].distance \in Int
      BY <1>2, <2>4, <2>7, GraphAssumption DEF gOf, VPack
    <3>2. is_done' \in BOOLEAN /\ (is_done => is_done')
      BY <2>2, Zenon
    <3>3. r.gpred.distance <= gOf[x].distance /\ r.gpred.distance # IntMax
      BY <1>2, <3>1
    <3> QED
      BY <3>2, <3>3
  <2> HIDE DEF l
  <2>19. IInv' /\ Launched /\ Launched'
    BY <1>1, <1>2, <2>2, <2>3, <2>4, <2>11, <2>13, <2>14, <2>15, <2>17, <2>18, WorkerStores DEF x
  <2> QED
    BY <1>2, <1>5, <2>6, <2>19
<1> QED
  BY <1>4, <1>5

\* The exchange of a vertpack
LEMMA CasInv ==
    ASSUME IInv, NEW w \in Worker, Cas(w)
    PROVE  /\ IInv' /\ Launched /\ Launched'
           /\ \/ gOf' = gOf /\ eOf' = eOf
              \/ \E u \in Vertex : \E i \in 1..degree(u) : \E d \in 0..IntMax - 1 :
                    LET y == Neighbors[u][i].vertex
                    IN  /\ eOf[u]
                        /\ gOf[u].distance + Neighbors[u][i].weight <= d
                        /\ d < gOf[y].distance
                        /\ gOf' = [gOf EXCEPT ![y] = [distance |-> d, pred |-> u]]
                        /\ eOf' = eOf
<1>0. TableInv /\ PlannerType /\ Control /\ Search /\ Done /\ WorkOf(w) /\ w \in Thread
  BY MainIn DEF IInv, Work
<1>1. /\ pc[w] = "cas" /\ upc[w] = "out"
      /\ UNCHANGED <<vecs, init, upc, id, ptr, updated>>
      /\ UNCHANGED ids /\ UNCHANGED result
      /\ UNCHANGED <<queued, is_done, v, arc, dist, seen>>
  BY DEF Cas, At, workvars
<1> DEFINE x == id[w]
           d == mine(w).distance
           wt == Neighbors[v[w]][arc[w]].weight
<1>2. /\ v[w] \in Vertex /\ eOf[v[w]] /\ arc[w] \in 1..degree(v[w])
      /\ x \in Vertex /\ x = Neighbors[v[w]][arc[w]].vertex
      /\ mine(w) = [distance |-> d, pred |-> v[w]]
      /\ d \in 0..IntMax - 1
      /\ d <= MaxWeight * Cardinality(Expanded)
      /\ gOf[v[w]].distance + wt <= d
      /\ mine(w) \in VPack
      /\ Launched
  BY <1>1, AtArc
<1>3. /\ HasState(w) /\ mem[ptr[w]] = StateOf(x) /\ gpredAt(w) = gOf[x]
      /\ StateOf(x) \in PwsaState
  BY <1>0, <1>1, <1>2, AtState, StatesType
<1>4. d < seen[w].distance
  BY <1>0, <1>1 DEF WorkOf
<1>5. CASE gpredAt(w) # seen[w]
  <2>1. pc' = [pc EXCEPT ![w] = "load"] /\ UNCHANGED mem
    BY <1>5 DEF Cas, Goto
  <2>2. TableInv'
    BY <1>0, <1>1, <2>1, StoreTable DEF TableInv, TableType
  <2>3. pc'[w] = "load"
    BY <1>0, <2>1 DEF PlannerType
  <2>4. PlannerType'
    BY <1>0, <1>1, <2>1 DEF PlannerType, ids, result
  <2>5. ASSUME gOf' = gOf, eOf' = eOf PROVE WorkOf(w)'
    <3>1. Expanded' = Expanded
      BY <2>5 DEF Expanded
    <3> QED
      BY <1>0, <1>1, <2>3, <2>5, <3>1 DEF WorkOf
  <2>6. queued' \in SUBSET Vertex /\ \A y \in queued' : gOf[y].distance # IntMax
    BY <1>0, <1>1 DEF PlannerType, Search
  <2> QED
    BY <1>1, <2>1, <2>2, <2>3, <2>4, <2>5, <2>6, WorkerQuiet
<1>6. CASE gpredAt(w) = seen[w]
  <2> DEFINE r == [StateOf(x) EXCEPT !.gpred = mine(w)]
  <2>1. mem' = [mem EXCEPT ![ptr[w]].gpred = mine(w)] /\ pc' = [pc EXCEPT ![w] = "insert"]
    BY <1>6 DEF Cas, Goto
  <2>2. d < gOf[x].distance
    BY <1>3, <1>4, <1>6
  <2>3. mem' = [mem EXCEPT ![ptr[w]] = r]
    BY <1>3, <2>1
  <2>4. r \in PwsaState /\ r.h = StateOf(x).h /\ r.gpred = mine(w) /\ r.is_expanded = StateOf(x).is_expanded
    BY <1>2, <1>3 DEF PwsaState
  <2> HIDE DEF r
  <2>5. \A y \in Vertex : StateOf(y)' = IF y = x THEN r ELSE StateOf(y)
    BY <1>0, <1>1, <1>3, <2>3, <2>4, StoreAt
  <2>6. gOf' = [gOf EXCEPT ![x] = mine(w)] /\ eOf' = eOf
    BY <2>4, <2>5 DEF gOf, eOf
  <2>7. eOf \in [Vertex -> BOOLEAN] /\ gOf \in [Vertex -> VPack]
    BY <1>0, StatesType
  <2>8. gOf'[x] = mine(w) /\ \A y \in Vertex : y # x => gOf'[y] = gOf[y]
    BY <1>2, <2>6, <2>7
  <2>9. Expanded' = Expanded /\ Expanded \in SUBSET Vertex
    BY <2>6 DEF Expanded
  <2>10. TreeOf(gOf, eOf) /\ BudgetOf(gOf, Expanded)
    BY <1>0, <1>2 DEF Search
  <2>11. gOf' = [gOf EXCEPT ![Neighbors[v[w]][arc[w]].vertex] = [distance |-> d, pred |-> v[w]]]
    BY <1>2, <2>6
  <2>12. d < gOf[Neighbors[v[w]][arc[w]].vertex].distance
    BY <1>2, <2>2
  <2> HIDE DEF d, x, wt
  <2>13. TreeOf(gOf', eOf')
    <3>1. gOf[v[w]].distance + Neighbors[v[w]][arc[w]].weight <= d
      BY <1>2 DEF wt
    <3>2. TreeOf([gOf EXCEPT ![Neighbors[v[w]][arc[w]].vertex] = [distance |-> d, pred |-> v[w]]], eOf)
      BY <1>2, <2>10, <2>12, <3>1, TreeRelax
    <3> QED
      BY <2>6, <2>11, <3>2
  <2>14. d \in Nat /\ mine(w).distance = d
    BY <1>2 DEF d
  <2>15. /\ BudgetOf(gOf', Expanded')
         /\ \A y \in Vertex : gOf'[y].distance \in Nat /\ gOf[y].distance \in Nat /\ gOf'[y].distance <= gOf[y].distance
    BY <1>2, <2>2, <2>8, <2>9, <2>10, <2>14, BudgetRelax
  <2>16. MaxWeight * (Cardinality(Expanded) - 1) <= MaxWeight * (Cardinality(Expanded') - 1)
    BY <2>9, BudgetFits
  <2>17. pc'[w] = "insert"
    BY <1>0, <2>1 DEF PlannerType
  <2>18. d # IntMax
    BY <1>2, GraphAssumption
  <2>19. WorkOf(w)'
    <3>1. gOf'[v[w]].distance <= dist[w]
      <4>1. gOf[v[w]].distance <= dist[w] /\ dist[w] \in Nat
        BY <1>0, <1>1, GraphAssumption DEF WorkOf, PlannerType
      <4>2. gOf'[v[w]].distance \in Nat /\ gOf[v[w]].distance \in Nat /\ gOf'[v[w]].distance <= gOf[v[w]].distance
        BY <1>2, <2>15
      <4> QED
        BY <4>1, <4>2
    <3>2. gOf'[id'[w]].distance # IntMax /\ id'[w] \in Vertex
      BY <1>1, <1>2, <2>8, <2>14, <2>18 DEF x
    <3> QED
      BY <1>0, <1>1, <1>2, <2>6, <2>9, <2>17, <3>1, <3>2 DEF WorkOf
  <2>20. is_done' => eOf'[destination]
    BY <1>0, <1>1, <2>6 DEF Done
  <2>21. /\ r.gpred.distance <= gOf[x].distance /\ r.gpred.distance # IntMax
         /\ (eOf[x] => r.is_expanded)
         /\ is_done' \in BOOLEAN
    <3>1. d <= gOf[x].distance
      BY <1>2, <2>2, <2>14, <2>15
    <3>2. eOf[x] => r.is_expanded
      BY <1>2, <2>4 DEF eOf
    <3> QED
      BY <1>0, <1>1, <2>4, <2>14, <2>18, <3>1, <3>2 DEF PlannerType
  <2>22. IInv' /\ Launched /\ Launched'
    BY <1>1, <1>2, <2>1, <2>3, <2>4, <2>13, <2>15, <2>16, <2>19, <2>20, <2>21, WorkerStores DEF x
  <2> QED
    BY <1>2, <2>6, <2>11, <2>12, <2>22 DEF wt
<1> QED
  BY <1>5, <1>6

------------------------------------------------------------------------------
(* The launch, and the theorems *)

\* pwsa_pc stores the source in a table without a search.
LEMMA LaunchInv ==
    ASSUME IInv, Launch
    PROVE  IInv' /\ ~Launched /\ Launched' /\ gOf' = InitGpred /\ eOf' = eOf
<1>0. TableInv /\ HInv /\ PlannerType /\ Control /\ Search /\ Done /\ Work /\ PathInv
  BY DEF IInv
<1> DEFINE s == [distance |-> 0, pred |-> source]
           r == [StateOf(source) EXCEPT !.gpred = s]
<1>1. /\ pc[Main] = "run" /\ upc[Main] = "out"
      /\ mem' = [mem EXCEPT ![ptr[Main]].gpred = [distance |-> 0, pred |-> start_state_id]]
      /\ queued' = {start_state_id}
      /\ pc' = [t \in Thread |-> IF t = Main THEN "join" ELSE "loop"]
      /\ UNCHANGED <<vecs, init, upc, id, ptr, updated>> /\ UNCHANGED <<start_state_id, goal_state_id>>
      /\ UNCHANGED <<is_done, v, arc, dist, seen>> /\ UNCHANGED <<path, solcost, answer>>
  BY DEF Launch, At, ids, result
<1>2. start_state_id = source /\ id[Main] = source /\ source \in Vertex /\ path = <<>> /\ updated
  BY <1>0, <1>1, GraphAssumption DEF Control
<1>3. ~Searched /\ ~Launched
  BY <1>1, <1>2 DEF Searched, Launched
<1>4. (\A x \in Vertex : gOf[x] = NewState.gpred /\ ~eOf[x]) /\ queued = {} /\ ~is_done
  BY <1>0, <1>3 DEF Search
<1>5. /\ HasState(Main) /\ mem[ptr[Main]] = StateOf(source) /\ StateOf(source) \in PwsaState
      /\ eOf \in [Vertex -> BOOLEAN]
  BY <1>0, <1>1, <1>2, MainIn, AtState, StatesType
<1>6. mem' = [mem EXCEPT ![ptr[Main]] = r]
  BY <1>1, <1>2, <1>5
<1>7. r \in PwsaState /\ r.h = StateOf(source).h /\ r.gpred = s /\ r.is_expanded = StateOf(source).is_expanded
  <2>1. s \in VPack
    BY <1>2, GraphAssumption DEF VPack
  <2> HIDE DEF s
  <2> QED
    BY <1>5, <2>1 DEF PwsaState
<1> HIDE DEF r
<1>8. /\ mem' \in [DOMAIN mem -> PwsaState]
      /\ \A x \in Vertex : StateOf(x)' = IF x = source THEN r ELSE StateOf(x)
  <2>1. /\ mem' \in [DOMAIN mem -> PwsaState]
        /\ \A x \in Vertex : StateOf(x)' = IF x = id[Main] THEN r ELSE StateOf(x)
    <3>1. Main \in Thread /\ vecs' = vecs /\ r \in PwsaState
      BY <1>1, <1>7, MainIn
    <3> QED
      BY <1>0, <1>5, <1>6, <3>1, StoreAt
  <2> QED
    BY <1>2, <2>1
<1>9. eOf' = eOf
  BY <1>7, <1>8 DEF eOf
<1>10. gOf' = InitGpred
  <2>1. \A x \in Vertex : x # source => StateOf(x)'.gpred = [distance |-> IntMax, pred |-> NoVertex]
    <3>1. \A x \in Vertex : StateOf(x).gpred = [distance |-> IntMax, pred |-> NoVertex]
      BY <1>4 DEF gOf, NewState
    <3> QED
      BY <1>8, <3>1
  <2>2. StateOf(source)'.gpred = s
    BY <1>2, <1>7, <1>8
  <2> QED
    BY <1>8, <1>7, <2>1 DEF gOf, InitGpred
<1>11. TableInv'
  BY <1>0, <1>1, <1>8, StoreTable DEF TableInv, TableType
<1>12. HInv'
  <2>1. \A x \in Vertex : StateOf(x)'.h = StateOf(x).h
    BY <1>7, <1>8
  <2> QED
    BY <1>0, <1>1, <2>1, SameH DEF TableInv
<1>13. pc'[Main] = "join" /\ \A w \in Worker : pc'[w] = "loop"
  BY <1>1, MainIn
<1>14. PlannerType'
  BY <1>0, <1>1, <1>2 DEF PlannerType
<1>15. ~Searched' /\ Launched'
  BY <1>1, <1>2, <1>13 DEF Searched, Launched
<1>16. Control'
  <2>1. \A w \in Worker : upc'[w] = "out"
    BY <1>0, <1>1, MainIn DEF Control
  <2> QED
    BY <1>0, <1>1, <1>2, <1>13, <1>15, <2>1 DEF Control
<1>17. Search'
  <2>1. eOf' = [x \in Vertex |-> FALSE] /\ Expanded' = {}
    BY <1>4, <1>5, <1>9 DEF Expanded
  <2>2. TreeOf(gOf', eOf')
    BY <1>10, <2>1, TreeInit
  <2>3. \A x \in Vertex : gOf'[x].distance = IF x = source THEN 0 ELSE IntMax
    BY <1>10 DEF InitGpred
  <2>4. BudgetOf(gOf', Expanded')
    BY <2>1, <2>3, BudgetInit
  <2>5. \A x \in queued' : gOf'[x].distance # IntMax
    <3>1. 0 # IntMax
      <4>1. {} \in SUBSET Vertex
        OBVIOUS
      <4>2. IntMax \in Nat /\ 0 < IntMax
        BY <4>1, BudgetFits, Zenon
      <4> QED
        BY <4>2
    <3> QED
      BY <1>1, <1>2, <2>3, <3>1
  <2> QED
    BY <1>15, <2>2, <2>4, <2>5 DEF Search, TreeOf, TreeArcOf, RootedOf, BudgetOf
<1>18. Done' /\ Work'
  BY <1>1, <1>4, <1>13 DEF Done, Work, WorkOf
<1>19. PathInv'
  BY <1>0, <1>1, <1>3, <1>15 DEF PathInv
<1> QED
  BY <1>3, <1>9, <1>10, <1>11, <1>12, <1>14, <1>15, <1>16, <1>17, <1>18, <1>19 DEF IInv

\* The search as SearchTree sees it
gView == IF Launched THEN gOf ELSE InitGpred

\* What a step of the planner may be to SearchTree: nothing, Expand or Relax
TreeStep ==
    \/ UNCHANGED <<gView, eOf>>
    \/ \E x \in Vertex : /\ gView[x].distance # IntMax /\ ~eOf[x]
                         /\ gView' = gView /\ eOf' = [eOf EXCEPT ![x] = TRUE]
    \/ \E u \in Vertex : \E i \in 1..degree(u) : \E d \in 0..IntMax - 1 :
          LET y == Neighbors[u][i].vertex
          IN  /\ eOf[u]
              /\ gView[u].distance + Neighbors[u][i].weight <= d
              /\ d < gView[y].distance
              /\ gView' = [gView EXCEPT ![y] = [distance |-> d, pred |-> u]]
              /\ eOf' = eOf

\* Every step keeps the invariant and is a step of the tree or none.
LEMMA NextInv == ASSUME IInv, [Next]_vars PROVE IInv' /\ TreeStep
<1>0. InitGpred' = InitGpred
  BY DEF InitGpred
<1> DEFINE Quiet == gOf' = gOf /\ eOf' = eOf /\ (Launched' <=> Launched)
<1>1. ASSUME Quiet PROVE TreeStep
  BY <1>0, <1>1 DEF TreeStep, gView
<1>2. CASE UNCHANGED vars
  <2>1. /\ UNCHANGED <<vecs, init, mem, upc, id, ptr, updated>>
        /\ UNCHANGED <<start_state_id, goal_state_id, pc, queued, is_done, v, arc, dist, seen, path, solcost, answer>>
    BY <1>2 DEF vars, uvars, ids, workvars, result
  <2>2. gOf' = gOf /\ eOf' = eOf
    BY <2>1, SameStates
  <2>3. TableInv /\ HInv /\ PlannerType /\ Control /\ Search /\ Done /\ Work /\ PathInv
    BY DEF IInv
  <2>4. TableInv'
    BY <2>1, <2>3, StoreTable DEF TableInv, TableType
  <2>5. Launched' <=> Launched
    BY <2>1 DEF Launched, Searched
  <2>6. PlannerType' /\ Control'
    BY <2>1, <2>3 DEF PlannerType, Control, Searched
  <2>7. Done' /\ PathInv'
    BY <2>1, <2>2, <2>3, PathSame DEF Done
  <2>8. IInv'
    BY <2>1, <2>4, <2>5, <2>6, <2>7, MainQuiet DEF workvars
  <2> QED
    BY <1>1, <2>2, <2>5, <2>8
<1>3. ASSUME NEW t \in Thread, InGetState(t) PROVE IInv' /\ TreeStep
  <2>1. IInv' /\ gOf' = gOf /\ eOf' = eOf
    BY <1>3, GetStateInv
  <2>2. Launched' <=> Launched
    BY <1>3 DEF InGetState, Launched, Searched, result
  <2> QED
    BY <1>1, <2>1, <2>2
<1>4. CASE CallerStep
  BY <1>1, <1>4, CallerInv
<1>5. CASE MainStep
  <2>1. CASE InitStart \/ EnsureHeuristicsUpdated \/ JoinWorkers
    BY <1>1, <2>1, PrepareInv
  <2>2. CASE TestGoal
    BY <1>1, <2>2, TestGoalInv
  <2>3. CASE Walk
    BY <1>1, <2>3, WalkInv
  <2>4. CASE WalkEnd \/ Return
    BY <1>1, <2>4, EndInv
  <2>5. CASE Launch
    <3>1. IInv' /\ ~Launched /\ Launched' /\ gOf' = InitGpred /\ eOf' = eOf
      BY <2>5, LaunchInv
    <3> QED
      BY <1>0, <3>1 DEF TreeStep, gView
  <2> QED
    BY <1>3, <1>5, <2>1, <2>2, <2>3, <2>4, <2>5, MainIn DEF MainStep
<1>6. CASE \E w \in Worker : WorkerStep(w)
  <2>1. PICK w \in Worker : WorkerStep(w)
    BY <1>6
  <2>2. CASE Claim(w)
    <3>1. /\ IInv' /\ Launched /\ Launched'
          /\ \/ gOf' = gOf /\ eOf' = eOf
             \/ \E x \in Vertex : /\ gOf[x].distance # IntMax /\ ~eOf[x]
                                  /\ gOf' = gOf /\ eOf' = [eOf EXCEPT ![x] = TRUE]
      BY <2>2, ClaimInv
    <3>2. gView = gOf /\ gView' = gOf'
      BY <3>1 DEF gView
    <3> QED
      BY <3>1, <3>2 DEF TreeStep
  <2>3. CASE Cas(w)
    <3>1. /\ IInv' /\ Launched /\ Launched'
          /\ \/ gOf' = gOf /\ eOf' = eOf
             \/ \E u \in Vertex : \E i \in 1..degree(u) : \E d \in 0..IntMax - 1 :
                   LET y == Neighbors[u][i].vertex
                   IN  /\ eOf[u]
                       /\ gOf[u].distance + Neighbors[u][i].weight <= d
                       /\ d < gOf[y].distance
                       /\ gOf' = [gOf EXCEPT ![y] = [distance |-> d, pred |-> u]]
                       /\ eOf' = eOf
      BY <2>3, CasInv
    <3>2. gView = gOf /\ gView' = gOf'
      BY <3>1 DEF gView
    <3> QED
      BY <3>1, <3>2 DEF TreeStep
  <2>4. CASE Pop(w)
    BY <1>1, <2>4, PopInv
  <2>5. CASE Leave(w)
    BY <1>1, <2>5, LeaveInv
  <2>6. CASE ReadDistance(w)
    BY <1>1, <2>6, ReadDistanceInv
  <2>7. CASE NextArc(w)
    BY <1>1, <2>7, NextArcInv
  <2>8. CASE Load(w)
    BY <1>1, <2>8, LoadInv
  <2>9. CASE Insert(w)
    BY <1>1, <2>9, InsertInv
  <2> QED
    BY <1>3, <2>1, <2>2, <2>3, <2>4, <2>5, <2>6, <2>7, <2>8, <2>9, MainIn DEF WorkerStep
<1> QED
  BY <1>2, <1>4, <1>5, <1>6 DEF Next, Busy

\* The invariant holds in every state of the planner, however its threads interleave.
THEOREM PlannerInvariant == SafetySpec => []IInv
<1>1. Init => IInv
  BY InitInv
<1>2. IInv /\ [Next]_vars => IInv'
  BY NextInv
<1> QED
  BY <1>1, <1>2, PTL DEF SafetySpec

\* A pointer GetState returned is the place of its state in every later state,
\* and no two states share a place, whatever arrays are created meanwhile
\* (ubvec.h:101 asks "is there a race here?": there is none).
THEOREM PlannerPointersStable == SafetySpec => []PointersStable
<1>1. IInv => PointersStable
  <2> SUFFICES ASSUME TableInv PROVE PointersStable
    BY DEF IInv
  <2>1. ASSUME NEW t \in Thread, id[t] # NoVertex, upc[t] \in {"memo", "setH", "out"}
        PROVE  ptr[t] = Where(id[t]) /\ ptr[t] \in DOMAIN mem
    BY <2>1, Deref DEF HasState
  <2>2. ASSUME NEW i \in Vertex, NEW j \in Vertex, Exists(i), Exists(j), Where(i) = Where(j)
        PROVE  i = j
    BY <2>2, WhereUnique
  <2> QED
    BY <2>1, <2>2 DEF PointersStable
<1> QED
  BY <1>1, PlannerInvariant, PTL

\* What remains of HeuristicFresh: a worker that queues a state finds an estimate
\* in it, and one for the goal of this call except at start and goal.
StaleOnlyAtEnds ==
    \A w \in Worker : At(w, "insert") =>
       mem[ptr[w]].h \in (IF id[w] \in {source, destination} THEN {"fresh", "stale"}
                                                             ELSE {"fresh"})

\* No priority rests on an estimate that was not looked up yet, though h is
\* tested and written without a lock (pwsaplanner.cpp:16-18), and only those of
\* start and goal, which initializeSearch looks up too early (153-154), may rest
\* on one from before EnsureHeuristicsUpdated.
THEOREM PlannerStaleOnlyAtEnds == SafetySpec => []StaleOnlyAtEnds
<1>1. IInv => StaleOnlyAtEnds
  <2> SUFFICES ASSUME IInv, NEW w \in Worker, At(w, "insert")
               PROVE  mem[ptr[w]].h \in (IF id[w] \in {source, destination} THEN {"fresh", "stale"}
                                                                            ELSE {"fresh"})
    BY DEF StaleOnlyAtEnds
  <2>1. TableInv /\ HInv /\ WorkOf(w) /\ w \in Thread
    BY MainIn DEF IInv, Work
  <2>2. pc[w] = "insert" /\ upc[w] = "out" /\ id[w] \in Vertex
    BY <2>1 DEF At, WorkOf
  <2>3. mem[ptr[w]] = StateOf(id[w]) /\ StateOf(id[w]) \in PwsaState
    BY <2>1, <2>2, AtState, StatesType
  <2>4. StateOf(id[w]).h \in {"unset", "fresh", "stale"}
    BY <2>3 DEF PwsaState
  <2>5. StateOf(id[w]).h # "unset"
    BY <2>1, <2>2, GraphAssumption DEF HInv
  <2>6. StateOf(id[w]).h = "stale" => id[w] \in {source, destination}
    BY <2>1, <2>2 DEF HInv
  <2> QED
    BY <2>3, <2>4, <2>5, <2>6
<1> QED
  BY <1>1, PlannerInvariant, PTL

\* A plan leads over arcs from the start to the goal and costs no more than the
\* g-value of the goal.
THEOREM PlannerPathReported == SafetySpec => []PathReported
<1>1. IInv => PathReported
  <2> SUFFICES ASSUME IInv, answer = 1
               PROVE  /\ path[1] = destination /\ Last(path) = source
                      /\ \A k \in 1..Len(path) - 1 :
                            \E i \in 1..degree(path[k + 1]) : Neighbors[path[k + 1]][i].vertex = path[k]
                      /\ solcost <= StateOf(destination).gpred.distance
    BY DEF PathReported
  <2>1. TableInv /\ PlannerType /\ Control /\ PathInv /\ Search
    BY DEF IInv
  <2>2. pc[Main] = "idle" /\ Searched
    BY <2>1 DEF Control
  <2>3. /\ path[1] = destination /\ Last(path) = source
        /\ \A k \in 1..Len(path) - 1 :
              \E i \in 1..degree(path[k + 1]) : Neighbors[path[k + 1]][i].vertex = path[k]
        /\ solcost + gOf[source].distance <= gOf[destination].distance
    BY <2>1, <2>2 DEF PathInv
  <2>4. gOf[source].distance \in Nat /\ gOf[destination].distance \in Nat /\ solcost \in Nat
    <3>1. gOf \in [Vertex -> VPack]
      BY <2>1, StatesType
    <3> QED
      BY <2>1, <3>1, GraphAssumption DEF PlannerType, VPack
  <2>5. gOf[destination] = StateOf(destination).gpred
    BY GraphAssumption DEF gOf
  <2>6. solcost <= gOf[destination].distance
    BY <2>3, <2>4
  <2> QED
    BY <2>3, <2>5, <2>6
<1> QED
  BY <1>1, PlannerInvariant, PTL

\* Whatever the table does meanwhile, every step changes the states as SearchTree
\* allows, or not at all.
THEOREM PlannerImplementsTree == SafetySpec => ImplementsTree
<1>1. Init => Tree!Init
  <2> SUFFICES ASSUME Init PROVE Tree!Init
    OBVIOUS
  <2>1. ~Launched
    BY MainIn DEF Init, Launched, Searched
  <2>2. IInv /\ eOf \in [Vertex -> BOOLEAN]
    BY InitInv, StatesType DEF IInv
  <2>3. \A x \in Vertex : ~eOf[x]
    BY <2>1, <2>2 DEF IInv, Search
  <2>4. eOf = [x \in Vertex |-> FALSE]
    BY <2>2, <2>3
  <2> QED
    BY <2>1, <2>4 DEF Tree!Init, Tree!InitGpred, InitGpred, eOf
<1>2. IInv /\ [Next]_vars => [Tree!Next]_Tree!tvars
  <2> SUFFICES ASSUME IInv, [Next]_vars PROVE [Tree!Next]_Tree!tvars
    OBVIOUS
  <2>1. TreeStep
    BY NextInv
  <2>2. CASE UNCHANGED <<gView, eOf>>
    BY <2>2 DEF Tree!tvars, gView, gOf, eOf
  <2>3. ASSUME NEW x \in Vertex, gView[x].distance # IntMax, ~eOf[x],
               gView' = gView, eOf' = [eOf EXCEPT ![x] = TRUE]
        PROVE  Tree!Expand(x)
    BY <2>3 DEF Tree!Expand, Tree!Reached, gView, gOf, eOf
  <2>4. ASSUME NEW u \in Vertex, NEW i \in 1..degree(u), NEW d \in 0..IntMax - 1,
               eOf[u], gView[u].distance + Neighbors[u][i].weight <= d,
               d < gView[Neighbors[u][i].vertex].distance,
               gView' = [gView EXCEPT ![Neighbors[u][i].vertex] = [distance |-> d, pred |-> u]],
               eOf' = eOf
        PROVE  Tree!Relax(u, i, d)
    BY <2>4 DEF Tree!Relax, gView, gOf, eOf
  <2> QED
    BY <2>1, <2>2, <2>3, <2>4 DEF TreeStep, Tree!Next, Tree!degree, degree
<1> QED
  BY <1>1, <1>2, PlannerInvariant, PTL DEF SafetySpec, ImplementsTree, Tree!Spec

==============================================================================
