-------------------------- MODULE SearchGraphProofs --------------------------
(***************************************************************************)
(* Facts about the problem that the proofs of all searches rest on: arcs,  *)
(* int arithmetic, the argument that no distance leaves the range of an    *)
(* int, because each expansion adds at most one arc to the longest one,    *)
(* queues kept as sequences, and what a shortest path is.                  *)
(***************************************************************************)
EXTENDS ShortestPaths, TLAPS, FiniteSetTheorems, SequenceTheorems

\* Each arc of the graph has a head in Vertex and a bounded natural weight.
LEMMA ArcType ==
    ASSUME NEW u \in Vertex, NEW i \in 1..degree(u)
    PROVE  /\ Neighbors[u][i].vertex \in Vertex
           /\ Neighbors[u][i].weight \in 0..MaxWeight
           /\ Neighbors[u][i].weight \in Nat
<1>1. Neighbors[u] \in Seq(Arc)
  BY GraphAssumption
<1>2. Neighbors[u][i] \in Arc
  BY <1>1 DEF degree
<1>3. Neighbors[u][i].vertex \in Vertex /\ Neighbors[u][i].weight \in 0..MaxWeight
  BY <1>2 DEF Arc
<1>4. MaxWeight \in Nat
  BY GraphAssumption
<1> QED
  BY <1>3, <1>4

\* The number of arcs of a vertex is a natural number.
LEMMA DegreeType == ASSUME NEW u \in Vertex PROVE degree(u) \in Nat
<1>1. Neighbors[u] \in Seq(Arc)
  BY GraphAssumption
<1> QED
  BY <1>1 DEF degree

\* Wrapped sums are integers.
LEMMA PlusType == ASSUME NEW a \in Int, NEW b \in Int PROVE Plus(a, b) \in Int
BY GraphAssumption DEF Plus

\* Wrapped or not, a priority tells the distance it was computed from.
LEMMA PlusInjective ==
    ASSUME NEW a \in 0..IntMax, NEW b \in 0..IntMax, NEW h \in 0..IntMax, Plus(a, h) = Plus(b, h)
    PROVE  a = b
BY GraphAssumption DEF Plus

------------------------------------------------------------------------------
(* The budget of distances *)

\* With the vertices of E expanded, a distance is at most the sum of one arc
\* per expanded vertex; that of an expanded vertex has not used its own arc.
BudgetOf(g, E) ==
    \A x \in Vertex :
       /\ g[x].distance \in Nat
       /\ g[x].distance # IntMax => g[x].distance <= MaxWeight * Cardinality(E)
       /\ x \in E => g[x].distance <= MaxWeight * (Cardinality(E) - 1)

\* The arithmetic of the budget.
LEMMA Product ==
    ASSUME NEW m \in Nat, NEW n \in Nat
    PROVE  /\ m * n \in Nat
           /\ m * (n - 1) + m = m * n
           /\ m * (n - 1) <= m * n
           /\ \A k \in Nat : n <= k => m * n <= m * k
OBVIOUS

\* A set of vertices is finite and no larger than the graph.
LEMMA VerticesCard ==
    ASSUME NEW E \in SUBSET Vertex
    PROVE  /\ IsFiniteSet(E)
           /\ Cardinality(E) \in Nat
           /\ Cardinality(Vertex) \in Nat
           /\ Cardinality(E) <= Cardinality(Vertex)
<1>1. IsFiniteSet(Vertex)
  BY GraphAssumption
<1>2. IsFiniteSet(E) /\ Cardinality(E) <= Cardinality(Vertex)
  BY <1>1, FS_Subset
<1> QED
  BY <1>1, <1>2, FS_CardinalityType

\* The budget ends before the largest int.
LEMMA BudgetFits ==
    ASSUME NEW E \in SUBSET Vertex
    PROVE  /\ MaxWeight * Cardinality(E) \in Nat
           /\ MaxWeight * (Cardinality(E) - 1) \in Int
           /\ MaxWeight * (Cardinality(E) - 1) + MaxWeight = MaxWeight * Cardinality(E)
           /\ MaxWeight * Cardinality(E) < IntMax
           /\ IntMax \in Nat /\ MaxWeight \in Nat /\ 0 < IntMax
<1> DEFINE n == Cardinality(E)
           N == Cardinality(Vertex)
<1>1. n \in Nat /\ N \in Nat /\ n <= N
  BY VerticesCard
<1>2. MaxWeight \in Nat /\ IntMax \in Nat
  BY GraphAssumption
<1>3. MaxWeight * N < IntMax
  BY DistancesFit
<1> HIDE DEF n, N
<1>4. /\ MaxWeight * n \in Nat /\ MaxWeight * N \in Nat
      /\ MaxWeight * (n - 1) + MaxWeight = MaxWeight * n
      /\ MaxWeight * n <= MaxWeight * N
  BY <1>1, <1>2, Product
<1>5. MaxWeight * (n - 1) \in Int
  BY <1>1, <1>2
<1> QED
  BY <1>2, <1>3, <1>4, <1>5 DEF n

\* A relaxation whose expander started within the budget does not overflow.
LEMMA RelaxFits ==
    ASSUME NEW E \in SUBSET Vertex, NEW u \in Vertex, NEW i \in 1..degree(u), NEW d \in Nat,
           d <= MaxWeight * (Cardinality(E) - 1)
    PROVE  LET wt == Neighbors[u][i].weight
           IN  /\ wt \in Nat
               /\ Plus(d, wt) = d + wt
               /\ d + wt \in 0..IntMax - 1
               /\ d + wt <= MaxWeight * Cardinality(E)
<1> DEFINE wt == Neighbors[u][i].weight
           a  == MaxWeight * (Cardinality(E) - 1)
           b  == MaxWeight * Cardinality(E)
<1>1. wt \in 0..MaxWeight
  BY ArcType
<1>2. a \in Int /\ b \in Nat /\ a + MaxWeight = b /\ b < IntMax /\ IntMax \in Nat /\ MaxWeight \in Nat
  BY BudgetFits
<1>3. d <= a
  OBVIOUS
<1> HIDE DEF wt, a, b
<1>4. wt \in Nat /\ d + wt <= b /\ d + wt \in 0..IntMax - 1
  BY <1>1, <1>2, <1>3
<1>5. Plus(d, wt) = d + wt
  BY <1>2, <1>4 DEF Plus
<1> QED
  BY <1>4, <1>5 DEF wt, b

\* At the start only the source is reached.
LEMMA BudgetInit ==
    ASSUME NEW g, \A x \in Vertex : g[x].distance = IF x = source THEN 0 ELSE IntMax
    PROVE  BudgetOf(g, {})
<1>1. Cardinality({}) = 0
  BY FS_EmptySet
<1>2. IntMax \in Nat /\ MaxWeight * 0 = 0
  BY GraphAssumption
<1> QED
  BY <1>1, <1>2 DEF BudgetOf

\* A relaxation within the budget keeps it.
LEMMA BudgetRelax ==
    ASSUME NEW E \in SUBSET Vertex, NEW g, NEW g1, BudgetOf(g, E),
           NEW y \in Vertex, NEW d \in Nat,
           d <= MaxWeight * Cardinality(E), d < g[y].distance,
           g1[y].distance = d, \A x \in Vertex : x # y => g1[x].distance = g[x].distance
    PROVE  /\ BudgetOf(g1, E)
           /\ \A x \in Vertex : /\ g1[x].distance \in Nat /\ g[x].distance \in Nat
                                /\ g1[x].distance <= g[x].distance
                                /\ g[x].distance # IntMax => g1[x].distance # IntMax
<1>1. MaxWeight * (Cardinality(E) - 1) \in Int /\ MaxWeight * Cardinality(E) < IntMax
      /\ MaxWeight * Cardinality(E) \in Nat /\ IntMax \in Nat
  BY BudgetFits
<1>2. \A x \in Vertex : /\ g1[x].distance \in Nat /\ g[x].distance \in Nat
                        /\ g1[x].distance <= g[x].distance
                        /\ g[x].distance # IntMax => g1[x].distance # IntMax
  BY <1>1 DEF BudgetOf
<1>3. ASSUME NEW x \in Vertex
      PROVE  /\ g1[x].distance # IntMax => g1[x].distance <= MaxWeight * Cardinality(E)
             /\ x \in E => g1[x].distance <= MaxWeight * (Cardinality(E) - 1)
  <2>1. x \in E => g[x].distance <= MaxWeight * (Cardinality(E) - 1)
    BY DEF BudgetOf
  <2>2. g1[x].distance # IntMax => g1[x].distance <= MaxWeight * Cardinality(E)
    BY DEF BudgetOf
  <2> QED
    BY <1>1, <1>2, <2>1, <2>2
<1> QED
  BY <1>2, <1>3 DEF BudgetOf

\* An expansion adds one arc to the budget.
LEMMA BudgetExpand ==
    ASSUME NEW E \in SUBSET Vertex, NEW g, BudgetOf(g, E),
           NEW y \in Vertex, y \notin E, g[y].distance # IntMax
    PROVE  /\ BudgetOf(g, E \cup {y})
           /\ MaxWeight * (Cardinality(E) - 1) <= MaxWeight * (Cardinality(E \cup {y}) - 1)
<1> DEFINE n == Cardinality(E)
           m == Cardinality(E \cup {y})
<1>1. m = n + 1 /\ n \in Nat
  BY VerticesCard, FS_AddElement
<1>2. /\ MaxWeight * n \in Nat /\ MaxWeight * (n - 1) \in Int
      /\ MaxWeight * (n - 1) + MaxWeight = MaxWeight * n /\ MaxWeight \in Nat
  BY BudgetFits
<1>3. E \cup {y} \in SUBSET Vertex
  OBVIOUS
<1>4. MaxWeight * m \in Nat /\ MaxWeight * (m - 1) + MaxWeight = MaxWeight * m /\ m - 1 = n
  BY <1>1, <1>3, BudgetFits
<1>5. ASSUME NEW x \in Vertex
      PROVE  /\ g[x].distance \in Nat
             /\ g[x].distance # IntMax => g[x].distance <= MaxWeight * n
             /\ x \in E => g[x].distance <= MaxWeight * (n - 1)
  BY DEF BudgetOf
<1> HIDE DEF n, m
<1>6. MaxWeight * (n - 1) <= MaxWeight * (m - 1) /\ MaxWeight * n <= MaxWeight * m
      /\ MaxWeight * (m - 1) = MaxWeight * n
  BY <1>2, <1>4
<1>7. ASSUME NEW x \in Vertex
      PROVE  /\ g[x].distance \in Nat
             /\ g[x].distance # IntMax => g[x].distance <= MaxWeight * m
             /\ x \in E \cup {y} => g[x].distance <= MaxWeight * (m - 1)
  BY <1>2, <1>4, <1>5, <1>6
<1> QED
  BY <1>6, <1>7 DEF BudgetOf, n, m

------------------------------------------------------------------------------
(* Queues that are kept as sequences *)

\* A part of a sequence
LEMMA PartFacts ==
    ASSUME NEW S, NEW s \in Seq(S), NEW m \in 1..Len(s) + 1, NEW n \in 0..Len(s), m <= n + 1
    PROVE  /\ SubSeq(s, m, n) \in Seq(S)
           /\ Len(SubSeq(s, m, n)) = n - m + 1
           /\ \A i \in 1..n - m + 1 : SubSeq(s, m, n)[i] = s[m + i - 1]
<1>1. Len(s) \in Nat /\ m \in Int /\ n \in Int
  OBVIOUS
<1>2. \A i \in m..n : s[i] \in S
  BY <1>1, ElementOfSeq
<1> QED
  BY <1>1, <1>2, SubSeqProperties

\* s with e inserted at position i, and without the entry at position i
Insertion(s, i, e) == SubSeq(s, 1, i - 1) \o <<e>> \o SubSeq(s, i, Len(s))
Removal(s, i) == SubSeq(s, 1, i - 1) \o SubSeq(s, i + 1, Len(s))

\* Where the members are after an insertion at position i
LEMMA InsertionFacts ==
    ASSUME NEW S, NEW s \in Seq(S), NEW e \in S, NEW i \in 1..Len(s) + 1
    PROVE  /\ Insertion(s, i, e) \in Seq(S)
           /\ Len(Insertion(s, i, e)) = Len(s) + 1
           /\ Insertion(s, i, e)[i] = e
           /\ \A j \in 1..Len(s) : /\ j < i => Insertion(s, i, e)[j] = s[j]
                                   /\ j >= i => Insertion(s, i, e)[j + 1] = s[j]
<1> DEFINE a == SubSeq(s, 1, i - 1)
           b == SubSeq(s, i, Len(s))
           c == a \o <<e>>
           t == c \o b
<1>1. Len(s) \in Nat /\ i \in Nat /\ i > 0 /\ i <= Len(s) + 1
  OBVIOUS
<1>2. a \in Seq(S) /\ Len(a) = i - 1 /\ \A j \in 1..i - 1 : a[j] = s[j]
  <2>1. 1 \in 1..Len(s) + 1 /\ i - 1 \in 0..Len(s) /\ 1 <= (i - 1) + 1
    BY <1>1
  <2>2. a \in Seq(S) /\ Len(a) = (i - 1) - 1 + 1 /\ \A j \in 1..(i - 1) - 1 + 1 : a[j] = s[1 + j - 1]
    BY <2>1, PartFacts
  <2>3. (i - 1) - 1 + 1 = i - 1 /\ \A j \in Int : 1 + j - 1 = j
    BY <1>1
  <2> QED
    BY <2>2, <2>3
<1>3. b \in Seq(S) /\ Len(b) = Len(s) - i + 1 /\ \A j \in 1..Len(s) - i + 1 : b[j] = s[i + j - 1]
  <2>1. Len(s) \in 0..Len(s) /\ i <= Len(s) + 1
    BY <1>1
  <2> QED
    BY <2>1, PartFacts
<1> HIDE DEF a, b
<1>4. <<e>> \in Seq(S) /\ Len(<<e>>) = 1 /\ <<e>>[1] = e
  OBVIOUS
<1>5. /\ c \in Seq(S) /\ Len(c) = Len(a) + Len(<<e>>)
      /\ \A j \in 1..Len(a) + Len(<<e>>) : c[j] = IF j <= Len(a) THEN a[j] ELSE <<e>>[j - Len(a)]
  BY <1>2, <1>4, ConcatProperties
<1>6. Len(c) = i /\ c[i] = e /\ \A j \in 1..i - 1 : c[j] = s[j]
  BY <1>1, <1>2, <1>4, <1>5
<1> HIDE DEF c
<1>7. /\ t \in Seq(S) /\ Len(t) = Len(c) + Len(b)
      /\ \A j \in 1..Len(c) + Len(b) : t[j] = IF j <= Len(c) THEN c[j] ELSE b[j - Len(c)]
  <2>1. c \in Seq(S) /\ b \in Seq(S)
    BY <1>3, <1>5
  <2>2. \A s1, s2 \in Seq(S) :
           /\ s1 \o s2 \in Seq(S) /\ Len(s1 \o s2) = Len(s1) + Len(s2)
           /\ \A j \in 1..Len(s1) + Len(s2) :
                 (s1 \o s2)[j] = IF j <= Len(s1) THEN s1[j] ELSE s2[j - Len(s1)]
    BY ConcatProperties
  <2> QED
    BY <2>1, <2>2
<1>8. Insertion(s, i, e) = t
  BY DEF Insertion, t, c, a, b
<1> HIDE DEF t
<1>9. Len(t) = Len(s) + 1 /\ t[i] = e
  <2>1. i \in 1..Len(c) + Len(b) /\ i <= Len(c)
    BY <1>1, <1>3, <1>6
  <2>2. t[i] = c[i]
    BY <1>7, <2>1
  <2> QED
    BY <1>1, <1>3, <1>6, <1>7, <2>2
<1>10. ASSUME NEW j \in 1..Len(s), j < i PROVE t[j] = s[j]
  <2>1. j \in 1..i - 1 /\ j \in 1..Len(c) + Len(b) /\ j <= Len(c)
    BY <1>1, <1>3, <1>6, <1>10
  <2>2. t[j] = c[j]
    BY <1>7, <2>1
  <2>3. c[j] = s[j]
    BY <1>6, <2>1
  <2> QED
    BY <2>2, <2>3
<1>11. ASSUME NEW j \in 1..Len(s), j >= i PROVE t[j + 1] = s[j]
  <2>1. j + 1 \in 1..Len(c) + Len(b) /\ ~(j + 1 <= Len(c))
    BY <1>1, <1>3, <1>6, <1>11
  <2>2. t[j + 1] = b[(j + 1) - i]
    BY <1>6, <1>7, <2>1
  <2>3. (j + 1) - i \in 1..Len(s) - i + 1 /\ i + ((j + 1) - i) - 1 = j
    BY <1>1, <1>11
  <2> QED
    BY <1>3, <2>2, <2>3
<1> QED
  BY <1>7, <1>8, <1>9, <1>10, <1>11

\* Where the members are after a removal at position i
LEMMA RemovalFacts ==
    ASSUME NEW S, NEW s \in Seq(S), NEW i \in 1..Len(s)
    PROVE  /\ Removal(s, i) \in Seq(S)
           /\ Len(Removal(s, i)) = Len(s) - 1
           /\ \A j \in 1..Len(s) : /\ j < i => Removal(s, i)[j] = s[j]
                                   /\ j > i => Removal(s, i)[j - 1] = s[j]
<1> DEFINE a == SubSeq(s, 1, i - 1)
           b == SubSeq(s, i + 1, Len(s))
           t == a \o b
<1>1. Len(s) \in Nat /\ i \in Nat /\ i > 0 /\ i <= Len(s)
  OBVIOUS
<1>2. a \in Seq(S) /\ Len(a) = i - 1 /\ \A j \in 1..i - 1 : a[j] = s[j]
  <2>1. 1 \in 1..Len(s) + 1 /\ i - 1 \in 0..Len(s) /\ 1 <= (i - 1) + 1
    BY <1>1
  <2>2. a \in Seq(S) /\ Len(a) = (i - 1) - 1 + 1 /\ \A j \in 1..(i - 1) - 1 + 1 : a[j] = s[1 + j - 1]
    BY <2>1, PartFacts
  <2>3. (i - 1) - 1 + 1 = i - 1 /\ \A j \in Int : 1 + j - 1 = j
    BY <1>1
  <2> QED
    BY <2>2, <2>3
<1>3. b \in Seq(S) /\ Len(b) = Len(s) - i /\ \A j \in 1..Len(s) - i : b[j] = s[i + j]
  <2>1. i + 1 \in 1..Len(s) + 1 /\ Len(s) \in 0..Len(s) /\ i + 1 <= Len(s) + 1
    BY <1>1
  <2>2. /\ b \in Seq(S) /\ Len(b) = Len(s) - (i + 1) + 1
        /\ \A j \in 1..Len(s) - (i + 1) + 1 : b[j] = s[(i + 1) + j - 1]
    BY <2>1, PartFacts
  <2>3. Len(s) - (i + 1) + 1 = Len(s) - i
    BY <1>1
  <2>4. ASSUME NEW j \in 1..Len(s) - i PROVE b[j] = s[i + j]
    <3>1. b[j] = s[(i + 1) + j - 1]
      BY <2>2, <2>3
    <3>2. (i + 1) + j - 1 = i + j
      BY <1>1
    <3> QED
      BY <3>1, <3>2
  <2> QED
    BY <2>2, <2>3, <2>4
<1> HIDE DEF a, b
<1>4. /\ t \in Seq(S) /\ Len(t) = Len(a) + Len(b)
      /\ \A j \in 1..Len(a) + Len(b) : t[j] = IF j <= Len(a) THEN a[j] ELSE b[j - Len(a)]
  BY <1>2, <1>3, ConcatProperties
<1>5. Len(t) = Len(s) - 1
  BY <1>1, <1>2, <1>3, <1>4
<1>6. ASSUME NEW j \in 1..Len(s), j < i PROVE t[j] = s[j]
  BY <1>1, <1>2, <1>3, <1>4, <1>6
<1>7. ASSUME NEW j \in 1..Len(s), j > i PROVE t[j - 1] = s[j]
  <2>1. j - 1 \in 1..Len(a) + Len(b) /\ ~(j - 1 <= Len(a))
    BY <1>1, <1>2, <1>3, <1>7
  <2>2. t[j - 1] = b[(j - 1) - (i - 1)]
    BY <1>2, <1>4, <2>1
  <2>3. (j - 1) - (i - 1) \in 1..Len(s) - i /\ i + ((j - 1) - (i - 1)) = j
    BY <1>1, <1>7
  <2> QED
    BY <1>3, <2>2, <2>3
<1>8. Removal(s, i) = t
  BY DEF Removal, t, a, b
<1> HIDE DEF t
<1> QED
  BY <1>4, <1>5, <1>6, <1>7, <1>8

\* The number of entries with some property is at most the length.
LEMMA CountFits ==
    ASSUME NEW S, NEW s \in Seq(S), NEW B \in SUBSET DOMAIN s
    PROVE  Cardinality(B) \in 0..Len(s)
<1>1. Len(s) \in Nat /\ DOMAIN s = 1..Len(s)
  OBVIOUS
<1>2. IsFiniteSet(1..Len(s)) /\ Cardinality(1..Len(s)) = Len(s)
  <2>1. /\ IsFiniteSet(1..Len(s))
        /\ Cardinality(1..Len(s)) = IF 1 > Len(s) THEN 0 ELSE Len(s) - 1 + 1
    BY <1>1, FS_Interval
  <2> QED
    BY <1>1, <2>1
<1>3. IsFiniteSet(B) /\ Cardinality(B) <= Len(s)
  BY <1>1, <1>2, FS_Subset
<1>4. Cardinality(B) \in Nat
  BY <1>3, FS_CardinalityType
<1> QED
  BY <1>1, <1>3, <1>4

------------------------------------------------------------------------------
(* Induction.  A step from n to n + 1 that never leaves a set cannot skip a *)
(* number, because a one-to-one map of a finite set into itself is onto.    *)

\* Induction over the naturals, for a set
LEMMA Induction ==
    ASSUME NEW S, 0 \in S, \A n \in Nat : n \in S => n + 1 \in S
    PROVE  Nat \subseteq S
<1> SUFFICES ASSUME NEW m \in Nat, m \notin S PROVE FALSE
  OBVIOUS
<1> DEFINE A == {k \in 0..m : k \notin S}
           f == [k \in A |-> k - 1]
<1>1. IsFiniteSet(A)
  <2>1. IsFiniteSet(0..m) /\ A \in SUBSET (0..m)
    BY FS_Interval
  <2> QED
    BY <2>1, FS_Subset
<1>2. \A k \in A : k \in Nat /\ k - 1 \in A
  <2> SUFFICES ASSUME NEW k \in A PROVE k \in Nat /\ k - 1 \in A
    OBVIOUS
  <2>1. k \in Nat /\ k # 0 /\ k <= m
    OBVIOUS
  <2>2. k - 1 \in Nat /\ (k - 1) + 1 = k
    BY <2>1
  <2>3. k - 1 \notin S
    BY <2>2
  <2> QED
    BY <2>1, <2>2, <2>3
<1> HIDE DEF A
<1>3. f \in [A -> A]
  BY <1>2
<1>4. \A j, k \in A : f[j] = f[k] => j = k
  BY <1>2
<1> HIDE DEF f
<1>5. f \in Injection(A, A)
  BY <1>3, <1>4 DEF Injection, IsInjective
<1>6. f \in Surjection(A, A)
  BY <1>1, <1>5, FS_Injection
<1>7. m \in A
  BY DEF A
<1>8. PICK k \in A : f[k] = m
  BY <1>6, <1>7 DEF Surjection
<1>9. k - 1 = m /\ k \in 0..m
  BY <1>8 DEF f, A
<1> QED
  BY <1>9

\* Every nonempty set of naturals has a least member.
LEMMA LeastNumber ==
    ASSUME NEW S \in SUBSET Nat, S # {}
    PROVE  \E m \in S : \A k \in S : m <= k
<1> SUFFICES ASSUME \A m \in S : \E k \in S : k < m PROVE FALSE
  OBVIOUS
<1> DEFINE T == {n \in Nat : \A k \in S : n < k}
<1>1. 0 \in T
  OBVIOUS
<1>2. ASSUME NEW n \in Nat, n \in T PROVE n + 1 \in T
  BY <1>2
<1> HIDE DEF T
<1>3. Nat \subseteq T
  BY <1>1, <1>2, Induction
<1>4. PICK k \in S : k \in Nat
  OBVIOUS
<1> QED
  BY <1>3, <1>4 DEF T

------------------------------------------------------------------------------
(* Walks *)

\* The number of vertices is a natural number.
LEMMA VertexCount == Cardinality(Vertex) \in Nat
BY GraphAssumption, FS_CardinalityType

\* What walks consists of: a vertex, and the length of a walk to it
WalkEnds == Vertex \X Nat

\* An arc leads from such a pair to another one.
LEMMA OnwardType == ASSUME NEW p \in WalkEnds, NEW o \in Onward(p) PROVE o \in WalkEnds
<1>1. p[1] \in Vertex /\ p[2] \in Nat
  BY DEF WalkEnds
<1>2. PICK j \in 1..degree(p[1]) : o = <<Neighbors[p[1]][j].vertex, p[2] + Neighbors[p[1]][j].weight>>
  BY DEF Onward
<1>3. Neighbors[p[1]][j].vertex \in Vertex /\ p[2] + Neighbors[p[1]][j].weight \in Nat
  BY <1>1, ArcType
<1> QED
  BY <1>2, <1>3 DEF WalkEnds

\* Longer keeps a shortest walk to every end.
LEMMA LongerFacts ==
    ASSUME NEW W \in SUBSET WalkEnds
    PROVE  /\ Longer(W) \in SUBSET WalkEnds
           /\ \A p \in Longer(W) : p \in W \/ \E q \in W : p \in Onward(q)
           /\ \A p, q \in Longer(W) : p[1] = q[1] => p[2] = q[2]
           /\ \A p \in W : \E q \in Longer(W) : q[1] = p[1] /\ q[2] <= p[2]
           /\ \A p \in W : \A o \in Onward(p) : \E q \in Longer(W) : q[1] = o[1] /\ q[2] <= o[2]
<1> DEFINE all == W \cup UNION {Onward(p) : p \in W}
<1>1. all \in SUBSET WalkEnds
  BY OnwardType
<1>2. W \subseteq all /\ \A p \in W : \A o \in Onward(p) : o \in all
  OBVIOUS
<1>3. \A p \in all : p \in W \/ \E q \in W : p \in Onward(q)
  OBVIOUS
<1>4. Longer(W) = {p \in all : \A q \in all : q[1] = p[1] => p[2] <= q[2]}
  BY DEF Longer
<1> HIDE DEF all
<1>5. ASSUME NEW p \in all PROVE p[2] \in Nat
  BY <1>1, <1>5 DEF WalkEnds
<1>6. ASSUME NEW p \in all PROVE \E q \in Longer(W) : q[1] = p[1] /\ q[2] <= p[2]
  <2> DEFINE L == {k \in Nat : \E q \in all : q[1] = p[1] /\ q[2] = k}
  <2>1. p[2] \in L
    BY <1>5
  <2>2. PICK m \in L : \A k \in L : m <= k
    BY <2>1, LeastNumber
  <2>3. PICK q \in all : q[1] = p[1] /\ q[2] = m
    BY <2>2
  <2>4. \A r \in all : r[1] = q[1] => r[2] \in L
    BY <1>5, <2>3
  <2> HIDE DEF L
  <2>5. q \in Longer(W)
    BY <1>4, <2>2, <2>3, <2>4
  <2> QED
    BY <2>1, <2>2, <2>3, <2>5
<1>7. \A p, q \in Longer(W) : p[1] = q[1] => p[2] = q[2]
  BY <1>4, <1>5
<1> QED
  BY <1>1, <1>2, <1>3, <1>4, <1>6, <1>7

\* walks is what its definition says.
LEMMA WalksDef ==
    ASSUME NEW n \in 0..Cardinality(Vertex)
    PROVE  walks[n] = IF n = 0 THEN {<<source, 0>>} ELSE Longer(walks[n - 1])
<1> DEFINE Def(m, h) == [k \in 0..m |-> IF k = 0 THEN {<<source, 0>>} ELSE Longer(h[k - 1])]
           T == {m \in Nat : \E h : h = Def(m, h)}
<1>1. 0 \in T
  <2> DEFINE h == [k \in 0..0 |-> {<<source, 0>>}]
  <2>1. h = Def(0, h)
    OBVIOUS
  <2> QED
    BY <2>1
<1>2. ASSUME NEW m \in Nat, m \in T PROVE m + 1 \in T
  <2>1. PICK h : h = Def(m, h)
    BY <1>2
  <2> DEFINE e == [k \in 0..m + 1 |-> IF k = m + 1 THEN Longer(h[m]) ELSE h[k]]
  <2>2. ASSUME NEW k \in 0..m + 1
        PROVE  e[k] = IF k = 0 THEN {<<source, 0>>} ELSE Longer(e[k - 1])
    <3>1. CASE k = m + 1
      <4>1. k # 0 /\ k - 1 = m /\ m \in 0..m + 1 /\ m # m + 1
        BY <3>1
      <4> QED
        BY <3>1, <4>1
    <3>2. CASE k # m + 1
      <4>1. k \in 0..m /\ e[k] = h[k]
        BY <3>2
      <4>2. h[k] = IF k = 0 THEN {<<source, 0>>} ELSE Longer(h[k - 1])
        BY <2>1, <4>1
      <4>3. k # 0 => k - 1 \in 0..m + 1 /\ k - 1 # m + 1
        BY <4>1
      <4> QED
        BY <4>1, <4>2, <4>3
    <3> QED
      BY <3>1, <3>2
  <2>3. e = Def(m + 1, e)
    BY <2>2
  <2> HIDE DEF e
  <2>4. \E h1 : h1 = Def(m + 1, h1)
    BY <2>3
  <2> QED
    BY <2>4
<1> HIDE DEF T
<1>3. Cardinality(Vertex) \in T
  <2>1. Nat \subseteq T
    BY <1>1, <1>2, Induction
  <2> QED
    BY <2>1, GraphAssumption, FS_CardinalityType
<1>4. \E h : h = Def(Cardinality(Vertex), h)
  BY <1>3 DEF T
<1>5. walks = Def(Cardinality(Vertex), walks)
  BY <1>4 DEF walks
<1> QED
  BY <1>5
\* A walk of at most n arcs to x is no longer than c.
WalkWithin(x, n, c) == \E p \in walks[n] : p[1] = x /\ p[2] <= c

\* Walks end at vertices and have a length.
LEMMA WalksType == ASSUME NEW n \in 0..Cardinality(Vertex) PROVE walks[n] \in SUBSET WalkEnds
<1> DEFINE T == {k \in Nat : k <= Cardinality(Vertex) => walks[k] \in SUBSET WalkEnds}
<1>1. 0 \in T
  <2>1. 0 \in 0..Cardinality(Vertex)
    BY VertexCount
  <2>2. walks[0] = {<<source, 0>>}
    BY <2>1, WalksDef
  <2> QED
    BY <2>2, GraphAssumption DEF WalkEnds
<1>2. ASSUME NEW k \in Nat, k \in T PROVE k + 1 \in T
  <2> SUFFICES ASSUME k + 1 <= Cardinality(Vertex) PROVE walks[k + 1] \in SUBSET WalkEnds
    OBVIOUS
  <2>1. k + 1 \in 0..Cardinality(Vertex) /\ k + 1 # 0 /\ (k + 1) - 1 = k /\ k <= Cardinality(Vertex)
    BY VertexCount
  <2>2. walks[k + 1] = Longer(walks[k])
    BY <2>1, WalksDef
  <2>3. walks[k] \in SUBSET WalkEnds
    BY <1>2, <2>1
  <2> QED
    BY <2>2, <2>3, LongerFacts
<1> HIDE DEF T
<1>3. n \in T
  BY <1>1, <1>2, Induction
<1> QED
  BY <1>3, VertexCount DEF T

\* One arc more, or the same walk with room for one
LEMMA WalkOn ==
    ASSUME NEW n \in Nat, n < Cardinality(Vertex), NEW x \in Vertex, NEW c \in Int, WalkWithin(x, n, c)
    PROVE  /\ WalkWithin(x, n + 1, c)
           /\ \A j \in 1..degree(x) : WalkWithin(Neighbors[x][j].vertex, n + 1, c + Neighbors[x][j].weight)
<1>1. n \in 0..Cardinality(Vertex) /\ n + 1 \in 0..Cardinality(Vertex) /\ n + 1 # 0 /\ (n + 1) - 1 = n
  BY VertexCount
<1>2. walks[n] \in SUBSET WalkEnds /\ walks[n + 1] = Longer(walks[n])
  BY <1>1, WalksType, WalksDef
<1>3. PICK p \in walks[n] : p[1] = x /\ p[2] <= c
  BY DEF WalkWithin
<1>4. p[2] \in Nat
  BY <1>2 DEF WalkEnds
<1>5. WalkWithin(x, n + 1, c)
  <2>1. PICK q \in walks[n + 1] : q[1] = p[1] /\ q[2] <= p[2]
    BY <1>2, LongerFacts
  <2>2. q[2] \in Nat
    BY <1>1, WalksType DEF WalkEnds
  <2> QED
    BY <1>3, <1>4, <2>1, <2>2 DEF WalkWithin
<1>6. ASSUME NEW j \in 1..degree(x)
      PROVE  WalkWithin(Neighbors[x][j].vertex, n + 1, c + Neighbors[x][j].weight)
  <2> DEFINE o == <<Neighbors[x][j].vertex, p[2] + Neighbors[x][j].weight>>
  <2>1. o \in Onward(p)
    BY <1>3 DEF Onward
  <2>2. PICK q \in walks[n + 1] : q[1] = o[1] /\ q[2] <= o[2]
    BY <1>2, <2>1, LongerFacts
  <2>3. q[2] \in Nat /\ Neighbors[x][j].weight \in Nat
    BY <1>1, WalksType, ArcType DEF WalkEnds
  <2>4. q[1] = Neighbors[x][j].vertex /\ q[2] <= p[2] + Neighbors[x][j].weight
    BY <2>2
  <2>5. q[2] <= c + Neighbors[x][j].weight
    BY <1>3, <1>4, <2>3, <2>4
  <2> QED
    BY <2>2, <2>4, <2>5 DEF WalkWithin
<1> QED
  BY <1>5, <1>6

\* A walk stays a walk when more arcs are allowed.
LEMMA WalkLonger ==
    ASSUME NEW n \in Nat, NEW m \in Nat, n <= m, m <= Cardinality(Vertex),
           NEW x \in Vertex, NEW c \in Int, WalkWithin(x, n, c)
    PROVE  WalkWithin(x, m, c)
<1> DEFINE T == {k \in Nat : n + k <= Cardinality(Vertex) => WalkWithin(x, n + k, c)}
<1>1. 0 \in T
  OBVIOUS
<1>2. ASSUME NEW k \in Nat, k \in T PROVE k + 1 \in T
  <2> SUFFICES ASSUME n + (k + 1) <= Cardinality(Vertex) PROVE WalkWithin(x, n + (k + 1), c)
    OBVIOUS
  <2>1. n + k \in Nat /\ n + k < Cardinality(Vertex) /\ n + (k + 1) = (n + k) + 1
    BY VertexCount
  <2>2. WalkWithin(x, n + k, c)
    BY <1>2, <2>1, VertexCount
  <2> QED
    BY <2>1, <2>2, WalkOn
<1> HIDE DEF T
<1>3. m - n \in T /\ n + (m - n) = m
  BY <1>1, <1>2, Induction
<1> QED
  BY <1>3, VertexCount DEF T

\* A lower bound on distances: 0 at the source, and over an arc it grows by no
\* more than the weight.
LowerBound(b) ==
    /\ b \in [Vertex -> Int]
    /\ b[source] <= 0
    /\ \A u \in Vertex : \A j \in 1..degree(u) :
          b[Neighbors[u][j].vertex] <= b[u] + Neighbors[u][j].weight

\* No walk is shorter than such a bound says.
LEMMA WalkAbove ==
    ASSUME NEW b, LowerBound(b), NEW n \in 0..Cardinality(Vertex), NEW p \in walks[n]
    PROVE  b[p[1]] <= p[2]
<1> DEFINE T == {k \in Nat : k <= Cardinality(Vertex) => \A q \in walks[k] : b[q[1]] <= q[2]}
<1>1. 0 \in T
  <2>1. 0 \in 0..Cardinality(Vertex)
    BY VertexCount
  <2>2. walks[0] = {<<source, 0>>}
    BY <2>1, WalksDef
  <2> QED
    BY <2>2 DEF LowerBound
<1>2. ASSUME NEW k \in Nat, k \in T PROVE k + 1 \in T
  <2> SUFFICES ASSUME k + 1 <= Cardinality(Vertex), NEW q \in walks[k + 1] PROVE b[q[1]] <= q[2]
    OBVIOUS
  <2>1. /\ k + 1 \in 0..Cardinality(Vertex) /\ k + 1 # 0 /\ (k + 1) - 1 = k
        /\ k \in 0..Cardinality(Vertex) /\ k <= Cardinality(Vertex)
    BY VertexCount
  <2>2. walks[k + 1] = Longer(walks[k]) /\ walks[k] \in SUBSET WalkEnds
    BY <2>1, WalksDef, WalksType
  <2>3. \A r \in walks[k] : b[r[1]] <= r[2]
    BY <1>2, <2>1
  <2>4. q \in walks[k] \/ \E r \in walks[k] : q \in Onward(r)
    BY <2>2, LongerFacts
  <2>5. ASSUME NEW r \in walks[k], q \in Onward(r) PROVE b[q[1]] <= q[2]
    <3>1. r[1] \in Vertex /\ r[2] \in Nat
      BY <2>2 DEF WalkEnds
    <3>2. PICK j \in 1..degree(r[1]) :
             q = <<Neighbors[r[1]][j].vertex, r[2] + Neighbors[r[1]][j].weight>>
      BY <2>5 DEF Onward
    <3>3. Neighbors[r[1]][j].vertex \in Vertex /\ Neighbors[r[1]][j].weight \in Nat
      BY <3>1, ArcType
    <3>4. /\ b[r[1]] \in Int /\ b[Neighbors[r[1]][j].vertex] \in Int
          /\ b[Neighbors[r[1]][j].vertex] <= b[r[1]] + Neighbors[r[1]][j].weight
      BY <3>1, <3>3 DEF LowerBound
    <3>5. b[r[1]] <= r[2]
      BY <2>3
    <3>6. q[1] = Neighbors[r[1]][j].vertex /\ q[2] = r[2] + Neighbors[r[1]][j].weight
      BY <3>2
    <3> QED
      BY <3>1, <3>3, <3>4, <3>5, <3>6
  <2> QED
    BY <2>3, <2>4, <2>5
<1> HIDE DEF T
<1>3. n \in T
  BY <1>1, <1>2, Induction
<1> QED
  BY <1>3, VertexCount DEF T

\* A distance that some walk justifies and some bound excludes to be less is the
\* shortest.
LEMMA ShortestIs ==
    ASSUME NEW x \in Vertex, NEW n \in 0..Cardinality(Vertex), NEW c \in Int, WalkWithin(x, n, c),
           NEW b, LowerBound(b), c <= b[x]
    PROVE  Shortest[x] = c
<1> DEFINE N == Cardinality(Vertex)
<1>1. N \in Nat /\ N \in 0..N /\ n \in Nat /\ n <= N
  BY VertexCount
<1>2. PICK p \in walks[N] : p[1] = x /\ p[2] <= c
  BY <1>1, WalkLonger DEF WalkWithin
<1>3. \A q \in walks[N] : q[1] = x => q[2] \in Nat /\ b[x] \in Int /\ b[x] <= q[2]
  BY <1>1, WalkAbove, WalksType DEF WalkEnds, LowerBound
<1>4. p[2] = c
  BY <1>2, <1>3
<1>5. \A q \in walks[N] : q[1] = x => q[2] = c
  <2>1. CASE N = 0
    <3>1. walks[N] = {<<source, 0>>}
      BY <1>1, <2>1, WalksDef
    <3> QED
      BY <1>2, <1>4, <3>1
  <2>2. CASE N # 0
    <3>1. N - 1 \in 0..N /\ walks[N] = Longer(walks[N - 1])
      BY <1>1, <2>2, WalksDef
    <3>2. walks[N - 1] \in SUBSET WalkEnds
      BY <3>1, WalksType
    <3> QED
      BY <1>2, <1>4, <3>1, <3>2, LongerFacts
  <2> QED
    BY <2>1, <2>2
<1>6. (CHOOSE q \in walks[N] : q[1] = x) \in walks[N] /\ (CHOOSE q \in walks[N] : q[1] = x)[1] = x
  BY <1>2
<1> QED
  BY <1>2, <1>5, <1>6 DEF Shortest, Walks

\* The source is a walk of no arcs.
LEMMA WalkStart == WalkWithin(source, 0, 0)
<1>1. walks[0] = {<<source, 0>>}
  BY VertexCount, WalksDef
<1> QED
  BY <1>1 DEF WalkWithin

------------------------------------------------------------------------------
(* The tree of predecessors *)

\* The vertex x was reached over an arc from its predecessor, which is expanded,
\* and g of the predecessor plus that arc is at most g of x.
TreeArcOf(g, E, x) ==
    /\ g[x].pred \in Vertex
    /\ E[g[x].pred]
    /\ \E i \in 1..degree(g[x].pred) :
          /\ Neighbors[g[x].pred][i].vertex = x
          /\ g[g[x].pred].distance + Neighbors[g[x].pred][i].weight <= g[x].distance

\* No set of reached vertices other than the source is closed under predecessors.
RootedOf(g) ==
    \A S \in SUBSET (Vertex \ {source}) :
       S # {} /\ (\A x \in S : g[x].distance # IntMax) => \E x \in S : g[x].pred \notin S

\* The vertpacks g of a search that expanded the vertices marked in E form a tree.
\* RootedOf is preserved only together with the rest: the arcs bound g along
\* the tree, which is what rules out closing a cycle.
TreeOf(g, E) ==
    /\ g \in [Vertex -> [distance : 0..IntMax, pred : Vertex \cup {NoVertex}]]
    /\ E \in [Vertex -> BOOLEAN]
    /\ g[source] = [distance |-> 0, pred |-> source]
    /\ \A x \in Vertex \ {source} : g[x].distance # IntMax => TreeArcOf(g, E, x)
    /\ \A x \in Vertex : E[x] => g[x].distance # IntMax
    /\ RootedOf(g)

\* At the start only the source is reached.
LEMMA TreeInit == TreeOf(InitGpred, [x \in Vertex |-> FALSE])
<1> DEFINE g == InitGpred
           E == [x \in Vertex |-> FALSE]
<1>1. source \in Vertex /\ IntMax \in Nat
  BY GraphAssumption
<1>2. g \in [Vertex -> [distance : 0..IntMax, pred : Vertex \cup {NoVertex}]]
  BY <1>1 DEF InitGpred
<1>3. \A x \in Vertex \ {source} : g[x].distance = IntMax
  BY DEF InitGpred
<1>4. g[source] = [distance |-> 0, pred |-> source]
  BY <1>1 DEF InitGpred
<1>5. RootedOf(g)
  BY <1>3 DEF RootedOf
<1>6. E \in [Vertex -> BOOLEAN] /\ \A x \in Vertex : ~E[x]
  OBVIOUS
<1> HIDE DEF g, E
<1>7. TreeOf(g, E)
  BY <1>2, <1>3, <1>4, <1>5, <1>6 DEF TreeOf
<1> QED
  BY <1>7 DEF g, E

\* Claiming an expansion leaves every vertpack alone.
LEMMA TreeExpand ==
    ASSUME NEW g, NEW E, TreeOf(g, E), NEW y \in Vertex, g[y].distance # IntMax
    PROVE  TreeOf(g, [E EXCEPT ![y] = TRUE])
<1> DEFINE E1 == [E EXCEPT ![y] = TRUE]
<1>1. E1 \in [Vertex -> BOOLEAN] /\ \A x \in Vertex : E1[x] <=> E[x] \/ x = y
  BY DEF TreeOf
<1> HIDE DEF E1
<1>2. \A x \in Vertex \ {source} : g[x].distance # IntMax => TreeArcOf(g, E1, x)
  BY <1>1 DEF TreeOf, TreeArcOf
<1>3. TreeOf(g, E1)
  BY <1>1, <1>2 DEF TreeOf
<1> QED
  BY <1>3 DEF E1

\* A relaxation re-hangs one vertex, below a vertex of smaller g.
LEMMA TreeRelax ==
    ASSUME NEW g, NEW E, TreeOf(g, E), NEW u \in Vertex, NEW i \in 1..degree(u), NEW d \in 0..IntMax - 1,
           E[u], g[u].distance + Neighbors[u][i].weight <= d, d < g[Neighbors[u][i].vertex].distance
    PROVE  TreeOf([g EXCEPT ![Neighbors[u][i].vertex] = [distance |-> d, pred |-> u]], E)
<1> DEFINE y  == Neighbors[u][i].vertex
           wt == Neighbors[u][i].weight
           g1 == [g EXCEPT ![y] = [distance |-> d, pred |-> u]]
<1>a. y \in Vertex /\ wt \in Nat /\ IntMax \in Nat /\ source \in Vertex /\ NoVertex \notin Vertex
  BY ArcType, GraphAssumption
<1>b. g[u].distance + wt <= d /\ d < g[y].distance
  OBVIOUS
<1>c. /\ g \in [Vertex -> [distance : 0..IntMax, pred : Vertex \cup {NoVertex}]]
      /\ \A x \in Vertex : g[x].distance \in 0..IntMax
      /\ \A x \in Vertex : g[x].pred \in Vertex \cup {NoVertex}
      /\ g[source] = [distance |-> 0, pred |-> source]
  BY DEF TreeOf
<1>d. g1 \in [Vertex -> [distance : 0..IntMax, pred : Vertex \cup {NoVertex}]]
  BY <1>a, <1>c
<1>e. /\ g1[y] = [distance |-> d, pred |-> u]
      /\ \A x \in Vertex \ {y} : g1[x] = g[x]
  BY <1>a, <1>c
<1> HIDE DEF y, wt, g1
<1>f. \A x \in Vertex : g1[x].distance \in 0..IntMax /\ g1[x].distance <= g[x].distance
  BY <1>a, <1>b, <1>c, <1>e
<1>g. y # source
  BY <1>a, <1>b, <1>c
<1>h. g[u].distance < g[y].distance /\ u # y
  BY <1>a, <1>b, <1>c
<1>1. g1[source] = [distance |-> 0, pred |-> source]
  BY <1>a, <1>c, <1>e, <1>g
<1>2. ASSUME NEW x \in Vertex \ {source}, g1[x].distance # IntMax PROVE TreeArcOf(g1, E, x)
  <2>1. CASE x = y
    <3>1. g1[x].pred = u /\ g1[x].distance = d /\ g1[u] = g[u]
      BY <1>e, <1>h, <2>1
    <3>2. Neighbors[u][i].vertex = x /\ g1[u].distance + Neighbors[u][i].weight <= d
      BY <1>b, <2>1, <3>1 DEF y, wt
    <3> QED
      BY <3>1, <3>2 DEF TreeArcOf
  <2>2. CASE x # y
    <3>1. g1[x] = g[x] /\ TreeArcOf(g, E, x)
      BY <1>2, <1>e, <2>2 DEF TreeOf
    <3>2. PICK j \in 1..degree(g[x].pred) :
             /\ Neighbors[g[x].pred][j].vertex = x
             /\ g[g[x].pred].distance + Neighbors[g[x].pred][j].weight <= g[x].distance
      BY <3>1 DEF TreeArcOf
    <3>3. g[x].pred \in Vertex /\ E[g[x].pred]
      BY <3>1 DEF TreeArcOf
    <3>4. Neighbors[g[x].pred][j].weight \in Nat
      BY <3>3, ArcType
    <3>5. g1[g[x].pred].distance + Neighbors[g[x].pred][j].weight <= g[x].distance
      BY <1>a, <1>c, <1>f, <3>2, <3>3, <3>4
    <3> QED
      BY <3>1, <3>2, <3>3, <3>5 DEF TreeArcOf
  <2> QED
    BY <2>1, <2>2
<1>3. ASSUME NEW x \in Vertex, E[x] PROVE g1[x].distance # IntMax
  <2>1. g[x].distance # IntMax
    BY <1>3 DEF TreeOf
  <2>2. g1[x].distance <= g[x].distance /\ g1[x].distance \in 0..IntMax /\ g[x].distance \in 0..IntMax
    BY <1>c, <1>f
  <2> QED
    BY <1>a, <2>1, <2>2
<1>4. RootedOf(g1)
  <2> SUFFICES ASSUME NEW S \in SUBSET (Vertex \ {source}), S # {},
                      \A x \in S : g1[x].distance # IntMax,
                      \A x \in S : g1[x].pred \in S
               PROVE  FALSE
    BY DEF RootedOf
  <2>1. CASE y \notin S
    <3>1. \A x \in S : g1[x] = g[x]
      BY <1>e, <2>1
    <3>2. \E x \in S : g[x].pred \notin S
      BY <3>1 DEF TreeOf, RootedOf
    <3> QED
      BY <3>1, <3>2
  <2>2. CASE y \in S
    \* The members of S that y was, before the step, farther away than.
    <3> DEFINE T == {x \in S : g[x].distance < g[y].distance}
    <3>1. u \in T
      BY <1>e, <1>h, <2>2
    <3>2. T \in SUBSET (Vertex \ {source}) /\ T # {}
      BY <3>1
    <3>3. \A x \in T : g[x].distance # IntMax
      BY <1>a, <1>c
    <3>4. PICK x \in T : g[x].pred \notin T
      BY <3>2, <3>3 DEF TreeOf, RootedOf
    <3>5. x # y /\ x \in Vertex \ {source}
      BY <1>a, <1>c
    <3>6. g[x].pred \in S
      BY <1>e, <3>5
    <3>7. g[g[x].pred].distance <= g[x].distance
      <4>1. TreeArcOf(g, E, x)
        BY <3>3, <3>5 DEF TreeOf
      <4>2. PICK j \in 1..degree(g[x].pred) :
               g[g[x].pred].distance + Neighbors[g[x].pred][j].weight <= g[x].distance
        BY <4>1 DEF TreeArcOf
      <4>3. g[x].pred \in Vertex
        BY <4>1 DEF TreeArcOf
      <4>4. Neighbors[g[x].pred][j].weight \in Nat
        BY <4>3, ArcType
      <4> QED
        BY <1>a, <1>c, <3>5, <4>2, <4>3, <4>4
    <3>8. g[x].pred \in T
      <4>1. g[x].distance < g[y].distance /\ g[x].pred \in Vertex
        BY <3>6
      <4> QED
        BY <1>a, <1>c, <3>5, <3>6, <3>7, <4>1
    <3> QED
      BY <3>4, <3>8
  <2> QED
    BY <2>1, <2>2
<1>5. TreeOf(g1, E)
  <2>1. E \in [Vertex -> BOOLEAN]
    BY DEF TreeOf
  <2> QED
    BY <1>d, <1>1, <1>2, <1>3, <1>4, <2>1 DEF TreeOf
<1> QED
  BY <1>5 DEF g1, y

==============================================================================
