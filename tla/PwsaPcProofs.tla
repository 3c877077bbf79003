----------------------------- MODULE PwsaPcProofs -----------------------------
(***************************************************************************)
(* pwsa_pc implements SearchTree for every graph whose distances fit into  *)
(* an int, every number of workers and every choice of the cutoffs; hence  *)
(* its predecessors always lead to the source, and the path they make is   *)
(* no longer than its g says.  It does no work twice and forgets no        *)
(* vertex; the latter holds for the simple variant pwsa too.               *)
(***************************************************************************)
EXTENDS PwsaSimple, ParallelWhileProofs, SearchGraphProofs

Relaxing(w) == pc[w] \in {"relax", "cas", "insert"}

Expanded == {x \in Vertex : is_expanded[x]}

\* Each expansion adds at most one arc to the longest distance.
Budget ==
    \A x \in Vertex :
       /\ gpred[x].distance \in Nat
       /\ gpred[x].distance # IntMax => gpred[x].distance <= MaxWeight * Cardinality(Expanded)
       /\ is_expanded[x] => gpred[x].distance <= MaxWeight * (Cardinality(Expanded) - 1)

\* An expander works on a vertex that is marked as expanded.
ExpanderMarked(w) == Expanding(w) => is_expanded[v[w]]

\* The distance an expander works with is a former g of its vertex.
StaleFromAbove(w) ==
    Relaxing(w) => /\ gpred[v[w]].distance <= vdistance[w]
                   /\ vdistance[w] <= MaxWeight * (Cardinality(Expanded) - 1)

\* A worker about to exchange has seen a worse vertpack.
SeenWorse(w) == pc[w] = "cas" => mine(w).distance < gpred_nbr[w].distance

\* Whatever is queued, or was taken to be claimed, is reached.
QueuedReached(w) ==
    /\ \A e \in Held(w) : gpred[e.vertex].distance # IntMax
    /\ pc[w] = "claim" => gpred[v[w]].distance # IntMax
    /\ pc[w] = "insert" => gpred[nbr(w)].distance # IntMax

WorkerInv(w) ==
    /\ ExpanderMarked(w)
    /\ StaleFromAbove(w)
    /\ SeenWorse(w)
    /\ QueuedReached(w)

\* NoOverflow and the implementation of SearchTree rest on this invariant.
IInv ==
    /\ TypeOK
    /\ Budget
    /\ \A w \in Worker : WorkerInv(w)

------------------------------------------------------------------------------
(* Type correctness *)

\* The initial state has the types the declarations state.
LEMMA InitTypeOK == Init => TypeOK
<1> SUFFICES ASSUME Init PROVE TypeOK
  OBVIOUS
<1>1. Heuristic[source] \in Int /\ source \in Vertex /\ IntMax \in Int
  BY GraphAssumption
<1>2. {[f |-> Heuristic[source], vertex |-> source]} \in SUBSET Entry
  BY <1>1 DEF Entry
<1> DEFINE input == {[f |-> Heuristic[source], vertex |-> source]}
<1>3. PInit(input) => PTypeOK(Entry, ProtocolPc \cup WorkPc)
  <2> HIDE DEF input
  <2>1. input \in SUBSET Entry
    BY <1>2 DEF input
  <2> SUFFICES ASSUME PInit(input) PROVE PTypeOK(Entry, ProtocolPc \cup WorkPc)
    OBVIOUS
  <2>2. my_frontier \in [Worker -> SUBSET Entry] /\ frontiers \in [Worker -> SUBSET Entry]
    BY <2>1 DEF PInit
  <2>3. steps_since_load_balancing \in [Worker -> 0..StepsBound]
    BY WorkerAssumption DEF PInit, StepsBound
  <2>4. pc \in [Worker -> ProtocolPc \cup WorkPc]
    BY DEF PInit, ProtocolPc
  <2>5. /\ requests \in [Worker -> Worker \cup {Waiting, Blocked}]
        /\ other \in [Worker -> Worker]
        /\ answers \in [Worker -> Answer]
        /\ is_done \in BOOLEAN
    BY WorkerAssumption DEF PInit
  <2> QED
    BY <2>2, <2>3, <2>4, <2>5 DEF PTypeOK
<1>4. PTypeOK(Entry, ProtocolPc \cup WorkPc)
  BY <1>3 DEF Init
<1>5. /\ Unreached \in VertPack
      /\ [distance |-> 0, pred |-> source] \in VertPack
  BY <1>1 DEF VertPack, Unreached
<1>6. gpred \in [Vertex -> VertPack]
  BY <1>5 DEF Init, InitGpred, Unreached
<1>7. \A w \in Worker : pc[w] \notin {"relax", "cas", "insert"}
  BY DEF Init, PInit
<1> QED
  BY <1>1, <1>4, <1>5, <1>6, <1>7, PollAssumption DEF Init, TypeOK

\* The protocol does not touch workers inside the body, and only moves entries
\* between frontiers and mailboxes.
LEMMA ProtocolFrame ==
    ASSUME TypeOK, NEW w \in Worker, ProtocolStep(w)
    PROVE  /\ \A u \in Worker : pc'[u] \in WorkPc => pc'[u] = pc[u]
           /\ \A u \in Worker : \A e \in Held(u)' : \E x \in Worker : e \in Held(x)
<1> DEFINE Q == /\ \A u \in Worker : pc'[u] \in WorkPc => pc'[u] = pc[u]
                /\ \A u \in Worker : \A e \in Held(u)' : \E x \in Worker : e \in Held(x)
<1>a. pc \in [Worker -> ProtocolPc \cup WorkPc]
  BY DEF TypeOK, PTypeOK
<1>b. ASSUME NEW l \in ProtocolPc, Goto(w, l)
      PROVE  \A u \in Worker : pc'[u] \in WorkPc => pc'[u] = pc[u]
  BY <1>a, <1>b DEF Goto, ProtocolPc, WorkPc
<1>c. ASSUME UNCHANGED <<my_frontier, frontiers>>
      PROVE  \A u \in Worker : \A e \in Held(u)' : \E x \in Worker : e \in Held(x)
  BY <1>c DEF Held
<1>1. CASE Fork(w)
  <2>1. PICK T \in SplitParts(my_frontier[w]) :
           /\ my_frontier' = [my_frontier EXCEPT ![w] = @ \ T]
           /\ frontiers' = [frontiers EXCEPT ![other[w]] = IF T = {} THEN @ ELSE T]
    BY <1>1 DEF Fork
  <2>2. T \subseteq my_frontier[w]
    BY SplitSubset
  <2>3. \A u \in Worker : my_frontier'[u] \subseteq my_frontier[u]
    BY <2>1 DEF TypeOK, PTypeOK
  <2>4. \A u \in Worker : frontiers'[u] \subseteq frontiers[u] \cup my_frontier[w]
    BY <2>1, <2>2 DEF TypeOK, PTypeOK
  <2>5. \A u \in Worker : \A e \in Held(u)' : \E x \in Worker : e \in Held(x)
    BY <2>3, <2>4 DEF Held
  <2>6. Goto(w, "ansT") /\ "ansT" \in ProtocolPc
    BY <1>1 DEF Fork, ProtocolPc
  <2> QED
    BY <1>b, <2>5, <2>6
<1>2. CASE Take(w)
  <2>1. \A u \in Worker : Held(u)' = Held(u)
    BY <1>2 DEF Take, Held, TypeOK, PTypeOK
  <2>2. Goto(w, "respond") /\ "respond" \in ProtocolPc
    BY <1>2 DEF Take, ProtocolPc
  <2> QED
    BY <1>b, <2>1, <2>2
<1>3. CASE Start(w) \/ Loop(w) \/ Block(w) \/ BlockCas(w) \/ RejectStore(w)
           \/ RejectAnswer(w) \/ Ask(w) \/ Probe(w) \/ AskCas(w)
  <2>1. UNCHANGED <<my_frontier, frontiers>> /\ \E l \in ProtocolPc : Goto(w, l)
    BY <1>3 DEF Start, Loop, Block, BlockCas, RejectStore, RejectAnswer, Ask,
       Probe, AskCas, wvars, cvars, ProtocolPc
  <2> QED
    BY <1>b, <1>c, <2>1
<1>4. CASE Wait(w) \/ WaitDone(w) \/ Got(w) \/ Respond(w)
           \/ AnswerTransferred(w) \/ AnswerRejected(w) \/ Reopen(w) \/ Found(w)
  <2>1. UNCHANGED <<my_frontier, frontiers>> /\ \E l \in ProtocolPc : Goto(w, l)
    BY <1>4 DEF Wait, WaitDone, Got, Respond, AnswerTransferred,
       AnswerRejected, Reopen, Found, wvars, cvars, ProtocolPc
  <2> QED
    BY <1>b, <1>c, <2>1
<1> QED
  BY <1>1, <1>2, <1>3, <1>4 DEF ProtocolStep

\* Type correctness is preserved by the protocol, which leaves the search
\* alone.
LEMMA ProtocolTypeOK ==
    ASSUME TypeOK, NEW w \in Worker, ProtocolStep(w), UNCHANGED <<svars, lvars>>
    PROVE  TypeOK'
<1>1. PTypeOK(Entry, ProtocolPc \cup WorkPc)'
  BY ProtocolPTypeOK DEF TypeOK
<1>2. \A u \in Worker : Relaxing(u)' => Relaxing(u)
  BY ProtocolFrame DEF Relaxing, WorkPc
<1> QED
  BY <1>1, <1>2 DEF TypeOK, svars, lvars, Relaxing

\* Each part of the body keeps the types.
LEMMA EndRoundTypeOK ==
    ASSUME TypeOK, NEW w \in Worker, EndRound(w)
    PROVE  TypeOK'
BY WorkerAssumption, PollAssumption
   DEF TypeOK, PTypeOK, EndRound, Goto, cvars, svars, ProtocolPc, StepsBound

\* delete_min leaves a smaller frontier and yields a vertex.
LEMMA PopTypeOK ==
    ASSUME TypeOK, NEW w \in Worker, Pop(w)
    PROVE  TypeOK'
<1>1. PICK e \in MinEntries(my_frontier[w]) :
         /\ my_frontier' = [my_frontier EXCEPT ![w] = @ \ {e}]
         /\ v' = [v EXCEPT ![w] = e.vertex]
         /\ Goto(w, IF is_expanded[e.vertex] THEN "body" ELSE "claim")
  BY DEF Pop
<1>2. e \in Entry /\ e.vertex \in Vertex
  BY DEF MinEntries, TypeOK, PTypeOK, Entry
<1>3. /\ pc' \in [Worker -> ProtocolPc \cup WorkPc]
      /\ pc'[w] \in {"body", "claim"}
      /\ \A u \in Worker \ {w} : pc'[u] = pc[u]
  BY <1>1 DEF TypeOK, PTypeOK, Goto, ProtocolPc, WorkPc
<1>4. my_frontier' \in [Worker -> SUBSET Entry]
  BY <1>1 DEF TypeOK, PTypeOK
<1>5. PTypeOK(Entry, ProtocolPc \cup WorkPc)'
  BY <1>3, <1>4 DEF Pop, TypeOK, PTypeOK, cvars
<1>6. steps_this_round' \in [Worker -> 0..PollCutoff]
  BY PollAssumption DEF Pop, TypeOK
<1>7. v' \in [Worker -> Vertex] /\ \A u \in Worker \ {w} : v'[u] = v[u]
  BY <1>1, <1>2 DEF TypeOK
<1> QED
  BY <1>3, <1>5, <1>6, <1>7 DEF Pop, TypeOK, svars

\* The claim sets one flag.
LEMMA ClaimTypeOK ==
    ASSUME TypeOK, NEW w \in Worker, Claim(w)
    PROVE  TypeOK'
<1>1. \E l \in {"body", "found", "dist"} : Goto(w, l)
  BY DEF Claim
<1>2. /\ pc' \in [Worker -> ProtocolPc \cup WorkPc]
      /\ pc'[w] \notin {"relax", "cas", "insert"}
      /\ \A u \in Worker \ {w} : pc'[u] = pc[u]
  BY <1>1 DEF TypeOK, PTypeOK, Goto, ProtocolPc, WorkPc
<1>3. is_expanded' \in [Vertex -> BOOLEAN]
  BY DEF Claim, TypeOK
<1>4. PTypeOK(Entry, ProtocolPc \cup WorkPc)'
  BY <1>2 DEF Claim, TypeOK, PTypeOK, wvars, cvars
<1> QED
  BY <1>2, <1>3, <1>4 DEF Claim, TypeOK, lvars

\* The walk over the arcs stays inside the list of arcs.
LEMMA ArcOrEndType ==
    ASSUME TypeOK, NEW w \in Worker, NEW j \in Nat \ {0}, ArcOrEnd(w, j), v' = v
    PROVE  /\ pc' \in [Worker -> ProtocolPc \cup WorkPc]
           /\ pc'[w] \in {"relax", "body"}
           /\ \A u \in Worker \ {w} : pc'[u] = pc[u]
           /\ arc' \in [Worker -> Nat]
           /\ vdistance' \in [Worker -> Int]
           /\ \A u \in Worker : Relaxing(u)' => arc'[u] \in 1..degree(v[u])
<1>1. degree(v[w]) \in Nat
  BY DegreeType DEF TypeOK
<1>2. CASE j <= degree(v[w])
  BY <1>1, <1>2 DEF ArcOrEnd, TypeOK, PTypeOK, Goto, WorkPc, Relaxing
<1>3. CASE ~(j <= degree(v[w]))
  BY <1>1, <1>3 DEF ArcOrEnd, TypeOK, PTypeOK, Goto, ProtocolPc, Relaxing
<1> QED
  BY <1>2, <1>3

\* The expander starts at the first arc of a vertex that has one.
LEMMA ReadDistanceTypeOK ==
    ASSUME TypeOK, NEW w \in Worker, ReadDistance(w)
    PROVE  TypeOK'
<1>1. degree(v[w]) \in Nat /\ gpred[v[w]].distance \in Int
  BY DegreeType DEF TypeOK, VertPack
<1>2. PTypeOK(Entry, ProtocolPc \cup WorkPc)'
  BY DEF ReadDistance, TypeOK, PTypeOK, Goto, wvars, cvars, ProtocolPc, WorkPc
<1>3. vdistance' \in [Worker -> Int] /\ arc' \in [Worker -> Nat]
  BY <1>1 DEF ReadDistance, TypeOK
<1>4. \A u \in Worker : Relaxing(u)' => arc'[u] \in 1..degree(v'[u])
  BY <1>1 DEF ReadDistance, TypeOK, PTypeOK, Goto, Relaxing
<1> QED
  BY <1>2, <1>3, <1>4 DEF ReadDistance, TypeOK, svars, Relaxing

\* Loading a vertpack, or moving on to an arc that exists.
LEMMA LoadTypeOK ==
    ASSUME TypeOK, NEW w \in Worker, Load(w)
    PROVE  TypeOK'
<1>1. pc[w] = "relax" /\ arc[w] \in 1..degree(v[w]) /\ v[w] \in Vertex
  BY DEF Load, TypeOK
<1>2. nbr(w) \in Vertex /\ degree(v[w]) \in Nat
  BY <1>1, ArcType, DegreeType DEF nbr
<1>3. CASE mine(w).distance < gpred[nbr(w)].distance
  <2>1. PTypeOK(Entry, ProtocolPc \cup WorkPc)'
    BY <1>3 DEF Load, TypeOK, PTypeOK, Goto, wvars, cvars, WorkPc
  <2>2. gpred_nbr' \in [Worker -> VertPack]
    BY <1>2, <1>3 DEF Load, TypeOK
  <2>3. \A u \in Worker : Relaxing(u)' => Relaxing(u)
    BY <1>1, <1>3 DEF Load, Goto, Relaxing, TypeOK, PTypeOK
  <2> QED
    BY <1>3, <2>1, <2>2, <2>3 DEF Load, TypeOK, svars, Relaxing
<1>4. CASE ~(mine(w).distance < gpred[nbr(w)].distance)
  <2>1. ArcOrEnd(w, arc[w] + 1) /\ gpred_nbr' = gpred_nbr /\ v' = v
    BY <1>4 DEF Load
  <2>2. arc[w] + 1 \in Nat \ {0}
    BY <1>1, <1>2
  <2>3. /\ pc' \in [Worker -> ProtocolPc \cup WorkPc]
        /\ arc' \in [Worker -> Nat]
        /\ vdistance' \in [Worker -> Int]
        /\ \A u \in Worker : Relaxing(u)' => arc'[u] \in 1..degree(v[u])
    BY <2>1, <2>2, ArcOrEndType
  <2> QED
    BY <2>1, <2>3 DEF Load, TypeOK, PTypeOK, wvars, cvars, svars, Relaxing
<1> QED
  BY <1>3, <1>4

\* The vertpack a worker offers is well-typed.
LEMMA MineType ==
    ASSUME TypeOK, NEW w \in Worker, Relaxing(w)
    PROVE  nbr(w) \in Vertex /\ mine(w) \in VertPack
<1>1. arc[w] \in 1..degree(v[w]) /\ v[w] \in Vertex /\ vdistance[w] \in Int
  BY DEF TypeOK, Relaxing
<1>2. /\ Neighbors[v[w]][arc[w]].vertex \in Vertex
      /\ Neighbors[v[w]][arc[w]].weight \in Int
  BY <1>1, ArcType
<1>3. Plus(vdistance[w], Neighbors[v[w]][arc[w]].weight) \in Int
  BY <1>1, <1>2, PlusType
<1> QED
  BY <1>1, <1>2, <1>3 DEF nbr, mine, VertPack

\* The exchange stores a vertpack with a predecessor in the graph.
LEMMA CasTypeOK ==
    ASSUME TypeOK, NEW w \in Worker, Cas(w)
    PROVE  TypeOK'
<1>1. Relaxing(w) /\ nbr(w) \in Vertex /\ mine(w) \in VertPack
  BY MineType DEF Cas, Relaxing
<1>2. Unreached \in VertPack
  BY GraphAssumption DEF Unreached, VertPack
<1>3. gpred' \in [Vertex -> VertPack] /\ gpred_nbr' \in [Worker -> VertPack]
  BY <1>1, <1>2 DEF Cas, TypeOK
<1>4. PTypeOK(Entry, ProtocolPc \cup WorkPc)'
  BY DEF Cas, TypeOK, PTypeOK, Goto, wvars, cvars, WorkPc
<1>5. \A u \in Worker : Relaxing(u)' => Relaxing(u)
  BY DEF Cas, TypeOK, PTypeOK, Goto, Relaxing
<1> QED
  BY <1>3, <1>4, <1>5 DEF Cas, TypeOK, Relaxing

\* A frontier grows by an entry of the arc's head.
LEMMA InsertTypeOK ==
    ASSUME TypeOK, NEW w \in Worker, Insert(w)
    PROVE  TypeOK'
<1>1. Relaxing(w) /\ nbr(w) \in Vertex /\ mine(w) \in VertPack
  BY MineType DEF Insert, Relaxing
<1>2. Heuristic[nbr(w)] \in Int /\ mine(w).distance \in Int
  BY <1>1, GraphAssumption DEF VertPack
<1>3. NewEntry(w) \in Entry
  BY <1>1, <1>2, PlusType DEF NewEntry, Entry
<1>4. my_frontier' \in [Worker -> SUBSET Entry]
  BY <1>3 DEF Insert, TypeOK, PTypeOK
<1>5. arc[w] + 1 \in Nat \ {0} /\ ArcOrEnd(w, arc[w] + 1) /\ v' = v
  BY <1>1 DEF Insert, TypeOK
<1>6. /\ pc' \in [Worker -> ProtocolPc \cup WorkPc]
      /\ arc' \in [Worker -> Nat]
      /\ vdistance' \in [Worker -> Int]
      /\ \A u \in Worker : Relaxing(u)' => arc'[u] \in 1..degree(v[u])
  BY <1>5, ArcOrEndType
<1> QED
  BY <1>4, <1>5, <1>6 DEF Insert, TypeOK, PTypeOK, cvars, svars, Relaxing

\* No step of any worker breaks the types.
LEMMA NextTypeOK == TypeOK /\ [Next]_vars => TypeOK'
<1> SUFFICES ASSUME TypeOK, [Next]_vars PROVE TypeOK'
  OBVIOUS
<1>1. ASSUME NEW w \in Worker, Step(w) PROVE TypeOK'
  BY <1>1, ProtocolTypeOK, EndRoundTypeOK, PopTypeOK, ClaimTypeOK,
     ReadDistanceTypeOK, LoadTypeOK, CasTypeOK, InsertTypeOK DEF Step, WorkStep
<1>2. CASE UNCHANGED vars
  BY <1>2 DEF vars, pvars, svars, lvars, TypeOK, PTypeOK
<1> QED
  BY <1>1, <1>2 DEF Next, Return

\* Every variable of the search keeps its type, and no worker leaves the arcs
\* of its vertex.
THEOREM TypeCorrect == SafetySpec => []TypeOK
BY InitTypeOK, NextTypeOK, PTL DEF SafetySpec

------------------------------------------------------------------------------
(* The inductive invariant *)

\* The number of expanded vertices is bounded by the number of vertices.
LEMMA ExpandedCard ==
    /\ IsFiniteSet(Expanded)
    /\ Cardinality(Expanded) \in Nat
    /\ Cardinality(Vertex) \in Nat
    /\ Cardinality(Expanded) <= Cardinality(Vertex)
BY VerticesCard DEF Expanded

\* The sum a relaxation forms does not overflow.
LEMMA SumFits ==
    ASSUME IInv, NEW w \in Worker, Relaxing(w)
    PROVE  /\ vdistance[w] \in Nat
           /\ v[w] \in Vertex
           /\ arc[w] \in 1..degree(v[w])
           /\ Neighbors[v[w]][arc[w]].weight \in Nat
           /\ vdistance[w] + Neighbors[v[w]][arc[w]].weight < IntMax
           /\ mine(w).distance = vdistance[w] + Neighbors[v[w]][arc[w]].weight
           /\ mine(w).distance <= MaxWeight * Cardinality(Expanded)
<1> DEFINE wt == Neighbors[v[w]][arc[w]].weight
           n  == Cardinality(Expanded)
<1>1. /\ v[w] \in Vertex /\ arc[w] \in 1..degree(v[w]) /\ vdistance[w] \in Int
      /\ gpred[v[w]].distance \in Nat
      /\ gpred[v[w]].distance <= vdistance[w]
      /\ vdistance[w] <= MaxWeight * (n - 1)
  BY DEF IInv, TypeOK, Budget, WorkerInv, StaleFromAbove, Relaxing
<1>2. wt \in 0..MaxWeight /\ MaxWeight \in Nat /\ IntMax \in Nat
  BY <1>1, ArcType, GraphAssumption
<1>3. n \in Nat /\ Cardinality(Vertex) \in Nat /\ n <= Cardinality(Vertex)
  BY ExpandedCard
<1> HIDE DEF wt, n
<1>4. vdistance[w] + wt <= MaxWeight * (n - 1) + MaxWeight
  <2>1. MaxWeight * (n - 1) \in Int
    BY <1>2, <1>3
  <2> QED
    BY <1>1, <1>2, <2>1
<1>5. MaxWeight * (n - 1) + MaxWeight = MaxWeight * n /\ MaxWeight * n \in Nat
  BY <1>2, <1>3, Product
<1>6. MaxWeight * n <= MaxWeight * Cardinality(Vertex)
  BY <1>2, <1>3, Product
<1>7. MaxWeight * Cardinality(Vertex) < IntMax /\ MaxWeight * Cardinality(Vertex) \in Nat
  BY <1>2, <1>3, Product, DistancesFit
<1>8. vdistance[w] + wt <= MaxWeight * n /\ vdistance[w] + wt < IntMax
  BY <1>1, <1>2, <1>4, <1>5, <1>6, <1>7
<1>9. mine(w).distance = vdistance[w] + wt
  <2>1. vdistance[w] \in Nat /\ wt \in Nat
    BY <1>1, <1>2
  <2> QED
    BY <1>2, <1>8, <2>1 DEF mine, Plus, wt
<1> QED
  BY <1>1, <1>2, <1>8, <1>9 DEF wt, n

\* The first state satisfies the invariant.
LEMMA InitIInv == Init => IInv
<1> SUFFICES ASSUME Init PROVE IInv
  OBVIOUS
<1>1. TypeOK
  BY InitTypeOK
<1>2. Expanded = {}
  BY DEF Init, Expanded
<1>3. Cardinality(Expanded) = 0
  BY <1>2, FS_EmptySet
<1>4. Budget
  <2>1. MaxWeight * Cardinality(Expanded) = 0 /\ IntMax \in Nat
    BY <1>3, GraphAssumption
  <2> QED
    BY <2>1 DEF Budget, Init, InitGpred
<1>5. ASSUME NEW w \in Worker PROVE WorkerInv(w)
  <2>1. pc[w] = "start"
    BY DEF Init, PInit
  <2>2. \A e \in Held(w) : e.vertex = source
    BY DEF Init, PInit, Held
  <2>3. gpred[source].distance # IntMax
    <3>1. MaxWeight * Cardinality(Vertex) \in Nat
      BY ExpandedCard, Product, GraphAssumption
    <3> QED
      BY <3>1, DistancesFit, GraphAssumption DEF Init, InitGpred
  <2> QED
    BY <2>1, <2>2, <2>3 DEF WorkerInv, ExpanderMarked, StaleFromAbove,
       SeenWorse, QueuedReached, Expanding, Relaxing
<1> QED
  BY <1>1, <1>4, <1>5 DEF IInv

\* A step of w that leaves the shared states and the other workers' locals
\* alone keeps the invariant if it keeps the part of w and invents no entries.
LEMMA LocalIInv ==
    ASSUME IInv, TypeOK', NEW w \in Worker, UNCHANGED svars,
           \A u \in Worker \ {w} :
              /\ pc'[u] = pc[u] /\ v'[u] = v[u] /\ vdistance'[u] = vdistance[u]
              /\ arc'[u] = arc[u] /\ gpred_nbr'[u] = gpred_nbr[u],
           \A u \in Worker : \A e \in Held(u)' : gpred[e.vertex].distance # IntMax,
           ExpanderMarked(w)', StaleFromAbove(w)', SeenWorse(w)',
           pc'[w] = "claim" => gpred[v'[w]].distance # IntMax,
           pc'[w] = "insert" => gpred[nbr(w)'].distance # IntMax
    PROVE  IInv'
<1>1. gpred' = gpred /\ is_expanded' = is_expanded /\ Expanded' = Expanded
  BY DEF svars, Expanded
<1>2. Budget'
  BY <1>1 DEF IInv, Budget
<1>3. WorkerInv(w)'
  BY <1>1 DEF WorkerInv, QueuedReached
<1>4. ASSUME NEW u \in Worker \ {w} PROVE WorkerInv(u)'
  <2>1. /\ Expanding(u)' = Expanding(u) /\ Relaxing(u)' = Relaxing(u)
        /\ mine(u)' = mine(u) /\ nbr(u)' = nbr(u)
    BY <1>4 DEF Expanding, Relaxing, mine, nbr
  <2>2. WorkerInv(u)
    BY DEF IInv
  <2> QED
    BY <1>1, <2>1, <2>2 DEF WorkerInv, ExpanderMarked, StaleFromAbove,
       SeenWorse, QueuedReached
<1> QED
  BY <1>2, <1>3, <1>4 DEF IInv

\* The protocol only moves entries around.
LEMMA ProtocolIInv ==
    ASSUME IInv, NEW w \in Worker, ProtocolStep(w), UNCHANGED <<svars, lvars>>
    PROVE  IInv'
<1>1. TypeOK /\ TypeOK'
  BY ProtocolTypeOK DEF IInv
<1>2. /\ \A u \in Worker : pc'[u] \in WorkPc => pc'[u] = pc[u]
      /\ \A u \in Worker : \A e \in Held(u)' : \E x \in Worker : e \in Held(x)
  BY <1>1, ProtocolFrame
<1>3. /\ gpred' = gpred /\ is_expanded' = is_expanded /\ v' = v
      /\ vdistance' = vdistance /\ arc' = arc /\ gpred_nbr' = gpred_nbr
      /\ Expanded' = Expanded
  BY DEF svars, lvars, Expanded
<1>4. Budget'
  BY <1>3 DEF IInv, Budget
<1>5. ASSUME NEW u \in Worker PROVE WorkerInv(u)'
  <2>1. \A x \in Worker : WorkerInv(x)
    BY DEF IInv
  <2>2. \A e \in Held(u)' : gpred[e.vertex].distance # IntMax
    BY <1>2, <2>1 DEF WorkerInv, QueuedReached
  <2>3. mine(u)' = mine(u) /\ nbr(u)' = nbr(u)
    BY <1>3 DEF mine, nbr
  <2>4. /\ Expanding(u)' => Expanding(u)
        /\ Relaxing(u)' => Relaxing(u)
        /\ pc'[u] = "cas" => pc[u] = "cas"
        /\ pc'[u] = "claim" => pc[u] = "claim"
        /\ pc'[u] = "insert" => pc[u] = "insert"
    BY <1>2 DEF Expanding, Relaxing, WorkPc
  <2> QED
    BY <1>3, <2>1, <2>2, <2>3, <2>4 DEF WorkerInv, ExpanderMarked,
       StaleFromAbove, SeenWorse, QueuedReached
<1> QED
  BY <1>1, <1>4, <1>5 DEF IInv

\* The end of a round touches nothing the invariant is about.
LEMMA EndRoundIInv ==
    ASSUME IInv, NEW w \in Worker, EndRound(w)
    PROVE  IInv'
<1>1. TypeOK /\ TypeOK'
  BY EndRoundTypeOK DEF IInv
<1>2. /\ pc'[w] = "loop" /\ \A u \in Worker \ {w} : pc'[u] = pc[u]
      /\ v' = v /\ vdistance' = vdistance /\ arc' = arc /\ gpred_nbr' = gpred_nbr
      /\ UNCHANGED svars
  BY <1>1 DEF EndRound, Goto, TypeOK, PTypeOK
<1>3. \A u \in Worker : \A e \in Held(u)' : gpred[e.vertex].distance # IntMax
  BY DEF EndRound, Held, IInv, WorkerInv, QueuedReached
<1>4. ExpanderMarked(w)' /\ StaleFromAbove(w)' /\ SeenWorse(w)'
  BY <1>2 DEF ExpanderMarked, StaleFromAbove, SeenWorse, Expanding, Relaxing
<1> QED
  BY <1>1, <1>2, <1>3, <1>4, LocalIInv

\* The popped vertex was queued, hence it is reached.
LEMMA PopIInv ==
    ASSUME IInv, NEW w \in Worker, Pop(w)
    PROVE  IInv'
<1>1. TypeOK /\ TypeOK'
  BY PopTypeOK DEF IInv
<1>2. PICK e \in MinEntries(my_frontier[w]) :
         /\ my_frontier' = [my_frontier EXCEPT ![w] = @ \ {e}]
         /\ v' = [v EXCEPT ![w] = e.vertex]
         /\ Goto(w, IF is_expanded[e.vertex] THEN "body" ELSE "claim")
  BY DEF Pop
<1>3. e \in Held(w) /\ v'[w] = e.vertex /\ pc'[w] \in {"body", "claim"}
  BY <1>1, <1>2 DEF MinEntries, Held, Goto, TypeOK, PTypeOK
<1>4. /\ \A u \in Worker \ {w} : pc'[u] = pc[u] /\ v'[u] = v[u]
      /\ vdistance' = vdistance /\ arc' = arc /\ gpred_nbr' = gpred_nbr
      /\ UNCHANGED svars
  BY <1>1, <1>2 DEF Pop, Goto, TypeOK, PTypeOK
<1>5. \A u \in Worker : Held(u)' \subseteq Held(u)
  BY <1>1, <1>2 DEF Pop, Held, TypeOK, PTypeOK
<1>6. \A u \in Worker : \A x \in Held(u) : gpred[x.vertex].distance # IntMax
  BY DEF IInv, WorkerInv, QueuedReached
<1>7. ExpanderMarked(w)' /\ StaleFromAbove(w)' /\ SeenWorse(w)' /\ pc'[w] # "insert"
  BY <1>3 DEF ExpanderMarked, StaleFromAbove, SeenWorse, Expanding, Relaxing
<1>8. \A u \in Worker : \A x \in Held(u)' : gpred[x.vertex].distance # IntMax
  BY <1>5, <1>6
<1>9. gpred[v'[w]].distance # IntMax
  BY <1>3, <1>6
<1> QED
  BY <1>1, <1>4, <1>7, <1>8, <1>9, LocalIInv

\* The distance that is read is within the budget of an expanded vertex.
LEMMA ReadDistanceIInv ==
    ASSUME IInv, NEW w \in Worker, ReadDistance(w)
    PROVE  IInv'
<1>1. TypeOK /\ TypeOK'
  BY ReadDistanceTypeOK DEF IInv
<1>2. pc[w] = "dist" /\ v[w] \in Vertex /\ is_expanded[v[w]]
  BY <1>1 DEF ReadDistance, IInv, WorkerInv, ExpanderMarked, Expanding, TypeOK
<1>3. /\ gpred[v[w]].distance \in Nat
      /\ gpred[v[w]].distance <= MaxWeight * (Cardinality(Expanded) - 1)
  BY <1>2 DEF IInv, Budget
<1>4. /\ pc'[w] \in {"relax", "body"} /\ v' = v /\ gpred_nbr' = gpred_nbr
      /\ \A u \in Worker \ {w} : /\ pc'[u] = pc[u] /\ vdistance'[u] = vdistance[u]
                                 /\ arc'[u] = arc[u]
      /\ UNCHANGED svars
      /\ pc'[w] = "relax" => vdistance'[w] = gpred[v[w]].distance
  BY <1>1 DEF ReadDistance, Goto, TypeOK, PTypeOK
<1>5. Expanded' = Expanded /\ gpred' = gpred /\ is_expanded' = is_expanded
  BY <1>4 DEF svars, Expanded
<1>6. \A u \in Worker : \A e \in Held(u)' : gpred[e.vertex].distance # IntMax
  BY DEF ReadDistance, wvars, Held, IInv, WorkerInv, QueuedReached
<1>7. ExpanderMarked(w)' /\ SeenWorse(w)' /\ pc'[w] \notin {"claim", "insert"}
  BY <1>2, <1>4, <1>5 DEF ExpanderMarked, SeenWorse, Expanding
<1>8. StaleFromAbove(w)'
  BY <1>3, <1>4, <1>5 DEF StaleFromAbove, Relaxing
<1> QED
  BY <1>1, <1>4, <1>6, <1>7, <1>8, LocalIInv

\* Going on to the next arc keeps the distance read, or ends the expansion.
LEMMA ArcOrEndLocal ==
    ASSUME IInv, NEW w \in Worker, NEW j \in Nat \ {0}, ArcOrEnd(w, j),
           Relaxing(w), v' = v, UNCHANGED svars
    PROVE  /\ pc'[w] \in {"relax", "body"}
           /\ \A u \in Worker \ {w} : /\ pc'[u] = pc[u] /\ vdistance'[u] = vdistance[u]
                                      /\ arc'[u] = arc[u]
           /\ ExpanderMarked(w)' /\ StaleFromAbove(w)' /\ SeenWorse(w)'
<1>1. TypeOK /\ WorkerInv(w)
  BY DEF IInv
<1>2. Expanded' = Expanded /\ gpred' = gpred /\ is_expanded' = is_expanded
  BY DEF svars, Expanded
<1>3. /\ pc'[w] \in {"relax", "body"}
      /\ \A u \in Worker \ {w} : /\ pc'[u] = pc[u] /\ vdistance'[u] = vdistance[u]
                                 /\ arc'[u] = arc[u]
      /\ pc'[w] = "relax" => vdistance'[w] = vdistance[w]
  BY <1>1 DEF ArcOrEnd, Goto, TypeOK, PTypeOK
<1>4. ExpanderMarked(w)' /\ SeenWorse(w)'
  BY <1>1, <1>2, <1>3 DEF WorkerInv, ExpanderMarked, SeenWorse, Expanding, Relaxing
<1>5. StaleFromAbove(w)'
  BY <1>1, <1>2, <1>3 DEF WorkerInv, StaleFromAbove, Relaxing
<1> QED
  BY <1>3, <1>4, <1>5

\* A load records a vertpack that is worse, or moves on.
LEMMA LoadIInv ==
    ASSUME IInv, NEW w \in Worker, Load(w)
    PROVE  IInv'
<1>1. TypeOK /\ TypeOK' /\ WorkerInv(w)
  BY LoadTypeOK DEF IInv
<1>2. pc[w] = "relax" /\ Relaxing(w) /\ v' = v /\ UNCHANGED svars /\ arc[w] \in Nat
  BY <1>1 DEF Load, Relaxing, TypeOK
<1>3. \A u \in Worker : \A e \in Held(u)' : gpred[e.vertex].distance # IntMax
  BY DEF Load, wvars, Held, IInv, WorkerInv, QueuedReached
<1>4. CASE mine(w).distance < gpred[nbr(w)].distance
  <2>1. /\ pc'[w] = "cas" /\ vdistance' = vdistance /\ arc' = arc
        /\ \A u \in Worker \ {w} : pc'[u] = pc[u] /\ gpred_nbr'[u] = gpred_nbr[u]
        /\ gpred_nbr'[w] = gpred[nbr(w)]
    BY <1>1, <1>4 DEF Load, Goto, TypeOK, PTypeOK
  <2>2. Expanded' = Expanded /\ gpred' = gpred /\ is_expanded' = is_expanded
    BY <1>2 DEF svars, Expanded
  <2>3. mine(w)' = mine(w)
    BY <1>2, <2>1 DEF mine
  <2>4. SeenWorse(w)'
    BY <1>4, <2>1, <2>3 DEF SeenWorse
  <2>5. ExpanderMarked(w)' /\ StaleFromAbove(w)'
    BY <1>1, <1>2, <2>1, <2>2 DEF WorkerInv, ExpanderMarked, StaleFromAbove,
       Expanding, Relaxing
  <2> QED
    BY <1>1, <1>2, <1>3, <2>1, <2>4, <2>5, LocalIInv
<1>5. CASE ~(mine(w).distance < gpred[nbr(w)].distance)
  <2>1. ArcOrEnd(w, arc[w] + 1) /\ gpred_nbr' = gpred_nbr
    BY <1>5 DEF Load
  <2>2. arc[w] + 1 \in Nat \ {0}
    BY <1>2
  <2>3. /\ pc'[w] \in {"relax", "body"}
        /\ \A u \in Worker \ {w} : /\ pc'[u] = pc[u] /\ vdistance'[u] = vdistance[u]
                                   /\ arc'[u] = arc[u]
        /\ ExpanderMarked(w)' /\ StaleFromAbove(w)' /\ SeenWorse(w)'
    BY <1>2, <2>1, <2>2, ArcOrEndLocal
  <2> QED
    BY <1>1, <1>2, <1>3, <2>1, <2>3, LocalIInv
<1> QED
  BY <1>4, <1>5

\* The inserted vertex was reached by the exchange before.
LEMMA InsertIInv ==
    ASSUME IInv, NEW w \in Worker, Insert(w)
    PROVE  IInv'
<1>1. TypeOK /\ TypeOK' /\ WorkerInv(w)
  BY InsertTypeOK DEF IInv
<1>2. /\ pc[w] = "insert" /\ Relaxing(w) /\ v' = v /\ UNCHANGED svars
      /\ arc[w] + 1 \in Nat \ {0} /\ ArcOrEnd(w, arc[w] + 1) /\ gpred_nbr' = gpred_nbr
  BY <1>1 DEF Insert, Relaxing, TypeOK
<1>3. gpred[nbr(w)].distance # IntMax
  BY <1>1, <1>2 DEF WorkerInv, QueuedReached
<1>4. \A u \in Worker : \A e \in Held(u)' : e \in Held(u) \/ e = NewEntry(w)
  BY <1>1 DEF Insert, Held, TypeOK, PTypeOK
<1>5. NewEntry(w).vertex = nbr(w)
  BY DEF NewEntry
<1>6. \A u \in Worker : \A e \in Held(u) : gpred[e.vertex].distance # IntMax
  BY DEF IInv, WorkerInv, QueuedReached
<1>7. \A u \in Worker : \A e \in Held(u)' : gpred[e.vertex].distance # IntMax
  BY <1>3, <1>4, <1>5, <1>6
<1>8. /\ pc'[w] \in {"relax", "body"}
      /\ \A u \in Worker \ {w} : /\ pc'[u] = pc[u] /\ vdistance'[u] = vdistance[u]
                                 /\ arc'[u] = arc[u]
      /\ ExpanderMarked(w)' /\ StaleFromAbove(w)' /\ SeenWorse(w)'
  BY <1>2, ArcOrEndLocal
<1> QED
  BY <1>1, <1>2, <1>7, <1>8, LocalIInv

\* A first claim adds one vertex to the expanded ones, and to the budget.
LEMMA ClaimIInv ==
    ASSUME IInv, NEW w \in Worker, Claim(w)
    PROVE  IInv'
<1>1. TypeOK /\ TypeOK' /\ Budget /\ \A u \in Worker : WorkerInv(u)
  BY ClaimTypeOK DEF IInv
<1>2. /\ pc[w] = "claim" /\ v[w] \in Vertex
      /\ gpred' = gpred /\ v' = v /\ vdistance' = vdistance /\ arc' = arc
      /\ gpred_nbr' = gpred_nbr /\ my_frontier' = my_frontier /\ frontiers' = frontiers
      /\ is_expanded' = [is_expanded EXCEPT ![v[w]] = TRUE]
  BY <1>1 DEF Claim, lvars, wvars, TypeOK
<1>3. pc'[w] \in {"body", "found", "dist"} /\ \A u \in Worker \ {w} : pc'[u] = pc[u]
  BY <1>1 DEF Claim, Goto, TypeOK, PTypeOK
<1>4. \A u \in Worker : \A e \in Held(u)' : gpred[e.vertex].distance # IntMax
  BY <1>1, <1>2 DEF Held, WorkerInv, QueuedReached
<1>5. is_expanded'[v[w]] /\ \A x \in Vertex \ {v[w]} : is_expanded'[x] = is_expanded[x]
  BY <1>1, <1>2 DEF TypeOK
<1>6. Expanded' = Expanded \cup {v[w]}
  BY <1>2, <1>5 DEF Expanded
<1> DEFINE n == Cardinality(Expanded)
           m == Cardinality(Expanded')
<1>7. n \in Nat /\ m \in Nat /\ n <= m /\ (v[w] \notin Expanded => m = n + 1)
  <2>1. IsFiniteSet(Expanded) /\ n \in Nat
    BY ExpandedCard, FS_CardinalityType
  <2>2. Cardinality(Expanded \cup {v[w]}) = IF v[w] \in Expanded THEN n ELSE n + 1
    BY <2>1, FS_AddElement
  <2>3. m = Cardinality(Expanded \cup {v[w]})
    BY <1>6
  <2> HIDE DEF n, m
  <2> QED
    BY <2>1, <2>2, <2>3
<1>8. MaxWeight \in Nat
  BY GraphAssumption
<1>9. /\ MaxWeight * n <= MaxWeight * m
      /\ MaxWeight * (n - 1) <= MaxWeight * (m - 1)
      /\ MaxWeight * n \in Int /\ MaxWeight * m \in Int
      /\ MaxWeight * (n - 1) \in Int /\ MaxWeight * (m - 1) \in Int
  <2> HIDE DEF n, m
  <2>1. MaxWeight * n <= MaxWeight * m
    BY <1>7, <1>8, Product
  <2>2. /\ MaxWeight * (n - 1) + MaxWeight = MaxWeight * n
        /\ MaxWeight * (m - 1) + MaxWeight = MaxWeight * m
        /\ MaxWeight * n \in Nat /\ MaxWeight * m \in Nat
    BY <1>7, <1>8, Product
  <2>3. MaxWeight * (n - 1) \in Int /\ MaxWeight * (m - 1) \in Int
    BY <1>7, <1>8
  <2> QED
    BY <1>8, <2>1, <2>2, <2>3
<1>10. Budget'
  <2> SUFFICES ASSUME NEW x \in Vertex
               PROVE  /\ gpred[x].distance \in Nat
                      /\ gpred[x].distance # IntMax => gpred[x].distance <= MaxWeight * m
                      /\ is_expanded'[x] => gpred[x].distance <= MaxWeight * (m - 1)
    BY <1>2 DEF Budget
  <2>1. /\ gpred[x].distance \in Nat
        /\ gpred[x].distance # IntMax => gpred[x].distance <= MaxWeight * n
        /\ is_expanded[x] => gpred[x].distance <= MaxWeight * (n - 1)
    BY <1>1 DEF Budget
  <2> HIDE DEF n, m
  <2>2. gpred[x].distance # IntMax => gpred[x].distance <= MaxWeight * m
    BY <1>9, <2>1
  <2>3. ASSUME is_expanded[x] PROVE gpred[x].distance <= MaxWeight * (m - 1)
    BY <1>9, <2>1, <2>3
  <2>4. ASSUME x = v[w], ~is_expanded[x] PROVE gpred[x].distance <= MaxWeight * (m - 1)
    <3>1. gpred[x].distance # IntMax
      BY <1>1, <1>2, <2>4 DEF WorkerInv, QueuedReached
    <3>2. m - 1 = n
      BY <1>7, <2>4 DEF Expanded
    <3> QED
      BY <2>1, <3>1, <3>2
  <2>5. is_expanded'[x] => is_expanded[x] \/ x = v[w]
    BY <1>5
  <2> QED
    BY <2>1, <2>2, <2>3, <2>4, <2>5
<1>11. ASSUME NEW u \in Worker PROVE WorkerInv(u)'
  <2>1. WorkerInv(u) /\ mine(u)' = mine(u) /\ nbr(u)' = nbr(u)
    BY <1>1, <1>2 DEF mine, nbr
  <2>2. \A x \in Vertex : is_expanded[x] => is_expanded'[x]
    BY <1>5
  <2>3. v[u] \in Vertex /\ vdistance[u] \in Int
    BY <1>1 DEF TypeOK
  <2>4. CASE u = w
    BY <1>2, <1>3, <1>4, <1>5, <2>4 DEF WorkerInv, ExpanderMarked,
       StaleFromAbove, SeenWorse, QueuedReached, Expanding, Relaxing
  <2>5. CASE u # w
    <3>1. pc'[u] = pc[u]
      BY <1>3, <2>5
    <3>2. ExpanderMarked(u)'
      BY <1>2, <2>1, <2>2, <2>3, <3>1 DEF WorkerInv, ExpanderMarked, Expanding
    <3>3. StaleFromAbove(u)'
      <4>1. SUFFICES ASSUME Relaxing(u)
                     PROVE  /\ gpred[v[u]].distance <= vdistance[u]
                            /\ vdistance[u] <= MaxWeight * (m - 1)
        BY <1>2, <3>1 DEF StaleFromAbove, Relaxing
      <4>2. gpred[v[u]].distance <= vdistance[u] /\ vdistance[u] <= MaxWeight * (n - 1)
        BY <2>1, <4>1 DEF WorkerInv, StaleFromAbove
      <4> HIDE DEF n, m
      <4> QED
        BY <1>9, <2>3, <4>2
    <3>4. SeenWorse(u)'
      BY <1>2, <2>1, <3>1 DEF WorkerInv, SeenWorse
    <3>5. QueuedReached(u)'
      BY <1>2, <1>4, <2>1, <3>1 DEF WorkerInv, QueuedReached
    <3> QED
      BY <3>2, <3>3, <3>4, <3>5 DEF WorkerInv
  <2> QED
    BY <2>4, <2>5
<1> QED
  BY <1>1, <1>10, <1>11 DEF IInv

\* A successful exchange lowers the distance of one vertex.
LEMMA CasLowers ==
    ASSUME IInv, NEW w \in Worker, Cas(w), gpred[nbr(w)] = gpred_nbr[w]
    PROVE  /\ nbr(w) \in Vertex
           /\ gpred' = [gpred EXCEPT ![nbr(w)] = mine(w)]
           /\ gpred'[nbr(w)] = mine(w)
           /\ \A x \in Vertex \ {nbr(w)} : gpred'[x] = gpred[x]
           /\ mine(w).distance \in 0..IntMax - 1
           /\ mine(w).distance < gpred[nbr(w)].distance
           /\ mine(w).distance <= MaxWeight * Cardinality(Expanded)
<1>1. TypeOK /\ Relaxing(w) /\ pc[w] = "cas"
  BY DEF IInv, Cas, Relaxing
<1>2. nbr(w) \in Vertex
  BY <1>1, MineType
<1>3. gpred' = [gpred EXCEPT ![nbr(w)] = mine(w)]
  BY DEF Cas
<1>4. gpred'[nbr(w)] = mine(w) /\ \A x \in Vertex \ {nbr(w)} : gpred'[x] = gpred[x]
  BY <1>1, <1>2, <1>3 DEF TypeOK
<1>5. mine(w).distance < gpred[nbr(w)].distance
  BY <1>1 DEF IInv, WorkerInv, SeenWorse
<1>6. /\ mine(w).distance \in 0..IntMax - 1
      /\ mine(w).distance <= MaxWeight * Cardinality(Expanded)
  <2> DEFINE d == mine(w).distance
             a == vdistance[w]
             b == Neighbors[v[w]][arc[w]].weight
  <2>1. a \in Nat /\ b \in Nat /\ d = a + b /\ d < IntMax
        /\ d <= MaxWeight * Cardinality(Expanded)
    BY <1>1, SumFits
  <2>2. IntMax \in Nat
    BY GraphAssumption
  <2> HIDE DEF d, a, b
  <2>3. d \in 0..IntMax - 1
    BY <2>1, <2>2
  <2> QED
    BY <2>1, <2>3 DEF d
<1> QED
  BY <1>2, <1>3, <1>4, <1>5, <1>6

\* Lower distances suit every part of the invariant.
LEMMA CasIInv ==
    ASSUME IInv, NEW w \in Worker, Cas(w)
    PROVE  IInv'
<1>1. TypeOK /\ TypeOK' /\ Budget /\ \A u \in Worker : WorkerInv(u)
  BY CasTypeOK DEF IInv
<1>2. /\ pc[w] = "cas" /\ is_expanded' = is_expanded /\ v' = v
      /\ vdistance' = vdistance /\ arc' = arc
      /\ my_frontier' = my_frontier /\ frontiers' = frontiers
      /\ Expanded' = Expanded
      /\ \A u \in Worker \ {w} : pc'[u] = pc[u] /\ gpred_nbr'[u] = gpred_nbr[u]
  BY <1>1 DEF Cas, Goto, wvars, TypeOK, PTypeOK, Expanded
<1>3. \A u \in Worker : mine(u)' = mine(u) /\ nbr(u)' = nbr(u) /\ Held(u)' = Held(u)
  BY <1>2 DEF mine, nbr, Held
<1>4. CASE gpred[nbr(w)] # gpred_nbr[w]
  <2>1. gpred' = gpred /\ pc'[w] = "relax"
    BY <1>1, <1>4 DEF Cas, Goto, TypeOK, PTypeOK
  <2>2. Budget'
    BY <1>1, <1>2, <2>1 DEF Budget
  <2>3. ASSUME NEW u \in Worker PROVE WorkerInv(u)'
    <3>1. WorkerInv(u)
      BY <1>1
    <3>2. CASE u = w
      BY <1>2, <1>3, <2>1, <3>1, <3>2 DEF WorkerInv, ExpanderMarked,
         StaleFromAbove, SeenWorse, QueuedReached, Expanding, Relaxing
    <3>3. CASE u # w
      BY <1>2, <1>3, <2>1, <3>1, <3>3 DEF WorkerInv, ExpanderMarked,
         StaleFromAbove, SeenWorse, QueuedReached, Expanding, Relaxing
    <3> QED
      BY <3>2, <3>3
  <2> QED
    BY <1>1, <2>2, <2>3 DEF IInv
<1>5. CASE gpred[nbr(w)] = gpred_nbr[w]
  <2>1. /\ nbr(w) \in Vertex
        /\ gpred'[nbr(w)] = mine(w)
        /\ \A x \in Vertex \ {nbr(w)} : gpred'[x] = gpred[x]
        /\ mine(w).distance \in 0..IntMax - 1
        /\ mine(w).distance < gpred[nbr(w)].distance
        /\ mine(w).distance <= MaxWeight * Cardinality(Expanded)
    BY <1>5, CasLowers
  <2>2. pc'[w] = "insert"
    BY <1>1, <1>5 DEF Cas, Goto, TypeOK, PTypeOK
  <2>3. IntMax \in Nat /\ \A x \in Vertex : gpred[x].distance \in Nat
    BY <1>1, GraphAssumption DEF Budget
  <2>4. ASSUME NEW x \in Vertex
        PROVE  /\ gpred'[x].distance \in Nat
               /\ gpred'[x].distance <= gpred[x].distance
               /\ gpred[x].distance # IntMax => gpred'[x].distance # IntMax
    BY <2>1, <2>3
  <2>5. Budget'
    <3> SUFFICES ASSUME NEW x \in Vertex
                 PROVE  /\ gpred'[x].distance \in Nat
                        /\ gpred'[x].distance # IntMax =>
                              gpred'[x].distance <= MaxWeight * Cardinality(Expanded)
                        /\ is_expanded[x] =>
                              gpred'[x].distance <= MaxWeight * (Cardinality(Expanded) - 1)
      BY <1>2 DEF Budget
    <3>1. gpred'[x].distance # IntMax =>
             gpred'[x].distance <= MaxWeight * Cardinality(Expanded)
      BY <1>1, <2>1 DEF Budget
    <3>2. is_expanded[x] => gpred[x].distance <= MaxWeight * (Cardinality(Expanded) - 1)
      BY <1>1 DEF Budget
    <3>3. MaxWeight * (Cardinality(Expanded) - 1) \in Int
      BY ExpandedCard, GraphAssumption
    <3> QED
      BY <2>3, <2>4, <3>1, <3>2, <3>3
  <2>6. ASSUME NEW u \in Worker PROVE WorkerInv(u)'
    <3>1. WorkerInv(u) /\ v[u] \in Vertex /\ vdistance[u] \in Int
      BY <1>1 DEF TypeOK
    <3>2. (Relaxing(u)' => Relaxing(u)) /\ (Expanding(u)' => Expanding(u))
      BY <1>2, <2>2 DEF Relaxing, Expanding
    <3>3. ExpanderMarked(u)'
      BY <1>2, <3>1, <3>2 DEF WorkerInv, ExpanderMarked
    <3>4. StaleFromAbove(u)'
      <4>1. SUFFICES ASSUME Relaxing(u)
                     PROVE  /\ gpred'[v[u]].distance <= vdistance[u]
                            /\ vdistance[u] <= MaxWeight * (Cardinality(Expanded) - 1)
        BY <1>2, <3>2 DEF StaleFromAbove
      <4>2. /\ gpred[v[u]].distance <= vdistance[u]
            /\ vdistance[u] <= MaxWeight * (Cardinality(Expanded) - 1)
        BY <3>1, <4>1 DEF WorkerInv, StaleFromAbove
      <4> QED
        BY <2>3, <2>4, <3>1, <4>2
    <3>5. SeenWorse(u)'
      BY <1>2, <1>3, <2>2, <3>1 DEF WorkerInv, SeenWorse
    <3>6. QueuedReached(u)'
      <4>1. \A e \in Held(u) : e.vertex \in Vertex
        BY <1>1 DEF Held, TypeOK, PTypeOK, Entry
      <4>2. \A e \in Held(u) : gpred'[e.vertex].distance # IntMax
        BY <2>4, <3>1, <4>1 DEF WorkerInv, QueuedReached
      <4>3. pc'[u] = "claim" => gpred'[v[u]].distance # IntMax
        BY <1>2, <2>2, <2>4, <3>1 DEF WorkerInv, QueuedReached
      <4>4. pc'[u] = "insert" => gpred'[nbr(u)].distance # IntMax
        <5>1. CASE u = w
          BY <2>1, <2>3, <5>1
        <5>2. CASE u # w
          <6>1. SUFFICES ASSUME pc[u] = "insert" PROVE gpred'[nbr(u)].distance # IntMax
            BY <1>2, <5>2
          <6>2. nbr(u) \in Vertex
            BY <1>1, <6>1, MineType DEF Relaxing
          <6> QED
            BY <2>4, <3>1, <6>1, <6>2 DEF WorkerInv, QueuedReached
        <5> QED
          BY <5>1, <5>2
      <4> QED
        BY <1>2, <1>3, <4>2, <4>3, <4>4 DEF QueuedReached
    <3> QED
      BY <3>3, <3>4, <3>5, <3>6 DEF WorkerInv
  <2> QED
    BY <1>1, <2>5, <2>6 DEF IInv
<1> QED
  BY <1>4, <1>5

\* The invariant is inductive.
LEMMA NextIInv == IInv /\ [Next]_vars => IInv'
<1> SUFFICES ASSUME IInv, [Next]_vars PROVE IInv'
  OBVIOUS
<1>1. ASSUME NEW w \in Worker, Step(w) PROVE IInv'
  BY <1>1, ProtocolIInv, EndRoundIInv, PopIInv, ClaimIInv, ReadDistanceIInv,
     LoadIInv, CasIInv, InsertIInv DEF Step, WorkStep
<1>2. CASE UNCHANGED vars
  <2>1. TypeOK'
    BY <1>2, NextTypeOK DEF IInv
  <2>2. /\ gpred' = gpred /\ is_expanded' = is_expanded /\ Expanded' = Expanded
        /\ pc' = pc /\ v' = v /\ vdistance' = vdistance /\ arc' = arc
        /\ gpred_nbr' = gpred_nbr /\ my_frontier' = my_frontier /\ frontiers' = frontiers
    BY <1>2 DEF vars, pvars, svars, lvars, Expanded
  <2>3. Budget'
    BY <2>2 DEF IInv, Budget
  <2>4. \A u \in Worker : WorkerInv(u)'
    BY <2>2 DEF IInv, WorkerInv, ExpanderMarked, StaleFromAbove, SeenWorse,
       QueuedReached, Expanding, Relaxing, Held, mine, nbr
  <2> QED
    BY <2>1, <2>3, <2>4 DEF IInv
<1> QED
  BY <1>1, <1>2 DEF Next, Return

\* Every behaviour of pwsa_pc satisfies the invariant.
THEOREM Invariant == SafetySpec => []IInv
BY InitIInv, NextIInv, PTL DEF SafetySpec

\* No distance pwsa_pc computes or stores leaves the range of an int: each
\* vertex is expanded once, so a distance is the sum of at most one arc per
\* expanded vertex.
THEOREM PwsaNoOverflow == SafetySpec => []NoOverflow
<1>1. IInv => NoOverflow
  <2> SUFFICES ASSUME IInv PROVE NoOverflow
    OBVIOUS
  <2>1. ASSUME NEW x \in Vertex PROVE gpred[x].distance \in 0..IntMax
    <3>1. MaxWeight * Cardinality(Expanded) < IntMax
      <4>1. MaxWeight \in Nat /\ IntMax \in Nat
        BY GraphAssumption
      <4>2. MaxWeight * Cardinality(Expanded) <= MaxWeight * Cardinality(Vertex)
        BY <4>1, ExpandedCard, Product
      <4>3. MaxWeight * Cardinality(Expanded) \in Nat /\ MaxWeight * Cardinality(Vertex) \in Nat
        BY <4>1, ExpandedCard, Product
      <4> QED
        BY <4>1, <4>2, <4>3, DistancesFit
    <3>2. MaxWeight * Cardinality(Expanded) \in Nat /\ IntMax \in Nat
      BY ExpandedCard, Product, GraphAssumption
    <3>3. /\ gpred[x].distance \in Nat
          /\ gpred[x].distance # IntMax => gpred[x].distance <= MaxWeight * Cardinality(Expanded)
      BY DEF IInv, Budget
    <3> QED
      BY <3>1, <3>2, <3>3
  <2>2. ASSUME NEW w \in Worker, Relaxing(w)
        PROVE  vdistance[w] + Neighbors[v[w]][arc[w]].weight <= IntMax
    <3>1. /\ vdistance[w] \in Nat /\ Neighbors[v[w]][arc[w]].weight \in Nat
          /\ vdistance[w] + Neighbors[v[w]][arc[w]].weight < IntMax
      BY <2>2, SumFits
    <3>2. IntMax \in Nat
      BY GraphAssumption
    <3> QED
      BY <3>1, <3>2
  <2> QED
    BY <2>1, <2>2 DEF NoOverflow, Relaxing
<1> QED
  BY <1>1, Invariant, PTL

------------------------------------------------------------------------------
(* The search implements SearchTree *)

\* A step of the search is a claim, a relaxation, or invisible in the states.
LEMMA StepImplements ==
    ASSUME IInv, [Next]_vars
    PROVE  [Tree!Next]_<<gpred, is_expanded>>
<1>1. ASSUME NEW w \in Worker, Claim(w) PROVE [Tree!Next]_<<gpred, is_expanded>>
  <2>1. TypeOK /\ v[w] \in Vertex /\ gpred[v[w]].distance # IntMax /\ gpred' = gpred
        /\ is_expanded' = [is_expanded EXCEPT ![v[w]] = TRUE]
    BY <1>1 DEF Claim, IInv, WorkerInv, QueuedReached, TypeOK
  <2>2. CASE is_expanded[v[w]]
    BY <2>1, <2>2 DEF TypeOK
  <2>3. CASE ~is_expanded[v[w]]
    BY <2>1, <2>3 DEF Tree!Next, Tree!Expand, Tree!Reached
  <2> QED
    BY <2>2, <2>3
<1>2. ASSUME NEW w \in Worker, Cas(w) PROVE [Tree!Next]_<<gpred, is_expanded>>
  <2>1. is_expanded' = is_expanded /\ Relaxing(w)
    BY <1>2 DEF Cas, Relaxing
  <2>2. CASE gpred[nbr(w)] # gpred_nbr[w]
    BY <1>2, <2>1, <2>2 DEF Cas
  <2>3. CASE gpred[nbr(w)] = gpred_nbr[w]
    <3> DEFINE u == v[w]
               i == arc[w]
               d == mine(w).distance
    <3>1. /\ gpred' = [gpred EXCEPT ![nbr(w)] = mine(w)]
          /\ d \in 0..IntMax - 1
          /\ d < gpred[nbr(w)].distance
      BY <1>2, <2>3, CasLowers
    <3>2. /\ u \in Vertex /\ i \in 1..degree(u) /\ vdistance[w] \in Nat
          /\ Neighbors[u][i].weight \in Nat
          /\ d = vdistance[w] + Neighbors[u][i].weight
      BY <2>1, SumFits
    <3>3. is_expanded[u]
      BY <2>1 DEF IInv, WorkerInv, ExpanderMarked, Expanding, Relaxing
    <3>4. gpred[u].distance <= vdistance[w] /\ gpred[u].distance \in Nat
      BY <2>1, <3>2 DEF IInv, WorkerInv, StaleFromAbove, Budget
    <3>5. gpred[u].distance + Neighbors[u][i].weight <= d
      BY <3>2, <3>4
    <3>6. mine(w) = [distance |-> d, pred |-> u] /\ nbr(w) = Neighbors[u][i].vertex
      BY DEF mine, nbr
    <3>7. Tree!Relax(u, i, d)
      BY <2>1, <3>1, <3>3, <3>5, <3>6 DEF Tree!Relax
    <3>8. u \in Vertex /\ i \in 1..Tree!degree(u) /\ d \in 0..IntMax - 1
      BY <3>1, <3>2 DEF degree, Tree!degree
    <3> HIDE DEF u, i, d
    <3>9. Tree!Next
      BY <3>7, <3>8, Zenon DEF Tree!Next
    <3> QED
      BY <3>9
  <2> QED
    BY <2>2, <2>3
<1>3. ASSUME NEW w \in Worker, Step(w), ~Claim(w), ~Cas(w)
      PROVE  UNCHANGED <<gpred, is_expanded>>
  BY <1>3 DEF Step, WorkStep, svars, EndRound, Pop, ReadDistance, Load, Insert
<1>4. CASE UNCHANGED vars
  BY <1>4 DEF vars, svars
<1> QED
  BY <1>1, <1>2, <1>3, <1>4 DEF Next, Return

\* pwsa_pc implements the abstract search: with any number of workers, however
\* they race, every change of the shared states is one that SearchTree allows.
THEOREM PwsaImplementsTree == SafetySpec => ImplementsTree
<1>1. Init => Tree!Init
  BY DEF Init, Tree!Init, InitGpred, Tree!InitGpred
<1>2. IInv /\ [Next]_vars => [Tree!Next]_<<gpred, is_expanded>>
  BY StepImplements
<1> QED
  BY <1>1, <1>2, Invariant, PTL DEF SafetySpec, ImplementsTree, Tree!Spec, Tree!tvars

\* A step of the abstract search keeps the tree of predecessors.
LEMMA TreeStep ==
    ASSUME TreeOf(gpred, is_expanded), [Tree!Next]_<<gpred, is_expanded>>
    PROVE  TreeOf(gpred', is_expanded')
<1>1. ASSUME NEW x \in Vertex, Tree!Expand(x) PROVE TreeOf(gpred', is_expanded')
  <2>1. /\ gpred[x].distance # IntMax /\ gpred' = gpred
        /\ is_expanded' = [is_expanded EXCEPT ![x] = TRUE]
    BY <1>1 DEF Tree!Expand, Tree!Reached
  <2>2. TreeOf(gpred, [is_expanded EXCEPT ![x] = TRUE])
    BY <2>1, TreeExpand
  <2> QED
    BY <2>1, <2>2
<1>2. ASSUME NEW u \in Vertex, NEW i \in 1..Tree!degree(u), NEW d \in 0..IntMax - 1, Tree!Relax(u, i, d)
      PROVE  TreeOf(gpred', is_expanded')
  <2> DEFINE y == Neighbors[u][i].vertex
  <2>1. /\ is_expanded[u] /\ gpred[u].distance + Neighbors[u][i].weight <= d
        /\ d < gpred[y].distance /\ is_expanded' = is_expanded
        /\ gpred' = [gpred EXCEPT ![y] = [distance |-> d, pred |-> u]]
    BY <1>2 DEF Tree!Relax
  <2>2. i \in 1..degree(u)
    BY DEF degree, Tree!degree
  <2>3. TreeOf([gpred EXCEPT ![y] = [distance |-> d, pred |-> u]], is_expanded)
    BY <2>1, <2>2, TreeRelax
  <2> QED
    BY <2>1, <2>3
<1> QED
  BY <1>1, <1>2 DEF Tree!Next

\* Every behaviour of the abstract search keeps a tree of predecessors: it is
\* rooted at the source, hangs every reached vertex on an arc that bounds its g,
\* and has no cycle.
THEOREM TreeInvariant == Tree!Spec => []TreeOf(gpred, is_expanded)
<1>1. Tree!Init => TreeOf(gpred, is_expanded)
  BY TreeInit DEF Tree!Init, InitGpred, Tree!InitGpred
<1>2. TreeOf(gpred, is_expanded) /\ [Tree!Next]_<<gpred, is_expanded>> => TreeOf(gpred, is_expanded)'
  BY TreeStep
<1> QED
  BY <1>1, <1>2, PTL DEF Tree!Spec, Tree!tvars

\* In every state of the abstract search, following predecessors from any reached
\* vertex ends at the source.
THEOREM TreePathsReachSource == Tree!Spec => []PathsReachSource
<1>1. TreeOf(gpred, is_expanded) => PathsReachSource
  BY DEF TreeOf, RootedOf, PathsReachSource, Tree!PathsReachSource, Tree!Reached
<1> QED
  BY <1>1, TreeInvariant, PTL

\* In every state of pwsa_pc, whatever the schedule and the weights (0 too),
\* following predecessors from a reached vertex ends at the source, so the loops
\* of pathlen (weighted_graph.hpp:239, 486) end on every result they are given.
THEOREM PwsaPathsReachSource == SafetySpec => []PathsReachSource
BY PwsaImplementsTree, TreePathsReachSource, PTL DEF ImplementsTree

------------------------------------------------------------------------------
(* The cost of the path of the result *)

\* arcWeight finds a cheapest arc.
LEMMA CheapestArc ==
    ASSUME NEW u \in Vertex, NEW i \in 1..degree(u), NEW x, Neighbors[u][i].vertex = x
    PROVE  arcWeight(u, x) \in Nat /\ arcWeight(u, x) <= Neighbors[u][i].weight
<1> DEFINE A == {Neighbors[u][j] : j \in {k \in 1..degree(u) : Neighbors[u][k].vertex = x}}
           W == {n \in Nat : \E a \in A : a.weight = n}
<1>1. Neighbors[u][i] \in A
  OBVIOUS
<1>2. ASSUME NEW a \in A PROVE a.weight \in Nat
  BY ArcType
<1> HIDE DEF A
<1>3. W \in SUBSET Nat /\ W # {}
  BY <1>1, <1>2
<1>4. PICK m \in W : \A n \in W : m <= n
  BY <1>3, LeastNumber
<1>5. \E a \in A : \A b \in A : a.weight <= b.weight
  <2>1. PICK a \in A : a.weight = m
    BY <1>4
  <2>2. \A b \in A : b.weight \in W
    BY <1>2
  <2> QED
    BY <1>4, <2>1, <2>2
<1> DEFINE c == CHOOSE a \in A : \A b \in A : a.weight <= b.weight
<1>6. c \in A /\ \A b \in A : c.weight <= b.weight
  BY <1>5
<1>7. arcWeight(u, x) = c.weight
  BY DEF arcWeight, A
<1> HIDE DEF c
<1> QED
  BY <1>1, <1>2, <1>6, <1>7

\* One step of the walk: rest[y] is the length from y on, -1 if it is not known.
Walked(rest, more) ==
    [x \in Vertex |->
       IF x = source THEN 0
       ELSE IF ~more \/ gpred[x].pred = NoVertex THEN -1
       ELSE IF rest[gpred[x].pred] = -1 THEN -1
       ELSE arcWeight(gpred[x].pred, x) + rest[gpred[x].pred]]

\* pathcost is what its definition says.
LEMMA PathcostDef ==
    ASSUME NEW n \in 0..Cardinality(Vertex)
    PROVE  pathcost[n] = Walked(pathcost[n - 1], n # 0)
<1> DEFINE Def(m, h) == [k \in 0..m |-> Walked(h[k - 1], k # 0)]
           T == {m \in Nat : \E h : h = Def(m, h)}
<1>0. ASSUME NEW r, NEW s PROVE Walked(r, FALSE) = Walked(s, FALSE)
  BY DEF Walked
<1>1. 0 \in T
  <2> DEFINE h == [k \in 0..0 |-> Walked(0, FALSE)]
  <2>1. ASSUME NEW k \in 0..0 PROVE h[k] = Walked(h[k - 1], k # 0)
    <3>1. k = 0 /\ h[k] = Walked(0, FALSE) /\ (k # 0) = FALSE
      OBVIOUS
    <3>2. Walked(0, FALSE) = Walked(h[k - 1], FALSE)
      BY <1>0
    <3> HIDE DEF h
    <3> QED
      BY <3>1, <3>2
  <2>2. h = Def(0, h)
    BY <2>1
  <2> HIDE DEF h
  <2> QED
    BY <2>2
<1>2. ASSUME NEW m \in Nat, m \in T PROVE m + 1 \in T
  <2>1. PICK h : h = Def(m, h)
    BY <1>2
  <2> DEFINE e == [k \in 0..m + 1 |-> IF k = m + 1 THEN Walked(h[m], TRUE) ELSE h[k]]
  <2>2. ASSUME NEW k \in 0..m + 1 PROVE e[k] = Walked(e[k - 1], k # 0)
    <3>1. CASE k = m + 1
      <4>1. (k # 0) = TRUE /\ k - 1 = m /\ m \in 0..m + 1 /\ m # m + 1
        BY <3>1
      <4>2. e[k] = Walked(h[m], TRUE) /\ e[k - 1] = h[m]
        BY <3>1, <4>1
      <4> HIDE DEF e
      <4> QED
        BY <4>1, <4>2
    <3>2. CASE k # m + 1 /\ k # 0
      <4>0. k \in 0..m /\ k - 1 \in 0..m + 1 /\ k - 1 # m + 1
        BY <3>2
      <4>1. k \in 0..m /\ e[k] = h[k] /\ e[k - 1] = h[k - 1]
        BY <3>2, <4>0
      <4>2. h[k] = Walked(h[k - 1], k # 0)
        BY <2>1, <4>1
      <4> HIDE DEF e
      <4> QED
        BY <4>1, <4>2
    <3>3. CASE k = 0
      <4>0. k \in 0..m /\ k # m + 1
        BY <3>3
      <4>1. k \in 0..m /\ e[k] = h[k] /\ (k # 0) = FALSE
        BY <3>3, <4>0
      <4>2. h[k] = Walked(h[k - 1], k # 0)
        BY <2>1, <4>1
      <4>3. Walked(h[k - 1], FALSE) = Walked(e[k - 1], FALSE)
        BY <1>0
      <4> HIDE DEF e
      <4> QED
        BY <4>1, <4>2, <4>3
    <3> QED
      BY <3>1, <3>2, <3>3
  <2>3. e = Def(m + 1, e)
    BY <2>2
  <2> HIDE DEF e
  <2>4. \E h1 : h1 = Def(m + 1, h1)
    BY <2>3
  <2> QED
    BY <2>4
<1> HIDE DEF T
<1>3. Cardinality(Vertex) \in T
  BY <1>1, <1>2, Induction, VertexCount
<1>4. \E h : h = Def(Cardinality(Vertex), h)
  BY <1>3 DEF T
<1>5. pathcost = Def(Cardinality(Vertex), pathcost)
  <2> DEFINE Src(h) ==
         [k \in 0..Cardinality(Vertex) |->
            [x \in Vertex |->
               IF x = source THEN 0
               ELSE IF k = 0 \/ gpred[x].pred = NoVertex THEN -1
               ELSE LET rest == h[k - 1][gpred[x].pred]
                    IN  IF rest = -1 THEN -1 ELSE arcWeight(gpred[x].pred, x) + rest]]
  <2>1. ASSUME NEW h PROVE Src(h) = Def(Cardinality(Vertex), h)
    BY DEF Walked
  <2>2. PICK h : h = Src(h)
    <3> HIDE DEF Src, Def
    <3> QED
      BY <1>4, <2>1
  <2>3. pathcost = CHOOSE f : f = Src(f)
    BY DEF pathcost
  <2>4. pathcost = Src(pathcost)
    <3> HIDE DEF Src
    <3> QED
      BY <2>2, <2>3
  <2> QED
    BY <2>1, <2>4
<1> QED
  BY <1>5

Reached == {x \in Vertex : gpred[x].distance # IntMax}

\* The reached vertices from which n steps are enough
Measured(n) == {x \in Reached : pathcost[n][x] # -1}

\* What one step more does: the walk from x goes on at its predecessor.
LEMMA PathcostStep ==
    ASSUME TreeOf(gpred, is_expanded), NEW n \in Nat, n < Cardinality(Vertex),
           NEW x \in Reached, x # source
    PROVE  LET p    == gpred[x].pred
               rest == pathcost[n][p]
           IN  /\ p \in Reached
               /\ pathcost[n + 1][x] = IF rest = -1 THEN -1 ELSE arcWeight(p, x) + rest
               /\ arcWeight(p, x) \in Nat
               /\ gpred[p].distance \in Nat /\ gpred[x].distance \in Nat
               /\ gpred[p].distance + arcWeight(p, x) <= gpred[x].distance
<1> DEFINE p == gpred[x].pred
<1>1. x \in Vertex /\ gpred[x].distance # IntMax
  BY DEF Reached
<1>2. TreeArcOf(gpred, is_expanded, x)
  BY <1>1 DEF TreeOf
<1>3. p \in Vertex /\ is_expanded[p]
  BY <1>2 DEF TreeArcOf
<1>4. PICK i \in 1..degree(p) :
         /\ Neighbors[p][i].vertex = x
         /\ gpred[p].distance + Neighbors[p][i].weight <= gpred[x].distance
  BY <1>2 DEF TreeArcOf
<1>5. p \in Reached
  BY <1>3 DEF TreeOf, Reached
<1>6. gpred[p].distance \in 0..IntMax /\ gpred[x].distance \in 0..IntMax /\ IntMax \in Nat
  BY <1>1, <1>3, GraphAssumption DEF TreeOf
<1>7. Neighbors[p][i].weight \in Nat
  BY <1>3, ArcType
<1> HIDE DEF p
<1>8. arcWeight(p, x) \in Nat /\ arcWeight(p, x) <= Neighbors[p][i].weight
  BY <1>3, <1>4, CheapestArc
<1>9. gpred[p].distance + arcWeight(p, x) <= gpred[x].distance
  BY <1>4, <1>6, <1>7, <1>8
<1>10. pathcost[n + 1][x] = IF pathcost[n][p] = -1 THEN -1 ELSE arcWeight(p, x) + pathcost[n][p]
  <2>1. n + 1 \in 0..Cardinality(Vertex) /\ (n + 1 # 0) = TRUE /\ (n + 1) - 1 = n
    BY VertexCount
  <2>2. pathcost[n + 1] = Walked(pathcost[n], TRUE)
    BY <2>1, PathcostDef
  <2>3. p # NoVertex
    BY <1>3, GraphAssumption
  <2> QED
    BY <1>1, <2>2, <2>3 DEF Walked, p
<1> QED
  BY <1>5, <1>6, <1>8, <1>9, <1>10 DEF p

\* The walk from the source has no steps; no other walk has.
LEMMA PathcostBase ==
    /\ \A n \in 0..Cardinality(Vertex) : pathcost[n][source] = 0
    /\ \A x \in Vertex : x # source => pathcost[0][x] = -1
<1>1. source \in Vertex
  BY GraphAssumption
<1>2. ASSUME NEW n \in 0..Cardinality(Vertex) PROVE pathcost[n][source] = 0
  <2>1. pathcost[n] = Walked(pathcost[n - 1], n # 0)
    BY PathcostDef
  <2> QED
    BY <1>1, <2>1 DEF Walked
<1>3. ASSUME NEW x \in Vertex, x # source PROVE pathcost[0][x] = -1
  <2>1. 0 \in 0..Cardinality(Vertex) /\ (0 # 0) = FALSE
    BY VertexCount
  <2>2. pathcost[0] = Walked(pathcost[0 - 1], FALSE)
    BY <2>1, PathcostDef
  <2> QED
    BY <1>3, <2>2 DEF Walked
<1> QED
  BY <1>2, <1>3

\* A length that is measured is at most g.
LEMMA PathcostShort ==
    ASSUME TreeOf(gpred, is_expanded), NEW n \in 0..Cardinality(Vertex), NEW x \in Measured(n)
    PROVE  pathcost[n][x] \in Nat /\ pathcost[n][x] <= gpred[x].distance
<1> DEFINE Fine(k) == \A y \in Measured(k) : pathcost[k][y] \in Nat /\ pathcost[k][y] <= gpred[y].distance
           T == {k \in Nat : k <= Cardinality(Vertex) => Fine(k)}
<1>1. source \in Vertex /\ gpred[source].distance = 0
  BY GraphAssumption DEF TreeOf
<1>2. 0 \in T
  <2>1. 0 \in 0..Cardinality(Vertex)
    BY VertexCount
  <2> QED
    BY <1>1, <2>1, PathcostBase DEF Measured, Reached
<1>3. ASSUME NEW k \in Nat, k \in T PROVE k + 1 \in T
  <2> SUFFICES ASSUME k + 1 <= Cardinality(Vertex), NEW y \in Measured(k + 1)
               PROVE  pathcost[k + 1][y] \in Nat /\ pathcost[k + 1][y] <= gpred[y].distance
    OBVIOUS
  <2>1. k < Cardinality(Vertex) /\ k + 1 \in 0..Cardinality(Vertex) /\ Fine(k)
    BY <1>3, VertexCount
  <2>2. CASE y = source
    BY <1>1, <2>1, <2>2, PathcostBase
  <2>3. CASE y # source
    <3> DEFINE p == gpred[y].pred
               c == arcWeight(p, y)
    <3>1. y \in Reached /\ pathcost[k + 1][y] # -1
      BY DEF Measured
    <3>2. /\ p \in Reached
          /\ pathcost[k + 1][y] = IF pathcost[k][p] = -1 THEN -1 ELSE c + pathcost[k][p]
          /\ c \in Nat /\ gpred[p].distance \in Nat /\ gpred[y].distance \in Nat
          /\ gpred[p].distance + c <= gpred[y].distance
      BY <2>1, <2>3, <3>1, PathcostStep
    <3> HIDE DEF p, c
    <3>3. pathcost[k][p] # -1 /\ pathcost[k + 1][y] = c + pathcost[k][p]
      BY <3>1, <3>2
    <3>4. pathcost[k][p] \in Nat /\ pathcost[k][p] <= gpred[p].distance
      BY <2>1, <3>2, <3>3 DEF Measured
    <3> QED
      BY <3>2, <3>3, <3>4
  <2> QED
    BY <2>2, <2>3
<1> HIDE DEF T
<1>4. n \in T
  BY <1>2, <1>3, Induction
<1> QED
  BY <1>4, VertexCount DEF T

\* One step more measures a vertex iff its predecessor was measured.
LEMMA MeasuredNext ==
    ASSUME TreeOf(gpred, is_expanded), NEW n \in Nat, n < Cardinality(Vertex),
           NEW x \in Reached, x # source
    PROVE  gpred[x].pred \in Reached /\ (x \in Measured(n + 1) <=> gpred[x].pred \in Measured(n))
<1> DEFINE p == gpred[x].pred
           c == arcWeight(p, x)
<1>1. /\ p \in Reached /\ c \in Nat
      /\ pathcost[n + 1][x] = IF pathcost[n][p] = -1 THEN -1 ELSE c + pathcost[n][p]
  BY PathcostStep
<1>2. n \in 0..Cardinality(Vertex)
  BY VertexCount
<1> HIDE DEF p, c
<1>3. p \in Measured(n) => pathcost[n][p] \in Nat
  BY <1>2, PathcostShort
<1>4. p \in Measured(n) <=> pathcost[n][p] # -1
  BY <1>1 DEF Measured
<1>5. pathcost[n][p] # -1 => pathcost[n + 1][x] # -1
  BY <1>1, <1>3, <1>4
<1>6. x \in Measured(n + 1) <=> pathcost[n + 1][x] # -1
  BY DEF Measured
<1> QED
  BY <1>1, <1>4, <1>5, <1>6 DEF p

\* More steps measure no less, and one vertex more as long as any is left.
LEMMA MeasuredGrows ==
    ASSUME TreeOf(gpred, is_expanded), NEW n \in Nat, n < Cardinality(Vertex)
    PROVE  /\ Measured(n) \subseteq Measured(n + 1)
           /\ Measured(n) # Reached => Measured(n) # Measured(n + 1)
<1> DEFINE T == {k \in Nat : k < Cardinality(Vertex) => Measured(k) \subseteq Measured(k + 1)}
<1>0. source \in Reached /\ \A k \in 0..Cardinality(Vertex) : source \in Measured(k)
  <2>1. source \in Reached
    <3>1. gpred[source].distance = 0 /\ 0 < IntMax /\ IntMax \in Nat
      <4>1. {} \in SUBSET Vertex
        OBVIOUS
      <4> QED
        BY <4>1, BudgetFits DEF TreeOf
    <3> QED
      BY <3>1, GraphAssumption DEF Reached
  <2> QED
    BY <2>1, PathcostBase DEF Measured
<1>1. 0 \in T
  <2>1. ASSUME 0 < Cardinality(Vertex) PROVE Measured(0) \subseteq Measured(0 + 1)
    <3>1. \A x \in Measured(0) : x = source
      BY PathcostBase DEF Measured, Reached
    <3>2. 0 + 1 \in 0..Cardinality(Vertex)
      BY <2>1, VertexCount
    <3> QED
      BY <1>0, <3>1, <3>2
  <2> QED
    BY <2>1
<1>2. ASSUME NEW k \in Nat, k \in T PROVE k + 1 \in T
  <2> SUFFICES ASSUME k + 1 < Cardinality(Vertex), NEW x \in Measured(k + 1)
               PROVE  x \in Measured((k + 1) + 1)
    OBVIOUS
  <2>1. /\ k < Cardinality(Vertex) /\ Measured(k) \subseteq Measured(k + 1)
        /\ (k + 1) + 1 \in 0..Cardinality(Vertex) /\ k + 1 \in Nat
    BY <1>2, VertexCount
  <2>2. x \in Reached
    BY DEF Measured
  <2>3. CASE x = source
    BY <1>0, <2>1, <2>3
  <2>4. CASE x # source
    BY <2>1, <2>2, <2>4, MeasuredNext
  <2> QED
    BY <2>3, <2>4
<1> HIDE DEF T
<1>3. n \in T
  BY <1>1, <1>2, Induction
<1>4. Measured(n) \subseteq Measured(n + 1)
  BY <1>3 DEF T
<1>5. ASSUME Measured(n) # Reached PROVE Measured(n) # Measured(n + 1)
  <2> DEFINE S == Reached \ Measured(n)
  <2>1. S # {} /\ source \notin S /\ S \in SUBSET (Vertex \ {source})
    <3>1. Measured(n) \subseteq Reached /\ Reached \subseteq Vertex
      BY DEF Measured, Reached
    <3>2. source \in Measured(n)
      BY <1>0, VertexCount
    <3> QED
      BY <1>5, <3>1, <3>2
  <2>2. \A x \in S : gpred[x].distance # IntMax
    BY DEF Reached
  <2>3. PICK x \in S : gpred[x].pred \notin S
    BY <2>1, <2>2 DEF TreeOf, RootedOf
  <2>4. gpred[x].pred \in Measured(n) /\ x \in Measured(n + 1)
    BY <2>1, <2>3, MeasuredNext
  <2> QED
    BY <2>3, <2>4
<1> QED
  BY <1>4, <1>5

\* As many steps as there are vertices measure every reached vertex.
LEMMA AllMeasured ==
    ASSUME TreeOf(gpred, is_expanded)
    PROVE  Measured(Cardinality(Vertex)) = Reached
<1> DEFINE N == Cardinality(Vertex)
           T == {k \in Nat : k <= N => Measured(k) = Reached \/ Cardinality(Measured(k)) >= k + 1}
<1>0. N \in Nat /\ \A k \in Nat : Measured(k) \in SUBSET Vertex /\ Measured(k) \subseteq Reached
  BY VertexCount DEF Measured, Reached
<1>1. 0 \in T
  <2>1. source \in Vertex /\ gpred[source].distance = 0 /\ 0 < IntMax /\ IntMax \in Nat
    <3>1. {} \in SUBSET Vertex
      OBVIOUS
    <3>2. gpred[source].distance = 0
      BY DEF TreeOf
    <3> QED
      BY <3>1, <3>2, BudgetFits, GraphAssumption
  <2>2. source \in Measured(0)
    BY <1>0, <2>1, PathcostBase DEF Measured, Reached
  <2>3. IsFiniteSet(Measured(0)) /\ Cardinality(Measured(0)) \in Nat
    BY <1>0, VerticesCard
  <2>4. Cardinality(Measured(0)) # 0
    BY <2>2, <2>3, FS_EmptySet
  <2> QED
    BY <2>3, <2>4
<1>2. ASSUME NEW k \in Nat, k \in T PROVE k + 1 \in T
  <2> SUFFICES ASSUME k + 1 <= N
               PROVE  Measured(k + 1) = Reached \/ Cardinality(Measured(k + 1)) >= (k + 1) + 1
    OBVIOUS
  <2>1. k < N /\ k <= N /\ k + 1 \in Nat
    BY <1>0
  <2>2. Measured(k) = Reached \/ Cardinality(Measured(k)) >= k + 1
    BY <1>2, <2>1
  <2>3. /\ Measured(k) \subseteq Measured(k + 1)
        /\ Measured(k) # Reached => Measured(k) # Measured(k + 1)
    BY <2>1, MeasuredGrows
  <2>4. CASE Measured(k) = Reached
    BY <1>0, <2>1, <2>3, <2>4
  <2>5. CASE Measured(k) # Reached
    <3>1. /\ IsFiniteSet(Measured(k + 1)) /\ Cardinality(Measured(k + 1)) \in Nat
          /\ Cardinality(Measured(k)) \in Nat
      BY <1>0, <2>1, VerticesCard
    <3>2. /\ Cardinality(Measured(k)) <= Cardinality(Measured(k + 1))
          /\ Cardinality(Measured(k)) = Cardinality(Measured(k + 1)) => Measured(k) = Measured(k + 1)
      BY <2>3, <3>1, FS_Subset
    <3> QED
      BY <2>2, <2>3, <2>5, <3>1, <3>2
  <2> QED
    BY <2>4, <2>5
<1> HIDE DEF T, N
<1>3. N \in T
  BY <1>0, <1>1, <1>2, Induction
<1>4. Measured(N) = Reached \/ Cardinality(Measured(N)) >= N + 1
  BY <1>0, <1>3 DEF T
<1>5. Cardinality(Measured(N)) \in Nat /\ Cardinality(Measured(N)) <= N
  BY <1>0, VerticesCard DEF N
<1> QED
  BY <1>0, <1>4, <1>5 DEF N

\* The search is over only once the destination was claimed.
DoneInv == is_done \/ (\E w \in Worker : pc[w] = "found") => is_expanded[destination]

\* No step of the protocol makes a search successful.
LEMMA ProtocolDone ==
    ASSUME TypeOK, NEW w \in Worker, ProtocolStep(w)
    PROVE  /\ is_done' => is_done \/ pc[w] = "found"
           /\ \A u \in Worker : pc'[u] = "found" => pc[u] = "found"
<1>0. pc \in [Worker -> ProtocolPc \cup WorkPc]
  BY DEF TypeOK, PTypeOK
<1>1. CASE Start(w) \/ Loop(w) \/ Block(w) \/ BlockCas(w) \/ RejectStore(w)
           \/ RejectAnswer(w) \/ Ask(w) \/ Probe(w) \/ AskCas(w)
  <2>1. is_done' = is_done /\ \E l \in ProtocolPc \ {"found"} : Goto(w, l)
    BY <1>1 DEF Start, Loop, Block, BlockCas, RejectStore, RejectAnswer, Ask,
       Probe, AskCas, wvars, cvars, ProtocolPc
  <2> QED
    BY <1>0, <2>1 DEF Goto
<1>2. CASE Wait(w) \/ WaitDone(w) \/ Got(w) \/ Take(w) \/ Respond(w) \/ Fork(w)
           \/ AnswerTransferred(w) \/ AnswerRejected(w) \/ Reopen(w)
  <2>1. is_done' = is_done /\ \E l \in ProtocolPc \ {"found"} : Goto(w, l)
    BY <1>2 DEF Wait, WaitDone, Got, Take, Respond, Fork, AnswerTransferred,
       AnswerRejected, Reopen, wvars, cvars, ProtocolPc
  <2> QED
    BY <1>0, <2>1 DEF Goto
<1>3. CASE Found(w)
  BY <1>0, <1>3 DEF Found, Goto
<1> QED
  BY <1>1, <1>2, <1>3 DEF ProtocolStep

\* Only the claim of the destination does.
LEMMA NextDone == ASSUME TypeOK, DoneInv, [Next]_vars PROVE DoneInv'
<1>1. ASSUME NEW w \in Worker, ProtocolStep(w), UNCHANGED <<svars, lvars>> PROVE DoneInv'
  BY <1>1, ProtocolDone DEF DoneInv, svars
<1>2. ASSUME NEW w \in Worker, Claim(w) PROVE DoneInv'
  <2>1. /\ is_done' = is_done /\ v[w] \in Vertex
        /\ is_expanded' = [is_expanded EXCEPT ![v[w]] = TRUE]
        /\ \A u \in Worker : u # w => pc'[u] = pc[u]
        /\ pc'[w] = "found" => v[w] = destination
    BY <1>2 DEF Claim, Goto, cvars, TypeOK, PTypeOK
  <2>2. is_expanded \in [Vertex -> BOOLEAN] /\ destination \in Vertex
    BY GraphAssumption DEF TypeOK
  <2>3. is_expanded[destination] \/ v[w] = destination => is_expanded'[destination]
    BY <2>1, <2>2
  <2> QED
    BY <2>1, <2>3 DEF DoneInv
<1>3. ASSUME NEW w \in Worker, WorkStep(w), ~Claim(w) PROVE DoneInv'
  <2>1. is_done' = is_done /\ is_expanded' = is_expanded
    BY <1>3 DEF WorkStep, EndRound, Pop, ReadDistance, Load, Cas, Insert, cvars, svars
  <2>2. \A u \in Worker : pc'[u] = "found" => pc[u] = "found"
    BY <1>3 DEF WorkStep, EndRound, Pop, ReadDistance, Load, Cas, Insert, ArcOrEnd, Goto, TypeOK, PTypeOK
  <2> QED
    BY <2>1, <2>2 DEF DoneInv
<1>4. CASE UNCHANGED vars
  BY <1>4 DEF vars, pvars, svars, DoneInv
<1> QED
  BY <1>1, <1>2, <1>3, <1>4 DEF Next, Return, Step

\* When pwsa_pc reports the destination, its predecessors lead to the source in
\* at most as many steps as there are vertices, and the arcs on the way, in the
\* weights the search relaxed them with, cost at most the g of the destination,
\* although some g on the path may have improved since the vertices behind it
\* were relaxed (pwsa.hpp:124).
THEOREM PwsaPathMeasured == SafetySpec => []PathMeasured
<1>1. SafetySpec => []TreeOf(gpred, is_expanded)
  BY PwsaImplementsTree, TreeInvariant, PTL DEF ImplementsTree
<1>2. Init => DoneInv
  BY DEF Init, PInit, DoneInv
<1>3. TypeOK /\ DoneInv /\ [Next]_vars => DoneInv'
  BY NextDone
<1>4. TreeOf(gpred, is_expanded) /\ DoneInv => PathMeasured
  <2> SUFFICES ASSUME TreeOf(gpred, is_expanded), DoneInv, is_done
               PROVE  /\ pathcost[Cardinality(Vertex)][destination] # -1
                      /\ pathcost[Cardinality(Vertex)][destination] <= gpred[destination].distance
    BY DEF PathMeasured
  <2>1. destination \in Vertex /\ is_expanded[destination]
    BY GraphAssumption DEF DoneInv
  <2>2. destination \in Reached
    BY <2>1 DEF TreeOf, Reached
  <2>3. destination \in Measured(Cardinality(Vertex)) /\ Cardinality(Vertex) \in 0..Cardinality(Vertex)
    BY <2>2, AllMeasured, VertexCount
  <2> QED
    BY <2>3, PathcostShort DEF Measured
<1> QED
  BY <1>1, <1>2, <1>3, <1>4, TypeCorrect, PTL DEF SafetySpec

------------------------------------------------------------------------------
(* No work is lost or done twice *)

\* What is queued bears the priority of a former g of its vertex.
QueuedAbove(w) ==
    \A e \in Held(w) : \E d \in 0..IntMax :
       e.f = Plus(d, Heuristic[e.vertex]) /\ gpred[e.vertex].distance <= d

\* What is about to be queued, too, and it is not queued yet.
InsertAbove(w) == pc[w] = "insert" => gpred[nbr(w)].distance <= mine(w).distance
InsertNew(w) == pc[w] = "insert" => \A u \in Worker : NewEntry(w) \notin Held(u)

\* Two workers never queue the same.
InsertsDiffer ==
    \A u, w \in Worker : u # w /\ pc[u] = "insert" /\ pc[w] = "insert" => NewEntry(u) # NewEntry(w)

OneExpander == \A u, w \in Worker : u # w /\ Expanding(u) /\ Expanding(w) => v[u] # v[w]

\* The invariant that carries NoDuplicateWork and NoVertexLost, beside IInv
QInv ==
    /\ PInv
    /\ HeldOnce
    /\ \A w \in Worker : QueuedAbove(w) /\ InsertAbove(w) /\ InsertNew(w)
    /\ InsertsDiffer
    /\ OneExpander
    /\ NoVertexLost

\* The entry a worker is about to queue
LEMMA NewEntryType ==
    ASSUME IInv, NEW w \in Worker, Relaxing(w)
    PROVE  /\ nbr(w) \in Vertex /\ Heuristic[nbr(w)] \in 0..IntMax
           /\ mine(w).distance \in 0..IntMax /\ mine(w).distance # IntMax
           /\ NewEntry(w).vertex = nbr(w)
           /\ NewEntry(w).f = Plus(mine(w).distance, Heuristic[nbr(w)])
<1>1. nbr(w) \in Vertex
  BY MineType DEF IInv
<1>2. Heuristic[nbr(w)] \in 0..IntMax /\ IntMax \in Nat
  BY <1>1, GraphAssumption
<1>3. /\ vdistance[w] \in Nat /\ Neighbors[v[w]][arc[w]].weight \in Nat
      /\ vdistance[w] + Neighbors[v[w]][arc[w]].weight < IntMax
      /\ mine(w).distance = vdistance[w] + Neighbors[v[w]][arc[w]].weight
  BY SumFits
<1>4. mine(w).distance \in 0..IntMax /\ mine(w).distance # IntMax
  BY <1>2, <1>3
<1> QED
  BY <1>1, <1>2, <1>4 DEF NewEntry

\* A step of the search is a step of a body.
LEMMA WorkIsBody ==
    ASSUME TypeOK, NEW w \in Worker, WorkStep(w)
    PROVE  BodyStep(w)
<1>1. \A u \in Worker \ {w} : my_frontier'[u] = my_frontier[u]
  BY DEF TypeOK, PTypeOK, WorkStep, EndRound, Pop, Claim, ReadDistance, Load, Cas, Insert, wvars
<1>2. UNCHANGED <<frontiers, cvars>>
  BY DEF WorkStep, EndRound, Pop, Claim, ReadDistance, Load, Cas, Insert, wvars
<1>3. pc[w] \notin ProtocolPc \ {"body"}
  BY DEF WorkStep, EndRound, Pop, Claim, ReadDistance, Load, Cas, Insert, ProtocolPc
<1>4. \E l \in WorkPc \cup {"body", "loop", "found"} : Goto(w, l)
  BY DEF WorkStep, EndRound, Pop, Claim, ReadDistance, Load, Cas, Insert, ArcOrEnd, WorkPc
<1> QED
  BY <1>1, <1>2, <1>3, <1>4 DEF BodyStep, ProtocolPc, WorkPc

\* It does not touch the other workers.
LEMMA WorkFrame ==
    ASSUME TypeOK, NEW w \in Worker, WorkStep(w), NEW u \in Worker, u # w
    PROVE  /\ pc'[u] = pc[u] /\ v'[u] = v[u]
           /\ Held(u)' = Held(u)
           /\ nbr(u)' = nbr(u) /\ mine(u)' = mine(u) /\ NewEntry(u)' = NewEntry(u)
<1>1. pc'[u] = pc[u] /\ my_frontier'[u] = my_frontier[u] /\ frontiers' = frontiers
  BY WorkIsBody DEF BodyStep, Goto, TypeOK, PTypeOK
<1>2. v'[u] = v[u]
  BY DEF TypeOK, WorkStep, EndRound, Pop, Claim, ReadDistance, Load, Cas, Insert, lvars
<1>3. arc'[u] = arc[u] /\ vdistance'[u] = vdistance[u]
  BY DEF TypeOK, WorkStep, EndRound, Pop, Claim, ReadDistance, Load, Cas, Insert, ArcOrEnd, lvars
<1> QED
  BY <1>1, <1>2, <1>3 DEF Held, nbr, mine, NewEntry

\* Distances never grow.
LEMMA NeverFarther ==
    ASSUME IInv, NEW w \in Worker, WorkStep(w), NEW x \in Vertex
    PROVE  /\ gpred'[x].distance <= gpred[x].distance
           /\ gpred[x].distance \in Nat /\ gpred'[x].distance \in Nat
<1>1. gpred[x].distance \in Nat /\ gpred'[x].distance \in Nat
  BY NextIInv DEF IInv, Budget, Next, Step
<1>2. CASE gpred' = gpred
  BY <1>1, <1>2
<1>3. CASE Cas(w) /\ gpred[nbr(w)] = gpred_nbr[w]
  BY <1>1, <1>3, CasLowers
<1> QED
  BY <1>2, <1>3 DEF WorkStep, EndRound, Pop, Claim, ReadDistance, Load, Cas, Insert, svars

\* The protocol starts from where it is and leaves bodies alone.
LEMMA ProtocolPcs ==
    ASSUME NEW Item, PTypeOK(Item, ProtocolPc \cup WorkPc), NEW w \in Worker, ProtocolStep(w),
           NEW u \in Worker
    PROVE  (pc[u] \in WorkPc \/ pc'[u] \in WorkPc) => pc'[u] = pc[u]
<1>1. \E l \in ProtocolPc : Goto(w, l)
  <2>1. CASE \/ Start(w) \/ Loop(w) \/ Block(w) \/ BlockCas(w) \/ RejectStore(w) \/ RejectAnswer(w)
             \/ Ask(w) \/ Probe(w) \/ AskCas(w)
    BY <2>1 DEF Start, Loop, Block, BlockCas, RejectStore, RejectAnswer, Ask, Probe, AskCas, ProtocolPc
  <2>2. CASE \/ Wait(w) \/ WaitDone(w) \/ Got(w) \/ Take(w) \/ Respond(w) \/ Fork(w)
             \/ AnswerTransferred(w) \/ AnswerRejected(w) \/ Reopen(w) \/ Found(w)
    BY <2>2 DEF Wait, WaitDone, Got, Take, Respond, Fork, AnswerTransferred, AnswerRejected, Reopen,
       Found, ProtocolPc
  <2> QED
    BY <2>1, <2>2 DEF ProtocolStep
<1>2. pc[w] \notin WorkPc
  BY DEF ProtocolStep, Start, Loop, Block, BlockCas, RejectStore, RejectAnswer, Ask, Probe, AskCas,
     Wait, WaitDone, Got, Take, Respond, Fork, AnswerTransferred, AnswerRejected, Reopen, Found,
     WorkPc
<1>3. ProtocolPc \cap WorkPc = {}
  BY DEF ProtocolPc, WorkPc
<1> QED
  BY <1>1, <1>2, <1>3 DEF Goto, PTypeOK

\* At the start the source is queued, and nothing else is reached.
LEMMA InitQInv == Init => QInv
<1> SUFFICES ASSUME Init PROVE QInv
  OBVIOUS
<1> DEFINE first == [f |-> Heuristic[source], vertex |-> source]
<1>1. PInv
  BY InitPInv DEF Init
<1>2. /\ IntMax \in Nat /\ source \in Vertex /\ Heuristic[source] \in 0..IntMax
      /\ leader \in Worker
  BY GraphAssumption, WorkerAssumption
<1>3. IntMax # 0
  BY <1>2, DistancesFit, GraphAssumption, Product, FS_CardinalityType
<1>4. \A w \in Worker : /\ my_frontier[w] = IF w = leader THEN {first} ELSE {}
                        /\ frontiers[w] = {}
                        /\ pc[w] = "start"
  BY DEF Init, PInit
<1>5. \A x \in Vertex : gpred[x].distance = IF x = source THEN 0 ELSE IntMax
  BY DEF Init, InitGpred
<1>6. Plus(0, Heuristic[source]) = Heuristic[source]
  BY <1>2 DEF Plus
<1>7. \A w \in Worker : Held(w) = IF w = leader THEN {first} ELSE {}
  BY <1>4 DEF Held
<1>8. HeldOnce
  BY <1>4, <1>7 DEF HeldOnce
<1>9. \A w \in Worker : QueuedAbove(w) /\ InsertAbove(w) /\ InsertNew(w)
  BY <1>2, <1>4, <1>5, <1>6, <1>7 DEF QueuedAbove, InsertAbove, InsertNew
<1>10. InsertsDiffer /\ OneExpander
  BY <1>4 DEF InsertsDiffer, OneExpander, Expanding
<1>11. NoVertexLost
  <2> SUFFICES ASSUME NEW x \in Vertex, gpred[x].distance # IntMax
               PROVE  [f |-> Plus(gpred[x].distance, Heuristic[x]), vertex |-> x] \in Held(leader)
    BY <1>2 DEF NoVertexLost
  <2>1. x = source /\ gpred[x].distance = 0
    BY <1>5
  <2> QED
    BY <1>2, <1>6, <1>7, <2>1
<1> QED
  BY <1>1, <1>8, <1>9, <1>10, <1>11 DEF QInv

\* The protocol carries entries around, and the invariant does not say where
\* they are.
LEMMA ProtocolQInv ==
    ASSUME IInv, QInv, NEW w \in Worker, ProtocolStep(w), UNCHANGED <<svars, lvars>>
    PROVE  QInv'
<1>1. TypeOK /\ PTypeOK(Entry, ProtocolPc \cup WorkPc) /\ CInv /\ MInv
  BY DEF IInv, TypeOK, QInv, PInv
<1>2. PInv'
  BY <1>1, ProtocolPInv DEF QInv
<1>3. MailboxFree
  BY <1>1, MailboxFreeFromInv
<1>4. /\ UNION {Held(u)' : u \in Worker} = UNION {Held(u) : u \in Worker}
      /\ HeldOnce'
  BY <1>1, <1>3, ProtocolMoves DEF QInv
<1>5. \A u \in Worker : \A e \in Held(u)' : \E x \in Worker : e \in Held(x)
  BY <1>1, ProtocolFrame
<1>6. ASSUME NEW e, NEW u \in Worker, e \in Held(u) PROVE \E x \in Worker : e \in Held(x)'
  <2>1. e \in UNION {Held(x) : x \in Worker}
    BY <1>6
  <2>2. e \in UNION {Held(x)' : x \in Worker}
    BY <1>4, <2>1
  <2> QED
    BY <2>2
<1>7. \A u \in Worker : (pc[u] \in WorkPc \/ pc'[u] \in WorkPc) => pc'[u] = pc[u]
  BY <1>1, ProtocolPcs
<1>8. \A u \in Worker : /\ pc'[u] = "insert" <=> pc[u] = "insert"
                        /\ pc'[u] = "claim" <=> pc[u] = "claim"
                        /\ Expanding(u)' <=> Expanding(u)
  BY <1>7 DEF WorkPc, Expanding
<1>9. gpred' = gpred /\ is_expanded' = is_expanded /\ v' = v
  BY DEF svars, lvars
<1>10. \A u \in Worker : nbr(u)' = nbr(u) /\ mine(u)' = mine(u) /\ NewEntry(u)' = NewEntry(u)
  BY DEF svars, lvars, nbr, mine, NewEntry
<1>11. \A u \in Worker : QueuedAbove(u)'
  BY <1>5, <1>9 DEF QInv, QueuedAbove
<1>12. \A u \in Worker : InsertAbove(u)' /\ InsertNew(u)'
  BY <1>5, <1>8, <1>9, <1>10 DEF QInv, InsertAbove, InsertNew
<1>13. InsertsDiffer' /\ OneExpander'
  BY <1>8, <1>9, <1>10 DEF QInv, InsertsDiffer, OneExpander
<1>14. NoVertexLost'
  <2> SUFFICES ASSUME NEW x \in Vertex, gpred[x].distance # IntMax, ~is_expanded[x]
               PROVE  \E u \in Worker :
                         \/ [f |-> Plus(gpred[x].distance, Heuristic[x]), vertex |-> x] \in Held(u)'
                         \/ pc'[u] = "insert" /\ nbr(u)' = x /\ mine(u)' = gpred[x]
                         \/ pc'[u] = "claim" /\ v[u] = x
    BY <1>9 DEF NoVertexLost
  <2>1. PICK u \in Worker :
           \/ [f |-> Plus(gpred[x].distance, Heuristic[x]), vertex |-> x] \in Held(u)
           \/ pc[u] = "insert" /\ nbr(u) = x /\ mine(u) = gpred[x]
           \/ pc[u] = "claim" /\ v[u] = x
    BY DEF QInv, NoVertexLost
  <2> QED
    BY <1>6, <1>8, <1>10, <2>1
<1> QED
  BY <1>2, <1>4, <1>11, <1>12, <1>13, <1>14 DEF QInv

\* What a step of the search does to the frontier of its worker, and which
\* worker gets ready to queue a vertex
LEMMA WorkEffect ==
    ASSUME TypeOK, NEW w \in Worker, WorkStep(w)
    PROVE  /\ frontiers' = frontiers
           /\ \A e \in my_frontier'[w] : e \in my_frontier[w] \/ (Insert(w) /\ e = NewEntry(w))
           /\ pc'[w] = "insert" => Cas(w) /\ gpred[nbr(w)] = gpred_nbr[w]
           /\ Insert(w) => pc[w] = "insert" /\ pc'[w] # "insert"
<1>1. frontiers' = frontiers
  BY DEF WorkStep, EndRound, Pop, Claim, ReadDistance, Load, Cas, Insert, wvars
<1>2. \A e \in my_frontier'[w] : e \in my_frontier[w] \/ (Insert(w) /\ e = NewEntry(w))
  <2>1. CASE Insert(w)
    BY <2>1 DEF Insert, TypeOK, PTypeOK
  <2>2. CASE Pop(w)
    BY <2>2 DEF Pop, TypeOK, PTypeOK
  <2> QED
    BY <2>1, <2>2 DEF WorkStep, EndRound, Claim, ReadDistance, Load, Cas, wvars
<1>3. pc'[w] = "insert" => Cas(w) /\ gpred[nbr(w)] = gpred_nbr[w]
  BY DEF WorkStep, EndRound, Pop, Claim, ReadDistance, Load, Cas, Insert, ArcOrEnd, Goto,
     TypeOK, PTypeOK
<1>4. Insert(w) => pc[w] = "insert" /\ pc'[w] # "insert"
  BY DEF Insert, ArcOrEnd, Goto, TypeOK, PTypeOK
<1> QED
  BY <1>1, <1>2, <1>3, <1>4

\* A worker becomes an expander only by claiming a vertex nobody has claimed,
\* and it stays with that vertex.
LEMMA WorkOneExpander ==
    ASSUME IInv, OneExpander, NEW w \in Worker, WorkStep(w)
    PROVE  OneExpander'
<1>1. TypeOK
  BY DEF IInv
<1>2. \A u \in Worker : u # w => pc'[u] = pc[u] /\ v'[u] = v[u]
  BY <1>1, WorkFrame
<1>3. CASE Claim(w) /\ ~is_expanded[v[w]]
  <2>1. v' = v
    BY <1>3 DEF Claim, lvars
  <2>2. \A u \in Worker : u # w /\ Expanding(u) => v[u] # v[w]
    BY <1>3 DEF IInv, WorkerInv, ExpanderMarked
  <2> QED
    BY <1>2, <2>1, <2>2 DEF OneExpander, Expanding
<1>4. CASE ~(Claim(w) /\ ~is_expanded[v[w]])
  <2>1. Expanding(w)' => Expanding(w) /\ v'[w] = v[w]
    BY <1>1, <1>4 DEF WorkStep, EndRound, Pop, Claim, ReadDistance, Load, Cas, Insert, ArcOrEnd, Goto,
       TypeOK, PTypeOK, Expanding, lvars
  <2> QED
    BY <1>2, <2>1 DEF OneExpander, Expanding
<1> QED
  BY <1>3, <1>4

\* A worker that is about to queue a vertex has just lowered its distance, so
\* what it will queue differs from all that was queued or is about to be.
LEMMA WorkInserts ==
    ASSUME IInv, QInv, NEW w \in Worker, WorkStep(w)
    PROVE  /\ \A u \in Worker : InsertAbove(u)' /\ InsertNew(u)'
           /\ InsertsDiffer'
<1>1. TypeOK
  BY DEF IInv
<1>2. /\ \A e \in my_frontier'[w] : e \in my_frontier[w] \/ (Insert(w) /\ e = NewEntry(w))
      /\ frontiers' = frontiers
  BY <1>1, WorkEffect
<1>3. ASSUME NEW x \in Worker, NEW e \in Held(x)'
      PROVE  e \in Held(x) \/ (Insert(w) /\ x = w /\ e = NewEntry(w))
  <2>1. CASE x = w
    BY <1>2, <2>1 DEF Held
  <2>2. CASE x # w
    BY <1>1, <2>2, WorkFrame
  <2> QED
    BY <2>1, <2>2
<1>4. ASSUME NEW u \in Worker, u # w, pc'[u] = "insert"
      PROVE  InsertAbove(u)' /\ InsertNew(u)'
  <2>1. pc[u] = "insert" /\ nbr(u)' = nbr(u) /\ mine(u)' = mine(u) /\ NewEntry(u)' = NewEntry(u)
    BY <1>1, <1>4, WorkFrame
  <2>2. nbr(u) \in Vertex /\ mine(u).distance \in Nat
    BY <2>1, NewEntryType DEF Relaxing
  <2>3. InsertAbove(u)'
    BY <2>1, <2>2, NeverFarther DEF QInv, InsertAbove
  <2>4. Insert(w) => NewEntry(u) # NewEntry(w)
    BY <1>4, <2>1 DEF QInv, InsertsDiffer, Insert
  <2>5. InsertNew(u)'
    BY <1>3, <2>1, <2>4 DEF QInv, InsertNew
  <2> QED
    BY <2>3, <2>5
<1>5. ASSUME pc'[w] = "insert"
      PROVE  /\ InsertAbove(w)' /\ InsertNew(w)'
             /\ \A u \in Worker : u # w /\ pc'[u] = "insert" => NewEntry(u)' # NewEntry(w)'
  <2>1. Cas(w) /\ gpred[nbr(w)] = gpred_nbr[w] /\ ~Insert(w) /\ Relaxing(w)
    BY <1>1, <1>5, WorkEffect DEF Cas, Relaxing
  <2>2. gpred'[nbr(w)] = mine(w) /\ mine(w).distance < gpred[nbr(w)].distance
    BY <2>1, CasLowers
  <2>3. nbr(w)' = nbr(w) /\ mine(w)' = mine(w) /\ NewEntry(w)' = NewEntry(w)
    BY <2>1 DEF Cas, nbr, mine, NewEntry
  <2>4. /\ nbr(w) \in Vertex /\ Heuristic[nbr(w)] \in 0..IntMax
        /\ mine(w).distance \in 0..IntMax
        /\ NewEntry(w).vertex = nbr(w)
        /\ NewEntry(w).f = Plus(mine(w).distance, Heuristic[nbr(w)])
    BY <2>1, NewEntryType
  <2>5. InsertAbove(w)'
    BY <2>2, <2>3, <2>4 DEF InsertAbove
  <2>6. ASSUME NEW x \in Worker, NewEntry(w) \in Held(x) PROVE FALSE
    <3>1. PICK d \in 0..IntMax : /\ NewEntry(w).f = Plus(d, Heuristic[nbr(w)])
                                 /\ gpred[nbr(w)].distance <= d
      BY <2>4, <2>6 DEF QInv, QueuedAbove
    <3>2. d = mine(w).distance
      BY <2>4, <3>1, PlusInjective
    <3>3. gpred[nbr(w)].distance \in Nat
      BY <2>4, NeverFarther
    <3> QED
      BY <2>2, <2>4, <3>1, <3>2, <3>3
  <2>7. InsertNew(w)'
    BY <1>3, <2>1, <2>3, <2>6 DEF InsertNew
  <2>8. ASSUME NEW u \in Worker, u # w, pc'[u] = "insert", NewEntry(u)' = NewEntry(w)' PROVE FALSE
    <3>1. pc[u] = "insert" /\ NewEntry(u) = NewEntry(w)
      BY <1>1, <2>3, <2>8, WorkFrame
    <3>2. /\ nbr(u) = nbr(w) /\ mine(u).distance \in 0..IntMax
          /\ NewEntry(w).f = Plus(mine(u).distance, Heuristic[nbr(w)])
      BY <2>4, <3>1, NewEntryType DEF Relaxing
    <3>3. mine(u).distance = mine(w).distance
      BY <2>4, <3>2, PlusInjective
    <3>4. gpred[nbr(w)].distance <= mine(u).distance /\ gpred[nbr(w)].distance \in Nat
      BY <2>4, <3>1, <3>2, NeverFarther DEF QInv, InsertAbove
    <3> QED
      BY <2>2, <2>4, <3>3, <3>4
  <2> QED
    BY <2>5, <2>7, <2>8
<1>6. \A u \in Worker : InsertAbove(u)' /\ InsertNew(u)'
  BY <1>4, <1>5 DEF InsertAbove, InsertNew
<1>7. InsertsDiffer'
  <2> SUFFICES ASSUME NEW u \in Worker, NEW x \in Worker, u # x, pc'[u] = "insert", pc'[x] = "insert"
               PROVE  NewEntry(u)' # NewEntry(x)'
    BY DEF InsertsDiffer
  <2>1. CASE u = w \/ x = w
    BY <1>5, <2>1
  <2>2. CASE u # w /\ x # w
    BY <1>1, <2>2, WorkFrame DEF QInv, InsertsDiffer
  <2> QED
    BY <2>1, <2>2
<1> QED
  BY <1>6, <1>7

\* A popped vertex is claimed unless it is expanded, an improved one is queued
\* unless it is expanded, so none is lost.
LEMMA WorkNoVertexLost ==
    ASSUME IInv, NoVertexLost, NEW w \in Worker, WorkStep(w)
    PROVE  NoVertexLost'
<1> DEFINE entry(x) == [f |-> Plus(gpred[x].distance, Heuristic[x]), vertex |-> x]
           cared(u, x) == \/ entry(x) \in Held(u)
                          \/ pc[u] = "insert" /\ nbr(u) = x /\ mine(u) = gpred[x]
                          \/ pc[u] = "claim" /\ v[u] = x
<1> SUFFICES ASSUME NEW x \in Vertex, gpred'[x].distance # IntMax, ~is_expanded'[x]
             PROVE  \E u \in Worker : cared(u, x)'
  BY DEF NoVertexLost
<1>1. TypeOK
  BY DEF IInv
<1>2. CASE Cas(w) /\ gpred[nbr(w)] = gpred_nbr[w] /\ x = nbr(w)
  <2>1. gpred'[x] = mine(w)
    BY <1>2, CasLowers
  <2>2. pc'[w] = "insert" /\ nbr(w)' = x /\ mine(w)' = mine(w)
    BY <1>1, <1>2 DEF Cas, Goto, TypeOK, PTypeOK, nbr, mine
  <2> QED
    BY <2>1, <2>2
<1>3. CASE ~(Cas(w) /\ gpred[nbr(w)] = gpred_nbr[w] /\ x = nbr(w))
  <2>1. gpred'[x] = gpred[x]
    BY <1>1, <1>3 DEF WorkStep, EndRound, Pop, Claim, ReadDistance, Load, Cas, Insert, svars, TypeOK
  <2>2. ~is_expanded[x] /\ (Claim(w) => v[w] # x)
    BY <1>1 DEF WorkStep, EndRound, Pop, Claim, ReadDistance, Load, Cas, Insert, svars, TypeOK
  <2>3. PICK u \in Worker : cared(u, x)
    BY <2>1, <2>2 DEF NoVertexLost
  <2>4. entry(x)' = entry(x)
    BY <2>1
  <2>5. CASE u # w
    BY <1>1, <2>1, <2>3, <2>4, <2>5, WorkFrame
  <2>6. CASE u = w /\ entry(x) \in Held(w)
    <3>1. CASE Pop(w)
      <4>1. PICK e \in MinEntries(my_frontier[w]) :
               /\ my_frontier' = [my_frontier EXCEPT ![w] = @ \ {e}]
               /\ v' = [v EXCEPT ![w] = e.vertex]
               /\ Goto(w, IF is_expanded[e.vertex] THEN "body" ELSE "claim")
        BY <3>1 DEF Pop
      <4>2. CASE e = entry(x)
        BY <1>1, <2>2, <4>1, <4>2 DEF Goto, TypeOK, PTypeOK
      <4>3. CASE e # entry(x)
        BY <1>1, <2>4, <2>6, <3>1, <4>1, <4>3 DEF Pop, Held, TypeOK, PTypeOK
      <4> QED
        BY <4>2, <4>3
    <3>2. CASE ~Pop(w)
      <4>1. my_frontier[w] \subseteq my_frontier'[w] /\ frontiers' = frontiers
        BY <1>1, <3>2 DEF WorkStep, EndRound, Claim, ReadDistance, Load, Cas, Insert, wvars,
           TypeOK, PTypeOK
      <4> QED
        BY <2>4, <2>6, <4>1 DEF Held
    <3> QED
      BY <3>1, <3>2
  <2>7. CASE u = w /\ pc[w] = "insert" /\ nbr(w) = x /\ mine(w) = gpred[x]
    <3>1. Insert(w)
      BY <2>7 DEF WorkStep, EndRound, Pop, Claim, ReadDistance, Load, Cas
    <3>2. NewEntry(w) = entry(x)
      BY <2>7 DEF NewEntry
    <3>3. NewEntry(w) \in my_frontier'[w]
      BY <1>1, <2>2, <2>7, <3>1 DEF Insert, TypeOK, PTypeOK
    <3> QED
      BY <2>4, <3>2, <3>3 DEF Held
  <2>8. ~(u = w /\ pc[w] = "claim" /\ v[w] = x)
    BY <2>2 DEF WorkStep, EndRound, Pop, Claim, ReadDistance, Load, Cas, Insert
  <2> QED
    BY <2>3, <2>5, <2>6, <2>7, <2>8
<1> QED
  BY <1>2, <1>3

\* The search keeps the invariant.
LEMMA WorkQInv ==
    ASSUME IInv, QInv, NEW w \in Worker, WorkStep(w)
    PROVE  QInv'
<1>1. TypeOK /\ PTypeOK(Entry, ProtocolPc \cup WorkPc)
  BY DEF IInv, TypeOK
<1>2. PInv'
  BY <1>1, WorkIsBody, BodyPInv DEF QInv
<1>3. /\ \A e \in my_frontier'[w] : e \in my_frontier[w] \/ (Insert(w) /\ e = NewEntry(w))
      /\ frontiers' = frontiers
      /\ Insert(w) => pc[w] = "insert"
  BY <1>1, WorkEffect
<1>4. \A u \in Worker : u # w => Held(u)' = Held(u) /\ my_frontier'[u] = my_frontier[u]
  BY <1>1, WorkFrame, WorkIsBody DEF BodyStep
<1>5. \A e \in Held(w)' : e \in Held(w) \/ (Insert(w) /\ e = NewEntry(w))
  BY <1>3 DEF Held
<1>6. Insert(w) => \A u \in Worker : NewEntry(w) \notin Held(u)
  BY <1>3 DEF QInv, InsertNew
<1>7. HeldOnce'
  <2>1. \A u, t \in Worker : u # t => Held(u)' \cap Held(t)' = {}
    BY <1>4, <1>5, <1>6 DEF QInv, HeldOnce
  <2>2. \A u \in Worker : my_frontier'[u] \cap frontiers'[u] = {}
    BY <1>3, <1>4, <1>6 DEF QInv, HeldOnce, Held
  <2> QED
    BY <2>1, <2>2 DEF HeldOnce
<1>8. ASSUME NEW u \in Worker, NEW e \in Held(u)'
      PROVE  \E d \in 0..IntMax : e.f = Plus(d, Heuristic[e.vertex]) /\ gpred'[e.vertex].distance <= d
  <2>1. CASE e \in Held(u)
    <3>1. PICK d \in 0..IntMax : e.f = Plus(d, Heuristic[e.vertex]) /\ gpred[e.vertex].distance <= d
      BY <2>1 DEF QInv, QueuedAbove
    <3>2. e.vertex \in Vertex
      BY <1>1, <2>1 DEF Held, PTypeOK, Entry
    <3> QED
      BY <3>1, <3>2, NeverFarther
  <2>2. CASE Insert(w) /\ e = NewEntry(w)
    <3>1. /\ nbr(w) \in Vertex /\ mine(w).distance \in 0..IntMax
          /\ e.vertex = nbr(w) /\ e.f = Plus(mine(w).distance, Heuristic[e.vertex])
      BY <1>3, <2>2, NewEntryType DEF Relaxing
    <3>2. gpred[nbr(w)].distance <= mine(w).distance
      BY <1>3, <2>2 DEF QInv, InsertAbove
    <3> QED
      BY <3>1, <3>2, NeverFarther
  <2> QED
    BY <1>4, <1>5, <2>1, <2>2
<1>9. \A u \in Worker : QueuedAbove(u)'
  BY <1>8 DEF QueuedAbove
<1> QED
  BY <1>2, <1>7, <1>9, WorkOneExpander, WorkInserts, WorkNoVertexLost DEF QInv

\* Nothing changes when nothing happens.
LEMMA StutterQInv == ASSUME QInv, UNCHANGED vars PROVE QInv'
<1>1. UNCHANGED pvars /\ UNCHANGED svars /\ UNCHANGED lvars
  BY DEF vars
<1>2. PInv'
  BY <1>1, StutterPInv DEF QInv
<1>3. \A u \in Worker : Held(u)' = Held(u) /\ pc'[u] = pc[u] /\ v'[u] = v[u]
  BY <1>1 DEF pvars, lvars, Held
<1>4. \A u \in Worker : nbr(u)' = nbr(u) /\ mine(u)' = mine(u) /\ NewEntry(u)' = NewEntry(u)
  BY <1>1 DEF lvars, nbr, mine, NewEntry
<1>5. HeldOnce'
  BY <1>1 DEF QInv, HeldOnce, Held, pvars
<1>6. \A u \in Worker : QueuedAbove(u)' /\ InsertAbove(u)' /\ InsertNew(u)'
  BY <1>1, <1>3, <1>4 DEF QInv, QueuedAbove, InsertAbove, InsertNew, svars
<1>7. InsertsDiffer' /\ OneExpander'
  BY <1>3, <1>4 DEF QInv, InsertsDiffer, OneExpander, Expanding
<1>8. NoVertexLost'
  BY <1>1, <1>3, <1>4 DEF QInv, NoVertexLost, svars
<1> QED
  BY <1>2, <1>5, <1>6, <1>7, <1>8 DEF QInv

\* Both invariants together hold in every state of pwsa_pc.
THEOREM QueueInvariant == SafetySpec => [](IInv /\ QInv)
<1>1. Init => IInv /\ QInv
  BY InitIInv, InitQInv
<1>2. IInv /\ QInv /\ [Next]_vars => IInv' /\ QInv'
  <2> SUFFICES ASSUME IInv, QInv, [Next]_vars PROVE IInv' /\ QInv'
    OBVIOUS
  <2>1. IInv'
    BY NextIInv
  <2>2. ASSUME NEW w \in Worker, Step(w) PROVE QInv'
    BY <2>2, ProtocolQInv, WorkQInv DEF Step
  <2> QED
    BY <2>1, <2>2, StutterQInv DEF Next, Return
<1> QED
  BY <1>1, <1>2, PTL DEF SafetySpec

\* No vertex has two expanders and no entry is in two heaps, with any number
\* of workers, however they race for a vertex and steal from each other: so
\* a set of entries is a faithful picture of a heap.
THEOREM PwsaNoDuplicateWork == SafetySpec => []NoDuplicateWork
<1>1. QInv => NoDuplicateWork
  BY DEF QInv, NoDuplicateWork, HeldOnce, OneExpander, InsertNew
<1> QED
  BY <1>1, QueueInvariant, PTL

\* No reached vertex is forgotten between the exchange that improves it and
\* its insertion, in a mailbox, or in a pop that meets a late improvement.
THEOREM PwsaNoVertexLost == SafetySpec => []NoVertexLost
<1>1. QInv => NoVertexLost
  BY DEF QInv
<1> QED
  BY <1>1, QueueInvariant, PTL

\* The rules of the hand-over hold for the search as they do for WorkItems.
THEOREM PwsaHandOver == SafetySpec => [](OneVictimPerThief /\ MailboxFree)
<1>1. IInv /\ QInv => OneVictimPerThief /\ MailboxFree
  <2> SUFFICES ASSUME IInv, QInv PROVE OneVictimPerThief /\ MailboxFree
    OBVIOUS
  <2>1. PTypeOK(Entry, ProtocolPc \cup WorkPc) /\ CInv /\ MInv
    BY DEF IInv, TypeOK, QInv, PInv
  <2> QED
    BY <2>1, MailboxFreeFromInv DEF CInv
<1> QED
  BY <1>1, QueueInvariant, PTL

------------------------------------------------------------------------------
(* simple_wPWSA* *)

\* The types of pwsa, whose entries also tell where they come from
SimpleTypes ==
    /\ PTypeOK(SimpleEntry, ProtocolPc \cup WorkPc)
    /\ gpred \in [Vertex -> VertPack]
    /\ is_expanded \in [Vertex -> BOOLEAN]
    /\ steps_this_round \in [Worker -> 0..PollCutoff]
    /\ v \in [Worker -> Vertex]
    /\ vdistance \in [Worker -> Int]
    /\ arc \in [Worker -> Nat]
    /\ \A w \in Worker : Relaxing(w) => arc[w] \in 1..degree(v[w])

\* The body of pwsa
SimpleWork(w) ==
    \/ EndRound(w) \/ Pop(w) \/ Claim(w) \/ ReadDistance(w)
    \/ SimpleLoad(w) \/ SimpleCas(w) \/ SimpleInsert(w)

SimpleInv == SimpleTypes /\ PInv /\ SimpleNoVertexLost

\* The source is queued by the leader.
LEMMA SimpleInitInv == SimpleInit => SimpleInv
<1> SUFFICES ASSUME SimpleInit PROVE SimpleInv
  OBVIOUS
<1> DEFINE entry == [f |-> Heuristic[source], vertex |-> source, from |-> source]
<1>1. /\ IntMax \in Nat /\ source \in Vertex /\ Heuristic[source] \in 0..IntMax
      /\ leader \in Worker
  BY GraphAssumption, WorkerAssumption
<1>2. entry \in SimpleEntry
  BY <1>1 DEF SimpleEntry
<1>3. PInit({entry})
  BY DEF SimpleInit
<1> HIDE DEF entry
<1>4. PTypeOK(SimpleEntry, ProtocolPc \cup WorkPc)
  <2>1. my_frontier \in [Worker -> SUBSET SimpleEntry] /\ frontiers \in [Worker -> SUBSET SimpleEntry]
    BY <1>2, <1>3 DEF PInit
  <2>2. steps_since_load_balancing \in [Worker -> 0..StepsBound]
    BY <1>3, WorkerAssumption DEF PInit, StepsBound
  <2>3. pc \in [Worker -> ProtocolPc \cup WorkPc]
    BY <1>3 DEF PInit, ProtocolPc
  <2>4. /\ requests \in [Worker -> Worker \cup {Waiting, Blocked}]
        /\ other \in [Worker -> Worker] /\ answers \in [Worker -> Answer] /\ is_done \in BOOLEAN
    BY <1>3, WorkerAssumption DEF PInit
  <2> QED
    BY <2>1, <2>2, <2>3, <2>4 DEF PTypeOK
<1>5. gpred \in [Vertex -> VertPack]
  <2>1. [distance |-> IntMax, pred |-> NoVertex] \in VertPack /\ [distance |-> 0, pred |-> source] \in VertPack
    BY <1>1 DEF VertPack
  <2> QED
    BY <2>1 DEF SimpleInit, InitGpred
<1>6. SimpleTypes
  BY <1>1, <1>3, <1>4, <1>5, PollAssumption DEF SimpleInit, SimpleTypes, Relaxing, PInit
<1>7. PInv
  BY <1>3, InitPInv
<1>8. SimpleNoVertexLost
  <2> SUFFICES ASSUME NEW x \in Vertex, gpred[x].distance # IntMax
               PROVE  [f |-> Plus(gpred[x].distance, Heuristic[x]), vertex |-> x,
                       from |-> gpred[x].pred] \in Held(leader)
    BY <1>1 DEF SimpleNoVertexLost
  <2>1. x = source /\ gpred[x].distance = 0 /\ gpred[x].pred = source
    BY DEF SimpleInit, InitGpred
  <2>2. Plus(0, Heuristic[source]) = Heuristic[source]
    BY <1>1 DEF Plus
  <2>3. entry \in Held(leader)
    BY <1>1, <1>3 DEF PInit, Held
  <2> QED
    BY <2>1, <2>2, <2>3 DEF entry
<1> QED
  BY <1>6, <1>7, <1>8 DEF SimpleInv

\* The vertpack a worker offers, and the arc it moves on to
LEMMA SimpleOffer ==
    ASSUME SimpleTypes, NEW w \in Worker, Relaxing(w)
    PROVE  /\ v[w] \in Vertex /\ nbr(w) \in Vertex /\ mine(w) \in VertPack
           /\ SimpleNewEntry(w) \in SimpleEntry /\ arc[w] \in Nat
<1>1. arc[w] \in 1..degree(v[w]) /\ arc[w] \in Nat /\ v[w] \in Vertex /\ vdistance[w] \in Int
  BY DEF SimpleTypes
<1>2. /\ Neighbors[v[w]][arc[w]].vertex \in Vertex
      /\ Neighbors[v[w]][arc[w]].weight \in Int
  BY <1>1, ArcType
<1>3. Plus(vdistance[w], Neighbors[v[w]][arc[w]].weight) \in Int
  BY <1>1, <1>2, PlusType
<1>4. mine(w) \in VertPack /\ mine(w).distance \in Int /\ nbr(w) \in Vertex
  BY <1>1, <1>2, <1>3 DEF nbr, mine, VertPack
<1>5. Heuristic[nbr(w)] \in Int
  BY <1>4, GraphAssumption
<1>6. Plus(mine(w).distance, Heuristic[nbr(w)]) \in Int
  BY <1>4, <1>5, PlusType
<1> QED
  BY <1>1, <1>4, <1>6 DEF SimpleNewEntry, SimpleEntry

\* The next arc exists, or the expansion is over.
LEMMA SimpleArc ==
    ASSUME SimpleTypes, NEW w \in Worker, NEW j \in Nat \ {0}, ArcOrEnd(w, j), v' = v
    PROVE  /\ pc' \in [Worker -> ProtocolPc \cup WorkPc]
           /\ pc'[w] \in {"relax", "body"}
           /\ \A u \in Worker \ {w} : pc'[u] = pc[u]
           /\ arc' \in [Worker -> Nat]
           /\ vdistance' \in [Worker -> Int]
           /\ \A u \in Worker : Relaxing(u)' => arc'[u] \in 1..degree(v[u])
<1>1. degree(v[w]) \in Nat
  BY DegreeType DEF SimpleTypes
<1>2. CASE j <= degree(v[w])
  BY <1>1, <1>2 DEF ArcOrEnd, SimpleTypes, PTypeOK, Goto, WorkPc, Relaxing
<1>3. CASE ~(j <= degree(v[w]))
  BY <1>1, <1>3 DEF ArcOrEnd, SimpleTypes, PTypeOK, Goto, ProtocolPc, Relaxing
<1> QED
  BY <1>2, <1>3

\* Every part of the body keeps the types.
LEMMA SimpleWorkTypes ==
    ASSUME SimpleTypes, NEW w \in Worker, SimpleWork(w)
    PROVE  SimpleTypes'
<1>1. CASE EndRound(w)
  BY <1>1, WorkerAssumption, PollAssumption
     DEF SimpleTypes, PTypeOK, EndRound, Goto, cvars, svars, ProtocolPc, StepsBound, Relaxing
<1>2. CASE Pop(w)
  <2>1. PICK e \in MinEntries(my_frontier[w]) :
           /\ my_frontier' = [my_frontier EXCEPT ![w] = @ \ {e}]
           /\ v' = [v EXCEPT ![w] = e.vertex]
           /\ Goto(w, IF is_expanded[e.vertex] THEN "body" ELSE "claim")
    BY <1>2 DEF Pop
  <2>2. e.vertex \in Vertex
    BY DEF MinEntries, SimpleTypes, PTypeOK, SimpleEntry
  <2>3. /\ pc' \in [Worker -> ProtocolPc \cup WorkPc] /\ pc'[w] \in {"body", "claim"}
        /\ \A u \in Worker \ {w} : pc'[u] = pc[u]
    BY <2>1 DEF SimpleTypes, PTypeOK, Goto, ProtocolPc, WorkPc
  <2>4. my_frontier' \in [Worker -> SUBSET SimpleEntry]
    BY <2>1 DEF SimpleTypes, PTypeOK
  <2>5. PTypeOK(SimpleEntry, ProtocolPc \cup WorkPc)'
    BY <1>2, <2>3, <2>4 DEF Pop, SimpleTypes, PTypeOK, cvars
  <2>6. steps_this_round' \in [Worker -> 0..PollCutoff]
    BY <1>2, PollAssumption DEF Pop, SimpleTypes
  <2>7. v' \in [Worker -> Vertex] /\ \A u \in Worker \ {w} : v'[u] = v[u]
    BY <2>1, <2>2 DEF SimpleTypes
  <2>8. \A u \in Worker : Relaxing(u)' => u # w /\ Relaxing(u)
    BY <2>3 DEF Relaxing
  <2> QED
    BY <1>2, <2>5, <2>6, <2>7, <2>8 DEF Pop, SimpleTypes, svars
<1>3. CASE Claim(w)
  <2>1. \E l \in {"body", "found", "dist"} : Goto(w, l)
    BY <1>3 DEF Claim
  <2>2. /\ pc' \in [Worker -> ProtocolPc \cup WorkPc]
        /\ \A u \in Worker : Relaxing(u)' => Relaxing(u)
    BY <2>1 DEF SimpleTypes, PTypeOK, Goto, ProtocolPc, WorkPc, Relaxing
  <2>3. is_expanded' \in [Vertex -> BOOLEAN]
    BY <1>3 DEF Claim, SimpleTypes
  <2>4. PTypeOK(SimpleEntry, ProtocolPc \cup WorkPc)'
    BY <1>3, <2>2 DEF Claim, SimpleTypes, PTypeOK, wvars, cvars
  <2> QED
    BY <1>3, <2>2, <2>3, <2>4 DEF Claim, SimpleTypes, lvars
<1>4. CASE ReadDistance(w)
  <2>1. degree(v[w]) \in Nat /\ gpred[v[w]].distance \in Int
    BY DegreeType DEF SimpleTypes, VertPack
  <2>2. PTypeOK(SimpleEntry, ProtocolPc \cup WorkPc)'
    BY <1>4 DEF ReadDistance, SimpleTypes, PTypeOK, Goto, wvars, cvars, ProtocolPc, WorkPc
  <2>3. vdistance' \in [Worker -> Int] /\ arc' \in [Worker -> Nat]
    BY <1>4, <2>1 DEF ReadDistance, SimpleTypes
  <2>4. \A u \in Worker : Relaxing(u)' => arc'[u] \in 1..degree(v'[u])
    BY <1>4, <2>1 DEF ReadDistance, SimpleTypes, PTypeOK, Goto, Relaxing
  <2> QED
    BY <1>4, <2>2, <2>3, <2>4 DEF ReadDistance, SimpleTypes, svars
<1>5. CASE SimpleLoad(w)
  <2>1. PTypeOK(SimpleEntry, ProtocolPc \cup WorkPc)'
    BY <1>5 DEF SimpleLoad, SimpleTypes, PTypeOK, Goto, wvars, cvars, WorkPc
  <2>2. \A u \in Worker : Relaxing(u)' => Relaxing(u)
    BY <1>5 DEF SimpleLoad, Goto, Relaxing, SimpleTypes, PTypeOK
  <2> QED
    BY <1>5, <2>1, <2>2 DEF SimpleLoad, SimpleTypes, svars
<1>6. CASE SimpleCas(w)
  <2>1. nbr(w) \in Vertex /\ mine(w) \in VertPack /\ arc[w] + 1 \in Nat \ {0}
    BY <1>6, SimpleOffer DEF SimpleCas, Relaxing
  <2>2. gpred' \in [Vertex -> VertPack] /\ v' = v
    BY <1>6, <2>1 DEF SimpleCas, SimpleTypes
  <2>3. CASE Goto(w, "insert") /\ UNCHANGED <<vdistance, arc>>
    <3>1. PTypeOK(SimpleEntry, ProtocolPc \cup WorkPc)'
      BY <1>6, <2>3 DEF SimpleCas, SimpleTypes, PTypeOK, Goto, wvars, cvars, WorkPc
    <3>2. \A u \in Worker : Relaxing(u)' => Relaxing(u)
      BY <1>6, <2>3 DEF SimpleCas, Goto, Relaxing, SimpleTypes, PTypeOK
    <3> QED
      BY <1>6, <2>2, <2>3, <3>1, <3>2 DEF SimpleCas, SimpleTypes
  <2>4. CASE ArcOrEnd(w, arc[w] + 1)
    <3>1. /\ pc' \in [Worker -> ProtocolPc \cup WorkPc]
          /\ arc' \in [Worker -> Nat] /\ vdistance' \in [Worker -> Int]
          /\ \A u \in Worker : Relaxing(u)' => arc'[u] \in 1..degree(v[u])
      BY <2>1, <2>2, <2>4, SimpleArc
    <3> QED
      BY <1>6, <2>2, <3>1 DEF SimpleCas, SimpleTypes, PTypeOK, wvars, cvars
  <2> QED
    BY <1>6, <2>3, <2>4 DEF SimpleCas
<1>7. CASE SimpleInsert(w)
  <2>1. SimpleNewEntry(w) \in SimpleEntry /\ arc[w] + 1 \in Nat \ {0}
    BY <1>7, SimpleOffer DEF SimpleInsert, Relaxing
  <2>2. my_frontier' \in [Worker -> SUBSET SimpleEntry] /\ v' = v /\ ArcOrEnd(w, arc[w] + 1)
    BY <1>7, <2>1 DEF SimpleInsert, SimpleTypes, PTypeOK
  <2>3. /\ pc' \in [Worker -> ProtocolPc \cup WorkPc]
        /\ arc' \in [Worker -> Nat] /\ vdistance' \in [Worker -> Int]
        /\ \A u \in Worker : Relaxing(u)' => arc'[u] \in 1..degree(v[u])
    BY <2>1, <2>2, SimpleArc
  <2> QED
    BY <1>7, <2>2, <2>3 DEF SimpleInsert, SimpleTypes, PTypeOK, cvars, svars
<1> QED
  BY <1>1, <1>2, <1>3, <1>4, <1>5, <1>6, <1>7 DEF SimpleWork

\* A step of pwsa is a step of a body, and leaves the other workers alone.
LEMMA SimpleIsBody ==
    ASSUME SimpleTypes, NEW w \in Worker, SimpleWork(w)
    PROVE  /\ BodyStep(w)
           /\ \A u \in Worker : u # w =>
                 /\ pc'[u] = pc[u] /\ v'[u] = v[u] /\ Held(u)' = Held(u)
                 /\ nbr(u)' = nbr(u) /\ mine(u)' = mine(u)
<1>1. \A u \in Worker \ {w} : my_frontier'[u] = my_frontier[u]
  BY DEF SimpleTypes, PTypeOK, SimpleWork, EndRound, Pop, Claim, ReadDistance, SimpleLoad, SimpleCas,
     SimpleInsert, wvars
<1>2. UNCHANGED <<frontiers, cvars>> /\ pc[w] \notin ProtocolPc \ {"body"}
  BY DEF SimpleWork, EndRound, Pop, Claim, ReadDistance, SimpleLoad, SimpleCas, SimpleInsert, wvars,
     ProtocolPc
<1>3. \E l \in WorkPc \cup {"body", "loop", "found"} : Goto(w, l)
  BY DEF SimpleWork, EndRound, Pop, Claim, ReadDistance, SimpleLoad, SimpleCas, SimpleInsert, ArcOrEnd,
     WorkPc
<1>4. BodyStep(w)
  BY <1>1, <1>2, <1>3 DEF BodyStep, ProtocolPc, WorkPc
<1>5. ASSUME NEW u \in Worker, u # w
      PROVE  /\ pc'[u] = pc[u] /\ v'[u] = v[u] /\ Held(u)' = Held(u)
             /\ nbr(u)' = nbr(u) /\ mine(u)' = mine(u)
  <2>1. pc'[u] = pc[u] /\ Held(u)' = Held(u)
    BY <1>1, <1>2, <1>3, <1>5 DEF Goto, SimpleTypes, PTypeOK, Held
  <2>2. v'[u] = v[u]
    BY <1>5 DEF SimpleTypes, SimpleWork, EndRound, Pop, Claim, ReadDistance, SimpleLoad, SimpleCas,
       SimpleInsert, lvars
  <2>3. arc'[u] = arc[u] /\ vdistance'[u] = vdistance[u]
    BY <1>5 DEF SimpleTypes, SimpleWork, EndRound, Pop, Claim, ReadDistance, SimpleLoad, SimpleCas,
       SimpleInsert, ArcOrEnd, lvars
  <2> QED
    BY <2>1, <2>2, <2>3 DEF nbr, mine
<1> QED
  BY <1>4, <1>5

\* Whoever wins the exchange queues the vertex under what it stored.
LEMMA SimpleWorkLosesNone ==
    ASSUME SimpleTypes, SimpleNoVertexLost, NEW w \in Worker, SimpleWork(w)
    PROVE  SimpleNoVertexLost'
<1> DEFINE entry(x) == [f |-> Plus(gpred[x].distance, Heuristic[x]), vertex |-> x, from |-> gpred[x].pred]
           cared(u, x) == \/ entry(x) \in Held(u)
                          \/ pc[u] = "insert" /\ nbr(u) = x /\ mine(u) = gpred[x]
                          \/ pc[u] = "claim" /\ v[u] = x
<1> SUFFICES ASSUME NEW x \in Vertex, gpred'[x].distance # IntMax, ~is_expanded'[x]
             PROVE  \E u \in Worker : cared(u, x)'
  BY DEF SimpleNoVertexLost
<1>1. CASE SimpleCas(w) /\ gpred[nbr(w)] = gpred_nbr[w] /\ x = nbr(w)
  <2>1. gpred'[x] = mine(w)
    BY <1>1 DEF SimpleCas, SimpleTypes
  <2>2. pc'[w] = "insert" /\ nbr(w)' = x /\ mine(w)' = mine(w)
    BY <1>1 DEF SimpleCas, Goto, SimpleTypes, PTypeOK, nbr, mine
  <2> QED
    BY <2>1, <2>2
<1>2. CASE ~(SimpleCas(w) /\ gpred[nbr(w)] = gpred_nbr[w] /\ x = nbr(w))
  <2>1. gpred'[x] = gpred[x]
    BY <1>2 DEF SimpleWork, EndRound, Pop, Claim, ReadDistance, SimpleLoad, SimpleCas, SimpleInsert,
       svars, SimpleTypes
  <2>2. ~is_expanded[x] /\ (Claim(w) => v[w] # x)
    BY DEF SimpleWork, EndRound, Pop, Claim, ReadDistance, SimpleLoad, SimpleCas, SimpleInsert,
       svars, SimpleTypes
  <2>3. PICK u \in Worker : cared(u, x)
    BY <2>1, <2>2 DEF SimpleNoVertexLost
  <2>4. entry(x)' = entry(x)
    BY <2>1
  <2>5. CASE u # w
    BY <2>1, <2>3, <2>4, <2>5, SimpleIsBody
  <2>6. CASE u = w /\ entry(x) \in Held(w)
    <3>1. CASE Pop(w)
      <4>1. PICK e \in MinEntries(my_frontier[w]) :
               /\ my_frontier' = [my_frontier EXCEPT ![w] = @ \ {e}]
               /\ v' = [v EXCEPT ![w] = e.vertex]
               /\ Goto(w, IF is_expanded[e.vertex] THEN "body" ELSE "claim")
        BY <3>1 DEF Pop
      <4>2. CASE e = entry(x)
        BY <2>2, <4>1, <4>2 DEF Goto, SimpleTypes, PTypeOK
      <4>3. CASE e # entry(x)
        BY <2>4, <2>6, <3>1, <4>1, <4>3 DEF Pop, Held, SimpleTypes, PTypeOK
      <4> QED
        BY <4>2, <4>3
    <3>2. CASE ~Pop(w)
      <4>1. my_frontier[w] \subseteq my_frontier'[w] /\ frontiers' = frontiers
        BY <3>2 DEF SimpleWork, EndRound, Claim, ReadDistance, SimpleLoad, SimpleCas, SimpleInsert,
           wvars, SimpleTypes, PTypeOK
      <4> QED
        BY <2>4, <2>6, <4>1 DEF Held
    <3> QED
      BY <3>1, <3>2
  <2>7. CASE u = w /\ pc[w] = "insert" /\ nbr(w) = x /\ mine(w) = gpred[x]
    <3>1. SimpleInsert(w)
      BY <2>7 DEF SimpleWork, EndRound, Pop, Claim, ReadDistance, SimpleLoad, SimpleCas
    <3>2. mine(w).pred = v[w]
      BY DEF mine
    <3>3. SimpleNewEntry(w) = entry(x)
      BY <2>7, <3>2 DEF SimpleNewEntry
    <3>4. SimpleNewEntry(w) \in my_frontier'[w]
      BY <2>2, <2>7, <3>1 DEF SimpleInsert, SimpleTypes, PTypeOK
    <3> QED
      BY <2>4, <3>3, <3>4 DEF Held
  <2>8. ~(u = w /\ pc[w] = "claim" /\ v[w] = x)
    BY <2>2 DEF SimpleWork, EndRound, Pop, Claim, ReadDistance, SimpleLoad, SimpleCas, SimpleInsert
  <2> QED
    BY <2>3, <2>5, <2>6, <2>7, <2>8
<1> QED
  BY <1>1, <1>2

\* The protocol moves entries and nothing else.
LEMMA SimpleProtocolInv ==
    ASSUME SimpleInv, NEW w \in Worker, ProtocolStep(w), UNCHANGED <<svars, lvars>>
    PROVE  SimpleInv'
<1>1. SimpleTypes /\ PTypeOK(SimpleEntry, ProtocolPc \cup WorkPc) /\ CInv /\ MInv /\ PInv
  BY DEF SimpleInv, SimpleTypes, PInv
<1>2. PInv' /\ PTypeOK(SimpleEntry, ProtocolPc \cup WorkPc)'
  BY <1>1, ProtocolPInv, ProtocolPTypeOK
<1>3. \A u \in Worker : (pc[u] \in WorkPc \/ pc'[u] \in WorkPc) => pc'[u] = pc[u]
  BY <1>1, ProtocolPcs
<1>4. SimpleTypes'
  BY <1>1, <1>2, <1>3 DEF SimpleTypes, svars, lvars, Relaxing, WorkPc
<1>5. UNION {Held(u)' : u \in Worker} = UNION {Held(u) : u \in Worker}
  BY <1>1, MailboxFreeFromInv, ProtocolMoves
<1>6. ASSUME NEW e, NEW u \in Worker, e \in Held(u) PROVE \E x \in Worker : e \in Held(x)'
  <2>1. e \in UNION {Held(x) : x \in Worker}
    BY <1>6
  <2>2. e \in UNION {Held(x)' : x \in Worker}
    BY <1>5, <2>1
  <2> QED
    BY <2>2
<1>7. \A u \in Worker : nbr(u)' = nbr(u) /\ mine(u)' = mine(u) /\ v'[u] = v[u]
  BY DEF lvars, nbr, mine
<1>8. gpred' = gpred /\ is_expanded' = is_expanded
  BY DEF svars
<1>9. \A u \in Worker : pc[u] \in {"insert", "claim"} => pc'[u] = pc[u]
  BY <1>3 DEF WorkPc
<1>10. SimpleNoVertexLost'
  <2> DEFINE entry(x) == [f |-> Plus(gpred[x].distance, Heuristic[x]), vertex |-> x, from |-> gpred[x].pred]
  <2> SUFFICES ASSUME NEW x \in Vertex, gpred[x].distance # IntMax, ~is_expanded[x]
               PROVE  \E u \in Worker :
                         \/ entry(x) \in Held(u)'
                         \/ pc'[u] = "insert" /\ nbr(u)' = x /\ mine(u)' = gpred[x]
                         \/ pc'[u] = "claim" /\ v'[u] = x
    BY <1>8 DEF SimpleNoVertexLost
  <2>1. PICK u \in Worker :
           \/ entry(x) \in Held(u)
           \/ pc[u] = "insert" /\ nbr(u) = x /\ mine(u) = gpred[x]
           \/ pc[u] = "claim" /\ v[u] = x
    BY DEF SimpleInv, SimpleNoVertexLost
  <2> HIDE DEF entry
  <2> QED
    BY <1>6, <1>7, <1>9, <2>1
<1> QED
  BY <1>2, <1>4, <1>10 DEF SimpleInv

\* The invariant holds in every state of pwsa.
THEOREM SimpleInvariant == SimpleSafetySpec => []SimpleInv
<1>1. SimpleInv /\ [SimpleNext]_vars => SimpleInv'
  <2> SUFFICES ASSUME SimpleInv, [SimpleNext]_vars PROVE SimpleInv'
    OBVIOUS
  <2>1. ASSUME NEW w \in Worker, SimpleWork(w) PROVE SimpleInv'
    <3>1. SimpleTypes /\ PTypeOK(SimpleEntry, ProtocolPc \cup WorkPc) /\ PInv /\ SimpleNoVertexLost
      BY DEF SimpleInv, SimpleTypes
    <3>2. SimpleTypes' /\ SimpleNoVertexLost' /\ BodyStep(w)
      BY <2>1, <3>1, SimpleWorkTypes, SimpleWorkLosesNone, SimpleIsBody
    <3>3. PInv'
      BY <3>1, <3>2, BodyPInv
    <3> QED
      BY <3>2, <3>3 DEF SimpleInv
  <2>2. CASE UNCHANGED vars
    <3>1. UNCHANGED <<pvars, svars, lvars>>
      BY <2>2 DEF vars
    <3>2. PInv'
      BY <3>1, StutterPInv DEF SimpleInv
    <3>3. SimpleTypes'
      BY <3>1 DEF SimpleInv, SimpleTypes, PTypeOK, pvars, svars, lvars, Relaxing
    <3>4. SimpleNoVertexLost'
      <4>1. \A u \in Worker : Held(u)' = Held(u) /\ pc'[u] = pc[u] /\ v'[u] = v[u]
        BY <3>1 DEF pvars, lvars, Held
      <4>2. \A u \in Worker : nbr(u)' = nbr(u) /\ mine(u)' = mine(u)
        BY <3>1 DEF lvars, nbr, mine
      <4> QED
        BY <3>1, <4>1, <4>2 DEF SimpleInv, SimpleNoVertexLost, svars
    <3> QED
      BY <3>2, <3>3, <3>4 DEF SimpleInv
  <2>3. ASSUME NEW w \in Worker, SimpleStep(w) PROVE SimpleInv'
    BY <2>1, <2>3, SimpleProtocolInv DEF SimpleStep, SimpleWork
  <2> QED
    BY <2>2, <2>3 DEF SimpleNext, Return
<1> QED
  BY <1>1, SimpleInitInv, PTL DEF SimpleSafetySpec

\* pwsa forgets no reached vertex either, although it does not try again when
\* its one exchange fails: the winner queues the vertex (pwsa.hpp:398-405).
THEOREM SimpleLosesNoVertex == SimpleSafetySpec => []SimpleNoVertexLost
<1>1. SimpleInv => SimpleNoVertexLost
  BY DEF SimpleInv
<1> QED
  BY <1>1, SimpleInvariant, PTL

==============================================================================
