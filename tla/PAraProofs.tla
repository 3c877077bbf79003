------------------------------ MODULE PAraProofs ------------------------------
(***************************************************************************)
(* The parallel ARA*, for any number of workers and any graph.             *)
(*                                                                         *)
(* Its threads: main never waits for workers that all wait for main.  What *)
(* carries the proof is what sleeping_threads really counts: the workers   *)
(* in the wait of worker_cond and those on their way out of it.            *)
(*                                                                         *)
(* Its states: OPEN and INCONS hold each inconsistent state where it       *)
(* belongs, none is forgotten but the one that ends an iteration, and over *)
(* all iterations the planner implements SearchTree.                       *)
(***************************************************************************)
EXTENDS PAra, SearchGraphProofs

\* Where a worker counts as asleep, and where it does not
AsleepPc == {"waiting", "woken"}
AwakePc == {"sleep", "check", "improve", "spin", "update", "locked", "clear", "result", "exited"}
Asleep == {w \in Worker : wpc[w] \in AsleepPc}

\* The main thread; it waits at two places only.
MainPc == {"ctor", "built", "loop", "setEps", "launch", "wait", "notified", "prepare", "goal", "path",
           "delete", "join", "gone"}

PoolTypes ==
    /\ wpc \in [Worker -> AsleepPc \cup AwakePc]
    /\ mpc \in MainPc

\* sleeping_threads is the number of workers asleep.
Counted == sleeping_threads = Cardinality(Asleep)

\* A worker leaves for good only when the planner is deleted.
Gone ==
    /\ (\E w \in Worker : wpc[w] = "exited") => ~planner_ok
    /\ planner_ok \/ mpc \in {"join", "gone"}

IInv == PoolTypes /\ Counted /\ Gone /\ NoLostWakeup

------------------------------------------------------------------------------
(* What the actions are to the pool of threads *)

\* Worker w goes on without going to sleep or waking up.
Proceed(w) ==
    /\ wpc[w] \in AwakePc
    /\ \E l \in AwakePc : WGoto(w, l) /\ (l = "exited" => ~planner_ok)
    /\ UNCHANGED <<mpc, sleeping_threads, planner_ok>>

\* Main goes on, neither from nor to a wait.
MainProceeds ==
    /\ mpc' \in MainPc \ {"ctor", "wait"}
    /\ mpc \notin {"join", "gone"}
    /\ UNCHANGED <<wpc, sleeping_threads, planner_ok>>

PoolNext ==
    \/ UNCHANGED poolvars
    \/ MainProceeds \/ Launch \/ Destroy \/ Join
    \/ \E w \in Worker : Proceed(w) \/ Sleep(w) \/ Wake(w)

\* Every step of the planner is one of these to its threads.
LEMMA PoolSteps == [Next]_vars => PoolNext
<1> SUFFICES ASSUME [Next]_vars PROVE PoolNext
  OBVIOUS
<1>1. CASE UNCHANGED vars
  BY <1>1 DEF vars, PoolNext
<1>2. CASE Expire \/ Rest
  BY <1>2 DEF Expire, Rest, vars, poolvars, PoolNext
<1>3. CASE Replan \/ SearchLoop \/ SetEps \/ Collect \/ NextIteration \/ TestGoal \/ Walk
  <2>1. mpc' \in MainPc \ {"ctor", "wait"} /\ mpc \notin {"join", "gone"}
    BY <1>3 DEF Replan, SearchLoop, SetEps, Collect, NextIteration, TestGoal, Walk, MGoto, MainPc
  <2>2. UNCHANGED <<wpc, sleeping_threads, planner_ok>>
    BY <1>3 DEF Replan, SearchLoop, SetEps, Collect, NextIteration, TestGoal, Walk, threads
  <2> QED
    BY <2>1, <2>2 DEF MainProceeds, PoolNext
<1>4. CASE Launch \/ Destroy \/ Join
  BY <1>4 DEF PoolNext
<1>5. ASSUME NEW w \in Worker, WorkerStep(w) PROVE PoolNext
  <2>1. CASE Leave(w) \/ GiveUp(w) \/ Spin(w)
    BY <2>1 DEF Leave, GiveUp, Spin, Searching, WGoto, Proceed, AwakePc, PoolNext
  <2>2. CASE UpdateSuccs(w) \/ Unlock(w) \/ Clear(w) \/ StoreResult(w)
    BY <2>2 DEF UpdateSuccs, Unlock, Clear, StoreResult, WGoto, Proceed, AwakePc, PoolNext
  <2>3. CASE Relax(w)
    BY <2>3 DEF Relax, Relaxing, PoolNext
  <2>4. ASSUME NEW k \in DOMAIN open, Finish(w, k) \/ Expand(w, k) PROVE PoolNext
    BY <2>4 DEF Finish, Expand, Removes, Searching, WGoto, Proceed, AwakePc, PoolNext
  <2>5. CASE Sleep(w) \/ Wake(w)
    BY <2>5 DEF PoolNext
  <2>6. CASE Check(w)
    BY <2>6 DEF Check, WGoto, Proceed, AwakePc, PoolNext
  <2> QED
    BY <1>5, <2>1, <2>2, <2>3, <2>4, <2>5, <2>6 DEF WorkerStep
<1>6. CASE Requeue
  BY <1>6 DEF Requeue, PoolNext
<1> QED
  BY <1>1, <1>2, <1>3, <1>4, <1>5, <1>6 DEF Next, MainStep

------------------------------------------------------------------------------
(* The invariant *)

\* The workers asleep are finitely many, and not more than NUM_THREADS.
LEMMA AsleepFinite ==
    /\ IsFiniteSet(Asleep) /\ Cardinality(Asleep) \in Nat
    /\ Cardinality(Asleep) = NUM_THREADS => Asleep = Worker
<1>1. Asleep \in SUBSET Worker /\ IsFiniteSet(Worker)
  BY PoolAssumption DEF Asleep
<1> QED
  BY <1>1, FS_Subset, FS_CardinalityType DEF NUM_THREADS

\* If the places change only outside the wait, the count does not.
LEMMA CountKept ==
    ASSUME Counted, UNCHANGED sleeping_threads, Asleep' = Asleep
    PROVE  Counted'
  BY DEF Counted

LEMMA ProceedKeeps ==
    ASSUME IInv, NEW w \in Worker, Proceed(w) PROVE IInv'
<1>1. PICK l \in AwakePc : wpc' = [wpc EXCEPT ![w] = l] /\ (l = "exited" => ~planner_ok)
  BY DEF Proceed, WGoto
<1>2. wpc[w] \in AwakePc /\ UNCHANGED <<mpc, sleeping_threads, planner_ok>>
  BY DEF Proceed
<1>3. PoolTypes'
  BY <1>1, <1>2 DEF IInv, PoolTypes
<1>4. Asleep' = Asleep
  BY <1>1, <1>2 DEF IInv, PoolTypes, Asleep, AsleepPc, AwakePc
<1>5. Counted'
  BY <1>2, <1>4, CountKept DEF IInv
<1>6. Gone'
  BY <1>1, <1>2 DEF IInv, PoolTypes, Gone
<1>7. NoLostWakeup'
  <2> SUFFICES ASSUME mpc \in {"ctor", "wait"}
               PROVE  wpc'[w] \notin {"waiting", "exited"}
    BY <1>2 DEF NoLostWakeup
  <2>1. planner_ok
    BY DEF IInv, Gone
  <2>2. l # "exited"
    BY <1>1, <2>1
  <2> QED
    BY <1>1, <2>2 DEF IInv, PoolTypes, AwakePc
<1> QED
  BY <1>3, <1>5, <1>6, <1>7 DEF IInv

LEMMA SleepKeeps ==
    ASSUME IInv, NEW w \in Worker, Sleep(w) PROVE IInv'
<1>1. /\ wpc[w] = "sleep"
      /\ wpc' = [wpc EXCEPT ![w] = "waiting"]
      /\ sleeping_threads' = sleeping_threads + 1
      /\ mpc' = IF sleeping_threads + 1 = NUM_THREADS THEN MainNotified ELSE mpc
      /\ UNCHANGED planner_ok
  BY DEF Sleep, WGoto
<1>2. PoolTypes'
  BY <1>1 DEF IInv, PoolTypes, AsleepPc, AwakePc, MainPc, MainNotified
<1>3. Asleep' = Asleep \cup {w} /\ w \notin Asleep
  BY <1>1 DEF IInv, PoolTypes, Asleep, AsleepPc, AwakePc
<1>4. Counted'
  <2>1. Cardinality(Asleep') = Cardinality(Asleep) + 1
    BY <1>3, AsleepFinite, FS_AddElement
  <2> QED
    BY <1>1, <2>1 DEF IInv, Counted
<1>5. Gone'
  <2>1. ~(\E u \in Worker : wpc[u] = "exited") => ~(\E u \in Worker : wpc'[u] = "exited")
    BY <1>1 DEF IInv, PoolTypes
  <2>2. mpc \in {"join", "gone"} => mpc' = mpc
    BY <1>1 DEF MainNotified
  <2> QED
    BY <1>1, <2>1, <2>2 DEF IInv, Gone
<1>6. NoLostWakeup'
  <2> SUFFICES ASSUME mpc' \in {"ctor", "wait"}
               PROVE  \E u \in Worker : wpc'[u] \notin {"waiting", "exited"}
    BY DEF NoLostWakeup
  <2>1. mpc' = mpc /\ sleeping_threads + 1 # NUM_THREADS
    BY <1>1 DEF MainNotified
  <2>2. Asleep' # Worker
    BY <1>1, <1>4, <2>1 DEF Counted, NUM_THREADS
  <2>3. PICK u \in Worker : wpc'[u] \notin AsleepPc
    BY <2>2 DEF Asleep
  <2>4. wpc'[u] # "exited"
    BY <1>5, <2>1 DEF Gone
  <2> QED
    BY <2>3, <2>4 DEF AsleepPc
<1> QED
  BY <1>2, <1>4, <1>5, <1>6 DEF IInv

LEMMA WakeKeeps ==
    ASSUME IInv, NEW w \in Worker, Wake(w) PROVE IInv'
<1>1. /\ wpc[w] = "woken"
      /\ wpc' = [wpc EXCEPT ![w] = "check"]
      /\ sleeping_threads' = sleeping_threads - 1
      /\ UNCHANGED <<mpc, planner_ok>>
  BY DEF Wake, WGoto
<1>2. PoolTypes'
  BY <1>1 DEF IInv, PoolTypes, AsleepPc, AwakePc
<1>3. Asleep' = Asleep \ {w} /\ w \in Asleep
  BY <1>1 DEF IInv, PoolTypes, Asleep, AsleepPc, AwakePc
<1>4. Counted'
  <2>1. Cardinality(Asleep') = Cardinality(Asleep) - 1
    BY <1>3, AsleepFinite, FS_RemoveElement
  <2> QED
    BY <1>1, <2>1 DEF IInv, Counted
<1>5. Gone'
  BY <1>1 DEF IInv, PoolTypes, Gone
<1>6. NoLostWakeup'
  BY <1>1 DEF IInv, PoolTypes, NoLostWakeup
<1> QED
  BY <1>2, <1>4, <1>5, <1>6 DEF IInv

\* Both notify_all calls: whoever waited is woken and still counts as asleep.
LEMMA NotifyKeeps ==
    ASSUME IInv, wpc' = Notified, UNCHANGED sleeping_threads
    PROVE  /\ wpc' \in [Worker -> AsleepPc \cup AwakePc]
           /\ Counted'
           /\ \A w \in Worker : wpc'[w] # "waiting"
           /\ \A w \in Worker : wpc'[w] = "exited" => wpc[w] = "exited"
<1>1. wpc' \in [Worker -> AsleepPc \cup AwakePc]
  BY DEF IInv, PoolTypes, Notified, AsleepPc
<1>2. Asleep' = Asleep
  BY DEF IInv, PoolTypes, Notified, Asleep, AsleepPc
<1>3. Counted'
  BY <1>2, CountKept DEF IInv
<1>4. \A w \in Worker : wpc'[w] # "waiting" /\ (wpc'[w] = "exited" => wpc[w] = "exited")
  BY DEF Notified
<1> QED
  BY <1>1, <1>3, <1>4

LEMMA MainKeeps ==
    ASSUME IInv, MainProceeds \/ Launch \/ Destroy \/ Join PROVE IInv'
<1>1. CASE MainProceeds
  <2>1. PoolTypes' /\ Gone' /\ NoLostWakeup'
    BY <1>1 DEF MainProceeds, IInv, PoolTypes, Gone, NoLostWakeup
  <2>2. Counted'
    BY <1>1, CountKept DEF MainProceeds, IInv, Asleep
  <2> QED
    BY <2>1, <2>2 DEF IInv
<1>2. CASE Launch
  <2>1. mpc = "launch" /\ mpc' = "wait" /\ wpc' = Notified
        /\ UNCHANGED <<sleeping_threads, planner_ok>>
    BY <1>2 DEF Launch, MGoto
  <2>2. PoolTypes' /\ Counted'
    BY <2>1, NotifyKeeps DEF PoolTypes, MainPc
  <2>3. planner_ok /\ ~\E w \in Worker : wpc[w] = "exited"
    BY <2>1 DEF IInv, Gone
  <2>4. Gone'
    BY <2>1, <2>3, NotifyKeeps DEF Gone
  <2>5. NoLostWakeup'
    <3>1. PICK w \in Worker : TRUE
      BY PoolAssumption
    <3>2. wpc'[w] \notin {"waiting", "exited"}
      BY <2>1, <2>3, NotifyKeeps
    <3> QED
      BY <3>2 DEF NoLostWakeup
  <2> QED
    BY <2>2, <2>4, <2>5 DEF IInv
<1>3. CASE Destroy
  <2>1. mpc' = "join" /\ wpc' = Notified /\ planner_ok' = FALSE /\ UNCHANGED sleeping_threads
    BY <1>3 DEF Destroy, MGoto
  <2>2. PoolTypes' /\ Counted'
    BY <2>1, NotifyKeeps DEF PoolTypes, MainPc
  <2>3. Gone' /\ NoLostWakeup'
    BY <2>1 DEF Gone, NoLostWakeup
  <2> QED
    BY <2>2, <2>3 DEF IInv
<1>4. CASE Join
  <2>1. mpc = "join" /\ mpc' = "gone" /\ UNCHANGED <<wpc, sleeping_threads, planner_ok>>
    BY <1>4 DEF Join, MGoto
  <2>2. PoolTypes' /\ Gone' /\ NoLostWakeup'
    BY <2>1 DEF IInv, PoolTypes, MainPc, Gone, NoLostWakeup
  <2>3. Counted'
    BY <2>1, CountKept DEF IInv, Asleep
  <2> QED
    BY <2>2, <2>3 DEF IInv
<1> QED
  BY <1>1, <1>2, <1>3, <1>4

\* Initially nobody sleeps yet; there is at least one worker.
LEMMA InitInv == Init => IInv
<1> SUFFICES ASSUME Init PROVE IInv
  OBVIOUS
<1>1. /\ mpc = "ctor" /\ wpc = [w \in Worker |-> "sleep"]
      /\ sleeping_threads = 0 /\ planner_ok = TRUE
  BY DEF Init, PoolInit
<1>2. PoolTypes /\ Gone
  BY <1>1 DEF PoolTypes, AsleepPc, AwakePc, MainPc, Gone
<1>3. Counted
  <2>1. Asleep = {}
    BY <1>1 DEF Asleep, AsleepPc
  <2> QED
    BY <1>1, <2>1, FS_EmptySet DEF Counted
<1>4. NoLostWakeup
  <2>1. PICK w \in Worker : TRUE
    BY PoolAssumption
  <2> QED
    BY <1>1, <2>1 DEF NoLostWakeup
<1> QED
  BY <1>2, <1>3, <1>4 DEF IInv

\* The pool's invariant holds in every reachable state.
THEOREM PoolInvariant == SafetySpec => []IInv
<1>1. IInv /\ [Next]_vars => IInv'
  <2> SUFFICES ASSUME IInv, [Next]_vars PROVE IInv'
    OBVIOUS
  <2>1. PoolNext
    BY PoolSteps
  <2>2. CASE UNCHANGED poolvars
    <3>1. UNCHANGED <<mpc, wpc, sleeping_threads, planner_ok>>
      BY <2>2 DEF poolvars
    <3>2. PoolTypes' /\ Gone' /\ NoLostWakeup'
      BY <3>1 DEF IInv, PoolTypes, Gone, NoLostWakeup
    <3>3. Counted'
      BY <3>1, CountKept DEF IInv, Asleep
    <3> QED
      BY <3>2, <3>3 DEF IInv
  <2> QED
    BY <2>1, <2>2, MainKeeps, ProceedKeeps, SleepKeeps, WakeKeeps DEF PoolNext
<1> QED
  BY <1>1, InitInv, PTL DEF SafetySpec

\* Main, in the constructor (pARA.cpp:238) or in Search (pARA.cpp:680), never
\* waits while all workers wait, for any number of workers: notify_one comes
\* from whoever raises sleeping_threads to NUM_THREADS, late wakers included.
THEOREM ParaNoLostWakeup == SafetySpec => []NoLostWakeup
<1>1. IInv => NoLostWakeup
  BY DEF IInv
<1> QED
  BY <1>1, PoolInvariant, PTL

------------------------------------------------------------------------------
(* OPEN as a sequence *)

Entry == [f : Int, vertex : Vertex]

\* The states of a queue, and that each is there once
StatesOf(q) == {q[i].vertex : i \in DOMAIN q}
Distinct(q) == \A i, j \in DOMAIN q : i # j => q[i].vertex # q[j].vertex

\* An entry that is erased is the only one of its state.
LEMMA RemovalStates ==
    ASSUME NEW q \in Seq(Entry), Distinct(q), NEW k \in DOMAIN q
    PROVE  /\ RemoveAt(q, k) \in Seq(Entry)
           /\ Distinct(RemoveAt(q, k))
           /\ StatesOf(RemoveAt(q, k)) = StatesOf(q) \ {q[k].vertex}
<1> DEFINE t == Removal(q, k)
           from(i) == IF i < k THEN i ELSE i + 1
<1>1. Len(q) \in Nat /\ DOMAIN q = 1..Len(q) /\ k \in 1..Len(q)
  OBVIOUS
<1>2. /\ t \in Seq(Entry) /\ Len(t) = Len(q) - 1
      /\ \A j \in 1..Len(q) : (j < k => t[j] = q[j]) /\ (j > k => t[j - 1] = q[j])
  BY <1>1, RemovalFacts
<1> HIDE DEF t
<1>3. DOMAIN t = 1..Len(q) - 1
  BY <1>2
<1>4. ASSUME NEW i \in DOMAIN t
      PROVE  from(i) \in DOMAIN q /\ from(i) # k /\ t[i] = q[from(i)]
  <2>1. CASE i < k
    BY <1>1, <1>2, <1>3, <2>1
  <2>2. CASE i >= k
    <3>1. i + 1 \in 1..Len(q) /\ i + 1 > k /\ (i + 1) - 1 = i
      BY <1>1, <1>3, <2>2
    <3>2. t[i] = q[i + 1]
      BY <1>2, <3>1
    <3> QED
      BY <1>1, <1>3, <2>2, <3>1, <3>2
  <2> QED
    BY <1>1, <1>3, <2>1, <2>2
<1>5. Distinct(t)
  <2> SUFFICES ASSUME NEW i \in DOMAIN t, NEW j \in DOMAIN t, i # j
               PROVE  t[i].vertex # t[j].vertex
    BY DEF Distinct
  <2>1. from(i) # from(j)
    BY <1>1, <1>3
  <2> QED
    BY <1>4, <2>1 DEF Distinct
<1>6. ASSUME NEW j \in DOMAIN q, j # k PROVE \E i \in DOMAIN t : t[i] = q[j]
  <2>1. CASE j < k
    <3>1. j \in DOMAIN t
      BY <1>1, <1>3, <2>1
    <3> QED
      BY <1>1, <1>2, <2>1, <3>1
  <2>2. CASE j > k
    <3>1. j - 1 \in DOMAIN t
      BY <1>1, <1>3, <2>2
    <3> QED
      BY <1>1, <1>2, <2>2, <3>1
  <2> QED
    BY <1>1, <1>6, <2>1, <2>2
<1>7. StatesOf(t) = StatesOf(q) \ {q[k].vertex}
  <2>1. ASSUME NEW x \in StatesOf(t) PROVE x \in StatesOf(q) /\ x # q[k].vertex
    <3>1. PICK i \in DOMAIN t : x = t[i].vertex
      BY DEF StatesOf
    <3> QED
      BY <1>4, <3>1 DEF StatesOf, Distinct
  <2>2. ASSUME NEW x \in StatesOf(q), x # q[k].vertex PROVE x \in StatesOf(t)
    <3>1. PICK j \in DOMAIN q : x = q[j].vertex
      BY DEF StatesOf
    <3>2. j # k
      BY <2>2, <3>1
    <3> QED
      BY <1>6, <3>1, <3>2 DEF StatesOf
  <2> QED
    BY <2>1, <2>2
<1>8. RemoveAt(q, k) = t
  BY DEF RemoveAt, Removal, t
<1> QED
  BY <1>2, <1>5, <1>7, <1>8

\* A state that is not in the queue is there once when it was inserted.
LEMMA InsertionStates ==
    ASSUME NEW q \in Seq(Entry), Distinct(q), NEW e \in Entry, e.vertex \notin StatesOf(q),
           NEW p \in 1..Len(q) + 1
    PROVE  /\ InsertAt(q, p, e) \in Seq(Entry)
           /\ Distinct(InsertAt(q, p, e))
           /\ StatesOf(InsertAt(q, p, e)) = StatesOf(q) \cup {e.vertex}
<1> DEFINE t == Insertion(q, p, e)
           from(i) == IF i < p THEN i ELSE i - 1
<1>1. Len(q) \in Nat /\ DOMAIN q = 1..Len(q)
  OBVIOUS
<1>2. /\ t \in Seq(Entry) /\ Len(t) = Len(q) + 1 /\ t[p] = e
      /\ \A j \in 1..Len(q) : (j < p => t[j] = q[j]) /\ (j >= p => t[j + 1] = q[j])
  BY InsertionFacts
<1> HIDE DEF t
<1>3. DOMAIN t = 1..Len(q) + 1
  BY <1>1, <1>2
<1>4. ASSUME NEW i \in DOMAIN t, i # p
      PROVE  from(i) \in DOMAIN q /\ t[i] = q[from(i)]
  <2>1. CASE i < p
    BY <1>1, <1>2, <1>3, <2>1
  <2>2. CASE i > p
    <3>1. i - 1 \in 1..Len(q) /\ i - 1 >= p /\ (i - 1) + 1 = i
      BY <1>1, <1>3, <2>2
    <3>2. t[i] = q[i - 1]
      BY <1>2, <3>1
    <3> QED
      BY <1>1, <1>3, <2>2, <3>1, <3>2
  <2> QED
    BY <1>1, <1>3, <1>4, <2>1, <2>2
<1>5. ASSUME NEW i \in DOMAIN t, i # p PROVE t[i].vertex \in StatesOf(q)
  BY <1>4, <1>5 DEF StatesOf
<1>6. Distinct(t)
  <2> SUFFICES ASSUME NEW i \in DOMAIN t, NEW j \in DOMAIN t, i # j
               PROVE  t[i].vertex # t[j].vertex
    BY DEF Distinct
  <2>1. CASE i # p /\ j # p
    <3>1. from(i) # from(j)
      BY <1>1, <1>3, <2>1
    <3> QED
      BY <1>4, <2>1, <3>1 DEF Distinct
  <2>2. CASE i = p \/ j = p
    BY <1>2, <1>5, <2>2
  <2> QED
    BY <2>1, <2>2
<1>7. ASSUME NEW j \in DOMAIN q PROVE \E i \in DOMAIN t : t[i] = q[j]
  <2>1. j \in DOMAIN t /\ j + 1 \in DOMAIN t
    BY <1>1, <1>3
  <2> QED
    BY <1>1, <1>2, <2>1
<1>8. StatesOf(t) = StatesOf(q) \cup {e.vertex}
  <2>1. ASSUME NEW x \in StatesOf(t) PROVE x \in StatesOf(q) \/ x = e.vertex
    <3>1. PICK i \in DOMAIN t : x = t[i].vertex
      BY DEF StatesOf
    <3> QED
      BY <1>2, <1>5, <3>1
  <2>2. ASSUME NEW x \in StatesOf(q) PROVE x \in StatesOf(t)
    <3>1. PICK j \in DOMAIN q : x = q[j].vertex
      BY DEF StatesOf
    <3> QED
      BY <1>7, <3>1 DEF StatesOf
  <2>3. e.vertex \in StatesOf(t)
    BY <1>1, <1>2, <1>3 DEF StatesOf
  <2> QED
    BY <2>1, <2>2, <2>3
<1>9. InsertAt(q, p, e) = t
  BY DEF InsertAt, Insertion, t
<1> QED
  BY <1>2, <1>6, <1>8, <1>9

\* myHeap::insert adds a state to the queue or moves it within the queue.
LEMMA InsertedStates ==
    ASSUME NEW q \in Seq(Entry), Distinct(q), NEW x \in Vertex, NEW key \in Int
    PROVE  /\ Inserted(q, x, key) \in Seq(Entry)
           /\ Distinct(Inserted(q, x, key))
           /\ StatesOf(Inserted(q, x, key)) = StatesOf(q) \cup {x}
<1> DEFINE I    == {i \in DOMAIN q : q[i].vertex = x}
           rest == IF I = {} THEN q ELSE RemoveAt(q, CHOOSE i \in I : TRUE)
           B    == {i \in DOMAIN rest : rest[i].f <= key}
           k    == Cardinality(B)
           e    == [f |-> key, vertex |-> x]
<1>1. rest \in Seq(Entry) /\ Distinct(rest) /\ StatesOf(rest) = StatesOf(q) \ {x}
  <2>1. CASE I = {}
    BY <2>1 DEF StatesOf
  <2>2. CASE I # {}
    <3> DEFINE j == CHOOSE i \in I : TRUE
    <3>1. j \in I
      BY <2>2
    <3>2. j \in DOMAIN q /\ q[j].vertex = x
      BY <3>1
    <3> HIDE DEF j
    <3>3. /\ RemoveAt(q, j) \in Seq(Entry) /\ Distinct(RemoveAt(q, j))
          /\ StatesOf(RemoveAt(q, j)) = StatesOf(q) \ {x}
      BY <3>2, RemovalStates
    <3> QED
      BY <2>2, <3>3 DEF j
  <2> QED
    BY <2>1, <2>2
<1> HIDE DEF rest
<1>2. k + 1 \in 1..Len(rest) + 1
  <2>1. B \in SUBSET DOMAIN rest
    OBVIOUS
  <2>2. k \in 0..Len(rest) /\ Len(rest) \in Nat
    BY <1>1, <2>1, CountFits
  <2> QED
    BY <2>2
<1>3. e \in Entry /\ e.vertex = x
  BY DEF Entry
<1>4. x \notin StatesOf(rest)
  BY <1>1
<1>5. Inserted(q, x, key) = InsertAt(rest, k + 1, e)
  BY DEF Inserted, rest
<1> HIDE DEF k, e, B
<1>6. /\ InsertAt(rest, k + 1, e) \in Seq(Entry)
      /\ Distinct(InsertAt(rest, k + 1, e))
      /\ StatesOf(InsertAt(rest, k + 1, e)) = StatesOf(rest) \cup {x}
  BY <1>1, <1>2, <1>3, <1>4, InsertionStates
<1> QED
  BY <1>1, <1>5, <1>6

------------------------------------------------------------------------------
(* The states of the search *)

StateTypes ==
    /\ gpred \in [Vertex -> VertPack]
    /\ v \in [Vertex -> 0..IntMax]
    /\ iteration_closed \in [Vertex -> Int]
    /\ open \in Seq(Entry)
    /\ incons \in Seq(Vertex)
    /\ being_expanded \in [Worker -> Vertex \cup {NoVertex}]
    /\ arc \in [Worker -> Nat]
    /\ search_iteration \in Nat
    /\ eps \in Nat

Expanded == {x \in Vertex : v[x] # INFINITECOST}

\* Costs stay within the budget of one arc per expanded state; v is a former g.
Costs ==
    /\ BudgetOf(gpred, Expanded)
    /\ g(source) = 0
    /\ \A x \in Vertex : g(x) <= v[x] /\ iteration_closed[x] <= search_iteration
    /\ \A x \in Expanded : v[x] <= MaxWeight * (Cardinality(Expanded) - 1)

\* Whoever relaxes arcs does so for a state that is expanded.
Expander(w) ==
    /\ wpc[w] \in {"update", "locked"} => being_expanded[w] \in Expanded
    /\ wpc[w] = "locked" => arc[w] > 0

\* Until replan is called nobody searches and nothing is queued.
NotStarted ==
    mpc \in {"ctor", "built"} =>
       /\ \A w \in Worker : wpc[w] \in {"sleep", "waiting"}
       /\ open = <<>> /\ incons = <<>> /\ search_iteration = 0
       /\ \A x \in Vertex : v[x] = INFINITECOST /\ iteration_closed[x] = -1

SInv == StateTypes /\ Costs /\ QueuesSound /\ NotStarted /\ \A w \in Worker : Expander(w)

\* QueuesSound in terms of the states in the queue.
LEMMA QueuesSoundMeans ==
    QueuesSound <=>
       /\ Distinct(open)
       /\ \A x \in StatesOf(open) :
             g(x) < v[x] /\ (iteration_closed[x] # search_iteration \/ mpc = "prepare")
       /\ \A i \in DOMAIN incons :
             /\ g(incons[i]) < v[incons[i]] /\ iteration_closed[incons[i]] = search_iteration
             /\ \A j \in 1..i - 1 : incons[j] # incons[i]
BY DEF QueuesSound, Distinct, StatesOf, InOpen, Inconsistent

\* What is queued are states.
LEMMA QueuedStates ==
    ASSUME StateTypes
    PROVE  StatesOf(open) \subseteq Vertex /\ \A i \in DOMAIN incons : incons[i] \in Vertex
<1>1. ASSUME NEW i \in DOMAIN open PROVE open[i].vertex \in Vertex
  <2>1. open[i] \in Entry
    BY DEF StateTypes
  <2> QED
    BY <2>1 DEF Entry
<1>2. \A i \in DOMAIN incons : incons[i] \in Vertex
  BY DEF StateTypes
<1> QED
  BY <1>1, <1>2 DEF StatesOf

\* The first state satisfies the invariant.
LEMMA InitSInv == Init => SInv
<1> SUFFICES ASSUME Init PROVE SInv
  OBVIOUS
<1>1. source \in Vertex /\ IntMax \in Nat
  BY GraphAssumption
<1>2. gpred = [x \in Vertex |-> IF x = source THEN [distance |-> 0, pred |-> NoVertex]
                                ELSE [distance |-> IntMax, pred |-> NoVertex]]
  BY DEF Init, InitGpred
<1>3. gpred \in [Vertex -> VertPack]
  BY <1>1, <1>2 DEF VertPack
<1>4. \A x \in Vertex : g(x) = IF x = source THEN 0 ELSE IntMax
  BY <1>2 DEF g
<1>5. StateTypes
  <2>1. v \in [Vertex -> 0..IntMax] /\ iteration_closed \in [Vertex -> Int]
    BY <1>1 DEF Init, INFINITECOST
  <2>2. being_expanded \in [Worker -> Vertex \cup {NoVertex}] /\ arc \in [Worker -> Nat]
    BY DEF Init
  <2>3. search_iteration \in Nat /\ eps \in Nat /\ open \in Seq(Entry) /\ incons \in Seq(Vertex)
    BY PAraAssumption DEF Init
  <2> QED
    BY <1>3, <2>1, <2>2, <2>3 DEF StateTypes
<1>6. Expanded = {}
  BY DEF Init, Expanded
<1>7. BudgetOf(gpred, Expanded)
  BY <1>4, <1>6, BudgetInit DEF g
<1>8. Costs
  <2>1. \A x \in Vertex : g(x) <= v[x] /\ iteration_closed[x] <= search_iteration
    BY <1>1, <1>4 DEF Init, INFINITECOST
  <2> QED
    BY <1>1, <1>4, <1>6, <1>7, <2>1 DEF Costs
<1>9. open = <<>> /\ incons = <<>> /\ DOMAIN open = {} /\ DOMAIN incons = {}
  BY DEF Init
<1>10. QueuesSound
  BY <1>9 DEF QueuesSound, InOpen
<1>11. NotStarted /\ \A w \in Worker : Expander(w)
  BY DEF Init, PoolInit, NotStarted, Expander
<1> QED
  BY <1>5, <1>8, <1>10, <1>11 DEF SInv

\* A step that leaves the states and the lists alone; it may only move threads
\* that do not start to relax.
LEMMA QuietSInv ==
    ASSUME IInv, IInv', SInv,
           UNCHANGED <<gpred, v, iteration_closed, open, incons, search_iteration>>,
           eps' \in Nat, being_expanded' \in [Worker -> Vertex \cup {NoVertex}],
           arc' \in [Worker -> Nat],
           mpc' \in {"ctor", "built"} => mpc \in {"ctor", "built"},
           mpc = "prepare" => mpc' = "prepare",
           \A w \in Worker :
              /\ mpc' \in {"ctor", "built"} => wpc'[w] \in {wpc[w], "waiting"}
              /\ wpc'[w] \in {"update", "locked"} =>
                    wpc[w] \in {"update", "locked"} /\ being_expanded'[w] = being_expanded[w]
              /\ wpc'[w] = "locked" => arc'[w] > 0
    PROVE  SInv'
<1>1. StateTypes'
  BY DEF SInv, StateTypes
<1>2. Expanded' = Expanded
  BY DEF Expanded
<1>3. Costs'
  <2>1. BudgetOf(gpred', Expanded')
    BY <1>2 DEF SInv, Costs
  <2> QED
    BY <1>2, <2>1 DEF SInv, Costs, g
<1>4. QueuesSound'
  BY DEF SInv, QueuesSound, InOpen, Inconsistent, g
<1>5. NotStarted'
  BY DEF SInv, NotStarted
<1>6. \A w \in Worker : Expander(w)'
  BY <1>2 DEF SInv, Expander
<1> QED
  BY <1>1, <1>3, <1>4, <1>5, <1>6 DEF SInv

\* The steps of main that leave the states and the lists alone.
LEMMA MainQuiet ==
    ASSUME IInv, IInv', SInv,
           \/ SearchLoop \/ SetEps \/ Collect \/ TestGoal \/ Walk
           \/ (Launch \/ Destroy \/ Join) /\ UNCHANGED <<states, lists, wlocals, outcome, weights, query>>
    PROVE  SInv'
<1>1. UNCHANGED <<gpred, v, iteration_closed, open, incons, search_iteration, being_expanded, arc>>
  BY DEF SearchLoop, SetEps, Collect, TestGoal, Walk, states, lists, wlocals, weights
<1>2. StateTypes /\ wpc \in [Worker -> AsleepPc \cup AwakePc]
  BY DEF SInv, IInv, PoolTypes
<1>3. eps' \in Nat
  <2>1. eps' = eps \/ eps' = NextEps
    BY DEF SearchLoop, SetEps, Collect, TestGoal, Walk, weights
  <2>2. eps \in Nat /\ FinalEps \in Nat /\ DecEps \in Nat
    BY <1>2, PAraAssumption DEF StateTypes
  <2> QED
    BY <2>1, <2>2 DEF NextEps
<1>4. /\ mpc' \notin {"ctor", "built"} /\ mpc # "prepare"
      /\ wpc' = wpc \/ wpc' = Notified
  BY DEF SearchLoop, SetEps, Collect, TestGoal, Walk, Launch, Destroy, Join, MGoto, threads
<1>5. \A w \in Worker : wpc'[w] \in {"update", "locked"} => wpc'[w] = wpc[w]
  BY <1>4 DEF Notified
<1>6. \A w \in Worker : wpc'[w] = "locked" => arc'[w] > 0
  BY <1>1, <1>5 DEF SInv, Expander
<1> HIDE DEF SInv, IInv
<1> QED
  BY <1>1, <1>2, <1>3, <1>4, <1>5, <1>6, QuietSInv DEF StateTypes

\* So do the workers' steps, other than those that take or relax a state.
LEMMA WorkerQuiet ==
    ASSUME IInv, IInv', SInv, NEW w \in Worker,
           \/ Leave(w) \/ GiveUp(w) \/ Spin(w) \/ UpdateSuccs(w) \/ Unlock(w) \/ Clear(w) \/ StoreResult(w)
           \/ (Sleep(w) \/ Wake(w) \/ Check(w)) /\ UNCHANGED <<states, lists, wlocals, outcome, weights, query>>
    PROVE  SInv'
<1>1. UNCHANGED <<gpred, v, iteration_closed, open, incons, search_iteration, eps>>
  BY DEF Leave, GiveUp, Spin, UpdateSuccs, Unlock, Clear, StoreResult, states, lists, weights
<1>2. StateTypes /\ wpc \in [Worker -> AsleepPc \cup AwakePc]
  BY DEF SInv, IInv, PoolTypes
<1>3. /\ being_expanded' \in {being_expanded, [being_expanded EXCEPT ![w] = NoVertex]}
      /\ arc' \in {arc, [arc EXCEPT ![w] = 1], [arc EXCEPT ![w] = 0]}
  BY DEF Leave, GiveUp, Spin, UpdateSuccs, Unlock, Clear, StoreResult, wlocals
<1>4. being_expanded' \in [Worker -> Vertex \cup {NoVertex}] /\ arc' \in [Worker -> Nat]
  <2>1. \A x \in Vertex \cup {NoVertex} :
           [being_expanded EXCEPT ![w] = x] \in [Worker -> Vertex \cup {NoVertex}]
    BY <1>2 DEF StateTypes
  <2>2. \A i \in Nat : [arc EXCEPT ![w] = i] \in [Worker -> Nat]
    BY <1>2 DEF StateTypes
  <2>3. being_expanded \in [Worker -> Vertex \cup {NoVertex}] /\ arc \in [Worker -> Nat]
    BY <1>2 DEF StateTypes
  <2>4. being_expanded' \in [Worker -> Vertex \cup {NoVertex}]
    BY <1>3, <2>1, <2>3
  <2>5. arc' \in [Worker -> Nat]
    BY <1>3, <2>2, <2>3
  <2> QED
    BY <2>4, <2>5
<1>5. \A u \in Worker : u # w => /\ wpc'[u] = wpc[u] /\ being_expanded'[u] = being_expanded[u]
                                 /\ arc'[u] = arc[u]
  <2>1. \A u \in Worker : u # w => wpc'[u] = wpc[u]
    BY <1>2 DEF Leave, GiveUp, Spin, UpdateSuccs, Unlock, Clear, StoreResult, Sleep, Wake, Check, WGoto
  <2> QED
    BY <1>2, <1>3, <2>1 DEF StateTypes
<1>6. /\ wpc'[w] \in {"update", "locked"} => wpc[w] = "update" /\ UpdateSuccs(w)
      /\ wpc[w] \in {"sleep", "waiting"} => wpc'[w] = "waiting"
  BY <1>2 DEF Leave, GiveUp, Spin, Searching, UpdateSuccs, Unlock, Clear, StoreResult, Sleep, Wake, Check, WGoto
<1>7. wpc'[w] \in {"update", "locked"} => being_expanded'[w] = being_expanded[w] /\ arc'[w] = 1
  BY <1>2, <1>6 DEF UpdateSuccs, StateTypes
<1>8. (mpc' \in {"ctor", "built"} => mpc \in {"ctor", "built"}) /\ (mpc = "prepare" => mpc' = "prepare")
  BY DEF Leave, GiveUp, Spin, UpdateSuccs, Unlock, Clear, StoreResult, Sleep, Wake, Check, MainNotified
<1>9. ASSUME NEW u \in Worker
      PROVE  /\ mpc' \in {"ctor", "built"} => wpc'[u] \in {wpc[u], "waiting"}
             /\ wpc'[u] \in {"update", "locked"} =>
                   wpc[u] \in {"update", "locked"} /\ being_expanded'[u] = being_expanded[u]
             /\ wpc'[u] = "locked" => arc'[u] > 0
  <2>1. mpc' \in {"ctor", "built"} => wpc[u] \in {"sleep", "waiting"}
    BY <1>8 DEF SInv, NotStarted
  <2>2. wpc[u] = "locked" => arc[u] > 0
    BY DEF SInv, Expander
  <2> QED
    BY <1>5, <1>6, <1>7, <2>1, <2>2
<1> HIDE DEF SInv, IInv
<1> QED
  BY <1>1, <1>2, <1>4, <1>8, <1>9, QuietSInv DEF StateTypes

\* initializeSearch queues the start state, which nobody has expanded.
LEMMA ReplanSInv ==
    ASSUME IInv, IInv', SInv, Replan
    PROVE  SInv'
<1> DEFINE e == [f |-> InitialEps * Heuristic[source], vertex |-> source]
<1>1. /\ open' = <<e>> /\ mpc = "built" /\ mpc' = "loop"
      /\ UNCHANGED <<gpred, v, iteration_closed, incons, search_iteration, eps, being_expanded, arc, wpc>>
  BY DEF Replan, MGoto, threads, states, wlocals, weights
<1>2. source \in Vertex /\ Heuristic[source] \in Nat /\ InitialEps \in Nat /\ 0 < IntMax
  <2>1. {} \in SUBSET Vertex
    OBVIOUS
  <2>2. 0 < IntMax
    BY <2>1, BudgetFits
  <2> QED
    BY <2>2, GraphAssumption, PAraAssumption
<1>3. e \in Entry
  BY <1>2 DEF Entry
<1>4. open' \in Seq(Entry) /\ DOMAIN open' = {1} /\ open'[1].vertex = source
  <2> HIDE DEF e
  <2>1. open' \in Seq(Entry) /\ DOMAIN open' = {1} /\ open'[1] = e
    BY <1>1, <1>3
  <2> QED
    BY <2>1 DEF e
<1>5. StateTypes'
  BY <1>1, <1>4 DEF SInv, StateTypes
<1>6. Expanded' = Expanded /\ BudgetOf(gpred', Expanded')
  BY <1>1 DEF Expanded, SInv, Costs
<1>7. Costs'
  BY <1>1, <1>6 DEF SInv, Costs, g
<1>8. QueuesSound'
  <2>1. /\ incons = <<>> /\ search_iteration = 0 /\ v[source] = IntMax /\ iteration_closed[source] = -1
        /\ g(source) = 0
    BY <1>1, <1>2 DEF SInv, NotStarted, Costs, INFINITECOST
  <2>2. InOpen' = {source}
    BY <1>4 DEF InOpen
  <2>3. DOMAIN incons' = {}
    BY <1>1, <2>1
  <2> QED
    BY <1>1, <1>2, <1>4, <2>1, <2>2, <2>3 DEF QueuesSound, Inconsistent, g
<1>9. NotStarted' /\ \A w \in Worker : Expander(w)'
  BY <1>1, <1>6 DEF SInv, NotStarted, Expander
<1> QED
  BY <1>5, <1>7, <1>8, <1>9 DEF SInv

\* The next iteration begins with an empty INCONS and no state closed.
LEMMA NextIterationSInv ==
    ASSUME IInv, IInv', SInv, NextIteration
    PROVE  SInv'
<1>1. /\ search_iteration' = search_iteration + 1 /\ mpc' = "loop" /\ incons = <<>>
      /\ UNCHANGED <<gpred, v, iteration_closed, open, incons, eps, being_expanded, arc, wpc>>
  BY DEF NextIteration, MGoto, threads, states, lists, wlocals
<1>2. StateTypes
  BY DEF SInv
<1>3. StateTypes'
  BY <1>1, <1>2 DEF StateTypes
<1>4. Expanded' = Expanded /\ BudgetOf(gpred', Expanded')
  BY <1>1 DEF Expanded, SInv, Costs
<1>5. \A x \in Vertex : iteration_closed[x] < search_iteration'
  BY <1>1, <1>2 DEF SInv, Costs, StateTypes
<1>6. Costs'
  BY <1>1, <1>2, <1>4, <1>5 DEF SInv, Costs, g, StateTypes
<1>7. QueuesSound'
  <2>1. InOpen \subseteq Vertex /\ InOpen' = InOpen
    BY <1>1, <1>2, QueuedStates DEF InOpen, StatesOf
  <2>2. DOMAIN incons' = {}
    BY <1>1
  <2>3. \A x \in InOpen : iteration_closed[x] # search_iteration'
    BY <1>1, <1>2, <1>5, <2>1 DEF StateTypes
  <2> QED
    BY <1>1, <2>1, <2>2, <2>3 DEF SInv, QueuesSound, Inconsistent, g
<1>8. NotStarted' /\ \A w \in Worker : Expander(w)'
  BY <1>1, <1>4 DEF SInv, NotStarted, Expander
<1> QED
  BY <1>3, <1>6, <1>7, <1>8 DEF SInv

\* A state moves from INCONS to OPEN.
LEMMA RequeueSInv ==
    ASSUME IInv, IInv', SInv, Requeue
    PROVE  /\ SInv'
           /\ StatesOf(open') = StatesOf(open) \cup {incons[Len(incons)]}
           /\ Len(incons) \in Nat \ {0} /\ Len(incons') = Len(incons) - 1
           /\ \A i \in 1..Len(incons) - 1 : incons'[i] = incons[i]
<1> DEFINE n == Len(incons)
           x == incons[n]
<1>1. /\ open' = Inserted(open, x, Key(g(x), x)) /\ incons' = SubSeq(incons, 1, n - 1)
      /\ incons # <<>> /\ mpc = "prepare"
      /\ UNCHANGED <<gpred, v, iteration_closed, search_iteration, eps, being_expanded, arc, wpc, mpc>>
  BY DEF Requeue, Last, Front, poolvars, states, wlocals, weights
<1>2. StateTypes /\ incons \in Seq(Vertex)
  BY DEF SInv, StateTypes
<1>3. n \in Nat \ {0} /\ DOMAIN incons = 1..n /\ x \in Vertex
  BY <1>1, <1>2
<1>4. /\ Distinct(open)
      /\ \A y \in StatesOf(open) : g(y) < v[y]
      /\ \A i \in DOMAIN incons :
             /\ g(incons[i]) < v[incons[i]] /\ iteration_closed[incons[i]] = search_iteration
             /\ \A j \in 1..i - 1 : incons[j] # incons[i]
  BY QueuesSoundMeans DEF SInv
<1>5. /\ incons' \in Seq(Vertex) /\ Len(incons') = n - 1 /\ DOMAIN incons' = 1..n - 1
      /\ \A i \in 1..n - 1 : incons'[i] = incons[i]
  <2>1. 1 \in 1..n + 1 /\ n - 1 \in 0..n /\ 1 <= (n - 1) + 1
    BY <1>3
  <2>2. /\ SubSeq(incons, 1, n - 1) \in Seq(Vertex) /\ Len(SubSeq(incons, 1, n - 1)) = (n - 1) - 1 + 1
        /\ \A i \in 1..(n - 1) - 1 + 1 : SubSeq(incons, 1, n - 1)[i] = incons[1 + i - 1]
    BY <1>2, <2>1, PartFacts
  <2>3. (n - 1) - 1 + 1 = n - 1 /\ \A i \in Int : 1 + i - 1 = i
    BY <1>3
  <2>4. /\ incons' \in Seq(Vertex) /\ Len(incons') = n - 1
        /\ \A i \in 1..n - 1 : incons'[i] = incons[i]
    BY <1>1, <2>2, <2>3
  <2> QED
    BY <2>4
<1> HIDE DEF n, x
<1>6. /\ open' \in Seq(Entry) /\ Distinct(open') /\ StatesOf(open') = StatesOf(open) \cup {x}
  <2>1. Heuristic[x] \in Nat /\ g(x) \in Int /\ eps \in Nat
    BY <1>2, <1>3, GraphAssumption DEF StateTypes, VertPack, g
  <2>2. Key(g(x), x) \in Int
    BY <2>1 DEF Key
  <2>3. open \in Seq(Entry)
    BY <1>2 DEF StateTypes
  <2> QED
    BY <1>1, <1>3, <1>4, <2>2, <2>3, InsertedStates
<1>7. StateTypes'
  BY <1>1, <1>2, <1>5, <1>6 DEF StateTypes
<1>8. Expanded' = Expanded /\ BudgetOf(gpred', Expanded')
  BY <1>1 DEF Expanded, SInv, Costs
<1>9. Costs'
  BY <1>1, <1>8 DEF SInv, Costs, g
<1>10. QueuesSound'
  <2>1. g(x) < v[x]
    BY <1>3, <1>4 DEF x
  <2>2. \A y \in StatesOf(open') : gpred'[y].distance < v'[y] /\ mpc' = "prepare"
    BY <1>1, <1>4, <1>6, <2>1 DEF g
  <2>3. ASSUME NEW i \in DOMAIN incons'
        PROVE  /\ gpred'[incons'[i]].distance < v'[incons'[i]] /\ iteration_closed'[incons'[i]] = search_iteration'
               /\ \A j \in 1..i - 1 : incons'[j] # incons'[i]
    <3>1. i \in DOMAIN incons /\ i \in 1..n - 1 /\ 1..i - 1 \subseteq 1..n - 1
      BY <1>3, <1>5
    <3>2. incons'[i] = incons[i] /\ \A j \in 1..i - 1 : incons'[j] = incons[j]
      BY <1>5, <3>1
    <3> QED
      BY <1>1, <1>4, <3>1, <3>2 DEF g
  <2>4. \A i, j \in DOMAIN open' : i # j => open'[i].vertex # open'[j].vertex
    BY <1>6 DEF Distinct
  <2>5. InOpen' = StatesOf(open')
    BY DEF InOpen, StatesOf
  <2> QED
    BY <2>2, <2>3, <2>4, <2>5 DEF QueuesSound, Inconsistent, g
<1>11. NotStarted' /\ \A w \in Worker : Expander(w)'
  BY <1>1, <1>8 DEF SInv, NotStarted, Expander
<1>12. SInv'
  BY <1>7, <1>9, <1>10, <1>11 DEF SInv
<1> QED
  BY <1>3, <1>5, <1>6, <1>12 DEF x, n

\* A state that is removed from OPEN is reached, and nowhere else.
LEMMA RemovesFacts ==
    ASSUME SInv, NEW w \in Worker, NEW k \in DOMAIN open, Removes(w, k)
    PROVE  /\ open' \in Seq(Entry) /\ Distinct(open')
           /\ open[k].vertex \in Vertex
           /\ StatesOf(open') = StatesOf(open) \ {open[k].vertex}
           /\ g(open[k].vertex) < v[open[k].vertex]
           /\ iteration_closed[open[k].vertex] # search_iteration
           /\ mpc \notin {"prepare", "ctor", "built"} /\ wpc[w] \in {"improve", "spin"}
           /\ ~iteration_done
           /\ \A i \in DOMAIN incons : incons[i] # open[k].vertex
<1>1. /\ MutexFree /\ ~iteration_done /\ wpc[w] \in {"improve", "spin"} /\ open' = RemoveAt(open, k)
  BY DEF Removes, Searching
<1>2. open \in Seq(Entry) /\ StateTypes
  BY DEF SInv, StateTypes
<1>3. /\ Distinct(open)
      /\ \A x \in StatesOf(open) : g(x) < v[x] /\ (iteration_closed[x] # search_iteration \/ mpc = "prepare")
      /\ \A i \in DOMAIN incons : iteration_closed[incons[i]] = search_iteration
  BY QueuesSoundMeans DEF SInv
<1>4. open[k].vertex \in StatesOf(open) /\ StatesOf(open) \subseteq Vertex
  BY <1>2, QueuedStates DEF StatesOf
<1>5. mpc # "prepare"
  BY <1>1 DEF MutexFree
<1>6. mpc \notin {"ctor", "built"}
  BY <1>1 DEF SInv, NotStarted
<1>7. /\ RemoveAt(open, k) \in Seq(Entry) /\ Distinct(RemoveAt(open, k))
      /\ StatesOf(RemoveAt(open, k)) = StatesOf(open) \ {open[k].vertex}
  BY <1>2, <1>3, RemovalStates
<1> QED
  BY <1>1, <1>3, <1>4, <1>5, <1>6, <1>7

\* The state whose removal ends the iteration is dropped.
LEMMA FinishSInv ==
    ASSUME IInv, IInv', SInv, NEW w \in Worker, NEW k \in DOMAIN open, Finish(w, k)
    PROVE  SInv'
<1>1. Removes(w, k) /\ wpc' = [wpc EXCEPT ![w] = "result"]
      /\ UNCHANGED <<gpred, v, iteration_closed, incons, search_iteration, eps, being_expanded, arc, mpc>>
  BY DEF Finish, WGoto, states, weights
<1>2. /\ open' \in Seq(Entry) /\ Distinct(open') /\ StatesOf(open') \subseteq StatesOf(open)
      /\ mpc \notin {"prepare", "ctor", "built"}
  BY <1>1, RemovesFacts
<1>3. StateTypes /\ StateTypes' /\ wpc \in [Worker -> AsleepPc \cup AwakePc]
  BY <1>1, <1>2 DEF SInv, StateTypes, IInv, PoolTypes
<1>4. Expanded' = Expanded /\ BudgetOf(gpred', Expanded')
  BY <1>1 DEF Expanded, SInv, Costs
<1>5. Costs'
  BY <1>1, <1>4 DEF SInv, Costs, g
<1>6. QueuesSound'
  <2>1. InOpen = StatesOf(open) /\ InOpen' = StatesOf(open')
    BY DEF InOpen, StatesOf
  <2>2. \A i, j \in DOMAIN open' : i # j => open'[i].vertex # open'[j].vertex
    BY <1>2 DEF Distinct
  <2> QED
    BY <1>1, <1>2, <2>1, <2>2 DEF SInv, QueuesSound, Inconsistent, g
<1>7. NotStarted' /\ \A u \in Worker : Expander(u)'
  BY <1>1, <1>2, <1>3, <1>4 DEF SInv, NotStarted, Expander
<1> QED
  BY <1>3, <1>5, <1>6, <1>7 DEF SInv

\* An expansion makes its state consistent, and closes it.
LEMMA ExpandSInv ==
    ASSUME IInv, IInv', SInv, NEW w \in Worker, NEW k \in DOMAIN open, Expand(w, k)
    PROVE  /\ SInv'
           /\ Expanded' = Expanded \cup {open[k].vertex} /\ open[k].vertex \in Vertex
           /\ g(open[k].vertex) # IntMax
<1> DEFINE x == open[k].vertex
           n == Cardinality(Expanded)
           m == Cardinality(Expanded \cup {x})
<1>1. Removes(w, k) /\ wpc' = [wpc EXCEPT ![w] = "update"]
      /\ v' = [v EXCEPT ![x] = g(x)]
      /\ iteration_closed' = [iteration_closed EXCEPT ![x] = search_iteration]
      /\ being_expanded' = [being_expanded EXCEPT ![w] = x]
      /\ UNCHANGED <<gpred, incons, search_iteration, eps, arc, mpc>>
  BY DEF Expand, WGoto, weights
<1>2. /\ open' \in Seq(Entry) /\ Distinct(open') /\ StatesOf(open') = StatesOf(open) \ {x}
      /\ x \in Vertex /\ g(x) < v[x] /\ mpc \notin {"prepare", "ctor", "built"}
      /\ \A i \in DOMAIN incons : incons[i] # x
  BY <1>1, RemovesFacts
<1> HIDE DEF x
<1>3. StateTypes /\ wpc \in [Worker -> AsleepPc \cup AwakePc] /\ IntMax \in Nat
  BY GraphAssumption DEF SInv, IInv, PoolTypes
<1>4. /\ \A y \in Vertex : g(y) \in Nat /\ v[y] \in 0..IntMax /\ g(y) <= v[y]
      /\ BudgetOf(gpred, Expanded) /\ Expanded \in SUBSET Vertex
  BY <1>3 DEF SInv, Costs, StateTypes, BudgetOf, g, Expanded
<1>5. g(x) # IntMax /\ g(x) \in 0..IntMax
  BY <1>2, <1>3, <1>4
<1>6. StateTypes'
  <2>1. v' \in [Vertex -> 0..IntMax] /\ iteration_closed' \in [Vertex -> Int]
    BY <1>1, <1>2, <1>3, <1>5 DEF StateTypes
  <2>2. being_expanded' \in [Worker -> Vertex \cup {NoVertex}]
    BY <1>1, <1>2, <1>3 DEF StateTypes
  <2> QED
    BY <1>1, <1>2, <1>3, <2>1, <2>2 DEF StateTypes
<1>7. /\ v'[x] = g(x) /\ iteration_closed'[x] = search_iteration
      /\ \A y \in Vertex : y # x => v'[y] = v[y] /\ iteration_closed'[y] = iteration_closed[y]
  BY <1>1, <1>2, <1>3 DEF StateTypes
<1>8. Expanded' = Expanded \cup {x}
  BY <1>2, <1>5, <1>7 DEF Expanded, INFINITECOST
<1>9. /\ BudgetOf(gpred, Expanded') /\ g(x) <= MaxWeight * (m - 1)
      /\ MaxWeight * (n - 1) <= MaxWeight * (m - 1)
      /\ MaxWeight * (n - 1) \in Int /\ MaxWeight * (m - 1) \in Int
  <2>1. Expanded' \in SUBSET Vertex /\ Cardinality(Expanded') = m
    BY <1>2, <1>4, <1>8
  <2>2. MaxWeight * (n - 1) \in Int /\ MaxWeight * (Cardinality(Expanded') - 1) \in Int
    BY <1>4, <2>1, BudgetFits
  <2>3. /\ BudgetOf(gpred, Expanded')
        /\ MaxWeight * (n - 1) <= MaxWeight * (m - 1)
    <3>1. CASE x \in Expanded
      <4>1. Expanded' = Expanded /\ n = m
        BY <1>8, <3>1
      <4> QED
        BY <1>4, <2>2, <4>1
    <3>2. CASE x \notin Expanded
      BY <1>2, <1>4, <1>5, <1>8, <3>2, BudgetExpand DEF g
    <3> QED
      BY <3>1, <3>2
  <2>4. g(x) <= MaxWeight * (Cardinality(Expanded') - 1)
    BY <1>2, <1>8, <2>3 DEF BudgetOf, g
  <2> QED
    BY <2>1, <2>2, <2>3, <2>4
<1>10. Costs'
  <2>1. ASSUME NEW y \in Vertex PROVE g(y) <= v'[y] /\ iteration_closed'[y] <= search_iteration
    <3>1. g(y) <= v[y] /\ iteration_closed[y] <= search_iteration
      BY DEF SInv, Costs
    <3>2. CASE y = x
      BY <1>3, <1>4, <1>7, <3>2 DEF StateTypes
    <3>3. CASE y # x
      BY <1>7, <3>1, <3>3
    <3> QED
      BY <3>2, <3>3
  <2>2. ASSUME NEW y \in Expanded' PROVE v'[y] <= MaxWeight * (m - 1)
    <3>1. CASE y = x
      BY <1>7, <1>9, <3>1
    <3>2. CASE y # x
      <4>1. y \in Expanded /\ y \in Vertex /\ v'[y] = v[y]
        BY <1>4, <1>7, <1>8, <3>2
      <4>2. v[y] <= MaxWeight * (n - 1) /\ v[y] \in Nat
        BY <1>3, <1>4, <4>1 DEF SInv, Costs
      <4> QED
        BY <1>9, <4>1, <4>2
    <3> QED
      BY <3>1, <3>2
  <2>3. g(source)' = 0 /\ BudgetOf(gpred', Expanded')
    BY <1>1, <1>9 DEF SInv, Costs, g
  <2> QED
    BY <1>1, <1>8, <2>1, <2>2, <2>3 DEF Costs, g
<1>11. QueuesSound'
  <2>1. InOpen = StatesOf(open) /\ InOpen' = StatesOf(open')
    BY DEF InOpen, StatesOf
  <2>2. \A i, j \in DOMAIN open' : i # j => open'[i].vertex # open'[j].vertex
    BY <1>2 DEF Distinct
  <2>3. StatesOf(open) \subseteq Vertex /\ \A i \in DOMAIN incons : incons[i] \in Vertex
    BY <1>3, QueuedStates
  <2> QED
    BY <1>1, <1>2, <1>7, <2>1, <2>2, <2>3 DEF SInv, QueuesSound, Inconsistent, g
<1>12. NotStarted'
  BY <1>1, <1>2 DEF NotStarted
<1>13. ASSUME NEW u \in Worker PROVE Expander(u)'
  BY <1>1, <1>2, <1>3, <1>8 DEF SInv, Expander, StateTypes
<1>14. SInv'
  BY <1>6, <1>10, <1>11, <1>12, <1>13 DEF SInv
<1> QED
  BY <1>2, <1>5, <1>8, <1>14 DEF x

\* The cost over an arc is within the budget, and computed from a former g.
LEMMA RelaxLowers ==
    ASSUME SInv, NEW w \in Worker, Relaxing(w)
    PROVE  LET u == being_expanded[w]
           IN  /\ u \in Vertex /\ u \in Expanded /\ arc[w] \in 1..degree(u) /\ succ(w) \in Vertex
               /\ Neighbors[u][arc[w]].weight \in Nat
               /\ dist(w) = v[u] + Neighbors[u][arc[w]].weight /\ v[u] \in Nat
               /\ g(u) \in Nat /\ g(u) <= v[u]
               /\ dist(w) \in 0..IntMax - 1 /\ dist(w) <= MaxWeight * Cardinality(Expanded)
<1> DEFINE u == being_expanded[w]
<1>1. u \in Expanded /\ u \in Vertex /\ arc[w] \in Nat /\ arc[w] > 0 /\ arc[w] <= degree(u)
  BY DEF SInv, StateTypes, Expander, Expanded, Relaxing
<1>2. /\ v[u] \in Nat /\ g(u) \in Nat /\ g(u) <= v[u]
      /\ v[u] <= MaxWeight * (Cardinality(Expanded) - 1)
  <2> HIDE DEF u
  <2>1. v[u] \in 0..IntMax /\ IntMax \in Nat
    BY <1>1, GraphAssumption DEF SInv, StateTypes
  <2>2. g(u) \in Nat
    BY <1>1 DEF SInv, Costs, BudgetOf, g
  <2>3. g(u) <= v[u] /\ v[u] <= MaxWeight * (Cardinality(Expanded) - 1)
    BY <1>1 DEF SInv, Costs
  <2> QED
    BY <2>1, <2>2, <2>3
<1> HIDE DEF u
<1>3. arc[w] \in 1..degree(u) /\ Expanded \in SUBSET Vertex
  BY <1>1, DegreeType DEF Expanded
<1>4. succ(w) \in Vertex /\ dist(w) = v[u] + Neighbors[u][arc[w]].weight
  BY <1>1, <1>3, ArcType DEF succ, dist, u
<1>5. /\ Neighbors[u][arc[w]].weight \in Nat
      /\ v[u] + Neighbors[u][arc[w]].weight \in 0..IntMax - 1
      /\ v[u] + Neighbors[u][arc[w]].weight <= MaxWeight * Cardinality(Expanded)
  BY <1>1, <1>2, <1>3, RelaxFits
<1> QED
  BY <1>1, <1>2, <1>3, <1>4, <1>5 DEF u

\* A relaxation lists the state it improves, and no state twice.
LEMMA RelaxSInv ==
    ASSUME IInv, IInv', SInv, NEW w \in Worker, Relax(w)
    PROVE  SInv' /\ \A y \in Vertex : Listed(y) => Listed(y)'
<1> DEFINE x == succ(w)
           d == dist(w)
           u == being_expanded[w]
<1>1. /\ Relaxing(w) /\ wpc[w] = "locked" /\ arc' = [arc EXCEPT ![w] = @ + 1]
      /\ UNCHANGED <<v, iteration_closed, search_iteration, eps, being_expanded, wpc, mpc>>
  BY DEF Relax, Relaxing, poolvars, weights
<1>2. /\ x \in Vertex /\ u \in Vertex /\ d \in 0..IntMax - 1 /\ d <= MaxWeight * Cardinality(Expanded)
  BY <1>1, RelaxLowers
<1>3. \/ /\ g(x) > d /\ gpred' = [gpred EXCEPT ![x] = [distance |-> d, pred |-> u]]
         /\ \/ /\ iteration_closed[x] # search_iteration
               /\ open' = Inserted(open, x, Key(d, x)) /\ incons' = incons
            \/ /\ iteration_closed[x] = search_iteration
               /\ incons' = IF Contains(incons, x) THEN incons ELSE Append(incons, x)
               /\ open' = open
      \/ UNCHANGED <<gpred, open, incons>>
  BY DEF Relax, lists
<1> HIDE DEF x, d, u
<1>4. StateTypes /\ IntMax \in Nat /\ Expanded' = Expanded /\ Expanded \in SUBSET Vertex
      /\ BudgetOf(gpred, Expanded) /\ source \in Vertex /\ g(source) = 0
      /\ incons \in Seq(Vertex) /\ open \in Seq(Entry)
  BY <1>1, GraphAssumption DEF SInv, Expanded, Costs, StateTypes
<1>5. /\ Distinct(open)
      /\ \A y \in StatesOf(open) : g(y) < v[y] /\ (iteration_closed[y] # search_iteration \/ mpc = "prepare")
      /\ \A i \in DOMAIN incons :
             /\ g(incons[i]) < v[incons[i]] /\ iteration_closed[incons[i]] = search_iteration
             /\ \A j \in 1..i - 1 : incons[j] # incons[i]
      /\ StatesOf(open) \subseteq Vertex /\ \A i \in DOMAIN incons : incons[i] \in Vertex
  BY <1>4, QueuesSoundMeans, QueuedStates DEF SInv
<1>6. /\ BudgetOf(gpred', Expanded) /\ gpred' \in [Vertex -> VertPack]
      /\ \A y \in Vertex : /\ gpred'[y].distance \in Nat /\ g(y) \in Nat /\ v[y] \in Nat /\ g(y) <= v[y]
                           /\ gpred'[y].distance <= g(y)
  <2>1. \A y \in Vertex : g(y) \in Nat /\ v[y] \in Nat /\ g(y) <= v[y]
    BY <1>4 DEF SInv, Costs, StateTypes, BudgetOf, g
  <2>2. CASE g(x) > d /\ gpred' = [gpred EXCEPT ![x] = [distance |-> d, pred |-> u]]
    <3>1. gpred'[x].distance = d /\ \A y \in Vertex : y # x => gpred'[y].distance = gpred[y].distance
      BY <1>2, <1>4, <2>2 DEF StateTypes
    <3>2. [distance |-> d, pred |-> u] \in VertPack
      BY <1>2 DEF VertPack
    <3>3. gpred' \in [Vertex -> VertPack]
      BY <1>4, <2>2, <3>2 DEF StateTypes
    <3>4. d \in Nat /\ d < gpred[x].distance
      BY <1>2, <2>1, <2>2 DEF g
    <3>5. BudgetOf(gpred', Expanded) /\ \A y \in Vertex : gpred'[y].distance \in Nat
                                                        /\ gpred'[y].distance <= gpred[y].distance
      BY <1>2, <1>4, <3>1, <3>4, BudgetRelax
    <3> QED
      BY <2>1, <3>3, <3>5 DEF g
  <2>3. CASE UNCHANGED gpred
    BY <1>4, <2>1, <2>3 DEF StateTypes, g
  <2> QED
    BY <1>3, <2>2, <2>3
<1>7. /\ open' \in Seq(Entry) /\ Distinct(open')
      /\ StatesOf(open) \subseteq StatesOf(open')
      /\ \A y \in StatesOf(open') :
            \/ y \in StatesOf(open)
            \/ y = x /\ g(x) > d /\ gpred'[x].distance = d /\ iteration_closed[x] # search_iteration
  <2>1. CASE open' = open
    BY <1>4, <1>5, <2>1
  <2>2. CASE /\ g(x) > d /\ gpred' = [gpred EXCEPT ![x] = [distance |-> d, pred |-> u]]
             /\ iteration_closed[x] # search_iteration /\ open' = Inserted(open, x, Key(d, x))
    <3>1. Key(d, x) \in Int
      <4>1. d \in Int /\ eps \in Int /\ Heuristic[x] \in Int
        BY <1>2, <1>4, GraphAssumption DEF StateTypes
      <4> QED
        BY <4>1 DEF Key
    <3>2. gpred'[x].distance = d
      BY <1>2, <1>4, <2>2 DEF StateTypes
    <3>3. open' \in Seq(Entry) /\ Distinct(open') /\ StatesOf(open') = StatesOf(open) \cup {x}
      BY <1>2, <1>4, <1>5, <2>2, <3>1, InsertedStates
    <3> QED
      BY <2>2, <3>2, <3>3
  <2> QED
    BY <1>3, <2>1, <2>2
<1>8. /\ incons' \in Seq(Vertex)
      /\ \A i \in DOMAIN incons : i \in DOMAIN incons' /\ incons'[i] = incons[i]
      /\ \A i \in DOMAIN incons' :
            /\ \/ i \in DOMAIN incons
               \/ /\ incons'[i] = x /\ g(x) > d /\ gpred'[x].distance = d
                  /\ iteration_closed[x] = search_iteration
            /\ \A j \in 1..i - 1 : incons'[j] # incons'[i]
  <2>1. CASE incons' = incons
    BY <1>4, <1>5, <2>1
  <2>2. CASE /\ g(x) > d /\ gpred' = [gpred EXCEPT ![x] = [distance |-> d, pred |-> u]]
             /\ iteration_closed[x] = search_iteration
             /\ ~Contains(incons, x) /\ incons' = Append(incons, x)
    <3>1. gpred'[x].distance = d
      BY <1>2, <1>4, <2>2 DEF StateTypes
    <3>2. Len(incons) \in Nat /\ DOMAIN incons = 1..Len(incons)
      BY <1>4
    <3>3. /\ incons' \in Seq(Vertex) /\ DOMAIN incons' = 1..Len(incons) + 1 /\ incons'[Len(incons) + 1] = x
          /\ \A i \in 1..Len(incons) : incons'[i] = incons[i]
      BY <1>2, <1>4, <2>2, <3>2
    <3>4. \A i \in 1..Len(incons) : incons[i] # x
      BY <2>2 DEF Contains
    <3>5. ASSUME NEW i \in DOMAIN incons', NEW j \in 1..i - 1 PROVE incons'[j] # incons'[i]
      <4>1. j \in 1..Len(incons)
        BY <3>2, <3>3
      <4>2. CASE i = Len(incons) + 1
        BY <3>3, <3>4, <4>1, <4>2
      <4>3. CASE i # Len(incons) + 1
        <5>1. i \in DOMAIN incons
          BY <3>2, <3>3, <4>3
        <5> QED
          BY <1>5, <3>2, <3>3, <4>1, <5>1
      <4> QED
        BY <4>2, <4>3
    <3>6. \A i \in DOMAIN incons' : i \in DOMAIN incons \/ i = Len(incons) + 1
      BY <3>2, <3>3
    <3>7. \A i \in DOMAIN incons : i \in DOMAIN incons'
      BY <3>2, <3>3
    <3> QED
      BY <2>2, <3>1, <3>2, <3>3, <3>5, <3>6, <3>7
  <2> QED
    BY <1>3, <2>1, <2>2
<1>9. StateTypes'
  <2>1. arc' \in [Worker -> Nat]
    BY <1>1, <1>4 DEF StateTypes
  <2> QED
    BY <1>1, <1>4, <1>6, <1>7, <1>8, <2>1 DEF StateTypes
<1>10. Costs'
  <2>1. gpred'[source].distance = 0
    BY <1>4, <1>6
  <2>2. \A y \in Vertex : gpred'[y].distance <= v[y] /\ iteration_closed[y] <= search_iteration
    BY <1>6 DEF SInv, Costs
  <2>3. \A y \in Expanded : v[y] <= MaxWeight * (Cardinality(Expanded) - 1)
    BY DEF SInv, Costs
  <2> QED
    BY <1>1, <1>4, <1>6, <2>1, <2>2, <2>3 DEF Costs, g
<1>11. QueuesSound'
  <2>1. ASSUME NEW y \in StatesOf(open')
        PROVE  gpred'[y].distance < v[y] /\ (iteration_closed[y] # search_iteration \/ mpc = "prepare")
    <3>1. CASE y \in StatesOf(open)
      BY <1>5, <1>6, <3>1
    <3>2. CASE y = x /\ g(x) > d /\ gpred'[x].distance = d /\ iteration_closed[x] # search_iteration
      BY <1>2, <1>6, <3>2
    <3> QED
      BY <1>7, <3>1, <3>2
  <2>2. ASSUME NEW i \in DOMAIN incons'
        PROVE  gpred'[incons'[i]].distance < v[incons'[i]] /\ iteration_closed[incons'[i]] = search_iteration
    <3>1. CASE i \in DOMAIN incons
      <4>1. incons'[i] = incons[i] /\ incons[i] \in Vertex /\ g(incons[i]) < v[incons[i]]
            /\ iteration_closed[incons[i]] = search_iteration
        BY <1>5, <1>8, <3>1
      <4> QED
        BY <1>6, <4>1
    <3>2. CASE incons'[i] = x /\ g(x) > d /\ gpred'[x].distance = d /\ iteration_closed[x] = search_iteration
      BY <1>2, <1>6, <3>2
    <3> QED
      BY <1>8, <3>1, <3>2
  <2>3. \A i, j \in DOMAIN open' : i # j => open'[i].vertex # open'[j].vertex
    BY <1>7 DEF Distinct
  <2>4. InOpen' = StatesOf(open')
    BY DEF InOpen, StatesOf
  <2> QED
    BY <1>1, <1>8, <2>1, <2>2, <2>3, <2>4 DEF QueuesSound, Inconsistent, g
<1>12. NotStarted'
  BY <1>1 DEF SInv, NotStarted
<1>13. ASSUME NEW t \in Worker PROVE Expander(t)'
  BY <1>1, <1>4 DEF SInv, Expander, StateTypes
<1>14. ASSUME NEW y \in Vertex, Listed(y) PROVE Listed(y)'
  <2>1. CASE y \in InOpen
    BY <1>7, <2>1 DEF Listed, InOpen, StatesOf
  <2>2. CASE Contains(incons, y)
    <3>1. PICK i \in 1..Len(incons) : incons[i] = y
      BY <2>2 DEF Contains
    <3>2. i \in DOMAIN incons' /\ incons'[i] = y /\ DOMAIN incons' = 1..Len(incons')
      BY <1>4, <1>8, <3>1
    <3> QED
      BY <3>2 DEF Listed, Contains
  <2> QED
    BY <1>14, <2>1, <2>2 DEF Listed
<1>15. SInv'
  BY <1>9, <1>10, <1>11, <1>12, <1>13 DEF SInv
<1> QED
  BY <1>14, <1>15

------------------------------------------------------------------------------
(* The invariant of the search *)

\* The steps that leave the states and the lists alone.
Quiet ==
    \/ SearchLoop \/ SetEps \/ Collect \/ TestGoal \/ Walk
    \/ (Launch \/ Destroy \/ Join) /\ UNCHANGED <<states, lists, wlocals, outcome, weights, query>>

QuietWork(w) ==
    \/ Leave(w) \/ GiveUp(w) \/ Spin(w) \/ UpdateSuccs(w) \/ Unlock(w) \/ Clear(w) \/ StoreResult(w)
    \/ (Sleep(w) \/ Wake(w) \/ Check(w)) /\ UNCHANGED <<states, lists, wlocals, outcome, weights, query>>

\* Every step is one of these.
LEMMA StepCases ==
    ASSUME [Next]_vars
    PROVE  \/ Replan \/ Requeue \/ NextIteration \/ Quiet \/ Expire \/ UNCHANGED vars
           \/ \E w \in Worker : \/ QuietWork(w) \/ Relax(w)
                              \/ \E k \in DOMAIN open : Finish(w, k) \/ Expand(w, k)
BY DEF Next, MainStep, WorkerStep, Rest, Quiet, QuietWork

\* Quiet steps change no state and no list.
LEMMA QuietStates ==
    ASSUME Quiet \/ Expire \/ UNCHANGED vars \/ \E w \in Worker : QuietWork(w)
    PROVE  UNCHANGED <<gpred, v, iteration_closed, open, incons>>
<1>1. CASE Quiet
  BY <1>1 DEF Quiet, SearchLoop, SetEps, Collect, TestGoal, Walk, states, lists
<1>2. CASE Expire \/ UNCHANGED vars
  BY <1>2 DEF Expire, vars, states, lists
<1>3. ASSUME NEW w \in Worker, QuietWork(w) PROVE UNCHANGED <<gpred, v, iteration_closed, open, incons>>
  BY <1>3 DEF QuietWork, Leave, GiveUp, Spin, UpdateSuccs, Unlock, Clear, StoreResult, states, lists
<1> QED
  BY <1>1, <1>2, <1>3

\* Every step keeps the invariant.
LEMMA NextSInv ==
    ASSUME IInv, IInv', SInv, [Next]_vars
    PROVE  SInv'
<1>1. CASE Quiet
  BY <1>1, MainQuiet DEF Quiet
<1>2. CASE Expire \/ UNCHANGED vars
  <2>1. UNCHANGED <<gpred, v, iteration_closed, open, incons, search_iteration, eps, being_expanded,
                    arc, mpc, wpc>>
    BY <1>2 DEF Expire, vars, poolvars, states, lists, wlocals, weights
  <2>2. eps \in Nat /\ being_expanded \in [Worker -> Vertex \cup {NoVertex}] /\ arc \in [Worker -> Nat]
    BY DEF SInv, StateTypes
  <2>3. \A w \in Worker : wpc[w] = "locked" => arc[w] > 0
    BY DEF SInv, Expander
  <2> QED
    BY <2>1, <2>2, <2>3, QuietSInv
<1>3. ASSUME NEW w \in Worker, QuietWork(w) PROVE SInv'
  BY <1>3, WorkerQuiet DEF QuietWork
<1> QED
  BY <1>1, <1>2, <1>3, StepCases, ReplanSInv, RequeueSInv, NextIterationSInv, RelaxSInv, FinishSInv,
     ExpandSInv

\* The search's invariant holds in every reachable state.
THEOREM StateInvariant == SafetySpec => [](IInv /\ SInv)
<1>1. IInv /\ IInv' /\ SInv /\ [Next]_vars => SInv'
  BY NextSInv
<1> QED
  BY <1>1, InitSInv, PoolInvariant, PTL DEF SafetySpec

\* For any number of workers and any graph OPEN never holds a state twice, nor
\* one that was closed in this iteration or has nothing to pass on; INCONS
\* holds exactly inconsistent closed ones (pARA.cpp:348, 488).
THEOREM ParaQueuesSound == SafetySpec => []QueuesSound
<1>1. SInv => QueuesSound
  BY DEF SInv
<1> QED
  BY <1>1, StateInvariant, PTL

------------------------------------------------------------------------------
(* No state is forgotten *)

\* A state leaves the lists when it is removed from OPEN, and then it is
\* expanded or ends the iteration.
LEMMA StepDrops ==
    ASSUME IInv, IInv', SInv, [Next]_vars, NEW x \in Vertex,
           Inconsistent(x), Inconsistent(x)', Listed(x), ~Listed(x)'
    PROVE  ~iteration_done /\ iteration_done'
<1>1. CASE Replan
  <2>1. open = <<>> /\ incons = <<>>
    BY <1>1 DEF Replan, SInv, NotStarted
  <2> QED
    BY <2>1 DEF Listed, InOpen, Contains
<1>2. CASE Requeue
  <2>1. x \in StatesOf(open) => x \in StatesOf(open')
    BY <1>2, RequeueSInv
  <2>2. ~(x \in StatesOf(open')) /\ ~Contains(incons', x)
    BY DEF Listed, InOpen, StatesOf
  <2>3. PICK i \in 1..Len(incons) : incons[i] = x
    BY <2>1, <2>2 DEF Listed, InOpen, StatesOf, Contains
  <2>4. i # Len(incons)
    BY <1>2, <2>2, <2>3, RequeueSInv
  <2>5. i \in 1..Len(incons') /\ incons'[i] = x
    BY <1>2, <2>3, <2>4, RequeueSInv
  <2> QED
    BY <2>2, <2>5 DEF Contains
<1>3. CASE NextIteration
  BY <1>3 DEF NextIteration, lists, Listed, InOpen
<1>4. CASE Quiet \/ Expire \/ UNCHANGED vars \/ \E w \in Worker : QuietWork(w)
  BY <1>4, QuietStates DEF Listed, InOpen
<1>5. ASSUME NEW w \in Worker, Relax(w) PROVE FALSE
  BY <1>5, RelaxSInv
<1>6. ASSUME NEW w \in Worker, NEW k \in DOMAIN open, Finish(w, k) PROVE ~iteration_done /\ iteration_done'
  BY <1>6 DEF Finish, Removes, Searching
<1>7. ASSUME NEW w \in Worker, NEW k \in DOMAIN open, Expand(w, k) PROVE FALSE
  <2>1. Removes(w, k) /\ UNCHANGED <<incons, gpred>>
        /\ v' = [v EXCEPT ![open[k].vertex] = g(open[k].vertex)]
    BY <1>7 DEF Expand
  <2>2. StatesOf(open') = StatesOf(open) \ {open[k].vertex} /\ v \in [Vertex -> 0..IntMax]
    BY <2>1, RemovesFacts DEF SInv, StateTypes
  <2>3. x = open[k].vertex
    BY <2>1, <2>2 DEF Listed, InOpen, StatesOf
  <2>4. v'[x] = gpred'[x].distance
    BY <2>1, <2>2, <2>3 DEF g
  <2>5. gpred'[x].distance < v'[x] /\ gpred[x].distance \in Int
    BY DEF Inconsistent, g, SInv, StateTypes, VertPack
  <2> QED
    BY <2>1, <2>4, <2>5
<1> QED
  BY <1>1, <1>2, <1>3, <1>4, <1>5, <1>6, <1>7, StepCases

\* For any number of workers and any graph: an inconsistent state stays in OPEN
\* or INCONS until it is expanded, except the one whose removal ends the
\* iteration (pARA.cpp:480-485).
THEOREM ParaOnlyLastIsDropped == SafetySpec => OnlyLastIsDropped
<1> DEFINE A == \A x \in Vertex :
                   Inconsistent(x) /\ Inconsistent(x)' /\ Listed(x) /\ ~Listed(x)'
                      => ~iteration_done /\ iteration_done'
<1>1. (IInv /\ SInv) /\ (IInv /\ SInv)' /\ [Next]_vars => [A]_vars
  BY StepDrops
<1> QED
  BY <1>1, StateInvariant, PTL DEF SafetySpec, OnlyLastIsDropped

------------------------------------------------------------------------------
(* pARAPlanner implements the abstract search *)

\* Every step is a step of the abstract search or changes nothing of it.
LEMMA StepImplements ==
    ASSUME IInv, IInv', SInv, [Next]_vars
    PROVE  [Tree!Next]_<<rooted, expanded>>
<1>1. StateTypes /\ source \in Vertex /\ gpred[source].distance = 0
  BY GraphAssumption DEF SInv, Costs, g
<1>2. ASSUME UNCHANGED gpred PROVE UNCHANGED rooted
  BY <1>2 DEF rooted
<1>3. \A x \in Vertex : rooted[x].distance = gpred[x].distance
  BY <1>1 DEF rooted, StateTypes
<1>4. /\ \A x \in Vertex : expanded[x] = (x \in Expanded)
      /\ expanded = [x \in Vertex |-> x \in Expanded]
      /\ expanded' = [x \in Vertex |-> x \in Expanded']
  BY DEF expanded, Expanded
<1>5. CASE UNCHANGED <<gpred, v>>
  BY <1>2, <1>5 DEF expanded
<1>6. ASSUME NEW w \in Worker, NEW k \in DOMAIN open, Expand(w, k)
      PROVE  [Tree!Next]_<<rooted, expanded>>
  <2> DEFINE x == open[k].vertex
  <2>1. Expanded' = Expanded \cup {x} /\ x \in Vertex /\ gpred[x].distance # IntMax
    BY <1>6, ExpandSInv DEF g
  <2>2. rooted' = rooted
    BY <1>2, <1>6 DEF Expand
  <2> HIDE DEF x
  <2>3. CASE x \in Expanded
    <3>1. Expanded' = Expanded
      BY <2>1, <2>3
    <3> QED
      BY <1>4, <2>2, <3>1
  <2>4. CASE x \notin Expanded
    <3>1. expanded' = [expanded EXCEPT ![x] = TRUE] /\ ~expanded[x]
      <4>1. ~expanded[x]
        BY <1>4, <2>1, <2>4
      <4>2. ASSUME NEW y \in Vertex
            PROVE  (y \in Expanded') = (IF y = x THEN TRUE ELSE expanded[y])
        <5>1. expanded[y] = (y \in Expanded)
          BY <1>4
        <5>2. CASE y = x
          <6>1. (y \in Expanded') = TRUE
            BY <2>1, <5>2
          <6> QED
            BY <5>2, <6>1
        <5>3. CASE y # x
          <6>1. (y \in Expanded') = (y \in Expanded)
            BY <2>1, <5>3
          <6> QED
            BY <5>1, <5>3, <6>1
        <5> QED
          BY <5>2, <5>3
      <4>3. [expanded EXCEPT ![x] = TRUE] = [y \in Vertex |-> IF y = x THEN TRUE ELSE expanded[y]]
        BY <1>4, <2>1
      <4>4. expanded' = [y \in Vertex |-> IF y = x THEN TRUE ELSE expanded[y]]
        BY <1>4, <4>2
      <4> QED
        BY <4>1, <4>3, <4>4
    <3>2. Tree!Expand(x)
      BY <1>3, <2>1, <2>2, <3>1 DEF Tree!Expand, Tree!Reached
    <3> QED
      BY <2>1, <3>2 DEF Tree!Next
  <2> QED
    BY <2>3, <2>4
<1>7. ASSUME NEW w \in Worker, Relax(w) PROVE [Tree!Next]_<<rooted, expanded>>
  <2> DEFINE u   == being_expanded[w]
             i   == arc[w]
             nbr == succ(w)
             wt  == Neighbors[u][i].weight
             d   == dist(w)
  <2>1. /\ u \in Vertex /\ u \in Expanded /\ i \in 1..degree(u) /\ nbr \in Vertex
        /\ wt \in Nat /\ d = v[u] + wt /\ v[u] \in Nat
        /\ gpred[u].distance \in Nat /\ gpred[u].distance <= v[u]
        /\ d \in 0..IntMax - 1 /\ nbr = Neighbors[u][i].vertex
    BY <1>7, RelaxLowers DEF Relax, g, succ
  <2>2. v' = v /\ expanded' = expanded
    BY <1>7 DEF Relax, Relaxing, expanded
  <2>3. \/ UNCHANGED gpred
        \/ g(nbr) > d /\ gpred' = [gpred EXCEPT ![nbr] = [distance |-> d, pred |-> u]]
    BY <1>7 DEF Relax
  <2> HIDE DEF u, i, nbr, wt, d
  <2>4. CASE g(nbr) > d /\ gpred' = [gpred EXCEPT ![nbr] = [distance |-> d, pred |-> u]]
    <3>1. gpred[nbr].distance \in Nat /\ d < gpred[nbr].distance
      <4>1. gpred[nbr].distance > d /\ d \in Nat
        BY <2>1, <2>4 DEF g
      <4>2. gpred[nbr].distance \in Int
        BY <1>1, <2>1 DEF StateTypes, VertPack
      <4> QED
        BY <4>1, <4>2
    <3>2. nbr # source
      BY <1>1, <2>1, <3>1
    <3>3. rooted' = [rooted EXCEPT ![nbr] = [distance |-> d, pred |-> u]]
      BY <1>1, <2>1, <2>4, <3>2 DEF rooted, StateTypes
    <3>4. rooted[u].distance + wt <= d /\ d < rooted[nbr].distance
      BY <1>3, <2>1, <3>1
    <3>5. Tree!Relax(u, i, d)
      BY <1>4, <2>1, <2>2, <3>3, <3>4 DEF Tree!Relax, wt
    <3>6. i \in 1..Tree!degree(u)
      BY <2>1 DEF degree, Tree!degree
    <3>7. Tree!Next
      BY <2>1, <3>5, <3>6, Zenon DEF Tree!Next
    <3> QED
      BY <3>7
  <2> QED
    BY <1>5, <2>2, <2>3, <2>4
<1>8. \/ UNCHANGED <<gpred, v>>
      \/ \E w \in Worker : Relax(w) \/ \E k \in DOMAIN open : Expand(w, k)
  <2>1. Replan \/ Requeue \/ NextIteration => UNCHANGED <<gpred, v>>
    BY DEF Replan, Requeue, NextIteration, states
  <2>2. ASSUME NEW w \in Worker, NEW k \in DOMAIN open, Finish(w, k) PROVE UNCHANGED <<gpred, v>>
    BY <2>2 DEF Finish, states
  <2> QED
    BY <2>1, <2>2, QuietStates, StepCases
<1> QED
  BY <1>5, <1>6, <1>7, <1>8

\* pARAPlanner implements the abstract search, for any number of workers and any
\* graph: over all iterations g only falls, through states that were expanded,
\* although an expander uses the g it had when its state was taken
\* (pARA.cpp:354-357).
THEOREM ParaImplementsTree == SafetySpec => ImplementsTree
<1>1. Init => Tree!Init
  <2> SUFFICES ASSUME Init PROVE rooted = InitGpred /\ expanded = [x \in Vertex |-> FALSE]
    BY DEF Tree!Init, InitGpred, Tree!InitGpred
  <2>1. source \in Vertex
    BY GraphAssumption
  <2>2. gpred = [InitGpred EXCEPT ![source] = [distance |-> 0, pred |-> NoVertex]]
    BY DEF Init
  <2>3. gpred[source].distance = 0
    BY <2>1, <2>2 DEF InitGpred
  <2>4. rooted = [gpred EXCEPT ![source] = [distance |-> 0, pred |-> source]]
    BY <2>3 DEF rooted
  <2>5. rooted = InitGpred
    BY <2>1, <2>2, <2>4 DEF InitGpred
  <2>6. expanded = [x \in Vertex |-> FALSE]
    BY DEF Init, expanded
  <2> QED
    BY <2>5, <2>6
<1>2. (IInv /\ SInv) /\ (IInv /\ SInv)' /\ [Next]_vars => [Tree!Next]_<<rooted, expanded>>
  BY StepImplements
<1> QED
  BY <1>1, <1>2, StateInvariant, PTL DEF SafetySpec, ImplementsTree, Tree!Spec, Tree!tvars

==============================================================================
