-------------------------------- MODULE UbVec --------------------------------
(***************************************************************************)
(* The table of states of the SBPL planners: ubvec<pwsa_state>             *)
(* (src/libsbpl/src/include/sbpl/planners/ubvec.h) behind                  *)
(* pwsaPlanner::GetState (planners/PWSA/pwsaplanner.cpp).  It grows while  *)
(* workers hold pointers into it: state ids are spread over inner arrays   *)
(* of doubling size, and the first thread that needs one creates it.       *)
(*                                                                         *)
(* An array is named by its address, the number of its allocation; a       *)
(* pointer to a state is <<address, index>>.  The pointers vecs[k] are     *)
(* plain, so every read of one is a step of its own; a read returns what   *)
(* was last written, and a new array is constructed before its address is  *)
(* stored, as the build orders them.                                       *)
(***************************************************************************)
EXTENDS SearchGraph, SequencesExt

CONSTANTS
    Thread,             \* whoever calls GetState
    LOG_MIN_VEC_SIZE    \* 11 in the code

\* 1 << k
pow2[k \in 0..31] == IF k = 0 THEN 1 ELSE 2 * pow2[k - 1]

\* State ids are ints, and the sizes of the inner arrays too: 1 << (logI + 11)
\* is one up to the array that ends with id 2^30 - 1.
ASSUME UbVecAssumption ==
    LOG_MIN_VEC_SIZE \in 1..30 /\ Vertex \subseteq 0..pow2[30] - 1

MIN_VEC_SIZE == pow2[LOG_MIN_VEC_SIZE]
NULL == 0

VARIABLES
    vecs, init,   \* the arrays of class ubvec
    mem,          \* pointer |-> pwsa_state, for the arrays allocated so far
    upc,          \* where each thread is in GetState; "out" if it is not there
    id,           \* the argument of each thread's last call of GetState
    ptr,          \* and its result
    updated       \* EnsureHeuristicsUpdated was called

uvars == <<vecs, init, mem, upc, id, ptr, updated>>

\* pwsa_state(); the heuristic value is not looked up yet.
NewState == [is_expanded |-> FALSE, h |-> "unset",
             gpred |-> [distance |-> IntMax, pred |-> NoVertex]]

\* The macro S(k) of uint64_log2
S(a, k) == IF a.n >= pow2[k] THEN [i |-> a.i + k, n |-> a.n \div pow2[k]] ELSE a

\* The position of the highest bit, by halving; S(32) has no effect on an int.
uint64_log2(n) == S(S(S(S(S([i |-> 0, n |-> n], 16), 8), 4), 2), 1).i

\* Which array holds the state with this id
speclog(i) ==
    LET k == uint64_log2(i) - LOG_MIN_VEC_SIZE + 1 IN IF i = 0 \/ k < 0 THEN 0 ELSE k

\* And where in it
get_index(k, i) ==
    IF i >= MIN_VEC_SIZE THEN i - (pow2[k] - 1) - (MIN_VEC_SIZE - 1) ELSE i

vecSize(k) == pow2[k + LOG_MIN_VEC_SIZE]

\* The places of all ids, tabulated
ChunkOf == [i \in Vertex |-> speclog(i)]
IndexOf == [i \in Vertex |-> get_index(speclog(i), i)]
Chunk == {ChunkOf[i] : i \in Vertex}

\* The constructor of ubvec, called by replan
UInit ==
    /\ vecs = [k \in Chunk |-> NULL]
    /\ init = [k \in Chunk |-> -1]
    /\ mem = <<>>
    /\ upc = [t \in Thread |-> "out"]
    /\ id = [t \in Thread |-> NoVertex]
    /\ ptr = [t \in Thread |-> <<NULL, 0>>]
    /\ updated = FALSE

logI(t) == ChunkOf[id[t]]
UGoto(t, l) == upc' = [upc EXCEPT ![t] = l]

\* Thread t calls GetState(i); the rest is left to the steps below.
Call(t, i) ==
    /\ id' = [id EXCEPT ![t] = i]
    /\ UGoto(t, "lookup")
    /\ UNCHANGED <<vecs, init, mem, ptr, updated>>

\* getState: the first look at vecs[logI]
Lookup(t) ==
    /\ upc[t] = "lookup"
    /\ UGoto(t, IF vecs[logI(t)] = NULL THEN "create" ELSE "index")
    /\ UNCHANGED <<vecs, init, mem, id, ptr, updated>>

\* createVec: the look at the head of the loop
Create(t) ==
    /\ upc[t] = "create"
    /\ UGoto(t, IF vecs[logI(t)] = NULL THEN "hammer" ELSE "index")
    /\ UNCHANGED <<vecs, init, mem, id, ptr, updated>>

\* The spin while somebody else creates the array
Hammer(t) ==
    /\ upc[t] = "hammer"
    /\ init[logI(t)] # 0
    /\ UGoto(t, "cas")
    /\ UNCHANGED <<vecs, init, mem, id, ptr, updated>>

\* Broken CreateCas: init is set without comparing it.
CreateCas_Store(t) ==
    /\ upc[t] = "cas"
    /\ init' = [init EXCEPT ![logI(t)] = 0]
    /\ UGoto(t, "alloc")
    /\ UNCHANGED <<vecs, mem, id, ptr, updated>>

\* The compare_exchange; whoever loses starts the loop again.
CreateCas(t) ==
    /\ upc[t] = "cas"
    /\ IF init[logI(t)] = -1
       THEN init' = [init EXCEPT ![logI(t)] = 0] /\ UGoto(t, "alloc")
       ELSE UNCHANGED init /\ UGoto(t, "create")
    /\ UNCHANGED <<vecs, mem, id, ptr, updated>>

Allocated == {p[1] : p \in DOMAIN mem}

\* new T[vecSize], and its address is stored.
Alloc(t) ==
    LET nv == Cardinality(Allocated) + 1
    IN  /\ upc[t] = "alloc"
        /\ mem' = [p \in DOMAIN mem \cup {nv} \X (0..vecSize(logI(t)) - 1) |->
                     IF p \in DOMAIN mem THEN mem[p] ELSE NewState]
        /\ vecs' = [vecs EXCEPT ![logI(t)] = nv]
        /\ UGoto(t, "publish")
        /\ UNCHANGED <<init, id, ptr, updated>>

\* Broken Publish: the spinning threads are not released.
Publish_Forgets(t) ==
    /\ upc[t] = "publish"
    /\ UGoto(t, "create")
    /\ UNCHANGED <<vecs, init, mem, id, ptr, updated>>

Publish(t) ==
    /\ upc[t] = "publish"
    /\ init' = [init EXCEPT ![logI(t)] = 1]
    /\ UGoto(t, "create")
    /\ UNCHANGED <<vecs, mem, id, ptr, updated>>

\* getState returns a pointer made of a second look at vecs[logI].
Index(t) ==
    /\ upc[t] = "index"
    /\ ptr' = [ptr EXCEPT ![t] = <<vecs[logI(t)], IndexOf[id[t]]>>]
    /\ UGoto(t, "memo")
    /\ UNCHANGED <<vecs, init, mem, id, updated>>

\* GetState: if (state->h == -1)
Memo(t) ==
    /\ upc[t] = "memo"
    /\ UGoto(t, IF mem[ptr[t]].h = "unset" THEN "setH" ELSE "out")
    /\ UNCHANGED <<vecs, init, mem, id, ptr, updated>>

\* state->h = GetGoalHeuristic(id), of whatever goal the environment was last
\* prepared for
SetH(t) ==
    /\ upc[t] = "setH"
    /\ mem' = [mem EXCEPT ![ptr[t]].h = IF updated THEN "fresh" ELSE "stale"]
    /\ UGoto(t, "out")
    /\ UNCHANGED <<vecs, init, id, ptr, updated>>

GetStateStep(t) ==
    \/ Lookup(t) \/ Create(t) \/ Hammer(t) \/ CreateCas(t) \/ Alloc(t)
    \/ Publish(t) \/ Index(t) \/ Memo(t) \/ SetH(t)

------------------------------------------------------------------------------
\* Where the state with id i is now
Where(i) == <<vecs[ChunkOf[i]], IndexOf[i]>>
Exists(i) == vecs[ChunkOf[i]] # NULL

\* A pointer GetState returned stays the place of that state however the table
\* grows, it points into an array, and no two states share a place
\* (ubvec.h:101 asks "is there a race here?").
PointersStable ==
    /\ \A t \in Thread : id[t] # NoVertex /\ upc[t] \in {"memo", "setH", "out"} =>
          ptr[t] = Where(id[t]) /\ ptr[t] \in DOMAIN mem
    /\ \A i, j \in Vertex : Exists(i) /\ Exists(j) /\ Where(i) = Where(j) => i = j

==============================================================================
