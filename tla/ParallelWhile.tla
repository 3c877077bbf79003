---------------------------- MODULE ParallelWhile ----------------------------
(***************************************************************************)
(* parallel_while_pwsa (src/src/shared/parallel_while.hpp): workers that   *)
(* share a pool of work without a central queue.  An idle worker writes    *)
(* its id into the request cell of a random other worker; the victim,      *)
(* between two rounds of work, splits its frontier into the idle worker's  *)
(* mailbox frontiers[thief] and answers in the cell answers[thief].        *)
(*                                                                         *)
(* Each action performs at most one access to a shared cell: is_done,      *)
(* requests[_] or answers[_], or one operation on a mailbox.  The client's *)
(* body is the action left out here: control is at "body" when it starts,  *)
(* and it ends at "loop" (returned false) or "found" (returned true).      *)
(***************************************************************************)
EXTENDS Frontier, FiniteSets

CONSTANTS
    Worker,       \* the worker ids of the PASL scheduler
    leader,       \* the worker that called parallel_while_pwsa
    Waiting,      \* REQUEST_WAITING and ANSWER_WAITING
    Blocked,      \* REQUEST_BLOCKED
    SplitCutoff   \* split_cutoff of the searches, K of the drivers

ASSUME WorkerAssumption ==
    /\ leader \in Worker
    /\ Waiting \notin Worker
    /\ Blocked \notin Worker
    /\ Waiting \notin {Blocked, "rejected", "transferred"}
    /\ SplitCutoff \in Nat

VARIABLES
    pc,           \* where each worker is
    my_frontier,  \* the local variable my_frontier of each worker
    frontiers,    \* the mailboxes
    requests,     \* requests[v]: the thief v has to serve, Waiting or Blocked
    answers,      \* answers[t]: what became of the request of t
    is_done,
    other,        \* the local variable other: the victim or the thief
    steps_since_load_balancing

wvars == <<my_frontier, frontiers, steps_since_load_balancing>>
cvars == <<requests, answers, is_done, other>>
pvars == <<pc, my_frontier, frontiers, requests, answers, is_done, other,
           steps_since_load_balancing>>

Answer == {Waiting, "rejected", "transferred"}

\* The steps counter only matters up to split_cutoff + 1.
StepsBound == SplitCutoff + 1

ProtocolPc == {"start", "loop", "block", "blockCas", "rejStore", "rejAns",
               "ask", "probe", "askCas", "wait", "waitDone", "got", "take",
               "respond", "fork", "ansT", "ansR", "reopen", "body", "found",
               "exit"}

\* requests[_] is set up by the leader; answers[_] is left uninitialized.
PInit(input) ==
    /\ pc = [w \in Worker |-> "start"]
    /\ my_frontier = [w \in Worker |-> IF w = leader THEN input ELSE {}]
    /\ frontiers = [w \in Worker |-> {}]
    /\ requests = [w \in Worker |-> IF w = leader THEN Waiting ELSE Blocked]
    /\ answers \in [Worker -> Answer]
    /\ is_done = FALSE
    /\ other = [w \in Worker |-> leader]
    /\ steps_since_load_balancing = [w \in Worker |-> 0]

Goto(w, l) == pc' = [pc EXCEPT ![w] = l]

\* size_input: 0 for no work, 2 for enough work to share, 1 otherwise
Size(w) ==
    LET sz == Cardinality(my_frontier[w])
    IN  IF sz = 0 THEN 0
        ELSE IF \/ sz > SplitCutoff
                \/ steps_since_load_balancing[w] > SplitCutoff /\ sz > 1
             THEN 2
             ELSE 1

\* size_input called on an empty frontier also resets the counter.
StepsAfterSize(w, F) ==
    IF F = {} THEN [steps_since_load_balancing EXCEPT ![w] = 0]
              ELSE steps_since_load_balancing

\* The scheduler gives the loop to worker w.
Start(w) ==
    /\ pc[w] = "start"
    /\ Goto(w, "loop")
    /\ UNCHANGED <<wvars, cvars>>

\* while (!is_done.load()), and the size of the frontier decides
Loop(w) ==
    /\ pc[w] = "loop"
    /\ IF is_done
       THEN Goto(w, "exit") /\ UNCHANGED steps_since_load_balancing
       ELSE /\ Goto(w, IF my_frontier[w] = {} THEN "block" ELSE "respond")
            /\ steps_since_load_balancing' = StepsAfterSize(w, my_frontier[w])
    /\ UNCHANGED <<my_frontier, frontiers, cvars>>

------------------------------------------------------------------------------
(* Block incoming requests *)

Block(w) ==
    /\ pc[w] = "block"
    /\ \/ requests[w] = Blocked /\ Goto(w, "ask") /\ UNCHANGED other
       \/ requests[w] = Waiting /\ Goto(w, "blockCas") /\ UNCHANGED other
       \/ /\ requests[w] \in Worker
          /\ other' = [other EXCEPT ![w] = requests[w]]
          /\ Goto(w, "rejStore")
    /\ UNCHANGED <<wvars, requests, answers, is_done>>

BlockCas(w) ==
    /\ pc[w] = "blockCas"
    /\ IF requests[w] = Waiting
       THEN requests' = [requests EXCEPT ![w] = Blocked] /\ Goto(w, "ask")
       ELSE UNCHANGED requests /\ Goto(w, "block")
    /\ UNCHANGED <<wvars, answers, is_done, other>>

\* Broken RejectStore: the request stays in the cell after it was rejected.
RejectStore_KeepsRequest(w) ==
    /\ pc[w] = "rejStore"
    /\ Goto(w, "rejAns")
    /\ UNCHANGED <<wvars, cvars>>

RejectStore(w) ==
    /\ pc[w] = "rejStore"
    /\ requests' = [requests EXCEPT ![w] = Blocked]
    /\ Goto(w, "rejAns")
    /\ UNCHANGED <<wvars, answers, is_done, other>>

\* Broken RejectAnswer: the worker blocks its cell and forgets the thief.
RejectAnswer_Silent(w) ==
    /\ pc[w] = "rejAns"
    /\ Goto(w, "ask")
    /\ UNCHANGED <<wvars, cvars>>

RejectAnswer(w) ==
    /\ pc[w] = "rejAns"
    /\ answers' = [answers EXCEPT ![other[w]] = "rejected"]
    /\ Goto(w, "ask")
    /\ UNCHANGED <<wvars, requests, is_done, other>>

------------------------------------------------------------------------------
(* Acquire work from a random other worker *)

\* Broken Ask: the answer to the previous request is not cleared.
Ask_KeepsAnswer(w) ==
    /\ pc[w] = "ask"
    /\ \/ is_done /\ Goto(w, "take") /\ UNCHANGED <<answers, other>>
       \/ /\ ~is_done
          /\ \E v \in Worker \ {w} : other' = [other EXCEPT ![w] = v]
          /\ Goto(w, "probe")
          /\ UNCHANGED answers
    /\ UNCHANGED <<wvars, requests, is_done>>

\* The store to answers[w] is part of this action: no other worker reads
\* that cell.  random_other never returns w.
Ask(w) ==
    /\ pc[w] = "ask"
    /\ \/ is_done /\ Goto(w, "take") /\ UNCHANGED <<answers, other>>
       \/ /\ ~is_done
          /\ answers' = [answers EXCEPT ![w] = Waiting]
          /\ \E v \in Worker \ {w} : other' = [other EXCEPT ![w] = v]
          /\ Goto(w, "probe")
    /\ UNCHANGED <<wvars, requests, is_done>>

Probe(w) ==
    /\ pc[w] = "probe"
    /\ Goto(w, IF requests[other[w]] = Waiting THEN "askCas" ELSE "ask")
    /\ UNCHANGED <<wvars, cvars>>

AskCas(w) ==
    /\ pc[w] = "askCas"
    /\ IF requests[other[w]] = Waiting
       THEN requests' = [requests EXCEPT ![other[w]] = w] /\ Goto(w, "wait")
       ELSE UNCHANGED requests /\ Goto(w, "ask")
    /\ UNCHANGED <<wvars, answers, is_done, other>>

Wait(w) ==
    /\ pc[w] = "wait"
    /\ Goto(w, IF answers[w] = Waiting THEN "waitDone" ELSE "got")
    /\ UNCHANGED <<wvars, cvars>>

\* Broken WaitDone: a waiting thief does not look at is_done.
WaitDone_Ignores(w) ==
    /\ pc[w] = "waitDone"
    /\ Goto(w, "wait")
    /\ UNCHANGED <<wvars, cvars>>

\* Here the worker may leave with its request unanswered.
WaitDone(w) ==
    /\ pc[w] = "waitDone"
    /\ Goto(w, IF is_done THEN "exit" ELSE "wait")
    /\ UNCHANGED <<wvars, cvars>>

Got(w) ==
    /\ pc[w] = "got"
    /\ Goto(w, IF answers[w] = "transferred" THEN "take" ELSE "ask")
    /\ UNCHANGED <<wvars, cvars>>

\* Broken Take: the thief does not fetch what was transferred.
Take_NoSwap(w) ==
    /\ pc[w] = "take"
    /\ Goto(w, "respond")
    /\ UNCHANGED <<wvars, cvars>>

Take(w) ==
    /\ pc[w] = "take"
    /\ my_frontier' = [my_frontier EXCEPT ![w] = frontiers[w]]
    /\ frontiers' = [frontiers EXCEPT ![w] = my_frontier[w]]
    /\ steps_since_load_balancing' = StepsAfterSize(w, frontiers[w])
    /\ Goto(w, "respond")
    /\ UNCHANGED cvars

------------------------------------------------------------------------------
(* Respond to possible incoming requests *)

\* assert(sz > 0) is compiled out of the optimized build, so an empty
\* frontier passes here too.
Respond(w) ==
    /\ pc[w] = "respond"
    /\ \/ requests[w] = Waiting /\ Goto(w, "body") /\ UNCHANGED other
       \/ requests[w] = Blocked /\ Goto(w, "reopen") /\ UNCHANGED other
       \/ /\ requests[w] \in Worker
          /\ other' = [other EXCEPT ![w] = requests[w]]
          /\ Goto(w, IF Size(w) = 2 THEN "fork" ELSE "ansR")
    /\ UNCHANGED <<wvars, requests, answers, is_done>>

\* Broken Fork: the victim keeps the entries it hands over.
Fork_Copies(w) ==
    /\ pc[w] = "fork"
    /\ \E T \in SplitParts(my_frontier[w]) :
          frontiers' = [frontiers EXCEPT ![other[w]] = IF T = {} THEN @ ELSE T]
    /\ steps_since_load_balancing' = [steps_since_load_balancing EXCEPT ![w] = 0]
    /\ Goto(w, "ansT")
    /\ UNCHANGED <<my_frontier, cvars>>

\* split overwrites the mailbox, or leaves it alone when it moves nothing.
Fork(w) ==
    /\ pc[w] = "fork"
    /\ \E T \in SplitParts(my_frontier[w]) :
          /\ my_frontier' = [my_frontier EXCEPT ![w] = @ \ T]
          /\ frontiers' = [frontiers EXCEPT ![other[w]] = IF T = {} THEN @ ELSE T]
    /\ steps_since_load_balancing' = [steps_since_load_balancing EXCEPT ![w] = 0]
    /\ Goto(w, "ansT")
    /\ UNCHANGED cvars

AnswerTransferred(w) ==
    /\ pc[w] = "ansT"
    /\ answers' = [answers EXCEPT ![other[w]] = "transferred"]
    /\ Goto(w, "reopen")
    /\ UNCHANGED <<wvars, requests, is_done, other>>

AnswerRejected(w) ==
    /\ pc[w] = "ansR"
    /\ answers' = [answers EXCEPT ![other[w]] = "rejected"]
    /\ Goto(w, "reopen")
    /\ UNCHANGED <<wvars, requests, is_done, other>>

\* Lines 89 and 99: the request cell is open again.
Reopen(w) ==
    /\ pc[w] = "reopen"
    /\ requests' = [requests EXCEPT ![w] = Waiting]
    /\ Goto(w, "body")
    /\ UNCHANGED <<wvars, answers, is_done, other>>

\* The body found what was searched for.
Found(w) ==
    /\ pc[w] = "found"
    /\ is_done' = TRUE
    /\ Goto(w, "exit")
    /\ UNCHANGED <<wvars, requests, answers, other>>

\* Everything worker w does outside the client's body
ProtocolStep(w) ==
    \/ Start(w) \/ Loop(w)
    \/ Block(w) \/ BlockCas(w) \/ RejectStore(w) \/ RejectAnswer(w)
    \/ Ask(w) \/ Probe(w) \/ AskCas(w) \/ Wait(w) \/ WaitDone(w) \/ Got(w)
    \/ Take(w)
    \/ Respond(w) \/ Fork(w) \/ AnswerTransferred(w) \/ AnswerRejected(w)
    \/ Reopen(w) \/ Found(w)

\* parallel_while joins all workers: the caller may return.
AllExited == \A w \in Worker : pc[w] = "exit"

------------------------------------------------------------------------------
PTypeOK(Item, Pc) ==
    /\ pc \in [Worker -> Pc]
    /\ my_frontier \in [Worker -> SUBSET Item]
    /\ frontiers \in [Worker -> SUBSET Item]
    /\ requests \in [Worker -> Worker \cup {Waiting, Blocked}]
    /\ answers \in [Worker -> Answer]
    /\ is_done \in BOOLEAN
    /\ other \in [Worker -> Worker]
    /\ steps_since_load_balancing \in [Worker -> 0..StepsBound]

\* The work w has or will have
Held(w) == my_frontier[w] \cup frontiers[w]

\* w has a request out that its victim has not answered
Asking(w) == pc[w] \in {"wait", "waitDone"} /\ answers[w] = Waiting

\* v is the worker that has to answer w: the request sits in its cell, or it
\* has taken it out and not answered yet
Serves(v, w) ==
    \/ requests[v] = w /\ pc[v] \notin {"rejAns", "reopen"}
    \/ pc[v] = "rejAns" /\ other[v] = w

\* Every unanswered thief has exactly one victim that will answer it, and
\* nobody prepares an answer for a worker that is not waiting for it (unless
\* that worker left because the search is over).
OneVictimPerThief ==
    \A w \in Worker :
       /\ Asking(w) => \E v \in Worker \ {w} : Serves(v, w)
       /\ \A v \in Worker : Serves(v, w) => Asking(w) \/ (pc[w] = "exit" /\ is_done)
       /\ \A u, v \in Worker : Serves(u, w) /\ Serves(v, w) => u = v

\* A mailbox is filled only when it is empty: a split overwrites it
\* (bin_heap.hpp:161), and its owner must not touch it meanwhile.
MailboxFree ==
    \A v \in Worker : pc[v] = "fork" =>
       /\ frontiers[other[v]] = {}
       /\ pc[other[v]] \in {"wait", "waitDone", "exit"}
       /\ other[v] # v

\* A thief that asked is answered, or the search ends and it leaves.
ThiefServed == \A w \in Worker : pc[w] = "askCas" ~> pc[w] \in {"ask", "got", "exit"}

\* Whoever goes on to serve requests has work: assert(sz > 0) behind the
\* acquire loop (parallel_while.hpp:85).
SizePositive == \A w \in Worker : pc[w] = "respond" => my_frontier[w] # {}

\* What is left of it with a positive cutoff: only a worker that left the
\* acquire loop because of is_done goes on without work.
WorkOrDone == \A w \in Worker : pc[w] = "respond" /\ my_frontier[w] = {} => is_done

==============================================================================
