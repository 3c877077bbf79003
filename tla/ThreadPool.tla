------------------------------ MODULE ThreadPool ------------------------------
(***************************************************************************)
(* The threads of the parallel ARA* planner pARAPlanner                    *)
(* (src/libsbpl/src/planners/pARAStar/pARA.cpp): workers that sleep        *)
(* between the iterations of a search, and the main thread, which wakes    *)
(* them and waits until all sleep again.                                   *)
(*                                                                         *)
(* A critical section of the one mutex is one action, except that a worker *)
(* at "locked" and main at "prepare" hold it for several steps.  A thread  *)
(* in a condition variable's wait is at "ctor", "wait" or "waiting"; a     *)
(* notification moves it to where it competes for the mutex.  Neither wait *)
(* is guarded by a predicate, and sleeping_threads counts a worker as      *)
(* asleep until it holds the mutex again.                                  *)
(*                                                                         *)
(* What a worker does between two sleeps, from "improve" to "sleep", and   *)
(* what main does between "built" and "delete" are left to PAra.           *)
(***************************************************************************)
EXTENDS Integers, FiniteSets

CONSTANT Worker   \* the threads the constructor starts, NUM_THREADS of them

ASSUME PoolAssumption == IsFiniteSet(Worker) /\ Worker # {}

NUM_THREADS == Cardinality(Worker)

VARIABLES
    mpc,                \* where the main thread is
    wpc,                \* where each worker is
    sleeping_threads,
    planner_ok

poolvars == <<mpc, wpc, sleeping_threads, planner_ok>>

\* The constructor holds the mutex until it waits, so all threads find it there.
PoolInit ==
    /\ mpc = "ctor"
    /\ wpc = [w \in Worker |-> "sleep"]
    /\ sleeping_threads = 0
    /\ planner_ok = TRUE

MutexFree == mpc # "prepare" /\ \A w \in Worker : wpc[w] # "locked"

WGoto(w, l) == wpc' = [wpc EXCEPT ![w] = l]
MGoto(l) == mpc' = l

\* worker_cond.notify_all()
Notified == [w \in Worker |-> IF wpc[w] = "waiting" THEN "woken" ELSE wpc[w]]

\* main_cond.notify_one(): lost unless main waits
MainNotified == CASE mpc = "ctor" -> "built"
                  [] mpc = "wait" -> "notified"
                  [] OTHER        -> mpc

\* Broken Sleep: the last worker but one wakes main.
Sleep_Early(w) ==
    /\ wpc[w] = "sleep" /\ MutexFree
    /\ sleeping_threads' = sleeping_threads + 1
    /\ mpc' = IF sleeping_threads + 2 = NUM_THREADS THEN MainNotified ELSE mpc
    /\ WGoto(w, "waiting")
    /\ UNCHANGED planner_ok

\* A worker goes to sleep; the last one wakes main.
Sleep(w) ==
    /\ wpc[w] = "sleep" /\ MutexFree
    /\ sleeping_threads' = sleeping_threads + 1
    /\ mpc' = IF sleeping_threads + 1 = NUM_THREADS THEN MainNotified ELSE mpc
    /\ WGoto(w, "waiting")
    /\ UNCHANGED planner_ok

\* Only now, with the mutex, is the worker no longer counted.
Wake(w) ==
    /\ wpc[w] = "woken" /\ MutexFree
    /\ sleeping_threads' = sleeping_threads - 1
    /\ WGoto(w, "check")
    /\ UNCHANGED <<mpc, planner_ok>>

\* planner_ok is read without the mutex.
Check(w) ==
    /\ wpc[w] = "check"
    /\ WGoto(w, IF planner_ok THEN "improve" ELSE "exited")
    /\ UNCHANGED <<mpc, sleeping_threads, planner_ok>>

\* Main starts an iteration and waits for its end.
Launch ==
    /\ mpc = "launch" /\ MutexFree
    /\ wpc' = Notified
    /\ MGoto("wait")
    /\ UNCHANGED <<sleeping_threads, planner_ok>>

\* The destructor; a worker that is on its way to sleep misses this call.
Destroy ==
    /\ mpc = "delete" /\ MutexFree
    /\ planner_ok' = FALSE
    /\ wpc' = Notified
    /\ MGoto("join")
    /\ UNCHANGED sleeping_threads

Join ==
    /\ mpc = "join"
    /\ \A w \in Worker : wpc[w] = "exited"
    /\ MGoto("gone")
    /\ UNCHANGED <<wpc, sleeping_threads, planner_ok>>

------------------------------------------------------------------------------
\* Main never waits for workers that all wait for main: somebody is still to
\* call notify_one (pARA.cpp:260), though a call that comes while main does not
\* wait is lost and a worker may sleep through several iterations.
NoLostWakeup ==
    mpc \in {"ctor", "wait"} => \E w \in Worker : wpc[w] \notin {"waiting", "exited"}

==============================================================================
