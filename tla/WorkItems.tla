------------------------------ MODULE WorkItems ------------------------------
(***************************************************************************)
(* parallel_while_pwsa under a client of the kind this repository writes:  *)
(* a frontier of items, a body that takes least items out, puts their      *)
(* successors in, and reports when it took the target.  Items form a tree, *)
(* so each is created once.                                                *)
(***************************************************************************)
EXTENDS ParallelWhile

CONSTANTS
    Item,       \* records with a field f, the priority
    Children,   \* item |-> the items its processing creates
    Root,       \* the work parallel_while_pwsa is called with
    Target      \* the item the body looks for

ASSUME ItemAssumption ==
    /\ Root \in Item
    /\ Children \in [Item -> SUBSET Item]
    /\ \A x, y \in Item : x # y => Children[x] \cap Children[y] = {}
    /\ \A x \in Item : Root \notin Children[x]

VARIABLE taken   \* the items the bodies have processed

vars == <<pvars, taken>>

Init ==
    /\ PInit({Root})
    /\ taken = {}

\* One iteration of the client's loop.  It may go round again or return: its
\* poll_cutoff is not fixed here.
Body(w) ==
    /\ pc[w] = "body"
    /\ my_frontier[w] # {}
    /\ \E x \in MinEntries(my_frontier[w]) :
          /\ taken' = taken \cup {x}
          /\ IF x = Target
             THEN /\ my_frontier' = [my_frontier EXCEPT ![w] = @ \ {x}]
                  /\ Goto(w, "found")
                  /\ UNCHANGED steps_since_load_balancing
             ELSE /\ my_frontier' = [my_frontier EXCEPT ![w] = (@ \ {x}) \cup Children[x]]
                  /\ steps_since_load_balancing' =
                        [steps_since_load_balancing EXCEPT
                           ![w] = IF @ < StepsBound THEN @ + 1 ELSE @]
                  /\ \/ Goto(w, "loop")
                     \/ my_frontier'[w] # {} /\ UNCHANGED pc
    /\ UNCHANGED <<frontiers, cvars>>

\* A body called with an empty frontier returns at once.
EmptyBody(w) ==
    /\ pc[w] = "body"
    /\ my_frontier[w] = {}
    /\ Goto(w, "loop")
    /\ UNCHANGED <<wvars, cvars, taken>>

Step(w) ==
    \/ ProtocolStep(w) /\ UNCHANGED taken
    \/ Body(w)
    \/ EmptyBody(w)

\* The caller returns when all workers have left the loop.
Return == AllExited /\ UNCHANGED vars

Next == Return \/ \E w \in Worker : Step(w)

\* Workers run on their own threads; the scheduler does run the loop on the
\* leader, but nothing obliges it to start another worker.
Fairness ==
    /\ \A w \in Worker : WF_vars(pc[w] # "start" /\ Step(w))
    /\ WF_vars(Start(leader) /\ UNCHANGED taken)

Spec == Init /\ [][Next]_vars /\ Fairness

------------------------------------------------------------------------------
\* Items that were created and not yet processed
Pending == ({Root} \cup UNION {Children[x] : x \in taken \ {Target}}) \ taken

\* Stealing neither loses nor duplicates work: each pending item is in
\* exactly one frontier or mailbox, and nothing else is.
Conservation ==
    /\ UNION {Held(w) : w \in Worker} = Pending
    /\ \A u, w \in Worker : u # w => Held(u) \cap Held(w) = {}
    /\ \A w \in Worker : my_frontier[w] \cap frontiers[w] = {}

\* Once someone found the target every worker that started leaves the loop:
\* no thief waits forever for a victim that is gone.
DoneMeansExit == \A w \in Worker : is_done /\ pc[w] # "start" ~> pc[w] = "exit"

\* The target is found, wherever stealing has carried it.
TargetFound == <>is_done

==============================================================================
