------------------------- MODULE ParallelWhileProofs -------------------------
(***************************************************************************)
(* The hand-over protocol of parallel_while_pwsa for any number of workers *)
(* and any client: who owns a request cell, an answer cell and a mailbox,  *)
(* and when.  The lemmas are stated for single steps, so that they serve   *)
(* every client: WorkItemsProofs and PwsaPcProofs cite them.               *)
(***************************************************************************)
EXTENDS ParallelWhile, TLAPS, FiniteSetTheorems

\* Where a worker has blocked its request cell and looks for work
AcquirePc == {"ask", "probe", "askCas", "wait", "waitDone", "got", "take"}

\* Where it is on the way there
BlockPc == {"block", "blockCas", "rejStore", "rejAns"}

\* A step of the client's body: it moves inside the body or leaves it, and
\* works on its own frontier only.
BodyStep(w) ==
    /\ pc[w] \notin ProtocolPc \ {"body"}
    /\ \E l : l \notin ProtocolPc \ {"body", "loop", "found"} /\ Goto(w, l)
    /\ \A u \in Worker \ {w} : my_frontier'[u] = my_frontier[u]
    /\ UNCHANGED <<frontiers, cvars>>

------------------------------------------------------------------------------
(* The inductive invariant *)

\* Thieves write to a request cell only while it says Waiting, so whatever its
\* owner has read there other than Waiting stays until the owner changes it.
CellOwned(w) ==
    /\ pc[w] \in AcquirePc \cup {"rejAns"} => requests[w] = Blocked
    /\ pc[w] \in {"rejStore", "fork", "ansT", "ansR"} => requests[w] = other[w]
    /\ pc[w] = "reopen" => requests[w] # Waiting

\* A thief posts its request only after it cleared its answer cell, and nobody
\* answers in between.
AnswerCleared(w) == pc[w] \in {"probe", "askCas"} => answers[w] = Waiting

\* Only a worker without work looks for some.
Idle(w) == pc[w] \in AcquirePc \cup BlockPc => my_frontier[w] = {}

\* A mailbox holds work from the split until its owner takes it, or for good
\* if the owner left; meanwhile nobody else serves its owner.
MailboxOwned(w) ==
    /\ frontiers[w] # {} => pc[w] \in {"wait", "waitDone", "got", "take", "exit"}
    /\ pc[w] \in {"wait", "waitDone", "got"} /\ frontiers[w] # {} =>
          answers[w] = "transferred" \/ \E u \in Worker : pc[u] = "ansT" /\ other[u] = w
    /\ \A u \in Worker : Serves(u, w) /\ pc[u] # "ansT" => frontiers[w] = {}

\* Who is told that work was transferred finds some; a split that is tried
\* moves something.
Delivered(w) ==
    /\ pc[w] = "fork" => \E e, x \in my_frontier[w] : e # x
    /\ pc[w] = "ansT" => frontiers[other[w]] # {}
    /\ pc[w] \in {"wait", "waitDone", "got"} /\ answers[w] = "transferred" => frontiers[w] # {}
    /\ pc[w] = "take" /\ frontiers[w] = {} => is_done

\* The cells
CInv ==
    /\ OneVictimPerThief
    /\ \A w \in Worker : CellOwned(w) /\ AnswerCleared(w)

\* The mailboxes
MInv == \A w \in Worker : Idle(w) /\ MailboxOwned(w)

\* With a cutoff of 0 a frontier of one entry counts as splittable, and the
\* split moves nothing.
DInv == SplitCutoff > 0 => WorkOrDone /\ \A w \in Worker : Delivered(w)

PInv == CInv /\ MInv /\ DInv

------------------------------------------------------------------------------
(* Types *)

\* A split moves entries, it invents none.
LEMMA SplitSubset == ASSUME NEW F, NEW T \in SplitParts(F) PROVE T \subseteq F
BY DEF SplitParts

\* A split of two or more entries moves some.
LEMMA SplitMoves ==
    ASSUME NEW F, NEW T \in SplitParts(F), \E e, x \in F : e # x
    PROVE  T # {}
BY DEF SplitParts

\* A step of the protocol keeps the types of the protocol's variables.
LEMMA ProtocolPTypeOK ==
    ASSUME NEW Item, NEW Pc, ProtocolPc \subseteq Pc,
           PTypeOK(Item, Pc), NEW w \in Worker, ProtocolStep(w)
    PROVE  PTypeOK(Item, Pc)'
<1> USE WorkerAssumption DEF PTypeOK, Answer, StepsBound, Goto, cvars, wvars
<1>1. CASE Start(w)
  BY <1>1 DEF Start, ProtocolPc
<1>2. CASE Loop(w)
  BY <1>2 DEF Loop, StepsAfterSize, ProtocolPc
<1>3. CASE Block(w)
  BY <1>3 DEF Block, ProtocolPc
<1>4. CASE BlockCas(w)
  BY <1>4 DEF BlockCas, ProtocolPc
<1>5. CASE RejectStore(w)
  BY <1>5 DEF RejectStore, ProtocolPc
<1>6. CASE RejectAnswer(w)
  BY <1>6 DEF RejectAnswer, ProtocolPc
<1>7. CASE Ask(w)
  BY <1>7 DEF Ask, ProtocolPc
<1>8. CASE Probe(w)
  BY <1>8 DEF Probe, ProtocolPc
<1>9. CASE AskCas(w)
  BY <1>9 DEF AskCas, ProtocolPc
<1>10. CASE Wait(w)
  BY <1>10 DEF Wait, ProtocolPc
<1>11. CASE WaitDone(w)
  BY <1>11 DEF WaitDone, ProtocolPc
<1>12. CASE Got(w)
  BY <1>12 DEF Got, ProtocolPc
<1>13. CASE Take(w)
  BY <1>13 DEF Take, StepsAfterSize, ProtocolPc
<1>14. CASE Respond(w)
  BY <1>14 DEF Respond, ProtocolPc
<1>15. CASE Fork(w)
  BY <1>15, SplitSubset DEF Fork, ProtocolPc
<1>16. CASE AnswerTransferred(w)
  BY <1>16 DEF AnswerTransferred, ProtocolPc
<1>17. CASE AnswerRejected(w)
  BY <1>17 DEF AnswerRejected, ProtocolPc
<1>18. CASE Reopen(w)
  BY <1>18 DEF Reopen, ProtocolPc
<1>19. CASE Found(w)
  BY <1>19 DEF Found, ProtocolPc
<1> QED
  BY <1>1, <1>2, <1>3, <1>4, <1>5, <1>6, <1>7, <1>8, <1>9, <1>10, <1>11,
     <1>12, <1>13, <1>14, <1>15, <1>16, <1>17, <1>18, <1>19 DEF ProtocolStep

------------------------------------------------------------------------------
(* The request and answer cells *)

\* At the start nobody asks and nobody serves.
LEMMA InitCInv == ASSUME NEW input, PInit(input) PROVE CInv
BY WorkerAssumption
   DEF PInit, CInv, OneVictimPerThief, CellOwned, AnswerCleared, Asking, Serves, AcquirePc

\* What a worker does in its body is nobody's business.
LEMMA BodyCInv ==
    ASSUME NEW Item, NEW Pc, PTypeOK(Item, Pc), CInv, NEW w \in Worker, BodyStep(w)
    PROVE  CInv'
<1>1. PICK l : l \notin ProtocolPc \ {"body", "loop", "found"} /\ Goto(w, l)
  BY DEF BodyStep
<1>2. \A u \in Worker : pc'[u] = pc[u] \/ u = w
  BY <1>1 DEF PTypeOK, Goto
<1>3. pc'[w] = l
  BY <1>1 DEF PTypeOK, Goto
<1>4. UNCHANGED <<requests, answers, is_done, other>>
  BY DEF BodyStep, cvars
<1>5. \A u, t \in Worker : Serves(u, t)' <=> Serves(u, t)
  BY <1>1, <1>2, <1>3, <1>4 DEF Serves, BodyStep, ProtocolPc
<1>6. \A t \in Worker : Asking(t)' <=> Asking(t)
  BY <1>1, <1>2, <1>3, <1>4 DEF Asking, BodyStep, ProtocolPc
<1>7. OneVictimPerThief'
  BY <1>1, <1>2, <1>3, <1>4, <1>5, <1>6 DEF CInv, OneVictimPerThief, BodyStep, ProtocolPc
<1>8. \A t \in Worker : CellOwned(t)' /\ AnswerCleared(t)'
  BY <1>1, <1>2, <1>3, <1>4 DEF CInv, CellOwned, AnswerCleared, AcquirePc, BodyStep, ProtocolPc
<1> QED
  BY <1>7, <1>8 DEF CInv

\* A step that leaves all services and requests as they are
LEMMA SameServices ==
    ASSUME OneVictimPerThief,
           \A u, t \in Worker : Serves(u, t)' <=> Serves(u, t),
           \A t \in Worker : Asking(t)' <=> Asking(t),
           \A t \in Worker : pc[t] = "exit" /\ is_done => pc'[t] = "exit" /\ is_done'
    PROVE  OneVictimPerThief'
BY DEF OneVictimPerThief

\* A step that ends the service of w for t, and with it the request of t
LEMMA EndOfService ==
    ASSUME OneVictimPerThief, NEW w \in Worker, NEW t \in Worker, Serves(w, t),
           \A u, x \in Worker : Serves(u, x)' <=> Serves(u, x) /\ u # w,
           \A u \in Worker : Serves(w, u) => u = t,
           \A x \in Worker : Asking(x)' <=> Asking(x) /\ x # t,
           \A x \in Worker : pc[x] = "exit" /\ is_done => pc'[x] = "exit" /\ is_done'
    PROVE  OneVictimPerThief'
BY DEF OneVictimPerThief

\* A step of the protocol keeps the cells in order.
LEMMA ProtocolCInv ==
    ASSUME NEW Item, NEW Pc, PTypeOK(Item, Pc), CInv, NEW w \in Worker, ProtocolStep(w)
    PROVE  CInv'
<1> USE WorkerAssumption DEF PTypeOK, AcquirePc, Goto, cvars, wvars
<1> DEFINE Cells == \A u \in Worker : CellOwned(u)' /\ AnswerCleared(u)'
           SameS == \A u, t \in Worker : Serves(u, t)' <=> Serves(u, t)
           SameA == \A t \in Worker : Asking(t)' <=> Asking(t)
           Gone  == \A t \in Worker : pc[t] = "exit" /\ is_done => pc'[t] = "exit" /\ is_done'
<1>q. ASSUME SameS, SameA, Gone, Cells PROVE CInv'
  BY <1>q, SameServices DEF CInv
<1>1. CASE Start(w)
  BY <1>1 DEF Start, CInv, OneVictimPerThief, CellOwned, AnswerCleared, Asking, Serves
<1>2. CASE Loop(w)
  <2>1. SameS
    BY <1>2 DEF Loop, Serves
  <2>2. SameA
    BY <1>2 DEF Loop, Asking
  <2>3. Gone
    BY <1>2 DEF Loop
  <2>4. Cells
    BY <1>2 DEF Loop, CInv, CellOwned, AnswerCleared
  <2> QED
    BY <1>q, <2>1, <2>2, <2>3, <2>4
<1>3. CASE Block(w)
  <2>1. SameS
    BY <1>3 DEF Block, Serves
  <2>2. SameA
    BY <1>3 DEF Block, Asking
  <2>3. Gone
    BY <1>3 DEF Block
  <2>4. Cells
    BY <1>3 DEF Block, CInv, CellOwned, AnswerCleared
  <2> QED
    BY <1>q, <2>1, <2>2, <2>3, <2>4
<1>4. CASE BlockCas(w)
  <2>1. SameS
    BY <1>4 DEF BlockCas, Serves
  <2>2. SameA
    BY <1>4 DEF BlockCas, Asking
  <2>3. Gone
    BY <1>4 DEF BlockCas
  <2>4. Cells
    BY <1>4 DEF BlockCas, CInv, CellOwned, AnswerCleared
  <2> QED
    BY <1>q, <2>1, <2>2, <2>3, <2>4
<1>5. CASE RejectStore(w)
  BY <1>5 DEF RejectStore, CInv, OneVictimPerThief, CellOwned, AnswerCleared, Asking, Serves
<1>6. CASE RejectAnswer(w)
  <2> DEFINE t == other[w]
  <2>1. t \in Worker /\ Serves(w, t) /\ \A u \in Worker : Serves(w, u) => u = t
    BY <1>6 DEF RejectAnswer, Serves, CInv, CellOwned
  <2>2. \A u, x \in Worker : Serves(u, x)' <=> Serves(u, x) /\ u # w
    BY <1>6 DEF RejectAnswer, Serves, CInv, CellOwned
  <2>3. \A x \in Worker : Asking(x)' <=> Asking(x) /\ x # t
    BY <1>6 DEF RejectAnswer, Asking
  <2>4. Gone
    BY <1>6 DEF RejectAnswer
  <2>5. Cells
    BY <1>6, <2>1 DEF RejectAnswer, CInv, OneVictimPerThief, Asking, CellOwned, AnswerCleared
  <2> QED
    BY <2>1, <2>2, <2>3, <2>4, <2>5, EndOfService DEF CInv
<1>7. CASE Ask(w)
  <2>1. SameS
    BY <1>7 DEF Ask, Serves
  <2>2. SameA
    BY <1>7 DEF Ask, Asking
  <2>3. Gone
    BY <1>7 DEF Ask
  <2>4. Cells
    BY <1>7 DEF Ask, CInv, CellOwned, AnswerCleared
  <2> QED
    BY <1>q, <2>1, <2>2, <2>3, <2>4
<1>8. CASE Probe(w)
  BY <1>8 DEF Probe, CInv, OneVictimPerThief, CellOwned, AnswerCleared, Asking, Serves
<1>9. CASE AskCas(w)
  <2>1. CASE requests[other[w]] # Waiting
    <3>1. SameS
      BY <1>9, <2>1 DEF AskCas, Serves
    <3>2. SameA
      BY <1>9, <2>1 DEF AskCas, Asking
    <3>3. Gone
      BY <1>9, <2>1 DEF AskCas
    <3>4. Cells
      BY <1>9, <2>1 DEF AskCas, CInv, CellOwned, AnswerCleared
    <3> QED
      BY <1>q, <3>1, <3>2, <3>3, <3>4
  <2>2. CASE requests[other[w]] = Waiting
    <3> DEFINE victim == other[w]
    <3>1. victim \in Worker /\ victim # w
      BY <1>9, <2>2 DEF AskCas, CInv, CellOwned
    <3>2. /\ requests' = [requests EXCEPT ![victim] = w]
          /\ pc' = [pc EXCEPT ![w] = "wait"]
          /\ UNCHANGED <<answers, is_done, other>>
      BY <1>9, <2>2 DEF AskCas
    <3>3. pc[w] = "askCas" /\ answers[w] = Waiting
      BY <1>9 DEF AskCas, CInv, AnswerCleared
    <3>4. pc[victim] \notin {"rejAns", "reopen"}
      BY <2>2, <3>1 DEF CInv, CellOwned
    <3>5. \A u, t \in Worker : Serves(u, t)' <=> Serves(u, t) \/ (u = victim /\ t = w)
      BY <2>2, <3>1, <3>2, <3>3, <3>4 DEF Serves
    <3>6. \A t \in Worker : Asking(t)' <=> Asking(t) \/ t = w
      BY <3>2, <3>3 DEF Asking
    <3>7. \A u \in Worker : ~Serves(u, w)
      BY <3>3 DEF CInv, OneVictimPerThief, Asking
    <3>8. OneVictimPerThief'
      BY <3>1, <3>2, <3>3, <3>5, <3>6, <3>7 DEF CInv, OneVictimPerThief
    <3>9. Cells
      BY <2>2, <3>1, <3>2, <3>3 DEF CInv, CellOwned, AnswerCleared
    <3> QED
      BY <3>8, <3>9 DEF CInv
  <2> QED
    BY <2>1, <2>2
<1>10. CASE Wait(w)
  BY <1>10 DEF Wait, CInv, OneVictimPerThief, CellOwned, AnswerCleared, Asking, Serves
<1>11. CASE WaitDone(w)
  BY <1>11 DEF WaitDone, CInv, OneVictimPerThief, CellOwned, AnswerCleared, Asking, Serves
<1>12. CASE Got(w)
  BY <1>12 DEF Got, CInv, OneVictimPerThief, CellOwned, AnswerCleared, Asking, Serves
<1>13. CASE Take(w)
  BY <1>13 DEF Take, CInv, OneVictimPerThief, CellOwned, AnswerCleared, Asking, Serves
<1>14. CASE Respond(w)
  <2>1. SameS
    BY <1>14 DEF Respond, Serves
  <2>2. SameA
    BY <1>14 DEF Respond, Asking
  <2>3. Gone
    BY <1>14 DEF Respond
  <2>4. Cells
    BY <1>14 DEF Respond, CInv, CellOwned, AnswerCleared
  <2> QED
    BY <1>q, <2>1, <2>2, <2>3, <2>4
<1>15. CASE Fork(w)
  BY <1>15 DEF Fork, CInv, OneVictimPerThief, CellOwned, AnswerCleared, Asking, Serves
<1>16. CASE AnswerTransferred(w)
  <2> DEFINE t == other[w]
  <2>1. t \in Worker /\ Serves(w, t) /\ \A u \in Worker : Serves(w, u) => u = t
    BY <1>16 DEF AnswerTransferred, Serves, CInv, CellOwned
  <2>2. \A u, x \in Worker : Serves(u, x)' <=> Serves(u, x) /\ u # w
    BY <1>16 DEF AnswerTransferred, Serves
  <2>3. \A x \in Worker : Asking(x)' <=> Asking(x) /\ x # t
    BY <1>16 DEF AnswerTransferred, Asking
  <2>4. Gone
    BY <1>16 DEF AnswerTransferred
  <2>5. Cells
    BY <1>16, <2>1 DEF AnswerTransferred, CInv, OneVictimPerThief, Asking, CellOwned, AnswerCleared
  <2> QED
    BY <2>1, <2>2, <2>3, <2>4, <2>5, EndOfService DEF CInv
<1>17. CASE AnswerRejected(w)
  <2> DEFINE t == other[w]
  <2>1. t \in Worker /\ Serves(w, t) /\ \A u \in Worker : Serves(w, u) => u = t
    BY <1>17 DEF AnswerRejected, Serves, CInv, CellOwned
  <2>2. \A u, x \in Worker : Serves(u, x)' <=> Serves(u, x) /\ u # w
    BY <1>17 DEF AnswerRejected, Serves
  <2>3. \A x \in Worker : Asking(x)' <=> Asking(x) /\ x # t
    BY <1>17 DEF AnswerRejected, Asking
  <2>4. Gone
    BY <1>17 DEF AnswerRejected
  <2>5. Cells
    BY <1>17, <2>1 DEF AnswerRejected, CInv, OneVictimPerThief, Asking, CellOwned, AnswerCleared
  <2> QED
    BY <2>1, <2>2, <2>3, <2>4, <2>5, EndOfService DEF CInv
<1>18. CASE Reopen(w)
  BY <1>18 DEF Reopen, CInv, OneVictimPerThief, CellOwned, AnswerCleared, Asking, Serves
<1>19. CASE Found(w)
  BY <1>19 DEF Found, CInv, OneVictimPerThief, CellOwned, AnswerCleared, Asking, Serves
<1> QED
  BY <1>1, <1>2, <1>3, <1>4, <1>5, <1>6, <1>7, <1>8, <1>9, <1>10, <1>11,
     <1>12, <1>13, <1>14, <1>15, <1>16, <1>17, <1>18, <1>19 DEF ProtocolStep

------------------------------------------------------------------------------
(* The mailboxes *)

\* A mailbox that is about to be filled is empty and its owner waits.
LEMMA MailboxFreeFromInv ==
    ASSUME NEW Item, NEW Pc, PTypeOK(Item, Pc), CInv, MInv
    PROVE  MailboxFree
<1> SUFFICES ASSUME NEW w \in Worker, pc[w] = "fork"
             PROVE  /\ frontiers[other[w]] = {}
                    /\ pc[other[w]] \in {"wait", "waitDone", "exit"}
                    /\ other[w] # w
  BY DEF MailboxFree
<1>1. other[w] \in Worker /\ Serves(w, other[w])
  BY DEF PTypeOK, CInv, CellOwned, Serves
<1>2. frontiers[other[w]] = {}
  BY <1>1 DEF MInv, MailboxOwned
<1>3. Asking(other[w]) \/ pc[other[w]] = "exit"
  BY <1>1 DEF CInv, OneVictimPerThief
<1> QED
  BY <1>2, <1>3 DEF Asking

\* All mailboxes start empty.
LEMMA InitMInv == ASSUME NEW input, PInit(input) PROVE MInv
BY DEF PInit, MInv, Idle, MailboxOwned, AcquirePc, BlockPc

\* A body works on a frontier, not on a mailbox.
LEMMA BodyMInv ==
    ASSUME NEW Item, NEW Pc, PTypeOK(Item, Pc), CInv, MInv, NEW w \in Worker, BodyStep(w)
    PROVE  MInv'
<1>1. PICK l : l \notin ProtocolPc \ {"body", "loop", "found"} /\ Goto(w, l)
  BY DEF BodyStep
<1>2. \A u \in Worker : u # w => pc'[u] = pc[u] /\ my_frontier'[u] = my_frontier[u]
  BY <1>1 DEF PTypeOK, Goto, BodyStep
<1>3. pc'[w] = l
  BY <1>1 DEF PTypeOK, Goto
<1>4. UNCHANGED <<requests, answers, is_done, other, frontiers>>
  BY DEF BodyStep, cvars
<1>5. \A u, t \in Worker : Serves(u, t)' <=> Serves(u, t)
  BY <1>1, <1>2, <1>3, <1>4 DEF Serves, BodyStep, ProtocolPc
<1>6. \A t \in Worker : Idle(t)'
  BY <1>1, <1>2, <1>3 DEF MInv, Idle, AcquirePc, BlockPc, ProtocolPc
<1>7. \A t \in Worker : MailboxOwned(t)'
  BY <1>1, <1>2, <1>3, <1>4, <1>5 DEF MInv, MailboxOwned, BodyStep, ProtocolPc
<1> QED
  BY <1>6, <1>7 DEF MInv

\* A step of the protocol keeps the mailboxes in order.
LEMMA ProtocolMInv ==
    ASSUME NEW Item, NEW Pc, PTypeOK(Item, Pc), CInv, MInv, NEW w \in Worker, ProtocolStep(w)
    PROVE  MInv'
<1> USE WorkerAssumption
    DEF PTypeOK, AcquirePc, BlockPc, Goto, cvars, wvars
<1>1. CASE Start(w)
  <2>1. \A u, t \in Worker : Serves(u, t)' => Serves(u, t) /\ (pc'[u] # "ansT" => pc[u] # "ansT")
    BY <1>1 DEF Start, CInv, CellOwned, Serves
  <2>2. \A u \in Worker : Idle(u)'
    BY <1>1 DEF Start, MInv, Idle
  <2>3. \A u \in Worker : MailboxOwned(u)'
    BY <1>1, <2>1 DEF Start, CInv, CellOwned, MInv, MailboxOwned, Serves
  <2> QED
    BY <2>2, <2>3 DEF MInv
<1>2. CASE Loop(w)
  <2>1. \A u, t \in Worker : Serves(u, t)' => Serves(u, t) /\ (pc'[u] # "ansT" => pc[u] # "ansT")
    BY <1>2 DEF Loop, CInv, CellOwned, Serves
  <2>2. \A u \in Worker : Idle(u)'
    BY <1>2 DEF Loop, MInv, Idle
  <2>3. \A u \in Worker : MailboxOwned(u)'
    BY <1>2, <2>1 DEF Loop, CInv, CellOwned, MInv, MailboxOwned, Serves
  <2> QED
    BY <2>2, <2>3 DEF MInv
<1>3. CASE Block(w)
  <2>1. \A u, t \in Worker : Serves(u, t)' <=> Serves(u, t)
    BY <1>3 DEF Block, Serves
  <2>2. \A u \in Worker : Idle(u)'
    BY <1>3 DEF Block, MInv, Idle
  <2>3. \A u \in Worker : MailboxOwned(u)'
    BY <1>3, <2>1 DEF Block, MInv, MailboxOwned
  <2> QED
    BY <2>2, <2>3 DEF MInv
<1>4. CASE BlockCas(w)
  <2>1. \A u, t \in Worker : Serves(u, t)' => Serves(u, t) /\ (pc'[u] # "ansT" => pc[u] # "ansT")
    BY <1>4 DEF BlockCas, CInv, CellOwned, Serves
  <2>2. \A u \in Worker : Idle(u)'
    BY <1>4 DEF BlockCas, MInv, Idle
  <2>3. \A u \in Worker : MailboxOwned(u)'
    BY <1>4, <2>1 DEF BlockCas, CInv, CellOwned, MInv, MailboxOwned, Serves
  <2> QED
    BY <2>2, <2>3 DEF MInv
<1>5. CASE RejectStore(w)
  <2>1. \A u, t \in Worker : Serves(u, t)' => Serves(u, t) /\ (pc'[u] # "ansT" => pc[u] # "ansT")
    BY <1>5 DEF RejectStore, CInv, CellOwned, Serves
  <2>2. \A u \in Worker : Idle(u)'
    BY <1>5 DEF RejectStore, MInv, Idle
  <2>3. \A u \in Worker : MailboxOwned(u)'
    BY <1>5, <2>1 DEF RejectStore, CInv, CellOwned, MInv, MailboxOwned, Serves
  <2> QED
    BY <2>2, <2>3 DEF MInv
<1>6. CASE RejectAnswer(w)
  <2>1. \A u, t \in Worker : Serves(u, t)' => Serves(u, t) /\ (pc'[u] # "ansT" => pc[u] # "ansT")
    BY <1>6 DEF RejectAnswer, CInv, CellOwned, Serves
  <2>2. \A u \in Worker : Idle(u)'
    BY <1>6 DEF RejectAnswer, MInv, Idle
  <2>3. \A u \in Worker : MailboxOwned(u)'
    BY <1>6, <2>1 DEF RejectAnswer, CInv, CellOwned, MInv, MailboxOwned, Serves
  <2> QED
    BY <2>2, <2>3 DEF MInv
<1>7. CASE Ask(w)
  <2>1. \A u, t \in Worker : Serves(u, t)' <=> Serves(u, t)
    BY <1>7 DEF Ask, Serves
  <2>2. \A u \in Worker : Idle(u)'
    BY <1>7 DEF Ask, MInv, Idle
  <2>3. ASSUME NEW u \in Worker PROVE MailboxOwned(u)'
    <3>1. frontiers'[u] # {} => pc'[u] \in {"wait", "waitDone", "got", "take", "exit"}
      BY <1>7 DEF Ask, MInv, MailboxOwned
    <3>2. pc'[u] \in {"wait", "waitDone", "got"} /\ frontiers'[u] # {} =>
             answers'[u] = "transferred" \/ \E t \in Worker : pc'[t] = "ansT" /\ other'[t] = u
      BY <1>7 DEF Ask, MInv, MailboxOwned
    <3>3. \A t \in Worker : Serves(t, u)' /\ pc'[t] # "ansT" => frontiers'[u] = {}
      BY <1>7, <2>1 DEF Ask, MInv, MailboxOwned
    <3> QED
      BY <3>1, <3>2, <3>3 DEF MailboxOwned
  <2> QED
    BY <2>2, <2>3 DEF MInv
<1>8. CASE Probe(w)
  <2>1. \A u, t \in Worker : Serves(u, t)' <=> Serves(u, t)
    BY <1>8 DEF Probe, Serves
  <2>2. \A u \in Worker : Idle(u)'
    BY <1>8 DEF Probe, MInv, Idle
  <2>3. \A u \in Worker : MailboxOwned(u)'
    BY <1>8, <2>1 DEF Probe, MInv, MailboxOwned
  <2> QED
    BY <2>2, <2>3 DEF MInv
<1>9. CASE AskCas(w)
  <2>1. \A u, t \in Worker : Serves(u, t)' => Serves(u, t) \/ t = w
    BY <1>9 DEF AskCas, Serves
  <2>2. \A u \in Worker : Idle(u)'
    BY <1>9 DEF AskCas, MInv, Idle
  <2>3. ASSUME NEW u \in Worker PROVE MailboxOwned(u)'
    <3>1. frontiers'[u] # {} => pc'[u] \in {"wait", "waitDone", "got", "take", "exit"}
      BY <1>9 DEF AskCas, MInv, MailboxOwned
    <3>2. pc'[u] \in {"wait", "waitDone", "got"} /\ frontiers'[u] # {} =>
             answers'[u] = "transferred" \/ \E t \in Worker : pc'[t] = "ansT" /\ other'[t] = u
      BY <1>9 DEF AskCas, MInv, MailboxOwned
    <3>3. \A t \in Worker : Serves(t, u)' /\ pc'[t] # "ansT" => frontiers'[u] = {}
      BY <1>9, <2>1 DEF AskCas, MInv, MailboxOwned
    <3> QED
      BY <3>1, <3>2, <3>3 DEF MailboxOwned
  <2> QED
    BY <2>2, <2>3 DEF MInv
<1>10. CASE Wait(w)
  <2>1. \A u, t \in Worker : Serves(u, t)' <=> Serves(u, t)
    BY <1>10 DEF Wait, Serves
  <2>2. \A u \in Worker : Idle(u)'
    BY <1>10 DEF Wait, MInv, Idle
  <2>3. \A u \in Worker : MailboxOwned(u)'
    BY <1>10, <2>1 DEF Wait, MInv, MailboxOwned
  <2> QED
    BY <2>2, <2>3 DEF MInv
<1>11. CASE WaitDone(w)
  <2>1. \A u, t \in Worker : Serves(u, t)' => Serves(u, t) /\ (pc'[u] # "ansT" => pc[u] # "ansT")
    BY <1>11 DEF WaitDone, CInv, CellOwned, Serves
  <2>2. \A u \in Worker : Idle(u)'
    BY <1>11 DEF WaitDone, MInv, Idle
  <2>3. \A u \in Worker : MailboxOwned(u)'
    BY <1>11, <2>1 DEF WaitDone, CInv, CellOwned, MInv, MailboxOwned, Serves
  <2> QED
    BY <2>2, <2>3 DEF MInv
<1>12. CASE Got(w)
  <2>1. \A u, t \in Worker : Serves(u, t)' => Serves(u, t) /\ (pc'[u] # "ansT" => pc[u] # "ansT")
    BY <1>12 DEF Got, CInv, CellOwned, Serves
  <2>2. \A u \in Worker : Idle(u)'
    BY <1>12 DEF Got, MInv, Idle
  <2>3. ASSUME NEW u \in Worker PROVE MailboxOwned(u)'
    <3>1. frontiers'[u] # {} => pc'[u] \in {"wait", "waitDone", "got", "take", "exit"}
      BY <1>12 DEF Got, MInv, MailboxOwned, CInv, OneVictimPerThief, CellOwned, Serves, Asking
    <3>2. pc'[u] \in {"wait", "waitDone", "got"} /\ frontiers'[u] # {} =>
             answers'[u] = "transferred" \/ \E t \in Worker : pc'[t] = "ansT" /\ other'[t] = u
      BY <1>12 DEF Got, MInv, MailboxOwned
    <3>3. \A t \in Worker : Serves(t, u)' /\ pc'[t] # "ansT" => frontiers'[u] = {}
      BY <1>12, <2>1 DEF Got, MInv, MailboxOwned
    <3> QED
      BY <3>1, <3>2, <3>3 DEF MailboxOwned
  <2> QED
    BY <2>2, <2>3 DEF MInv
<1>13. CASE Take(w)
  <2>1. \A u, t \in Worker : Serves(u, t)' => Serves(u, t) /\ (pc'[u] # "ansT" => pc[u] # "ansT")
    BY <1>13 DEF Take, CInv, CellOwned, Serves
  <2>2. \A u \in Worker : Idle(u)'
    BY <1>13 DEF Take, MInv, Idle
  <2>3. ASSUME NEW u \in Worker PROVE MailboxOwned(u)'
    <3>1. frontiers'[u] # {} => pc'[u] \in {"wait", "waitDone", "got", "take", "exit"}
      BY <1>13 DEF Take, MInv, MailboxOwned, Idle
    <3>2. pc'[u] \in {"wait", "waitDone", "got"} /\ frontiers'[u] # {} =>
             answers'[u] = "transferred" \/ \E t \in Worker : pc'[t] = "ansT" /\ other'[t] = u
      BY <1>13 DEF Take, MInv, MailboxOwned
    <3>3. \A t \in Worker : Serves(t, u)' /\ pc'[t] # "ansT" => frontiers'[u] = {}
      BY <1>13, <2>1 DEF Take, MInv, MailboxOwned, Idle
    <3> QED
      BY <3>1, <3>2, <3>3 DEF MailboxOwned
  <2> QED
    BY <2>2, <2>3 DEF MInv
<1>14. CASE Respond(w)
  <2>1. \A u, t \in Worker : Serves(u, t)' <=> Serves(u, t)
    BY <1>14 DEF Respond, Serves
  <2>2. \A u \in Worker : Idle(u)'
    BY <1>14 DEF Respond, MInv, Idle
  <2>3. \A u \in Worker : MailboxOwned(u)'
    BY <1>14, <2>1 DEF Respond, MInv, MailboxOwned
  <2> QED
    BY <2>2, <2>3 DEF MInv
<1>15. CASE Fork(w)
  <2>1. other[w] \in Worker /\ Serves(w, other[w])
    BY <1>15 DEF Fork, CInv, CellOwned, Serves
  <2>2. pc[other[w]] \in {"wait", "waitDone", "got", "exit"} /\ w # other[w]
    BY <1>15, <2>1 DEF Fork, CInv, OneVictimPerThief, Asking
  <2>3. \A t \in Worker : Serves(t, other[w]) => t = w
    BY <2>1 DEF CInv, OneVictimPerThief
  <2>4. \A u, t \in Worker : Serves(u, t)' => Serves(u, t) /\ (pc'[u] # "ansT" => pc[u] # "ansT")
    BY <1>15 DEF Fork, CInv, CellOwned, Serves
  <2>5. \A u \in Worker : Idle(u)'
    BY <1>15 DEF Fork, MInv, Idle
  <2>6. ASSUME NEW u \in Worker PROVE MailboxOwned(u)'
    <3>1. frontiers'[u] # {} => pc'[u] \in {"wait", "waitDone", "got", "take", "exit"}
      BY <1>15, <2>1, <2>2 DEF Fork, MInv, MailboxOwned
    <3>2. pc'[u] \in {"wait", "waitDone", "got"} /\ frontiers'[u] # {} =>
             answers'[u] = "transferred" \/ \E t \in Worker : pc'[t] = "ansT" /\ other'[t] = u
      BY <1>15, <2>1, <2>2 DEF Fork, MInv, MailboxOwned
    <3>3. \A t \in Worker : Serves(t, u)' /\ pc'[t] # "ansT" => frontiers'[u] = {}
      BY <1>15, <2>4, <2>1, <2>3 DEF Fork, MInv, MailboxOwned
    <3> QED
      BY <3>1, <3>2, <3>3 DEF MailboxOwned
  <2> QED
    BY <2>5, <2>6 DEF MInv
<1>16. CASE AnswerTransferred(w)
  <2>1. \A u, t \in Worker : Serves(u, t)' => Serves(u, t) /\ (pc'[u] # "ansT" => pc[u] # "ansT")
    BY <1>16 DEF AnswerTransferred, CInv, CellOwned, Serves
  <2>2. \A u \in Worker : Idle(u)'
    BY <1>16 DEF AnswerTransferred, MInv, Idle
  <2>3. \A u \in Worker : MailboxOwned(u)'
    BY <1>16, <2>1 DEF AnswerTransferred, CInv, CellOwned, MInv, MailboxOwned, Serves
  <2> QED
    BY <2>2, <2>3 DEF MInv
<1>17. CASE AnswerRejected(w)
  <2>1. \A u, t \in Worker : Serves(u, t)' => Serves(u, t) /\ (pc'[u] # "ansT" => pc[u] # "ansT")
    BY <1>17 DEF AnswerRejected, CInv, CellOwned, Serves
  <2>2. \A u \in Worker : Idle(u)'
    BY <1>17 DEF AnswerRejected, MInv, Idle
  <2>3. \A u \in Worker : MailboxOwned(u)'
    BY <1>17, <2>1 DEF AnswerRejected, CInv, CellOwned, MInv, MailboxOwned, Serves
  <2> QED
    BY <2>2, <2>3 DEF MInv
<1>18. CASE Reopen(w)
  <2>1. \A u, t \in Worker : Serves(u, t)' => Serves(u, t) /\ (pc'[u] # "ansT" => pc[u] # "ansT")
    BY <1>18 DEF Reopen, CInv, CellOwned, Serves
  <2>2. \A u \in Worker : Idle(u)'
    BY <1>18 DEF Reopen, MInv, Idle
  <2>3. \A u \in Worker : MailboxOwned(u)'
    BY <1>18, <2>1 DEF Reopen, CInv, CellOwned, MInv, MailboxOwned, Serves
  <2> QED
    BY <2>2, <2>3 DEF MInv
<1>19. CASE Found(w)
  <2>1. \A u, t \in Worker : Serves(u, t)' => Serves(u, t) /\ (pc'[u] # "ansT" => pc[u] # "ansT")
    BY <1>19 DEF Found, CInv, CellOwned, Serves
  <2>2. \A u \in Worker : Idle(u)'
    BY <1>19 DEF Found, MInv, Idle
  <2>3. \A u \in Worker : MailboxOwned(u)'
    BY <1>19, <2>1 DEF Found, CInv, CellOwned, MInv, MailboxOwned, Serves
  <2> QED
    BY <2>2, <2>3 DEF MInv
<1> QED
  BY <1>1, <1>2, <1>3, <1>4, <1>5, <1>6, <1>7, <1>8, <1>9, <1>10, <1>11, <1>12, <1>13, <1>14, <1>15, <1>16, <1>17, <1>18, <1>19 DEF ProtocolStep

------------------------------------------------------------------------------
(* What is delivered *)

\* A set without two different members has at most one.
LEMMA FewerThanTwo ==
    ASSUME NEW F, ~\E e, x \in F : e # x
    PROVE  Cardinality(F) \in {0, 1}
<1>1. CASE F = {}
  BY <1>1, FS_EmptySet
<1>2. CASE F # {}
  <2>1. PICK e \in F : TRUE
    BY <1>2
  <2>2. F = {e}
    BY <2>1
  <2> QED
    BY <2>2, FS_Singleton
<1> QED
  BY <1>1, <1>2

\* With a positive cutoff a splittable frontier has two entries.
LEMMA SplittableHasTwo ==
    ASSUME NEW w \in Worker, SplitCutoff > 0, Size(w) = 2
    PROVE  \E e, x \in my_frontier[w] : e # x
<1> SUFFICES ASSUME ~\E e, x \in my_frontier[w] : e # x PROVE FALSE
  OBVIOUS
<1> DEFINE sz == Cardinality(my_frontier[w])
<1>1. sz \in {0, 1}
  BY FewerThanTwo
<1>2. ~(sz > SplitCutoff) /\ ~(sz > 1)
  BY <1>1, WorkerAssumption
<1>3. Size(w) \in {0, 1}
  BY <1>2 DEF Size
<1> QED
  BY <1>3

\* Nothing has been handed over at the start.
LEMMA InitDInv == ASSUME NEW input, PInit(input) PROVE DInv
BY DEF PInit, DInv, WorkOrDone, Delivered

\* A body cannot take back what was handed over.
LEMMA BodyDInv ==
    ASSUME NEW Item, NEW Pc, PTypeOK(Item, Pc), DInv, NEW w \in Worker, BodyStep(w)
    PROVE  DInv'
<1>1. PICK l : l \notin ProtocolPc \ {"body", "loop", "found"} /\ Goto(w, l)
  BY DEF BodyStep
<1>2. \A u \in Worker : u # w => pc'[u] = pc[u] /\ my_frontier'[u] = my_frontier[u]
  BY <1>1 DEF PTypeOK, Goto, BodyStep
<1>3. pc'[w] = l
  BY <1>1 DEF PTypeOK, Goto
<1>4. UNCHANGED <<requests, answers, is_done, other, frontiers>>
  BY DEF BodyStep, cvars
<1> QED
  BY <1>1, <1>2, <1>3, <1>4 DEF DInv, WorkOrDone, Delivered, ProtocolPc

\* A step of the protocol delivers what it promises.
LEMMA ProtocolDInv ==
    ASSUME NEW Item, NEW Pc, PTypeOK(Item, Pc), CInv, MInv, DInv,
           NEW w \in Worker, ProtocolStep(w)
    PROVE  DInv'
<1> SUFFICES ASSUME SplitCutoff > 0
             PROVE  WorkOrDone' /\ \A u \in Worker : Delivered(u)'
  BY DEF DInv
<1>a. WorkOrDone /\ \A u \in Worker : Delivered(u)
  BY DEF DInv
<1> USE WorkerAssumption DEF PTypeOK, Goto, cvars, wvars
<1>1. CASE Start(w)
  BY <1>1, <1>a DEF Start, WorkOrDone, Delivered
<1>2. CASE Loop(w)
  BY <1>2, <1>a DEF Loop, WorkOrDone, Delivered
<1>3. CASE Block(w)
  BY <1>3, <1>a DEF Block, WorkOrDone, Delivered
<1>4. CASE BlockCas(w)
  BY <1>4, <1>a DEF BlockCas, WorkOrDone, Delivered
<1>5. CASE RejectStore(w)
  BY <1>5, <1>a DEF RejectStore, WorkOrDone, Delivered
<1>6. CASE RejectAnswer(w)
  BY <1>6, <1>a DEF RejectAnswer, WorkOrDone, Delivered
<1>7. CASE Ask(w)
  BY <1>7, <1>a DEF Ask, WorkOrDone, Delivered
<1>8. CASE Probe(w)
  BY <1>8, <1>a DEF Probe, WorkOrDone, Delivered
<1>9. CASE AskCas(w)
  BY <1>9, <1>a DEF AskCas, WorkOrDone, Delivered, CInv, AnswerCleared
<1>10. CASE Wait(w)
  BY <1>10, <1>a DEF Wait, WorkOrDone, Delivered
<1>11. CASE WaitDone(w)
  BY <1>11, <1>a DEF WaitDone, WorkOrDone, Delivered
<1>12. CASE Got(w)
  BY <1>12, <1>a DEF Got, WorkOrDone, Delivered
<1>13. CASE Take(w)
  <2>1. \A u \in Worker : pc[u] = "ansT" => other[u] # w
    BY <1>13 DEF Take, CInv, OneVictimPerThief, CellOwned, Asking, Serves
  <2> QED
    BY <1>13, <1>a, <2>1 DEF Take, WorkOrDone, Delivered
<1>14. CASE Respond(w)
  <2>1. pc'[w] = "fork" => \E e, x \in my_frontier[w] : e # x
    BY <1>14, SplittableHasTwo DEF Respond
  <2> QED
    BY <1>14, <1>a, <2>1 DEF Respond, WorkOrDone, Delivered
<1>15. CASE Fork(w)
  <2>1. PICK T \in SplitParts(my_frontier[w]) :
           /\ my_frontier' = [my_frontier EXCEPT ![w] = @ \ T]
           /\ frontiers' = [frontiers EXCEPT ![other[w]] = IF T = {} THEN @ ELSE T]
    BY <1>15 DEF Fork
  <2>2. T # {}
    BY <1>15, <1>a, SplitMoves DEF Fork, Delivered
  <2> QED
    BY <1>15, <1>a, <2>1, <2>2 DEF Fork, WorkOrDone, Delivered
<1>16. CASE AnswerTransferred(w)
  BY <1>16, <1>a DEF AnswerTransferred, WorkOrDone, Delivered
<1>17. CASE AnswerRejected(w)
  BY <1>17, <1>a DEF AnswerRejected, WorkOrDone, Delivered
<1>18. CASE Reopen(w)
  BY <1>18, <1>a DEF Reopen, WorkOrDone, Delivered
<1>19. CASE Found(w)
  BY <1>19, <1>a DEF Found, WorkOrDone, Delivered
<1> QED
  BY <1>1, <1>2, <1>3, <1>4, <1>5, <1>6, <1>7, <1>8, <1>9, <1>10, <1>11, <1>12, <1>13, <1>14, <1>15, <1>16, <1>17, <1>18, <1>19 DEF ProtocolStep

------------------------------------------------------------------------------
(* The invariant as a whole, and what becomes of the work *)

\* The invariant holds at the start ...
LEMMA InitPInv == ASSUME NEW input, PInit(input) PROVE PInv
BY InitCInv, InitMInv, InitDInv DEF PInv

\* ... through the protocol ...
LEMMA ProtocolPInv ==
    ASSUME NEW Item, NEW Pc, PTypeOK(Item, Pc), PInv, NEW w \in Worker, ProtocolStep(w)
    PROVE  PInv'
BY ProtocolCInv, ProtocolMInv, ProtocolDInv DEF PInv

\* ... through the bodies ...
LEMMA BodyPInv ==
    ASSUME NEW Item, NEW Pc, PTypeOK(Item, Pc), PInv, NEW w \in Worker, BodyStep(w)
    PROVE  PInv'
BY BodyCInv, BodyMInv, BodyDInv DEF PInv

\* ... and when nothing happens.
LEMMA StutterPInv == ASSUME PInv, UNCHANGED pvars PROVE PInv'
<1> USE DEF pvars
<1>1. CInv'
  BY DEF PInv, CInv, OneVictimPerThief, CellOwned, AnswerCleared, Asking, Serves
<1>2. MInv'
  BY DEF PInv, MInv, Idle, MailboxOwned, Serves
<1>3. DInv'
  BY DEF PInv, DInv, WorkOrDone, Delivered
<1> QED
  BY <1>1, <1>2, <1>3 DEF PInv

\* No entry is in two places.
HeldOnce ==
    /\ \A u, t \in Worker : u # t => Held(u) \cap Held(t) = {}
    /\ \A u \in Worker : my_frontier[u] \cap frontiers[u] = {}

\* The protocol carries work around: it loses none, adds none and copies none.
LEMMA ProtocolMoves ==
    ASSUME NEW Item, NEW Pc, PTypeOK(Item, Pc), MailboxFree, NEW w \in Worker, ProtocolStep(w)
    PROVE  /\ UNION {Held(u)' : u \in Worker} = UNION {Held(u) : u \in Worker}
           /\ HeldOnce => HeldOnce'
<1> DEFINE Moved == /\ UNION {Held(u)' : u \in Worker} = UNION {Held(u) : u \in Worker}
                    /\ HeldOnce => HeldOnce'
<1>1. CASE UNCHANGED <<my_frontier, frontiers>>
  BY <1>1 DEF Held, HeldOnce
<1>2. CASE Take(w)
  <2>1. /\ my_frontier'[w] = frontiers[w] /\ frontiers'[w] = my_frontier[w]
        /\ \A u \in Worker : u # w => my_frontier'[u] = my_frontier[u] /\ frontiers'[u] = frontiers[u]
    BY <1>2 DEF Take, PTypeOK
  <2>2. \A u \in Worker : Held(u)' = Held(u)
    BY <2>1 DEF Held
  <2> QED
    BY <2>1, <2>2 DEF HeldOnce
<1>3. CASE Fork(w)
  <2> DEFINE t == other[w]
  <2>1. PICK T \in SplitParts(my_frontier[w]) :
           /\ my_frontier' = [my_frontier EXCEPT ![w] = @ \ T]
           /\ frontiers' = [frontiers EXCEPT ![t] = IF T = {} THEN @ ELSE T]
    BY <1>3 DEF Fork
  <2>2. T \subseteq my_frontier[w]
    BY SplitSubset
  <2>3. t \in Worker /\ t # w /\ frontiers[t] = {}
    BY <1>3 DEF Fork, MailboxFree, PTypeOK
  <2>4. /\ my_frontier'[w] = my_frontier[w] \ T /\ frontiers'[w] = frontiers[w]
        /\ my_frontier'[t] = my_frontier[t] /\ frontiers'[t] = T
        /\ \A u \in Worker : u # w /\ u # t =>
              my_frontier'[u] = my_frontier[u] /\ frontiers'[u] = frontiers[u]
    BY <2>1, <2>3 DEF PTypeOK
  <2>5. ASSUME NEW e
        PROVE  (\E u \in Worker : e \in Held(u)') <=> (\E u \in Worker : e \in Held(u))
    BY <2>2, <2>3, <2>4 DEF Held
  <2>6. UNION {Held(u)' : u \in Worker} = UNION {Held(u) : u \in Worker}
    BY <2>5
  <2>7. HeldOnce => HeldOnce'
    BY <2>2, <2>3, <2>4 DEF Held, HeldOnce
  <2> QED
    BY <2>6, <2>7
<1> QED
  BY <1>1, <1>2, <1>3
     DEF ProtocolStep, Start, Loop, Block, BlockCas, RejectStore, RejectAnswer, Ask, Probe, AskCas,
         Wait, WaitDone, Got, Respond, AnswerTransferred, AnswerRejected, Reopen, Found,
         wvars

==============================================================================
