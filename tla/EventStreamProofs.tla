------------------------- MODULE EventStreamProofs -------------------------
(***************************************************************************)
(* Proofs about EventStream, for any number of pushers, callers of Len and *)
(* events: no event is lost, doubled or reordered, and the stream          *)
(* implements the abstract queue.                                          *)
(***************************************************************************)
EXTENDS EventStream, TLAPS

\* The only steps that touch the queue or the histories are these two.
QueueVars == <<queue, accepted, received>>

LEMMA InitInv == Init => Inv
  <1> SUFFICES ASSUME Init PROVE Inv
    OBVIOUS
  <1>1. <<>> \in Seq(Events) /\ <<>> = <<>> \o <<>>
    OBVIOUS
  <1>2. TypeOK
    <2>1. pushes \in [Pushers -> 0..MaxPushes]
      BY MaxPushesAssumption DEF Init
    <2>2. queue \in Seq(Events) /\ accepted \in Seq(Events) /\ received \in Seq(Events)
      BY <1>1 DEF Init
    <2>3. upc \in [Pushers -> {"idle", "push"}]
      BY DEF Init
    <2>4. lpc \in [LenCallers -> {"idle", "ask", "wait", "done"}]
      BY DEF Init
    <2> QED BY <2>1, <2>2, <2>3, <2>4 DEF Init, TypeOK
  <1> QED BY <1>1, <1>2 DEF Init, Inv, PushBegun, Fifo

\* A sequence cut in two at the head: what HandOver does to Fifo.
LEMMA MoveHead ==
    ASSUME NEW S, NEW q \in Seq(S), NEW r \in Seq(S), q # <<>>
    PROVE  Append(r, Head(q)) \o Tail(q) = r \o q
  OBVIOUS

\* What Push does to Fifo.
LEMMA AppendRight ==
    ASSUME NEW S, NEW q \in Seq(S), NEW r \in Seq(S), NEW e \in S
    PROVE  Append(r \o q, e) = r \o Append(q, e)
  OBVIOUS

LEMMA TypeStep == Inv /\ [Next]_vars => TypeOK' /\ PushBegun'
  <1> SUFFICES ASSUME Inv, [Next]_vars PROVE TypeOK' /\ PushBegun'
    OBVIOUS
  <1> USE MaxPushesAssumption DEF Inv, TypeOK, PushBegun
  <1>1. ASSUME NEW u \in Pushers, BeginPush(u) PROVE TypeOK' /\ PushBegun'
    BY <1>1 DEF BeginPush
  <1>2. ASSUME NEW u \in Pushers, GiveUpPush(u) PROVE TypeOK' /\ PushBegun'
    BY <1>2 DEF GiveUpPush
  <1>3. ASSUME NEW u \in Pushers, AcceptPush(u) PROVE TypeOK' /\ PushBegun'
    <2>1. <<u, pushes[u]>> \in Events
      BY <1>3 DEF AcceptPush, Events
    <2> QED BY <1>3, <2>1 DEF AcceptPush
  <1>4. CASE BeginRecv \/ SeeClosed \/ Shutdown \/ Exit
    BY <1>4 DEF BeginRecv, SeeClosed, Shutdown, Exit
  <1>5. CASE HandOver
    BY <1>5 DEF HandOver
  <1>6. ASSUME NEW c \in LenCallers, BeginLen(c) \/ TakeLen(c) \/ AnswerLen(c) PROVE TypeOK' /\ PushBegun'
    BY <1>6 DEF BeginLen, TakeLen, AnswerLen
  <1>7. CASE UNCHANGED vars
    BY <1>7 DEF vars
  <1> QED BY <1>1, <1>2, <1>3, <1>4, <1>5, <1>6, <1>7 DEF Next, Push, Terminated

\* Every step keeps the queue between what was accepted and what was received,
\* and is a step, or a stutter, of the abstract queue.
LEMMA QueueStep ==
    ASSUME Inv, [Next]_vars
    PROVE  Fifo' /\ [Queue!Next]_(Queue!vars)
  <1> USE DEF Inv, Queue!vars
  <1>1. ASSUME NEW u \in Pushers, AcceptPush(u) PROVE Fifo' /\ Queue!Send
    <2>1. <<u, pushes[u]>> \in Events
      BY <1>1 DEF PushBegun, AcceptPush, Events
    <2> QED BY <1>1, <2>1, AppendRight, ZenonT(60) DEF TypeOK, Fifo, AcceptPush, Queue!Send
  <1>2. ASSUME HandOver PROVE Fifo' /\ Queue!Receive
    <2>1. Fifo'
      BY <1>2, MoveHead DEF TypeOK, Fifo, HandOver
    <2>2. Head(queue) = accepted[Len(received) + 1] /\ Len(received) < Len(accepted)
      BY <1>2 DEF TypeOK, Fifo, HandOver
    <2> QED BY <1>2, <2>1, <2>2 DEF HandOver, Queue!Receive
  <1>3. ASSUME Exit PROVE Fifo' /\ Queue!Close
    BY <1>3 DEF Fifo, Exit, Queue!Close
  <1>4. ASSUME UNCHANGED <<QueueVars, ppc = "exited">>
        PROVE  Fifo' /\ UNCHANGED Queue!vars
    BY <1>4 DEF Fifo, QueueVars
  <1>5. ASSUME NEW u \in Pushers, BeginPush(u) \/ GiveUpPush(u) PROVE Fifo' /\ UNCHANGED Queue!vars
    BY <1>4, <1>5 DEF BeginPush, GiveUpPush, QueueVars
  <1>6. CASE BeginRecv \/ SeeClosed \/ Shutdown \/ UNCHANGED vars
    BY <1>4, <1>6 DEF BeginRecv, SeeClosed, Shutdown, vars, QueueVars
  <1>7. ASSUME NEW c \in LenCallers, BeginLen(c) \/ TakeLen(c) \/ AnswerLen(c)
        PROVE  Fifo' /\ UNCHANGED Queue!vars
    BY <1>4, <1>7 DEF BeginLen, TakeLen, AnswerLen, QueueVars
  <1> QED BY <1>1, <1>2, <1>3, <1>5, <1>6, <1>7 DEF Next, Push, Terminated, Queue!Next

-----------------------------------------------------------------------------

\* The inductive invariant of EventStream: types, and nothing lost, doubled or
\* reordered between Push and Recv.
THEOREM Invariance == Spec => []Inv
  <1>1. Inv /\ [Next]_vars => Inv'
    BY TypeStep, QueueStep DEF Inv
  <1> QED BY InitInv, <1>1, PTL DEF Spec

\* Nothing is lost, doubled or reordered, whatever the client does.
THEOREM Lossless == Spec => [](TypeOK /\ Fifo)
  BY Invariance, PTL DEF Inv

\* process(), Push and Recv together implement an unbounded FIFO channel.
THEOREM StreamIsQueue == Spec => Implements
  <1>1. Init => Queue!Init
    BY DEF Init, Queue!Init
  <1>2. Inv /\ [Next]_vars => [Queue!Next]_(Queue!vars)
    BY QueueStep
  <1> QED BY <1>1, <1>2, Invariance, PTL DEF Spec, Implements, Queue!Spec
=============================================================================
