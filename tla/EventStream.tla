---------------------------- MODULE EventStream ----------------------------
(***************************************************************************)
(* One event.Stream (internal/event/stream.go): the goroutine of           *)
(* process(), the goroutines that Push events into it, its one client, and *)
(* callers of Len.  Every channel is unbuffered, so a communication is one *)
(* step of both sides.                                                     *)
(***************************************************************************)
EXTENDS Naturals, Sequences

CONSTANTS
    Pushers,     \* goroutines that call Push: the listeners of connections
    LenCallers,  \* goroutines that call Len, once each
    NoCaller,    \* "process() is not answering a Len"
    MaxPushes    \* bound on the events each pusher pushes

ASSUME CallersAssumption == NoCaller \notin LenCallers
ASSUME MaxPushesAssumption == MaxPushes \in Nat

Events == Pushers \X (1..MaxPushes)

VARIABLES
    queue,     \* Stream.queue
    ppc,       \* where process() is: "select", "len" or "exited" (out closed)
    lenCh,     \* whose channel process() has taken from qlen
    canceled,  \* ctx is done: Shutdown has been called
    pushes,    \* how many events each pusher has begun to push
    upc,       \* where each pusher is: "idle", or in the select of "push"
    client,    \* "recv", "away" (not receiving) or "ended" (saw out closed)
    lpc,       \* where each caller of Len is
    accepted,  \* history: the events taken from Stream.in
    received   \* history: the events the client has got

vars == <<queue, ppc, lenCh, canceled, pushes, upc, client, lpc, accepted, received>>

TypeOK ==
    /\ queue \in Seq(Events)
    /\ ppc \in {"select", "len", "exited"}
    /\ lenCh \in LenCallers \cup {NoCaller}
    /\ canceled \in BOOLEAN
    /\ pushes \in [Pushers -> 0..MaxPushes]
    /\ upc \in [Pushers -> {"idle", "push"}]
    /\ client \in {"recv", "away", "ended"}
    /\ lpc \in [LenCallers -> {"idle", "ask", "wait", "done"}]
    /\ accepted \in Seq(Events)
    /\ received \in Seq(Events)

Init ==
    /\ queue = <<>>
    /\ ppc = "select"
    /\ lenCh = NoCaller
    /\ canceled = FALSE
    /\ pushes = [u \in Pushers |-> 0]
    /\ upc = [u \in Pushers |-> "idle"]
    /\ client = "away"
    /\ lpc = [c \in LenCallers |-> "idle"]
    /\ accepted = <<>>
    /\ received = <<>>

\* Faulty variants, which no run uses, are named <operator>_<fault> and stand
\* before the operator; each breaks a property stated at the end.

(***************************************************************************)
(* Push: a select between handing the event over and the context.          *)
(***************************************************************************)
BeginPush(u) ==
    /\ upc[u] = "idle"
    /\ pushes[u] < MaxPushes
    /\ pushes' = [pushes EXCEPT ![u] = @ + 1]
    /\ upc' = [upc EXCEPT ![u] = "push"]
    /\ UNCHANGED <<queue, ppc, lenCh, canceled, client, lpc, accepted, received>>

\* Push gives up only while process() still runs.
GiveUpPush_Early(u) ==
    /\ upc[u] = "push"
    /\ canceled /\ ppc # "exited"
    /\ upc' = [upc EXCEPT ![u] = "idle"]
    /\ UNCHANGED <<queue, ppc, lenCh, canceled, pushes, client, lpc, accepted, received>>

GiveUpPush(u) ==
    /\ upc[u] = "push"
    /\ canceled
    /\ upc' = [upc EXCEPT ![u] = "idle"]
    /\ UNCHANGED <<queue, ppc, lenCh, canceled, pushes, client, lpc, accepted, received>>

\* The channel in has a buffer: an event is taken though process() has returned.
AcceptPush_Buffered(u) ==
    /\ upc[u] = "push"
    /\ queue' = Append(queue, <<u, pushes[u]>>)
    /\ accepted' = Append(accepted, <<u, pushes[u]>>)
    /\ upc' = [upc EXCEPT ![u] = "idle"]
    /\ UNCHANGED <<ppc, lenCh, canceled, pushes, client, lpc, received>>

AcceptPush(u) ==
    /\ upc[u] = "push"
    /\ ppc = "select"
    /\ queue' = Append(queue, <<u, pushes[u]>>)
    /\ accepted' = Append(accepted, <<u, pushes[u]>>)
    /\ upc' = [upc EXCEPT ![u] = "idle"]
    /\ UNCHANGED <<ppc, lenCh, canceled, pushes, client, lpc, received>>

(***************************************************************************)
(* The client: it receives from out when it wants to.                      *)
(***************************************************************************)
BeginRecv ==
    /\ client = "away"
    /\ client' = "recv"
    /\ UNCHANGED <<queue, ppc, lenCh, canceled, pushes, upc, lpc, accepted, received>>

\* The event offered is not the head of the queue that is then cut off.
HandOver_Last ==
    /\ ppc = "select"
    /\ client = "recv"
    /\ queue # <<>>
    /\ received' = Append(received, queue[Len(queue)])
    /\ queue' = Tail(queue)
    /\ client' = "away"
    /\ UNCHANGED <<ppc, lenCh, canceled, pushes, upc, lpc, accepted>>

HandOver ==
    /\ ppc = "select"
    /\ client = "recv"
    /\ queue # <<>>
    /\ received' = Append(received, Head(queue))
    /\ queue' = Tail(queue)
    /\ client' = "away"
    /\ UNCHANGED <<ppc, lenCh, canceled, pushes, upc, lpc, accepted>>

SeeClosed ==
    /\ ppc = "exited"
    /\ client = "recv"
    /\ client' = "ended"
    /\ UNCHANGED <<queue, ppc, lenCh, canceled, pushes, upc, lpc, accepted, received>>

(***************************************************************************)
(* Len, and the end of the stream.                                         *)
(***************************************************************************)
BeginLen(c) ==
    /\ lpc[c] = "idle"
    /\ lpc' = [lpc EXCEPT ![c] = "ask"]
    /\ UNCHANGED <<queue, ppc, lenCh, canceled, pushes, upc, client, accepted, received>>

TakeLen(c) ==
    /\ lpc[c] = "ask"
    /\ ppc = "select"
    /\ ppc' = "len"
    /\ lenCh' = c
    /\ lpc' = [lpc EXCEPT ![c] = "wait"]
    /\ UNCHANGED <<queue, canceled, pushes, upc, client, accepted, received>>

AnswerLen(c) ==
    /\ ppc = "len"
    /\ lenCh = c
    /\ lpc[c] = "wait"
    /\ ppc' = "select"
    /\ lenCh' = NoCaller
    /\ lpc' = [lpc EXCEPT ![c] = "done"]
    /\ UNCHANGED <<queue, canceled, pushes, upc, client, accepted, received>>

Shutdown ==
    /\ ~canceled
    /\ canceled' = TRUE
    /\ UNCHANGED <<queue, ppc, lenCh, pushes, upc, client, lpc, accepted, received>>

Exit ==
    /\ ppc = "select"
    /\ canceled
    /\ ppc' = "exited"
    /\ UNCHANGED <<queue, lenCh, canceled, pushes, upc, client, lpc, accepted, received>>

Push(u) == GiveUpPush(u) \/ AcceptPush(u)

\* Shut down, and no goroutine has anything left to do.
Terminated ==
    /\ ppc = "exited"
    /\ \A u \in Pushers : upc[u] = "idle" /\ pushes[u] = MaxPushes
    /\ client = "ended"
    /\ \A c \in LenCallers : lpc[c] \in {"ask", "done"}
    /\ UNCHANGED vars

Next ==
    \/ \E u \in Pushers : BeginPush(u) \/ Push(u)
    \/ BeginRecv \/ HandOver \/ SeeClosed
    \/ \E c \in LenCallers : BeginLen(c) \/ TakeLen(c) \/ AnswerLen(c)
    \/ Shutdown \/ Exit
    \/ Terminated

Spec == Init /\ [][Next]_vars

(***************************************************************************)
(* Goroutines in a select that can go on do so; Go's select picks a ready  *)
(* case at random, so no case that stays ready is passed over for ever.    *)
(* Nothing is assumed of the client: it need never receive.                *)
(***************************************************************************)
Fairness ==
    /\ \A u \in Pushers : SF_vars(Push(u))
    /\ SF_vars(Exit)
    /\ WF_vars(SeeClosed)
    /\ \A c \in LenCallers : WF_vars(AnswerLen(c)) /\ SF_vars(TakeLen(c))

FairSpec == Spec /\ Fairness

(***************************************************************************)
(* Properties.                                                             *)
(***************************************************************************)

\* The events the client has got and those in the queue are, in order, those
\* that were accepted: none lost, doubled or reordered before the shutdown.
Fifo == accepted = received \o queue

\* A pusher in Push has an event to push.
PushBegun == \A u \in Pushers : upc[u] = "push" => pushes[u] \in 1..MaxPushes

\* The inductive invariant behind Fifo and the refinement.
Inv == TypeOK /\ PushBegun /\ Fifo

Queue == INSTANCE EventQueue WITH
    sent <- accepted,
    open <- ppc # "exited"

\* A Stream is an unbounded FIFO channel that Shutdown closes.
Implements == Queue!Spec

\* "Client behavior will not cause incoming events to block": Push returns even
\* if the client never receives and whenever the stream is shut down.
PushReturns == \A u \in Pushers : (upc[u] = "push") ~> (upc[u] = "idle")

\* After Shutdown the out channel is closed, whatever is still in the queue.
ShutdownCloses == canceled ~> (ppc = "exited")

\* Len returns whatever the client does, unless the stream is shut down first:
\* then it may block for ever, because it sends on qlen whatever the context.
LenReturns == \A c \in LenCallers : (lpc[c] = "ask") ~> (lpc[c] = "done" \/ canceled)

\* No goroutine of, or around, a stream is kept waiting by a client that does not
\* receive: neither the listener that pushes, nor process(), nor callers of Len.
NobodyWaitsForClient == PushReturns /\ ShutdownCloses /\ LenReturns
=============================================================================
