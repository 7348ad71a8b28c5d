----------------------------- MODULE EventQueue -----------------------------
(***************************************************************************)
(* What event.Stream promises: a channel of unbounded capacity.  Events    *)
(* are received in the order they were sent, each once, none invented;     *)
(* when the channel is closed what has not been received is dropped.       *)
(***************************************************************************)
EXTENDS Naturals, Sequences

CONSTANT Events

VARIABLES
    sent,      \* every event ever sent, in order
    received,  \* every event ever received, in order
    open       \* the channel has not been closed

vars == <<sent, received, open>>

Init ==
    /\ sent = <<>>
    /\ received = <<>>
    /\ open = TRUE

Send ==
    /\ open
    /\ \E e \in Events : sent' = Append(sent, e)
    /\ UNCHANGED <<received, open>>

Receive ==
    /\ open
    /\ Len(received) < Len(sent)
    /\ received' = Append(received, sent[Len(received) + 1])
    /\ UNCHANGED <<sent, open>>

Close ==
    /\ open
    /\ open' = FALSE
    /\ UNCHANGED <<sent, received>>

Next == Send \/ Receive \/ Close

Spec == Init /\ [][Next]_vars
=============================================================================
