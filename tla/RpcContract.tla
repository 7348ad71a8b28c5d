---------------------------- MODULE RpcContract ----------------------------
(***************************************************************************)
(* What requestStream promises its callers, with no channels, serials or   *)
(* goroutines: a call succeeds only on an answer of its own from the       *)
(* server, fails only on such an answer or because the connection is gone, *)
(* is interrupted only when the connection is gone, and returns once.      *)
(***************************************************************************)
CONSTANT Calls

VARIABLES
    status,    \* "idle", "pending", or what the call has returned
    answered,  \* the calls libvirtd has answered
    lost       \* the connection is gone

vars == <<status, answered, lost>>

Init ==
    /\ status = [c \in Calls |-> "idle"]
    /\ answered = {}
    /\ lost = FALSE

Issue(c) ==
    /\ status[c] = "idle"
    /\ status' = [status EXCEPT ![c] = "pending"]
    /\ UNCHANGED <<answered, lost>>

Answer(c) ==
    /\ status[c] = "pending"
    /\ answered' = answered \cup {c}
    /\ UNCHANGED <<status, lost>>

Resolve(c, r) ==
    /\ status[c] = "pending"
    /\ status' = [status EXCEPT ![c] = r]
    /\ UNCHANGED <<answered, lost>>

Succeed(c) == c \in answered /\ Resolve(c, "ok")
Fail(c) == (c \in answered \/ lost) /\ Resolve(c, "failed")
Interrupt(c) == lost /\ Resolve(c, "interrupted")

Lose ==
    /\ ~lost
    /\ lost' = TRUE
    /\ UNCHANGED <<status, answered>>

Next ==
    \/ \E c \in Calls :
        Issue(c) \/ Answer(c) \/ Succeed(c) \/ Fail(c) \/ Interrupt(c)
    \/ Lose

Spec == Init /\ [][Next]_vars
=============================================================================
