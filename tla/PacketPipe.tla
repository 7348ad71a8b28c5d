------------------------------ MODULE PacketPipe ------------------------------
(***************************************************************************)
(* What the socket promises to those above it, on each connection: a       *)
(* packet reaches libvirtd whole or not at all, SendPacket tells which,    *)
(* and the packets of libvirtd are routed one after the other, in order.   *)
(* To reach libvirtd is to be taken by the connection (net.Conn) to the    *)
(* last octet: whether libvirtd reads what it took, SendPacket cannot tell.*)
(***************************************************************************)
EXTENDS Naturals

CONSTANTS
    Senders,     \* calls of SendPacket
    MaxConns     \* bound on the connections

VARIABLES
    conn,        \* the current connection
    delivered,   \* the packets each connection has taken for libvirtd
    status,      \* of each SendPacket: "idle", "sending", "sent" or "failed"
    routed       \* how many packets of the connection have been routed

vars == <<conn, delivered, status, routed>>

Delivered(k) == \E c \in 1..MaxConns : k \in delivered[c]

Init ==
    /\ conn = 0
    /\ delivered = [c \in 1..MaxConns |-> {}]
    /\ status = [k \in Senders |-> "idle"]
    /\ routed = 0

Connect ==
    /\ conn < MaxConns
    /\ conn' = conn + 1
    /\ routed' = 0
    /\ UNCHANGED <<delivered, status>>

Begin(k) ==
    /\ status[k] = "idle"
    /\ \E s \in {"sending", "failed"} : status' = [status EXCEPT ![k] = s]
    /\ UNCHANGED <<conn, delivered, routed>>

\* The packet reaches libvirtd, as a whole and once.
Deliver(k) ==
    /\ status[k] = "sending" /\ conn > 0 /\ ~Delivered(k)
    /\ delivered' = [delivered EXCEPT ![conn] = @ \cup {k}]
    /\ status' \in {status, [status EXCEPT ![k] = "sent"]}
    /\ UNCHANGED <<conn, routed>>

Finish(k) ==
    /\ status[k] = "sending"
    /\ status' = [status EXCEPT ![k] = IF Delivered(k) THEN "sent" ELSE "failed"]
    /\ UNCHANGED <<conn, delivered, routed>>

\* The next packet is routed: the one libvirtd has sent after the last.
Route ==
    /\ routed' = routed + 1
    /\ UNCHANGED <<conn, delivered, status>>

Next ==
    \/ Connect \/ Route
    \/ \E k \in Senders : Begin(k) \/ Deliver(k) \/ Finish(k)

Spec == Init /\ [][Next]_vars
=============================================================================
