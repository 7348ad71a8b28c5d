------------------------------- MODULE Framing -------------------------------
(***************************************************************************)
(* The socket (socket/socket.go) between packets and octets: SendPacket    *)
(* writes through a bufio.Writer under Socket.mu to a connection that may  *)
(* break in the middle of a write; listen() reads length, header and       *)
(* payload from a connection on which octets arrive one by one, reads fail *)
(* and the end may come anywhere; Connect makes a new reader and writer.   *)
(*                                                                         *)
(* Octets stand in cells, numbered in each packet.  What is written has a   *)
(* header of one cell, what is read a length of two (it may arrive in      *)
(* part) and a header of one, and payloads have as many as one likes.      *)
(***************************************************************************)
EXTENDS Integers, Sequences

CONSTANTS
    Senders,          \* calls of SendPacket
    PayloadSize,      \* the cells of the payload of each, 0 if it has none
    Nobody,           \* Socket.mu is free
    BufferSize,       \* cells in the buffer of a bufio.Writer (4096 octets)
    MaxConns,         \* bound on the connections
    MaxPackets,       \* bound on the packets libvirtd sends on each
    SizeIn,           \* the cells of the payload of each of those
    TimeoutsInPackets \* a read may fail, and then go on, in the middle of a packet

Conns == 1..MaxConns

ASSUME SendersAssumption == PayloadSize \in [Senders -> Nat] /\ Nobody \notin Senders
ASSUME BufferAssumption == BufferSize \in Nat \ {0}
ASSUME BoundsAssumption == MaxConns \in Nat /\ MaxPackets \in Nat
ASSUME SizesAssumption == SizeIn \in [1..MaxPackets -> Nat]
ASSUME TogglesAssumption == TimeoutsInPackets \in BOOLEAN

VARIABLES
    conn,          \* the current connection, 0 before the first
    broken,        \* it is broken, or closed by Disconnect
    disconnected,  \* Socket.disconnected is closed
    mu,            \* who holds Socket.mu
    pc,            \* where each SendPacket is
    todo,          \* what it has still to hand to the writer, part by part
    buf,           \* the buffer of the bufio.Writer
    sticky,        \* its error
    wire,          \* the cells each connection has taken
    sentIn,        \* how far libvirtd has sent on the current connection
    lpc,           \* the listener: "off", or the part of a packet it reads
    pos,           \* how far it has read
    got,           \* those of the current part
    size,          \* the payload the last length promises
    header,        \* the last header
    routed         \* what Route has been given, on the current connection

sendVars == <<mu, pc, todo, buf, sticky, wire>>
readVars == <<lpc, pos, got, size, header, routed>>
vars == <<conn, broken, disconnected, sendVars, sentIn, readVars>>

(***************************************************************************)
(* Packets in cells.                                                       *)
(***************************************************************************)
Cells(k) == 1 + PayloadSize[k]
Header(k) == <<<<k, 1>> >>
Payload(k) == [i \in 1..PayloadSize[k] |-> <<k, i + 1>>]

\* The packets libvirtd sends: length, header and payload.
LengthIn(n) == <<<<n, 1>>, <<n, 2>> >>
HeaderIn(n) == <<<<n, 3>> >>
PayloadIn(n) == [i \in 1..SizeIn[n] |-> <<n, i + 3>>]

\* How far its packets have gone: the packet, and the cells of it that have passed.
Start == <<1, 0>>
Advance(p) == IF p[2] + 1 < 3 + SizeIn[p[1]] THEN <<p[1], p[2] + 1>> ELSE <<p[1] + 1, 0>>
NextCell(p) == <<p[1], p[2] + 1>>
NotBeyond(p, q) == p[1] < q[1] \/ (p[1] = q[1] /\ p[2] <= q[2])

Init ==
    /\ conn = 0
    /\ broken = FALSE
    /\ disconnected = TRUE
    /\ mu = Nobody
    /\ pc = [k \in Senders |-> "idle"]
    /\ todo = [k \in Senders |-> <<>>]
    /\ buf = <<>>
    /\ sticky = FALSE
    /\ wire = [c \in Conns |-> <<>>]
    /\ sentIn = Start
    /\ lpc = "off"
    /\ pos = Start
    /\ got = <<>>
    /\ size = 0
    /\ header = <<>>
    /\ routed = <<>>

\* The first n cells of some, and those behind them.
First(cells, n) == SubSeq(cells, 1, n)
Behind(cells, n) == SubSeq(cells, n + 1, Len(cells))

Goto(k, l) == pc' = [pc EXCEPT ![k] = l]

(***************************************************************************)
(* Connections.                                                            *)
(***************************************************************************)
\* The new reader is read on from where the last one was left.
NewReader_Kept == sentIn' = Start /\ UNCHANGED <<pos, got>>
NewReader == sentIn' = Start /\ pos' = Start /\ got' = <<>>

Connect ==
    /\ mu = Nobody
    /\ disconnected
    /\ conn < MaxConns
    /\ conn' = conn + 1
    /\ broken' = FALSE
    /\ disconnected' = FALSE
    /\ buf' = <<>> /\ sticky' = FALSE
    /\ NewReader
    /\ lpc' = "length"
    /\ routed' = <<>>
    /\ UNCHANGED <<mu, pc, todo, wire, size, header>>

\* libvirtd or the network ends the connection, or Disconnect closes it.
Break ==
    /\ conn > 0 /\ ~broken
    /\ broken' = TRUE
    /\ UNCHANGED <<conn, disconnected, sendVars, sentIn, readVars>>

(***************************************************************************)
(* SendPacket.                                                             *)
(***************************************************************************)
Check(k) ==
    /\ pc[k] = "idle"
    /\ Goto(k, IF disconnected THEN "failed" ELSE "lock")
    /\ UNCHANGED <<conn, broken, disconnected, mu, todo, buf, sticky, wire, sentIn, readVars>>

Lock(k) ==
    /\ pc[k] = "lock"
    /\ mu = Nobody
    /\ mu' = k
    /\ todo' = [todo EXCEPT ![k] =
                   IF PayloadSize[k] = 0 THEN <<Header(k)>> ELSE <<Header(k), Payload(k)>>]
    /\ Goto(k, "write")
    /\ UNCHANGED <<conn, broken, disconnected, buf, sticky, wire, sentIn, readVars>>

\* Faulty variants are named <operator>_<fault>: the error of a write does not stay in
\* the writer; the mutex is not left on an error.
Stick_Forgets == sticky' = FALSE
Stick == sticky' = TRUE
Fail_Locked(k) == Goto(k, "failed") /\ UNCHANGED mu
Fail(k) == Goto(k, "failed") /\ mu' = Nobody

\* The connection takes the cells, or breaks after some of them: whoever writes fails.
TakeAll(cells) == wire' = [wire EXCEPT ![conn] = @ \o cells] /\ UNCHANGED sticky
TakeSome(k, cells) ==
    /\ broken
    /\ \E n \in 0..(Len(cells) - 1) : wire' = [wire EXCEPT ![conn] = @ \o First(cells, n)]
    /\ Stick
    /\ Fail(k)

\* Of a part that does not fit as much as fits goes out with the buffer, unless that is
\* empty: then all of it does.
Room == BufferSize - Len(buf)
Out(part) == IF buf = <<>> THEN part ELSE buf \o First(part, Room)
Rest(part) == IF buf = <<>> THEN <<>> ELSE <<Behind(part, Room)>>

\* A write to a writer with an error fails; one that fits waits in the buffer.
Write(k) ==
    /\ pc[k] = "write" /\ todo[k] # <<>>
    /\ LET part == Head(todo[k])
       IN  \/ /\ sticky
              /\ Fail(k)
              /\ UNCHANGED <<todo, buf, sticky, wire>>
           \/ /\ ~sticky /\ Len(part) <= Room
              /\ buf' = buf \o part
              /\ todo' = [todo EXCEPT ![k] = Tail(@)]
              /\ UNCHANGED <<mu, pc, sticky, wire>>
           \/ /\ ~sticky /\ Len(part) > Room
              /\ TakeAll(Out(part))
              /\ buf' = <<>>
              /\ todo' = [todo EXCEPT ![k] = Rest(part) \o Tail(@)]
              /\ UNCHANGED <<mu, pc>>
           \/ /\ ~sticky /\ Len(part) > Room
              /\ TakeSome(k, Out(part))
              /\ UNCHANGED <<todo, buf>>
    /\ UNCHANGED <<conn, broken, disconnected, sentIn, readVars>>

Flush(k) ==
    /\ pc[k] = "write" /\ todo[k] = <<>>
    /\ \/ /\ sticky
          /\ Fail(k)
          /\ UNCHANGED <<buf, sticky, wire>>
       \/ /\ ~sticky
          /\ TakeAll(buf)
          /\ buf' = <<>>
          /\ Goto(k, "sent") /\ mu' = Nobody
       \/ /\ ~sticky /\ buf # <<>>
          /\ TakeSome(k, buf)
          /\ UNCHANGED buf
    /\ UNCHANGED <<conn, broken, disconnected, todo, sentIn, readVars>>

(***************************************************************************)
(* listen().                                                               *)
(***************************************************************************)
Arrive ==
    /\ conn > 0 /\ ~broken
    /\ sentIn[1] <= MaxPackets
    /\ sentIn' = Advance(sentIn)
    /\ UNCHANGED <<conn, broken, disconnected, sendVars, readVars>>

Wanted == IF lpc = "length" THEN 2 ELSE IF lpc = "header" THEN 1 ELSE size

\* io.ReadFull, which may take several reads.
ReadCell ==
    /\ lpc # "off"
    /\ Len(got) < Wanted
    /\ pos # sentIn
    /\ got' = Append(got, NextCell(pos))
    /\ pos' = Advance(pos)
    /\ UNCHANGED <<conn, broken, disconnected, sendVars, sentIn, lpc, size, header, routed>>

\* A part is complete.  A length that is none makes the listener go astray; the model
\* has it read a payload of one cell.
Promised(cells) ==
    IF \E n \in 1..MaxPackets : cells = LengthIn(n) THEN SizeIn[cells[1][1]] ELSE 1

EndPart ==
    /\ lpc # "off"
    /\ Len(got) = Wanted
    /\ got' = <<>>
    /\ \/ /\ lpc = "length"
          /\ size' = Promised(got)
          /\ lpc' = "header"
          /\ UNCHANGED <<header, routed>>
       \/ /\ lpc = "header"
          /\ header' = got
          /\ lpc' = "payload"
          /\ UNCHANGED <<size, routed>>
       \/ /\ lpc = "payload"
          /\ routed' = Append(routed, header \o got)
          /\ lpc' = "length"
          /\ UNCHANGED <<size, header>>
    /\ UNCHANGED <<conn, broken, disconnected, sendVars, sentIn, pos>>

\* A read fails for now (isTemporary): pktlen is called again, an invalid packet
\* dropped.  What has been read of it is lost; that matters only if more arrives.
ReadFails ==
    /\ lpc # "off"
    /\ Len(got) < Wanted
    /\ pos = sentIn
    /\ (lpc = "length" /\ got = <<>>) \/ TimeoutsInPackets \/ broken
    /\ lpc' = "length"
    /\ got' = <<>>
    /\ UNCHANGED <<conn, broken, disconnected, sendVars, sentIn, pos, size, header, routed>>

\* Only the end of a connection between two packets is noticed.
ReadEnds_Waits ==
    /\ lpc = "length" /\ got = <<>>
    /\ broken
    /\ pos = sentIn
    /\ lpc' = "off" /\ disconnected' = TRUE
    /\ UNCHANGED <<conn, broken, sendVars, sentIn, pos, got, size, header, routed>>

\* A read fails for good: listen() returns only from pktlen.  A connection that has
\* been closed here gives nothing of what has arrived.
ReadEnds ==
    /\ lpc # "off"
    /\ Len(got) < Wanted
    /\ broken
    /\ got' = <<>>
    /\ pos' = sentIn
    /\ IF lpc = "length" THEN lpc' = "off" /\ disconnected' = TRUE
                         ELSE lpc' = "length" /\ UNCHANGED disconnected
    /\ UNCHANGED <<conn, broken, sendVars, sentIn, size, header, routed>>

Listener == ReadCell \/ EndPart \/ ReadFails \/ ReadEnds
Sender(k) == Check(k) \/ Lock(k) \/ Write(k) \/ Flush(k)

Next ==
    \/ Connect \/ Break \/ Arrive
    \/ Listener
    \/ \E k \in Senders : Sender(k)

Spec == Init /\ [][Next]_vars

\* Go runs every goroutine that can run, and Go's mutex starves nobody; a connection
\* takes what is written, or breaks; reads that go on failing for now end.
Fairness ==
    /\ WF_vars(ReadCell) /\ WF_vars(EndPart) /\ WF_vars(ReadEnds)
    /\ \A k \in Senders : SF_vars(Lock(k)) /\ WF_vars(Write(k)) /\ WF_vars(Flush(k))

FairSpec == Spec /\ Fairness

(***************************************************************************)
(* Properties.                                                             *)
(***************************************************************************)
TypeOK ==
    /\ conn \in 0..MaxConns
    /\ {broken, disconnected, sticky} \subseteq BOOLEAN
    /\ mu \in Senders \cup {Nobody}
    /\ pc \in [Senders -> {"idle", "lock", "write", "sent", "failed"}]
    /\ Len(buf) <= BufferSize
    /\ lpc \in {"off", "length", "header", "payload"}
    /\ NotBeyond(pos, sentIn)

\* What libvirtd makes of the cells it gets: every cell goes on where the last one left
\* off, or begins a packet where one has ended, and none comes twice.
EndsPacket(cell) == cell[2] = Cells(cell[1])
InStep(cells) ==
    /\ \A i \in DOMAIN cells :
           IF cells[i][2] = 1 THEN i = 1 \/ EndsPacket(cells[i - 1])
           ELSE i > 1 /\ cells[i - 1] = <<cells[i][1], cells[i][2] - 1>>
    /\ \A i, j \in DOMAIN cells : cells[i] = cells[j] => i = j
Whole(cells) ==
    IF InStep(cells) THEN {k \in Senders : \E i \in DOMAIN cells : cells[i] = <<k, Cells(k)>>}
    ELSE {Nobody}

RoutedAsSent == \A n \in DOMAIN routed : routed[n] = HeaderIn(n) \o PayloadIn(n)

Pipe == INSTANCE PacketPipe WITH
    delivered <- [c \in Conns |-> Whole(wire[c])],
    status <- [k \in Senders |-> IF pc[k] \in {"lock", "write"} THEN "sending" ELSE pc[k]],
    routed <- IF RoutedAsSent THEN Len(routed) ELSE -1

\* Packets reach libvirtd whole, once and unmixed, though many callers share a writer
\* and its errors, and SendPacket returns nil exactly if its packet did; what Route is
\* given is what libvirtd sent, in order, wherever reads stop short.
Implements == Pipe!Spec

\* A SendPacket that waits for the mutex returns: one that fails leaves it free.
SendersReturn == \A k \in Senders : pc[k] = "lock" ~> pc[k] \in {"sent", "failed"}

\* Wherever in a packet a connection breaks, its listener ends and says so: a read
\* error in a header or a payload is not taken for the next packet.
ListenerEnds == broken ~> disconnected
=============================================================================
