-------------------------------- MODULE Rpc --------------------------------
(***************************************************************************)
(* The RPC core of go-libvirt on one connection: the goroutines that call  *)
(* requestStream (rpc.go), the sender goroutine a call with an outgoing    *)
(* stream starts (socket.SendStream), the listener goroutine that reads    *)
(* packets and routes them (socket.listenAndRoute, Libvirt.Route), the     *)
(* watcher goroutine that cleans up after a lost connection                *)
(* (Libvirt.waitAndDisconnect), and libvirtd as those see it.              *)
(*                                                                         *)
(* Every call is made once, by a goroutine of its own.  The two locks of   *)
(* this part, cmux and Socket.mu, are held across several steps only in    *)
(* callback(), which sends on the unbuffered response channel with cmux    *)
(* held: cmux is taken exactly while lpc = "deliver".                      *)
(*                                                                         *)
(* A packet of the server is chosen when the listener reads it, so the     *)
(* wire is no variable: what the server may send only grows with what it   *)
(* has been told, and it answers one call in order, so every order in      *)
(* which a FIFO connection can deliver packets is an order of reads.       *)
(***************************************************************************)
EXTENDS Integers

CONSTANTS
    PlainCalls,       \* calls of request(): no stream
    Downloads,        \* requestStream(.., out = nil, in): data from the server
    Uploads,          \* requestStream(.., out, in = nil): data to the server
    Consoles,         \* requestStream(.., out, in): both directions
    NoCall,           \* "no channel" in the callback table
    MaxSerial,        \* bound on the serials issued (2^31 - 1 in the code)
    SinkMayFail,      \* the caller's io.Writer may return an error
    AnswersAfterEof,  \* libvirtd confirms a finish it gets after its own EOF
    SendsErrOk        \* libvirtd may send StatusError with code ERR_OK

Calls == PlainCalls \cup Downloads \cup Uploads \cup Consoles
HasOut == Uploads \cup Consoles
HasIn == Downloads \cup Consoles

ASSUME CallsAssumption ==
    /\ PlainCalls \cap (Downloads \cup Uploads \cup Consoles) = {}
    /\ Downloads \cap (Uploads \cup Consoles) = {}
    /\ Uploads \cap Consoles = {}
    /\ NoCall \notin Calls
ASSUME MaxSerialAssumption == MaxSerial \in Nat
ASSUME TogglesAssumption == {SinkMayFail, AnswersAfterEof, SendsErrOk} \subseteq BOOLEAN

VARIABLES
    s,          \* Libvirt.s, the last serial issued
    callbacks,  \* Libvirt.callbacks: serial -> the call whose channel it holds
    closed,     \* the calls whose response channel has been closed
    pc,         \* where each caller is in requestStream
    serial,     \* the serial of each call
    result,     \* what the call returns
    spc,        \* where the sender goroutine of the call is in SendStream
    abort,      \* the token in the channel abort (capacity 1)
    outErr,     \* the value in the channel outErr (capacity 1)
    lpc,        \* where the listener goroutine is
    lpkt,       \* the packet the listener has read; "call" is whose answer it is
    wpc,        \* where the goroutine of waitAndDisconnect is
    connected,  \* the connection itself works
    srv,        \* the server's side of each call
    told        \* what the client's half of the stream has told the server

callerVars == <<s, pc, serial, result>>
tableVars == <<callbacks, closed>>
senderVars == <<spc, abort, outErr>>
listenerVars == <<lpc, lpkt>>
serverVars == <<srv, told>>
vars == <<callerVars, tableVars, senderVars, listenerVars, wpc, connected, serverVars>>

CallerStates == {"idle", "register", "check", "write", "await", "instream",
                 "sink", "outwait", "settle", "leave", "done"}
SenderStates == {"off", "top", "read", "sendData", "sendFin", "sendAbort",
                 "sendErr", "end"}
Kinds == {"ok", "error", "errorOk", "data", "eof"}

TypeOK ==
    /\ s \in 0..MaxSerial
    /\ callbacks \in [1..MaxSerial -> Calls \cup {NoCall}]
    /\ closed \in SUBSET Calls
    /\ pc \in [Calls -> CallerStates]
    /\ serial \in [Calls -> 0..MaxSerial]
    /\ result \in [Calls -> {"none", "ok", "failed", "interrupted"}]
    /\ spc \in [Calls -> SenderStates]
    /\ abort \in [Calls -> BOOLEAN]
    /\ outErr \in [Calls -> {"none", "ok", "failed"}]
    /\ lpc \in {"read", "route", "deliver", "stopped"}
    /\ lpkt \in [call : Calls \cup {NoCall}, serial : 0..MaxSerial, kind : Kinds]
    /\ wpc \in {"wait", "done"}
    /\ connected \in BOOLEAN
    /\ srv \in [Calls -> {"none", "called", "open", "half", "closed"}]
    /\ told \in [Calls -> {"streaming", "finished", "aborted"}]

Init ==
    /\ s = 0
    /\ callbacks = [n \in 1..MaxSerial |-> NoCall]
    /\ closed = {}
    /\ pc = [c \in Calls |-> "idle"]
    /\ serial = [c \in Calls |-> 0]
    /\ result = [c \in Calls |-> "none"]
    /\ spc = [c \in Calls |-> "off"]
    /\ abort = [c \in Calls |-> FALSE]
    /\ outErr = [c \in Calls |-> "none"]
    /\ lpc = "read"
    /\ lpkt = [call |-> NoCall, serial |-> 0, kind |-> "ok"]
    /\ wpc = "wait"
    /\ connected = TRUE
    /\ srv = [c \in Calls |-> "none"]
    /\ told = [c \in Calls |-> "streaming"]

CmuxFree == lpc # "deliver"
SocketDisconnected == lpc = "stopped"    \* Socket.disconnected is closed
Channel(n) == callbacks[n]

(***************************************************************************)
(* requestStream, up to the first answer.                                  *)
(***************************************************************************)
Goto(c, l) == pc' = [pc EXCEPT ![c] = l]
Return(c, r) == Goto(c, "leave") /\ result' = [result EXCEPT ![c] = r]

NextSerial(n) == n + 1

\* Faulty variants of an operator, which no run uses, stand before it and are
\* named <operator>_<fault>: each breaks a property stated at the end.

\* l.s++ in place of atomic.AddInt32: an update may be lost.
Start_LostUpdate(c) ==
    /\ pc[c] = "idle"
    /\ s < MaxSerial
    /\ s' \in {s, s + 1}
    /\ serial' = [serial EXCEPT ![c] = s + 1]
    /\ Goto(c, "register")
    /\ UNCHANGED <<result, tableVars, senderVars, listenerVars, wpc, connected, serverVars>>

Start(c) ==
    /\ pc[c] = "idle"
    /\ s < MaxSerial
    /\ s' = NextSerial(s)
    /\ serial' = [serial EXCEPT ![c] = s']
    /\ Goto(c, "register")
    /\ UNCHANGED <<result, tableVars, senderVars, listenerVars, wpc, connected, serverVars>>

Register(c) ==
    /\ pc[c] = "register"
    /\ CmuxFree
    /\ callbacks' = [callbacks EXCEPT ![serial[c]] = c]
    /\ Goto(c, "check")
    /\ UNCHANGED <<s, serial, result, closed, senderVars, listenerVars, wpc, connected, serverVars>>

\* SendPacket looks at Socket.disconnected before it takes Socket.mu ...
CheckConnected(c) ==
    /\ pc[c] = "check"
    /\ IF SocketDisconnected THEN Return(c, "failed")
                             ELSE Goto(c, "write") /\ UNCHANGED result
    /\ UNCHANGED <<s, serial, tableVars, senderVars, listenerVars, wpc, connected, serverVars>>

\* ... and writes under it: on a connection that is gone the write fails, or
\* succeeds into a buffer nobody reads.
WriteCall(c) ==
    /\ pc[c] = "write"
    /\ \/ connected /\ srv' = [srv EXCEPT ![c] = "called"] /\ Goto(c, "await") /\ UNCHANGED result
       \/ ~connected /\ Goto(c, "await") /\ UNCHANGED <<srv, result>>
       \/ ~connected /\ Return(c, "failed") /\ UNCHANGED srv
    /\ UNCHANGED <<s, serial, tableVars, senderVars, listenerVars, wpc, connected, told>>

(***************************************************************************)
(* The rendezvous of callback() with getResponse(): the listener hands its *)
(* packet to the call whose channel it found, and unlocks cmux.            *)
(***************************************************************************)
Handed(c) ==
    /\ lpc = "deliver"
    /\ Channel(lpkt.serial) = c
    /\ lpc' = "read"
    /\ UNCHANGED <<s, serial, tableVars, lpkt, wpc, connected, serverVars>>

\* A call that sends waits for its sender at once, without receiving the stream
\* or its confirmation.
ReceiveReply_SenderOnly(c) ==
    /\ pc[c] = "await"
    /\ Handed(c)
    /\ IF lpkt.kind = "error" \/ c \in PlainCalls
       THEN Return(c, IF lpkt.kind = "error" THEN "failed" ELSE "ok") /\ UNCHANGED spc
       ELSE /\ Goto(c, IF c \in HasOut THEN "outwait" ELSE "instream")
            /\ spc' = [spc EXCEPT ![c] = IF c \in HasOut THEN "top" ELSE "off"]
            /\ UNCHANGED result
    /\ UNCHANGED <<abort, outErr>>

ReceiveReply(c) ==
    /\ pc[c] = "await"
    /\ Handed(c)
    /\ \/ /\ lpkt.kind = "error"
          /\ Return(c, "failed")
          /\ UNCHANGED senderVars
       \/ /\ lpkt.kind # "error"
          /\ c \in PlainCalls
          /\ Return(c, "ok")
          /\ UNCHANGED senderVars
       \/ /\ lpkt.kind # "error"
          /\ c \notin PlainCalls
          /\ Goto(c, "instream")
          /\ spc' = [spc EXCEPT ![c] = IF c \in HasOut THEN "top" ELSE "off"]
          /\ UNCHANGED <<result, abort, outErr>>

\* A console waits for its sender as an upload does.
EndStream_ConsoleWaits(c, r) ==
    \/ r = "ok" /\ c \in HasOut /\ Goto(c, "outwait") /\ UNCHANGED <<abort, result>>
    \/ ~(r = "ok" /\ c \in HasOut) /\ Return(c, r) /\ UNCHANGED abort

\* The channel abort has no buffer: the sender must be there to take the token.
EndStream_Unbuffered(c, r) ==
    /\ c \in HasOut => spc[c] = "top"
    /\ Return(c, r)
    /\ abort' = [abort EXCEPT ![c] = c \in HasOut]

\* processIncomingStream has returned r: what requestStream does next.
EndStream(c, r) ==
    \/ /\ c \notin HasOut
       /\ Return(c, r)
       /\ UNCHANGED abort
    \/ /\ c \in HasOut /\ r # "ok"
       /\ abort' = [abort EXCEPT ![c] = TRUE]
       /\ Return(c, r)
    \/ /\ c \in Uploads /\ r = "ok"
       /\ Goto(c, "outwait")
       /\ UNCHANGED <<abort, result>>
    \/ /\ c \in Consoles /\ r = "ok"
       /\ abort' = [abort EXCEPT ![c] = TRUE]
       /\ Goto(c, "settle")
       /\ UNCHANGED result

\* One turn of processIncomingStream.  A StatusError whose code is ERR_OK is no
\* error to getResponse, and then taken for data.
ReceiveStream(c) ==
    /\ pc[c] = "instream"
    /\ Handed(c)
    /\ \/ lpkt.kind = "error" /\ EndStream(c, "failed")
       \/ lpkt.kind \in {"ok", "eof"} /\ EndStream(c, "ok")
       \/ /\ lpkt.kind \in {"data", "errorOk"}
          /\ Goto(c, IF c \in HasIn THEN "sink" ELSE "instream")
          /\ UNCHANGED <<abort, result>>
    /\ UNCHANGED <<spc, outErr>>

\* inStream.Write has returned.
WriteSink(c) ==
    /\ pc[c] = "sink"
    /\ \/ Goto(c, "instream") /\ UNCHANGED <<abort, result>>
       \/ SinkMayFail /\ EndStream(c, "failed")
    /\ UNCHANGED <<s, serial, tableVars, spc, outErr, listenerVars, wpc, connected, serverVars>>

\* getResponse finds the channel closed: ErrInterrupted.
Interrupted(c) ==
    /\ c \in closed
    /\ \/ pc[c] = "await" /\ Return(c, "interrupted") /\ UNCHANGED abort
       \/ pc[c] = "instream" /\ EndStream(c, "interrupted")
    /\ UNCHANGED <<s, serial, tableVars, spc, outErr, listenerVars, wpc, connected, serverVars>>

\* in == nil: err = <-outErr blocks until the sender goroutine has reported.
AwaitSender(c) ==
    /\ pc[c] = "outwait"
    /\ outErr[c] # "none"
    /\ Return(c, outErr[c])
    /\ outErr' = [outErr EXCEPT ![c] = "none"]
    /\ UNCHANGED <<s, serial, tableVars, spc, abort, listenerVars, wpc, connected, serverVars>>

\* Both directions: an error of the sender counts only if it is already there.
Settle(c) ==
    /\ pc[c] = "settle"
    /\ Return(c, IF outErr[c] = "failed" THEN "failed" ELSE "ok")
    /\ outErr' = [outErr EXCEPT ![c] = "none"]
    /\ UNCHANGED <<s, serial, tableVars, spc, abort, listenerVars, wpc, connected, serverVars>>

\* close() without delete().
Deregister_KeepsEntry(c) ==
    /\ pc[c] = "leave"
    /\ CmuxFree
    /\ closed' = closed \cup ({Channel(serial[c])} \ {NoCall})
    /\ Goto(c, "done")
    /\ UNCHANGED <<s, serial, result, callbacks, senderVars, listenerVars, wpc, connected, serverVars>>

\* The deferred deregister(serial): close whatever channel is in the table.
Deregister(c) ==
    /\ pc[c] = "leave"
    /\ CmuxFree
    /\ closed' = closed \cup ({Channel(serial[c])} \ {NoCall})
    /\ callbacks' = [callbacks EXCEPT ![serial[c]] = NoCall]
    /\ Goto(c, "done")
    /\ UNCHANGED <<s, serial, result, senderVars, listenerVars, wpc, connected, serverVars>>

Caller(c) ==
    \/ Register(c) \/ CheckConnected(c) \/ WriteCall(c)
    \/ ReceiveReply(c) \/ ReceiveStream(c) \/ WriteSink(c) \/ Interrupted(c)
    \/ AwaitSender(c) \/ Settle(c) \/ Deregister(c)

(***************************************************************************)
(* The sender goroutine: socket.SendStream(serial, proc, program, out,     *)
(* abort).  Its SendPackets check and write in one step: on a connection   *)
(* that is gone they may fail or may seem to succeed.                      *)
(***************************************************************************)
SenderGoto(c, l) == spc' = [spc EXCEPT ![c] = l]
Report(c, e) == SenderGoto(c, "end") /\ outErr' = [outErr EXCEPT ![c] = e]
Tell(c, what) == told' = IF connected THEN [told EXCEPT ![c] = what] ELSE told

PollAbort(c) ==
    /\ spc[c] = "top"
    /\ SenderGoto(c, IF abort[c] THEN "sendAbort" ELSE "read")
    /\ abort' = [abort EXCEPT ![c] = FALSE]
    /\ UNCHANGED <<callerVars, tableVars, outErr, listenerVars, wpc, connected, serverVars>>

\* stream.Read has returned some data, io.EOF or another error; it may never.
ReadSource(c, l) ==
    /\ spc[c] = "read"
    /\ SenderGoto(c, l)
    /\ UNCHANGED <<callerVars, tableVars, abort, outErr, listenerVars, wpc, connected, serverVars>>

\* Read may return data and an error at once: that error is handled next.
SendData(c) ==
    /\ spc[c] = "sendData"
    /\ \/ \E l \in {"top", "sendFin", "sendErr"} : SenderGoto(c, l) /\ UNCHANGED outErr
       \/ ~connected /\ Report(c, "failed")
    /\ UNCHANGED <<callerVars, tableVars, abort, listenerVars, wpc, connected, serverVars>>

\* On io.EOF the sender returns without the closing packet.
SendFinish_Silent(c) ==
    /\ spc[c] = "sendFin"
    /\ Report(c, "ok")
    /\ UNCHANGED <<callerVars, tableVars, abort, listenerVars, wpc, connected, serverVars>>

SendFinish(c) ==
    /\ spc[c] = "sendFin"
    /\ Tell(c, "finished")
    /\ Report(c, "ok") \/ (~connected /\ Report(c, "failed"))
    /\ UNCHANGED <<callerVars, tableVars, abort, listenerVars, wpc, connected, srv>>

SendAbort(c) ==
    /\ spc[c] = "sendAbort"
    /\ Tell(c, "aborted")
    /\ Report(c, "ok") \/ (~connected /\ Report(c, "failed"))
    /\ UNCHANGED <<callerVars, tableVars, abort, listenerVars, wpc, connected, srv>>

\* After an error of the source: abort the stream, and report that error.
SendError(c) ==
    /\ spc[c] = "sendErr"
    /\ Tell(c, "aborted")
    /\ Report(c, "failed")
    /\ UNCHANGED <<callerVars, tableVars, abort, listenerVars, wpc, connected, srv>>

SourceEnds(c) == \E l \in {"sendFin", "sendErr"} : ReadSource(c, l)
SenderSteps(c) ==
    PollAbort(c) \/ SendData(c) \/ SendFinish(c) \/ SendAbort(c) \/ SendError(c)
Sender(c) == SenderSteps(c) \/ ReadSource(c, "sendData") \/ SourceEnds(c)

(***************************************************************************)
(* libvirtd, and the listener reading what it sends (pktlen, extractHeader *)
(* and the payload).  After the connection is lost the listener may still  *)
(* read what had arrived before.                                           *)
(***************************************************************************)
ReadPacket(c, kind, after) ==
    /\ lpc = "read"
    /\ lpc' = "route"
    /\ lpkt' = [call |-> c, serial |-> serial[c], kind |-> kind]
    /\ srv' = [srv EXCEPT ![c] = after]
    /\ UNCHANGED <<callerVars, tableVars, senderVars, wpc, connected, told>>

AnswerCall(c) ==
    /\ srv[c] = "called"
    /\ \/ ReadPacket(c, "ok", IF c \in PlainCalls THEN "closed" ELSE "open")
       \/ ReadPacket(c, "error", "closed")
       \/ SendsErrOk /\ ReadPacket(c, "errorOk", "closed")

StreamData(c) == srv[c] = "open" /\ c \in HasIn /\ ReadPacket(c, "data", "open")

\* The stream ends: by a confirmation (of an upload only once the client has
\* finished), by an error, or by the empty StatusContinue of libvirtd.
EndOfStream(c) ==
    /\ srv[c] = "open"
    /\ \/ (c \in HasIn \/ told[c] = "finished") /\ ReadPacket(c, "ok", "closed")
       \/ ReadPacket(c, "error", "closed")
       \/ SendsErrOk /\ ReadPacket(c, "errorOk", "closed")
       \/ /\ c \in HasIn
          /\ ReadPacket(c, "eof", IF AnswersAfterEof /\ c \in HasOut THEN "half" ELSE "closed")

\* libvirtd has sent its EOF, and answers the end of the client's half.
AnswerFinish(c) ==
    /\ srv[c] = "half"
    /\ \/ told[c] = "finished" /\ ReadPacket(c, "ok", "closed")
       \/ told[c] = "aborted" /\ ReadPacket(c, "error", "closed")

\* The packets libvirtd owes: the reply to a call, the end of a download, and an
\* answer to the end of a stream the client has ended.
OwedAnswer(c) ==
    \/ AnswerCall(c)
    \/ (c \in Downloads \/ told[c] # "streaming") /\ EndOfStream(c)
    \/ AnswerFinish(c)

Libvirtd(c) == AnswerCall(c) \/ StreamData(c) \/ EndOfStream(c) \/ AnswerFinish(c)

\* callback(): lock cmux and look the serial up; an unknown one is dropped.
RoutePacket ==
    /\ lpc = "route"
    /\ lpc' = IF Channel(lpkt.serial) = NoCall THEN "read" ELSE "deliver"
    /\ UNCHANGED <<callerVars, tableVars, senderVars, lpkt, wpc, connected, serverVars>>

\* pktlen fails for good: listenAndRoute closes Socket.disconnected.
StopListening ==
    /\ lpc = "read"
    /\ ~connected
    /\ lpc' = "stopped"
    /\ UNCHANGED <<callerVars, tableVars, senderVars, lpkt, wpc, connected, serverVars>>

\* Deregister everything as soon as the connection fails, not after the listener.
Cleanup_Early ==
    /\ wpc = "wait"
    /\ ~connected /\ CmuxFree
    /\ closed' = closed \cup ({Channel(n) : n \in 1..MaxSerial} \ {NoCall})
    /\ callbacks' = [n \in 1..MaxSerial |-> NoCall]
    /\ wpc' = "done"
    /\ UNCHANGED <<callerVars, senderVars, listenerVars, connected, serverVars>>

\* Deregister everything without waiting for the socket to be disconnected.
Cleanup_Unprompted ==
    /\ wpc = "wait" /\ CmuxFree
    /\ closed' = closed \cup ({Channel(n) : n \in 1..MaxSerial} \ {NoCall})
    /\ callbacks' = [n \in 1..MaxSerial |-> NoCall]
    /\ wpc' = "done"
    /\ UNCHANGED <<callerVars, senderVars, listenerVars, connected, serverVars>>

\* Empty the table without closing the channels.
Cleanup_NoClose ==
    /\ wpc = "wait"
    /\ SocketDisconnected /\ CmuxFree
    /\ callbacks' = [n \in 1..MaxSerial |-> NoCall]
    /\ wpc' = "done"
    /\ UNCHANGED <<closed, callerVars, senderVars, listenerVars, connected, serverVars>>

\* waitAndDisconnect: once the socket is disconnected, deregisterAll().
Cleanup ==
    /\ wpc = "wait"
    /\ SocketDisconnected
    /\ CmuxFree
    /\ closed' = closed \cup ({Channel(n) : n \in 1..MaxSerial} \ {NoCall})
    /\ callbacks' = [n \in 1..MaxSerial |-> NoCall]
    /\ wpc' = "done"
    /\ UNCHANGED <<callerVars, senderVars, listenerVars, connected, serverVars>>

\* The peer or the network goes away, or Socket.Disconnect closes the conn.
LoseConnection ==
    /\ connected
    /\ connected' = FALSE
    /\ UNCHANGED <<callerVars, tableVars, senderVars, listenerVars, wpc, serverVars>>

\* Every call the bound allows has returned, nothing is left to run.
Terminated ==
    /\ s = MaxSerial
    /\ \A c \in Calls : pc[c] \in {"idle", "done"} /\ spc[c] \in {"off", "end"}
    /\ wpc = "done"
    /\ UNCHANGED vars

Next ==
    \/ \E c \in Calls : Start(c) \/ Caller(c) \/ Sender(c) \/ Libvirtd(c)
    \/ RoutePacket \/ StopListening \/ Cleanup \/ LoseConnection
    \/ Terminated

Spec == Init /\ [][Next]_vars

(***************************************************************************)
(* Fairness.  Goroutines that can run do run; cmux is a Go mutex, which no *)
(* waiter starves on, hence SF for the steps that lock it.  A lost         *)
(* connection ends the reads once the buffered packets are used up: SF.    *)
(***************************************************************************)
ClientFairness ==
    /\ \A c \in Calls :
        /\ WF_vars(CheckConnected(c) \/ WriteCall(c) \/ ReceiveReply(c) \/ ReceiveStream(c)
                   \/ WriteSink(c) \/ AwaitSender(c) \/ Settle(c))
        /\ WF_vars(Interrupted(c))
        /\ SF_vars(Register(c) \/ Deregister(c))
        /\ WF_vars(SenderSteps(c))
    /\ WF_vars(RoutePacket)
    /\ WF_vars(Cleanup)
    /\ SF_vars(StopListening)

\* libvirtd answers what it owes, and the sources of uploads come to an end.
ServerFairness ==
    /\ \A c \in Calls : SF_vars(OwedAnswer(c))
    /\ \A c \in Uploads : SF_vars(SourceEnds(c))

FairSpec == Spec /\ ClientFairness
FairServerSpec == FairSpec /\ ServerFairness

(***************************************************************************)
(* Safety.                                                                 *)
(***************************************************************************)

\* No panic: a channel in the callback table is open, so that neither the send
\* in callback() nor the close in deregister() ever meets a closed channel.
RegisteredOpen ==
    \A n \in 1..MaxSerial : Channel(n) # NoCall => Channel(n) \notin closed

\* Replies are matched with calls: what callback() sends into a channel answers
\* the call that waits on it.
Correlated == lpc = "deliver" => Channel(lpkt.serial) = lpkt.call

\* Once waitAndDisconnect has run deregisterAll, no caller is left that waits,
\* or is about to wait, on a channel nobody will close.
NoOrphanWait ==
    \A c \in Calls :
        wpc = "done" /\ pc[c] \in {"write", "await", "instream", "sink"} => c \in closed

\* callback() holds cmux only while the caller it sends to will still receive:
\* the listener, and every caller that needs cmux, get on.
ListenerNeverWedged ==
    lpc = "deliver" => pc[Channel(lpkt.serial)] \in {"await", "instream", "sink"}

\* The program keeps the contract of RpcContract: a call is pending from its
\* start until it has its result, answered once the listener has read its reply.
Contract == INSTANCE RpcContract WITH
    status <- [c \in Calls |->
        CASE pc[c] = "idle" -> "idle"
          [] pc[c] \in {"leave", "done"} -> result[c]
          [] OTHER -> "pending"],
    answered <- {c \in Calls : srv[c] \notin {"none", "called"}},
    lost <- ~connected

\* requestStream implements its contract.
Implements == Contract!Spec

(***************************************************************************)
(* The inductive invariant behind the safety properties.                   *)
(***************************************************************************)
Registered == {"check", "write", "await", "instream", "sink", "outwait", "settle", "leave"}
InFlight(c) == lpc \in {"route", "deliver"} /\ lpkt.call = c

\* A started call has a serial of its own.
SerialsDistinct ==
    \A c \in Calls :
        pc[c] # "idle" =>
            /\ serial[c] \in 1..s
            /\ \A d \in Calls : pc[d] # "idle" /\ serial[d] = serial[c] => d = c

\* A channel is only ever found under the serial of its call, and was put there
\* by that call's register().
OwnEntries ==
    \A n \in 1..MaxSerial :
        Channel(n) # NoCall =>
            serial[Channel(n)] = n /\ pc[Channel(n)] \notin {"idle", "register"}

\* A channel is closed by its own caller as it returns or by deregisterAll().
ClosedByOwner ==
    \A c \in closed :
        /\ pc[c] \notin {"idle", "register"}
        /\ ~SocketDisconnected => pc[c] = "done"

\* The server answers only calls that have been written.
AnswersToCalls ==
    /\ \A c \in Calls : srv[c] # "none" => pc[c] \notin {"idle", "register", "check", "write"}
    /\ lpc \in {"route", "deliver"} =>
        lpkt.call \in Calls /\ srv[lpkt.call] # "none" /\ lpkt.serial = serial[lpkt.call]

\* Until deregisterAll() has run, a call is registered until it deregisters.
StaysRegistered ==
    \A c \in Calls :
        wpc = "wait" /\ pc[c] \in Registered => Channel(serial[c]) = c

\* deregisterAll() runs after the listener has stopped, so on a lost connection.
CleanupLast ==
    /\ wpc = "done" => SocketDisconnected
    /\ SocketDisconnected => ~connected

Inv ==
    /\ TypeOK
    /\ SerialsDistinct
    /\ OwnEntries
    /\ RegisteredOpen
    /\ ClosedByOwner
    /\ AnswersToCalls
    /\ Correlated
    /\ StaysRegistered
    /\ CleanupLast
    /\ NoOrphanWait

\* With sinks that accept, no answer after EOF and no ERR_OK: while the listener
\* runs, whatever the server may still send finds its caller receiving.
AnswersExpected ==
    ~SocketDisconnected => \A c \in Calls :
        /\ srv[c] = "called" => pc[c] = "await" /\ ~InFlight(c)
        /\ srv[c] = "open" => c \notin PlainCalls
        /\ srv[c] = "open" =>
            \/ pc[c] = "await" /\ InFlight(c) /\ lpkt.kind = "ok"
            \/ pc[c] \in {"instream", "sink"} /\ (InFlight(c) => lpkt.kind = "data")
        /\ srv[c] # "half"
        /\ InFlight(c) => pc[c] \in {"await", "instream", "sink"}
        /\ InFlight(c) /\ srv[c] = "closed" =>
            /\ lpkt.kind \notin {"data", "errorOk"}
            /\ pc[c] = "await" => lpkt.kind = "error" \/ c \in PlainCalls

(***************************************************************************)
(* Liveness.                                                               *)
(***************************************************************************)

\* A lost connection releases every caller: none hangs (deregisterAll).
LossReleasesCallers ==
    \A c \in Calls : (~connected /\ pc[c] # "idle") ~> (pc[c] = "done")

\* A call the server has ended returns, even if the source of an open console
\* never returns from Read: the teardown does not wait for the sender.
EndedCallsReturn == \A c \in Calls : (srv[c] = "closed") ~> (pc[c] = "done")

\* With a server that answers, every call but an open console returns.
CallsReturn == \A c \in Calls \ Consoles : (pc[c] = "register") ~> (pc[c] = "done")

\* The end of a console's stdin ends the whole console, if libvirtd answers.
StdinEofEndsConsole ==
    (\A c \in Calls : SF_vars(OwedAnswer(c)))
        => \A c \in Consoles : (told[c] = "finished") ~> (pc[c] = "done")
=============================================================================
