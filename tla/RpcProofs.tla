----------------------------- MODULE RpcProofs -----------------------------
(***************************************************************************)
(* Proofs about Rpc, for any calls, any bound on the serials and any       *)
(* behaviour of sinks and server: type correctness and the safety          *)
(* properties that Inv implies.  The lemmas first say what the kinds of    *)
(* steps do to the variables Inv speaks of; the step of the invariant is   *)
(* then a case per kind.                                                   *)
(***************************************************************************)
EXTENDS Rpc, TLAPS

\* The steps of a caller between its first answer and its deferred deregister.
Receives(c) ==
    ReceiveReply(c) \/ ReceiveStream(c) \/ WriteSink(c) \/ Interrupted(c)
    \/ AwaitSender(c) \/ Settle(c)

\* processIncomingStream's return leads to the end of the call or to a wait for
\* the sender, and touches nothing but the abort token.
LEMMA EndStreamMoves ==
    ASSUME TypeOK, NEW c \in Calls, NEW r \in {"ok", "failed", "interrupted"},
           EndStream(c, r)
    PROVE  /\ \E l \in {"outwait", "settle", "leave"} : pc' = [pc EXCEPT ![c] = l]
           /\ result' \in [Calls -> {"none", "ok", "failed", "interrupted"}]
           /\ abort' \in [Calls -> BOOLEAN]
  <1>1. \E l \in {"outwait", "settle", "leave"} : pc' = [pc EXCEPT ![c] = l]
    BY DEF EndStream, Return, Goto
  <1>2. result' \in [Calls -> {"none", "ok", "failed", "interrupted"}]
    BY DEF TypeOK, EndStream, Return
  <1>3. abort' \in [Calls -> BOOLEAN]
    BY DEF TypeOK, EndStream
  <1> QED BY <1>1, <1>2, <1>3

\* A receiving caller only moves on within requestStream, and at most frees the
\* listener.
LEMMA ReceiveMoves ==
    ASSUME TypeOK, NEW c \in Calls, Receives(c)
    PROVE  /\ UNCHANGED <<s, serial, callbacks, closed, lpkt, wpc, connected, srv, told>>
           /\ lpc' = lpc \/ (lpc = "deliver" /\ lpc' = "read")
           /\ \E l \in {"instream", "sink", "outwait", "settle", "leave"} :
                /\ pc' = [pc EXCEPT ![c] = l]
                /\ pc[c] \in {"await", "instream", "sink"}
                   \/ (pc[c] \in {"outwait", "settle"} /\ l = "leave")
  <1>1. CASE ReceiveReply(c)
    BY <1>1 DEF ReceiveReply, Handed, Return, Goto, tableVars, serverVars, senderVars
  <1>2. CASE ReceiveStream(c)
    <2>1. /\ UNCHANGED <<s, serial, callbacks, closed, lpkt, wpc, connected, srv, told>>
          /\ lpc = "deliver" /\ lpc' = "read" /\ pc[c] = "instream"
      BY <1>2 DEF ReceiveStream, Handed, tableVars, serverVars
    <2>2. \E l \in {"instream", "sink", "outwait", "settle", "leave"} : pc' = [pc EXCEPT ![c] = l]
      BY <1>2, EndStreamMoves DEF ReceiveStream, Goto
    <2> QED BY <2>1, <2>2
  <1>3. CASE WriteSink(c)
    <2>1. /\ UNCHANGED <<s, serial, callbacks, closed, lpc, lpkt, wpc, connected, srv, told>>
          /\ pc[c] = "sink"
      BY <1>3 DEF WriteSink, tableVars, listenerVars, serverVars
    <2>2. \E l \in {"instream", "sink", "outwait", "settle", "leave"} : pc' = [pc EXCEPT ![c] = l]
      BY <1>3, EndStreamMoves DEF WriteSink, Goto
    <2> QED BY <2>1, <2>2
  <1>4. CASE Interrupted(c)
    <2>1. /\ UNCHANGED <<s, serial, callbacks, closed, lpc, lpkt, wpc, connected, srv, told>>
          /\ pc[c] \in {"await", "instream"}
      BY <1>4 DEF Interrupted, tableVars, listenerVars, serverVars
    <2>2. \E l \in {"instream", "sink", "outwait", "settle", "leave"} : pc' = [pc EXCEPT ![c] = l]
      BY <1>4, EndStreamMoves DEF Interrupted, Return, Goto
    <2> QED BY <2>1, <2>2
  <1>5. CASE AwaitSender(c)
    BY <1>5 DEF AwaitSender, Return, Goto, tableVars, listenerVars, serverVars
  <1>6. CASE Settle(c)
    BY <1>6 DEF Settle, Return, Goto, tableVars, listenerVars, serverVars
  <1> QED BY <1>1, <1>2, <1>3, <1>4, <1>5, <1>6 DEF Receives

\* The sender goroutine touches only its own variables and what the server knows.
LEMMA SenderMoves ==
    ASSUME NEW c \in Calls, Sender(c)
    PROVE  UNCHANGED <<callerVars, tableVars, listenerVars, wpc, connected, srv>>
  BY DEF Sender, SenderSteps, SourceEnds, PollAbort, ReadSource, SendData, SendFinish,
         SendAbort, SendError, serverVars

\* The listener reads a packet that answers a call the server knows.
LEMMA LibvirtdMoves ==
    ASSUME TypeOK, NEW c \in Calls, Libvirtd(c)
    PROVE  /\ UNCHANGED <<callerVars, tableVars, senderVars, wpc, connected, told>>
           /\ lpc = "read" /\ lpc' = "route"
           /\ \E k \in Kinds : lpkt' = [call |-> c, serial |-> serial[c], kind |-> k]
           /\ srv[c] # "none"
           /\ \E a \in {"open", "half", "closed"} : srv' = [srv EXCEPT ![c] = a]
  BY DEF Libvirtd, AnswerCall, StreamData, EndOfStream, AnswerFinish, ReadPacket, Kinds

-----------------------------------------------------------------------------

LEMMA TypeInit == Init => TypeOK
  BY MaxSerialAssumption
  DEF Init, TypeOK, CallerStates, SenderStates, Kinds

\* Every step preserves the types.
LEMMA TypeStep ==
    ASSUME TypeOK, SerialsDistinct, [Next]_vars
    PROVE  TypeOK'
  <1> USE DEF CallerStates, SenderStates
  <1>1. ASSUME NEW c \in Calls, Start(c) PROVE TypeOK'
    BY <1>1, MaxSerialAssumption
    DEF TypeOK, Start, NextSerial, Goto, tableVars, senderVars, listenerVars, serverVars
  <1>2. ASSUME NEW c \in Calls, Register(c) PROVE TypeOK'
    BY <1>2 DEF TypeOK, Register, Goto, senderVars, listenerVars, serverVars
  <1>3. ASSUME NEW c \in Calls, CheckConnected(c) PROVE TypeOK'
    BY <1>3, ZenonT(60)
       DEF TypeOK, CheckConnected, Return, Goto, tableVars, senderVars, listenerVars, serverVars
  <1>4. ASSUME NEW c \in Calls, WriteCall(c) PROVE TypeOK'
    BY <1>4, ZenonT(60) DEF TypeOK, WriteCall, Return, Goto, tableVars, senderVars, listenerVars
  <1>5. ASSUME NEW c \in Calls, Receives(c) PROVE TypeOK'
    <2>1. spc' \in [Calls -> SenderStates] /\ outErr' \in [Calls -> {"none", "ok", "failed"}]
      BY <1>5 DEF TypeOK, Receives, ReceiveReply, ReceiveStream, WriteSink, Interrupted,
                  AwaitSender, Settle, senderVars
    <2>2. /\ result' \in [Calls -> {"none", "ok", "failed", "interrupted"}]
          /\ abort' \in [Calls -> BOOLEAN]
      <3>1. CASE ReceiveReply(c)
        BY <3>1 DEF TypeOK, ReceiveReply, Return, senderVars
      <3>3. CASE AwaitSender(c)
        BY <3>3 DEF TypeOK, AwaitSender, Return
      <3>4. CASE Settle(c)
        BY <3>4 DEF TypeOK, Settle, Return
      <3>2. CASE ReceiveStream(c) \/ WriteSink(c) \/ Interrupted(c)
        BY <3>2, EndStreamMoves DEF TypeOK, ReceiveStream, WriteSink, Interrupted, Return
      <3> QED BY <1>5, <3>1, <3>2, <3>3, <3>4 DEF Receives
    <2>3. pc' \in [Calls -> CallerStates] /\ lpc' \in {"read", "route", "deliver", "stopped"}
      BY <1>5, ReceiveMoves DEF TypeOK
    <2>4. UNCHANGED <<s, serial, callbacks, closed, lpkt, wpc, connected, srv, told>>
      BY <1>5, ReceiveMoves
    <2> QED BY <2>1, <2>2, <2>3, <2>4 DEF TypeOK
  <1>6. ASSUME NEW c \in Calls, Deregister(c) PROVE TypeOK'
    <2>1. serial[c] \in 1..MaxSerial
      BY <1>6, MaxSerialAssumption DEF TypeOK, SerialsDistinct, Deregister
    <2>2. closed' \subseteq Calls
      BY <1>6, <2>1 DEF TypeOK, Deregister, Channel
    <2> QED BY <1>6, <2>2
            DEF TypeOK, Deregister, Goto, senderVars, listenerVars, serverVars
  <1>7. ASSUME NEW c \in Calls, Sender(c) PROVE TypeOK'
    <2> DEFINE SenderTypes == /\ spc \in [Calls -> SenderStates]
                              /\ abort \in [Calls -> BOOLEAN]
                              /\ outErr \in [Calls -> {"none", "ok", "failed"}]
                              /\ told \in [Calls -> {"streaming", "finished", "aborted"}]
    <2>1. ASSUME PollAbort(c) PROVE SenderTypes'
      BY <2>1 DEF TypeOK, PollAbort, SenderGoto, serverVars
    <2>2. ASSUME NEW l \in {"sendData", "sendFin", "sendErr"}, ReadSource(c, l)
          PROVE  SenderTypes'
      BY <2>2 DEF TypeOK, ReadSource, SenderGoto, serverVars
    <2>3. ASSUME SendData(c) PROVE SenderTypes'
      <3>1. UNCHANGED <<abort, told>> /\ outErr' \in [Calls -> {"none", "ok", "failed"}]
        BY <2>3 DEF TypeOK, SendData, Report, serverVars
      <3>2. \E l \in SenderStates : spc' = [spc EXCEPT ![c] = l]
        BY <2>3 DEF SendData, SenderGoto, Report
      <3> QED BY <3>1, <3>2 DEF TypeOK
    <2>4. ASSUME SendFinish(c) PROVE SenderTypes'
      BY <2>4, ZenonT(60) DEF TypeOK, SendFinish, SenderGoto, Report, Tell
    <2>5. ASSUME SendAbort(c) PROVE SenderTypes'
      BY <2>5, ZenonT(60) DEF TypeOK, SendAbort, SenderGoto, Report, Tell
    <2>6. ASSUME SendError(c) PROVE SenderTypes'
      BY <2>6 DEF TypeOK, SendError, SenderGoto, Report, Tell
    <2>7. SenderTypes'
      BY <1>7, <2>1, <2>2, <2>3, <2>4, <2>5, <2>6 DEF Sender, SenderSteps, SourceEnds
    <2> QED BY <1>7, <2>7, SenderMoves DEF TypeOK, callerVars, tableVars, listenerVars
  <1>8. ASSUME NEW c \in Calls, Libvirtd(c) PROVE TypeOK'
    <2>1. lpkt' \in [call : Calls \cup {NoCall}, serial : 0..MaxSerial, kind : Kinds]
      BY <1>8, LibvirtdMoves DEF TypeOK
    <2>2. srv' \in [Calls -> {"none", "called", "open", "half", "closed"}]
      BY <1>8, LibvirtdMoves DEF TypeOK
    <2> QED BY <1>8, <2>1, <2>2, LibvirtdMoves DEF TypeOK, callerVars, tableVars, senderVars
  <1>9. CASE RoutePacket \/ StopListening \/ LoseConnection
    BY <1>9, ZenonT(60)
       DEF TypeOK, RoutePacket, StopListening, LoseConnection, callerVars, tableVars,
                senderVars, listenerVars, serverVars
  <1>10. CASE Cleanup
    <2>1. \A n \in 1..MaxSerial : Channel(n) \in Calls \cup {NoCall}
      BY DEF TypeOK, Channel
    <2>2. {Channel(n) : n \in 1..MaxSerial} \subseteq Calls \cup {NoCall}
      BY <2>1
    <2>3. closed' \subseteq Calls
      BY <1>10, <2>2 DEF TypeOK, Cleanup
    <2> QED BY <1>10, <2>3 DEF TypeOK, Cleanup, callerVars, senderVars, listenerVars, serverVars
  <1>11. CASE UNCHANGED vars
    BY <1>11 DEF TypeOK, vars, callerVars, tableVars, senderVars, listenerVars, serverVars
  <1> QED BY <1>1, <1>2, <1>3, <1>4, <1>5, <1>6, <1>7, <1>8, <1>9, <1>10, <1>11
          DEF Next, Caller, Receives, Terminated

-----------------------------------------------------------------------------

LEMMA InvInit == Init => Inv
  <1> SUFFICES ASSUME Init PROVE Inv
    OBVIOUS
  <1>1. TypeOK
    BY TypeInit
  <1> QED BY <1>1, MaxSerialAssumption
          DEF Init, Inv, SerialsDistinct, OwnEntries, RegisteredOpen, ClosedByOwner, AnswersToCalls,
              Correlated, StaysRegistered, CleanupLast, NoOrphanWait, Channel, Registered,
              SocketDisconnected

\* A serial is issued once: a started call keeps its own.
LEMMA SerialsStep ==
    ASSUME Inv, [Next]_vars
    PROVE  SerialsDistinct'
  <1> USE DEF Inv
  <1>1. ASSUME NEW c \in Calls, Start(c) PROVE SerialsDistinct'
    BY <1>1 DEF TypeOK, SerialsDistinct, Start, NextSerial, Goto
  <1>2. ASSUME UNCHANGED <<s, serial>>, \A c \in Calls : pc'[c] # "idle" => pc[c] # "idle"
        PROVE  SerialsDistinct'
    BY <1>2 DEF SerialsDistinct
  <1>3. ASSUME NEW c \in Calls, Register(c) \/ CheckConnected(c) \/ WriteCall(c) \/ Deregister(c)
        PROVE  SerialsDistinct'
    BY <1>2, <1>3 DEF TypeOK, Register, CheckConnected, WriteCall, Deregister, Return, Goto
  <1>4. ASSUME NEW c \in Calls, Receives(c) PROVE SerialsDistinct'
    BY <1>2, <1>4, ReceiveMoves DEF TypeOK
  <1>5. ASSUME NEW c \in Calls, Sender(c) \/ Libvirtd(c) PROVE SerialsDistinct'
    BY <1>2, <1>5, SenderMoves, LibvirtdMoves DEF callerVars
  <1>6. CASE RoutePacket \/ StopListening \/ Cleanup \/ LoseConnection \/ UNCHANGED vars
    BY <1>2, <1>6 DEF RoutePacket, StopListening, Cleanup, LoseConnection, vars, callerVars
  <1> QED BY <1>1, <1>3, <1>4, <1>5, <1>6 DEF Next, Caller, Receives, Terminated

\* The table and the closed channels: what register() puts in is open, and what
\* deregister() closes it takes out.
LEMMA TableStep ==
    ASSUME Inv, [Next]_vars
    PROVE  OwnEntries' /\ RegisteredOpen' /\ ClosedByOwner'
  <1> USE DEF Inv
  <1>1. ASSUME NEW c \in Calls, Start(c) PROVE OwnEntries' /\ RegisteredOpen' /\ ClosedByOwner'
    BY <1>1 DEF TypeOK, OwnEntries, RegisteredOpen, ClosedByOwner, Start, Goto, Channel,
                SocketDisconnected, tableVars, listenerVars
  <1>2. ASSUME NEW c \in Calls, Register(c)
        PROVE  OwnEntries' /\ RegisteredOpen' /\ ClosedByOwner'
    BY <1>2 DEF TypeOK, OwnEntries, RegisteredOpen, ClosedByOwner, Register, Goto, Channel,
                SocketDisconnected, listenerVars
  <1>3. ASSUME NEW c \in Calls, CheckConnected(c) \/ WriteCall(c)
        PROVE  OwnEntries' /\ RegisteredOpen' /\ ClosedByOwner'
    <2>1. /\ UNCHANGED <<serial, callbacks, closed, lpc>>
          /\ pc[c] \in {"check", "write"}
          /\ \E l \in {"write", "await", "leave"} : pc' = [pc EXCEPT ![c] = l]
      BY <1>3 DEF CheckConnected, WriteCall, Return, Goto, tableVars, listenerVars
    <2> QED BY <2>1 DEF TypeOK, OwnEntries, RegisteredOpen, ClosedByOwner, Channel,
                        SocketDisconnected
  <1>4. ASSUME NEW c \in Calls, Receives(c)
        PROVE  OwnEntries' /\ RegisteredOpen' /\ ClosedByOwner'
    <2>1. PICK l \in {"instream", "sink", "outwait", "settle", "leave"} :
            pc' = [pc EXCEPT ![c] = l]
      BY <1>4, ReceiveMoves
    <2>2. /\ UNCHANGED <<serial, callbacks, closed>>
          /\ pc[c] \in {"await", "instream", "sink", "outwait", "settle"}
          /\ SocketDisconnected' = SocketDisconnected
      BY <1>4, ReceiveMoves DEF SocketDisconnected
    <2> QED BY <2>1, <2>2 DEF TypeOK, OwnEntries, RegisteredOpen, ClosedByOwner, Channel
  <1>5. ASSUME NEW c \in Calls, Deregister(c)
        PROVE  OwnEntries' /\ RegisteredOpen' /\ ClosedByOwner'
    BY <1>5 DEF TypeOK, SerialsDistinct, OwnEntries, RegisteredOpen, ClosedByOwner, Deregister,
                Goto, Channel, SocketDisconnected, listenerVars
  <1>6. ASSUME NEW c \in Calls, Sender(c) \/ Libvirtd(c)
        PROVE  OwnEntries' /\ RegisteredOpen' /\ ClosedByOwner'
    BY <1>6, SenderMoves, LibvirtdMoves
    DEF OwnEntries, RegisteredOpen, ClosedByOwner, Channel, SocketDisconnected, callerVars,
        tableVars, listenerVars
  <1>7. CASE RoutePacket \/ StopListening \/ LoseConnection \/ UNCHANGED vars
    BY <1>7 DEF OwnEntries, RegisteredOpen, ClosedByOwner, RoutePacket, StopListening,
                LoseConnection, Channel, SocketDisconnected, vars, callerVars, tableVars,
                listenerVars
  <1>8. CASE Cleanup
    BY <1>8 DEF TypeOK, OwnEntries, RegisteredOpen, ClosedByOwner, Cleanup, Channel,
                SocketDisconnected, callerVars, listenerVars
  <1> QED BY <1>1, <1>2, <1>3, <1>4, <1>5, <1>6, <1>7, <1>8
          DEF Next, Caller, Receives, Terminated

\* Packets answer calls, and are delivered to the calls they answer.
LEMMA AnswersStep ==
    ASSUME Inv, [Next]_vars
    PROVE  AnswersToCalls' /\ Correlated'
  <1> USE DEF Inv
  <1>1. ASSUME NEW c \in Calls, Start(c) \/ Register(c) \/ CheckConnected(c) \/ Deregister(c)
        PROVE  AnswersToCalls' /\ Correlated'
    <2>1. /\ UNCHANGED <<lpc, lpkt, srv>>
          /\ pc[c] \in {"idle", "register", "check", "leave"}
          /\ \E l \in {"register", "check", "write", "leave", "done"} : pc' = [pc EXCEPT ![c] = l]
          /\ pc[c] = "leave" => pc'[c] = "done"
      BY <1>1 DEF TypeOK, Start, Register, CheckConnected, Deregister, Return, Goto, listenerVars,
                  serverVars
    <2>2. \A d \in Calls : srv[d] # "none" => serial'[d] = serial[d]
      BY <1>1 DEF TypeOK, AnswersToCalls, Start, Register, CheckConnected, Deregister
    <2>3. AnswersToCalls'
      BY <2>1, <2>2 DEF TypeOK, AnswersToCalls
    <2>4. lpc = "deliver" => callbacks' = callbacks
      BY <1>1 DEF Start, Register, CheckConnected, Deregister, CmuxFree, tableVars
    <2> QED BY <2>1, <2>3, <2>4 DEF Correlated, Channel
  <1>2. ASSUME NEW c \in Calls, WriteCall(c) PROVE AnswersToCalls' /\ Correlated'
    BY <1>2, ZenonT(60)
       DEF TypeOK, AnswersToCalls, Correlated, Channel, WriteCall, Return, Goto, tableVars,
                listenerVars
  <1>3. ASSUME NEW c \in Calls, Receives(c) PROVE AnswersToCalls' /\ Correlated'
    <2>1. PICK l \in {"instream", "sink", "outwait", "settle", "leave"} :
            pc' = [pc EXCEPT ![c] = l]
      BY <1>3, ReceiveMoves
    <2>2. /\ UNCHANGED <<serial, callbacks, lpkt, srv>>
          /\ lpc' = lpc \/ lpc' = "read"
      BY <1>3, ReceiveMoves
    <2> QED BY <2>1, <2>2 DEF TypeOK, AnswersToCalls, Correlated, Channel
  <1>4. ASSUME NEW c \in Calls, Sender(c) PROVE AnswersToCalls' /\ Correlated'
    BY <1>4, SenderMoves DEF AnswersToCalls, Correlated, Channel, callerVars, tableVars, listenerVars
  <1>5. ASSUME NEW c \in Calls, Libvirtd(c) PROVE AnswersToCalls' /\ Correlated'
    BY <1>5, LibvirtdMoves DEF TypeOK, AnswersToCalls, Correlated, callerVars
  <1>6. CASE RoutePacket
    <2>1. AnswersToCalls'
      BY <1>6 DEF AnswersToCalls, RoutePacket, callerVars, serverVars
    <2>2. ASSUME Channel(lpkt.serial) # NoCall PROVE Channel(lpkt.serial) = lpkt.call
      <3>1. /\ lpkt.call \in Calls
            /\ lpkt.serial = serial[lpkt.call]
            /\ pc[lpkt.call] # "idle"
        BY <1>6 DEF AnswersToCalls, RoutePacket
      <3>2. lpkt.serial \in 1..MaxSerial
        BY <3>1, MaxSerialAssumption DEF TypeOK, SerialsDistinct
      <3>3. Channel(lpkt.serial) \in Calls
        BY <2>2, <3>2 DEF TypeOK, Channel
      <3> QED BY <2>2, <3>1, <3>2, <3>3 DEF OwnEntries, SerialsDistinct
    <2> QED BY <1>6, <2>1, <2>2 DEF Correlated, RoutePacket, Channel, tableVars
  <1>7. CASE StopListening \/ LoseConnection \/ UNCHANGED vars
    BY <1>7 DEF AnswersToCalls, Correlated, Channel, StopListening, LoseConnection, vars,
                callerVars, tableVars, listenerVars, serverVars
  <1>8. CASE Cleanup
    BY <1>8 DEF AnswersToCalls, Correlated, Cleanup, CmuxFree, callerVars, listenerVars, serverVars
  <1> QED BY <1>1, <1>2, <1>3, <1>4, <1>5, <1>6, <1>7, <1>8
          DEF Next, Caller, Receives, Terminated

\* The order of the last steps of a connection: it fails, the listener stops,
\* the watcher cleans up.
LEMMA CleanupStep ==
    ASSUME Inv, [Next]_vars
    PROVE  CleanupLast'
  <1> USE DEF Inv
  <1>1. ASSUME NEW c \in Calls,
               Start(c) \/ Register(c) \/ CheckConnected(c) \/ WriteCall(c) \/ Deregister(c)
        PROVE  CleanupLast'
    BY <1>1 DEF CleanupLast, SocketDisconnected, Start, Register, CheckConnected, WriteCall,
                Deregister, listenerVars
  <1>2. ASSUME NEW c \in Calls, Receives(c) \/ Sender(c) \/ Libvirtd(c) PROVE CleanupLast'
    BY <1>2, ReceiveMoves, SenderMoves, LibvirtdMoves
    DEF CleanupLast, SocketDisconnected, listenerVars
  <1>3. CASE RoutePacket \/ StopListening \/ Cleanup \/ LoseConnection \/ UNCHANGED vars
    BY <1>3 DEF CleanupLast, SocketDisconnected, RoutePacket, StopListening, Cleanup,
                LoseConnection, vars, listenerVars
  <1> QED BY <1>1, <1>2, <1>3 DEF Next, Caller, Receives, Terminated

\* A call stays in the table while it may wait, and once the watcher has been
\* there nobody is left waiting.
LEMMA WaitersStep ==
    ASSUME Inv, [Next]_vars
    PROVE  StaysRegistered' /\ NoOrphanWait'
  <1> USE DEF Inv
  <1>1. ASSUME NEW c \in Calls, Start(c) PROVE StaysRegistered' /\ NoOrphanWait'
    BY <1>1 DEF TypeOK, StaysRegistered, NoOrphanWait, Registered, Channel, Start, Goto, tableVars
  <1>2. ASSUME NEW c \in Calls, Register(c) PROVE StaysRegistered' /\ NoOrphanWait'
    <2>1. serial[c] \in 1..MaxSerial
      BY <1>2, MaxSerialAssumption DEF TypeOK, SerialsDistinct, Register
    <2>2. ASSUME NEW d \in Calls, wpc = "wait", pc'[d] \in Registered
          PROVE  Channel(serial[d])' = d
      <3>1. CASE d = c
        BY <1>2, <2>1, <3>1 DEF TypeOK, Register, Channel
      <3>2. CASE d # c
        <4>1. pc[d] \in Registered /\ serial[d] # serial[c]
          BY <1>2, <2>2, <3>2 DEF TypeOK, SerialsDistinct, Registered, Register, Goto
        <4> QED BY <1>2, <2>2, <4>1 DEF TypeOK, StaysRegistered, Register, Channel
      <3> QED BY <3>1, <3>2
    <2>3. NoOrphanWait'
      BY <1>2 DEF TypeOK, NoOrphanWait, Register, Goto
    <2> QED BY <1>2, <2>2, <2>3 DEF StaysRegistered, Register, Channel
  <1>3. ASSUME NEW c \in Calls, CheckConnected(c) PROVE StaysRegistered' /\ NoOrphanWait'
    <2>1. wpc = "done" => pc' = [pc EXCEPT ![c] = "leave"]
      BY <1>3 DEF CleanupLast, CheckConnected, Return, Goto
    <2>2. NoOrphanWait'
      BY <1>3, <2>1 DEF TypeOK, NoOrphanWait, CheckConnected, tableVars
    <2>3. StaysRegistered'
      BY <1>3 DEF TypeOK, StaysRegistered, Registered, Channel, CheckConnected, Return, Goto, tableVars
    <2> QED BY <2>2, <2>3
  <1>4. ASSUME NEW c \in Calls, WriteCall(c) PROVE StaysRegistered' /\ NoOrphanWait'
    BY <1>4 DEF TypeOK, StaysRegistered, NoOrphanWait, Registered, Channel, WriteCall, Return, Goto,
                tableVars
  <1>5. ASSUME NEW c \in Calls, Receives(c) PROVE StaysRegistered' /\ NoOrphanWait'
    <2>1. PICK l \in {"instream", "sink", "outwait", "settle", "leave"} :
            /\ pc' = [pc EXCEPT ![c] = l]
            /\ pc[c] \in {"await", "instream", "sink"}
               \/ (pc[c] \in {"outwait", "settle"} /\ l = "leave")
      BY <1>5, ReceiveMoves
    <2>2. UNCHANGED <<serial, callbacks, closed, wpc>>
      BY <1>5, ReceiveMoves
    <2>3. StaysRegistered'
      BY <2>1, <2>2 DEF TypeOK, StaysRegistered, Registered, Channel
    <2>4. NoOrphanWait'
      BY <2>1, <2>2 DEF TypeOK, NoOrphanWait
    <2> QED BY <2>3, <2>4
  <1>6. ASSUME NEW c \in Calls, Deregister(c) PROVE StaysRegistered' /\ NoOrphanWait'
    <2>1. \A d \in Calls : pc'[d] \in Registered => pc[d] \in Registered /\ serial[d] # serial[c]
      BY <1>6 DEF TypeOK, SerialsDistinct, Registered, Deregister, Goto
    <2>2. StaysRegistered'
      BY <1>6, <2>1 DEF TypeOK, StaysRegistered, Channel, Deregister
    <2>3. NoOrphanWait'
      BY <1>6 DEF TypeOK, NoOrphanWait, Deregister, Goto
    <2> QED BY <2>2, <2>3
  <1>7. ASSUME NEW c \in Calls, Sender(c) \/ Libvirtd(c) PROVE StaysRegistered' /\ NoOrphanWait'
    BY <1>7, SenderMoves, LibvirtdMoves
    DEF StaysRegistered, NoOrphanWait, Channel, callerVars, tableVars
  <1>8. CASE RoutePacket \/ StopListening \/ LoseConnection \/ UNCHANGED vars
    BY <1>8 DEF StaysRegistered, NoOrphanWait, Channel, RoutePacket, StopListening,
                LoseConnection, vars, callerVars, tableVars
  <1>9. CASE Cleanup
    <2>1. ASSUME NEW c \in Calls, pc[c] \in {"write", "await", "instream", "sink"}
          PROVE  c \in closed'
      <3>1. Channel(serial[c]) = c
        BY <1>9, <2>1 DEF StaysRegistered, Registered, Cleanup
      <3>2. serial[c] \in 1..MaxSerial
        BY <2>1, MaxSerialAssumption DEF TypeOK, SerialsDistinct
      <3>3. c # NoCall
        BY CallsAssumption
      <3> QED BY <1>9, <3>1, <3>2, <3>3 DEF Cleanup
    <2> QED BY <1>9, <2>1 DEF StaysRegistered, NoOrphanWait, Cleanup, callerVars
  <1> QED BY <1>1, <1>2, <1>3, <1>4, <1>5, <1>6, <1>7, <1>8, <1>9
          DEF Next, Caller, Receives, Terminated

-----------------------------------------------------------------------------

\* Inv holds in every state of every instance: whatever calls are made at once,
\* however the connection ends, whether or not sinks fail.
THEOREM Invariance == Spec => []Inv
  <1>1. Inv /\ [Next]_vars => Inv'
    <2> SUFFICES ASSUME Inv, [Next]_vars PROVE Inv'
      OBVIOUS
    <2>1. TypeOK'
      BY TypeStep DEF Inv
    <2> QED BY <2>1, SerialsStep, TableStep, AnswersStep, CleanupStep, WaitersStep DEF Inv
  <1> QED BY InvInit, <1>1, PTL DEF Spec

\* The variables keep their types.
THEOREM TypeCorrect == Spec => []TypeOK
  BY Invariance, PTL DEF Inv

\* The send in callback() and the close in deregister() never panic.
THEOREM NoPanic == Spec => []RegisteredOpen
  BY Invariance, PTL DEF Inv

\* Whatever is sent to a caller answers that caller's request.
THEOREM RepliesCorrelated == Spec => []Correlated
  BY Invariance, PTL DEF Inv

\* deregisterAll() leaves no caller waiting for a channel nobody will close:
\* registering before sending, and checking the socket after registering,
\* closes the race of a new call with the loss of the connection.
THEOREM NobodyOrphaned == Spec => []NoOrphanWait
  BY Invariance, PTL DEF Inv

-----------------------------------------------------------------------------

\* With sinks that accept and a server that ends a stream once, each packet
\* finds the caller it answers still receiving.
LEMMA ExpectedStep ==
    ASSUME ~SinkMayFail, ~AnswersAfterEof, ~SendsErrOk, Inv, AnswersExpected, [Next]_vars
    PROVE  AnswersExpected'
  <1> USE DEF Inv
  <1> SUFFICES ASSUME ~SocketDisconnected' PROVE AnswersExpected'
    BY DEF AnswersExpected
  <1>1. ASSUME NEW c \in Calls, Start(c) \/ Register(c) \/ CheckConnected(c)
        PROVE  AnswersExpected'
    <2>1. /\ UNCHANGED <<lpc, lpkt, srv>>
          /\ pc[c] \in {"idle", "register", "check"}
          /\ \E l \in CallerStates : pc' = [pc EXCEPT ![c] = l]
      BY <1>1 DEF Start, Register, CheckConnected, Return, Goto, CallerStates, listenerVars, serverVars
    <2>2. srv[c] = "none" /\ ~InFlight(c)
      BY <2>1 DEF AnswersToCalls, InFlight
    <2> QED BY <2>1, <2>2 DEF TypeOK, AnswersExpected, InFlight, SocketDisconnected
  <1>2. ASSUME NEW c \in Calls, WriteCall(c) PROVE AnswersExpected'
    <2>1. srv[c] = "none" /\ ~InFlight(c)
      BY <1>2 DEF AnswersToCalls, InFlight, WriteCall
    <2>2. /\ UNCHANGED <<lpc, lpkt>>
          /\ \/ srv' = [srv EXCEPT ![c] = "called"] /\ pc' = [pc EXCEPT ![c] = "await"]
             \/ UNCHANGED srv /\ \E l \in {"await", "leave"} : pc' = [pc EXCEPT ![c] = l]
      BY <1>2 DEF WriteCall, Return, Goto, listenerVars
    <2> QED BY <2>1, <2>2 DEF TypeOK, AnswersExpected, InFlight, SocketDisconnected
  <1>3. ASSUME NEW c \in Calls, ReceiveReply(c) PROVE AnswersExpected'
    <2>1. /\ UNCHANGED <<lpkt, srv>> /\ lpc = "deliver" /\ lpc' = "read"
          /\ InFlight(c) /\ pc[c] = "await"
      BY <1>3 DEF ReceiveReply, Handed, Correlated, InFlight, serverVars
    <2>2. /\ lpkt.kind # "error" /\ c \notin PlainCalls => pc' = [pc EXCEPT ![c] = "instream"]
          /\ \E l \in CallerStates : pc' = [pc EXCEPT ![c] = l]
      BY <1>3 DEF ReceiveReply, Return, Goto, CallerStates
    <2> QED BY <2>1, <2>2 DEF TypeOK, AnswersExpected, InFlight, SocketDisconnected
  <1>4. ASSUME NEW c \in Calls, ReceiveStream(c) PROVE AnswersExpected'
    <2>1. /\ UNCHANGED <<lpkt, srv>> /\ lpc = "deliver" /\ lpc' = "read"
          /\ InFlight(c) /\ pc[c] = "instream"
      BY <1>4 DEF ReceiveStream, Handed, Correlated, InFlight, serverVars
    <2>2. lpkt.kind = "data" => \E l \in {"sink", "instream"} : pc' = [pc EXCEPT ![c] = l]
      BY <1>4 DEF ReceiveStream, Goto
    <2>3. \E l \in CallerStates : pc' = [pc EXCEPT ![c] = l]
      BY <1>4, ReceiveMoves DEF Receives, CallerStates
    <2> QED BY <2>1, <2>2, <2>3 DEF TypeOK, AnswersExpected, InFlight, SocketDisconnected
  <1>5. ASSUME NEW c \in Calls, WriteSink(c) PROVE AnswersExpected'
    <2>1. /\ UNCHANGED <<lpc, lpkt, srv>> /\ pc[c] = "sink"
          /\ pc' = [pc EXCEPT ![c] = "instream"]
      BY <1>5 DEF WriteSink, Goto, listenerVars, serverVars
    <2> QED BY <2>1 DEF TypeOK, AnswersExpected, InFlight, SocketDisconnected
  <1>6. ASSUME NEW c \in Calls, Interrupted(c) PROVE AnswersExpected'
    BY <1>6 DEF ClosedByOwner, Interrupted, SocketDisconnected, listenerVars
  <1>7. ASSUME NEW c \in Calls, AwaitSender(c) \/ Settle(c) \/ Deregister(c)
        PROVE  AnswersExpected'
    <2>1. /\ UNCHANGED <<lpc, lpkt, srv>>
          /\ pc[c] \in {"outwait", "settle", "leave"}
          /\ \E l \in {"leave", "done"} : pc' = [pc EXCEPT ![c] = l]
      BY <1>7 DEF AwaitSender, Settle, Deregister, Return, Goto, listenerVars, serverVars
    <2> QED BY <2>1 DEF TypeOK, AnswersExpected, InFlight, SocketDisconnected
  <1>8. ASSUME NEW c \in Calls, Sender(c) PROVE AnswersExpected'
    BY <1>8, SenderMoves DEF AnswersExpected, InFlight, SocketDisconnected, callerVars, listenerVars
  <1>9. ASSUME NEW c \in Calls, Libvirtd(c) PROVE AnswersExpected'
    <2>1. \A d \in Calls : ~InFlight(d) /\ (d # c => ~InFlight(d)')
      BY <1>9, LibvirtdMoves DEF InFlight
    <2>2. UNCHANGED pc /\ \A d \in Calls : d # c => srv'[d] = srv[d]
      BY <1>9, LibvirtdMoves DEF TypeOK, callerVars
    <2>3. CASE AnswerCall(c)
      BY <2>1, <2>2, <2>3 DEF TypeOK, AnswersExpected, AnswerCall, ReadPacket, InFlight, SocketDisconnected
    <2>4. CASE StreamData(c)
      BY <2>1, <2>2, <2>4 DEF TypeOK, AnswersExpected, StreamData, ReadPacket, InFlight, SocketDisconnected
    <2>5. CASE EndOfStream(c)
      BY <2>1, <2>2, <2>5 DEF TypeOK, AnswersExpected, EndOfStream, ReadPacket, InFlight, SocketDisconnected
    <2>6. CASE AnswerFinish(c)
      BY <1>9, <2>6, LibvirtdMoves DEF AnswersExpected, AnswerFinish, SocketDisconnected
    <2> QED BY <1>9, <2>3, <2>4, <2>5, <2>6 DEF Libvirtd
  <1>10. CASE RoutePacket
    <2>1. /\ UNCHANGED <<lpkt, srv, pc>> /\ lpc = "route"
          /\ lpc' = IF Channel(lpkt.serial) = NoCall THEN "read" ELSE "deliver"
      BY <1>10 DEF RoutePacket, callerVars, serverVars
    <2>2. ASSUME NEW c \in Calls, InFlight(c) PROVE Channel(lpkt.serial) # NoCall
      <3>1. pc[c] \in Registered /\ wpc = "wait"
        BY <2>1, <2>2 DEF TypeOK, AnswersExpected, CleanupLast, SocketDisconnected, Registered
      <3> QED BY <2>2, <3>1, CallsAssumption DEF StaysRegistered, AnswersToCalls, InFlight
    <2>3. \A c \in Calls : InFlight(c)' <=> InFlight(c)
      BY <2>1, <2>2 DEF InFlight
    <2> QED BY <2>1, <2>3 DEF AnswersExpected, SocketDisconnected
  <1>11. CASE StopListening \/ Cleanup
    BY <1>11 DEF StopListening, Cleanup, SocketDisconnected, listenerVars
  <1>12. CASE LoseConnection \/ UNCHANGED vars
    BY <1>12 DEF AnswersExpected, InFlight, SocketDisconnected, LoseConnection, vars, callerVars,
                 listenerVars, serverVars
  <1> QED BY <1>1, <1>2, <1>3, <1>4, <1>5, <1>6, <1>7, <1>8, <1>9, <1>10, <1>11, <1>12
          DEF Next, Caller, Terminated

\* If no sink fails and the server sends nothing after the end of a stream, the
\* listener never holds cmux over a send that nobody will receive.
THEOREM NeverWedged ==
    ASSUME ~SinkMayFail, ~AnswersAfterEof, ~SendsErrOk
    PROVE  Spec => []ListenerNeverWedged
  <1>1. Init => AnswersExpected
    BY DEF Init, AnswersExpected, InFlight
  <1>2. Inv /\ AnswersExpected /\ [Next]_vars => AnswersExpected'
    BY ExpectedStep
  <1>3. Inv /\ AnswersExpected => ListenerNeverWedged
    BY DEF Inv, AnswersToCalls, Correlated, AnswersExpected, InFlight, ListenerNeverWedged,
           SocketDisconnected
  <1> QED BY Invariance, <1>1, <1>2, <1>3, PTL DEF Spec

-----------------------------------------------------------------------------
(***************************************************************************)
(* The contract: what a caller returns rests on an answer that the         *)
(* listener has read, or on a connection that is gone.                     *)
(***************************************************************************)
Unanswered == {"none", "called"}
Pending == CallerStates \ {"idle", "leave", "done"}

\* A call goes on past "await" only on a packet of its own, and one that has not
\* been answered waits, as long as the listener runs.
AnsweredFirst ==
    \A c \in Calls :
        /\ pc[c] \in {"instream", "sink", "outwait", "settle"} => srv[c] \notin Unanswered
        /\ InFlight(c) => srv[c] \notin Unanswered
        /\ srv[c] = "called" /\ ~SocketDisconnected => pc[c] = "await"

\* Where the contract sees a call.
Status ==
    [c \in Calls |->
        CASE pc[c] = "idle" -> "idle"
          [] pc[c] \in {"leave", "done"} -> result[c]
          [] OTHER -> "pending"]

\* AnsweredFirst is inductive, with Inv.
LEMMA AnsweredFirstStep ==
    ASSUME Inv, AnsweredFirst, [Next]_vars
    PROVE  AnsweredFirst'
  <1> USE DEF Inv, Unanswered
  <1>1. ASSUME NEW c \in Calls, Start(c) \/ Register(c) \/ CheckConnected(c) \/ Deregister(c)
        PROVE  AnsweredFirst'
    <2>1. /\ UNCHANGED <<lpc, lpkt, srv>>
          /\ pc[c] \in {"idle", "register", "check", "leave"}
          /\ \E l \in {"register", "check", "write", "leave", "done"} : pc' = [pc EXCEPT ![c] = l]
      BY <1>1 DEF Start, Register, CheckConnected, Deregister, Return, Goto, listenerVars, serverVars
    <2>2. srv[c] = "called" => SocketDisconnected
      BY <2>1 DEF AnsweredFirst
    <2> QED BY <2>1, <2>2 DEF TypeOK, AnsweredFirst, InFlight, SocketDisconnected
  <1>2. ASSUME NEW c \in Calls, WriteCall(c) PROVE AnsweredFirst'
    <2>1. srv[c] = "none" /\ ~InFlight(c)
      BY <1>2 DEF AnswersToCalls, InFlight, WriteCall
    <2>2. /\ UNCHANGED <<lpc, lpkt>>
          /\ \/ srv' = [srv EXCEPT ![c] = "called"] /\ pc' = [pc EXCEPT ![c] = "await"]
             \/ UNCHANGED srv /\ \E l \in {"await", "leave"} : pc' = [pc EXCEPT ![c] = l]
      BY <1>2 DEF WriteCall, Return, Goto, listenerVars
    <2> QED BY <2>1, <2>2 DEF TypeOK, AnsweredFirst, InFlight, SocketDisconnected
  <1>3. ASSUME NEW c \in Calls, Receives(c) PROVE AnsweredFirst'
    <2>1. \/ srv[c] \notin Unanswered
          \/ SocketDisconnected /\ pc'[c] \in {"outwait", "settle", "leave"}
      <3>1. CASE ReceiveReply(c) \/ ReceiveStream(c)
        <4>1. InFlight(c)
          BY <3>1 DEF ReceiveReply, ReceiveStream, Handed, Correlated, InFlight
        <4> QED BY <4>1 DEF AnsweredFirst
      <3>2. CASE WriteSink(c) \/ AwaitSender(c) \/ Settle(c)
        <4>1. pc[c] \in {"sink", "outwait", "settle"}
          BY <3>2 DEF WriteSink, AwaitSender, Settle
        <4> QED BY <4>1 DEF AnsweredFirst
      <3>3. CASE Interrupted(c)
        BY <3>3, EndStreamMoves
        DEF TypeOK, Interrupted, ClosedByOwner, Return, Goto
      <3> QED BY <1>3, <3>1, <3>2, <3>3 DEF Receives
    <2>2. pc[c] # "await" \/ srv[c] \notin Unanswered \/ pc'[c] = "leave"
      BY <1>3, <2>1 DEF TypeOK, Receives, ReceiveReply, ReceiveStream, WriteSink, Interrupted,
                        AwaitSender, Settle, Return, Goto
    <2>3. PICK l \in {"instream", "sink", "outwait", "settle", "leave"} :
            pc' = [pc EXCEPT ![c] = l] /\ pc[c] \in {"await", "instream", "sink", "outwait", "settle"}
      BY <1>3, ReceiveMoves
    <2>4. UNCHANGED <<lpkt, srv>> /\ (lpc' = lpc \/ (lpc = "deliver" /\ lpc' = "read"))
      BY <1>3, ReceiveMoves
    <2> QED BY <2>1, <2>2, <2>3, <2>4 DEF TypeOK, AnsweredFirst, InFlight, SocketDisconnected
  <1>4. ASSUME NEW c \in Calls, Sender(c) PROVE AnsweredFirst'
    BY <1>4, SenderMoves DEF AnsweredFirst, InFlight, SocketDisconnected, callerVars, listenerVars
  <1>5. ASSUME NEW c \in Calls, Libvirtd(c) PROVE AnsweredFirst'
    <2>1. UNCHANGED pc /\ lpc = "read" /\ lpkt'.call = c
      BY <1>5, LibvirtdMoves DEF callerVars
    <2>2. PICK a \in {"open", "half", "closed"} : srv' = [srv EXCEPT ![c] = a]
      BY <1>5, LibvirtdMoves
    <2> QED BY <2>1, <2>2 DEF TypeOK, AnsweredFirst, InFlight, SocketDisconnected
  <1>6. CASE RoutePacket \/ StopListening \/ Cleanup \/ LoseConnection \/ UNCHANGED vars
    BY <1>6 DEF AnsweredFirst, InFlight, SocketDisconnected, RoutePacket, StopListening, Cleanup,
                LoseConnection, vars, callerVars, listenerVars, serverVars
  <1> QED BY <1>1, <1>2, <1>3, <1>4, <1>5, <1>6 DEF Next, Caller, Receives, Terminated

\* How steps of a caller look from outside: it is issued, goes on, or returns.
LEMMA StatusMoves ==
    ASSUME TypeOK, NEW c \in Calls, NEW l, pc' = [pc EXCEPT ![c] = l]
    PROVE  /\ pc[c] = "idle" /\ l \in Pending /\ UNCHANGED result =>
                Status[c] = "idle" /\ Status' = [Status EXCEPT ![c] = "pending"]
           /\ pc[c] \in Pending /\ l \in Pending /\ UNCHANGED result => UNCHANGED Status
           /\ pc[c] = "leave" /\ l = "done" /\ UNCHANGED result => UNCHANGED Status
           /\ \A r \in {"ok", "failed", "interrupted"} :
                pc[c] \in Pending /\ l = "leave" /\ result' = [result EXCEPT ![c] = r] =>
                    Status[c] = "pending" /\ Status' = [Status EXCEPT ![c] = r]
  BY ZenonT(60) DEF TypeOK, Status, Pending, CallerStates

\* A caller that returns r has the right to, by the contract.
MayReturn(c, r) ==
    \/ r = "ok" /\ srv[c] \notin Unanswered
    \/ r = "failed" /\ (srv[c] \notin Unanswered \/ ~connected)
    \/ r = "interrupted" /\ ~connected

\* A step of a caller is no step of the contract, or a return it may make.
Settled(c) ==
    \/ UNCHANGED Status
    \/ \E r \in {"ok", "failed", "interrupted"} :
          /\ MayReturn(c, r)
          /\ Status[c] = "pending"
          /\ Status' = [Status EXCEPT ![c] = r]

\* processIncomingStream's return, as the contract sees it.
LEMMA EndStreamSettles ==
    ASSUME TypeOK, NEW c \in Calls, NEW r \in {"ok", "failed", "interrupted"},
           pc[c] \in {"instream", "sink"}, EndStream(c, r), MayReturn(c, r)
    PROVE  Settled(c)
  <1>1. CASE Return(c, r)
    BY <1>1, StatusMoves DEF Return, Goto, Pending, CallerStates, Settled
  <1>2. CASE UNCHANGED result /\ \E l \in {"outwait", "settle"} : Goto(c, l)
    BY <1>2, StatusMoves DEF Goto, Pending, CallerStates, Settled
  <1> QED BY <1>1, <1>2 DEF EndStream

\* Every return of a caller is one the contract allows.
LEMMA ReceivesSettles ==
    ASSUME Inv, AnsweredFirst, NEW c \in Calls, Receives(c)
    PROVE  Settled(c)
  <1> USE DEF Inv
  <1> DEFINE Moves(l) == pc[c] \in Pending /\ l \in Pending /\ Goto(c, l) /\ UNCHANGED result
             Returns(r) == pc[c] \in Pending /\ Return(c, r) /\ MayReturn(c, r)
  <1>1. ASSUME NEW l, Moves(l) PROVE Settled(c)
    BY <1>1, StatusMoves DEF Goto, Settled
  <1>2. ASSUME NEW r \in {"ok", "failed", "interrupted"}, Returns(r) PROVE Settled(c)
    BY <1>2, StatusMoves DEF Return, Goto, Settled
  <1> HIDE DEF Moves, Returns
  <1>3. CASE ReceiveReply(c)
    <2>1. srv[c] \notin Unanswered /\ pc[c] \in Pending
      BY <1>3 DEF ReceiveReply, Handed, Correlated, AnsweredFirst, InFlight, Pending, CallerStates
    <2>2. Returns("failed") \/ Returns("ok") \/ Moves("instream")
      BY <1>3, <2>1 DEF ReceiveReply, Returns, Moves, MayReturn, Pending, CallerStates
    <2> QED BY <1>1, <1>2, <2>2
  <1>4. CASE ReceiveStream(c)
    <2>1. srv[c] \notin Unanswered /\ pc[c] = "instream"
      BY <1>4 DEF ReceiveStream, AnsweredFirst
    <2>2. CASE \E r \in {"ok", "failed"} : EndStream(c, r)
      BY <2>1, <2>2, EndStreamSettles DEF MayReturn
    <2>3. CASE Moves("sink") \/ Moves("instream")
      BY <1>1, <2>3
    <2> QED BY <1>4, <2>1, <2>2, <2>3 DEF ReceiveStream, Moves, Pending, CallerStates
  <1>5. CASE WriteSink(c)
    <2>1. srv[c] \notin Unanswered /\ pc[c] = "sink"
      BY <1>5 DEF WriteSink, AnsweredFirst
    <2>2. CASE EndStream(c, "failed")
      BY <2>1, <2>2, EndStreamSettles DEF MayReturn
    <2>3. CASE Moves("instream")
      BY <1>1, <2>3
    <2> QED BY <1>5, <2>1, <2>2, <2>3 DEF WriteSink, Moves, Pending, CallerStates
  <1>6. CASE Interrupted(c)
    <2>1. ~connected
      BY <1>6 DEF Interrupted, ClosedByOwner, CleanupLast
    <2>2. CASE pc[c] = "await" /\ Return(c, "interrupted")
      BY <1>2, <2>1, <2>2 DEF Returns, MayReturn, Pending, CallerStates
    <2>3. CASE pc[c] = "instream" /\ EndStream(c, "interrupted")
      BY <2>1, <2>3, EndStreamSettles DEF MayReturn
    <2> QED BY <1>6, <2>2, <2>3 DEF Interrupted
  <1>7. CASE AwaitSender(c)
    <2>1. Returns(outErr[c]) /\ outErr[c] \in {"ok", "failed"}
      BY <1>7 DEF TypeOK, AwaitSender, AnsweredFirst, Returns, MayReturn, Pending, CallerStates
    <2> QED BY <1>2, <2>1
  <1>8. CASE Settle(c)
    <2>1. Returns("failed") \/ Returns("ok")
      BY <1>8 DEF Settle, AnsweredFirst, Returns, MayReturn, Pending, CallerStates
    <2> QED BY <1>2, <2>1
  <1> QED BY <1>3, <1>4, <1>5, <1>6, <1>7, <1>8 DEF Receives

\* Every step of the program is a step of the contract, or none.
LEMMA ContractStep ==
    ASSUME Inv, AnsweredFirst, [Next]_vars
    PROVE  [Contract!Next]_(Contract!vars)
  <1> USE DEF Inv
  <1> DEFINE Asked == {c \in Calls : srv[c] \notin Unanswered}
             Stutter == UNCHANGED <<Status, Asked, connected>>
  <1>1. ASSUME Stutter PROVE UNCHANGED Contract!vars
    BY <1>1 DEF Contract!vars, Status, Unanswered
  <1>2. ASSUME UNCHANGED <<pc, result, connected, srv>> PROVE Stutter
    BY <1>2 DEF Status
  <1>3. ASSUME NEW c \in Calls, Settled(c), UNCHANGED <<Asked, connected>>
        PROVE  [Contract!Next]_(Contract!vars)
    <2>1. ASSUME NEW r \in {"ok", "failed", "interrupted"}, MayReturn(c, r),
                 Status[c] = "pending", Status' = [Status EXCEPT ![c] = r]
          PROVE  Contract!Succeed(c) \/ Contract!Fail(c) \/ Contract!Interrupt(c)
      <3>1. Contract!Resolve(c, r)
        BY <1>3, <2>1 DEF Contract!Resolve, Status, Unanswered
      <3> QED BY <2>1, <3>1 DEF MayReturn, Contract!Succeed, Contract!Fail, Contract!Interrupt,
                                Unanswered
    <2> QED BY <1>1, <1>3, <2>1 DEF Settled, Contract!Next
  <1>4. ASSUME NEW c \in Calls, Start(c) PROVE Contract!Issue(c)
    <2>1. Status[c] = "idle" /\ Status' = [Status EXCEPT ![c] = "pending"]
      <3>1. pc[c] = "idle" /\ pc' = [pc EXCEPT ![c] = "register"] /\ UNCHANGED result
        BY <1>4 DEF Start, Goto
      <3>2. "register" \in Pending
        BY DEF Pending, CallerStates
      <3> QED BY <3>1, <3>2, StatusMoves
    <2>2. UNCHANGED <<Asked, connected>>
      BY <1>4 DEF Start, serverVars
    <2> QED BY <2>1, <2>2 DEF Contract!Issue, Status, Unanswered
  <1>5. ASSUME NEW c \in Calls, Register(c) \/ Deregister(c) PROVE Stutter
    <2>1. UNCHANGED Status
      BY <1>5, StatusMoves DEF Register, Deregister, Goto, Pending, CallerStates
    <2> QED BY <1>5, <2>1 DEF Register, Deregister, serverVars
  <1>6. ASSUME NEW c \in Calls, CheckConnected(c) \/ WriteCall(c)
        PROVE  Settled(c) /\ UNCHANGED <<Asked, connected>>
    <2>1. /\ UNCHANGED connected
          /\ UNCHANGED srv \/ (srv[c] = "none" /\ srv' = [srv EXCEPT ![c] = "called"])
      BY <1>6 DEF CheckConnected, WriteCall, AnswersToCalls, serverVars
    <2>2. UNCHANGED Asked
      BY <2>1 DEF TypeOK, Unanswered
    <2>3. CASE \E l \in {"write", "await"} : Goto(c, l) /\ UNCHANGED result
      <3>1. pc[c] \in Pending
        BY <1>6 DEF CheckConnected, WriteCall, Pending, CallerStates
      <3>2. PICK l \in Pending : pc' = [pc EXCEPT ![c] = l] /\ UNCHANGED result
        BY <2>3 DEF Goto, Pending, CallerStates
      <3>3. UNCHANGED Status
        BY <3>1, <3>2, StatusMoves
      <3> QED BY <2>1, <2>2, <3>3 DEF Settled
    <2>4. CASE Return(c, "failed")
      <3>1. ~connected /\ pc[c] \in Pending
        BY <1>6, <2>4 DEF TypeOK, CheckConnected, WriteCall, CleanupLast, Return, Goto, Pending,
                          CallerStates
      <3>2. /\ pc' = [pc EXCEPT ![c] = "leave"]
            /\ result' = [result EXCEPT ![c] = "failed"]
        BY <2>4 DEF Return, Goto
      <3>3. Status[c] = "pending" /\ Status' = [Status EXCEPT ![c] = "failed"]
        BY <3>1, <3>2, StatusMoves
      <3> QED BY <2>1, <2>2, <3>1, <3>3 DEF Settled, MayReturn
    <2> QED BY <1>6, <2>1, <2>2, <2>3, <2>4 DEF CheckConnected, WriteCall
  <1>7. ASSUME NEW c \in Calls, Receives(c) PROVE Settled(c) /\ UNCHANGED <<Asked, connected>>
    BY <1>7, ReceivesSettles, ReceiveMoves
  <1>8. ASSUME NEW c \in Calls, Sender(c) PROVE Stutter
    BY <1>2, <1>8, SenderMoves DEF callerVars
  <1>9. ASSUME NEW c \in Calls, Libvirtd(c) PROVE Contract!Answer(c) \/ Stutter
    <2>1. /\ UNCHANGED <<Status, connected>>
          /\ lpc = "read"
      BY <1>9, LibvirtdMoves DEF callerVars, Status
    <2>2. PICK a \in {"open", "half", "closed"} : srv' = [srv EXCEPT ![c] = a]
      BY <1>9, LibvirtdMoves
    <2>3. CASE srv[c] \notin Unanswered
      BY <2>1, <2>2, <2>3 DEF TypeOK, Unanswered
    <2>4. CASE srv[c] \in Unanswered
      <3>1. pc[c] = "await"
        BY <1>9, <2>1, <2>4, LibvirtdMoves DEF AnsweredFirst, SocketDisconnected, Unanswered
      <3>2. Status[c] = "pending" /\ Asked' = Asked \cup {c}
        BY <2>2, <3>1 DEF TypeOK, Status, Unanswered
      <3> QED BY <2>1, <3>2 DEF Contract!Answer, Status, Unanswered
    <2> QED BY <2>3, <2>4
  <1>10. CASE RoutePacket \/ StopListening \/ Cleanup \/ UNCHANGED vars
    <2>1. UNCHANGED <<pc, result, connected, srv>>
      BY <1>10 DEF RoutePacket, StopListening, Cleanup, vars, callerVars, serverVars
    <2> QED BY <1>1, <1>2, <2>1
  <1>11. ASSUME LoseConnection PROVE Contract!Lose
    BY <1>11 DEF LoseConnection, Contract!Lose, callerVars, serverVars
  <1> HIDE DEF Stutter, Asked
  <1> QED BY <1>1, <1>3, <1>4, <1>5, <1>6, <1>7, <1>8, <1>9, <1>10, <1>11
          DEF Next, Caller, Receives, Terminated, Contract!Next

\* requestStream implements its contract: a call succeeds only on an answer of its
\* own, fails or is interrupted only for a reason, and returns once.
THEOREM ContractKept == Spec => Implements
  <1>1. Init => AnsweredFirst /\ Contract!Init
    BY DEF Init, AnsweredFirst, InFlight, Contract!Init
  <1>2. Inv /\ AnsweredFirst /\ [Next]_vars => AnsweredFirst'
    BY AnsweredFirstStep
  <1>3. Inv /\ AnsweredFirst /\ [Next]_vars => [Contract!Next]_(Contract!vars)
    BY ContractStep
  <1> QED BY Invariance, <1>1, <1>2, <1>3, PTL DEF Spec, Implements, Contract!Spec
=============================================================================
