---------------------------- MODULE ClientProofs ----------------------------
(***************************************************************************)
(* Proofs about Client, for any of its functions and any values in their   *)
(* messages, and for any codec that keeps CodecContract: what a call sends *)
(* is what libvirtd reads, and whatever libvirtd answers reaches the       *)
(* caller, and every event its stream, as what it is.                      *)
(***************************************************************************)
EXTENDS Client, TLAPS

(***************************************************************************)
(* Types.                                                                  *)
(***************************************************************************)
LEMMA TypesInit == Init => TypesInv
  BY DEF Init, TypesInv, TypeOK, Serials, Ended, Nothing

LEMMA CallTypes ==
    ASSUME TypesInv, NEW i \in Called, NEW seed \in Seeds, Call(i, seed)
    PROVE  TypesInv'
  BY CalledAssumption DEF TypesInv, TypeOK, Serials, Call, Ended, Nothing

LEMMA EmitTypes ==
    ASSUME TypesInv, NEW seed \in Seeds, Emit(seed)
    PROVE  TypesInv'
  <1>1. /\ UNCHANGED <<call, phase, request, owed, result, pushed>>
        /\ phase = "idle"
        /\ packet'.status = "ok" /\ packet'.serial = 0
    BY DEF Emit, SendEvent
  <1> QED BY <1>1 DEF TypesInv, TypeOK, Serials, Ended

LEMMA ServerTypes ==
    ASSUME TypesInv, Server
    PROVE  TypesInv'
  <1>1. /\ UNCHANGED <<call, phase, request, result, pushed>>
        /\ owed # "none"
        /\ owed' \in {"stream", "end", "none"}
        /\ packet'.status \in {"ok", "continue", "error"}
        /\ answer' = answer \/ answer'.k \in {"results", "error"}
    <2>1. CASE Reply
      BY <2>1 DEF Reply, Transmit
    <2>2. CASE SendData
      BY <2>2 DEF SendData, Transmit
    <2>3. CASE EndStream
      BY <2>3 DEF EndStream, Transmit
    <2>4. ASSUME NEW code \in Codes, NEW message \in Messages, ReplyError(code, message)
          PROVE  <1>1!:
      BY <2>4 DEF ReplyError, Transmit
    <2> QED BY <2>1, <2>2, <2>3, <2>4 DEF Server
  <1> QED BY <1>1 DEF TypesInv, TypeOK, Serials, Ended

\* decodeError makes an error of three kinds, or none.
LEMMA KindsOfErrors ==
    ASSUME NEW payload
    PROVE  decodeError(payload) # Nothing =>
               decodeError(payload).k \in {"decoding", "libvirt", "ErrUnsupported"}
  BY DEF decodeError, ErrorOf, Nothing

LEMMA ReceiveTypes ==
    ASSUME TypesInv, Receive
    PROVE  TypesInv'
  <1> DEFINE err == IF packet.status = "error" THEN decodeError(packet.payload) ELSE Nothing
  <1>1. /\ UNCHANGED <<call, request, owed, answer, pushed>>
        /\ packet' = Nothing /\ packet # Nothing /\ packet.serial = 1
        /\ Respond(err)
    BY DEF Receive, ToCaller
  <1>2. call # 0 /\ call \in Called /\ phase # "idle"
    BY <1>1 DEF TypesInv, TypeOK, Serials
  <1>3. err # Nothing => err.k \in {"decoding", "libvirt", "ErrUnsupported"}
    BY KindsOfErrors
  <1> HIDE DEF err
  <1>4. \/ phase' = "failed" /\ result'.k \in {"decoding", "libvirt", "ErrUnsupported"}
        \/ phase' = "returned" /\ result'.k = "results"
        \/ phase' = "copying" /\ phase = "called"
        \/ UNCHANGED <<phase, result>>
    <2>1. CASE err # Nothing
      BY <1>1, <1>3, <2>1 DEF Respond
    <2>2. ASSUME NEW d, Return(d)
          PROVE  \/ phase' = "failed" /\ result'.k = "decoding"
                 \/ phase' = "returned" /\ result'.k = "results"
      <3>1. CASE d.ok
        BY <2>2, <3>1 DEF Return
      <3>2. CASE ~d.ok
        BY <2>2, <3>2 DEF Return
      <3> QED BY <3>1, <3>2
    <2>3. CASE err = Nothing
      <3>1. \/ phase' = "copying" /\ phase = "called"
            \/ UNCHANGED <<phase, result>>
            \/ Return(Decoding(fn.rets, packet.payload, TRUE))
        BY <1>1, <2>3 DEF Respond
      <3> QED BY <2>2, <3>1
    <2> QED BY <2>1, <2>3
  <1> QED BY <1>1, <1>2, <1>4 DEF TypesInv, TypeOK, Serials, Ended

LEMMA TypesStep == TypesInv /\ [Next]_vars => TypesInv'
  <1> SUFFICES ASSUME TypesInv, [Next]_vars PROVE TypesInv'
    OBVIOUS
  <1>1. ASSUME NEW i \in Called, NEW seed \in Seeds, Call(i, seed) PROVE TypesInv'
    BY <1>1, CallTypes
  <1>2. ASSUME NEW seed \in Seeds, Emit(seed) PROVE TypesInv'
    BY <1>2, EmitTypes
  <1>3. CASE Server
    BY <1>3, ServerTypes
  <1>4. CASE RouteEvent
    BY <1>4 DEF RouteEvent, TypesInv, TypeOK, Serials, Ended
  <1>5. CASE Drop
    BY <1>5 DEF Drop, TypesInv, TypeOK, Serials, Ended
  <1>6. CASE Receive
    BY <1>6, ReceiveTypes
  <1>7. CASE UNCHANGED vars
    BY <1>7 DEF vars, TypesInv, TypeOK, Serials, Ended
  <1> QED BY <1>1, <1>2, <1>3, <1>4, <1>5, <1>6, <1>7 DEF Next

\* Every variable of a call has its type, and a call that has failed has an error of one
\* of the kinds the client knows.
THEOREM TypeCorrect == Spec => []TypeOK
  <1>1. TypesInv => TypeOK
    BY DEF TypesInv
  <1> QED BY <1>1, TypesInit, TypesStep, PTL DEF Spec

(***************************************************************************)
(* How far a call is.                                                      *)
(***************************************************************************)
\* The events Route knows are those libvirtd sends for a callback id, number by number.
LEMMA RouteKnowsCallbacks == DOMAIN eventFromProcedureID = DOMAIN CallbackEvents
  <1>1. \A n, args, rets : Proc(n, args, rets).num = n
    BY DEF Proc, Function
  <1> QED BY <1>1, SMTT(30) DEF eventFromProcedureID, CallbackEvents, Table,
     DomainEventCallbackLifecycle, DomainEventCallbackReboot, DomainEventCallbackRtcChange,
     DomainEventCallbackWatchdog, DomainEventCallbackIOError, DomainEventCallbackGraphics,
     DomainEventCallbackIOErrorReason, DomainEventCallbackControlError,
     DomainEventCallbackBlockJob, DomainEventCallbackDiskChange, DomainEventCallbackTrayChange,
     DomainEventCallbackPmwakeup, DomainEventCallbackPmsuspend,
     DomainEventCallbackBalloonChange, DomainEventCallbackPmsuspendDisk,
     DomainEventCallbackDeviceRemoved, DomainEventCallbackTunable,
     DomainEventCallbackAgentLifecycle, DomainEventCallbackDeviceAdded,
     DomainEventCallbackMigrationIteration, DomainEventCallbackJobCompleted,
     DomainEventCallbackDeviceRemovalFailed, DomainEventCallbackMetadataChange

\* So it knows every event of libvirtd's but those it has no stream for.
Known(e) == IsEvent(e) \/ Unheard(e)

LEMMA EventsKnown ==
    ASSUME NEW seed, NEW id
    PROVE  /\ \A num \in DOMAIN EventMessages : Known(RemoteEvent(num, seed, id))
           /\ Known(QEMUEvent(seed, id))
  BY RouteKnowsCallbacks DEF Known, IsEvent, Unheard, EventMessages, RemoteEvent, QEMUEvent

\* The codec reads whatever comes for the call.
Heard == Asked /\ CallRead(call, request.seed)

\* The codec reads an event, and Route knows it.
Heeded(e) == EventRead(e) /\ Known(e)

\* ClientInv with what the codec keeps: inductive.
StageInv ==
    \/ Idle /\ (Announced => Heeded(answer.event))
    \/ Heard /\ IF call \in Swallowed THEN Lost ELSE InFlight

\* A step of libvirtd or of the client leaves the call what it was.
LEMMA SameCall ==
    ASSUME Heard, UNCHANGED <<call, request>>
    PROVE  Heard' /\ Results' = Results /\ (IsStream' <=> IsStream) /\ fn' = fn
  BY DEF Heard, Asked, Results, IsStream, fn

\* The procedure libvirtd finds is the one the function is for.
LEMMA SameProcedure ==
    ASSUME Heard
    PROVE  LET p == Procedure(request.program, request.procedure)
           IN  p.rets = fn.rets /\ (IsStream <=> p.in \/ p.out)
  BY TablesAgree, CalledAssumption DEF Heard, Asked, fn, IsStream

\* Route gives a packet of the call to its caller, unless it has the number of an event.
LEMMA Routed ==
    ASSUME Heard, NEW status, Own(status)
    PROVE  IsEvent(packet) <=> call \in Swallowed
  BY CalledAssumption, RouteKnowsCallbacks DEF Heard, Asked, Own, IsEvent, Swallowed, fn

LEMMA CallStep ==
    ASSUME StageInv, CodecContract', NEW i \in Called, NEW seed \in Seeds, Call(i, seed)
    PROVE  StageInv'
  <1>1. packet = Nothing
    <2>1. phase = "idle" /\ answer = Nothing
      BY DEF Call
    <2>2. Idle
      BY <2>1 DEF StageInv, Lost, InFlight, Awaiting, Replied, Refused, Stranded, Copying,
         Carrying, Closing, Done, Ended
    <2> QED BY <2>1, <2>2 DEF Idle, Quiet, Announced, Delivered, Nothing
  <1>2. /\ call' = i /\ phase' = "called" /\ owed' = "reply" /\ packet' = Nothing
        /\ fn' = ClientFunctions[i]
        /\ request'.program = fn'.program
        /\ request'.procedure = fn'.num
        /\ request'.args = Trial(fn'.args, request'.seed)
        /\ request'.payload = Encoding(fn'.args, request'.args)
    BY <1>1 DEF Call, fn
  <1>3. Heard'
    BY <1>2 DEF Heard, Asked, CodecContract
  <1> QED BY <1>2, <1>3 DEF StageInv, InFlight, Awaiting, Lost

LEMMA EmitStep ==
    ASSUME StageInv, CodecContract, NEW seed \in Seeds, Emit(seed)
    PROVE  StageInv'
  <1>1. /\ phase = "idle" /\ answer = Nothing
        /\ UNCHANGED <<call, phase, request, owed, result, pushed>>
    BY DEF Emit
  <1>2. Idle /\ Quiet
    <2>1. Idle
      BY <1>1 DEF StageInv, Lost, InFlight, Awaiting, Replied, Refused, Stranded, Copying,
         Carrying, Closing, Done, Ended
    <2> QED BY <1>1, <2>1 DEF Idle, Announced, Delivered, Nothing
  <1>3. EventsRead(seed)
    BY <1>1 DEF CodecContract
  <1>4. ASSUME NEW e, Heeded(e), SendEvent(e)
        PROVE  Announced' /\ Heeded(answer.event)'
    <2> DEFINE whole == OnWire(e.types, e.v)
    <2>1. PICK payload \in Forms(whole) :
              /\ packet' = [program |-> e.program, procedure |-> e.procedure, serial |-> 0,
                            status |-> "ok", payload |-> payload]
              /\ answer' = [k |-> "event", event |-> e, whole |-> Len(payload) >= Len(whole)]
      BY <1>4 DEF SendEvent
    <2>2. /\ answer'.event = e /\ answer'.k = "event"
          /\ answer'.whole <=> Len(payload) >= Len(whole)
          /\ packet' # Nothing /\ packet'.serial = 0 /\ packet'.program = e.program
          /\ packet'.procedure = e.procedure /\ packet'.payload = payload
      BY <2>1 DEF Nothing
    <2>3. Heeded(answer.event)'
      BY <1>4, <2>2
    <2>4. pushed' = Nothing
      BY <1>1, <1>2 DEF Quiet
    <2> QED BY <2>2, <2>3, <2>4 DEF Announced
  <1>5. PICK id \in CallbackIds :
            \/ \E num \in DOMAIN EventMessages : SendEvent(RemoteEvent(num, seed, id))
            \/ SendEvent(QEMUEvent(seed, id))
    BY DEF Emit
  <1>6. Announced' /\ Heeded(answer.event)'
    BY <1>3, <1>4, <1>5, EventsKnown DEF EventsRead, Heeded
  <1> QED BY <1>1, <1>2, <1>6 DEF StageInv, Idle

\* What libvirtd sends for a call is a packet of its own.
LEMMA Transmitted ==
    ASSUME NEW status, NEW payload, Transmit(status, payload), UNCHANGED <<call, request>>
    PROVE  Own(status)' /\ packet'.payload = payload
  BY DEF Transmit, Own, Nothing

\* libvirtd sends nothing but for a call it owes something, and one that is lost stays so.
LEMMA ServerOwes ==
    ASSUME StageInv, owed # "none", UNCHANGED <<call, phase, request>>,
           call \in Swallowed => \E status : Own(status)',
           Heard /\ call \notin Swallowed /\ InFlight => InFlight'
    PROVE  StageInv'
  <1>1. Heard /\ Heard'
    BY SameCall DEF StageInv, Idle
  <1>2. (\E status : Own(status)') => Own(packet.status)'
    BY DEF Own
  <1> QED BY <1>1, <1>2 DEF StageInv, Idle, Lost

LEMMA ReplyStep ==
    ASSUME StageInv, packet = Nothing, Reply
    PROVE  StageInv'
  <1> DEFINE p == Procedure(request.program, request.procedure)
             whole == OnWire(p.rets, Trial(p.rets, request.seed))
  <1>1. /\ owed = "reply"
        /\ UNCHANGED <<call, phase, request, result, pushed>>
    BY DEF Reply
  <1>2. PICK payload \in IF p.in \/ p.out THEN {whole} ELSE Forms(whole) :
            /\ Transmit("ok", payload)
            /\ answer' = [k |-> "results", v |-> Trial(p.rets, request.seed),
                          whole |-> Len(payload) >= Len(whole)]
            /\ owed' = IF p.in \/ p.out THEN "stream" ELSE "none"
    BY DEF Reply
  <1>3. Own("ok")' /\ packet'.payload = payload
    BY <1>1, <1>2, Transmitted
  <1>4. ASSUME Heard, InFlight
        PROVE  InFlight'
    <2>1. Awaiting
      BY <1>1, <1>4 DEF InFlight, Awaiting, Replied, Refused, Stranded, Copying, Carrying,
         Closing, Done
    <2>2. /\ p.rets = fn.rets /\ (IsStream <=> p.in \/ p.out)
          /\ whole = OnWire(fn.rets, Results)
      BY <1>4, SameProcedure DEF Results
    <2>3. /\ Results' = Results /\ (IsStream' <=> IsStream) /\ fn' = fn
          /\ OnWire(fn.rets, Results)' = OnWire(fn.rets, Results)
      BY <1>1, <1>4, SameCall
    <2>4. IsStream /\ call \notin Misread => answer'.whole
      <3> SUFFICES ASSUME IsStream, call \notin Misread PROVE answer'.whole
        OBVIOUS
      <3>1. Len(whole) \in Nat
        BY <1>4, <2>2 DEF Heard, Asked, CallRead, ResultsRead, Results, fn
      <3>2. payload = whole
        BY <2>2
      <3>3. answer'.whole = (Len(whole) >= Len(whole))
        BY <1>2, <3>2
      <3>4. ASSUME NEW n \in Nat PROVE (n >= n) = TRUE
        OBVIOUS
      <3>5. (Len(whole) >= Len(whole)) = TRUE
        BY <3>1, <3>4
      <3> HIDE DEF whole
      <3> QED BY <3>3, <3>5, Zenon
    <2>5. Answered'
      BY <1>1, <1>2, <2>2, <2>3, <2>4 DEF Answered, Results
    <2>6. Replied'
      BY <1>1, <1>2, <1>3, <2>1, <2>2, <2>3, <2>5 DEF Replied, Awaiting
    <2> QED BY <2>6 DEF InFlight
  <1> QED BY <1>1, <1>3, <1>4, ServerOwes

LEMMA SendDataStep ==
    ASSUME StageInv, SendData
    PROVE  StageInv'
  <1>1. /\ owed = "stream" /\ owed' = "end" /\ packet = Nothing
        /\ UNCHANGED <<call, phase, request, answer, result, pushed>>
        /\ Own("continue")' /\ packet'.payload = Data
    BY Transmitted DEF SendData
  <1>2. ASSUME Heard, InFlight
        PROVE  InFlight'
    <2>1. Copying
      BY <1>1, <1>2 DEF InFlight, Awaiting, Replied, Refused, Stranded, Copying, Carrying,
         Closing, Done, Own
    <2>2. Answered' /\ IsStream'
      BY <1>1, <1>2, <2>1, SameCall DEF Answered, Copying
    <2> QED BY <1>1, <2>1, <2>2 DEF InFlight, Carrying, Copying
  <1> QED BY <1>1, <1>2, ServerOwes

LEMMA EndStreamStep ==
    ASSUME StageInv, EndStream
    PROVE  StageInv'
  <1>1. /\ owed \in {"stream", "end"} /\ owed' = "none" /\ packet = Nothing
        /\ UNCHANGED <<call, phase, request, answer, result, pushed>>
        /\ Own("ok")' \/ Own("continue")'
        /\ packet'.payload = <<>>
    BY Transmitted DEF EndStream
  <1>2. ASSUME Heard, InFlight
        PROVE  InFlight'
    <2>1. Copying
      BY <1>1, <1>2 DEF InFlight, Awaiting, Replied, Refused, Stranded, Copying, Carrying,
         Closing, Done, Own
    <2>2. Answered' /\ IsStream'
      BY <1>1, <1>2, <2>1, SameCall DEF Answered, Copying
    <2> QED BY <1>1, <2>1, <2>2 DEF InFlight, Closing, Copying
  <1> QED BY <1>1, <1>2, ServerOwes

LEMMA ReplyErrorStep ==
    ASSUME StageInv, NEW code \in Codes, NEW message \in Messages, ReplyError(code, message)
    PROVE  StageInv'
  <1> DEFINE whole == WholeError(code, message, request.seed)
  <1>1. /\ owed # "none" /\ owed' = "none" /\ packet = Nothing
        /\ UNCHANGED <<call, phase, request, result, pushed>>
        /\ code = ErrOk =>
               ErrOkAnywhere \/ (owed = "reply" /\ fn.rets = <<>> /\ ~fn.in /\ ~fn.out)
    BY DEF ReplyError
  <1>2. PICK payload \in ErrorForms(whole) :
            /\ Transmit("error", payload)
            /\ answer' = [k |-> "error", code |-> code, message |-> message,
                          whole |-> payload = whole]
    BY DEF ReplyError
  <1>3. Own("error")' /\ packet'.payload = payload
    BY <1>1, <1>2, Transmitted
  <1>4. ASSUME Heard, InFlight
        PROVE  InFlight'
    <2>1. Awaiting \/ Copying
      BY <1>1, <1>4 DEF InFlight, Awaiting, Replied, Refused, Stranded, Copying, Carrying,
         Closing, Done, Own
    <2>2. fn' = fn /\ (IsStream' <=> IsStream)
      BY <1>1, <1>4, SameCall
    <2>3. code = ErrOk => ErrOkAnywhere \/ (phase = "called" /\ fn.rets = <<>> /\ ~IsStream)
      BY <1>1, <2>1 DEF Awaiting, Copying, IsStream
    <2>4. /\ answer'.k = "error" /\ answer'.code = code /\ answer'.message = message
          /\ answer'.whole <=> payload = whole
      BY <1>2
    <2>5. Refused'
      BY <1>1, <1>2, <1>3, <2>1, <2>2, <2>3, <2>4 DEF Refused, Awaiting, Copying
    <2> QED BY <2>5 DEF InFlight
  <1> QED BY <1>1, <1>3, <1>4, ServerOwes

-----------------------------------------------------------------------------

\* A packet that is there for a call in flight belongs to it.
LEMMA PacketOwned ==
    ASSUME InFlight, packet # Nothing
    PROVE  /\ \E status : Own(status)
           /\ Replied \/ Refused \/ Carrying \/ Closing
  BY DEF InFlight, Awaiting, Replied, Refused, Stranded, Copying, Carrying, Closing, Done

\* An event that is on its way is pushed as what it is, or dropped.
LEMMA AnnouncedStep ==
    ASSUME Idle, Announced, Heeded(answer.event), RouteEvent \/ Drop
    PROVE  Idle' /\ Delivered'
  <1> DEFINE e == answer.event
             whole == OnWire(e.types, e.v)
             d == Decoding(EventType(e).types, packet.payload, FALSE)
  <1>1. /\ UNCHANGED <<call, phase, request, owed, answer, result>>
        /\ packet' = Nothing /\ answer.k = "event"
    BY DEF RouteEvent, Drop, Announced
  <1>2. /\ packet.payload \in Forms(whole)
        /\ answer.whole <=> Len(packet.payload) >= Len(whole)
        /\ pushed = Nothing
    BY DEF Announced
  <1>3. (IsEvent(packet) <=> IsEvent(e)) /\ EventType(packet) = EventType(e)
    BY DEF Announced, IsEvent, EventType
  <1>4. EventsUnderstood'
    <2>1. CASE Drop
      <3>1. Unheard(e) /\ pushed' = Nothing
        BY <1>2, <1>3, <2>1 DEF Drop, Heeded, Known
      <3>2. Unheard(answer.event)'
        BY <1>1, <3>1 DEF Unheard
      <3> QED BY <3>1, <3>2 DEF EventsUnderstood
    <2>2. CASE RouteEvent
      <3>1. IsEvent(e) /\ pushed' = Event(d)
        BY <1>3, <2>2 DEF RouteEvent
      <3>2. /\ d.ok => answer.whole /\ Same(e, d.v)
            /\ answer.whole /\ ~Unheard(e) => d.ok
        BY <1>2, <3>1 DEF Heeded, EventRead
      <3>3. Same(e, d.v) => d.v[1] = e.v[1]
        <4>1. 1 \in 1..5
          OBVIOUS
        <4> QED BY <4>1, Zenon DEF Same
      <3>4. CASE d.ok /\ d.v[1] \in Streams
        <4>1. pushed' # Nothing /\ pushed'.v = d.v
          BY <3>1, <3>4 DEF Event, Nothing
        <4>2. answer'.whole /\ Same(e, pushed'.v)
          BY <1>1, <3>2, <3>4, <4>1
        <4>3. (answer.whole /\ Same(answer.event, pushed.v))'
          BY <1>1, <4>2 DEF Same
        <4> QED BY <4>1, <4>3 DEF EventsUnderstood
      <3>5. CASE ~(d.ok /\ d.v[1] \in Streams)
        <4>1. pushed' = Nothing
          BY <3>1, <3>5 DEF Event
        <4>2. ~(answer.whole /\ ~Unheard(e) /\ e.v[1] \in Streams)
          BY <3>2, <3>3, <3>5
        <4>3. ~(answer.whole /\ ~Unheard(e) /\ e.v[1] \in Streams)'
          BY <1>1, <4>2 DEF Unheard
        <4> QED BY <4>1, <4>3 DEF EventsUnderstood
      <3> QED BY <3>4, <3>5
    <2> QED BY <2>1, <2>2
  <1> QED BY <1>1, <1>4 DEF Delivered, Idle

LEMMA RouteEventStep ==
    ASSUME StageInv, RouteEvent
    PROVE  StageInv'
  <1>1. /\ packet # Nothing /\ IsEvent(packet) /\ packet' = Nothing
        /\ UNCHANGED <<call, phase, request, owed, answer, result>>
    BY DEF RouteEvent
  <1>2. CASE Idle /\ (Announced => Heeded(answer.event))
    <2>1. Announced
      BY <1>1, <1>2 DEF Idle, Quiet, Delivered
    <2>2. Idle' /\ Delivered'
      BY <1>2, <2>1, AnnouncedStep
    <2> QED BY <2>2 DEF StageInv, Announced, Delivered
  <1>3. CASE Heard /\ call \in Swallowed /\ Lost
    <2>1. Heard'
      BY <1>1, <1>3, SameCall
    <2> QED BY <1>1, <1>3, <2>1 DEF StageInv, Lost
  <1>4. CASE Heard /\ call \notin Swallowed /\ InFlight
    BY <1>1, <1>4, PacketOwned, Routed
  <1> QED BY <1>2, <1>3, <1>4 DEF StageInv

LEMMA DropStep ==
    ASSUME StageInv, Drop
    PROVE  StageInv'
  <1>1. /\ packet # Nothing /\ packet.serial # 1 /\ packet' = Nothing
        /\ UNCHANGED <<call, phase, request, owed, answer, result, pushed>>
    BY DEF Drop
  <1>2. CASE Idle /\ (Announced => Heeded(answer.event))
    <2>1. Announced
      BY <1>1, <1>2 DEF Idle, Quiet, Delivered
    <2>2. Idle' /\ Delivered'
      BY <1>2, <2>1, AnnouncedStep
    <2> QED BY <2>2 DEF StageInv, Announced, Delivered
  <1>3. CASE Heard /\ call \in Swallowed /\ Lost
    BY <1>1, <1>3 DEF Lost, Own
  <1>4. CASE Heard /\ call \notin Swallowed /\ InFlight
    BY <1>1, <1>4, PacketOwned DEF Own
  <1> QED BY <1>2, <1>3, <1>4 DEF StageInv

\* Results that are whole are returned, and others are an error.
LEMMA ResultsReturned ==
    ASSUME Heard, call \notin Misread,
           NEW payload \in Forms(OnWire(fn.rets, Results)),
           Return(Decoding(fn.rets, payload, TRUE))
    PROVE  IF Len(payload) >= Len(OnWire(fn.rets, Results))
           THEN phase' = "returned" /\ result'.v = Results
           ELSE phase' = "failed"
  <1> DEFINE d == Decoding(fn.rets, payload, TRUE)
  <1>1. IF Len(payload) >= Len(OnWire(fn.rets, Results)) THEN d.ok /\ d.v = Results ELSE ~d.ok
    BY DEF Heard, Asked, CallRead, ResultsRead, Results, fn
  <1>2. CASE d.ok
    BY <1>1, <1>2 DEF Return
  <1>3. CASE ~d.ok
    BY <1>1, <1>3 DEF Return
  <1> QED BY <1>2, <1>3

\* The error the client makes of a packet is the one libvirtd sent, if it is whole.
LEMMA ErrorDecoded ==
    ASSUME Heard, Refused
    PROVE  decodeError(packet.payload) =
               IF ~answer.whole THEN [k |-> "decoding"]
               ELSE IF Mentions(answer.message, UnknownProcedure) THEN [k |-> "ErrUnsupported"]
               ELSE IF answer.code = ErrOk THEN Nothing
               ELSE [k |-> "libvirt", code |-> answer.code, message |-> answer.message]
  <1> DEFINE whole == WholeError(answer.code, answer.message, request.seed)
             d == Decoding(ErrorFields, packet.payload, FALSE)
  <1>1. /\ packet.payload \in ErrorForms(whole)
        /\ answer.whole <=> packet.payload = whole
        /\ ErrorRead(answer.code, answer.message, request.seed)
    BY DEF Refused, Heard, Asked, CallRead
  <1>2. IF packet.payload = whole THEN d.ok /\ d.v[1] = answer.code /\ d.v[4] = answer.message
                                  ELSE ~d.ok
    BY <1>1 DEF ErrorRead
  <1>3. decodeError(packet.payload) = ErrorOf(d)
    BY DEF decodeError
  <1> HIDE DEF d, whole
  <1>4. CASE answer.whole
    BY <1>1, <1>2, <1>3, <1>4 DEF ErrorOf
  <1>5. CASE ~answer.whole
    BY <1>1, <1>2, <1>3, <1>5 DEF ErrorOf
  <1> QED BY <1>4, <1>5

\* A stream ends with an empty packet, which is too short for any results.
LEMMA StreamEnds ==
    ASSUME Heard, Closing, Return(Decoding(fn.rets, packet.payload, TRUE)),
           UNCHANGED <<call, request, answer>>
    PROVE  phase' \in Ended /\ ReplyUnderstood' /\ OnlyShortFails'
  <1> DEFINE whole == OnWire(fn.rets, Results)
  <1>1. phase' \in Ended /\ answer.k = "results" /\ answer.v = Results /\ packet.payload = <<>>
    BY DEF Return, Ended, Closing, Answered
  <1>2. CASE call \in Misread
    BY <1>1, <1>2 DEF ReplyUnderstood, OnlyShortFails, Misread
  <1>3. CASE call \notin Misread
    <2>1. whole \in Seq(Octet)
      BY <1>3 DEF Heard, Asked, CallRead, ResultsRead, Results, fn
    <2>2. <<>> \in Forms(whole)
      <3>1. SubSeq(whole, 1, 0) = <<>> /\ 0 \in 0..Len(whole)
        BY <2>1
      <3>2. <<>> \in Cut(whole)
        BY <3>1 DEF Cut
      <3> QED BY <3>2 DEF Forms
    <2>3. IF Len(<<>>) >= Len(whole) THEN phase' = "returned" /\ result'.v = Results
          ELSE phase' = "failed"
      BY <1>1, <1>3, <2>2, ResultsReturned
    <2>4. ReplyUnderstood'
      BY <1>1, <2>3 DEF ReplyUnderstood, ResultsUnderstood
    <2>5. OnlyShortFails'
      <3>1. CASE call \in ResultsLost
        BY <3>1 DEF OnlyShortFails, ResultsLost
      <3>2. CASE call \notin ResultsLost
        <4>1. fn.rets = <<>>
          BY <3>2, CalledAssumption DEF ResultsLost, Heard, Asked, Closing, IsStream, fn
        <4>2. whole = <<>>
          BY <4>1 DEF Heard, Asked, CallRead, NothingRead, Results
        <4>3. phase' = "returned"
          BY <2>3, <4>2
        <4>4. answer.whole
          BY <1>3 DEF Closing, Answered
        <4> QED BY <4>3, <4>4 DEF OnlyShortFails
      <3> QED BY <3>1, <3>2
    <2> QED BY <1>1, <2>4, <2>5
  <1> QED BY <1>2, <1>3

\* The reply to a call without a stream ends it, and tells it the results.
LEMMA RepliedStep ==
    ASSUME Heard, Replied, Receive
    PROVE  InFlight'
  <1>1. /\ UNCHANGED <<call, request, owed, answer>>
        /\ packet' = Nothing /\ Respond(Nothing)
        /\ phase = "called" /\ Answered
    BY DEF Receive, Replied, Own
  <1>2. CASE IsStream
    <2>1. phase' = "copying"
      BY <1>1, <1>2 DEF Respond
    <2>2. Copying'
      BY <1>1, <1>2, <2>1, SameCall DEF Copying, Replied, Answered
    <2> QED BY <2>2 DEF InFlight
  <1>3. CASE ~IsStream
    <2>1. Return(Decoding(fn.rets, packet.payload, TRUE))
      BY <1>1, <1>3 DEF Respond
    <2>2. /\ packet.payload \in Forms(OnWire(fn.rets, Results))
          /\ answer.whole <=> Len(packet.payload) >= Len(OnWire(fn.rets, Results))
          /\ owed = "none"
      BY <1>3 DEF Replied
    <2>3. phase' \in Ended
      BY <2>1 DEF Return, Ended
    <2>4. ReplyUnderstood' /\ OnlyShortFails'
      <3>1. CASE call \in Misread
        BY <1>1, <3>1 DEF ReplyUnderstood, OnlyShortFails, Misread
      <3>2. CASE call \notin Misread
        <4>1. IF answer.whole THEN phase' = "returned" /\ result'.v = Results
                              ELSE phase' = "failed"
          BY <2>1, <2>2, <3>2, ResultsReturned
        <4> QED BY <1>1, <4>1 DEF ReplyUnderstood, ResultsUnderstood, OnlyShortFails, Answered
      <3> QED BY <3>1, <3>2
    <2>5. ErrorReported'
      BY <1>1 DEF ErrorReported, Answered
    <2>6. Done'
      BY <1>1, <2>2, <2>3, <2>4, <2>5 DEF Done
    <2> QED BY <2>6 DEF InFlight
  <1> QED BY <1>2, <1>3

\* Data go to the caller's io.Writer, and the copying goes on.
LEMMA CarryingStep ==
    ASSUME Heard, Carrying, Receive
    PROVE  InFlight'
  <1>1. /\ UNCHANGED <<call, request, owed, answer>>
        /\ packet' = Nothing /\ Respond(Nothing)
    BY DEF Receive, Carrying, Own
  <1>2. phase = "copying" /\ ~EndOfStream
    BY DEF Carrying, Own, EndOfStream, Data
  <1>3. phase' = "copying"
    BY <1>1, <1>2 DEF Respond
  <1>4. Copying'
    BY <1>1, <1>3, SameCall DEF Copying, Carrying, Answered
  <1> QED BY <1>4 DEF InFlight

\* The end of a stream ends the call.
LEMMA ClosingStep ==
    ASSUME Heard, Closing, Receive
    PROVE  InFlight'
  <1>1. /\ UNCHANGED <<call, request, owed, answer>>
        /\ packet' = Nothing /\ Respond(Nothing)
    BY DEF Receive, Closing, Own
  <1>2. phase = "copying" /\ EndOfStream
    BY DEF Closing, EndOfStream
  <1>3. Return(Decoding(fn.rets, packet.payload, TRUE))
    BY <1>1, <1>2 DEF Respond
  <1>4. phase' \in Ended /\ ReplyUnderstood' /\ OnlyShortFails'
    BY <1>1, <1>3, StreamEnds
  <1>5. ErrorReported'
    BY <1>1 DEF ErrorReported, Closing, Answered
  <1>6. Done'
    BY <1>1, <1>4, <1>5 DEF Done, Closing
  <1> QED BY <1>6 DEF InFlight

\* An error ends the call, and ERR_OK returns it, where it stands for an empty reply.
LEMMA RefusedStep ==
    ASSUME Heard, Refused, Receive
    PROVE  InFlight'
  <1> DEFINE err == decodeError(packet.payload)
  <1>1. /\ UNCHANGED <<call, request, owed, answer>>
        /\ packet' = Nothing /\ Respond(err)
        /\ phase \in {"called", "copying"} /\ owed = "none" /\ answer.k = "error"
    BY DEF Receive, Refused, Own
  <1>2. err = IF ~answer.whole THEN [k |-> "decoding"]
              ELSE IF Mentions(answer.message, UnknownProcedure) THEN [k |-> "ErrUnsupported"]
              ELSE IF answer.code = ErrOk THEN Nothing
              ELSE [k |-> "libvirt", code |-> answer.code, message |-> answer.message]
    BY ErrorDecoded
  <1>3. ReplyUnderstood' /\ OnlyShortFails'
    BY <1>1 DEF ReplyUnderstood, ResultsUnderstood, OnlyShortFails
  <1> HIDE DEF err
  <1>4. CASE err # Nothing
    <2>1. phase' = "failed" /\ result' = err
      BY <1>1, <1>4 DEF Respond
    <2>2. ErrorReported'
      BY <1>1, <1>2, <1>4, <2>1 DEF ErrorReported
    <2>3. Done'
      BY <1>1, <1>3, <2>1, <2>2 DEF Done, Ended
    <2> QED BY <2>3 DEF InFlight
  <1>5. CASE err = Nothing
    <2>1. /\ answer.whole /\ answer.code = ErrOk
          /\ ~Mentions(answer.message, UnknownProcedure)
      BY <1>2, <1>5 DEF Nothing
    <2>2. \/ phase' = "copying" /\ (IsStream \/ phase = "copying")
          \/ Return(Decoding(fn.rets, packet.payload, TRUE))
      BY <1>1, <1>5 DEF Respond
    <2>3. CASE ErrOkAnywhere
      <3>1. CASE phase' = "copying"
        BY <1>1, <2>3, <3>1 DEF InFlight, Stranded
      <3>2. CASE Return(Decoding(fn.rets, packet.payload, TRUE))
        <4>1. Done'
          BY <1>1, <1>3, <2>3, <3>2 DEF Done, Return, Ended
        <4> QED BY <4>1 DEF InFlight
      <3> QED BY <2>2, <3>1, <3>2
    <2>4. CASE ~ErrOkAnywhere
      <3>1. phase = "called" /\ fn.rets = <<>> /\ ~IsStream
        BY <2>1, <2>4 DEF Refused
      <3>2. Return(Decoding(<<>>, packet.payload, TRUE))
        BY <2>2, <3>1 , <1>1, <1>5 DEF Respond
      <3>3. Decoding(<<>>, packet.payload, TRUE).ok
        BY <2>1 DEF Refused, Heard, Asked, CallRead, NothingRead
      <3>4. phase' = "returned"
        BY <3>2, <3>3 DEF Return
      <3>5. ErrorReported'
        BY <1>1, <2>1, <3>4 DEF ErrorReported
      <3>6. Done'
        BY <1>1, <1>3, <3>4, <3>5 DEF Done, Ended
      <3> QED BY <3>6 DEF InFlight
    <2> QED BY <2>3, <2>4
  <1> QED BY <1>4, <1>5

LEMMA ReceiveStep ==
    ASSUME StageInv, Receive
    PROVE  StageInv'
  <1>1. /\ packet # Nothing /\ ~IsEvent(packet) /\ packet.serial = 1
        /\ UNCHANGED <<call, request>>
    BY DEF Receive, ToCaller
  <1>2. ~Idle
    BY <1>1 DEF Idle, Quiet, Announced, Delivered
  <1>3. Heard /\ call \notin Swallowed /\ InFlight
    BY <1>1, <1>2, Routed DEF StageInv, Lost
  <1>4. InFlight'
    BY <1>1, <1>3, PacketOwned, RepliedStep, RefusedStep, CarryingStep, ClosingStep
  <1>5. Heard'
    BY <1>1, <1>3, SameCall
  <1> QED BY <1>1, <1>3, <1>4, <1>5 DEF StageInv

-----------------------------------------------------------------------------

LEMMA ClientInit == Init => StageInv
  BY DEF Init, StageInv, Idle, Quiet, Announced, Nothing

LEMMA ClientStep == StageInv /\ CodecContract /\ CodecContract' /\ [Next]_vars => StageInv'
  <1> SUFFICES ASSUME StageInv, CodecContract, CodecContract', [Next]_vars PROVE StageInv'
    OBVIOUS
  <1>1. ASSUME NEW i \in Called, NEW seed \in Seeds, Call(i, seed) PROVE StageInv'
    BY <1>1, CallStep
  <1>2. ASSUME NEW seed \in Seeds, Emit(seed) PROVE StageInv'
    BY <1>2, EmitStep
  <1>3. CASE Server
    <2>1. ASSUME NEW code \in Codes, NEW message \in Messages, ReplyError(code, message)
          PROVE  StageInv'
      BY <2>1, ReplyErrorStep
    <2> QED BY <1>3, <2>1, ReplyStep, SendDataStep, EndStreamStep DEF Server
  <1>4. CASE RouteEvent
    BY <1>4, RouteEventStep
  <1>5. CASE Drop
    BY <1>5, DropStep
  <1>6. CASE Receive
    BY <1>6, ReceiveStep
  <1>7. CASE UNCHANGED vars
    <2>1. UNCHANGED <<call, phase, request, owed, answer, packet, result, pushed>>
      BY <1>7 DEF vars
    <2>2. Idle' = Idle /\ Announced' = Announced /\ Heeded(answer.event)' = Heeded(answer.event)
      BY <2>1 DEF Idle, Quiet, Announced, Delivered, EventsUnderstood, Unheard, Same, Heeded,
         EventRead, Known, IsEvent, EventType
    <2>3. Heard' = Heard /\ Lost' = Lost
      BY <2>1 DEF Heard, Asked, Lost, Own, fn
    <2>4. InFlight' = InFlight
      BY <2>1 DEF InFlight, Awaiting, Replied, Refused, Stranded, Copying, Carrying, Closing, Done,
         Own, Answered, Results, IsStream, fn, Ended, ReplyUnderstood, ResultsUnderstood,
         OnlyShortFails, ErrorReported
    <2> QED BY <2>1, <2>2, <2>3, <2>4 DEF StageInv
  <1> QED BY <1>1, <1>2, <1>3, <1>4, <1>5, <1>6, <1>7 DEF Next

\* With a codec that keeps its contract a call is always where ClientInv says.
LEMMA Stages == Spec /\ []CodecContract => []StageInv
  BY ClientInit, ClientStep, PTL DEF Spec

\* The inductive invariant: what the client waits for, what libvirtd owes and has answered
\* and the packet on its way fit together in every state of a call (Inv).
THEOREM Invariance == Spec /\ []CodecContract => []Inv
  <1>1. Spec => []TypesInv
    BY TypesInit, TypesStep, PTL DEF Spec
  <1>2. StageInv => ClientInv
    BY DEF StageInv, ClientInv, Heard
  <1>3. TypesInv /\ CodecContract /\ ClientInv => Inv
    BY DEF Inv
  <1> QED BY <1>1, <1>2, <1>3, Stages, PTL

\* What ends a call at libvirtd reaches its caller, if ERR_OK stands only for an empty
\* reply: Route and processIncomingStream drop nothing and take nothing for what it is
\* not (AnswersReachCaller).
THEOREM AnswersArrive ==
    ASSUME ~ErrOkAnywhere
    PROVE  Spec /\ []CodecContract => []AnswersReachCaller
  <1>1. StageInv => AnswersReachCaller
    <2> SUFFICES ASSUME StageInv, phase \in {"called", "copying"}, call \notin Swallowed
                 PROVE  owed # "none" \/ packet # Nothing
      BY DEF AnswersReachCaller
    <2>1. InFlight
      BY DEF StageInv, Idle
    <2> QED BY <2>1 DEF InFlight, Awaiting, Replied, Refused, Stranded, Copying, Carrying,
               Closing, Done, Own, Ended
  <1> QED BY <1>1, Stages, PTL

\* An error of libvirtd is returned as what it is, and ERR_OK as success, if it stands
\* only for an empty reply (ErrorReported).
THEOREM ErrorsTold ==
    ASSUME ~ErrOkAnywhere
    PROVE  Spec /\ []CodecContract => []ErrorReported
  <1>1. StageInv => ErrorReported
    <2> SUFFICES ASSUME StageInv, phase \in Ended
                 PROVE  ErrorReported
      BY DEF ErrorReported
    <2>1. InFlight
      BY DEF StageInv, Idle, Lost, Ended
    <2>2. Done
      BY <2>1 DEF InFlight, Awaiting, Replied, Refused, Stranded, Copying, Carrying,
               Closing, Ended
    <2> QED BY <2>2 DEF Done
  <1> QED BY <1>1, Stages, PTL

\* A call that has ended understood its reply.
LEMMA EndedUnderstood == StageInv => ReplyUnderstood /\ OnlyShortFails
  <1>1. CASE phase \in Ended
    <2> SUFFICES ASSUME StageInv PROVE ReplyUnderstood /\ OnlyShortFails
      OBVIOUS
    <2>1. InFlight
      BY <1>1 DEF StageInv, Idle, Lost, Ended
    <2>2. Done
      BY <1>1, <2>1 DEF InFlight, Awaiting, Replied, Refused, Stranded, Copying, Carrying,
         Closing, Ended
    <2> QED BY <2>2 DEF Done
  <1>2. CASE phase \notin Ended
    BY <1>2 DEF ReplyUnderstood, ResultsUnderstood, OnlyShortFails, Ended
  <1> QED BY <1>1, <1>2

\* What a call returns is what libvirtd answered, result by result, for every function but
\* DomainGetDiskErrors, from wherever in the call or its stream the results were decoded
\* (ReplyUnderstood).
THEOREM RepliesUnderstood == Spec /\ []CodecContract => []ReplyUnderstood
  BY EndedUnderstood, Stages, PTL

\* A call that was answered fails exactly if the answer is too short, for every function
\* but DomainGetDiskErrors and those whose results a stream follows (OnlyShortFails).
THEOREM ShortRepliesFail == Spec /\ []CodecContract => []OnlyShortFails
  BY EndedUnderstood, Stages, PTL
\* What a call sends is what libvirtd reads as the procedure of that number, whatever the
\* function and its arguments (ArgumentsOnWire).
THEOREM ArgumentsArrive == Spec /\ []CodecContract => []ArgumentsOnWire
  <1>1. StageInv => ArgumentsOnWire
    <2> SUFFICES ASSUME StageInv, request # Nothing
                 PROVE  /\ request.payload \in Seq(Octet)
                        /\ request.payload =
                               OnWire(Procedure(request.program, request.procedure).args,
                                      request.args)
      BY DEF ArgumentsOnWire
    <2>1. Heard
      BY DEF StageInv, Idle
    <2>2. Procedure(request.program, request.procedure).args = fn.args
      BY <2>1, TablesAgree, CalledAssumption DEF Heard, Asked, fn
    <2>3. ArgumentsWritten(fn.args, request.args) /\ request.payload = Encoding(fn.args, request.args)
      BY <2>1 DEF Heard, Asked, CallRead, fn
    <2> QED BY <2>2, <2>3 DEF ArgumentsWritten
  <1> QED BY <1>1, Stages, PTL

\* An event that reaches its stream is the one libvirtd sent, with nothing missing, and
\* every other one that is whole, and the client can decode, reaches it: Route knows it by
\* its number, drops none, and decodes each as what it is (EventsUnderstood).
THEOREM EventsTold == Spec /\ []CodecContract => []EventsUnderstood
  <1>1. TypesInv /\ StageInv => EventsUnderstood
    <2> SUFFICES ASSUME TypesInv, StageInv, answer.k = "event" PROVE EventsUnderstood
      BY DEF EventsUnderstood
    <2>1. Idle
      BY CalledAssumption DEF StageInv, Heard, Asked, TypesInv, Serials
    <2>2. Announced \/ Delivered
      BY <2>1 DEF Idle, Quiet, Nothing
    <2> QED BY <2>2 DEF Announced, Delivered, EventsUnderstood
  <1>2. Spec => []TypesInv
    BY TypesInit, TypesStep, PTL DEF Spec
  <1> QED BY <1>1, <1>2, Stages, PTL
=============================================================================
