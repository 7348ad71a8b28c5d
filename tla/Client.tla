-------------------------------- MODULE Client --------------------------------
(***************************************************************************)
(* The generated client at the level of payloads: a function encodes its   *)
(* arguments, libvirtd finds the procedure by its number, Route (rpc.go)   *)
(* tells replies from events by the header, requestStream returns the      *)
(* payload the results are decoded from, decodeError makes an error of a   *)
(* payload, and eventDecoder an event.                                     *)
(*                                                                         *)
(* One call, or one event, is on its way at a time: how calls, streams and *)
(* subscriptions interleave is in Rpc and Subscription.                    *)
(***************************************************************************)
EXTENDS Protocol

CONSTANTS
    Called,        \* the functions that are called: indices of ClientFunctions
    Seeds,         \* the seeds of the values in messages
    ErrOkAnywhere, \* StatusError with code ERR_OK may stand in for results and streams
    Trial(_, _),       \* the values of some types, by a seed
    Encoding(_, _),    \* the octets the client makes of values of some types,
    Decoding(_, _, _), \* what it makes of octets, with typedParamDecoder or without,
    OnWire(_, _)       \* and the octets that libvirtd sends and expects: module Xdr

ASSUME CalledAssumption == Called \subseteq DOMAIN ClientFunctions \ {0}
ASSUME SeedsAssumption == Seeds \subseteq Nat /\ ErrOkAnywhere \in BOOLEAN

\* The procedure libvirtd finds by a number.
Procedure(program, num) ==
    IF program = "qemu" THEN QEMUProcedures[num] ELSE Procedures[num]

\* A function sends the number of a procedure that has its arguments and results, and a
\* stream if it has one.
ASSUME TablesAgree ==
    \A i \in DOMAIN ClientFunctions :
        LET f == ClientFunctions[i]
            p == Procedure(f.program, f.num)
        IN  f.args = p.args /\ f.rets = p.rets /\ (f.in \/ f.out <=> p.in \/ p.out)

VARIABLES
    call,      \* the function called, 0 before
    phase,     \* "idle", "called", "copying", "returned" or "failed"
    request,   \* what the client has sent
    owed,      \* what libvirtd has still to send for it: "reply", "stream", "end", "none"
    answer,    \* what libvirtd has answered, or the event it has sent
    packet,    \* the packet the listener reads, if any
    result,    \* the results of the call, or its error
    pushed     \* the event pushed into a stream, if any

vars == <<call, phase, request, owed, answer, packet, result, pushed>>

Nothing == [k |-> "nothing"]
Ended == {"returned", "failed"}
fn == ClientFunctions[call]
Streams == {1}             \* Libvirt.events: the callback ids of open streams

TypeOK ==
    /\ call \in Called \cup {0}
    /\ phase \in {"idle", "called", "copying"} \cup Ended
    /\ call = 0 <=> phase = "idle"
    /\ owed \in {"reply", "stream", "end", "none"}
    /\ packet # Nothing => packet.status \in {"ok", "continue", "error"}
    /\ phase = "returned" => result.k = "results"
    /\ phase = "failed" => result.k \in {"decoding", "libvirt", "ErrUnsupported"}

Init ==
    /\ call = 0
    /\ phase = "idle"
    /\ request = Nothing
    /\ owed = "none"
    /\ answer = Nothing
    /\ packet = Nothing
    /\ result = Nothing
    /\ pushed = Nothing

(***************************************************************************)
(* A function encodes its arguments and sends a packet with the number of  *)
(* its procedure.                                                          *)
(***************************************************************************)
Call(i, seed) ==
    LET f == ClientFunctions[i]
        args == Trial(f.args, seed)
    IN  /\ phase = "idle" /\ answer = Nothing
        /\ call' = i
        /\ phase' = "called"
        /\ request' = [program |-> f.program, procedure |-> f.num, seed |-> seed,
                       args |-> args, payload |-> Encoding(f.args, args)]
        /\ owed' = "reply"
        /\ UNCHANGED <<answer, packet, result, pushed>>

(***************************************************************************)
(* Events.  Each has a procedure number of its own, and so a function of   *)
(* the client by mistake of the generator; libvirtd serves none of those.  *)
(***************************************************************************)
\* The function of a set of pairs.
Table(pairs) ==
    [num \in {pair[1] : pair \in pairs} |-> (CHOOSE pair \in pairs : pair[1] = num)[2]]

\* The events libvirtd sends for a callback id, by the numbers of its protocol.
CallbackEvents == Table({
    <<318, DomainEventCallbackLifecycleMsg>>,
    <<319, DomainEventCallbackRebootMsg>>,
    <<320, DomainEventCallbackRtcChangeMsg>>,
    <<321, DomainEventCallbackWatchdogMsg>>,
    <<322, DomainEventCallbackIOErrorMsg>>,
    <<323, DomainEventCallbackGraphicsMsg>>,
    <<324, DomainEventCallbackIOErrorReasonMsg>>,
    <<325, DomainEventCallbackControlErrorMsg>>,
    <<326, DomainEventCallbackBlockJobMsg>>,
    <<327, DomainEventCallbackDiskChangeMsg>>,
    <<328, DomainEventCallbackTrayChangeMsg>>,
    <<329, DomainEventCallbackPmwakeupMsg>>,
    <<330, DomainEventCallbackPmsuspendMsg>>,
    <<331, DomainEventCallbackBalloonChangeMsg>>,
    <<332, DomainEventCallbackPmsuspendDiskMsg>>,
    <<333, DomainEventCallbackDeviceRemovedMsg>>,
    <<346, DomainEventCallbackTunableMsg>>,
    <<348, DomainEventCallbackAgentLifecycleMsg>>,
    <<354, DomainEventCallbackDeviceAddedMsg>>,
    <<359, DomainEventCallbackMigrationIterationMsg>>,
    <<363, DomainEventCallbackJobCompletedMsg>>,
    <<367, DomainEventCallbackDeviceRemovalFailedMsg>>,
    <<379, DomainEventCallbackMetadataChangeMsg>>})

\* The events Route knows; the entry of AgentLifecycle forgotten.
eventFromProcedureID_Partial ==
    [num \in DOMAIN CallbackEvents \ {DomainEventCallbackAgentLifecycle.num} |->
        CallbackEvents[num]]
eventFromProcedureID == Table({
    <<DomainEventCallbackLifecycle.num, DomainEventCallbackLifecycleMsg>>,
    <<DomainEventCallbackReboot.num, DomainEventCallbackRebootMsg>>,
    <<DomainEventCallbackRtcChange.num, DomainEventCallbackRtcChangeMsg>>,
    <<DomainEventCallbackWatchdog.num, DomainEventCallbackWatchdogMsg>>,
    <<DomainEventCallbackIOError.num, DomainEventCallbackIOErrorMsg>>,
    <<DomainEventCallbackIOErrorReason.num, DomainEventCallbackIOErrorReasonMsg>>,
    <<DomainEventCallbackGraphics.num, DomainEventCallbackGraphicsMsg>>,
    <<DomainEventCallbackBlockJob.num, DomainEventCallbackBlockJobMsg>>,
    <<DomainEventCallbackDiskChange.num, DomainEventCallbackDiskChangeMsg>>,
    <<DomainEventCallbackTrayChange.num, DomainEventCallbackTrayChangeMsg>>,
    <<DomainEventCallbackPmwakeup.num, DomainEventCallbackPmwakeupMsg>>,
    <<DomainEventCallbackPmsuspend.num, DomainEventCallbackPmsuspendMsg>>,
    <<DomainEventCallbackBalloonChange.num, DomainEventCallbackBalloonChangeMsg>>,
    <<DomainEventCallbackPmsuspendDisk.num, DomainEventCallbackPmsuspendDiskMsg>>,
    <<DomainEventCallbackControlError.num, DomainEventCallbackControlErrorMsg>>,
    <<DomainEventCallbackDeviceRemoved.num, DomainEventCallbackDeviceRemovedMsg>>,
    <<DomainEventCallbackTunable.num, DomainEventCallbackTunableMsg>>,
    <<DomainEventCallbackDeviceAdded.num, DomainEventCallbackDeviceAddedMsg>>,
    <<DomainEventCallbackAgentLifecycle.num, DomainEventCallbackAgentLifecycleMsg>>,
    <<DomainEventCallbackMigrationIteration.num, DomainEventCallbackMigrationIterationMsg>>,
    <<DomainEventCallbackJobCompleted.num, DomainEventCallbackJobCompletedMsg>>,
    <<DomainEventCallbackDeviceRemovalFailed.num, DomainEventCallbackDeviceRemovalFailedMsg>>,
    <<DomainEventCallbackMetadataChange.num, DomainEventCallbackMetadataChangeMsg>>})

\* The other events libvirtd has.
OtherEvents == Table({
    <<DomainEventLifecycle.num, DomainEventLifecycleMsg>>,
    <<DomainEventReboot.num, DomainEventRebootMsg>>,
    <<DomainEventRtcChange.num, DomainEventRtcChangeMsg>>,
    <<DomainEventWatchdog.num, DomainEventWatchdogMsg>>,
    <<DomainEventIOError.num, DomainEventIOErrorMsg>>,
    <<DomainEventIOErrorReason.num, DomainEventIOErrorReasonMsg>>,
    <<DomainEventGraphics.num, DomainEventGraphicsMsg>>,
    <<DomainEventBlockJob.num, DomainEventBlockJobMsg>>,
    <<DomainEventDiskChange.num, DomainEventDiskChangeMsg>>,
    <<DomainEventTrayChange.num, DomainEventTrayChangeMsg>>,
    <<DomainEventPmwakeup.num, DomainEventPmwakeupMsg>>,
    <<DomainEventPmsuspend.num, DomainEventPmsuspendMsg>>,
    <<DomainEventBalloonChange.num, DomainEventBalloonChangeMsg>>,
    <<DomainEventPmsuspendDisk.num, DomainEventPmsuspendDiskMsg>>,
    <<DomainEventControlError.num, DomainEventControlErrorMsg>>,
    <<DomainEventDeviceRemoved.num, DomainEventDeviceRemovedMsg>>,
    <<DomainEventBlockJob2.num, DomainEventBlockJob2Msg>>,
    <<DomainEventBlockThreshold.num, DomainEventBlockThresholdMsg>>,
    <<ConnectEventConnectionClosed.num, ConnectEventConnectionClosedMsg>>,
    <<NetworkEventLifecycle.num, NetworkEventLifecycleMsg>>,
    <<NetworkEventCallbackMetadataChange.num, NetworkEventCallbackMetadataChangeMsg>>,
    <<StoragePoolEventLifecycle.num, StoragePoolEventLifecycleMsg>>,
    <<StoragePoolEventRefresh.num, StoragePoolEventRefreshMsg>>,
    <<NodeDeviceEventLifecycle.num, NodeDeviceEventLifecycleMsg>>,
    <<NodeDeviceEventUpdate.num, NodeDeviceEventUpdateMsg>>,
    <<DomainEventMemoryFailure.num, DomainEventMemoryFailureMsg>>,
    <<SecretEventLifecycle.num, SecretEventLifecycleMsg>>,
    <<SecretEventValueChanged.num, SecretEventValueChangedMsg>>,
    <<DomainEventMemoryDeviceSizeChange.num, DomainEventMemoryDeviceSizeChangeMsg>>,
    <<DomainEventNicMacChange.num, DomainEventNicMacChangeMsg>>})

EventMessages ==
    [num \in DOMAIN CallbackEvents \cup DOMAIN OtherEvents |->
        IF num \in DOMAIN CallbackEvents THEN CallbackEvents[num] ELSE OtherEvents[num]]

\* libvirt.DomainEvent, which QEMU events are decoded as.
DomainEvent == Struct(<<Int32, Domain, String, Uint64, Uint32, Uint8, Opaque>>)

(***************************************************************************)
(* libvirtd.  One of another version may not serve a procedure, and end a  *)
(* reply or an event too early, or add to it.                              *)
(***************************************************************************)
Served == request.program = "qemu" \/ request.procedure \notin DOMAIN EventMessages

Cut(payload) ==
    {SubSeq(payload, 1, n) :
        n \in {0, 1, Len(payload) \div 2, Len(payload) - 4, Len(payload) - 1} \cap 0..Len(payload)}
Forms(payload) == {payload, payload \o Word(1)} \cup Cut(payload)

Transmit(status, payload) ==
    packet' = [program |-> request.program, procedure |-> request.procedure,
               serial |-> 1, status |-> status, payload |-> payload]

\* The results of a call; a stream follows if the procedure has one.
Reply ==
    /\ owed = "reply"
    /\ Served
    /\ LET p == Procedure(request.program, request.procedure)
           results == Trial(p.rets, request.seed)
           whole == OnWire(p.rets, results)
       IN  \E payload \in IF p.in \/ p.out THEN {whole} ELSE Forms(whole) :
               /\ Transmit("ok", payload)
               /\ answer' = [k |-> "results", v |-> results,
                             whole |-> Len(payload) >= Len(whole)]
               /\ owed' = IF p.in \/ p.out THEN "stream" ELSE "none"
    /\ UNCHANGED <<call, phase, request, result, pushed>>

\* Data of a stream (a bound: one packet of it).
Data == <<1, 0, 3>>
SendData ==
    /\ owed = "stream" /\ packet = Nothing
    /\ Procedure(request.program, request.procedure).in
    /\ Transmit("continue", Data)
    /\ owed' = "end"
    /\ UNCHANGED <<call, phase, request, answer, result, pushed>>

\* The end of a download is an empty packet that libvirtd sends as one of data; that
\* of an upload is its confirmation.
EndStream ==
    /\ owed \in {"stream", "end"} /\ packet = Nothing
    /\ \E status \in {"ok", "continue"} :
           /\ status = "continue" => Procedure(request.program, request.procedure).in
           /\ Transmit(status, <<>>)
    /\ owed' = "none"
    /\ UNCHANGED <<call, phase, request, answer, result, pushed>>

ErrOk == 0
UnknownProcedure == <<3, 2, 1>>    \* "unknown procedure"
OtherMessage == <<1, 3, 2, 2>>
Messages == {OtherMessage, <<1>> \o UnknownProcedure \o <<2>>}
Codes == {ErrOk, 7}

\* An error is whole, or ends before its message does.
WholeError(code, message, seed) ==
    OnWire(RemoteError.types,
           <<code, 1, <<message>> >> \o Trial(SubSeq(RemoteError.types, 4, 11), seed))
ErrorForms(whole) == {whole} \cup Cut(SubSeq(whole, 1, 20))

\* An error ends the call or its stream.
ReplyError(code, message) ==
    /\ owed # "none" /\ packet = Nothing
    /\ ~Served => message # OtherMessage
    /\ code = ErrOk =>
           /\ message = OtherMessage
           /\ ErrOkAnywhere \/ (owed = "reply" /\ fn.rets = <<>> /\ ~fn.in /\ ~fn.out)
    /\ LET whole == WholeError(code, message, request.seed)
       IN  \E payload \in ErrorForms(whole) :
               /\ Transmit("error", payload)
               /\ answer' = [k |-> "error", code |-> code, message |-> message,
                             whole |-> payload = whole]
    /\ owed' = "none"
    /\ UNCHANGED <<call, phase, request, result, pushed>>

\* The values of an event for a callback id, and of one of QEMU.
EventValues(types, seed, id) ==
    IF types[1].k = "num" THEN [Trial(types, seed) EXCEPT ![1] = id] ELSE Trial(types, seed)
QEMUEventValues(seed, id) ==
    [Trial(QEMUDomainMonitorEventMsg.types, seed) EXCEPT ![1] = id, ![4] = seed]

CallbackIds == Streams \cup {2}
RemoteEvent(num, seed, id) ==
    LET types == EventMessages[num].types
    IN  [program |-> "remote", procedure |-> num, types |-> types,
         v |-> EventValues(types, seed, id)]
QEMUEvent(seed, id) ==
    [program |-> "qemu", procedure |-> QEMUDomainMonitorEvent.num,
     types |-> QEMUDomainMonitorEventMsg.types, v |-> QEMUEventValues(seed, id)]

SendEvent(e) ==
    LET whole == OnWire(e.types, e.v)
    IN  \E payload \in Forms(whole) :
            /\ packet' = [program |-> e.program, procedure |-> e.procedure, serial |-> 0,
                          status |-> "ok", payload |-> payload]
            /\ answer' = [k |-> "event", event |-> e, whole |-> Len(payload) >= Len(whole)]

Emit(seed) ==
    /\ phase = "idle" /\ answer = Nothing
    /\ \E id \in CallbackIds :
           \/ \E num \in DOMAIN EventMessages : SendEvent(RemoteEvent(num, seed, id))
           \/ SendEvent(QEMUEvent(seed, id))
    /\ UNCHANGED <<call, phase, request, owed, result, pushed>>

(***************************************************************************)
(* Route: program and procedure alone tell an event from a reply.          *)
(***************************************************************************)
IsEvent(h) ==
    \/ h.program = "qemu" /\ h.procedure = QEMUDomainMonitorEvent.num
    \/ h.program = "remote" /\ h.procedure \in DOMAIN eventFromProcedureID

EventType(h) == IF h.program = "qemu" THEN DomainEvent ELSE eventFromProcedureID[h.procedure]

Event(e) == IF e.ok /\ e.v[1] \in Streams THEN [k |-> "event", v |-> e.v] ELSE Nothing

\* An event that is malformed or has no stream is dropped.  eventDecoder has no
\* decoder for typed parameters.
RouteEvent ==
    /\ packet # Nothing
    /\ IsEvent(packet)
    /\ pushed' = Event(Decoding(EventType(packet).types, packet.payload, FALSE))
    /\ packet' = Nothing
    /\ UNCHANGED <<call, phase, request, owed, answer, result>>

\* A packet with the serial of the call goes to its caller, any other nowhere.
ToCaller == packet # Nothing /\ ~IsEvent(packet) /\ packet.serial = 1
Drop ==
    /\ packet # Nothing /\ ~IsEvent(packet) /\ packet.serial # 1
    /\ packet' = Nothing
    /\ UNCHANGED <<call, phase, request, owed, answer, result, pushed>>

(***************************************************************************)
(* requestStream, processIncomingStream, getResponse, and the decoding of  *)
(* what they return.                                                       *)
(***************************************************************************)
IsStream == fn.out \/ fn.in
Mentions(s, sub) == \E i \in DOMAIN s : IsPrefix(sub, From(s, i - 1))

ErrorFields == <<Uint32, Uint32, Uint8, String, Uint32>>

\* ERR_OK is looked for first.
ErrorOf_OkFirst(e) ==
    IF ~e.ok THEN [k |-> "decoding"]
    ELSE IF e.v[1] # ErrOk THEN [k |-> "libvirt", code |-> e.v[1], message |-> e.v[4]]
    ELSE IF Mentions(e.v[4], UnknownProcedure) THEN [k |-> "ErrUnsupported"]
    ELSE Nothing

\* ERR_OK is no error.
ErrorOf(e) ==
    IF ~e.ok THEN [k |-> "decoding"]
    ELSE IF Mentions(e.v[4], UnknownProcedure) THEN [k |-> "ErrUnsupported"]
    ELSE IF e.v[1] = ErrOk THEN Nothing
    ELSE [k |-> "libvirt", code |-> e.v[1], message |-> e.v[4]]
decodeError(payload) == ErrorOf(Decoding(ErrorFields, payload, FALSE))

\* The results are decoded from the last response.
Return_Unchecked(d) ==
    /\ phase' = "returned"
    /\ result' = IF d.ok THEN [k |-> "results", v |-> d.v] ELSE [k |-> "decoding"]
Return(d) ==
    /\ phase' = IF d.ok THEN "returned" ELSE "failed"
    /\ result' = IF d.ok THEN [k |-> "results", v |-> d.v] ELSE [k |-> "decoding"]

\* The end of a stream is StatusOK or an empty packet.
EndOfStream_OkOnly == packet.status = "ok"
EndOfStream == packet.status = "ok" \/ packet.payload = <<>>

\* err: what getResponse makes of the response.
Respond(err) ==
    IF err # Nothing THEN phase' = "failed" /\ result' = err
    ELSE IF phase = "called" /\ IsStream THEN phase' = "copying" /\ UNCHANGED result
    ELSE IF phase = "copying" /\ ~EndOfStream THEN UNCHANGED <<phase, result>>
    ELSE Return(Decoding(fn.rets, packet.payload, TRUE))

Receive ==
    /\ ToCaller
    /\ packet' = Nothing
    /\ Respond(IF packet.status = "error" THEN decodeError(packet.payload) ELSE Nothing)
    /\ UNCHANGED <<call, request, owed, answer, pushed>>

Server ==
    \/ (packet = Nothing /\ Reply) \/ SendData \/ EndStream
    \/ \E code \in Codes, message \in Messages : ReplyError(code, message)

Next ==
    \/ \E i \in Called, seed \in Seeds : Call(i, seed)
    \/ \E seed \in Seeds : Emit(seed)
    \/ Server
    \/ RouteEvent \/ Drop \/ Receive

Spec == Init /\ [][Next]_vars

(***************************************************************************)
(* What the client needs of the codec, for the messages of a call and for  *)
(* events.                                                                 *)
(***************************************************************************)
\* Arguments are written as libvirtd reads them.
ArgumentsWritten(types, args) ==
    /\ Encoding(types, args) \in Seq(Octet)
    /\ Encoding(types, args) = OnWire(types, args)

\* Functions whose results are misread: DomainDiskError has a hidden field.
Misread == {DomainGetDiskErrors.num}

\* Results are what they were if they are whole, whatever follows them, and none if they
\* end too early.
ResultsRead(rets, seed) ==
    LET results == Trial(rets, seed)
        whole == OnWire(rets, results)
    IN  /\ whole \in Seq(Octet)
        /\ \A payload \in Forms(whole) :
               LET d == Decoding(rets, payload, TRUE)
               IN  IF Len(payload) >= Len(whole) THEN d.ok /\ d.v = results ELSE ~d.ok

\* The same of the code and the message of an error.
ErrorRead(code, message, seed) ==
    LET whole == WholeError(code, message, seed)
    IN  \A payload \in ErrorForms(whole) :
            LET d == Decoding(ErrorFields, payload, FALSE)
            IN  IF payload = whole THEN d.ok /\ d.v[1] = code /\ d.v[4] = message ELSE ~d.ok

\* No results are on the wire as nothing, and found in anything.
NothingRead(seed) ==
    /\ OnWire(<<>>, Trial(<<>>, seed)) = <<>>
    /\ \A message \in Messages :
           \A payload \in ErrorForms(WholeError(ErrOk, message, seed)) :
               Decoding(<<>>, payload, TRUE).ok

CallRead(i, seed) ==
    /\ ArgumentsWritten(ClientFunctions[i].args, Trial(ClientFunctions[i].args, seed))
    /\ i \notin Misread => ResultsRead(ClientFunctions[i].rets, seed)
    /\ \A code \in Codes, message \in Messages : ErrorRead(code, message, seed)
    /\ NothingRead(seed)

\* Events that never reach a subscriber: those without a callback id, those with typed
\* parameters, and those of QEMU without details.
Unheard(e) ==
    \/ e.program = "remote" /\ e.procedure \in DOMAIN OtherEvents
    \/ \E i \in DOMAIN e.types : e.types[i] = Slice(TypedParam) /\ e.v[i] # <<>>
    \/ e.program = "qemu" /\ e.v[6] = <<>>

\* What a subscriber gets of an event.
Same(e, v) ==
    IF e.program = "qemu" THEN (\A i \in 1..5 : v[i] = e.v[i]) /\ v[7] = e.v[6][1] ELSE v = e.v

\* An event is what it was if it is whole, and none if it ends too early.
EventRead(e) ==
    LET whole == OnWire(e.types, e.v)
    IN  IsEvent(e) =>
            \A payload \in Forms(whole) :
                LET d == Decoding(EventType(e).types, payload, FALSE)
                IN  /\ d.ok => Len(payload) >= Len(whole) /\ Same(e, d.v)
                    /\ Len(payload) >= Len(whole) /\ ~Unheard(e) => d.ok

EventsRead(seed) ==
    \A id \in CallbackIds :
        /\ \A num \in DOMAIN EventMessages : EventRead(RemoteEvent(num, seed, id))
        /\ EventRead(QEMUEvent(seed, id))

(***************************************************************************)
(* Properties.                                                             *)
(***************************************************************************)
\* The codec reads what libvirtd writes, whatever the call: results if there are enough
\* of them, no more and no less, an error if it is whole, and whatever event may come;
\* and libvirtd what the call sends.
CodecContract ==
    /\ owed = "reply" => CallRead(call, request.seed)
    /\ phase = "idle" /\ answer = Nothing => \A seed \in Seeds : EventsRead(seed)

\* Functions whose results are those of a stream's last packet, which is empty.
ResultsLost == {i \in DOMAIN ClientFunctions :
                   LET f == ClientFunctions[i] IN (f.in \/ f.out) /\ f.rets # <<>>}
\* Functions of the numbers of events: a reply to one would be taken for an event.
Swallowed == {i \in DOMAIN ClientFunctions :
                 LET f == ClientFunctions[i]
                 IN  \/ f.program = "remote" /\ f.num \in DOMAIN CallbackEvents
                     \/ f.program = "qemu" /\ f.num = QEMUDomainMonitorEvent.num}

\* What a function encodes are octets, and what libvirtd reads as the procedure of that
\* number.
ArgumentsOnWire ==
    request # Nothing =>
        /\ request.payload \in Seq(Octet)
        /\ request.payload =
               OnWire(Procedure(request.program, request.procedure).args, request.args)

\* What a function returns is what libvirtd answered, result by result: a reply is
\* never misread, however much of it there is.
ResultsUnderstood ==
    phase = "returned" /\ answer.k = "results" => result.v = answer.v

\* The same of every function but DomainGetDiskErrors.
ReplyUnderstood == call \notin Misread => ResultsUnderstood

\* A reply that ends too early is an error, wherever it ends, and a whole one, or a
\* longer one, never is.
OnlyShortFails ==
    phase \in Ended /\ answer.k = "results" /\ call \notin Misread \cup ResultsLost =>
        (phase = "failed" <=> ~answer.whole)

\* An error of libvirtd is returned, with its code and message, from wherever in the
\* call or its stream it comes; one of an unknown procedure as ErrUnsupported; ERR_OK
\* is success.
ErrorReported ==
    phase \in Ended /\ answer.k = "error" =>
        /\ answer.code # ErrOk => phase = "failed"
        /\ answer.whole =>
              IF Mentions(answer.message, UnknownProcedure) THEN result.k = "ErrUnsupported"
              ELSE IF answer.code = ErrOk THEN phase = "returned"
              ELSE result = [k |-> "libvirt", code |-> answer.code, message |-> answer.message]

\* Whatever ends a call at libvirtd reaches the caller: no reply, error or end of a
\* stream is dropped, or taken for an event or for data.
AnswersReachCaller ==
    phase \in {"called", "copying"} /\ call \notin Swallowed =>
        owed # "none" \/ packet # Nothing

\* An event that is pushed is the one libvirtd sent, with nothing missing; every other
\* event that is whole, and has a stream, is pushed.
EventsUnderstood ==
    answer.k = "event" =>
        /\ pushed # Nothing => answer.whole /\ Same(answer.event, pushed.v)
        /\ packet = Nothing /\ answer.whole /\ ~Unheard(answer.event)
           /\ answer.event.v[1] \in Streams => pushed # Nothing

(***************************************************************************)
(* The inductive invariant: how far a call is.                             *)
(***************************************************************************)
\* Nothing is owed, and no packet has the serial of a call, before there is one, and no
\* event comes after it.
Serials ==
    /\ call = 0 => owed = "none" /\ (packet # Nothing => packet.serial = 0)
    /\ call # 0 => answer.k # "event"
TypesInv == TypeOK /\ Serials

\* Before a call, and before an event; with an event on its way; and with one that has been
\* pushed or dropped.
Quiet == answer = Nothing /\ packet = Nothing /\ pushed = Nothing
Announced ==
    /\ answer.k = "event" /\ pushed = Nothing /\ packet # Nothing /\ packet.serial = 0
    /\ packet.program = answer.event.program /\ packet.procedure = answer.event.procedure
    /\ LET whole == OnWire(answer.event.types, answer.event.v)
       IN  /\ packet.payload \in Forms(whole)
           /\ answer.whole <=> Len(packet.payload) >= Len(whole)
Delivered == answer.k = "event" /\ packet = Nothing /\ EventsUnderstood

Idle ==
    /\ call = 0 /\ phase = "idle" /\ owed = "none" /\ request = Nothing
    /\ Quiet \/ Announced \/ Delivered

\* A call has sent the number of its procedure, and its arguments.
Asked ==
    /\ call \in Called
    /\ request.program = fn.program /\ request.procedure = fn.num
    /\ request.args = Trial(fn.args, request.seed)
    /\ request.payload = Encoding(fn.args, request.args)

\* The packet the listener reads is one for the call.
Own(status) ==
    /\ packet # Nothing
    /\ packet.program = request.program /\ packet.procedure = request.procedure
    /\ packet.serial = 1 /\ packet.status = status

\* libvirtd has answered with results, whole ones before a stream.
Results == Trial(fn.rets, request.seed)
Answered ==
    /\ answer.k = "results" /\ answer.v = Results
    /\ IsStream /\ call \notin Misread => answer.whole

Awaiting == phase = "called" /\ owed = "reply" /\ packet = Nothing
Replied ==
    /\ phase = "called" /\ Own("ok") /\ Answered
    /\ IF IsStream THEN owed = "stream"
       ELSE /\ owed = "none"
            /\ packet.payload \in Forms(OnWire(fn.rets, Results))
            /\ answer.whole <=> Len(packet.payload) >= Len(OnWire(fn.rets, Results))

\* Between two packets of a stream, with one of its data, and with its last.
Copying ==
    phase = "copying" /\ owed \in {"stream", "end"} /\ IsStream /\ Answered /\ packet = Nothing
Carrying ==
    /\ phase = "copying" /\ owed = "end" /\ IsStream /\ Answered
    /\ Own("continue") /\ packet.payload = Data
Closing ==
    /\ phase = "copying" /\ owed = "none" /\ IsStream /\ Answered
    /\ Own("ok") \/ Own("continue")
    /\ packet.payload = <<>>

\* An error is on its way, which ends the call: ERR_OK stands for an empty reply.
Refused ==
    /\ phase \in {"called", "copying"} /\ owed = "none" /\ Own("error")
    /\ answer.k = "error" /\ answer.code \in Codes /\ answer.message \in Messages
    /\ LET whole == WholeError(answer.code, answer.message, request.seed)
       IN  /\ packet.payload \in ErrorForms(whole)
           /\ answer.whole <=> packet.payload = whole
    /\ answer.code = ErrOk =>
           ErrOkAnywhere \/ (phase = "called" /\ fn.rets = <<>> /\ ~IsStream)

\* ERR_OK in a stream was taken for its data.
Stranded ==
    /\ ErrOkAnywhere
    /\ phase = "copying" /\ owed = "none" /\ packet = Nothing /\ answer.k = "error"

Done ==
    /\ phase \in Ended /\ owed = "none" /\ packet = Nothing
    /\ ReplyUnderstood /\ OnlyShortFails
    /\ ErrOkAnywhere \/ ErrorReported

InFlight ==
    \/ Awaiting \/ Replied \/ Refused \/ Stranded
    \/ Copying \/ Carrying \/ Closing
    \/ Done

\* A call of the number of an event waits for ever.
Lost == phase = "called" /\ (packet # Nothing => Own(packet.status))

ClientInv == Idle \/ (Asked /\ IF call \in Swallowed THEN Lost ELSE InFlight)

\* The inductive invariant: the variables have their types, the codec reads what libvirtd
\* writes, and what the client waits for, what libvirtd owes, what it has answered and
\* the packet on its way fit together.
Inv == TypesInv /\ CodecContract /\ ClientInv
=============================================================================
