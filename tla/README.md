# go-libvirt: specification and proofs

A TLA+ model of go-libvirt: the RPC core (`rpc.go`), the socket
(`socket/socket.go`), connecting and subscribing (`libvirt.go`), event streams
(`internal/event/stream.go`), the XDR codec (`internal/go-xdr/xdr2`), the
generated client (`remote_protocol.gen.go`, `qemu_protocol.gen.go`), and the way
from a URI to an authenticated connection (`connect_uri.go`, `socket/dialers`).
TLC checks it on small instances; TLAPS proves its main safety properties for
every value of the constants.

## The system

A `Libvirt` object speaks libvirt's RPC protocol over one connection at a time.

| part | state it keeps | operations | modelled in |
|---|---|---|---|
| RPC calls and streams (`rpc.go`) | serial counter `s`, table `callbacks` of response channels under `cmux` | `request`, `requestStream`, `processIncomingStream`, `getResponse`, `register`, `callback`, `deregister`, `deregisterAll` | `Rpc`, `RpcContract` |
| Generated client, errors and events (`remote_protocol.gen.go`, `qemu_protocol.gen.go`, `rpc.go`) | none | 461 functions: encode, request, decode; `Route`, `decodeError`, `eventDecoder` | `ProtocolTypes`, `Remote...`, `Protocol`, `Client` |
| Socket (`socket/socket.go`) | `conn`, reader and writer under `mu`, channel `disconnected` | `Connect`, `Disconnect`, `SendPacket`, `SendStream`, `listen` | `Framing`, `PacketPipe`; with callers in `Rpc`, with owners in `Lifecycle` |
| Event streams (`internal/event/stream.go`) | `queue`, channels `in`, `out`, `qlen`, a context | `Push`, `Recv`, `Len`, `Shutdown`, the goroutine `process()` | `EventStream`, `EventQueue` |
| Connection lifecycle (`libvirt.go`) | channel `disconnected` | `ConnectToURI`, `Disconnect`, `Disconnected`, the goroutine of `waitAndDisconnect` | `Lifecycle` |
| Subscriptions (`libvirt.go`, `rpc.go`) | table `events` of streams under `emux` | `SubscribeEvents`, `LifecycleEvents`, `SubscribeQEMUEvents`, `addStream`, `stream`, `removeStream`, `removeAllStreams` | `Subscription` |
| XDR codec (`internal/go-xdr/xdr2`), typed parameters (`rpc.go`) | the reader a reply is decoded from | `Encode`, `Decode`, `typedParamDecoder` | `Xdr`, `XdrLeaves`, `XdrLayout` |
| URIs and dialers (`connect_uri.go`, `socket/dialers`) | the file `known_hosts` | `dialerForURI`, `Dial` | `Dialers` |

How the parts interact: every call runs in its caller's goroutine. It takes a
serial, puts a channel in `callbacks`, writes a packet through the socket and
receives on the channel. One listener goroutine per connection reads packets
and routes each: an event is pushed into the stream its callback id names
(`emux` read-held), anything else is sent into the channel its serial names
(`cmux` held, the channel unbuffered). When the listener stops it closes
`Socket.disconnected`; the goroutine of `waitAndDisconnect` then shuts all
streams down, closes all response channels and closes `Libvirt.disconnected`.

What is hard about it: the listener blocks in `callback()` with a lock held that
its receiver may need; calls race with the loss of the connection; a console
ends in one direction before the other; the clean-up of a connection works on
tables and channels that the next connection shares; streams are shut down while
the listener pushes into them; callers share a buffered writer that keeps its
error and its rest of a packet; a reply is decoded field by field with no
framing to catch a wrong width; events are told from replies by a procedure
number. `PROJECT.json` lists these under "hazards", each with its line and the
properties about it.

## The modules

Operators named `<operator>_<fault>` are faulty variants: put in the place of
the operator, each one breaks the property `PROJECT.json` names with it.

**`Rpc`** has one connection and any number of calls, each of one of four kinds:
plain (`request`), download (`in`), upload (`out`), console (both). A caller's
`pc` is its place in `requestStream`: `Start` (serial), `Register`,
`CheckConnected` and `WriteCall` (the two halves of `SendPacket`),
`ReceiveReply`, `ReceiveStream` and `WriteSink` (`processIncomingStream`),
`AwaitSender` and `Settle` (the ways a stream with a sender ends), `Interrupted`
(a closed channel) and `Deregister` (the deferred function). `spc` is the place
of the sender goroutine in `SendStream`; `abort` and `outErr` are its two
channels of capacity 1. The listener is at `read`, `route`, `deliver` (in `c <-
res`, with `cmux` held) or `stopped`. The rendezvous on the unbuffered channel is
one step of both sides (`Handed`).

libvirtd is the environment: `srv` is its side of each call, `told` what it has
been told of the client's half of a stream. A packet is chosen when the listener
reads it, so there is no variable for the wire: libvirtd answers one call in
order, what it may send only grows with what it has been told, and packets of
different calls may be sent in any order, so every order a FIFO connection can
deliver is an order of such reads. Three constants say what libvirtd and the
caller's `io.Writer` may do: `SinkMayFail`, `AnswersAfterEof` (libvirtd confirms
the end of the client's half of a console after it has sent its own EOF) and
`SendsErrOk`.

**`RpcContract`** is what `requestStream` promises: a call succeeds only on an
answer of its own, fails only on one or because the connection is gone, is
interrupted only when the connection is gone, and returns once. `Rpc!Implements`
is the refinement.

**`EventStream`** is one stream: pushers, `process()`, one client, callers of
`Len`, and `Shutdown`. **`EventQueue`** is the unbounded FIFO channel it
implements; the histories `accepted` and `received` are the refinement mapping.

**`Lifecycle`** has the connections one `Libvirt` dials in turn, the owner who
calls `ConnectToURI` and `Disconnect`, an application that subscribes, the
listener and the `waitAndDisconnect` of each connection. What it is about is
when each goroutine evaluates `l.socket.Disconnected()` and `l.disconnected`:
`on` and `disconnected` are those values. Requests are single steps here, and
the waits of `Disconnect` may always time out. A behaviour follows one of three
scenarios: "patient", an owner that reconnects only after `Disconnected()` is
closed, on connections that live through their handshake; "refused", where
libvirtd may refuse the handshake; "any", where in addition the owner may be
`Eager` and the connection be lost before `ConnectToURI` returns (`EarlyLoss`).
What holds in which of them: a clean-up spares the next connection only in
"patient" (`CleanupTakesOnlyTheLost`); a loss is signalled in "patient" and "refused"
(`LossSignalled`); and in all three a clean-up does harm only when it is left over
from an earlier connection (`OnlyLeftoversDoHarm`), listeners do not overlap
(`OneListener`), and a loss leaves no owner hanging (`LossReleasesOwner`).

**`Subscription`** composes the above at the level of their contracts: a stream is the
queue `EventQueue` describes, a request is answered or fails as `RpcContract` allows.
It has the relaying goroutine of each subscription with its deferred calls in the
order of the code (`SubscribeQEMUEvents` shuts the stream down last, the other two
first), the table of streams, and the callback ids of libvirtd, which may refuse to
deregister one (`kept`: the relay ignores the error and goes on, as the comment at
`libvirt.go:478` says). A libvirtd that has been restarted counts from the start
(`ReusesIds`).

**`Framing`** is the socket between packets and octets. `Connect` makes a new reader
and writer; `SendPacket` is `Check` (of `disconnected`, before the mutex), `Lock`,
`Write` for each part (with the rules of `bufio.Writer`: a part that fits waits in the
buffer, one that does not goes out with it, an error sticks) and `Flush`; the
connection may break after any prefix of what is written. `listen()` reads a length, a
header and a payload; octets arrive one cell at a time and the end may come between
any two. A length is two cells, so that it may arrive in part; a header is one. A cell
is a pair, its packet and its place in it; how far libvirtd has sent, and the listener
read, is a packet and how many of its cells have passed. **`PacketPipe`** is what this
promises: packets reach libvirtd whole or not at all, `SendPacket` tells which, and
packets are routed in order. To reach libvirtd means here that the connection took
every cell: whether libvirtd then reads them, the client cannot know. The refinement
mapping parses the cells the way libvirtd would (`InStep`, `Whole`): the packets whose
last cell was taken have arrived, and a connection whose cells are out of step maps to
no state of `PacketPipe`. `MCFraming` gives the packets of the run.

The codec is three modules of operators. **`XdrLayout`** has the sizes: padding and
the length checks, in `int32`. **`XdrLeaves`** has the types, and how those without
parts are encoded and decoded: numbers and opaque data, from a reader that may hold
too little. **`Xdr`** has the rest: `Encode` and `Decode` follow `encode()` and
`decode()` by the kind of the type, with the decoder of typed parameters; `Wire`
is the reference, the form RFC 4506 gives a value, and `Value` enumerates the
values of a type by a seed: numbers at the limits of their type, opaque data of
every length modulo a word, lists of every length up to their bound, typed
parameters of every discriminant. An octet has `Base` values, 4 in the runs, so that an
`int32` is -128..127 and the values of numbers reach its limits. Lengths do not: data
have at most 5 octets and lists 2 elements, and lengths near the limit of an `int32` are
the subject of `XdrProofs` alone. The client decodes into
fresh variables only, so `decodeArray` always makes a new slice in the model.

**`ProtocolTypes`** has the structs of the protocol and the messages of its
events, **`Remote1To150`**, **`Remote151To300`** and **`Remote301To453`** every
generated function with its procedure number, the types of its arguments and of
its results, and whether it has a stream in either direction, each translated
from the function's own lines. **`Protocol`** adds the functions of QEMU and the
table of procedures by number from `internal/constants`, which stands for
libvirtd: a function with the number of another procedure is found out by it.

**`Client`** composes these. One call, or one event, is on its way at a time. The
function encodes its arguments; libvirtd finds the procedure by its number, answers
with results, with a stream, or with an error, and may end a reply, an error or an
event too early or add to it; `Route` tells events from replies; `Respond` is
`requestStream` with `processIncomingStream`, `getResponse` and `decodeError`; the
results are decoded from the last response. What libvirtd has of the tables is in the
assumption `TablesAgree`: a function sends the number of a procedure with its
arguments, its results and its stream; TLC evaluates it for all functions. The events
libvirtd sends for a callback id are a table of their own, by the numbers of the
protocol (`CallbackEvents`); `Route`'s (`eventFromProcedureID`) is checked against it,
so that an entry `Route` lacks breaks a property and exempts nothing. The codec is a
parameter here (`Trial`, `Encoding`, `Decoding`, `OnWire`), and `CodecContract` is
what the client needs of it: arguments are written as libvirtd reads them, and
results, errors and events are read as they were written, whatever follows them, and
not at all if they are cut off. `MCClient` puts `Xdr` in its place, and names the set
of all functions.

**`Dialers`** goes from a URI to a connection: `DialerForURI` chooses a dialer and its
options, or refuses; then a TLS dialer looks for certificates and verifies, or an ssh
dialer checks the host key against `known_hosts`, adds to it, and offers credentials
in its order (`SignersInOrder`; they are places in the list of the URI, so that one
named twice is offered twice). The machines (which certificates there are, who signed
the server's, which credentials are held and accepted) are chosen at the start; the
server's host key may change between two dials.

## The runs

| run | instance | checks |
|---|---|---|
| `Rpc_calls` | any two calls of the four kinds, everything allowed | `RegisteredOpen`, `Correlated`, `NoOrphanWait`, `Inv`, `Implements` |
| `Rpc_console` | plain call and console, writer accepts, server keeps to the protocol | `ListenerNeverWedged`, `LossReleasesCallers`, `EndedCallsReturn`, `StdinEofEndsConsole`, no deadlock |
| `Rpc_transfers` | download and upload, server answers | `CallsReturn`, no deadlock |
| `EventStream_queue` | 2 pushers of 2 events, client, a caller of `Len` | `Inv` (types, `PushBegun`, `Fifo`), `Implements`, `NobodyWaitsForClient`, no deadlock |
| `Lifecycle_owners` | 4 connections in "patient", 2 in "refused" and in "any" | `TypeOK`, `OneListener`, `OnlyLeftoversDoHarm`, `LossReleasesUsers`; but for "any" `LossSignalled`; in "patient" `CleanupTakesOnlyTheLost` |
| `Subscription_fresh` | 2 subscriptions of 3 events, 2 connections, ids never reused | `TypeOK`, `GaplessEvents`, `NothingLeftBehind`, `StreamsUntilCancelled` |
| `Subscription_ends` | 2 subscriptions, 1 connection, not lost before `addStream` | `SubscriptionsEnd`, `ListenerReads` |
| `Client_messages` | every function and every event, 7 seeds of values | `Inv` (types, `CodecContract`, `ClientInv`), `ArgumentsOnWire`, `ReplyUnderstood`, `OnlyShortFails`, `ErrorReported`, `AnswersReachCaller`, `EventsUnderstood` |
| `Framing_socket` | a packet that fits the writer's buffer and one that does not, 2 connections, 2 packets in | `TypeOK`, `Implements`, `SendersReturn`, `ListenerEnds` |
| `Dialers_dials` | every URI and machine of the model, 3 dials, 2 host keys | `TypeOK`, `ServerVerified`, `KeyPinned`, `PriorityOrder` |
| `Rpc_sink_failure` | download whose writer fails | `LossReleasesCallers` is violated |
| `Client_disk_errors` | `DomainGetDiskErrors` | `ResultsUnderstood` is violated |

What the violations show:

- `Rpc_sink_failure`: a caller whose `io.Writer` has failed wants `cmux` to
  deregister, the listener holds `cmux` and sends to it: both wait for ever, and
  every other call with them.
- `Client_disk_errors`: the field `error` of `remote_domain_disk_error` became the
  unexported `remote_error`, which the codec skips although it is on the wire:
  `DomainGetDiskErrors` loses the codes and misreads what follows them.

More disagreements have no run of their own. These can be seen by changing
constants of a run, by dropping an exemption from a property, or, those of
`Lifecycle`, by giving its run the property named, with the scenario alone and
`MaxConns = MaxHasty = 2`:

- `ClosedMeansLost` fails in "refused": `ConnectToURI` returns the error of a refused
  handshake while the `waitAndDisconnect` it started is still cleaning up. When the
  owner has connected again, that goroutine reads the new `l.disconnected` and closes
  it (`libvirt.go:834`): `Disconnected()` reports the loss of a connection that lives,
  against the comment at `libvirt.go:348`;
- `NoDoubleClose` fails in "refused": the same goroutine, when it evaluates
  `l.socket.Disconnected()` only after the next `Connect`, waits for that connection
  as well. On its loss two goroutines pass the test of `l.disconnected` before either
  closes it, and the second close panics, which the test is there to avoid
  (`libvirt.go:827`). Both happen to an owner that does nothing but try again when
  `ConnectToURI` returns an error;
- `LossMonitored` fails in "any": a connection lost between the last reply of the
  handshake and `make(chan struct{})` (`libvirt.go:305`) is cleaned up before it has a
  channel; `ConnectToURI` returns nil and `Disconnected()` is never closed, against
  the comment at `libvirt.go:284`;
- with `AnswersAfterEof = TRUE`, `Rpc_console` deadlocks and violates
  `StdinEofEndsConsole`: a libvirtd that confirms the client's finish after its
  own empty packet finds the caller on its way to `deregister()`, and both block
  as in `Rpc_sink_failure`;
- without `Patient`, `CleanupTakesOnlyTheLost` fails: in the scenario "any" the
  clean-up of the old connection closes the channel of the new one, in "refused"
  it interrupts the requests of the next one;
- with `LossWhileAdding = TRUE`, `Subscription_ends` violates `SubscriptionsEnd`: a
  stream that is added after `removeAllStreams()` is never ended;
- with `ReusesIds = TRUE` and `DomainSubs = {k1, k2}`, `Subscription_fresh` violates
  `StreamsUntilCancelled`: a relay that is still blocked on its subscriber when the
  connection is lost unsubscribes after the reconnect, by its old id;
- with `ReusesIds = TRUE` as it stands it violates `GaplessEvents`: a subscriber that
  loses its connection between the reply and `addStream` adds its stream after the
  reconnect, by its old id, and gets the events of the subscription that now has it;
- with `TimeoutsInPackets = TRUE`, `Framing_socket` violates `Implements`: a
  temporary error in the middle of a length, header or payload drops what was read
  of it, and the listener takes what comes next for a length (`isTemporary`,
  `socket.go:217`; no connection the dialers make has read deadlines);
- with `Writable = FALSE`, `Dialers_dials` violates `KeyPinned`: `appendKnownHost`
  reports no error, and the next key of the server is taken for the first again;
- without `PasswordBetween`, `PriorityOrder` fails: agent and privkey share one
  callback, which stands where the first of them does, so a password between them
  comes too late (`gossh.go:106` has "in priority order");
- with `ErrOkAnywhere = TRUE`, `ErrorReported` and `AnswersReachCaller` fail: a
  `StatusError` that decodes to `ERR_OK` is decoded as results, or written to the
  caller's `io.Writer`, against the comment at `rpc.go:353`;
- `ResultsLost`: `DomainScreenshot` and `DomainMigratePrepareTunnel3` have results
  and a stream; `processIncomingStream` returns the stream's last response, which
  is empty, and the results of the first one are lost: they always fail
  (`rpc.go:333`, `remote_protocol.gen.go:10678`);
- `Swallowed`, the functions with the numbers of events: the generator made functions
  of the events as well. The reply to a call of one, libvirtd's "unknown procedure",
  has the event's number, `Route` takes it for an event, and the caller waits for
  ever. `README.md:33` says of extra functions that they "will return 'unimplemented'
  errors";
- `Unheard`: libvirtd's `OtherEvents`, for which `Route` has no case (`MemoryFailure`,
  `BlockThreshold`, `BlockJob2`, `MemoryDeviceSizeChange`, `NicMacChange` and those of
  networks, pools, devices and secrets), events with typed parameters (`Tunable`,
  `JobCompleted`: `eventDecoder` is not given the decoder `typedParamDecoder`), and
  QEMU events without details, never reach a subscriber, though `libvirt.go:437`
  speaks of "any of the event types supported by libvirt".

Some differences are visible in the code alone: `SubscribeEvents` does not use
its argument `dom` and subscribes to all domains; `NewTLS` uses `u.HomeDir` after
`user.Current` has failed; the ssh client is not closed when libvirtd's socket
cannot be dialed through it. `SendPacket` looks at `disconnected` before it takes
the mutex, so a packet that was meant for a lost connection may be written to the
next one: `PacketPipe!Deliver` allows that.

Two behaviours are stated in the models and break no property: `Len` blocks for
ever after `Shutdown` (`LenReturns` makes that exception), and an error without a
message is misread by `decodeError`, which takes the flag that there is none for
a field of its own (`ReplyError` has messages only).

### Bounds

- `MaxSerial` bounds the serials; in the code they are `int32` and wrap after
  2^32 calls, which the model does not reach. In `Rpc_calls` it is 2 with four
  calls of different kinds, so that every pair of kinds is met: calls interact
  only through `cmux`, the table and the listener, and every property speaks of
  one call or of one call and the listener. `Inv` is proved for any number.
- `MaxPushes`: two events of a pusher are needed to see one overtaken or lost;
  `MaxEvents`: three, to see a gap between the first and the last received.
- `MaxConns`, `MaxHasty` in `Lifecycle`: two connections are enough for a goroutine that
  is left over to meet the next one, and every hazard is one of such a meeting, as the
  disagreements of `Lifecycle` show; four connections of the patient owner show that nothing
  accumulates. `OnlyLeftoversDoHarm` is proved for any number.
- `MaxIds` is the number of subscriptions, each of which registers once.
- `Base`: at 4, numbers of 1, 4 and 8 octets occur up to their limits, and data of up
  to 5 octets: every length modulo a word, none near `MaxInt32`. `Seeds`: seven meet
  every discriminant of a typed parameter in the fields that have one, every edge of a
  number and every length modulo a word; the seed changes from field to field, so that
  a field decoded in the place of another shows. `Cut` ends a reply in its first
  octet, in the middle, and in the last word and octet.
- `Framing`: one packet that fits a buffer of two cells and one that takes three
  writes meet every case of `bufio.Writer`: an empty, a partly filled and a full
  buffer, an error with and without a rest. Two connections show what the first
  leaves to the second; two packets in, of one and two octets' payload, one taken
  for the other. `Plain` packets are the case of a header alone and are left out.
- `Dialers`: with three dials the server's key may change and change back.

Deadlock is checked in the runs that end in a state where every goroutine is
done. It is not in `Rpc_calls` and the violations, where the known wedge is
reachable, nor in `Lifecycle`, `Subscription`, `Client`, `Framing` and `Dialers`,
which stop when the bounded connections, subscriptions, events, packets and dials
are used up or the call has returned.

### Fairness

- Goroutines that can go on do: weak fairness on their steps. Nothing makes a
  caller call, a server answer, a source return from `Read` or a client receive,
  unless a property needs it and says so.
- Steps that lock `cmux`, `emux` or `Socket.mu` have strong fairness: a Go mutex
  hands itself to a waiter that starves.
- A select picks among ready cases at random, so a case that stays ready is not
  passed over for ever: strong fairness of `Push`, `Exit`, `TakeLen`, `Leave`.
- `StopListening` has strong fairness: once the connection is lost only the
  finitely many packets that had arrived can still be read. In `Framing` this is
  seen cell by cell: weak fairness of `ReadCell`, `EndPart` and `ReadEnds` is
  enough, and `ReadFails` may not go on for ever.
- `Write` and `Flush` of `Framing` have weak fairness: a connection takes what is
  written or breaks. A peer that neither reads nor goes away blocks a write, and
  with it all callers: the code sets no deadline.
- `ServerFairness` (in `CallsReturn`, and as the hypothesis of
  `StdinEofEndsConsole`): libvirtd sends the answers it owes.
- In `Subscription`, subscribers receive until their channel is closed, which is
  what the comment on `SubscribeEvents` asks of them.


## The proofs

TLAPS checks these for any sets of calls, pushers, subscriptions and keys and any
value of the bounds, from the assumptions on the constants that the modules name
and those in the last column.

| module | theorem | property | assumes |
|---|---|---|---|
| `RpcProofs` | `Invariance`, `TypeCorrect` | `Inv` | |
| | `NoPanic` | `RegisteredOpen` | |
| | `RepliesCorrelated` | `Correlated` | |
| | `NobodyOrphaned` | `NoOrphanWait` | |
| | `NeverWedged` | `ListenerNeverWedged` | `~SinkMayFail`, `~AnswersAfterEof`, `~SendsErrOk` |
| | `ContractKept` | `Implements` | |
| `EventStreamProofs` | `Invariance`, `Lossless` | `Inv` (its part `Fifo`) | |
| | `StreamIsQueue` | `Implements` | |
| `LifecycleProofs` | `TypeCorrect` | `TypeOK` | |
| | `ListenersDoNotOverlap` | `OneListener` | |
| | `HarmIsLeftOver` | `OnlyLeftoversDoHarm` | |
| | `CleanupIsOwn` | `CleanupTakesOnlyTheLost` | |
| `SubscriptionProofs` | `TypeCorrect` | `TypeOK` | |
| | `CleanEnds` | `NothingLeftBehind` | |
| | `NoGaps` | `GaplessEvents` | `~(ReusesIds /\ LossWhileAdding)` |
| | `StreamsLast` | `StreamsUntilCancelled` | `~ReusesIds` |
| `FramingProofs` | `TypeCorrect` | `TypeOK` | |
| | `SentExactlyIfTaken` | | |
| | `SocketIsPacketPipe` | `Implements` | `~TimeoutsInPackets` |
| `DialersProofs` | `TypeCorrect` | `TypeOK` | |
| | `CredentialsInOrder` | `PriorityOrder` | |
| | `ServersVerified` | `ServerVerified` | `Writable` |
| | `KeysPinned` | `KeyPinned` | `Writable` |
| `ClientProofs` | `TypeCorrect` | `Inv` (its part `TypeOK`) | |
| | `Invariance` | `Inv` | `[]CodecContract` |
| | `RepliesUnderstood` | `ReplyUnderstood` | `[]CodecContract` |
| | `ShortRepliesFail` | `OnlyShortFails` | `[]CodecContract` |
| | `ArgumentsArrive` | `ArgumentsOnWire` | `[]CodecContract` |
| | `EventsTold` | `EventsUnderstood` | `[]CodecContract` |
| | `AnswersArrive` | `AnswersReachCaller` | `[]CodecContract`, `~ErrOkAnywhere` |
| | `ErrorsTold` | `ErrorReported` | `[]CodecContract`, `~ErrOkAnywhere` |
| `XdrProofs` | `BufferHoldsData`, `AcceptedLengths` | | |
| | `NumberRoundTrip`, `NumberWithinInput` | | |
| | `OpaqueAsInRfc`, `OpaqueRoundTrip`, `OpaqueWithLengthRoundTrip` | | |
| | `OpaqueWithinInput`, `LengthsDoNotLie`, `ShortOpaqueFails` | | |

The assumptions of `NeverWedged`, `NoGaps`, `StreamsLast`,
`SocketIsPacketPipe`, `KeysPinned`, and `~ErrOkAnywhere` cannot be dropped: without
them the property is false, as the runs and the list above show.

**`RpcProofs`.** `Rpc!Inv` is inductive. `RegisteredOpen` alone is not: that a
channel in the table is open needs that each channel is found only under its own
serial (`OwnEntries`), hence that serials are distinct (`SerialsDistinct`), and
that only a caller that is leaving, or the clean-up, closes one
(`ClosedByOwner`). `NoOrphanWait` needs that a call is registered from
`register()` to `deregister()` (`StaysRegistered`), that the clean-up comes after
the listener has stopped (`CleanupLast`), and so that a call that registers later
finds the socket disconnected. `NeverWedged` rests on `AnswersExpected`: as long
as the server may still send a packet for a call, its caller receives.
`ContractKept` rests on `AnsweredFirst`: a caller is past its first `<-c` only if
the listener has read a packet for it, so whatever result it returns there is an
answer behind it, or a connection that is gone.

**`EventStreamProofs`.** `StreamIsQueue` maps `sent` to `accepted` and `open` to
"`process()` runs"; every step maps to a step of `EventQueue` or a stutter
because of `Fifo`.

**`LifecycleProofs`.** `OneListener` needs that only the latest connection has a
listener that runs, which `Connect` keeps by its test of `isDisconnected()`.
`HarmIsLeftOver` is for any owner, any losses and refusals: `CleanInv` says that every
connection but the latest has ended (`EndedIsDown`), that a `waitAndDisconnect` waits for
its own connection or a later one and cleans up when that has ended
(`WaitsForItsOwnOrLater`), and that channels and requests are of connections that have
been dialed (`OfDialed`). So a goroutine of the latest connection that cleans up has seen
it end, and with it all there are; only one that waited for an earlier connection can
find a live one. For
a patient owner, `PatientInv` says why the hazards do not bite: there is one
`waitAndDisconnect` at a time and it waits for its own connection (`OneWatcher`),
the channel it tests is the one of its connection, open until its last step
(`OwnChan`), a request that waits was sent on the latest connection
(`OwnRequests`), and a connection in its handshake is up (`StopsWhenDown`).

**`SubscriptionProofs`.** The invariant has two parts. `EndsInv` needs no assumption: a
stream is found only under the id of its subscription (`OwnEntries`), libvirtd has
registrations of the current connection only, and a relay that waits to deregister
sent its request no earlier than its registration (`OwnConnection`), and what each
deferred call has undone (`Leaving`). The two orders of the deferred calls meet in
`Leaving`: an entry outlives `Shutdown()` in one, and `Shutdown()` comes after the
entry is removed in the other. `CleanEnds` follows, even for a libvirtd that starts its
ids over; one that refuses to deregister keeps that registration and nothing else stays
behind (`kept`). `SubInv` adds that a callback id belongs to one subscription, of each
connection or of all (`IdsDistinct`), and that if ids come again the streams in the
table are those of the current connection (`CurrentEntries`), so an event is pushed
where it belongs (`OwnEvents`); that an open stream has every event from its first to
the latest, and one that is shut down has no entry any more and gets none (`Live`); and
that what was received is the beginning of what was pushed (`Queued`).
`CurrentEntries` is what a connection lost between reply and `addStream` breaks: with
both constants true, `NoGaps` is false. `StreamsLast` needs more, that no id is given
out twice, because a relay unsubscribes by its id alone.

**`FramingProofs`.** `SocketIsPacketPipe` has two halves that meet in the mapping.
Sending: `SendInv` says of the caller who holds `Socket.mu` that its packet is on the
wire up to some cell, in the buffer from there to another, and in `todo` from there
on, in order and without a gap, however `bufio.Writer` cuts it (`Underway`); that
between two packets, as long as the writer has no error, its buffer is empty and the
wire ends with the last cell of a packet (`Writer`); and that whoever writes to a
writer with an error has had nothing taken (`Outcomes`). An error stays until the next
`Connect`, so a packet of which only a part was taken is the last thing on its
connection: what libvirtd parses is in step (`Wires`), and a caller has been told
`nil` exactly if the last cell of its packet was taken (`Outcomes`). Receiving:
`ReadInv` says that what `listen()` has of the current part is what libvirtd sent of
it up to `pos`, and that `size` and `header` are those of that packet (`Reading`), so
what it routes is whole and next in order (`RoutedAsSent`); after a failure in the
middle of a packet there is nothing left to read (`Drained`), because the connection
is broken. `~TimeoutsInPackets` is needed for that alone: `SentExactlyIfTaken`, which
states the sending half without the mapping, is proved without it.

**`DialersProofs`.** `PriorityOrder` speaks of any list of credentials a URI may name,
with repetitions: the credential used is one the server accepts and none that it
accepts stands before it in the URI (`FirstInOrder`), for URIs in which no password
stands between agent and privkey (`PasswordBetween`). The file has at most one key of
the host because a key is added only when it has none (`FileKeepsKeys`); an ssh dialer
that went on past `checkHostKey` met that key or was told to ignore it, a TLS dialer
past its handshake had a CA and a verified certificate or was told not to ask
(`ServerKnown`).

**`ClientProofs`.** Four variables have to agree in every state of a call: what the
client waits for (`phase`), what libvirtd has still to send (`owed`), what it has sent
(`answer`) and the packet that is on its way. `ClientInv` names the stages they go
through together: `Awaiting`, `Replied` or `Refused`, then for a stream `Copying`,
`Carrying` and `Closing`, and `Done`; every packet is one of the call's own (`Own`),
and in `Done` the properties hold. `Asked` says that what was sent are the arguments
of the function, encoded. An event has three stages of its own (`Quiet`, `Announced`,
`Delivered`). `StageInv` adds that the contract of the codec goes on holding for the
call (`Heard`) or the event that is on its way, which `Route` knows unless nothing
hears of it (`Heeded`): its table has the numbers of libvirtd's callback events, no
more and no fewer (`RouteKnowsCallbacks`, proved from the two tables). `Routed` says
that `Route` takes such a packet for an event exactly if the function is one of
`Swallowed`; those stay in `Lost`. A call that took an `ERR_OK` for data of its stream
waits for ever (`Stranded`), which `~ErrOkAnywhere` excludes. The codec and the
messages are any that keep `CodecContract`, a statement about the octets of single
messages, which TLC evaluates for every function, event and seed in `Client_messages`,
as a part of `Inv`: in the initial state for all events, and in the state after each
call for its messages. What a function has to do with the procedure of its number is
`TablesAgree` alone, so the theorems hold of any tables for which it does;
`ArgumentsArrive` is where it is needed for what the client sends.

**`XdrProofs`.** `NumberRoundTrip` is for every number type of the protocol. The
octets of a word are its number modulo `Radix4`, because division by `Base` leaves a
quotient and a remainder that are unique (`Division`, `Digit`), also of a negative
number, whose octets are then those of its two's complement; eight octets are two
words; and what lies above half the radix is negative again (`Ranges`).
`BufferHoldsData` says that no length from the wire which the decoder accepts makes a
buffer that is too small, unaligned or of negative size; `AcceptedLengths` that these
are the lengths up to `MaxInt32 - 3`. From the first follow, for opaque data of any
length, that they are written as RFC 4506 has them (`OpaqueAsInRfc`) and read back
with the reader exactly behind them, whatever comes next (`OpaqueRoundTrip`); and for
any octets from the wire, well-formed or not, that the decoder takes no more than
there are (`OpaqueWithinInput`), and returns as many as the length in front of them
says, from behind that length, or an error (`LengthsDoNotLie`). Together with the
numbers this gives strings and `[]byte` with their length:
`OpaqueWithLengthRoundTrip`, and `ShortOpaqueFails`, that one which ends too early is
an error wherever it ends, because its length is then either missing or too large. An
octet has any number `Base` of values of which four make the range of an `int32`.

Only model-checked:

- every liveness property: fairness and `ENABLED` are beyond the prover;
- `CodecContract`: `Encode` and `Decode` are recursive in the type of a value, and what
  they compute for every type would need an induction over data. What they do with what
  has no parts, numbers and opaque data, is proved (`XdrProofs`).

## Not modelled

- The convenience functions of `libvirt.go` (`Domains`, `Secrets`, `Run`,
  `SetBlockIOTune`, ...): each is one call, or a few in a row, of generated
  functions, with conversions of their arguments and no state.
- Constants and their names (`const.gen.go`, `const_strings.gen.go`): data without
  behaviour. This is 7,500 of the repository's lines.
- The code generator (`internal/lvgen`): a parser that runs at build time. What it
  generates is modelled, and what it got wrong shows there.
- The mock server of the tests (`libvirttest`): the models allow every server the
  protocol does.
- Of `connect_uri.go` and the dialers: ports, paths and user names, `RemoteURI`,
  whether a default key file exists, and the timeouts of a dial. They decide where
  a connection goes and whether there is one, not what is verified.
- Of the XDR package: maps, booleans, floating point, times and limited readers,
  which no type of the protocol uses, and the formatting of errors.
- A packet whose length field is below 28: `listen()` makes a slice of negative
  size and panics (`socket.go:233`). libvirtd sends none; `Framing` has packets
  whose length is true.
- That a serial wraps after 2^32 calls.

## What is left

- Ports and paths of a URI, when a property about where a connection goes is
  worth stating.
