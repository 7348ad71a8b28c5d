---------------------------- MODULE Subscription ----------------------------
(***************************************************************************)
(* Event subscriptions (SubscribeEvents, LifecycleEvents and               *)
(* SubscribeQEMUEvents in libvirt.go) over the connections of one Libvirt: *)
(* the goroutine of each subscriber, which becomes the one that relays     *)
(* events to the subscriber's channel, the listener that routes events     *)
(* (Libvirt.stream), the clean-up of a lost connection (removeAllStreams), *)
(* and libvirtd, which numbers the callbacks it registers.                 *)
(*                                                                         *)
(* An event.Stream is the unbounded queue that EventStream implements, and *)
(* a request is answered or fails as RpcContract says.  emux is read-held  *)
(* while the listener pushes.  The owner connects again only after the     *)
(* clean-up (Lifecycle has what happens when it does not wait).            *)
(***************************************************************************)
EXTENDS Naturals, Sequences

CONSTANTS
    DomainSubs,       \* calls of SubscribeEvents and LifecycleEvents
    QemuSubs,         \* calls of SubscribeQEMUEvents
    NoSub,            \* "no stream" in the table of streams
    MaxIds,           \* bound on the callback ids libvirtd gives out
    MaxEvents,        \* bound on the events of each subscription
    MaxConns,         \* bound on the connections
    ReusesIds,        \* libvirtd has been restarted, and its ids start over
    LossWhileAdding   \* a connection may be lost between reply and addStream

Subs == DomainSubs \cup QemuSubs
Ids == 1..MaxIds
Events == Subs \X (1..MaxEvents)

ASSUME SubsAssumption == DomainSubs \cap QemuSubs = {} /\ NoSub \notin Subs
ASSUME BoundsAssumption == {MaxIds, MaxEvents, MaxConns} \subseteq Nat \ {0}
ASSUME TogglesAssumption == {ReusesIds, LossWhileAdding} \subseteq BOOLEAN

VARIABLES
    conn,        \* the current connection
    net,         \* "up", "lost" (the listener has stopped) or "down" (cleaned up)
    source,      \* the listener pushes the latest event of this subscription ...
    target,      \* ... into this stream, with emux read-held
    table,       \* Libvirt.events: callback id -> stream
    nextId,      \* libvirtd: the next callback id
    registered,  \* libvirtd: the subscriptions it sends events to ...
    kept,        \* ... and those of them it has refused to deregister
    emitted,     \* libvirtd: how many events of each it has sent
    pc,          \* where the goroutine of each subscription is
    id,          \* Stream.CallbackID
    home,        \* the connection each was registered on
    sentOn,      \* the connection of the request it waits for, or 0
    ctx,         \* the subscriber has cancelled its context
    stream,      \* event.Stream: "none", "open", "canceled" or "closed"
    pushed,      \* the events ever put in the stream
    received     \* the events the relay has taken from it

netVars == <<conn, net>>
listenerVars == <<source, target>>
serverVars == <<nextId, registered, kept, emitted>>
callVars == <<id, home, sentOn>>
queueVars == <<pushed, received>>
vars == <<netVars, listenerVars, table, serverVars, pc, callVars, ctx, stream, queueVars>>

Ended == {"shutdown", "dereg", "await", "remove", "done"}    \* close(ch) is done

TypeOK ==
    /\ conn \in 1..MaxConns
    /\ net \in {"up", "lost", "down"}
    /\ {source, target} \subseteq Subs \cup {NoSub}
    /\ table \in [Ids -> Subs \cup {NoSub}]
    /\ nextId \in 1..MaxIds + 1
    /\ registered \subseteq Subs /\ kept \subseteq Subs
    /\ emitted \in [Subs -> 0..MaxEvents]
    /\ pc \in [Subs -> {"idle", "call", "add", "recv", "send", "failed"} \cup Ended]
    /\ id \in [Subs -> 0..MaxIds]
    /\ home \in [Subs -> 0..MaxConns]
    /\ sentOn \in [Subs -> 0..MaxConns]
    /\ ctx \in [Subs -> BOOLEAN]
    /\ stream \in [Subs -> {"none", "open", "canceled", "closed"}]
    /\ pushed \in [Subs -> Seq(Events)]
    /\ received \in [Subs -> Seq(Events)]

Init ==
    /\ conn = 1
    /\ net = "up"
    /\ source = NoSub
    /\ target = NoSub
    /\ table = [n \in Ids |-> NoSub]
    /\ nextId = 1
    /\ registered = {} /\ kept = {}
    /\ emitted = [k \in Subs |-> 0]
    /\ pc = [k \in Subs |-> "idle"]
    /\ id = [k \in Subs |-> 0]
    /\ home = [k \in Subs |-> 0]
    /\ sentOn = [k \in Subs |-> 0]
    /\ ctx = [k \in Subs |-> FALSE]
    /\ stream = [k \in Subs |-> "none"]
    /\ pushed = [k \in Subs |-> <<>>]
    /\ received = [k \in Subs |-> <<>>]

Reading == target = NoSub    \* the listener reads; emux is free
Goto(k, l) == pc' = [pc EXCEPT ![k] = l]
Broken(k) == net # "up" \/ sentOn[k] # conn    \* the request of k fails
\* Stream.Shutdown() of the streams in S.
Stopped(S) == [k \in Subs |-> IF k \in S /\ stream[k] = "open" THEN "canceled" ELSE stream[k]]

(***************************************************************************)
(* Subscribing.  A registration that fails returns an error and no channel.*)
(***************************************************************************)
Subscribe(k) ==
    /\ pc[k] = "idle"
    /\ net = "up"
    /\ Goto(k, "call")
    /\ sentOn' = [sentOn EXCEPT ![k] = conn]
    /\ UNCHANGED <<netVars, listenerVars, table, serverVars, id, home, ctx, stream, queueVars>>

Registered(k) ==
    /\ pc[k] = "call"
    /\ ~Broken(k) /\ Reading
    /\ nextId \in Ids
    /\ nextId' = nextId + 1
    /\ registered' = registered \cup {k}
    /\ id' = [id EXCEPT ![k] = nextId]
    /\ home' = [home EXCEPT ![k] = conn]
    /\ sentOn' = [sentOn EXCEPT ![k] = 0]
    /\ Goto(k, "add")
    /\ UNCHANGED <<netVars, listenerVars, table, kept, emitted, ctx, stream, queueVars>>

\* libvirtd refuses, or the connection is lost.
RegisterFails(k) ==
    /\ pc[k] = "call"
    /\ Broken(k) \/ Reading
    /\ sentOn' = [sentOn EXCEPT ![k] = 0]
    /\ Goto(k, "failed")
    /\ UNCHANGED <<netVars, listenerVars, table, serverVars, id, home, ctx, stream, queueVars>>

\* event.NewStream, addStream, and the relay is started.
AddStream(k) ==
    /\ pc[k] = "add"
    /\ Reading
    /\ stream' = [stream EXCEPT ![k] = "open"]
    /\ table' = [table EXCEPT ![id[k]] = k]
    /\ Goto(k, "recv")
    /\ UNCHANGED <<netVars, listenerVars, serverVars, callVars, ctx, queueVars>>

(***************************************************************************)
(* The relay: ch <- ev blocks until the subscriber receives, whatever its  *)
(* context.                                                                *)
(***************************************************************************)
Recv(k) ==
    /\ pc[k] = "recv"
    /\ stream[k] \in {"open", "canceled"}
    /\ Len(received[k]) < Len(pushed[k])
    /\ received' = [received EXCEPT ![k] = Append(@, pushed[k][Len(@) + 1])]
    /\ Goto(k, "send")
    /\ UNCHANGED <<netVars, listenerVars, table, serverVars, callVars, ctx, stream, pushed>>

Deliver(k) ==
    /\ pc[k] = "send"
    /\ Goto(k, "recv")
    /\ UNCHANGED <<netVars, listenerVars, table, serverVars, callVars, ctx, stream, queueVars>>

\* Faulty variants, which no run uses, are named <operator>_<fault> and stand
\* before the operator; each breaks a property stated at the end.

\* The stream has ended or the context is done: close(ch), then the deferred
\* calls, in an order that is not the same for the two kinds.
Leave(k) ==
    /\ pc[k] = "recv"
    /\ stream[k] = "closed" \/ ctx[k]
    /\ Goto(k, IF k \in QemuSubs THEN "dereg" ELSE "shutdown")
    /\ UNCHANGED <<netVars, listenerVars, table, serverVars, callVars, ctx, stream, queueVars>>

Shutdown(k) ==
    /\ pc[k] = "shutdown"
    /\ stream' = Stopped({k})
    /\ Goto(k, IF k \in QemuSubs THEN "done" ELSE "dereg")
    /\ UNCHANGED <<netVars, listenerVars, table, serverVars, callVars, ctx, queueVars>>

\* unsubscribeEvents: a request that is sent on whatever connection there is.
SendDeregister(k) ==
    /\ pc[k] = "dereg"
    /\ IF net = "up" THEN Goto(k, "await") /\ sentOn' = [sentOn EXCEPT ![k] = conn]
                     ELSE Goto(k, "remove") /\ UNCHANGED sentOn
    /\ UNCHANGED <<netVars, listenerVars, table, serverVars, id, home, ctx, stream, queueVars>>

\* "If the deregister call fails, we'll return the error, but still remove the
\* callback from the list": because the connection is lost, or libvirtd refuses.
Deregistered(k) ==
    /\ pc[k] = "await"
    /\ \/ Broken(k) /\ UNCHANGED <<registered, kept>>
       \/ /\ ~Broken(k) /\ Reading
          /\ \/ registered' = {j \in registered : id[j] # id[k]} /\ UNCHANGED kept
             \/ kept' = kept \cup {k} /\ UNCHANGED registered
    /\ sentOn' = [sentOn EXCEPT ![k] = 0]
    /\ Goto(k, "remove")
    /\ UNCHANGED <<netVars, listenerVars, table, nextId, emitted, id, home, ctx, stream, queueVars>>

\* Shutdown() without delete().
RemoveStream_KeepsEntry(k) ==
    /\ pc[k] = "remove"
    /\ Reading
    /\ stream' = Stopped({table[id[k]]})
    /\ Goto(k, IF k \in QemuSubs THEN "shutdown" ELSE "done")
    /\ UNCHANGED <<netVars, listenerVars, table, serverVars, callVars, ctx, queueVars>>

\* removeStream(id): whatever stream is in the table under this id.
RemoveStream(k) ==
    /\ pc[k] = "remove"
    /\ Reading
    /\ stream' = Stopped({table[id[k]]})
    /\ table' = [table EXCEPT ![id[k]] = NoSub]
    /\ Goto(k, IF k \in QemuSubs THEN "shutdown" ELSE "done")
    /\ UNCHANGED <<netVars, listenerVars, serverVars, callVars, ctx, queueVars>>

Relay(k) == Recv(k) \/ Leave(k) \/ Shutdown(k) \/ SendDeregister(k) \/ RemoveStream(k)

\* process() of the stream sees its context done, and closes out.
ExitProcess(k) ==
    /\ stream[k] = "canceled"
    /\ stream' = [stream EXCEPT ![k] = "closed"]
    /\ UNCHANGED <<netVars, listenerVars, table, serverVars, pc, callVars, ctx, queueVars>>

\* The subscriber cancels its context, any time it has the channel.
Cancel(k) ==
    /\ pc[k] \in {"recv", "send"}
    /\ ~ctx[k]
    /\ ctx' = [ctx EXCEPT ![k] = TRUE]
    /\ UNCHANGED <<netVars, listenerVars, table, serverVars, pc, callVars, stream, queueVars>>

(***************************************************************************)
(* The listener.                                                           *)
(***************************************************************************)

\* libvirtd sends an event of k; the listener looks its id up in the table, and
\* drops an event whose id it does not know.
RouteEvent(k) ==
    /\ net = "up" /\ Reading
    /\ k \in registered
    /\ emitted[k] < MaxEvents
    /\ emitted' = [emitted EXCEPT ![k] = @ + 1]
    /\ target' = table[id[k]]
    /\ source' = IF target' = NoSub THEN NoSub ELSE k
    /\ UNCHANGED <<netVars, table, nextId, registered, kept, pc, callVars, ctx, stream, queueVars>>

Pushed == source' = NoSub /\ target' = NoSub

\* The zero value is queued in place of the event.
PushTaken_Empty ==
    /\ target # NoSub
    /\ stream[target] \in {"open", "canceled"}
    /\ pushed' = [pushed EXCEPT ![target] = Append(@, <<source, 0>>)]
    /\ Pushed
    /\ UNCHANGED <<netVars, table, serverVars, pc, callVars, ctx, stream, received>>

PushTaken ==
    /\ target # NoSub
    /\ stream[target] \in {"open", "canceled"}
    /\ pushed' = [pushed EXCEPT ![target] = Append(@, <<source, emitted[source]>>)]
    /\ Pushed
    /\ UNCHANGED <<netVars, table, serverVars, pc, callVars, ctx, stream, received>>

\* Push gives up when the subscriber is slow.
PushGivenUp_Busy ==
    /\ target # NoSub
    /\ stream[target] \in {"canceled", "closed"} \/ pc[target] = "send"
    /\ Pushed
    /\ UNCHANGED <<netVars, table, serverVars, pc, callVars, ctx, stream, queueVars>>

\* Push gives up only while process() still runs.
PushGivenUp_Early ==
    /\ target # NoSub
    /\ stream[target] = "canceled"
    /\ Pushed
    /\ UNCHANGED <<netVars, table, serverVars, pc, callVars, ctx, stream, queueVars>>

PushGivenUp ==
    /\ target # NoSub
    /\ stream[target] \in {"canceled", "closed"}
    /\ Pushed
    /\ UNCHANGED <<netVars, table, serverVars, pc, callVars, ctx, stream, queueVars>>

LoseConnection ==
    /\ net = "up" /\ Reading
    /\ LossWhileAdding \/ \A k \in Subs : pc[k] # "add"
    /\ net' = "lost"
    /\ registered' = {} /\ kept' = {}
    /\ UNCHANGED <<conn, listenerVars, table, nextId, emitted, pc, callVars, ctx, stream, queueVars>>

\* The streams are removed without waiting for the loss.
RemoveAllStreams_AtOnce ==
    /\ net \in {"up", "lost"} /\ Reading
    /\ net' = "down"
    /\ stream' = Stopped({table[n] : n \in Ids})
    /\ table' = [n \in Ids |-> NoSub]
    /\ UNCHANGED <<conn, listenerVars, serverVars, pc, callVars, ctx, queueVars>>

\* delete() without Shutdown().
RemoveAllStreams_NoShutdown ==
    /\ net = "lost" /\ Reading
    /\ net' = "down"
    /\ table' = [n \in Ids |-> NoSub]
    /\ UNCHANGED <<conn, listenerVars, serverVars, pc, callVars, ctx, stream, queueVars>>

\* waitAndDisconnect: removeAllStreams.
RemoveAllStreams ==
    /\ net = "lost" /\ Reading
    /\ net' = "down"
    /\ stream' = Stopped({table[n] : n \in Ids})
    /\ table' = [n \in Ids |-> NoSub]
    /\ UNCHANGED <<conn, listenerVars, serverVars, pc, callVars, ctx, queueVars>>

Reconnect ==
    /\ net = "down"
    /\ conn < MaxConns
    /\ conn' = conn + 1
    /\ net' = "up"
    /\ nextId' = IF ReusesIds THEN 1 ELSE nextId
    /\ UNCHANGED <<listenerVars, table, registered, kept, emitted, pc, callVars, ctx, stream, queueVars>>

Next ==
    \/ \E k \in Subs :
        \/ Subscribe(k) \/ Registered(k) \/ RegisterFails(k) \/ AddStream(k)
        \/ Relay(k) \/ Deliver(k) \/ Deregistered(k)
        \/ ExitProcess(k) \/ Cancel(k) \/ RouteEvent(k)
    \/ PushTaken \/ PushGivenUp
    \/ LoseConnection \/ RemoveAllStreams \/ Reconnect

Spec == Init /\ [][Next]_vars

(***************************************************************************)
(* Fairness: goroutines that can go on do; emux lets no waiter starve, and *)
(* a ready case of a select is not passed over for ever.  Subscribers      *)
(* receive until their channel is closed, as SubscribeEvents asks them to, *)
(* and libvirtd answers the requests to deregister.                        *)
(***************************************************************************)
Fairness ==
    /\ \A k \in Subs :
        /\ WF_vars(Recv(k) \/ Shutdown(k) \/ SendDeregister(k))
        /\ SF_vars(Leave(k))
        /\ SF_vars(AddStream(k) \/ RemoveStream(k))
        /\ SF_vars(Deregistered(k))
        /\ WF_vars(ExitProcess(k))
        /\ WF_vars(Deliver(k))
    /\ WF_vars(PushTaken \/ PushGivenUp)
    /\ WF_vars(RemoveAllStreams)

FairSpec == Spec /\ Fairness

(***************************************************************************)
(* Properties.                                                             *)
(***************************************************************************)

\* What a subscriber receives are events of its own subscription, in the order
\* libvirtd sent them, with no gap between the first and the last.
GaplessEvents ==
    \A k \in Subs : \A i \in DOMAIN received[k] :
        received[k][i] = <<k, received[k][1][2] + i - 1>>

\* "The events will continue to be streamed until the caller cancels the provided
\* context": a stream is shut down only then, or when its connection is gone.
StreamsUntilCancelled ==
    [][\A k \in Subs :
        stream[k] = "open" /\ stream'[k] # "open" => ctx[k] \/ home[k] # conn \/ net # "up"]_vars

\* A subscription that is over has left nothing behind: no running stream, no entry
\* in the table, and no registration with libvirtd but one that it refused to end.
NothingLeftBehind ==
    \A k \in Subs : pc[k] = "done" =>
        /\ stream[k] # "open"
        /\ \A n \in Ids : table[n] # k
        /\ k \in registered => k \in kept

\* A subscriber that cancels gets its channel closed, and the goroutine ends.
CancelEnds == \A k \in Subs : ctx[k] ~> (pc[k] = "done")

\* "Errors encountered during streaming will cause the returned event channel to
\* be closed": so does the loss of the connection.
LossEnds ==
    \A k \in Subs :
        (pc[k] \in {"recv", "send"} /\ (net # "up" \/ home[k] # conn)) ~> (pc[k] \in Ended)

\* A subscription that is over comes to its end, whichever way it is over.
SubscriptionsEnd == CancelEnds /\ LossEnds

\* Whatever subscribers do, the listener gets back to reading: Push never blocks.
ListenerReads == ~Reading ~> Reading
=============================================================================
