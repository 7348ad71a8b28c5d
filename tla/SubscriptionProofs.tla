-------------------------- MODULE SubscriptionProofs --------------------------
(***************************************************************************)
(* Proofs about Subscription, for any number of subscriptions, callback    *)
(* ids, events and connections.  A subscription that is over has left      *)
(* nothing behind, whatever ids libvirtd gives out; what a subscriber      *)
(* receives has no gap unless libvirtd starts its ids over while an        *)
(* answered registration is on its way to the table; and a stream ends     *)
(* only when it may, if libvirtd gives out no id twice.                    *)
(***************************************************************************)
EXTENDS Subscription, TLAPS

Unnumbered == {"idle", "call", "failed"}
Unstreamed == Unnumbered \cup {"add"}
Relaying == {"recv", "send"}

\* The subscription has been through removeStream ...
Removed(k) == pc[k] = "done" \/ (k \in QemuSubs /\ pc[k] = "shutdown")
\* ... and through Shutdown.
ShutDown(k) == pc[k] = "done" \/ (k \in DomainSubs /\ pc[k] \in {"dereg", "await", "remove"})

\* A subscription has a callback id from its registration on.
Numbered ==
    \A k \in Subs :
        /\ pc[k] \in Unnumbered => id[k] = 0
        /\ pc[k] \notin Unnumbered => id[k] \in Ids

\* libvirtd does not start its ids over while a subscription is between its reply and
\* addStream and loses its connection there.
Confined == ~(ReusesIds /\ LossWhileAdding)

\* A callback id belongs to one subscription of each connection, or of all of them if
\* libvirtd gives out no id twice ...
IdsDistinct ==
    \A k \in Subs : pc[k] \notin Unnumbered =>
        /\ (ReusesIds => home[k] = conn) => id[k] < nextId
        /\ \A j \in Subs :
            pc[j] \notin Unnumbered /\ id[j] = id[k] /\ (ReusesIds => home[j] = home[k]) => j = k

\* ... and if it does, the streams in the table are those of the current connection.
CurrentEntries ==
    ReusesIds =>
        /\ \A k \in Subs : pc[k] = "add" => net = "up" /\ home[k] = conn
        /\ \A n \in Ids : table[n] # NoSub => net # "down" /\ home[table[n]] = conn

\* A stream is only ever found under the id of its subscription.
OwnEntries ==
    \A n \in Ids : table[n] # NoSub =>
        /\ id[table[n]] = n
        /\ pc[table[n]] \notin Unstreamed
        /\ ~Removed(table[n])

\* What the listener pushes is an event that libvirtd has sent ...
Pushes ==
    /\ source = NoSub <=> target = NoSub
    /\ source # NoSub => emitted[source] >= 1

\* ... and it goes into the stream of its own subscription.
OwnEvents == source = target

\* libvirtd has registrations of the current connection only.
OwnConnection ==
    /\ \A k \in registered : net = "up" /\ home[k] = conn /\ pc[k] \notin Unnumbered
    /\ \A k \in Subs :
        /\ home[k] <= conn
        /\ pc[k] = "await" => home[k] <= sentOn[k] /\ sentOn[k] <= conn

\* The deferred calls of the relay, one after the other.
Leaving ==
    \A k \in Subs :
        /\ pc[k] \in Unstreamed <=> stream[k] = "none"
        /\ pc[k] \in Ended => ctx[k] \/ stream[k] # "open"
        /\ ShutDown(k) => stream[k] # "open"
        /\ pc[k] = "remove" \/ Removed(k) => k \notin registered \/ k \in kept

Contiguous(seq, k) == \A i \in DOMAIN seq : seq[i] = <<k, seq[1][2] + i - 1>>
Latest(seq) == seq[Len(seq)][2]
Begins(seq, whole) == Len(seq) <= Len(whole) /\ \A i \in DOMAIN seq : seq[i] = whole[i]

\* While it relays, an open stream misses no event, and one that is shut down gets none.
Live ==
    \A k \in Subs : pc[k] \in Relaying =>
        /\ Contiguous(pushed[k], k)
        /\ stream[k] = "open" =>
            /\ table[id[k]] = k
            /\ pushed[k] # <<>> =>
                emitted[k] = IF target = k THEN Latest(pushed[k]) + 1 ELSE Latest(pushed[k])
        /\ stream[k] # "open" => target # k /\ table[id[k]] # k

\* What has been received was pushed before.
Queued ==
    \A k \in Subs :
        /\ pc[k] \in Unstreamed => pushed[k] = <<>>
        /\ Begins(received[k], pushed[k])
        /\ Contiguous(received[k], k)

\* The part of the invariant that holds whatever ids libvirtd gives out ...
EndsInv == TypeOK /\ Numbered /\ OwnEntries /\ Pushes /\ OwnConnection /\ Leaving

\* ... and all of it.
SubInv == EndsInv /\ IdsDistinct /\ CurrentEntries /\ OwnEvents /\ Live /\ Queued

\* BoundsAssumption, one bound at a time.
LEMMA Bounds == MaxIds \in Nat \ {0} /\ MaxEvents \in Nat \ {0} /\ MaxConns \in Nat \ {0}
BY BoundsAssumption

\* An event that follows the latest one leaves no gap.
LEMMA AppendContiguous ==
    ASSUME NEW k \in Subs, NEW n \in Nat, NEW seq \in Seq(Events), Contiguous(seq, k),
           seq # <<>> => n = Latest(seq) + 1
    PROVE  LET longer == Append(seq, <<k, n>>) IN Contiguous(longer, k) /\ Latest(longer) = n
<1>1. \A i \in DOMAIN seq : seq[i][2] \in Nat
    BY DEF Events
<1> QED
    BY <1>1, SMTT(30) DEF Contiguous, Latest

\* A queue that grows at its end still begins with what was taken from it.
LEMMA AppendBegins ==
    ASSUME NEW seq \in Seq(Events), NEW whole \in Seq(Events), Begins(seq, whole), NEW e
    PROVE  Begins(seq, Append(whole, e))
BY DEF Begins

\* A goroutine that goes on leaves the entries in order, unless its entry should be gone.
LEMMA EntriesStay ==
    ASSUME TypeOK, OwnEntries, NEW k \in Subs, NEW l, pc' = [pc EXCEPT ![k] = l],
           pc[k] \in Unstreamed \/ (l \notin Unstreamed /\ l # "done" /\ (k \in QemuSubs => l # "shutdown")),
           UNCHANGED <<table, id>>
    PROVE  OwnEntries'
<1> SUFFICES ASSUME NEW n \in Ids, table[n] # NoSub
             PROVE  id[table[n]] = n /\ pc'[table[n]] \notin Unstreamed /\ ~Removed(table[n])'
    BY DEF OwnEntries
<1>1. table[n] \in Subs /\ id[table[n]] = n /\ pc[table[n]] \notin Unstreamed /\ ~Removed(table[n])
    BY DEF OwnEntries, TypeOK
<1>2. CASE table[n] = k
    BY <1>1, <1>2 DEF Removed, TypeOK
<1>3. CASE table[n] # k
    BY <1>1, <1>3 DEF Removed, TypeOK
<1> QED
    BY <1>2, <1>3

\* One lemma per action, for the part that needs no assumption ...
LEMMA SubscribeEndsStep ==
    ASSUME EndsInv, NEW k \in Subs, Subscribe(k)
    PROVE  EndsInv'
<1> USE SubsAssumption, Bounds DEF EndsInv
<1>1. TypeOK'
    <2>1. pc' \in [Subs -> {"idle", "call", "add", "recv", "send", "failed"} \cup Ended]
        BY DEF Subscribe, TypeOK, Goto, Ids
    <2>2. sentOn' \in [Subs -> 0..MaxConns]
        BY DEF Subscribe, TypeOK, Goto, Ids
    <2> QED
        BY <2>1, <2>2 DEF Subscribe, TypeOK, netVars, listenerVars, serverVars, queueVars
<1>2. Numbered'
    BY DEF Subscribe, TypeOK, Numbered, Unnumbered, Goto, Ids, Ended, netVars, listenerVars,
           serverVars, queueVars
<1>3. Pushes'
    BY DEF Subscribe, TypeOK, Pushes, Goto, netVars, listenerVars, serverVars, queueVars
<1>4. OwnEntries'
    BY EntriesStay DEF Subscribe, Goto, Unstreamed, Unnumbered
<1>5. OwnConnection'
    BY DEF Subscribe, TypeOK, OwnConnection, Unnumbered, Goto, Ended, netVars, listenerVars,
           serverVars, queueVars
<1>6. Leaving'
    BY DEF Subscribe, TypeOK, Leaving, Removed, ShutDown, Unstreamed, Unnumbered, Ended, Goto,
           Subs, netVars, listenerVars, serverVars, queueVars
<1> QED
    BY <1>1, <1>2, <1>3, <1>4, <1>5, <1>6

LEMMA RegisteredEndsStep ==
    ASSUME EndsInv, NEW k \in Subs, Registered(k)
    PROVE  EndsInv'
<1> USE SubsAssumption, Bounds DEF EndsInv
<1>1. TypeOK'
    <2>1. pc' \in [Subs -> {"idle", "call", "add", "recv", "send", "failed"} \cup Ended]
        BY DEF Registered, TypeOK, Goto, Ids
    <2>2. sentOn' \in [Subs -> 0..MaxConns]
        BY DEF Registered, TypeOK, Goto, Ids
    <2>3. nextId' \in 1..MaxIds + 1
        BY DEF Registered, TypeOK, Goto, Ids
    <2>4. registered' \subseteq Subs
        BY DEF Registered, TypeOK, Goto, Ids
    <2>5. id' \in [Subs -> 0..MaxIds]
        BY DEF Registered, TypeOK, Goto, Ids
    <2>6. home' \in [Subs -> 0..MaxConns]
        BY DEF Registered, TypeOK, Goto, Ids
    <2> QED
        BY <2>1, <2>2, <2>3, <2>4, <2>5, <2>6 DEF Registered, TypeOK, netVars, listenerVars,
               queueVars
<1>2. Numbered'
    BY DEF Registered, TypeOK, Numbered, Unnumbered, Goto, Ids, Ended, netVars, listenerVars,
           queueVars
<1>3. Pushes'
    BY DEF Registered, TypeOK, Pushes, Reading, Goto, netVars, listenerVars, queueVars
<1>4. OwnEntries'
    <2>1. pc' = [pc EXCEPT ![k] = "add"] /\ id' = [id EXCEPT ![k] = nextId] /\ table' = table
        BY DEF Registered, Goto
    <2>2. \A n \in Ids : table[n] # k
        BY DEF Registered, OwnEntries, Unstreamed, Unnumbered
    <2> QED
        BY <2>1, <2>2 DEF OwnEntries, TypeOK, Removed
<1>5. OwnConnection'
    <2>1. /\ pc' = [pc EXCEPT ![k] = "add"] /\ registered' = registered \cup {k}
          /\ home' = [home EXCEPT ![k] = conn] /\ sentOn' = [sentOn EXCEPT ![k] = 0]
        BY DEF Registered, Goto
    <2>2. net = "up" /\ pc[k] = "call" /\ UNCHANGED <<net, conn>>
        BY DEF Registered, Broken, netVars
    <2> QED
        BY <2>1, <2>2 DEF OwnConnection, TypeOK, Unnumbered
<1>6. Leaving'
    BY DEF Registered, TypeOK, Leaving, Removed, ShutDown, Unstreamed, Unnumbered, Ended, Goto,
           Subs, netVars, listenerVars, queueVars
<1> QED
    BY <1>1, <1>2, <1>3, <1>4, <1>5, <1>6

LEMMA RegisterFailsEndsStep ==
    ASSUME EndsInv, NEW k \in Subs, RegisterFails(k)
    PROVE  EndsInv'
<1> USE SubsAssumption, Bounds DEF EndsInv
<1>1. TypeOK'
    <2>1. pc' \in [Subs -> {"idle", "call", "add", "recv", "send", "failed"} \cup Ended]
        BY DEF RegisterFails, TypeOK, Goto, Ids
    <2>2. sentOn' \in [Subs -> 0..MaxConns]
        BY DEF RegisterFails, TypeOK, Goto, Ids
    <2> QED
        BY <2>1, <2>2 DEF RegisterFails, TypeOK, netVars, listenerVars, serverVars, queueVars
<1>2. Numbered'
    BY DEF RegisterFails, TypeOK, Numbered, Unnumbered, Goto, Ids, Ended, netVars, listenerVars,
           serverVars, queueVars
<1>3. Pushes'
    BY DEF RegisterFails, TypeOK, Pushes, Reading, Goto, netVars, listenerVars, serverVars,
           queueVars
<1>4. OwnEntries'
    BY EntriesStay DEF RegisterFails, Goto, Unstreamed, Unnumbered
<1>5. OwnConnection'
    BY DEF RegisterFails, TypeOK, OwnConnection, Unnumbered, Goto, Ended, netVars, listenerVars,
           serverVars, queueVars
<1>6. Leaving'
    BY DEF RegisterFails, TypeOK, Leaving, Removed, ShutDown, Unstreamed, Unnumbered, Ended,
           Goto, Subs, netVars, listenerVars, serverVars, queueVars
<1> QED
    BY <1>1, <1>2, <1>3, <1>4, <1>5, <1>6

LEMMA AddStreamEndsStep ==
    ASSUME EndsInv, NEW k \in Subs, AddStream(k)
    PROVE  EndsInv'
<1> USE SubsAssumption, Bounds DEF EndsInv
<1>1. TypeOK'
    BY DEF AddStream, TypeOK, Goto, Ids, Ended, netVars, listenerVars, serverVars, callVars,
           queueVars
<1>2. Numbered'
    BY DEF AddStream, TypeOK, Numbered, Unnumbered, Goto, Ids, Ended, netVars, listenerVars,
           serverVars, callVars, queueVars
<1>3. Pushes'
    BY DEF AddStream, TypeOK, Pushes, Reading, Goto, netVars, listenerVars, serverVars,
           callVars, queueVars
<1>4. OwnEntries'
    <2>1. pc' = [pc EXCEPT ![k] = "recv"] /\ table' = [table EXCEPT ![id[k]] = k] /\ id' = id
        BY DEF AddStream, Goto, callVars
    <2>2. "recv" \notin Unstreamed
        BY DEF Unstreamed, Unnumbered
    <2> QED
        BY <2>1, <2>2 DEF OwnEntries, TypeOK, Removed
<1>5. OwnConnection'
    BY DEF AddStream, TypeOK, OwnConnection, Unnumbered, Goto, Ended, netVars, listenerVars,
           serverVars, callVars, queueVars
<1>6. Leaving'
    BY DEF AddStream, TypeOK, Leaving, Removed, ShutDown, Unstreamed, Unnumbered, Ended, Goto,
           Subs, netVars, listenerVars, serverVars, callVars, queueVars
<1> QED
    BY <1>1, <1>2, <1>3, <1>4, <1>5, <1>6

LEMMA RecvEndsStep ==
    ASSUME EndsInv, NEW k \in Subs, Recv(k)
    PROVE  EndsInv'
<1> USE SubsAssumption, Bounds DEF EndsInv
<1>1. TypeOK'
    <2>1. pc' \in [Subs -> {"idle", "call", "add", "recv", "send", "failed"} \cup Ended]
        BY DEF Recv, TypeOK, Goto, Ids
    <2>2. received' \in [Subs -> Seq(Events)]
        BY DEF Recv, TypeOK, Goto, Ids
    <2> QED
        BY <2>1, <2>2 DEF Recv, TypeOK, netVars, listenerVars, serverVars, callVars
<1>2. Numbered'
    BY DEF Recv, TypeOK, Numbered, Unnumbered, Goto, Ids, Ended, netVars, listenerVars,
           serverVars, callVars
<1>3. Pushes'
    BY DEF Recv, TypeOK, Pushes, Goto, netVars, listenerVars, serverVars, callVars
<1>4. OwnEntries'
    BY EntriesStay DEF Recv, Goto, Unstreamed, Unnumbered, callVars
<1>5. OwnConnection'
    BY DEF Recv, TypeOK, OwnConnection, Unnumbered, Goto, Ended, netVars, listenerVars,
           serverVars, callVars
<1>6. Leaving'
    BY DEF Recv, TypeOK, Leaving, Removed, ShutDown, Unstreamed, Unnumbered, Ended, Goto, Subs,
           netVars, listenerVars, serverVars, callVars
<1> QED
    BY <1>1, <1>2, <1>3, <1>4, <1>5, <1>6

LEMMA DeliverEndsStep ==
    ASSUME EndsInv, NEW k \in Subs, Deliver(k)
    PROVE  EndsInv'
<1> USE SubsAssumption, Bounds DEF EndsInv
<1>1. TypeOK'
    BY DEF Deliver, TypeOK, Goto, Ids, Ended, netVars, listenerVars, serverVars, callVars,
           queueVars
<1>2. Numbered'
    BY DEF Deliver, TypeOK, Numbered, Unnumbered, Goto, Ids, Ended, netVars, listenerVars,
           serverVars, callVars, queueVars
<1>3. Pushes'
    BY DEF Deliver, TypeOK, Pushes, Goto, netVars, listenerVars, serverVars, callVars, queueVars
<1>4. OwnEntries'
    BY EntriesStay DEF Deliver, Goto, Unstreamed, Unnumbered, callVars
<1>5. OwnConnection'
    BY DEF Deliver, TypeOK, OwnConnection, Unnumbered, Goto, Ended, netVars, listenerVars,
           serverVars, callVars, queueVars
<1>6. Leaving'
    BY DEF Deliver, TypeOK, Leaving, Removed, ShutDown, Unstreamed, Unnumbered, Ended, Goto,
           Subs, netVars, listenerVars, serverVars, callVars, queueVars
<1> QED
    BY <1>1, <1>2, <1>3, <1>4, <1>5, <1>6

LEMMA LeaveEndsStep ==
    ASSUME EndsInv, NEW k \in Subs, Leave(k)
    PROVE  EndsInv'
<1> USE SubsAssumption, Bounds DEF EndsInv
<1>1. TypeOK'
    BY DEF Leave, TypeOK, Goto, Ids, Ended, netVars, listenerVars, serverVars, callVars,
           queueVars
<1>2. Numbered'
    BY DEF Leave, TypeOK, Numbered, Unnumbered, Goto, Ids, Ended, netVars, listenerVars,
           serverVars, callVars, queueVars
<1>3. Pushes'
    BY DEF Leave, TypeOK, Pushes, Goto, netVars, listenerVars, serverVars, callVars, queueVars
<1>4. OwnEntries'
    BY EntriesStay DEF Leave, Goto, Unstreamed, Unnumbered, Subs, callVars
<1>5. OwnConnection'
    BY DEF Leave, TypeOK, OwnConnection, Unnumbered, Goto, Ended, netVars, listenerVars,
           serverVars, callVars, queueVars
<1>6. Leaving'
    BY DEF Leave, TypeOK, Leaving, Removed, ShutDown, Unstreamed, Unnumbered, Ended, Goto, Subs,
           netVars, listenerVars, serverVars, callVars, queueVars
<1> QED
    BY <1>1, <1>2, <1>3, <1>4, <1>5, <1>6

LEMMA ShutdownEndsStep ==
    ASSUME EndsInv, NEW k \in Subs, Shutdown(k)
    PROVE  EndsInv'
<1> USE SubsAssumption, Bounds DEF EndsInv
<1>1. TypeOK'
    BY DEF Shutdown, TypeOK, Goto, Stopped, Ids, Ended, netVars, listenerVars, serverVars,
           callVars, queueVars
<1>2. Numbered'
    BY DEF Shutdown, TypeOK, Numbered, Unnumbered, Goto, Stopped, Ids, Ended, netVars,
           listenerVars, serverVars, callVars, queueVars
<1>3. Pushes'
    BY DEF Shutdown, TypeOK, Pushes, Goto, netVars, listenerVars, serverVars, callVars,
           queueVars
<1>4. OwnEntries'
    <2>1. CASE k \in QemuSubs
        BY <2>1 DEF Shutdown, Goto, OwnEntries, TypeOK, Removed, Unstreamed, Unnumbered,
               callVars
    <2>2. CASE k \notin QemuSubs
        BY <2>2, EntriesStay DEF Shutdown, Goto, Unstreamed, Unnumbered, callVars
    <2> QED
        BY <2>1, <2>2
<1>5. OwnConnection'
    BY DEF Shutdown, TypeOK, OwnConnection, Unnumbered, Goto, Ended, netVars, listenerVars,
           serverVars, callVars, queueVars
<1>6. Leaving'
    BY DEF Shutdown, TypeOK, Leaving, Removed, ShutDown, Unstreamed, Unnumbered, Ended, Goto,
           Stopped, Subs, netVars, listenerVars, serverVars, callVars, queueVars
<1> QED
    BY <1>1, <1>2, <1>3, <1>4, <1>5, <1>6

LEMMA SendDeregisterEndsStep ==
    ASSUME EndsInv, NEW k \in Subs, SendDeregister(k)
    PROVE  EndsInv'
<1> USE SubsAssumption, Bounds DEF EndsInv
<1>0. /\ pc[k] = "dereg"
      /\ \/ net = "up" /\ pc' = [pc EXCEPT ![k] = "await"] /\ sentOn' = [sentOn EXCEPT ![k] = conn]
         \/ net # "up" /\ pc' = [pc EXCEPT ![k] = "remove"] /\ sentOn' = sentOn
      /\ UNCHANGED <<conn, net, source, target, table, nextId, registered, kept, emitted>>
      /\ UNCHANGED <<id, home, ctx, stream, pushed, received>>
    <2>1. CASE net = "up"
        BY <2>1 DEF SendDeregister, Goto, netVars, listenerVars, serverVars, queueVars
    <2>2. CASE net # "up"
        BY <2>2 DEF SendDeregister, Goto, netVars, listenerVars, serverVars, queueVars
    <2> QED
        BY <2>1, <2>2
<1>1. TypeOK'
    <2>1. sentOn' \in [Subs -> 0..MaxConns]
        <3>1. conn \in 0..MaxConns /\ sentOn \in [Subs -> 0..MaxConns]
            BY DEF TypeOK
        <3>2. sentOn' = [sentOn EXCEPT ![k] = conn] \/ sentOn' = sentOn
            BY <1>0
        <3> QED
            BY <3>1, <3>2
    <2>2. pc' \in [Subs -> {"idle", "call", "add", "recv", "send", "failed"} \cup Ended]
        BY <1>0, ZenonT(60) DEF TypeOK, Ended
    <2> QED
        BY <1>0, <2>1, <2>2 DEF TypeOK
<1>2. Numbered'
    BY DEF SendDeregister, TypeOK, Numbered, Unnumbered, Goto, Ids, Ended, netVars,
           listenerVars, serverVars, queueVars
<1>3. Pushes'
    BY DEF SendDeregister, TypeOK, Pushes, Goto, netVars, listenerVars, serverVars, queueVars
<1>4. OwnEntries'
    BY <1>0, EntriesStay DEF Unstreamed, Unnumbered
<1>5. OwnConnection'
    <2>1. /\ \A j \in Subs : j # k => pc'[j] = pc[j] /\ sentOn'[j] = sentOn[j]
          /\ pc'[k] \notin Unnumbered /\ (pc'[k] = "await" => sentOn'[k] = conn)
        BY <1>0 DEF TypeOK, Unnumbered
    <2>2. \A j \in registered : net' = "up" /\ home'[j] = conn' /\ pc'[j] \notin Unnumbered
        BY <1>0, <2>1 DEF OwnConnection, TypeOK
    <2>3. \A j \in Subs : home[j] \in Nat /\ conn \in Nat /\ home[j] <= conn
        BY DEF OwnConnection, TypeOK
    <2>4. \A j \in Subs : pc'[j] = "await" => home'[j] <= sentOn'[j] /\ sentOn'[j] <= conn'
        BY <1>0, <2>1, <2>3 DEF OwnConnection
    <2> QED
        BY <1>0, <2>2, <2>3, <2>4 DEF OwnConnection
<1>6. Leaving'
    <2>1. net # "up" => k \notin registered
        BY DEF OwnConnection
    <2>2. \A j \in Subs : j # k => pc'[j] = pc[j]
        BY <1>0 DEF TypeOK
    <2>3. pc'[k] = "await" \/ (pc'[k] = "remove" /\ k \notin registered)
        BY <1>0, <2>1 DEF TypeOK
    <2> QED
        BY <1>0, <2>2, <2>3 DEF Leaving, Removed, ShutDown, Unstreamed, Unnumbered, Ended, Subs
<1> QED
    BY <1>1, <1>2, <1>3, <1>4, <1>5, <1>6

LEMMA DeregisteredEndsStep ==
    ASSUME EndsInv, NEW k \in Subs, Deregistered(k)
    PROVE  EndsInv'
<1> USE SubsAssumption, Bounds DEF EndsInv
<1>1. TypeOK'
    <2>1. pc' \in [Subs -> {"idle", "call", "add", "recv", "send", "failed"} \cup Ended]
        BY DEF Deregistered, TypeOK, Goto, Ids, Ended
    <2>2. sentOn' \in [Subs -> 0..MaxConns]
        BY DEF Deregistered, TypeOK, Goto, Ids
    <2>3. registered' \subseteq Subs
        BY DEF Deregistered, TypeOK, Goto, Ids
    <2>4. kept' \subseteq Subs
        BY DEF Deregistered, TypeOK
    <2> QED
        BY <2>1, <2>2, <2>3, <2>4 DEF Deregistered, TypeOK, netVars, listenerVars, queueVars
<1>2. Numbered'
    BY DEF Deregistered, TypeOK, Numbered, Unnumbered, Goto, Ids, Ended, netVars, listenerVars,
           queueVars
<1>3. Pushes'
    BY DEF Deregistered, TypeOK, Pushes, Reading, Goto, netVars, listenerVars, queueVars
<1>4. OwnEntries'
    BY EntriesStay DEF Deregistered, Goto, Unstreamed, Unnumbered
<1>5. OwnConnection'
    BY DEF Deregistered, TypeOK, OwnConnection, Unnumbered, Goto, Ended, netVars, listenerVars,
           queueVars
<1>6. Leaving'
    <2>1. /\ pc' = [pc EXCEPT ![k] = "remove"] /\ registered' \subseteq registered
          /\ kept \subseteq kept' /\ UNCHANGED <<stream, ctx>>
        BY DEF Deregistered, Goto
    <2>2. k \notin registered' \/ k \in kept'
        <3>1. CASE Broken(k)
            BY <3>1 DEF Deregistered, Broken, OwnConnection, TypeOK
        <3>2. CASE ~Broken(k)
            BY <3>2 DEF Deregistered
        <3> QED
            BY <3>1, <3>2
    <2> QED
        BY <2>1, <2>2 DEF Deregistered, TypeOK, Leaving, Removed, ShutDown, Unstreamed,
               Unnumbered, Ended, Subs
<1> QED
    BY <1>1, <1>2, <1>3, <1>4, <1>5, <1>6

LEMMA RemoveStreamEndsStep ==
    ASSUME EndsInv, NEW k \in Subs, RemoveStream(k)
    PROVE  EndsInv'
<1> USE SubsAssumption, Bounds DEF EndsInv
<1>1. TypeOK'
    BY DEF RemoveStream, TypeOK, Goto, Stopped, Ids, Ended, netVars, listenerVars, serverVars,
           callVars, queueVars
<1>2. Numbered'
    BY DEF RemoveStream, TypeOK, Numbered, Unnumbered, Goto, Stopped, Ids, Ended, netVars,
           listenerVars, serverVars, callVars, queueVars
<1>3. Pushes'
    BY DEF RemoveStream, TypeOK, Pushes, Reading, Goto, netVars, listenerVars, serverVars,
           callVars, queueVars
<1>4. OwnEntries'
    <2>1. pc' = [pc EXCEPT ![k] = IF k \in QemuSubs THEN "shutdown" ELSE "done"] /\ table' = [table EXCEPT ![id[k]] = NoSub]
        BY DEF RemoveStream, Goto
    <2>2. \A n \in Ids : table'[n] # NoSub => table'[n] = table[n] /\ table[n] # k /\ table[n] \in Subs
        BY <2>1 DEF OwnEntries, TypeOK
    <2> QED
        BY <2>1, <2>2 DEF RemoveStream, OwnEntries, TypeOK, Removed, callVars
<1>5. OwnConnection'
    BY DEF RemoveStream, TypeOK, OwnConnection, Unnumbered, Goto, Ended, netVars, listenerVars,
           serverVars, callVars, queueVars
<1>6. Leaving'
    BY DEF RemoveStream, TypeOK, Leaving, Removed, ShutDown, Unstreamed, Unnumbered, Ended,
           Goto, Stopped, Subs, netVars, listenerVars, serverVars, callVars, queueVars
<1> QED
    BY <1>1, <1>2, <1>3, <1>4, <1>5, <1>6

LEMMA ExitProcessEndsStep ==
    ASSUME EndsInv, NEW k \in Subs, ExitProcess(k)
    PROVE  EndsInv'
<1> USE SubsAssumption, Bounds DEF EndsInv
<1>1. TypeOK'
    BY DEF ExitProcess, TypeOK, Ids, Ended, netVars, listenerVars, serverVars, callVars,
           queueVars
<1>2. Numbered'
    BY DEF ExitProcess, TypeOK, Numbered, Unnumbered, Ids, Ended, netVars, listenerVars,
           serverVars, callVars, queueVars
<1>3. Pushes'
    BY DEF ExitProcess, TypeOK, Pushes, netVars, listenerVars, serverVars, callVars, queueVars
<1>4. OwnEntries'
    BY DEF ExitProcess, TypeOK, OwnEntries, Removed, Unstreamed, Unnumbered, Ids, Ended, Subs,
           netVars, listenerVars, serverVars, callVars, queueVars
<1>5. OwnConnection'
    BY DEF ExitProcess, TypeOK, OwnConnection, Unnumbered, Ended, netVars, listenerVars,
           serverVars, callVars, queueVars
<1>6. Leaving'
    BY DEF ExitProcess, TypeOK, Leaving, Removed, ShutDown, Unstreamed, Unnumbered, Ended, Subs,
           netVars, listenerVars, serverVars, callVars, queueVars
<1> QED
    BY <1>1, <1>2, <1>3, <1>4, <1>5, <1>6

LEMMA CancelEndsStep ==
    ASSUME EndsInv, NEW k \in Subs, Cancel(k)
    PROVE  EndsInv'
<1> USE SubsAssumption, Bounds DEF EndsInv
<1>1. TypeOK'
    BY DEF Cancel, TypeOK, Ids, Ended, netVars, listenerVars, serverVars, callVars, queueVars
<1>2. Numbered'
    BY DEF Cancel, TypeOK, Numbered, Unnumbered, Ids, Ended, netVars, listenerVars, serverVars,
           callVars, queueVars
<1>3. Pushes'
    BY DEF Cancel, TypeOK, Pushes, netVars, listenerVars, serverVars, callVars, queueVars
<1>4. OwnEntries'
    BY DEF Cancel, TypeOK, OwnEntries, Removed, Unstreamed, Unnumbered, Ids, Ended, Subs,
           netVars, listenerVars, serverVars, callVars, queueVars
<1>5. OwnConnection'
    BY DEF Cancel, TypeOK, OwnConnection, Unnumbered, Ended, netVars, listenerVars, serverVars,
           callVars, queueVars
<1>6. Leaving'
    BY DEF Cancel, TypeOK, Leaving, Removed, ShutDown, Unstreamed, Unnumbered, Ended, Subs,
           netVars, listenerVars, serverVars, callVars, queueVars
<1> QED
    BY <1>1, <1>2, <1>3, <1>4, <1>5, <1>6

LEMMA RouteEventEndsStep ==
    ASSUME EndsInv, NEW k \in Subs, RouteEvent(k)
    PROVE  EndsInv'
<1> USE SubsAssumption, Bounds DEF EndsInv
<1>1. TypeOK'
    <2>1. emitted' \in [Subs -> 0..MaxEvents]
        BY DEF RouteEvent, TypeOK
    <2>2. target' = table[id[k]] /\ source' = IF target' = NoSub THEN NoSub ELSE k
        BY DEF RouteEvent
    <2>3. id[k] \in Ids
        BY DEF RouteEvent, OwnConnection, Numbered
    <2>4. target' \in Subs \cup {NoSub} /\ source' \in Subs \cup {NoSub}
        BY <2>2, <2>3 DEF TypeOK
    <2> QED
        BY <2>1, <2>4 DEF RouteEvent, TypeOK, netVars, callVars, queueVars
<1>2. Numbered'
    BY DEF RouteEvent, TypeOK, Numbered, Unnumbered, Ids, Ended, netVars, callVars, queueVars
<1>3. Pushes'
    BY DEF RouteEvent, TypeOK, Pushes, Reading, netVars, callVars, queueVars
<1>4. OwnEntries'
    BY DEF RouteEvent, TypeOK, OwnEntries, Removed, Unstreamed, Unnumbered, Ids, Ended, Subs,
           netVars, callVars, queueVars
<1>5. OwnConnection'
    BY DEF RouteEvent, TypeOK, OwnConnection, Unnumbered, Ended, netVars, callVars, queueVars
<1>6. Leaving'
    BY DEF RouteEvent, TypeOK, Leaving, Removed, ShutDown, Unstreamed, Unnumbered, Ended, Subs,
           netVars, callVars, queueVars
<1> QED
    BY <1>1, <1>2, <1>3, <1>4, <1>5, <1>6

LEMMA PushTakenEndsStep ==
    ASSUME EndsInv, PushTaken
    PROVE  EndsInv'
<1> USE SubsAssumption, Bounds DEF EndsInv
<1>1. TypeOK'
    <2>1. target \in Subs /\ source \in Subs /\ emitted[source] \in 1..MaxEvents
        BY DEF PushTaken, TypeOK, Pushes
    <2>2. <<source, emitted[source]>> \in Events
        BY <2>1 DEF Events
    <2>3. pushed' \in [Subs -> Seq(Events)]
        BY <2>1, <2>2 DEF PushTaken, TypeOK
    <2> QED
        BY <2>3 DEF PushTaken, Pushed, TypeOK, netVars, serverVars, callVars
<1>2. Numbered'
    BY DEF PushTaken, TypeOK, Numbered, Unnumbered, Pushed, Ids, Ended, netVars, serverVars,
           callVars
<1>3. Pushes'
    BY DEF PushTaken, TypeOK, Pushes, Pushed, netVars, serverVars, callVars
<1>4. OwnEntries'
    BY DEF PushTaken, TypeOK, OwnEntries, Removed, Unstreamed, Unnumbered, Ids, Ended, Subs,
           netVars, serverVars, callVars
<1>5. OwnConnection'
    BY DEF PushTaken, TypeOK, OwnConnection, Unnumbered, Ended, netVars, serverVars, callVars
<1>6. Leaving'
    BY DEF PushTaken, TypeOK, Leaving, Removed, ShutDown, Unstreamed, Unnumbered, Ended, Subs,
           netVars, serverVars, callVars
<1> QED
    BY <1>1, <1>2, <1>3, <1>4, <1>5, <1>6

LEMMA PushGivenUpEndsStep ==
    ASSUME EndsInv, PushGivenUp
    PROVE  EndsInv'
<1> USE SubsAssumption, Bounds DEF EndsInv
<1>1. TypeOK'
    BY DEF PushGivenUp, TypeOK, Pushed, Ids, Ended, netVars, serverVars, callVars, queueVars
<1>2. Numbered'
    BY DEF PushGivenUp, TypeOK, Numbered, Unnumbered, Pushed, Ids, Ended, netVars, serverVars,
           callVars, queueVars
<1>3. Pushes'
    BY DEF PushGivenUp, TypeOK, Pushes, Pushed, netVars, serverVars, callVars, queueVars
<1>4. OwnEntries'
    BY DEF PushGivenUp, TypeOK, OwnEntries, Removed, Unstreamed, Unnumbered, Ids, Ended, Subs,
           netVars, serverVars, callVars, queueVars
<1>5. OwnConnection'
    BY DEF PushGivenUp, TypeOK, OwnConnection, Unnumbered, Ended, netVars, serverVars, callVars,
           queueVars
<1>6. Leaving'
    BY DEF PushGivenUp, TypeOK, Leaving, Removed, ShutDown, Unstreamed, Unnumbered, Ended, Subs,
           netVars, serverVars, callVars, queueVars
<1> QED
    BY <1>1, <1>2, <1>3, <1>4, <1>5, <1>6

LEMMA LoseConnectionEndsStep ==
    ASSUME EndsInv, LoseConnection
    PROVE  EndsInv'
<1> USE SubsAssumption, Bounds DEF EndsInv
<1>1. TypeOK'
    BY DEF LoseConnection, TypeOK, Ids, Ended, listenerVars, callVars, queueVars
<1>2. Numbered'
    BY DEF LoseConnection, TypeOK, Numbered, Unnumbered, Ids, Ended, listenerVars, callVars,
           queueVars
<1>3. Pushes'
    BY DEF LoseConnection, TypeOK, Pushes, Reading, listenerVars, callVars, queueVars
<1>4. OwnEntries'
    BY DEF LoseConnection, TypeOK, OwnEntries, Removed, Unstreamed, Unnumbered, Ids, Ended,
           Subs, listenerVars, callVars, queueVars
<1>5. OwnConnection'
    BY DEF LoseConnection, TypeOK, OwnConnection, Unnumbered, Ended, listenerVars, callVars,
           queueVars
<1>6. Leaving'
    BY DEF LoseConnection, TypeOK, Leaving, Removed, ShutDown, Unstreamed, Unnumbered, Ended,
           Subs, listenerVars, callVars, queueVars
<1> QED
    BY <1>1, <1>2, <1>3, <1>4, <1>5, <1>6

LEMMA RemoveAllStreamsEndsStep ==
    ASSUME EndsInv, RemoveAllStreams
    PROVE  EndsInv'
<1> USE SubsAssumption, Bounds DEF EndsInv
<1>1. TypeOK'
    BY DEF RemoveAllStreams, TypeOK, Stopped, Ids, Ended, listenerVars, serverVars, callVars,
           queueVars
<1>2. Numbered'
    BY DEF RemoveAllStreams, TypeOK, Numbered, Unnumbered, Stopped, Ids, Ended, listenerVars,
           serverVars, callVars, queueVars
<1>3. Pushes'
    BY DEF RemoveAllStreams, TypeOK, Pushes, Reading, listenerVars, serverVars, callVars,
           queueVars
<1>4. OwnEntries'
    BY DEF RemoveAllStreams, TypeOK, OwnEntries, Removed, Unstreamed, Unnumbered, Ids, Ended,
           Subs, listenerVars, serverVars, callVars, queueVars
<1>5. OwnConnection'
    BY DEF RemoveAllStreams, TypeOK, OwnConnection, Unnumbered, Ended, listenerVars, serverVars,
           callVars, queueVars
<1>6. Leaving'
    BY DEF RemoveAllStreams, TypeOK, Leaving, Removed, ShutDown, Unstreamed, Unnumbered, Ended,
           Stopped, Subs, listenerVars, serverVars, callVars, queueVars
<1> QED
    BY <1>1, <1>2, <1>3, <1>4, <1>5, <1>6

LEMMA ReconnectEndsStep ==
    ASSUME EndsInv, Reconnect
    PROVE  EndsInv'
<1> USE SubsAssumption, Bounds DEF EndsInv
<1>1. TypeOK'
    <2>1. conn' \in 1..MaxConns
        BY DEF Reconnect, TypeOK, Ids
    <2>2. nextId' \in 1..MaxIds + 1
        BY DEF Reconnect, TypeOK
    <2> QED
        BY <2>1, <2>2 DEF Reconnect, TypeOK, listenerVars, callVars, queueVars
<1>2. Numbered'
    BY DEF Reconnect, TypeOK, Numbered, Unnumbered, Ids, Ended, listenerVars, callVars,
           queueVars
<1>3. Pushes'
    BY DEF Reconnect, TypeOK, Pushes, listenerVars, callVars, queueVars
<1>4. OwnEntries'
    BY DEF Reconnect, TypeOK, OwnEntries, Removed, Unstreamed, Unnumbered, Ids, Ended, Subs,
           listenerVars, callVars, queueVars
<1>5. OwnConnection'
    <2>1. registered = {} /\ conn' = conn + 1 /\ conn \in Nat /\ UNCHANGED <<registered, pc, home, sentOn>>
        BY DEF Reconnect, OwnConnection, callVars, TypeOK
    <2> QED
        BY <2>1, SMTT(30) DEF OwnConnection, TypeOK
<1>6. Leaving'
    BY DEF Reconnect, TypeOK, Leaving, Removed, ShutDown, Unstreamed, Unnumbered, Ended, Subs,
           listenerVars, callVars, queueVars
<1> QED
    BY <1>1, <1>2, <1>3, <1>4, <1>5, <1>6

\* ... and one per action, for the whole.
LEMMA SubscribeStep ==
    ASSUME SubInv, NEW k \in Subs, Subscribe(k)
    PROVE  SubInv'
<1> USE SubsAssumption, Bounds DEF SubInv, EndsInv
<1>1. EndsInv'
    BY SubscribeEndsStep
<1>2. IdsDistinct'
    BY DEF Subscribe, TypeOK, Numbered, IdsDistinct, Unnumbered, Goto, Ids, netVars,
           listenerVars, serverVars, queueVars
<1>3. OwnEvents'
    BY DEF Subscribe, TypeOK, OwnEvents, netVars, listenerVars, serverVars, queueVars
<1>4. Live'
    BY DEF Subscribe, TypeOK, Numbered, IdsDistinct, OwnEntries, OwnEvents, OwnConnection,
           Leaving, Live, Queued, Removed, Relaying, Unstreamed, Unnumbered, Goto, Ids, netVars,
           listenerVars, serverVars, queueVars
<1>5. Queued'
    BY DEF Subscribe, TypeOK, Queued, Leaving, Unstreamed, Unnumbered, Goto, netVars,
           listenerVars, serverVars, queueVars
<1>6. CurrentEntries'
    BY DEF Subscribe, TypeOK, CurrentEntries, OwnEntries, OwnConnection, Unstreamed, Unnumbered,
           Goto, Ids, netVars, listenerVars, serverVars, queueVars
<1> QED
    BY <1>1, <1>2, <1>3, <1>4, <1>5, <1>6

LEMMA RegisteredStep ==
    ASSUME SubInv, NEW k \in Subs, Registered(k)
    PROVE  SubInv'
<1> USE SubsAssumption, Bounds DEF SubInv, EndsInv
<1>1. EndsInv'
    BY RegisteredEndsStep
<1>2. IdsDistinct'
    <2>1. id' = [id EXCEPT ![k] = nextId] /\ pc' = [pc EXCEPT ![k] = "add"] /\ nextId' = nextId + 1
        BY DEF Registered, Goto
    <2>2. pc[k] \in Unnumbered /\ nextId \in Ids /\ nextId \in Nat /\ nextId # 0
        BY DEF Registered, Unnumbered, Ids
    <2>3. home' = [home EXCEPT ![k] = conn] /\ conn' = conn
        BY DEF Registered, netVars
    <2>4. \A j \in Subs : j # k => pc'[j] = pc[j] /\ id'[j] = id[j] /\ home'[j] = home[j]
        BY <2>1, <2>3 DEF TypeOK
    <2>5. pc'[k] = "add" /\ id'[k] = nextId /\ home'[k] = conn
        BY <2>1, <2>3 DEF TypeOK
    <2>6. ASSUME NEW j \in Subs, j # k, pc[j] \notin Unnumbered, ReusesIds => home[j] = conn
          PROVE  id[j] < nextId /\ id[j] < nextId' /\ id[j] # nextId
        <3>1. id[j] < nextId /\ id[j] \in Nat
            BY <2>6 DEF IdsDistinct, TypeOK
        <3> QED
            BY <2>1, <2>2, <3>1
    <2>7. ASSUME NEW i \in Subs, pc'[i] \notin Unnumbered, ReusesIds => home'[i] = conn'
          PROVE  id'[i] < nextId'
        BY <2>1, <2>2, <2>3, <2>4, <2>5, <2>6, <2>7
    <2>8. ASSUME NEW i \in Subs, NEW j \in Subs, pc'[i] \notin Unnumbered, pc'[j] \notin Unnumbered,
                 id'[j] = id'[i], ReusesIds => home'[j] = home'[i]
          PROVE  j = i
        <3>1. CASE i # k /\ j # k
            BY <2>4, <2>8, <3>1 DEF IdsDistinct
        <3>2. CASE i = k
            BY <2>4, <2>5, <2>6, <2>8, <3>2
        <3>3. CASE j = k
            BY <2>4, <2>5, <2>6, <2>8, <3>3
        <3> QED
            BY <3>1, <3>2, <3>3
    <2> QED
        BY <2>7, <2>8 DEF IdsDistinct
<1>3. OwnEvents'
    BY DEF Registered, TypeOK, OwnEvents, netVars, listenerVars, queueVars
<1>4. Live'
    BY SMTT(30)
       DEF Registered, TypeOK, Numbered, IdsDistinct, OwnEntries, OwnEvents, OwnConnection,
           Leaving, Live, Queued, Removed, Relaying, Unstreamed, Unnumbered, Goto, Reading, Ids,
           netVars, listenerVars, queueVars
<1>5. Queued'
    BY DEF Registered, TypeOK, Queued, Leaving, Unstreamed, Unnumbered, Goto, netVars,
           listenerVars, queueVars
<1>6. CurrentEntries'
    <2>1. /\ net = "up" /\ home' = [home EXCEPT ![k] = conn] /\ pc' = [pc EXCEPT ![k] = "add"]
          /\ pc[k] = "call" /\ UNCHANGED <<net, conn, table>>
        BY DEF Registered, Broken, Goto, netVars
    <2>2. \A n \in Ids : table[n] # k
        BY <2>1 DEF OwnEntries, Unstreamed, Unnumbered
    <2> QED
        BY <2>1, <2>2 DEF CurrentEntries, TypeOK
<1> QED
    BY <1>1, <1>2, <1>3, <1>4, <1>5, <1>6

LEMMA RegisterFailsStep ==
    ASSUME SubInv, NEW k \in Subs, RegisterFails(k)
    PROVE  SubInv'
<1> USE SubsAssumption, Bounds DEF SubInv, EndsInv
<1>1. EndsInv'
    BY RegisterFailsEndsStep
<1>2. IdsDistinct'
    BY DEF RegisterFails, TypeOK, Numbered, IdsDistinct, Unnumbered, Goto, Ids, netVars,
           listenerVars, serverVars, queueVars
<1>3. OwnEvents'
    BY DEF RegisterFails, TypeOK, OwnEvents, netVars, listenerVars, serverVars, queueVars
<1>4. Live'
    BY SMTT(30)
       DEF RegisterFails, TypeOK, Numbered, IdsDistinct, OwnEntries, OwnEvents, OwnConnection,
           Leaving, Live, Queued, Removed, Relaying, Unstreamed, Unnumbered, Goto, Reading, Ids,
           netVars, listenerVars, serverVars, queueVars
<1>5. Queued'
    BY DEF RegisterFails, TypeOK, Queued, Leaving, Unstreamed, Unnumbered, Goto, netVars,
           listenerVars, serverVars, queueVars
<1>6. CurrentEntries'
    BY DEF RegisterFails, TypeOK, CurrentEntries, OwnEntries, OwnConnection, Unstreamed,
           Unnumbered, Broken, Goto, Ids, netVars, listenerVars, serverVars, queueVars
<1> QED
    BY <1>1, <1>2, <1>3, <1>4, <1>5, <1>6

LEMMA AddStreamStep ==
    ASSUME SubInv, NEW k \in Subs, AddStream(k)
    PROVE  SubInv'
<1> USE SubsAssumption, Bounds DEF SubInv, EndsInv
<1>1. EndsInv'
    BY AddStreamEndsStep
<1>2. IdsDistinct'
    BY DEF AddStream, TypeOK, Numbered, IdsDistinct, Unnumbered, Goto, Ids, netVars,
           listenerVars, serverVars, callVars, queueVars
<1>3. OwnEvents'
    BY DEF AddStream, TypeOK, OwnEvents, netVars, listenerVars, serverVars, callVars, queueVars
<1>4. Live'
    <2>1. id[k] \in Ids /\ table' = [table EXCEPT ![id[k]] = k]
        BY DEF AddStream, Numbered, IdsDistinct, Unnumbered
    <2>2. pushed[k] = <<>> /\ Contiguous(<<>>, k)
        BY DEF AddStream, Queued, Unstreamed, Contiguous
    <2>0. table[id[k]] = NoSub
        <3>1. ASSUME NEW j \in Subs, table[id[k]] = j PROVE FALSE
            <4>1. id[j] = id[k] /\ pc[j] \notin Unstreamed /\ j # k
                BY <2>1, <3>1, SubsAssumption DEF OwnEntries, AddStream, Unstreamed
            <4>2. ReusesIds => home[j] = home[k]
                BY <2>1, <3>1, SubsAssumption DEF CurrentEntries, AddStream
            <4>3. pc[j] \notin Unnumbered /\ pc[k] \notin Unnumbered
                BY <4>1 DEF AddStream, Unstreamed, Unnumbered
            <4> QED
                BY <4>1, <4>2, <4>3 DEF IdsDistinct
        <3> QED
            BY <2>1, <3>1 DEF TypeOK
    <2>3. \A j \in Subs : pc'[j] \in Relaying /\ j # k =>
            pc[j] \in Relaying /\ stream'[j] = stream[j] /\ (table[id[j]] = j <=> table'[id[j]] = j)
        BY <2>0, <2>1, SubsAssumption, SMTT(30) DEF AddStream, Goto, TypeOK, Relaying, Numbered
    <2>4. stream'[k] = "open" /\ table'[id[k]] = k
        BY <2>1 DEF AddStream, TypeOK
    <2> QED
        BY <2>2, <2>3, <2>4 DEF AddStream, Live, serverVars, callVars, queueVars, listenerVars
<1>5. Queued'
    BY DEF AddStream, TypeOK, Queued, Leaving, Unstreamed, Unnumbered, Goto, netVars,
           listenerVars, serverVars, callVars, queueVars
<1>6. CurrentEntries'
    BY DEF AddStream, TypeOK, CurrentEntries, OwnEntries, OwnConnection, Unstreamed, Unnumbered,
           Goto, Ids, netVars, listenerVars, serverVars, callVars, queueVars
<1> QED
    BY <1>1, <1>2, <1>3, <1>4, <1>5, <1>6

LEMMA RecvStep ==
    ASSUME SubInv, NEW k \in Subs, Recv(k)
    PROVE  SubInv'
<1> USE SubsAssumption, Bounds DEF SubInv, EndsInv
<1>1. EndsInv'
    BY RecvEndsStep
<1>2. IdsDistinct'
    BY DEF Recv, TypeOK, Numbered, IdsDistinct, Unnumbered, Goto, Ids, netVars, listenerVars,
           serverVars, callVars
<1>3. OwnEvents'
    BY DEF Recv, TypeOK, OwnEvents, netVars, listenerVars, serverVars, callVars
<1>4. Live'
    BY SMTT(30)
       DEF Recv, TypeOK, Numbered, IdsDistinct, OwnEntries, OwnEvents, OwnConnection, Leaving,
           Live, Queued, Removed, Relaying, Unstreamed, Unnumbered, Goto, Ids, netVars,
           listenerVars, serverVars, callVars
<1>5. Queued'
    <2>1. received' = [received EXCEPT ![k] = Append(@, pushed[k][Len(@) + 1])]
        BY DEF Recv
    <2>2. Contiguous(pushed[k], k) /\ Begins(received[k], pushed[k]) /\ Len(received[k]) < Len(pushed[k])
        BY DEF Recv, Live, Queued, Relaying
    <2>3. received'[k] = Append(received[k], pushed[k][Len(received[k]) + 1])
        BY <2>1 DEF TypeOK
    <2>4. received[k] \in Seq(Events) /\ pushed[k] \in Seq(Events)
        BY DEF TypeOK
    <2>5. Begins(received'[k], pushed[k])
        BY <2>2, <2>3, <2>4 DEF Begins
    <2>6. Contiguous(received'[k], k)
        <3>1. DOMAIN received'[k] = 1..Len(received[k]) + 1 /\ Len(received[k]) \in Nat
            BY <2>3, <2>4
        <3>2. \A i \in DOMAIN received'[k] : received'[k][i] = pushed[k][i] /\ i \in DOMAIN pushed[k]
            BY <2>2, <2>3, <2>4, <3>1 DEF Begins
        <3>3. received'[k][1] = pushed[k][1]
            BY <3>1, <3>2
        <3> QED
            BY <2>2, <3>2, <3>3 DEF Contiguous
    <2> QED
        BY <2>1, <2>5, <2>6 DEF Recv, Goto, Queued, TypeOK, Unstreamed, Unnumbered
<1>6. CurrentEntries'
    BY DEF Recv, TypeOK, CurrentEntries, OwnEntries, OwnConnection, Unstreamed, Unnumbered,
           Goto, Ids, netVars, listenerVars, serverVars, callVars
<1> QED
    BY <1>1, <1>2, <1>3, <1>4, <1>5, <1>6

LEMMA DeliverStep ==
    ASSUME SubInv, NEW k \in Subs, Deliver(k)
    PROVE  SubInv'
<1> USE SubsAssumption, Bounds DEF SubInv, EndsInv
<1>1. EndsInv'
    BY DeliverEndsStep
<1>2. IdsDistinct'
    BY DEF Deliver, TypeOK, Numbered, IdsDistinct, Unnumbered, Goto, Ids, netVars, listenerVars,
           serverVars, callVars, queueVars
<1>3. OwnEvents'
    BY DEF Deliver, TypeOK, OwnEvents, netVars, listenerVars, serverVars, callVars, queueVars
<1>4. Live'
    BY SMTT(30) DEF Deliver, TypeOK, Numbered, IdsDistinct, OwnEntries, OwnEvents, OwnConnection,
           Leaving, Live, Queued, Removed, Relaying, Unstreamed, Unnumbered, Goto, Ids, netVars,
           listenerVars, serverVars, callVars, queueVars
<1>5. Queued'
    BY DEF Deliver, TypeOK, Queued, Leaving, Unstreamed, Unnumbered, Goto, netVars,
           listenerVars, serverVars, callVars, queueVars
<1>6. CurrentEntries'
    BY DEF Deliver, TypeOK, CurrentEntries, OwnEntries, OwnConnection, Unstreamed, Unnumbered,
           Goto, Ids, netVars, listenerVars, serverVars, callVars, queueVars
<1> QED
    BY <1>1, <1>2, <1>3, <1>4, <1>5, <1>6

LEMMA LeaveStep ==
    ASSUME SubInv, NEW k \in Subs, Leave(k)
    PROVE  SubInv'
<1> USE SubsAssumption, Bounds DEF SubInv, EndsInv
<1>1. EndsInv'
    BY LeaveEndsStep
<1>2. IdsDistinct'
    BY DEF Leave, TypeOK, Numbered, IdsDistinct, Unnumbered, Goto, Ids, netVars, listenerVars,
           serverVars, callVars, queueVars
<1>3. OwnEvents'
    BY DEF Leave, TypeOK, OwnEvents, netVars, listenerVars, serverVars, callVars, queueVars
<1>4. Live'
    BY SMTT(30)
       DEF Leave, TypeOK, Numbered, IdsDistinct, OwnEntries, OwnEvents, OwnConnection, Leaving,
           Live, Queued, Removed, Relaying, Unstreamed, Unnumbered, Goto, Ids, netVars,
           listenerVars, serverVars, callVars, queueVars
<1>5. Queued'
    BY DEF Leave, TypeOK, Queued, Leaving, Unstreamed, Unnumbered, Goto, netVars, listenerVars,
           serverVars, callVars, queueVars
<1>6. CurrentEntries'
    BY DEF Leave, TypeOK, CurrentEntries, OwnEntries, OwnConnection, Unstreamed, Unnumbered,
           Goto, Ids, netVars, listenerVars, serverVars, callVars, queueVars
<1> QED
    BY <1>1, <1>2, <1>3, <1>4, <1>5, <1>6

LEMMA ShutdownStep ==
    ASSUME SubInv, NEW k \in Subs, Shutdown(k)
    PROVE  SubInv'
<1> USE SubsAssumption, Bounds DEF SubInv, EndsInv
<1>1. EndsInv'
    BY ShutdownEndsStep
<1>2. IdsDistinct'
    BY DEF Shutdown, TypeOK, Numbered, IdsDistinct, Unnumbered, Goto, Ids, netVars,
           listenerVars, serverVars, callVars, queueVars
<1>3. OwnEvents'
    BY DEF Shutdown, TypeOK, OwnEvents, netVars, listenerVars, serverVars, callVars, queueVars
<1>4. Live'
    BY SMTT(30) DEF Shutdown, TypeOK, Numbered, IdsDistinct, OwnEntries, OwnEvents, OwnConnection,
           Leaving, Live, Queued, Removed, Relaying, Unstreamed, Unnumbered, Goto, Stopped, Ids,
           netVars, listenerVars, serverVars, callVars, queueVars
<1>5. Queued'
    BY DEF Shutdown, TypeOK, Queued, Leaving, Unstreamed, Unnumbered, Goto, netVars,
           listenerVars, serverVars, callVars, queueVars
<1>6. CurrentEntries'
    BY DEF Shutdown, TypeOK, CurrentEntries, OwnEntries, OwnConnection, Unstreamed, Unnumbered,
           Goto, Ids, netVars, listenerVars, serverVars, callVars, queueVars
<1> QED
    BY <1>1, <1>2, <1>3, <1>4, <1>5, <1>6

LEMMA SendDeregisterStep ==
    ASSUME SubInv, NEW k \in Subs, SendDeregister(k)
    PROVE  SubInv'
<1> USE SubsAssumption, Bounds DEF SubInv, EndsInv
<1>0. /\ pc[k] = "dereg"
      /\ \/ net = "up" /\ pc' = [pc EXCEPT ![k] = "await"] /\ sentOn' = [sentOn EXCEPT ![k] = conn]
         \/ net # "up" /\ pc' = [pc EXCEPT ![k] = "remove"] /\ sentOn' = sentOn
      /\ UNCHANGED <<conn, net, source, target, table, nextId, registered, kept, emitted>>
      /\ UNCHANGED <<id, home, ctx, stream, pushed, received>>
    <2>1. CASE net = "up"
        BY <2>1 DEF SendDeregister, Goto, netVars, listenerVars, serverVars, queueVars
    <2>2. CASE net # "up"
        BY <2>2 DEF SendDeregister, Goto, netVars, listenerVars, serverVars, queueVars
    <2> QED
        BY <2>1, <2>2
<1>1. EndsInv'
    BY SendDeregisterEndsStep
<1>2. IdsDistinct'
    BY <1>0 DEF SendDeregister, Goto, Numbered, IdsDistinct, TypeOK, Unnumbered
<1>3. OwnEvents'
    BY DEF SendDeregister, TypeOK, OwnEvents, netVars, listenerVars, serverVars, queueVars
<1>4. Live'
    <2>1. \A j \in Subs : pc'[j] \in Relaying => pc[j] \in Relaying
        BY <1>0 DEF TypeOK, Relaying
    <2> QED
        BY <1>0, <2>1 DEF Live
<1>5. Queued'
    <2>1. \A j \in Subs : pc'[j] \in Unstreamed => pc[j] \in Unstreamed
        BY <1>0 DEF TypeOK, Unstreamed, Unnumbered
    <2> QED
        BY <1>0, <2>1 DEF Queued
<1>6. CurrentEntries'
    BY SMTT(30) DEF SendDeregister, TypeOK, CurrentEntries, OwnEntries, OwnConnection, Unstreamed,
           Unnumbered, Goto, Ids, netVars, listenerVars, serverVars, queueVars
<1> QED
    BY <1>1, <1>2, <1>3, <1>4, <1>5, <1>6

LEMMA DeregisteredStep ==
    ASSUME SubInv, NEW k \in Subs, Deregistered(k)
    PROVE  SubInv'
<1> USE SubsAssumption, Bounds DEF SubInv, EndsInv
<1>1. EndsInv'
    BY DeregisteredEndsStep
<1>2. IdsDistinct'
    BY DEF Deregistered, TypeOK, Numbered, IdsDistinct, Unnumbered, Goto, Ids, netVars,
           listenerVars, queueVars
<1>3. OwnEvents'
    BY DEF Deregistered, TypeOK, OwnEvents, netVars, listenerVars, queueVars
<1>4. Live'
    BY SMTT(30)
       DEF Deregistered, TypeOK, Numbered, IdsDistinct, OwnEntries, OwnEvents, OwnConnection,
           Leaving, Live, Queued, Removed, Relaying, Unstreamed, Unnumbered, Goto, Reading, Ids,
           netVars, listenerVars, queueVars
<1>5. Queued'
    BY DEF Deregistered, TypeOK, Queued, Leaving, Unstreamed, Unnumbered, Goto, netVars,
           listenerVars, queueVars
<1>6. CurrentEntries'
    BY DEF Deregistered, TypeOK, CurrentEntries, OwnEntries, OwnConnection, Unstreamed,
           Unnumbered, Broken, Goto, Ids, netVars, listenerVars, queueVars
<1> QED
    BY <1>1, <1>2, <1>3, <1>4, <1>5, <1>6

LEMMA RemoveStreamStep ==
    ASSUME SubInv, NEW k \in Subs, RemoveStream(k)
    PROVE  SubInv'
<1> USE SubsAssumption, Bounds DEF SubInv, EndsInv
<1>1. EndsInv'
    BY RemoveStreamEndsStep
<1>2. IdsDistinct'
    BY DEF RemoveStream, TypeOK, Numbered, IdsDistinct, Unnumbered, Goto, Ids, netVars,
           listenerVars, serverVars, callVars, queueVars
<1>3. OwnEvents'
    BY DEF RemoveStream, TypeOK, OwnEvents, netVars, listenerVars, serverVars, callVars,
           queueVars
<1>4. Live'
    <2>1. \A j \in Subs : pc'[j] \in Relaying => j # k /\ pc[j] \in Relaying
        BY DEF RemoveStream, Goto, TypeOK, Relaying
    <2>2. id[k] \in Ids /\ table' = [table EXCEPT ![id[k]] = NoSub] /\ stream' = Stopped({table[id[k]]})
        BY DEF RemoveStream, Numbered, Unnumbered
    <2>3. ASSUME NEW j \in Subs, stream[j] = "open", stream'[j] # "open"
          PROVE  table'[id[j]] = NoSub
        <3>1. table[id[k]] = j
            BY <2>2, <2>3 DEF Stopped
        <3>2. id[j] = id[k]
            BY <2>2, <3>1, SubsAssumption DEF OwnEntries
        <3> QED
            BY <2>2, <3>2 DEF TypeOK
    <2>4. ASSUME NEW j \in Subs, stream'[j] = "open"
          PROVE  stream[j] = "open" /\ (table[id[j]] = j => table'[id[j]] = j)
        <3>1. stream[j] = "open" /\ table[id[k]] # j
            BY <2>2, <2>4 DEF Stopped
        <3> QED
            BY <2>2, <3>1 DEF TypeOK
    <2>5. ASSUME NEW j \in Subs, pc[j] \in Relaying, table[id[j]] # j PROVE table'[id[j]] # j
        <3>1. id[j] \in Ids /\ NoSub # j
            BY <2>5, SubsAssumption DEF Numbered, Relaying, Unnumbered
        <3> QED
            BY <2>2, <2>5, <3>1 DEF TypeOK
    <2>6. target = NoSub /\ UNCHANGED <<target, id, emitted, pushed>>
        BY DEF RemoveStream, Reading, listenerVars, serverVars, callVars, queueVars
    <2> QED
        BY <2>1, <2>3, <2>4, <2>5, <2>6, SubsAssumption DEF Live
<1>5. Queued'
    BY DEF RemoveStream, TypeOK, Queued, Leaving, Unstreamed, Unnumbered, Goto, netVars,
           listenerVars, serverVars, callVars, queueVars
<1>6. CurrentEntries'
    BY DEF RemoveStream, TypeOK, CurrentEntries, OwnEntries, OwnConnection, Unstreamed,
           Unnumbered, Goto, Ids, netVars, listenerVars, serverVars, callVars, queueVars
<1> QED
    BY <1>1, <1>2, <1>3, <1>4, <1>5, <1>6

LEMMA ExitProcessStep ==
    ASSUME SubInv, NEW k \in Subs, ExitProcess(k)
    PROVE  SubInv'
<1> USE SubsAssumption, Bounds DEF SubInv, EndsInv
<1>1. EndsInv'
    BY ExitProcessEndsStep
<1>2. IdsDistinct'
    BY DEF ExitProcess, TypeOK, Numbered, IdsDistinct, Unnumbered, Ids, netVars, listenerVars,
           serverVars, callVars, queueVars
<1>3. OwnEvents'
    BY DEF ExitProcess, TypeOK, OwnEvents, netVars, listenerVars, serverVars, callVars,
           queueVars
<1>4. Live'
    BY SMTT(30)
       DEF ExitProcess, TypeOK, Numbered, IdsDistinct, OwnEntries, OwnEvents, OwnConnection,
           Leaving, Live, Queued, Removed, Relaying, Unstreamed, Unnumbered, Ids, netVars,
           listenerVars, serverVars, callVars, queueVars
<1>5. Queued'
    BY DEF ExitProcess, TypeOK, Queued, Leaving, Unstreamed, Unnumbered, netVars, listenerVars,
           serverVars, callVars, queueVars
<1>6. CurrentEntries'
    BY DEF ExitProcess, TypeOK, CurrentEntries, OwnEntries, OwnConnection, Unstreamed,
           Unnumbered, Ids, netVars, listenerVars, serverVars, callVars, queueVars
<1> QED
    BY <1>1, <1>2, <1>3, <1>4, <1>5, <1>6

LEMMA CancelStep ==
    ASSUME SubInv, NEW k \in Subs, Cancel(k)
    PROVE  SubInv'
<1> USE SubsAssumption, Bounds DEF SubInv, EndsInv
<1>1. EndsInv'
    BY CancelEndsStep
<1>2. IdsDistinct'
    BY DEF Cancel, TypeOK, Numbered, IdsDistinct, Unnumbered, Ids, netVars, listenerVars,
           serverVars, callVars, queueVars
<1>3. OwnEvents'
    BY DEF Cancel, TypeOK, OwnEvents, netVars, listenerVars, serverVars, callVars, queueVars
<1>4. Live'
    BY DEF Cancel, TypeOK, Numbered, IdsDistinct, OwnEntries, OwnEvents, OwnConnection, Leaving,
           Live, Queued, Removed, Relaying, Unstreamed, Unnumbered, Ids, netVars, listenerVars,
           serverVars, callVars, queueVars
<1>5. Queued'
    BY DEF Cancel, TypeOK, Queued, Leaving, Unstreamed, Unnumbered, netVars, listenerVars,
           serverVars, callVars, queueVars
<1>6. CurrentEntries'
    BY DEF Cancel, TypeOK, CurrentEntries, OwnEntries, OwnConnection, Unstreamed, Unnumbered,
           Ids, netVars, listenerVars, serverVars, callVars, queueVars
<1> QED
    BY <1>1, <1>2, <1>3, <1>4, <1>5, <1>6

LEMMA RouteEventStep ==
    ASSUME SubInv, NEW k \in Subs, RouteEvent(k)
    PROVE  SubInv'
<1> USE SubsAssumption, Bounds DEF SubInv, EndsInv
<1>0. id[k] \in Ids /\ target' = table[id[k]] /\ target' \in {k, NoSub} /\ source' = target'
    <2>1. id[k] \in Ids
        BY DEF RouteEvent, OwnConnection, Numbered, IdsDistinct
    <2>2. target' = table[id[k]] /\ source' = IF target' = NoSub THEN NoSub ELSE k
        BY DEF RouteEvent
    <2>3. ASSUME NEW j \in Subs, table[id[k]] = j PROVE j = k
        <3>1. id[j] = id[k] /\ pc[j] \notin Unnumbered
            BY <2>1, <2>3, SubsAssumption DEF OwnEntries, Unstreamed
        <3>2. ReusesIds => home[j] = home[k]
            BY <2>1, <2>3, SubsAssumption DEF CurrentEntries, OwnConnection, RouteEvent
        <3>3. pc[k] \notin Unnumbered
            BY DEF RouteEvent, OwnConnection
        <3> QED
            BY <3>1, <3>2, <3>3 DEF IdsDistinct
    <2>4. target' \in {k, NoSub}
        BY <2>1, <2>2, <2>3 DEF TypeOK
    <2> QED
        BY <2>1, <2>2, <2>4
<1>1. EndsInv'
    BY RouteEventEndsStep
<1>2. IdsDistinct'
    BY DEF RouteEvent, TypeOK, Numbered, IdsDistinct, Unnumbered, Ids, netVars, callVars,
           queueVars
<1>3. OwnEvents'
    BY <1>0 DEF RouteEvent, TypeOK, OwnEvents, Reading
<1>4. Live'
    <2> SUFFICES ASSUME NEW j \in Subs, pc'[j] \in Relaying
                 PROVE  /\ Contiguous(pushed'[j], j)
                        /\ stream'[j] = "open" =>
                            /\ table'[id'[j]] = j
                            /\ pushed'[j] # <<>> =>
                                emitted'[j] = IF target' = j THEN Latest(pushed'[j]) + 1 ELSE Latest(pushed'[j])
                        /\ stream'[j] # "open" => target' # j /\ table'[id'[j]] # j
        BY DEF Live
    <2>1. Contiguous(pushed'[j], j)
        BY DEF RouteEvent, Live, queueVars
    <2>2. ASSUME stream'[j] = "open" PROVE table'[id'[j]] = j
        BY <2>2 DEF RouteEvent, Live, callVars
    <2>3. ASSUME stream'[j] = "open"
         PROVE  emitted'[j] = IF target' = j THEN emitted[j] + 1 ELSE emitted[j]
        <3>1. emitted' = [emitted EXCEPT ![k] = @ + 1] /\ UNCHANGED <<stream, pc>>
            BY DEF RouteEvent
        <3>2. table[id[j]] = j
            BY <2>3, <3>1 DEF Live
        <3>3. j = k => target' = j
            BY <1>0, <3>2
        <3>4. target' = j => j = k
            BY <1>0, SubsAssumption
        <3> QED
            BY <3>1, <3>3, <3>4 DEF TypeOK
    <2>4. pc[j] \in Relaying /\ target = NoSub /\ UNCHANGED <<stream, pushed>>
        BY DEF RouteEvent, Reading, queueVars
    <2>5. ASSUME stream[j] = "open", pushed[j] # <<>>
         PROVE  emitted[j] = Latest(pushed[j])
        BY <2>4, <2>5 DEF Live, TypeOK
    <2>6. ASSUME stream'[j] = "open", pushed'[j] # <<>>
         PROVE  emitted'[j] = IF target' = j THEN Latest(pushed'[j]) + 1 ELSE Latest(pushed'[j])
        BY <2>3, <2>4, <2>5, <2>6
    <2>7. ASSUME stream'[j] # "open" PROVE target' # j /\ table'[id'[j]] # j
        BY <2>7, <1>0, <2>4, SubsAssumption DEF RouteEvent, Live, callVars
    <2> QED
        BY <2>1, <2>2, <2>3, <2>4, <2>5, <2>6, <2>7
<1>5. Queued'
    BY DEF RouteEvent, TypeOK, Queued, Leaving, Unstreamed, Unnumbered, netVars, callVars,
           queueVars
<1>6. CurrentEntries'
    BY DEF RouteEvent, TypeOK, CurrentEntries, OwnEntries, OwnConnection, Unstreamed,
           Unnumbered, Ids, netVars, callVars, queueVars
<1> QED
    BY <1>1, <1>2, <1>3, <1>4, <1>5, <1>6

LEMMA PushTakenStep ==
    ASSUME SubInv, PushTaken
    PROVE  SubInv'
<1> USE SubsAssumption, Bounds DEF SubInv, EndsInv
<1>1. EndsInv'
    BY PushTakenEndsStep
<1>2. IdsDistinct'
    BY DEF PushTaken, TypeOK, Numbered, IdsDistinct, Unnumbered, Ids, netVars, serverVars,
           callVars
<1>3. OwnEvents'
    BY DEF PushTaken, TypeOK, OwnEvents, Pushed, netVars, serverVars, callVars
<1>4. Live'
    <2>1. target = source /\ target \in Subs /\ emitted[target] \in Nat
        BY DEF PushTaken, TypeOK, OwnEvents
    <2>2. pushed' = [pushed EXCEPT ![target] = Append(@, <<target, emitted[target]>>)] /\ target' = NoSub
        BY <2>1 DEF PushTaken, Pushed
    <2>3. ASSUME pc[target] \in Relaying
          PROVE  Contiguous(pushed'[target], target) /\ Latest(pushed'[target]) = emitted[target] /\ stream[target] = "open"
        <3>1. Contiguous(pushed[target], target) /\ stream[target] = "open" /\ pushed[target] \in Seq(Events)
            BY <2>1, <2>3 DEF Live, TypeOK
        <3>2. pushed[target] # <<>> => emitted[target] = Latest(pushed[target]) + 1
            BY <2>1, <2>3, <3>1 DEF Live
        <3>3. pushed'[target] = Append(pushed[target], <<target, emitted[target]>>)
            BY <2>1, <2>2 DEF TypeOK
        <3> QED
            BY <2>1, <3>1, <3>2, <3>3, AppendContiguous
    <2>4. ASSUME NEW j \in Subs, j # target PROVE pushed'[j] = pushed[j]
        BY <2>2, <2>4 DEF TypeOK
    <2>5. UNCHANGED <<pc, id, stream, table, emitted, registered>>
        BY DEF PushTaken, serverVars, callVars
    <2> QED
        BY <2>1, <2>2, <2>3, <2>4, <2>5, SMTT(30) DEF Live, TypeOK
<1>5. Queued'
    <2>1. target = source /\ target \in Subs /\ stream[target] # "none"
        BY DEF PushTaken, TypeOK, OwnEvents
    <2>2. pushed' = [pushed EXCEPT ![target] = Append(@, <<target, emitted[target]>>)]
        BY <2>1 DEF PushTaken
    <2>3. ASSUME NEW j \in Subs PROVE Begins(received[j], pushed'[j])
        <3>1. Begins(received[j], pushed[j]) /\ pushed[j] \in Seq(Events) /\ received[j] \in Seq(Events)
            BY DEF Queued, TypeOK
        <3>2. pushed'[j] = pushed[j] \/ pushed'[j] = Append(pushed[j], <<target, emitted[target]>>)
            BY <2>2 DEF TypeOK
        <3> QED
            BY <3>1, <3>2, AppendBegins
    <2> QED
        BY <2>1, <2>2, <2>3 DEF PushTaken, Queued, Leaving, TypeOK
<1>6. CurrentEntries'
    BY DEF PushTaken, TypeOK, CurrentEntries, OwnEntries, OwnConnection, Unstreamed, Unnumbered,
           Ids, netVars, serverVars, callVars
<1> QED
    BY <1>1, <1>2, <1>3, <1>4, <1>5, <1>6

LEMMA PushGivenUpStep ==
    ASSUME SubInv, PushGivenUp
    PROVE  SubInv'
<1> USE SubsAssumption, Bounds DEF SubInv, EndsInv
<1>1. EndsInv'
    BY PushGivenUpEndsStep
<1>2. IdsDistinct'
    BY DEF PushGivenUp, TypeOK, Numbered, IdsDistinct, Unnumbered, Ids, netVars, serverVars,
           callVars, queueVars
<1>3. OwnEvents'
    BY DEF PushGivenUp, TypeOK, OwnEvents, Pushed, netVars, serverVars, callVars, queueVars
<1>4. Live'
    BY DEF PushGivenUp, TypeOK, Numbered, IdsDistinct, OwnEntries, OwnEvents, OwnConnection,
           Leaving, Live, Queued, Removed, Relaying, Unstreamed, Unnumbered, Pushed, Ids,
           netVars, serverVars, callVars, queueVars
<1>5. Queued'
    BY DEF PushGivenUp, TypeOK, Queued, Leaving, Unstreamed, Unnumbered, netVars, serverVars,
           callVars, queueVars
<1>6. CurrentEntries'
    BY DEF PushGivenUp, TypeOK, CurrentEntries, OwnEntries, OwnConnection, Unstreamed,
           Unnumbered, Ids, netVars, serverVars, callVars, queueVars
<1> QED
    BY <1>1, <1>2, <1>3, <1>4, <1>5, <1>6

LEMMA LoseConnectionStep ==
    ASSUME SubInv, Confined, LoseConnection
    PROVE  SubInv'
<1> USE SubsAssumption, Bounds DEF SubInv, EndsInv
<1>1. EndsInv'
    BY LoseConnectionEndsStep
<1>2. IdsDistinct'
    BY DEF LoseConnection, TypeOK, Numbered, IdsDistinct, Unnumbered, Ids, listenerVars,
           callVars, queueVars
<1>3. OwnEvents'
    BY DEF LoseConnection, TypeOK, OwnEvents, listenerVars, callVars, queueVars
<1>4. Live'
    BY DEF LoseConnection, TypeOK, Numbered, IdsDistinct, OwnEntries, OwnEvents, OwnConnection,
           Leaving, Live, Queued, Removed, Relaying, Unstreamed, Unnumbered, Reading, Ids,
           listenerVars, callVars, queueVars
<1>5. Queued'
    BY DEF LoseConnection, TypeOK, Queued, Leaving, Unstreamed, Unnumbered, listenerVars,
           callVars, queueVars
<1>6. CurrentEntries'
    BY TogglesAssumption DEF LoseConnection, Confined, TypeOK, CurrentEntries, OwnEntries,
           OwnConnection, Unstreamed, Unnumbered, Ids, listenerVars, callVars, queueVars
<1> QED
    BY <1>1, <1>2, <1>3, <1>4, <1>5, <1>6

LEMMA RemoveAllStreamsStep ==
    ASSUME SubInv, RemoveAllStreams
    PROVE  SubInv'
<1> USE SubsAssumption, Bounds DEF SubInv, EndsInv
<1>1. EndsInv'
    BY RemoveAllStreamsEndsStep
<1>2. IdsDistinct'
    BY DEF RemoveAllStreams, TypeOK, Numbered, IdsDistinct, Unnumbered, Ids, listenerVars,
           serverVars, callVars, queueVars
<1>3. OwnEvents'
    BY DEF RemoveAllStreams, TypeOK, OwnEvents, listenerVars, serverVars, callVars, queueVars
<1>4. Live'
    <2>1. target = NoSub /\ \A n \in Ids : table'[n] = NoSub
        BY DEF RemoveAllStreams, Reading
    <2>2. ASSUME NEW j \in Subs, pc[j] \in Relaying PROVE stream'[j] # "open"
        <3>1. id[j] \in Ids /\ (stream[j] = "open" => table[id[j]] = j)
            BY <2>2 DEF Live, Numbered, IdsDistinct, Relaying, Unnumbered
        <3> QED
            BY <3>1 DEF RemoveAllStreams, Stopped
    <2>3. ASSUME NEW j \in Subs, pc[j] \in Relaying PROVE id[j] \in Ids
        BY <2>3 DEF Numbered, Relaying, Unnumbered
    <2>4. UNCHANGED <<target, id, pc, pushed>>
        BY DEF RemoveAllStreams, listenerVars, callVars, queueVars
    <2> QED
        BY <2>1, <2>2, <2>3, <2>4, SubsAssumption DEF Live
<1>5. Queued'
    BY DEF RemoveAllStreams, TypeOK, Queued, Leaving, Unstreamed, Unnumbered, listenerVars,
           serverVars, callVars, queueVars
<1>6. CurrentEntries'
    BY DEF RemoveAllStreams, TypeOK, CurrentEntries, OwnEntries, OwnConnection, Unstreamed,
           Unnumbered, Ids, listenerVars, serverVars, callVars, queueVars
<1> QED
    BY <1>1, <1>2, <1>3, <1>4, <1>5, <1>6

LEMMA ReconnectStep ==
    ASSUME SubInv, Confined, Reconnect
    PROVE  SubInv'
<1> USE SubsAssumption, Bounds DEF SubInv, EndsInv
<1>1. EndsInv'
    BY ReconnectEndsStep
<1>2. IdsDistinct'
    <2>1. conn' = conn + 1 /\ UNCHANGED <<pc, id, home>> /\ (~ReusesIds => nextId' = nextId)
        BY DEF Reconnect, callVars
    <2>2. \A k \in Subs : home[k] # conn'
        BY <2>1 DEF OwnConnection, TypeOK
    <2> QED
        BY <2>1, <2>2 DEF IdsDistinct
<1>3. OwnEvents'
    BY DEF Reconnect, TypeOK, OwnEvents, listenerVars, callVars, queueVars
<1>4. Live'
    BY DEF Reconnect, TypeOK, Numbered, IdsDistinct, OwnEntries, OwnEvents, OwnConnection,
           Leaving, Live, Queued, Removed, Relaying, Unstreamed, Unnumbered, Ids, listenerVars,
           callVars, queueVars
<1>5. Queued'
    BY DEF Reconnect, TypeOK, Queued, Leaving, Unstreamed, Unnumbered, listenerVars, callVars,
           queueVars
<1>6. CurrentEntries'
    BY DEF Reconnect, TypeOK, CurrentEntries, OwnEntries, OwnConnection, Unstreamed, Unnumbered,
           Ids, listenerVars, callVars, queueVars
<1> QED
    BY <1>1, <1>2, <1>3, <1>4, <1>5, <1>6

\* The invariant holds at the start ...
LEMMA SubInit == Init => SubInv
<1> SUFFICES ASSUME Init PROVE SubInv
    OBVIOUS
<1> USE SubsAssumption, Bounds DEF Init
<1>1. TypeOK
    BY DEF TypeOK, Ids, Events
<1>2. Numbered /\ IdsDistinct /\ CurrentEntries /\ Pushes /\ OwnEntries /\ OwnEvents /\ OwnConnection
    BY DEF Numbered, IdsDistinct, CurrentEntries, Pushes, OwnEntries, OwnEvents,
           OwnConnection, Unnumbered, Ids
<1>3. Leaving /\ Live
    BY DEF Leaving, Live, Relaying, Removed, ShutDown, Unstreamed, Unnumbered, Ended
<1>4. Queued
    BY DEF Queued, Begins, Contiguous
<1> QED
    BY <1>1, <1>2, <1>3, <1>4 DEF SubInv, EndsInv

\* ... every step keeps the part that needs no assumption ...
LEMMA EndsStep == ASSUME EndsInv, [Next]_vars PROVE EndsInv'
<1>1. CASE UNCHANGED vars
    BY <1>1 DEF EndsInv, TypeOK, Numbered, OwnEntries, Pushes, OwnConnection, Leaving,
           Removed, ShutDown, vars, netVars, listenerVars, serverVars, callVars, queueVars
<1>2. ASSUME NEW k \in Subs,
             Subscribe(k) \/ Registered(k) \/ RegisterFails(k) \/ AddStream(k) \/ Recv(k) \/ Deliver(k)
      PROVE  EndsInv'
    BY <1>2, SubscribeEndsStep, RegisteredEndsStep, RegisterFailsEndsStep,
           AddStreamEndsStep, RecvEndsStep, DeliverEndsStep
<1>3. ASSUME NEW k \in Subs,
             Leave(k) \/ Shutdown(k) \/ SendDeregister(k) \/ Deregistered(k) \/ RemoveStream(k)
      PROVE  EndsInv'
    BY <1>3, LeaveEndsStep, ShutdownEndsStep, SendDeregisterEndsStep,
           DeregisteredEndsStep, RemoveStreamEndsStep
<1>4. ASSUME NEW k \in Subs, ExitProcess(k) \/ Cancel(k) \/ RouteEvent(k)
      PROVE  EndsInv'
    BY <1>4, ExitProcessEndsStep, CancelEndsStep, RouteEventEndsStep
<1>5. CASE PushTaken \/ PushGivenUp
    BY <1>5, PushTakenEndsStep, PushGivenUpEndsStep
<1>6. CASE LoseConnection \/ RemoveAllStreams \/ Reconnect
    BY <1>6, LoseConnectionEndsStep, RemoveAllStreamsEndsStep, ReconnectEndsStep
<1> QED
    BY <1>1, <1>2, <1>3, <1>4, <1>5, <1>6 DEF Next, Relay

\* ... and the whole, where ids are confined to their connection.
LEMMA SubStep == ASSUME SubInv, Confined, [Next]_vars PROVE SubInv'
<1>1. CASE UNCHANGED vars
    BY <1>1 DEF SubInv, EndsInv, TypeOK, Numbered, IdsDistinct, CurrentEntries, Pushes,
           OwnEntries, OwnEvents, OwnConnection, Leaving, Live, Queued, Removed, ShutDown,
           vars, netVars, listenerVars, serverVars, callVars, queueVars
<1>2. ASSUME NEW k \in Subs,
             Subscribe(k) \/ Registered(k) \/ RegisterFails(k) \/ AddStream(k) \/ Recv(k) \/ Deliver(k)
      PROVE  SubInv'
    BY <1>2, SubscribeStep, RegisteredStep, RegisterFailsStep, AddStreamStep, RecvStep,
           DeliverStep
<1>3. ASSUME NEW k \in Subs,
             Leave(k) \/ Shutdown(k) \/ SendDeregister(k) \/ Deregistered(k) \/ RemoveStream(k)
      PROVE  SubInv'
    BY <1>3, LeaveStep, ShutdownStep, SendDeregisterStep, DeregisteredStep, RemoveStreamStep
<1>4. ASSUME NEW k \in Subs, ExitProcess(k) \/ Cancel(k) \/ RouteEvent(k)
      PROVE  SubInv'
    BY <1>4, ExitProcessStep, CancelStep, RouteEventStep
<1>5. CASE PushTaken \/ PushGivenUp
    BY <1>5, PushTakenStep, PushGivenUpStep
<1>6. CASE LoseConnection \/ RemoveAllStreams \/ Reconnect
    BY <1>6, LoseConnectionStep, RemoveAllStreamsStep, ReconnectStep
<1> QED
    BY <1>1, <1>2, <1>3, <1>4, <1>5, <1>6 DEF Next, Relay

\* EndsInv holds whatever ids libvirtd gives out ...
THEOREM EndsInvariance == Spec => []EndsInv
<1>1. Init => EndsInv
    BY SubInit DEF SubInv
<1>2. EndsInv /\ [Next]_vars => EndsInv'
    BY EndsStep
<1> QED
    BY <1>1, <1>2, PTL DEF Spec

\* ... and SubInv unless libvirtd starts its ids over while an answered registration is still on
\* its way to the table.
THEOREM Invariance == ASSUME Confined PROVE Spec => []SubInv
<1>1. SubInv /\ [Next]_vars => SubInv'
    BY SubStep
<1> QED
    BY <1>1, SubInit, PTL DEF Spec

\* The variables keep their types (TypeOK).
THEOREM TypeCorrect == Spec => []TypeOK
<1>1. EndsInv => TypeOK
    BY DEF EndsInv
<1> QED
    BY <1>1, EndsInvariance, PTL

\* What reaches a subscriber has no gap (GaplessEvents): the relay takes from a queue into
\* which the listener has pushed every event of that subscription since the first.
THEOREM NoGaps == ASSUME ~(ReusesIds /\ LossWhileAdding) PROVE Spec => []GaplessEvents
<1>1. SubInv => GaplessEvents
    BY DEF SubInv, Queued, Contiguous, GaplessEvents
<1>2. Confined
    BY DEF Confined
<1> QED
    BY <1>1, <1>2, Invariance, PTL

\* The deferred calls of the relay leave no stream, entry or registration behind
\* (NothingLeftBehind), whatever the connection did in the meantime, unless libvirtd
\* refuses to deregister: then the registration is all that is left.
THEOREM CleanEnds == Spec => []NothingLeftBehind
<1>1. ASSUME EndsInv, NEW k \in Subs, pc[k] = "done"
      PROVE  stream[k] # "open" /\ (\A n \in Ids : table[n] # k) /\ (k \in registered => k \in kept)
    <2>1. stream[k] # "open" /\ (k \in registered => k \in kept)
        BY <1>1 DEF EndsInv, Leaving, ShutDown, Removed
    <2>2. \A n \in Ids : table[n] # k
        BY <1>1, SubsAssumption DEF EndsInv, OwnEntries, Removed
    <2> QED
        BY <2>1, <2>2
<1>2. EndsInv => NothingLeftBehind
    BY <1>1 DEF NothingLeftBehind
<1> QED
    BY <1>2, EndsInvariance, PTL

\* Neither the end of another subscription nor anything but a lost connection ends a stream
\* whose subscriber has not cancelled (StreamsUntilCancelled).
THEOREM StreamsLast == ASSUME ~ReusesIds PROVE Spec => StreamsUntilCancelled
<1> DEFINE Kept == \A k \in Subs :
        stream[k] = "open" /\ stream'[k] # "open" => ctx[k] \/ home[k] # conn \/ net # "up"
<1>1. ASSUME SubInv, [Next]_vars PROVE Kept
    <2> SUFFICES ASSUME NEW k \in Subs, stream[k] = "open", stream'[k] # "open"
                 PROVE  ctx[k] \/ net # "up"
        OBVIOUS
    <2>1. ASSUME NEW j \in Subs, Shutdown(j) PROVE ctx[k]
        BY <1>1, <2>1 DEF Shutdown, Stopped, SubInv, EndsInv, Leaving, Ended
    <2>2. ASSUME NEW j \in Subs, RemoveStream(j) PROVE ctx[k]
        <3>1. id[j] \in Ids /\ id[j] # 0 /\ table[id[j]] = k
            BY <1>1, <2>2 DEF RemoveStream, Stopped, SubInv, EndsInv, Numbered, IdsDistinct, Unnumbered, Ids
        <3>2. j = k
            BY <1>1, <3>1, SubsAssumption DEF SubInv, EndsInv, OwnEntries, Numbered, IdsDistinct
        <3> QED
            BY <1>1, <2>2, <3>2 DEF RemoveStream, SubInv, EndsInv, Leaving, Ended
    <2>3. CASE RemoveAllStreams
        BY <2>3 DEF RemoveAllStreams
    <2> QED
        BY <1>1, <2>1, <2>2, <2>3 DEF Next, Relay, vars, SubInv, EndsInv, TypeOK, Subscribe, Registered,
               RegisterFails, AddStream, Recv, Deliver, Leave, SendDeregister, Deregistered,
               ExitProcess, Cancel, RouteEvent, PushTaken, PushGivenUp, LoseConnection, Reconnect
<1>2. Confined
    BY DEF Confined
<1>3. SubInv /\ [Next]_vars => [Kept]_vars
    BY <1>1
<1> QED
    BY <1>2, <1>3, Invariance, PTL DEF Spec, StreamsUntilCancelled
=============================================================================
