-------------------------- MODULE LifecycleProofs --------------------------
(***************************************************************************)
(* Proofs about Lifecycle, for any number of connections.  Of any owner,   *)
(* patient or not, and whatever libvirtd and the network do: the types,    *)
(* that connections do not overlap, and that a clean-up does harm only     *)
(* when it is left over from an earlier connection.  Of a patient owner:   *)
(* that it never does.                                                     *)
(***************************************************************************)
EXTENDS Lifecycle, TLAPS

\* Only the latest connection has a listener that runs.
LatestOnly == \A g \in Conns : listener[g] = "running" => g = dialed

Inv == TypeOK /\ LatestOnly

LEMMA InitInv == Init => Inv
  <1> SUFFICES ASSUME Init PROVE Inv
    OBVIOUS
  <1>1. 0 \in 0..MaxConns
    BY MaxConnsAssumption
  <1>2. /\ conn \in [Conns -> {"none", "up", "down"}]
        /\ listener \in [Conns -> {"none", "running", "stopped"}]
    BY DEF Init
  <1>3. watch \in [Conns -> {"none", "spawned", "waiting", "deregister", "check", "close", "done"}]
    BY DEF Init
  <1>4. on \in [Conns -> 0..MaxConns] /\ sentOn \in [Users -> 0..MaxConns]
    BY <1>1 DEF Init
  <1>5. request \in [Users -> {"none", "waiting", "interrupted"}]
    BY DEF Init
  <1>6. dialed \in 0..MaxConns /\ disconnected \in 0..MaxConns /\ closedChans \subseteq 0..MaxConns
    BY <1>1 DEF Init
  <1>7. \A u \in Users : request[u] # "waiting"
    BY DEF Init
  <1>8. TypeOK
    BY <1>2, <1>3, <1>4, <1>5, <1>6, <1>7 DEF Init, TypeOK
  <1>9. LatestOnly
    BY DEF Init, LatestOnly
  <1> QED BY <1>8, <1>9 DEF Inv

\* The steps of the owner after it has dialed.
LEMMA OwnerStep ==
    ASSUME Inv, OwnerSteps \/ Disconnect
    PROVE  Inv'
  <1> USE DEF Inv, Users, Conns, socketVars, watchVars, chanVars, userVars
  <1>1. CASE SendInit
    BY <1>1 DEF TypeOK, LatestOnly, SendInit, Sends, SocketDisconnected, Running
  <1>2. CASE InitAnswered \/ InitInterrupted
    BY <1>2, ZenonT(60) DEF TypeOK, LatestOnly, InitAnswered, InitInterrupted, Settles
  <1>3. CASE Publish \/ SocketClosed \/ AwaitCleanup
    BY <1>3 DEF TypeOK, LatestOnly, Publish, SocketClosed, AwaitCleanup
  <1>4. CASE CloseAnswered
    BY <1>4 DEF TypeOK, LatestOnly, CloseAnswered, Settles
  <1>5. CASE CloseConn
    BY <1>5 DEF TypeOK, LatestOnly, CloseConn
  <1>6. CASE Disconnect
    BY <1>6 DEF TypeOK, LatestOnly, Disconnect, Sends, SocketDisconnected, Running
  <1> QED BY <1>1, <1>2, <1>3, <1>4, <1>5, <1>6 DEF OwnerSteps

\* waitAndDisconnect touches no listener.
LEMMA WatchStep ==
    ASSUME Inv, NEW g \in Conns, WatchSteps(g)
    PROVE  Inv'
  <1> USE DEF Inv, Users, Conns, socketVars, watchVars, chanVars, userVars
  <1>1. CASE Watch(g)
    BY <1>1 DEF TypeOK, LatestOnly, Watch
  <1>2. CASE RemoveStreams(g) \/ CheckChan(g)
    BY <1>2 DEF TypeOK, LatestOnly, RemoveStreams, CheckChan
  <1>3. CASE DeregisterAll(g)
    BY <1>3 DEF TypeOK, LatestOnly, DeregisterAll
  <1>4. CASE CloseChan(g)
    BY <1>4 DEF TypeOK, LatestOnly, CloseChan
  <1> QED BY <1>1, <1>2, <1>3, <1>4 DEF WatchSteps

LEMMA StepInv == Inv /\ [Next]_vars => Inv'
  <1> SUFFICES ASSUME Inv, [Next]_vars PROVE Inv'
    OBVIOUS
  <1> USE DEF Inv, Users, Conns, socketVars, watchVars, chanVars, userVars
  <1>1. CASE Connect
    <2>0. Bound \in 0..MaxConns
      BY MaxConnsAssumption DEF Bound
    <2>1. dialed' \in Conns
      BY <1>1, <2>0, MaxConnsAssumption DEF TypeOK, Connect
    <2>2. TypeOK'
      BY <1>1, <2>1 DEF TypeOK, Connect
    <2>3. \A g \in Conns : listener[g] # "running"
      BY <1>1 DEF LatestOnly, Connect, SocketDisconnected, Running
    <2>4. LatestOnly'
      BY <1>1, <2>1, <2>3 DEF TypeOK, LatestOnly, Connect
    <2> QED BY <2>2, <2>4
  <1>2. CASE OwnerSteps \/ Disconnect
    BY <1>2, OwnerStep
  <1>3. CASE Subscribe
    BY <1>3 DEF TypeOK, LatestOnly, Subscribe, Sends, SocketDisconnected, Running
  <1>4. CASE SubscribeReturns
    BY <1>4 DEF TypeOK, LatestOnly, SubscribeReturns, Settles
  <1>5. ASSUME NEW g \in Conns, StopListening(g) PROVE Inv'
    BY <1>5 DEF TypeOK, LatestOnly, StopListening
  <1>6. ASSUME NEW g \in Conns, LoseConnection(g) PROVE Inv'
    BY <1>6 DEF TypeOK, LatestOnly, LoseConnection
  <1>7. ASSUME NEW g \in Conns, WatchSteps(g) PROVE Inv'
    BY <1>7, WatchStep
  <1>8. CASE UNCHANGED vars
    BY <1>8 DEF TypeOK, LatestOnly, vars
  <1> QED BY <1>1, <1>2, <1>3, <1>4, <1>5, <1>6, <1>7, <1>8 DEF Next

-----------------------------------------------------------------------------

\* The variables keep their types.
THEOREM TypeCorrect == Spec => []TypeOK
  BY InitInv, StepInv, PTL DEF Spec, Inv

\* The listener of an old connection is gone before there is a new one: no two
\* goroutines ever route packets, into callbacks or event streams, at once.
THEOREM ListenersDoNotOverlap == Spec => []OneListener
  <1>1. Inv => OneListener
    BY DEF Inv, LatestOnly, OneListener, Running
  <1> QED BY <1>1, InitInv, StepInv, PTL DEF Spec

-----------------------------------------------------------------------------

Cleaned == {"deregister", "check", "close", "done"}    \* the socket has disconnected

\* Every connection but the latest has ended, and so has the latest if its listener has.
EndedIsDown ==
    /\ \A g \in Conns : g <= dialed => listener[g] # "none"
    /\ \A g \in Conns : listener[g] = "stopped" => conn[g] = "down"

\* A goroutine of waitAndDisconnect waits for its own connection or a later one, never
\* for an earlier one, and cleans up when that one has ended.
WaitsForItsOwnOrLater ==
    /\ \A g \in Conns : g > dialed => watch[g] = "none"
    /\ \A g \in Conns : watch[g] \notin {"none", "spawned"} => on[g] \in g..dialed
    /\ \A g \in Conns : watch[g] \in Cleaned => listener[on[g]] = "stopped"

\* Channels, requests and subscriptions are those of connections that have been dialed.
OfDialed ==
    /\ 0 \in closedChans /\ disconnected \in 0..dialed
    /\ \A u \in Users : sentOn[u] \in 0..dialed
    /\ app = "subscribed" => sentOn["app"] \in Conns

CleanInv == Inv /\ EndedIsDown /\ WaitsForItsOwnOrLater /\ OfDialed

LEMMA CleanInit == Init => CleanInv
<1> SUFFICES ASSUME Init PROVE CleanInv
    OBVIOUS
<1>1. EndedIsDown /\ WaitsForItsOwnOrLater
    BY DEF Init, EndedIsDown, WaitsForItsOwnOrLater, Conns, Cleaned
<1>2. OfDialed
    BY DEF Init, OfDialed, Users
<1> QED
    BY <1>1, <1>2, InitInv DEF CleanInv

\* The steps of owner and application, but for Connect, touch no goroutine of
\* waitAndDisconnect and no listener.
LEMMA UserKeepsClean ==
    ASSUME CleanInv, OwnerSteps \/ Disconnect \/ Subscribe \/ SubscribeReturns
    PROVE  EndedIsDown' /\ WaitsForItsOwnOrLater' /\ OfDialed'
<1> USE MaxConnsAssumption
    DEF CleanInv, Inv, TypeOK, Conns, Users, socketVars, watchVars, chanVars, userVars
<1>1. /\ UNCHANGED <<dialed, listener, watch, on, closedChans>>
      /\ \A g \in Conns : conn[g] = "down" => conn'[g] = "down"
      /\ disconnected' \in {disconnected, dialed}
    BY DEF OwnerSteps, SendInit, InitAnswered, InitInterrupted, Publish, CloseAnswered,
           CloseConn, SocketClosed, AwaitCleanup, Disconnect, Subscribe, SubscribeReturns
<1>2. \A u \in Users : sentOn'[u] \in {sentOn[u], dialed}
    BY DEF OwnerSteps, SendInit, InitAnswered, InitInterrupted, Publish, CloseAnswered,
           CloseConn, SocketClosed, AwaitCleanup, Disconnect, Subscribe, SubscribeReturns,
           Sends, Settles
<1>3. app' = "subscribed" => sentOn'["app"] \in Conns
    BY DEF OwnerSteps, SendInit, InitAnswered, InitInterrupted, Publish, CloseAnswered,
           CloseConn, SocketClosed, AwaitCleanup, Disconnect, Subscribe, SubscribeReturns,
           Sends, Settles, Answered, Running, OfDialed
<1>4. EndedIsDown'
    BY <1>1 DEF EndedIsDown
<1>5. WaitsForItsOwnOrLater'
    BY <1>1 DEF WaitsForItsOwnOrLater
<1>6. OfDialed'
    BY <1>1, <1>2, <1>3 DEF OfDialed
<1> QED
    BY <1>4, <1>5, <1>6

\* A new connection is later than what any goroutine waits for.
LEMMA ConnectKeepsClean ==
    ASSUME CleanInv, Connect
    PROVE  EndedIsDown' /\ WaitsForItsOwnOrLater' /\ OfDialed'
<1> USE MaxConnsAssumption DEF CleanInv, Inv, TypeOK, Conns, Users, chanVars
<1>1. dialed' = dialed + 1 /\ dialed' \in Conns
    BY DEF Connect, Bound
<1>2. EndedIsDown'
    BY <1>1 DEF Connect, EndedIsDown
<1>3. WaitsForItsOwnOrLater'
    <2>1. \A g \in Conns : g # dialed' => listener'[g] = listener[g] /\ watch'[g] = watch[g]
        BY <1>1 DEF Connect
    <2>2. watch'[dialed'] = "spawned" /\ UNCHANGED on
        BY <1>1 DEF Connect
    <2>3. \A g \in Conns : watch'[g] \notin {"none", "spawned"} =>
            watch[g] = watch'[g] /\ on[g] \in g..dialed
        BY <2>1, <2>2 DEF WaitsForItsOwnOrLater
    <2>4. ASSUME NEW g \in Conns, watch'[g] \in Cleaned
          PROVE  listener'[on'[g]] = "stopped"
        <3>1. watch[g] = watch'[g] /\ on[g] \in g..dialed
            BY <2>3, <2>4 DEF Cleaned
        <3>2. listener[on[g]] = "stopped"
            BY <2>4, <3>1 DEF WaitsForItsOwnOrLater
        <3>3. on[g] \in Conns /\ on[g] # dialed'
            BY <1>1, <3>1
        <3> QED
            BY <2>1, <2>2, <3>2, <3>3
    <2> QED
        BY <1>1, <2>1, <2>2, <2>3, <2>4 DEF WaitsForItsOwnOrLater
<1>4. OfDialed'
    BY <1>1 DEF Connect, OfDialed
<1> QED
    BY <1>2, <1>3, <1>4

LEMMA WatchKeepsClean ==
    ASSUME CleanInv, NEW g \in Conns, WatchSteps(g)
    PROVE  EndedIsDown' /\ WaitsForItsOwnOrLater' /\ OfDialed'
<1> USE MaxConnsAssumption
    DEF CleanInv, Inv, TypeOK, Conns, Users, socketVars, chanVars, userVars
<1>1. /\ UNCHANGED <<dialed, conn, listener, sentOn, disconnected>>
      /\ closedChans \subseteq closedChans'
      /\ app' = "subscribed" => app = "subscribed"
    BY DEF WatchSteps, Watch, RemoveStreams, DeregisterAll, CheckChan, CloseChan
<1>2. EndedIsDown' /\ OfDialed'
    BY <1>1 DEF EndedIsDown, OfDialed
<1>3. watch[g] # "none" /\ g \in 1..dialed
    BY DEF WatchSteps, Watch, RemoveStreams, DeregisterAll, CheckChan, CloseChan,
           WaitsForItsOwnOrLater
<1>4. CASE Watch(g)
    <2>1. watch' = [watch EXCEPT ![g] = "waiting"] /\ on' = [on EXCEPT ![g] = dialed]
        BY <1>4 DEF Watch
    <2>2. dialed \in g..dialed
        BY <1>3
    <2>3. \A h \in Conns : h # g => watch'[h] = watch[h] /\ on'[h] = on[h]
        BY <2>1
    <2>4. watch'[g] = "waiting" /\ on'[g] = dialed
        BY <2>1
    <2>5. \A h \in Conns : h > dialed' => watch'[h] = "none"
        BY <1>1, <1>3, <2>3 DEF WaitsForItsOwnOrLater
    <2>6. \A h \in Conns : watch'[h] \notin {"none", "spawned"} => on'[h] \in h..dialed'
        BY <1>1, <2>2, <2>3, <2>4 DEF WaitsForItsOwnOrLater
    <2>7. \A h \in Conns : watch'[h] \in Cleaned => listener'[on'[h]] = "stopped"
        BY <1>1, <2>3, <2>4 DEF WaitsForItsOwnOrLater, Cleaned
    <2>8. WaitsForItsOwnOrLater'
        BY <2>5, <2>6, <2>7 DEF WaitsForItsOwnOrLater
    <2> QED
        BY <1>2, <2>8
<1>5. CASE RemoveStreams(g)
    <2>1. on[g] \in g..dialed
        BY <1>5 DEF RemoveStreams, WaitsForItsOwnOrLater
    <2>2. listener[on[g]] = "stopped"
        BY <1>5, <1>3, <2>1 DEF RemoveStreams, Running, EndedIsDown
    <2> QED
        BY <1>1, <1>2, <1>3, <1>5, <2>1, <2>2 DEF RemoveStreams, WaitsForItsOwnOrLater, Cleaned
<1>6. CASE DeregisterAll(g) \/ CheckChan(g) \/ CloseChan(g)
    BY <1>1, <1>2, <1>3, <1>6, SMTT(30)
       DEF DeregisterAll, CheckChan, CloseChan, WaitsForItsOwnOrLater, Cleaned
<1> QED
    BY <1>2, <1>4, <1>5, <1>6 DEF WatchSteps

LEMMA CleanStep == CleanInv /\ [Next]_vars => CleanInv'
<1> SUFFICES ASSUME CleanInv, [Next]_vars
             PROVE  EndedIsDown' /\ WaitsForItsOwnOrLater' /\ OfDialed'
    BY StepInv DEF CleanInv
<1>1. CASE OwnerSteps \/ Disconnect \/ Subscribe \/ SubscribeReturns
    BY <1>1, UserKeepsClean
<1>2. CASE Connect
    BY <1>2, ConnectKeepsClean
<1>3. ASSUME NEW g \in Conns, StopListening(g) \/ LoseConnection(g)
      PROVE  EndedIsDown' /\ WaitsForItsOwnOrLater' /\ OfDialed'
    <2> USE DEF CleanInv, Inv, TypeOK, Conns, watchVars, chanVars, userVars
    <2>1. UNCHANGED <<dialed, watch, on, disconnected, closedChans, app, sentOn>>
        BY <1>3 DEF StopListening, LoseConnection
    <2>2. \A h \in Conns : listener[h] = "stopped" => listener'[h] = "stopped"
        BY <1>3 DEF StopListening, LoseConnection
    <2>3. EndedIsDown'
        BY <1>3 DEF StopListening, LoseConnection, EndedIsDown, Running
    <2>4. WaitsForItsOwnOrLater'
        <3>1. \A h \in Conns : watch[h] \in Cleaned => on[h] \in h..dialed /\ on[h] \in Conns
            <4>1. \A h \in Conns : watch[h] \in Cleaned => on[h] \in h..dialed
                BY DEF WaitsForItsOwnOrLater, Cleaned
            <4> QED
                BY <4>1, MaxConnsAssumption
        <3> QED
            BY <2>1, <2>2, <3>1 DEF WaitsForItsOwnOrLater
    <2> QED
        BY <2>1, <2>3, <2>4 DEF OfDialed
<1>4. ASSUME NEW g \in Conns, WatchSteps(g)
      PROVE  EndedIsDown' /\ WaitsForItsOwnOrLater' /\ OfDialed'
    BY <1>4, WatchKeepsClean
<1>5. CASE UNCHANGED vars
    BY <1>5 DEF CleanInv, EndedIsDown, WaitsForItsOwnOrLater, OfDialed, vars, socketVars,
           watchVars, chanVars, userVars
<1> QED
    BY <1>1, <1>2, <1>3, <1>4, <1>5 DEF Next

\* The only goroutine of waitAndDisconnect that is left is the one of the latest
\* connection: when it cleans up, no connection is alive.
LEMMA NothingAlive ==
    ASSUME CleanInv, NothingLeftOver, NEW g \in Conns,
           RemoveStreams(g) \/ DeregisterAll(g) \/ CloseChan(g)
    PROVE  \A h \in 1..dialed : h \in Conns /\ conn[h] = "down"
<1> USE MaxConnsAssumption DEF CleanInv, Inv, TypeOK, Conns
<1>1. g = dialed /\ on[g] = g
    <2>1. watch[g] \in {"waiting", "deregister", "close"}
        BY DEF RemoveStreams, DeregisterAll, CloseChan
    <2>2. ~(g < dialed) /\ ~(g > dialed)
        BY <2>1 DEF NothingLeftOver, WaitsForItsOwnOrLater
    <2>3. on[g] \in g..dialed
        BY <2>1 DEF WaitsForItsOwnOrLater
    <2> QED
        BY <2>2, <2>3
<1>2. listener[g] = "stopped"
    BY <1>1 DEF WaitsForItsOwnOrLater, EndedIsDown, RemoveStreams, DeregisterAll, CloseChan,
           Cleaned, Running
<1>3. \A h \in 1..dialed : h \in Conns /\ listener[h] = "stopped"
    BY <1>1, <1>2 DEF EndedIsDown, LatestOnly
<1> QED
    BY <1>3 DEF EndedIsDown

\* Whatever owner, libvirtd and network do: while no goroutine of waitAndDisconnect is left
\* over from an earlier connection, what is signalled, interrupted and ended is that of a
\* lost connection (OnlyLeftoversDoHarm).
THEOREM HarmIsLeftOver == Spec => OnlyLeftoversDoHarm
<1> DEFINE Harmless == NothingLeftOver =>
        /\ \A g \in closedChans' \ closedChans : conn[g] = "down"
        /\ \A u \in Users :
            request[u] = "waiting" /\ request'[u] = "interrupted" => conn[sentOn[u]] = "down"
        /\ app = "subscribed" /\ app' = "idle" => conn[sentOn["app"]] = "down"
<1>1. ASSUME CleanInv, [Next]_vars PROVE [Harmless]_vars
    <2> SUFFICES ASSUME NothingLeftOver PROVE Harmless
        OBVIOUS
    <2> USE <1>1 DEF CleanInv, Inv, TypeOK, Users, socketVars, watchVars, chanVars, userVars
    <2>1. CASE Connect \/ OwnerSteps \/ Disconnect \/ Subscribe \/ SubscribeReturns
        BY <2>1 DEF Connect, OwnerSteps, SendInit, InitAnswered, InitInterrupted, Publish,
               CloseAnswered, CloseConn, SocketClosed, AwaitCleanup, Disconnect, Subscribe,
               SubscribeReturns, Sends, Settles
    <2>2. ASSUME NEW g \in Conns, StopListening(g) \/ LoseConnection(g) \/ Watch(g) \/ CheckChan(g)
          PROVE  Harmless
        BY <2>2 DEF StopListening, LoseConnection, Watch, CheckChan
    <2>3. ASSUME NEW g \in Conns, RemoveStreams(g) \/ DeregisterAll(g) \/ CloseChan(g)
          PROVE  Harmless
        <3>1. \A h \in 1..dialed : conn[h] = "down"
            BY <2>3, NothingAlive
        <3>2. closedChans' \ closedChans \subseteq 1..dialed
            BY <2>3, MaxConnsAssumption
               DEF RemoveStreams, DeregisterAll, CloseChan, OfDialed
        <3>3. \A u \in Users : request[u] = "waiting" => sentOn[u] \in 1..dialed
            BY MaxConnsAssumption DEF OfDialed, Conns
        <3>4. app = "subscribed" => sentOn["app"] \in 1..dialed
            BY MaxConnsAssumption DEF OfDialed, Conns
        <3> QED
            BY <3>1, <3>2, <3>3, <3>4
    <2>4. CASE UNCHANGED vars
        BY <2>4 DEF vars
    <2> QED
        BY <2>1, <2>2, <2>3, <2>4 DEF Next, WatchSteps
<1> QED
    BY <1>1, CleanInit, CleanStep, PTL DEF Spec, OnlyLeftoversDoHarm

-----------------------------------------------------------------------------

Connecting == owner \in {"init", "publish"}

\* A patient owner connects again when the goroutine that cleans up after the last
\* connection is done: there is never more than one of them, and it waits for its own.
OneWatcher ==
    \A g \in Conns :
        /\ g < dialed => watch[g] = "done" /\ conn[g] = "down"
        /\ g = dialed => watch[g] # "none" /\ (watch[g] # "spawned" => on[g] = g)
        /\ g > dialed => watch[g] = "none"

\* A listener stops when its connection is lost, which no handshake is.
StopsWhenDown ==
    /\ \A g \in Conns : listener[g] = "stopped" => conn[g] = "down"
    /\ dialed \in Conns =>
        /\ listener[dialed] # "none" /\ conn[dialed] # "none"
        /\ watch[dialed] \in Cleaned => listener[dialed] = "stopped"
    /\ Connecting => dialed \in Conns /\ conn[dialed] = "up"
    /\ owner # "undo"

\* The channel of a connection is closed by its watcher's last step.
OwnChan ==
    /\ ~panicked
    /\ closedChans \subseteq 0..dialed
    /\ Connecting => disconnected \in closedChans /\ disconnected < dialed /\ dialed \notin closedChans
    /\ ~Connecting => disconnected = dialed
    /\ ~Connecting /\ dialed \in Conns => (dialed \in closedChans <=> watch[dialed] = "done")

\* What waits, waits for the latest connection; what has been interrupted, for a lost one.
OwnRequests ==
    \A u \in Users :
        /\ request[u] = "waiting" =>
            sentOn[u] = dialed /\ dialed \in Conns /\ watch[dialed] \notin {"check", "close", "done"}
        /\ request[u] = "interrupted" => sentOn[u] \in Conns /\ conn[sentOn[u]] = "down"
        /\ u = "owner" /\ Connecting => request[u] # "interrupted"
        /\ u = "app" /\ (app = "subscribed" \/ request[u] # "none") => sentOn[u] \in 1..dialed
        /\ u = "owner" /\ owner \notin {"init", "closing"} => request[u] = "none"
        /\ u = "app" /\ app # "call" => request[u] = "none"

PatientSafe == OneWatcher /\ StopsWhenDown /\ OwnChan /\ OwnRequests

PatientInv == Inv /\ (Patient => PatientSafe)

\* Every action keeps what a patient owner relies on.
LEMMA ConnectKeeps ==
    ASSUME TypeOK, LatestOnly, Patient, PatientSafe, Connect
    PROVE  PatientSafe'
<1> USE MaxConnsAssumption DEF PatientSafe, TypeOK, Conns
<1>1. OneWatcher'
    BY DEF Connect, SocketDisconnected, Eager, chanVars, Running, LatestOnly, Patient,
           OneWatcher, StopsWhenDown, OwnChan, Cleaned
<1>2. StopsWhenDown'
    <2>1. dialed' \in Conns /\ owner' = "init"
        BY DEF Connect, Bound
    <2>2. /\ conn' = [conn EXCEPT ![dialed'] = "up"]
          /\ listener' = [listener EXCEPT ![dialed'] = "running"]
          /\ watch' = [watch EXCEPT ![dialed'] = "spawned"]
        BY DEF Connect
    <2>3. /\ \A g \in Conns : listener'[g] = "stopped" => conn'[g] = "down"
          /\ conn'[dialed'] = "up" /\ listener'[dialed'] = "running" /\ watch'[dialed'] = "spawned"
        BY <2>1, <2>2 DEF StopsWhenDown
    <2> QED
        BY <2>1, <2>3 DEF StopsWhenDown, Connecting, Cleaned
<1>3. OwnChan'
    BY DEF Connect, SocketDisconnected, Eager, chanVars, Running, LatestOnly, Patient,
           OneWatcher, StopsWhenDown, OwnChan, Connecting, Cleaned
<1>4. OwnRequests'
    BY DEF Connect, SocketDisconnected, Eager, chanVars, Running, LatestOnly, Patient,
           OneWatcher, StopsWhenDown, OwnChan, OwnRequests, Connecting, Cleaned, Users
<1> QED
    BY <1>1, <1>2, <1>3, <1>4

LEMMA SendInitKeeps ==
    ASSUME TypeOK, LatestOnly, Patient, PatientSafe, SendInit
    PROVE  PatientSafe'
<1> USE MaxConnsAssumption DEF PatientSafe, TypeOK, Conns
<1>1. OneWatcher'
    BY DEF SendInit, Sends, SocketDisconnected, socketVars, watchVars, chanVars, Running,
           LatestOnly, Patient, OneWatcher, StopsWhenDown, OwnChan, Cleaned
<1>2. StopsWhenDown'
    BY DEF SendInit, Sends, SocketDisconnected, socketVars, watchVars, chanVars, Running,
           LatestOnly, Patient, OneWatcher, StopsWhenDown, OwnRequests, Connecting,
           Cleaned
<1>3. OwnChan'
    BY DEF SendInit, Sends, SocketDisconnected, socketVars, watchVars, chanVars, Running,
           LatestOnly, Patient, OneWatcher, StopsWhenDown, OwnChan, Connecting, Cleaned
<1>4. OwnRequests'
    BY DEF SendInit, Sends, SocketDisconnected, socketVars, watchVars, chanVars, Running,
           LatestOnly, Patient, OneWatcher, StopsWhenDown, OwnChan, OwnRequests,
           Connecting, Cleaned, Users
<1> QED
    BY <1>1, <1>2, <1>3, <1>4

LEMMA InitAnsweredKeeps ==
    ASSUME TypeOK, LatestOnly, Patient, PatientSafe, InitAnswered
    PROVE  PatientSafe'
<1> USE MaxConnsAssumption DEF PatientSafe, TypeOK, Conns
<1>1. OneWatcher'
    BY DEF InitAnswered, Settles, Answered, InitMayFail, socketVars, watchVars, chanVars,
           Running, LatestOnly, Patient, OneWatcher, StopsWhenDown, OwnChan, Cleaned
<1>2. StopsWhenDown'
    BY DEF InitAnswered, Settles, Answered, InitMayFail, socketVars, watchVars, chanVars,
           Running, LatestOnly, Patient, OneWatcher, StopsWhenDown, OwnRequests,
           Connecting, Cleaned
<1>3. OwnChan'
    BY DEF InitAnswered, Settles, Answered, InitMayFail, socketVars, watchVars, chanVars,
           Running, LatestOnly, Patient, OneWatcher, StopsWhenDown, OwnChan, Connecting,
           Cleaned
<1>4. OwnRequests'
    BY DEF InitAnswered, Settles, Answered, InitMayFail, socketVars, watchVars, chanVars,
           Running, LatestOnly, Patient, OneWatcher, StopsWhenDown, OwnChan, OwnRequests,
           Connecting, Cleaned, Users
<1> QED
    BY <1>1, <1>2, <1>3, <1>4

LEMMA InitInterruptedKeeps ==
    ASSUME TypeOK, LatestOnly, Patient, PatientSafe, InitInterrupted
    PROVE  PatientSafe'
<1> USE MaxConnsAssumption DEF PatientSafe, TypeOK, Conns
<1>1. OneWatcher'
    BY DEF InitInterrupted, OwnRequests, Connecting, Users
<1>2. StopsWhenDown'
    BY DEF InitInterrupted, OwnRequests, Connecting, Users
<1>3. OwnChan'
    BY DEF InitInterrupted, OwnRequests, Connecting, Users
<1>4. OwnRequests'
    BY DEF InitInterrupted, OwnRequests, Connecting, Users
<1> QED
    BY <1>1, <1>2, <1>3, <1>4

LEMMA PublishKeeps ==
    ASSUME TypeOK, LatestOnly, Patient, PatientSafe, Publish
    PROVE  PatientSafe'
<1> USE MaxConnsAssumption DEF PatientSafe, TypeOK, Conns
<1>1. OneWatcher'
    BY DEF Publish, socketVars, watchVars, LatestOnly, Patient, OneWatcher, StopsWhenDown,
           OwnChan, Cleaned
<1>2. StopsWhenDown'
    BY DEF Publish, socketVars, watchVars, LatestOnly, Patient, OneWatcher, StopsWhenDown,
           OwnRequests, Connecting, Cleaned
<1>3. OwnChan'
    BY DEF Publish, socketVars, watchVars, LatestOnly, Patient, OneWatcher, StopsWhenDown,
           OwnChan, Connecting, Cleaned
<1>4. OwnRequests'
    BY DEF Publish, socketVars, watchVars, LatestOnly, Patient, OneWatcher, StopsWhenDown,
           OwnChan, OwnRequests, Connecting, Cleaned, Users
<1> QED
    BY <1>1, <1>2, <1>3, <1>4

LEMMA DisconnectKeeps ==
    ASSUME TypeOK, LatestOnly, Patient, PatientSafe, Disconnect
    PROVE  PatientSafe'
<1> USE MaxConnsAssumption DEF PatientSafe, TypeOK, Conns
<1>1. OneWatcher'
    BY DEF Disconnect, Sends, SocketDisconnected, socketVars, watchVars, chanVars,
           Running, LatestOnly, Patient, OneWatcher, StopsWhenDown, OwnChan, Cleaned
<1>2. StopsWhenDown'
    BY DEF Disconnect, Sends, SocketDisconnected, socketVars, watchVars, chanVars,
           Running, LatestOnly, Patient, OneWatcher, StopsWhenDown, OwnRequests,
           Connecting, Cleaned
<1>3. OwnChan'
    BY DEF Disconnect, Sends, SocketDisconnected, socketVars, watchVars, chanVars,
           Running, LatestOnly, Patient, OneWatcher, StopsWhenDown, OwnChan, Connecting,
           Cleaned
<1>4. OwnRequests'
    BY DEF Disconnect, Sends, SocketDisconnected, socketVars, watchVars, chanVars,
           Running, LatestOnly, Patient, OneWatcher, StopsWhenDown, OwnChan, OwnRequests,
           Connecting, Cleaned, Users
<1> QED
    BY <1>1, <1>2, <1>3, <1>4

LEMMA CloseAnsweredKeeps ==
    ASSUME TypeOK, LatestOnly, Patient, PatientSafe, CloseAnswered
    PROVE  PatientSafe'
<1> USE MaxConnsAssumption DEF PatientSafe, TypeOK, Conns
<1>1. OneWatcher'
    BY DEF CloseAnswered, Settles, Answered, socketVars, watchVars, chanVars, Running,
           LatestOnly, Patient, OneWatcher, StopsWhenDown, OwnChan, Cleaned
<1>2. StopsWhenDown'
    BY DEF CloseAnswered, Settles, Answered, socketVars, watchVars, chanVars, Running,
           LatestOnly, Patient, OneWatcher, StopsWhenDown, OwnRequests, Connecting,
           Cleaned
<1>3. OwnChan'
    BY DEF CloseAnswered, Settles, Answered, socketVars, watchVars, chanVars, Running,
           LatestOnly, Patient, OneWatcher, StopsWhenDown, OwnChan, Connecting, Cleaned
<1>4. OwnRequests'
    BY DEF CloseAnswered, Settles, Answered, socketVars, watchVars, chanVars, Running,
           LatestOnly, Patient, OneWatcher, StopsWhenDown, OwnChan, OwnRequests,
           Connecting, Cleaned, Users
<1> QED
    BY <1>1, <1>2, <1>3, <1>4

LEMMA CloseConnKeeps ==
    ASSUME TypeOK, LatestOnly, Patient, PatientSafe, CloseConn
    PROVE  PatientSafe'
<1> USE MaxConnsAssumption DEF PatientSafe, TypeOK, Conns
<1>1. OneWatcher'
    BY DEF CloseConn, SocketDisconnected, watchVars, chanVars, userVars, Running,
           LatestOnly, Patient, OneWatcher, StopsWhenDown, OwnChan, Cleaned
<1>2. StopsWhenDown'
    BY DEF CloseConn, SocketDisconnected, watchVars, chanVars, userVars, Running,
           LatestOnly, Patient, OneWatcher, StopsWhenDown, OwnRequests, Connecting,
           Cleaned
<1>3. OwnChan'
    BY DEF CloseConn, SocketDisconnected, watchVars, chanVars, userVars, Running,
           LatestOnly, Patient, OneWatcher, StopsWhenDown, OwnChan, Connecting, Cleaned
<1>4. OwnRequests'
    BY DEF CloseConn, SocketDisconnected, watchVars, chanVars, userVars, Running,
           LatestOnly, Patient, OneWatcher, StopsWhenDown, OwnChan, OwnRequests,
           Connecting, Cleaned, Users
<1> QED
    BY <1>1, <1>2, <1>3, <1>4

LEMMA SocketClosedKeeps ==
    ASSUME TypeOK, LatestOnly, Patient, PatientSafe, SocketClosed
    PROVE  PatientSafe'
<1> USE MaxConnsAssumption DEF PatientSafe, TypeOK, Conns
<1>1. OneWatcher'
    BY DEF SocketClosed, SocketDisconnected, socketVars, watchVars, chanVars, Running,
           LatestOnly, Patient, OneWatcher, StopsWhenDown, OwnChan, Cleaned
<1>2. StopsWhenDown'
    BY DEF SocketClosed, SocketDisconnected, socketVars, watchVars, chanVars, Running,
           LatestOnly, Patient, OneWatcher, StopsWhenDown, OwnRequests, Connecting,
           Cleaned
<1>3. OwnChan'
    BY DEF SocketClosed, SocketDisconnected, socketVars, watchVars, chanVars, Running,
           LatestOnly, Patient, OneWatcher, StopsWhenDown, OwnChan, Connecting, Cleaned
<1>4. OwnRequests'
    BY DEF SocketClosed, SocketDisconnected, socketVars, watchVars, chanVars, Running,
           LatestOnly, Patient, OneWatcher, StopsWhenDown, OwnChan, OwnRequests,
           Connecting, Cleaned, Users
<1> QED
    BY <1>1, <1>2, <1>3, <1>4

LEMMA AwaitCleanupKeeps ==
    ASSUME TypeOK, LatestOnly, Patient, PatientSafe, AwaitCleanup
    PROVE  PatientSafe'
<1> USE MaxConnsAssumption DEF PatientSafe, TypeOK, Conns
<1>1. OneWatcher'
    BY DEF AwaitCleanup, socketVars, watchVars, chanVars, LatestOnly, Patient, OneWatcher,
           StopsWhenDown, OwnChan, Cleaned
<1>2. StopsWhenDown'
    BY DEF AwaitCleanup, socketVars, watchVars, chanVars, LatestOnly, Patient, OneWatcher,
           StopsWhenDown, OwnRequests, Connecting, Cleaned
<1>3. OwnChan'
    BY DEF AwaitCleanup, socketVars, watchVars, chanVars, LatestOnly, Patient, OneWatcher,
           StopsWhenDown, OwnChan, Connecting, Cleaned
<1>4. OwnRequests'
    BY DEF AwaitCleanup, socketVars, watchVars, chanVars, LatestOnly, Patient, OneWatcher,
           StopsWhenDown, OwnChan, OwnRequests, Connecting, Cleaned, Users
<1> QED
    BY <1>1, <1>2, <1>3, <1>4

LEMMA SubscribeKeeps ==
    ASSUME TypeOK, LatestOnly, Patient, PatientSafe, Subscribe
    PROVE  PatientSafe'
<1> USE MaxConnsAssumption DEF PatientSafe, TypeOK, Conns
<1>1. OneWatcher'
    BY DEF Subscribe, Sends, SocketDisconnected, socketVars, watchVars, chanVars, Running,
           LatestOnly, Patient, OneWatcher, StopsWhenDown, OwnChan, Cleaned
<1>2. StopsWhenDown'
    BY DEF Subscribe, Sends, SocketDisconnected, socketVars, watchVars, chanVars, Running,
           LatestOnly, Patient, OneWatcher, StopsWhenDown, OwnRequests, Connecting,
           Cleaned
<1>3. OwnChan'
    BY DEF Subscribe, Sends, SocketDisconnected, socketVars, watchVars, chanVars, Running,
           LatestOnly, Patient, OneWatcher, StopsWhenDown, OwnChan, Connecting, Cleaned
<1>4. OwnRequests'
    BY DEF Subscribe, Sends, SocketDisconnected, socketVars, watchVars, chanVars, Running,
           LatestOnly, Patient, OneWatcher, StopsWhenDown, OwnChan, OwnRequests,
           Connecting, Cleaned, Users
<1> QED
    BY <1>1, <1>2, <1>3, <1>4

LEMMA SubscribeReturnsKeeps ==
    ASSUME TypeOK, LatestOnly, Patient, PatientSafe, SubscribeReturns
    PROVE  PatientSafe'
<1> USE MaxConnsAssumption DEF PatientSafe, TypeOK, Conns
<1>1. OneWatcher'
    BY DEF SubscribeReturns, Settles, Answered, socketVars, watchVars, chanVars, Running,
           LatestOnly, Patient, OneWatcher, StopsWhenDown, OwnChan, Cleaned
<1>2. StopsWhenDown'
    BY DEF SubscribeReturns, Settles, Answered, socketVars, watchVars, chanVars, Running,
           LatestOnly, Patient, OneWatcher, StopsWhenDown, OwnRequests, Connecting,
           Cleaned
<1>3. OwnChan'
    BY DEF SubscribeReturns, Settles, Answered, socketVars, watchVars, chanVars, Running,
           LatestOnly, Patient, OneWatcher, StopsWhenDown, OwnChan, Connecting, Cleaned
<1>4. OwnRequests'
    BY DEF SubscribeReturns, Settles, Answered, socketVars, watchVars, chanVars, Running,
           LatestOnly, Patient, OneWatcher, StopsWhenDown, OwnChan, OwnRequests,
           Connecting, Cleaned, Users
<1> QED
    BY <1>1, <1>2, <1>3, <1>4

LEMMA StopListeningKeeps ==
    ASSUME TypeOK, LatestOnly, Patient, PatientSafe, NEW g \in Conns, StopListening(g)
    PROVE  PatientSafe'
<1> USE MaxConnsAssumption DEF PatientSafe, TypeOK, Conns
<1>1. OneWatcher'
    BY DEF StopListening, Running, watchVars, chanVars, userVars, LatestOnly, Patient,
           OneWatcher, StopsWhenDown, OwnChan, Cleaned
<1>2. StopsWhenDown'
    BY DEF StopListening, Running, watchVars, chanVars, userVars, LatestOnly, Patient,
           OneWatcher, StopsWhenDown, OwnRequests, Connecting, Cleaned
<1>3. OwnChan'
    BY DEF StopListening, Running, watchVars, chanVars, userVars, LatestOnly, Patient,
           OneWatcher, StopsWhenDown, OwnChan, Connecting, Cleaned
<1>4. OwnRequests'
    BY DEF StopListening, Running, watchVars, chanVars, userVars, LatestOnly, Patient,
           OneWatcher, StopsWhenDown, OwnChan, OwnRequests, Connecting, Cleaned, Users
<1> QED
    BY <1>1, <1>2, <1>3, <1>4

LEMMA LoseConnectionKeeps ==
    ASSUME TypeOK, LatestOnly, Patient, PatientSafe, NEW g \in Conns, LoseConnection(g)
    PROVE  PatientSafe'
<1> USE MaxConnsAssumption DEF PatientSafe, TypeOK, Conns
<1>1. OneWatcher'
    BY DEF LoseConnection, EarlyLoss, watchVars, chanVars, userVars, LatestOnly, Patient,
           OneWatcher, StopsWhenDown, OwnChan, Cleaned
<1>2. StopsWhenDown'
    BY DEF LoseConnection, EarlyLoss, watchVars, chanVars, userVars, LatestOnly, Patient,
           OneWatcher, StopsWhenDown, OwnRequests, Connecting, Cleaned
<1>3. OwnChan'
    BY DEF LoseConnection, EarlyLoss, watchVars, chanVars, userVars, LatestOnly, Patient,
           OneWatcher, StopsWhenDown, OwnChan, Connecting, Cleaned
<1>4. OwnRequests'
    BY DEF LoseConnection, EarlyLoss, watchVars, chanVars, userVars, LatestOnly, Patient,
           OneWatcher, StopsWhenDown, OwnChan, OwnRequests, Connecting, Cleaned, Users
<1> QED
    BY <1>1, <1>2, <1>3, <1>4

LEMMA WatchKeeps ==
    ASSUME TypeOK, LatestOnly, Patient, PatientSafe, NEW g \in Conns, Watch(g)
    PROVE  PatientSafe'
<1> USE MaxConnsAssumption DEF PatientSafe, TypeOK, Conns
<1>1. OneWatcher'
    BY DEF Watch, socketVars, chanVars, userVars, LatestOnly, Patient, OneWatcher,
           StopsWhenDown, OwnChan, Cleaned
<1>2. StopsWhenDown'
    BY DEF Watch, socketVars, chanVars, userVars, LatestOnly, Patient, OneWatcher,
           StopsWhenDown, OwnRequests, Connecting, Cleaned
<1>3. OwnChan'
    BY DEF Watch, socketVars, chanVars, userVars, LatestOnly, Patient, OneWatcher,
           StopsWhenDown, OwnChan, Connecting, Cleaned
<1>4. OwnRequests'
    BY DEF Watch, socketVars, chanVars, userVars, LatestOnly, Patient, OneWatcher,
           StopsWhenDown, OwnChan, OwnRequests, Connecting, Cleaned, Users
<1> QED
    BY <1>1, <1>2, <1>3, <1>4

LEMMA RemoveStreamsKeeps ==
    ASSUME TypeOK, LatestOnly, Patient, PatientSafe, NEW g \in Conns, RemoveStreams(g)
    PROVE  PatientSafe'
<1> USE MaxConnsAssumption DEF PatientSafe, TypeOK, Conns
<1>1. OneWatcher'
    BY DEF RemoveStreams, Running, socketVars, chanVars, LatestOnly, Patient, OneWatcher,
           StopsWhenDown, OwnChan, Cleaned
<1>2. StopsWhenDown'
    <2>1. g = dialed /\ on[g] = g
        BY DEF RemoveStreams, OneWatcher
    <2>2. listener[g] = "stopped"
        BY <2>1 DEF RemoveStreams, Running, StopsWhenDown
    <2> QED
        BY <2>1, <2>2 DEF RemoveStreams, socketVars, StopsWhenDown, Connecting
<1>3. OwnChan'
    BY DEF RemoveStreams, Running, socketVars, chanVars, LatestOnly, Patient, OneWatcher,
           StopsWhenDown, OwnChan, Connecting, Cleaned
<1>4. OwnRequests'
    BY DEF RemoveStreams, Running, socketVars, chanVars, LatestOnly, Patient, OneWatcher,
           StopsWhenDown, OwnChan, OwnRequests, Connecting, Cleaned, Users
<1> QED
    BY <1>1, <1>2, <1>3, <1>4

LEMMA DeregisterAllKeeps ==
    ASSUME TypeOK, LatestOnly, Patient, PatientSafe, NEW g \in Conns, DeregisterAll(g)
    PROVE  PatientSafe'
<1> USE MaxConnsAssumption DEF PatientSafe, TypeOK, Conns
<1>1. OneWatcher'
    BY DEF DeregisterAll, socketVars, chanVars, LatestOnly, Patient, OneWatcher,
           StopsWhenDown, OwnChan, Cleaned
<1>2. StopsWhenDown'
    BY DEF DeregisterAll, socketVars, chanVars, LatestOnly, Patient, OneWatcher,
           StopsWhenDown, OwnRequests, Connecting, Cleaned
<1>3. OwnChan'
    BY DEF DeregisterAll, socketVars, chanVars, LatestOnly, Patient, OneWatcher,
           StopsWhenDown, OwnChan, Connecting, Cleaned
<1>4. OwnRequests'
    BY DEF DeregisterAll, socketVars, chanVars, LatestOnly, Patient, OneWatcher,
           StopsWhenDown, OwnChan, OwnRequests, Connecting, Cleaned, Users
<1> QED
    BY <1>1, <1>2, <1>3, <1>4

LEMMA CheckChanKeeps ==
    ASSUME TypeOK, LatestOnly, Patient, PatientSafe, NEW g \in Conns, CheckChan(g)
    PROVE  PatientSafe'
<1> USE MaxConnsAssumption DEF PatientSafe, TypeOK, Conns
<1>1. OneWatcher'
    BY DEF CheckChan, socketVars, chanVars, userVars, LatestOnly, Patient, OneWatcher,
           StopsWhenDown, OwnChan, Cleaned
<1>2. StopsWhenDown'
    BY DEF CheckChan, socketVars, chanVars, userVars, LatestOnly, Patient, OneWatcher,
           StopsWhenDown, OwnRequests, Connecting, Cleaned
<1>3. OwnChan'
    BY DEF CheckChan, socketVars, chanVars, userVars, LatestOnly, Patient, OneWatcher,
           StopsWhenDown, OwnChan, Connecting, Cleaned
<1>4. OwnRequests'
    BY DEF CheckChan, socketVars, chanVars, userVars, LatestOnly, Patient, OneWatcher,
           StopsWhenDown, OwnChan, OwnRequests, Connecting, Cleaned, Users
<1> QED
    BY <1>1, <1>2, <1>3, <1>4

LEMMA CloseChanKeeps ==
    ASSUME TypeOK, LatestOnly, Patient, PatientSafe, NEW g \in Conns, CloseChan(g)
    PROVE  PatientSafe'
<1> USE MaxConnsAssumption DEF PatientSafe, TypeOK, Conns
<1>1. OneWatcher'
    BY DEF CloseChan, socketVars, userVars, LatestOnly, Patient, OneWatcher,
           StopsWhenDown, OwnChan, Cleaned
<1>2. StopsWhenDown'
    BY DEF CloseChan, socketVars, userVars, LatestOnly, Patient, OneWatcher,
           StopsWhenDown, OwnRequests, Connecting, Cleaned
<1>3. OwnChan'
    BY DEF CloseChan, socketVars, userVars, LatestOnly, Patient, OneWatcher,
           StopsWhenDown, OwnChan, Connecting, Cleaned
<1>4. OwnRequests'
    BY DEF CloseChan, socketVars, userVars, LatestOnly, Patient, OneWatcher,
           StopsWhenDown, OwnChan, OwnRequests, Connecting, Cleaned, Users
<1> QED
    BY <1>1, <1>2, <1>3, <1>4

\* A behaviour keeps to its scenario.
LEMMA ScenarioKept == [Next]_vars => UNCHANGED scenario
BY DEF Next, vars, OwnerSteps, WatchSteps, socketVars, Connect, SendInit, InitAnswered,
       InitInterrupted,
       Publish, Disconnect, CloseAnswered, CloseConn, SocketClosed, AwaitCleanup, Subscribe,
       SubscribeReturns, StopListening, LoseConnection, Watch, RemoveStreams, DeregisterAll,
       CheckChan, CloseChan

\* The invariant of a patient owner holds at the start ...
LEMMA PatientInit == Init => PatientInv
<1> SUFFICES ASSUME Init PROVE PatientInv
    OBVIOUS
<1>1. OneWatcher /\ StopsWhenDown
    BY MaxConnsAssumption DEF Init, OneWatcher, StopsWhenDown, Connecting, Conns
<1>2. OwnChan /\ OwnRequests
    BY DEF Init, OwnChan, OwnRequests, Connecting, Conns
<1> QED
    BY <1>1, <1>2, InitInv DEF PatientInv, PatientSafe

\* ... and every step keeps it.
LEMMA PatientStep == PatientInv /\ [Next]_vars => PatientInv'
<1> SUFFICES ASSUME PatientInv, [Next]_vars, Patient' PROVE PatientSafe'
    BY StepInv DEF PatientInv, PatientSafe
<1>0. Patient /\ TypeOK /\ LatestOnly /\ PatientSafe
    <2>1. UNCHANGED scenario
        BY ScenarioKept
    <2> QED
        BY <2>1 DEF Patient, PatientInv, Inv, PatientSafe
<1>1. CASE Connect \/ Disconnect \/ OwnerSteps
    BY <1>0, <1>1, ConnectKeeps, DisconnectKeeps, SendInitKeeps, InitAnsweredKeeps,
           InitInterruptedKeeps,
       PublishKeeps, CloseAnsweredKeeps, CloseConnKeeps, SocketClosedKeeps, AwaitCleanupKeeps DEF OwnerSteps
<1>2. CASE Subscribe \/ SubscribeReturns
    BY <1>0, <1>2, SubscribeKeeps, SubscribeReturnsKeeps
<1>3. ASSUME NEW g \in Conns, StopListening(g) \/ LoseConnection(g) PROVE PatientSafe'
    BY <1>0, <1>3, StopListeningKeeps, LoseConnectionKeeps
<1>4. ASSUME NEW g \in Conns, WatchSteps(g) PROVE PatientSafe'
    BY <1>0, <1>4, WatchKeeps, RemoveStreamsKeeps, DeregisterAllKeeps, CheckChanKeeps,
           CloseChanKeeps
       DEF WatchSteps
<1>5. CASE UNCHANGED vars
    BY <1>0, <1>5 DEF PatientSafe, OneWatcher, StopsWhenDown, OwnChan, OwnRequests,
           Connecting, vars,
                      socketVars, watchVars, chanVars, userVars
<1> QED
    BY <1>1, <1>2, <1>3, <1>4, <1>5 DEF Next

\* What a patient owner's clean-up signals, interrupts and ends belongs to a connection that
\* is lost (CleanupTakesOnlyTheLost): the goroutine is the one of the latest connection.
THEOREM CleanupIsOwn == Spec => CleanupTakesOnlyTheLost
<1> DEFINE Own == Patient =>
        /\ ClosedMeansLost' /\ InterruptedOnlyByLoss'
        /\ app = "subscribed" /\ app' = "idle" => conn[sentOn["app"]] = "down"
<1>1. ASSUME PatientInv, Patient PROVE ClosedMeansLost /\ InterruptedOnlyByLoss
    <2>1. ClosedMeansLost
        BY <1>1 DEF PatientInv, PatientSafe, Inv, TypeOK, Conns, OneWatcher, StopsWhenDown,
               OwnChan, Cleaned, ClosedMeansLost
    <2>2. InterruptedOnlyByLoss
        BY <1>1 DEF PatientInv, PatientSafe, OwnRequests, InterruptedOnlyByLoss
    <2> QED
        BY <2>1, <2>2
<1>2. ASSUME PatientInv, Patient, NEW g \in Conns, RemoveStreams(g), app = "subscribed"
      PROVE  conn[sentOn["app"]] = "down"
    <2>1. g = dialed /\ on[g] = g /\ sentOn["app"] \in 1..dialed
        BY <1>2 DEF PatientInv, PatientSafe, Inv, TypeOK, Conns, RemoveStreams, OneWatcher,
               OwnRequests, Users
    <2>2. conn[g] = "down"
        BY <1>2, <2>1 DEF PatientInv, PatientSafe, Inv, TypeOK, Running, RemoveStreams, StopsWhenDown
    <2> QED
        <3>1. sentOn["app"] \in Conns /\ (sentOn["app"] < dialed \/ sentOn["app"] = dialed)
            BY <1>2, <2>1, MaxConnsAssumption DEF PatientInv, Inv, TypeOK, Conns
        <3> QED
            BY <1>2, <2>1, <2>2, <3>1 DEF PatientInv, PatientSafe, OneWatcher
<1>3. ASSUME PatientInv, PatientInv', [Next]_vars PROVE [Own]_vars
    <2> SUFFICES ASSUME Patient PROVE Own
        OBVIOUS
    <2>1. UNCHANGED scenario
        BY <1>3 DEF Next, vars, OwnerSteps, WatchSteps, socketVars, Connect, SendInit,
               InitAnswered, InitInterrupted,
               Publish, Disconnect, CloseAnswered, CloseConn, SocketClosed, AwaitCleanup, Subscribe,
               SubscribeReturns, StopListening, LoseConnection, Watch, RemoveStreams, DeregisterAll,
               CheckChan, CloseChan
    <2>2. ClosedMeansLost' /\ InterruptedOnlyByLoss'
        <3>1. Patient'
            BY <2>1 DEF Patient
        <3> QED
            BY <1>1, <1>3, <3>1, PTL
    <2>3. ASSUME app = "subscribed", app' = "idle" PROVE conn[sentOn["app"]] = "down"
        <3>1. \E g \in Conns : RemoveStreams(g)
            BY <1>3, <2>3 DEF Next, vars, OwnerSteps, WatchSteps, userVars,
                   Connect, SendInit, InitAnswered,
               InitInterrupted, Publish, Disconnect, CloseAnswered, CloseConn, SocketClosed, AwaitCleanup,
               Subscribe, SubscribeReturns, StopListening, LoseConnection, Watch, DeregisterAll, CheckChan, CloseChan
        <3> QED
            BY <1>2, <1>3, <2>3, <3>1
    <2> QED
        BY <2>2, <2>3
<1> QED
    BY <1>3, PatientInit, PatientStep, PTL DEF Spec, CleanupTakesOnlyTheLost
=============================================================================
