----------------------------- MODULE Lifecycle -----------------------------
(***************************************************************************)
(* Connecting, disconnecting and reconnecting one Libvirt object: the      *)
(* goroutine of its owner, who calls ConnectToURI and Disconnect           *)
(* (libvirt.go), the listener goroutine of each connection (socket.go),    *)
(* the goroutine of waitAndDisconnect each ConnectToURI starts, and an     *)
(* application goroutine that subscribes to events.  Connections are       *)
(* numbered in the order they are dialed; requests are taken as wholes     *)
(* (module Rpc has their steps).                                           *)
(***************************************************************************)
EXTENDS Naturals

CONSTANTS
    MaxConns,      \* bound on the connections dialed ...
    MaxHasty,      \* ... and on those of "refused" and "any", which interfere more
    Scenarios      \* the scenarios to consider, one of which each behaviour follows

ASSUME MaxConnsAssumption == MaxConns \in Nat /\ MaxHasty \in 0..MaxConns
ASSUME ScenariosAssumption == Scenarios \subseteq {"patient", "refused", "any"}

Conns == 1..MaxConns
Users == {"owner", "app"}

VARIABLES
    scenario,      \* what owner, libvirtd and network may do; it never changes
    dialed,        \* the latest connection: whose channel Socket.disconnected is
    conn,          \* each connection: "none", "up" or "down"
    listener,      \* its listener; its socket channel is closed once "stopped"
    watch,         \* the waitAndDisconnect its ConnectToURI started
    on,            \* the connection whose socket channel that goroutine waits for
    disconnected,  \* Libvirt.disconnected: the channel made for a connection
    closedChans,   \* the channels of that kind that are closed
    panicked,      \* a closed channel has been closed again
    owner,         \* where the owner is in ConnectToURI or Disconnect
    app,           \* the application: "idle", "call" or "subscribed"
    request,       \* the request each of the two waits for
    sentOn         \* the connection of that request, or of the subscription

socketVars == <<scenario, dialed, conn, listener>>
watchVars == <<watch, on>>
chanVars == <<disconnected, closedChans, panicked>>
userVars == <<owner, app, request, sentOn>>
vars == <<socketVars, watchVars, chanVars, userVars>>

\* The owner may reconnect before Disconnected() is closed.
Eager == scenario = "any"
\* The connection may be lost before ConnectToURI has returned.
EarlyLoss == scenario = "any"
\* libvirtd may refuse the handshake.
InitMayFail == scenario \in {"refused", "any"}
Bound == IF scenario = "patient" THEN MaxConns ELSE MaxHasty

TypeOK ==
    /\ scenario \in Scenarios
    /\ dialed \in 0..MaxConns
    /\ conn \in [Conns -> {"none", "up", "down"}]
    /\ listener \in [Conns -> {"none", "running", "stopped"}]
    /\ watch \in [Conns -> {"none", "spawned", "waiting", "deregister", "check", "close", "done"}]
    /\ on \in [Conns -> 0..MaxConns]
    /\ disconnected \in 0..MaxConns
    /\ closedChans \subseteq 0..MaxConns
    /\ panicked \in BOOLEAN
    /\ owner \in {"idle", "init", "undo", "publish", "closing", "hangup", "settle"}
    /\ app \in {"idle", "call", "subscribed"}
    /\ request \in [Users -> {"none", "waiting", "interrupted"}]
    /\ sentOn \in [Users -> 0..MaxConns]
    /\ \A u \in Users : request[u] = "waiting" => sentOn[u] \in Conns

\* NewWithDialer: both channels start closed, "since that indicates no connection".
Init ==
    /\ scenario \in Scenarios
    /\ dialed = 0
    /\ conn = [g \in Conns |-> "none"]
    /\ listener = [g \in Conns |-> "none"]
    /\ watch = [g \in Conns |-> "none"]
    /\ on = [g \in Conns |-> 0]
    /\ disconnected = 0
    /\ closedChans = {0}
    /\ panicked = FALSE
    /\ owner = "idle"
    /\ app = "idle"
    /\ request = [u \in Users |-> "none"]
    /\ sentOn = [u \in Users |-> 0]

Running(g) == g \in Conns /\ listener[g] = "running"
SocketDisconnected == ~Running(dialed)
Sends(u) ==
    /\ request' = [request EXCEPT ![u] = "waiting"]
    /\ sentOn' = [sentOn EXCEPT ![u] = dialed]
Settles(u) == request' = [request EXCEPT ![u] = "none"] /\ UNCHANGED sentOn
Answered(u) == request[u] = "waiting" /\ Running(sentOn[u])

(***************************************************************************)
(* ConnectToURI.  A dial that fails, or a socket that is still connected,  *)
(* returns an error and changes nothing.                                   *)
(***************************************************************************)

\* Faulty variants, which no run uses, are named <operator>_<fault> and stand
\* before the operator; each breaks a property stated at the end.

\* Socket.Connect without the test whether it is connected already.
Connect_Unchecked ==
    /\ owner = "idle"
    /\ dialed < Bound
    /\ dialed' = dialed + 1
    /\ conn' = [conn EXCEPT ![dialed'] = "up"]
    /\ listener' = [listener EXCEPT ![dialed'] = "running"]
    /\ watch' = [watch EXCEPT ![dialed'] = "spawned"]
    /\ owner' = "init"
    /\ UNCHANGED <<scenario, on, chanVars, app, request, sentOn>>

\* No watcher until the handshake is over.
Connect_Unwatched ==
    /\ owner = "idle"
    /\ SocketDisconnected
    /\ Eager \/ disconnected \in closedChans
    /\ dialed < Bound
    /\ dialed' = dialed + 1
    /\ conn' = [conn EXCEPT ![dialed'] = "up"]
    /\ listener' = [listener EXCEPT ![dialed'] = "running"]
    /\ owner' = "init"
    /\ UNCHANGED <<scenario, watch, on, chanVars, app, request, sentOn>>

Connect ==
    /\ owner = "idle"
    /\ SocketDisconnected
    /\ Eager \/ disconnected \in closedChans
    /\ dialed < Bound
    /\ dialed' = dialed + 1
    /\ conn' = [conn EXCEPT ![dialed'] = "up"]
    /\ listener' = [listener EXCEPT ![dialed'] = "running"]
    /\ watch' = [watch EXCEPT ![dialed'] = "spawned"]
    /\ owner' = "init"
    /\ UNCHANGED <<scenario, on, chanVars, app, request, sentOn>>

\* initLibvirtComms makes several requests, one after the other.
SendInit ==
    /\ owner = "init"
    /\ request["owner"] = "none"
    /\ IF SocketDisconnected THEN owner' = "undo" /\ UNCHANGED <<request, sentOn>>
                             ELSE Sends("owner") /\ UNCHANGED owner
    /\ UNCHANGED <<socketVars, watchVars, chanVars, app>>

InitAnswered ==
    /\ owner = "init"
    /\ Answered("owner")
    /\ Settles("owner")
    /\ \/ UNCHANGED owner
       \/ owner' = "publish"
       \/ InitMayFail /\ owner' = "undo"
    /\ UNCHANGED <<socketVars, watchVars, chanVars, app>>

InitInterrupted ==
    /\ owner = "init"
    /\ request["owner"] = "interrupted"
    /\ Settles("owner")
    /\ owner' = "undo"
    /\ UNCHANGED <<socketVars, watchVars, chanVars, app>>

\* l.disconnected = make(chan struct{})
Publish ==
    /\ owner = "publish"
    /\ disconnected' = dialed
    /\ owner' = "idle"
    /\ UNCHANGED <<socketVars, watchVars, closedChans, panicked, app, request, sentOn>>

(***************************************************************************)
(* Disconnect, and the socket.Disconnect it shares with a failed           *)
(* ConnectToURI.                                                           *)
(***************************************************************************)
\* The request is sent without a look at the socket.
Disconnect_Unchecked ==
    /\ owner = "idle"
    /\ owner' = "closing"
    /\ Sends("owner")
    /\ UNCHANGED <<socketVars, watchVars, chanVars, app>>

Disconnect ==
    /\ owner = "idle"
    /\ IF SocketDisconnected THEN owner' = "hangup" /\ UNCHANGED <<request, sentOn>>
                             ELSE owner' = "closing" /\ Sends("owner")
    /\ UNCHANGED <<socketVars, watchVars, chanVars, app>>

\* Any error but EINVAL makes Disconnect return early, with the socket open.
CloseAnswered ==
    /\ owner = "closing"
    /\ Answered("owner") \/ request["owner"] = "interrupted"
    /\ Settles("owner")
    /\ \/ owner' = "idle"
       \/ request["owner"] = "waiting" /\ owner' = "hangup"
    /\ UNCHANGED <<socketVars, watchVars, chanVars, app>>

CloseConn ==
    /\ owner \in {"undo", "hangup"}
    /\ ~SocketDisconnected
    /\ conn[dialed] = "up"
    /\ conn' = [conn EXCEPT ![dialed] = "down"]
    /\ UNCHANGED <<scenario, dialed, listener, watchVars, chanVars, userVars>>

\* socket.Disconnect returns once the listener has stopped, or times out.
SocketClosed ==
    /\ owner \in {"undo", "hangup"}
    /\ \/ SocketDisconnected /\ owner' = IF owner = "undo" THEN "idle" ELSE "settle"
       \/ ~SocketDisconnected /\ conn[dialed] = "down" /\ owner' = "idle"
    /\ UNCHANGED <<socketVars, watchVars, chanVars, app, request, sentOn>>

\* Disconnect waits for l.disconnected, for at most 5 seconds: it may return
\* before the channel is closed.
AwaitCleanup ==
    /\ owner = "settle"
    /\ owner' = "idle"
    /\ UNCHANGED <<socketVars, watchVars, chanVars, app, request, sentOn>>

(***************************************************************************)
(* The listener, the connection, and the application.                      *)
(***************************************************************************)
StopListening(g) ==
    /\ Running(g)
    /\ conn[g] = "down"
    /\ listener' = [listener EXCEPT ![g] = "stopped"]
    /\ UNCHANGED <<scenario, dialed, conn, watchVars, chanVars, userVars>>

LoseConnection(g) ==
    /\ conn[g] = "up"
    /\ EarlyLoss \/ owner \notin {"init", "publish"}
    /\ conn' = [conn EXCEPT ![g] = "down"]
    /\ UNCHANGED <<scenario, dialed, listener, watchVars, chanVars, userVars>>

Subscribe ==
    /\ app = "idle"
    /\ ~SocketDisconnected
    /\ app' = "call"
    /\ Sends("app")
    /\ UNCHANGED <<socketVars, watchVars, chanVars, owner>>

SubscribeReturns ==
    /\ app = "call"
    /\ \/ Answered("app") /\ app' \in {"subscribed", "idle"}
       \/ request["app"] = "interrupted" /\ app' = "idle"
    /\ Settles("app")
    /\ UNCHANGED <<socketVars, watchVars, chanVars, owner>>

(***************************************************************************)
(* waitAndDisconnect.  It evaluates l.socket.Disconnected() when it first  *)
(* runs, and l.disconnected twice: to test it and to close it.             *)
(***************************************************************************)
\* The socket channel is evaluated before Socket.Connect makes a new one.
Watch_Stale(g) ==
    /\ watch[g] = "spawned"
    /\ watch' = [watch EXCEPT ![g] = "waiting"]
    /\ on' = [on EXCEPT ![g] = g - 1]
    /\ UNCHANGED <<socketVars, chanVars, userVars>>

Watch(g) ==
    /\ watch[g] = "spawned"
    /\ watch' = [watch EXCEPT ![g] = "waiting"]
    /\ on' = [on EXCEPT ![g] = dialed]
    /\ UNCHANGED <<socketVars, chanVars, userVars>>

\* The watcher does not wait for the socket.
RemoveStreams_AtOnce(g) ==
    /\ watch[g] = "waiting"
    /\ watch' = [watch EXCEPT ![g] = "deregister"]
    /\ app' = IF app = "subscribed" THEN "idle" ELSE app
    /\ UNCHANGED <<on, socketVars, chanVars, owner, request, sentOn>>

\* The socket is disconnected: removeAllStreams() ends the subscription ...
RemoveStreams(g) ==
    /\ watch[g] = "waiting"
    /\ ~Running(on[g])
    /\ watch' = [watch EXCEPT ![g] = "deregister"]
    /\ app' = IF app = "subscribed" THEN "idle" ELSE app
    /\ UNCHANGED <<on, socketVars, chanVars, owner, request, sentOn>>

\* ... and deregisterAll() every request that waits, whatever it was sent on.
DeregisterAll(g) ==
    /\ watch[g] = "deregister"
    /\ watch' = [watch EXCEPT ![g] = "check"]
    /\ request' = [u \in Users |-> IF request[u] = "waiting" THEN "interrupted" ELSE request[u]]
    /\ UNCHANGED <<on, socketVars, chanVars, owner, app, sentOn>>

\* The test is the wrong way round.
CheckChan_Swapped(g) ==
    /\ watch[g] = "check"
    /\ watch' = [watch EXCEPT ![g] = IF disconnected \in closedChans THEN "close" ELSE "done"]
    /\ UNCHANGED <<on, socketVars, chanVars, userVars>>

CheckChan(g) ==
    /\ watch[g] = "check"
    /\ watch' = [watch EXCEPT ![g] = IF disconnected \in closedChans THEN "done" ELSE "close"]
    /\ UNCHANGED <<on, socketVars, chanVars, userVars>>

CloseChan(g) ==
    /\ watch[g] = "close"
    /\ watch' = [watch EXCEPT ![g] = "done"]
    /\ closedChans' = closedChans \cup {disconnected}
    /\ panicked' = (panicked \/ disconnected \in closedChans)
    /\ UNCHANGED <<on, socketVars, disconnected, userVars>>

WatchSteps(g) ==
    Watch(g) \/ RemoveStreams(g) \/ DeregisterAll(g) \/ CheckChan(g) \/ CloseChan(g)

OwnerSteps ==
    SendInit \/ InitAnswered \/ InitInterrupted \/ Publish
    \/ CloseAnswered \/ CloseConn \/ SocketClosed \/ AwaitCleanup

Next ==
    \/ Connect \/ Disconnect \/ OwnerSteps
    \/ Subscribe \/ SubscribeReturns
    \/ \E g \in Conns : StopListening(g) \/ LoseConnection(g) \/ WatchSteps(g)

Spec == Init /\ [][Next]_vars

\* Goroutines that can go on do; nothing is assumed of libvirtd, which need not
\* answer, nor of the owner and the application, who need not call.
Fairness ==
    /\ WF_vars(SendInit) /\ WF_vars(InitInterrupted) /\ WF_vars(Publish)
    /\ WF_vars(CloseConn) /\ WF_vars(SocketClosed) /\ WF_vars(AwaitCleanup)
    /\ WF_vars(CloseAnswered /\ request["owner"] = "interrupted")
    /\ WF_vars(SubscribeReturns /\ request["app"] = "interrupted")
    /\ \A g \in Conns : WF_vars(StopListening(g)) /\ WF_vars(WatchSteps(g))

FairSpec == Spec /\ Fairness

(***************************************************************************)
(* Properties.  Those of "patient" are promises kept to an owner who waits *)
(* for Disconnected() before it reconnects, on connections that live       *)
(* through their handshake.                                                *)
(***************************************************************************)
Patient == scenario = "patient"

\* At most one listener reads and routes at any time.
OneListener == \A g, h \in Conns : Running(g) /\ Running(h) => g = h

\* "If the returned channel is closed, then the connection to libvirt has been
\* lost (or disconnected intentionally)": Disconnected() tells no lies.
ClosedMeansLost ==
    disconnected \in closedChans /\ disconnected \in Conns => conn[disconnected] = "down"

\* ErrInterrupted means that the connection the request was sent on is gone.
InterruptedOnlyByLoss ==
    \A u \in Users : request[u] = "interrupted" => conn[sentOn[u]] = "down"

\* A clean-up that comes late, when the owner has connected again, takes nothing from
\* the new connection: neither its channel, nor its requests, nor its streams.
CleanupTakesOnlyTheLost ==
    [][Patient =>
        /\ ClosedMeansLost' /\ InterruptedOnlyByLoss'
        /\ app = "subscribed" /\ app' = "idle" => conn[sentOn["app"]] = "down"]_vars

\* The goroutines of waitAndDisconnect of all connections but the latest are done.
NothingLeftOver == \A g \in Conns : g < dialed => watch[g] = "done"

\* Whatever the owner, libvirtd and the network do, waitAndDisconnect does harm to a
\* live connection only when it is left over from an earlier one.  While none is left
\* over, no channel is closed, no request interrupted and no stream ended whose
\* connection is not lost.
OnlyLeftoversDoHarm ==
    [][NothingLeftOver =>
        /\ \A g \in closedChans' \ closedChans : conn[g] = "down"
        /\ \A u \in Users :
            request[u] = "waiting" /\ request'[u] = "interrupted" => conn[sentOn[u]] = "down"
        /\ app = "subscribed" /\ app' = "idle" => conn[sentOn["app"]] = "down"]_vars

\* A lost connection is signalled on Disconnected() to the owner who monitors it, if
\* connections live through their handshake: by its own waitAndDisconnect, or by one
\* that is left over from a handshake libvirtd refused.
LossSignalled ==
    \A g \in Conns :
        (~EarlyLoss /\ disconnected = g /\ conn[g] = "down")
            ~> (disconnected # g \/ g \in closedChans)

\* A connection lost under ConnectToURI or Disconnect never leaves the owner hanging.
LossReleasesOwner ==
    (owner # "idle" /\ dialed > 0 /\ conn[dialed] = "down") ~> (owner = "idle")

\* Nor the application, whose request was sent on a connection that is gone.
LossReleasesApp ==
    (Patient /\ request["app"] = "waiting" /\ conn[sentOn["app"]] = "down") ~> (request["app"] # "waiting")

\* A connection that is lost leaves neither of them hanging.
LossReleasesUsers == LossReleasesOwner /\ LossReleasesApp

(***************************************************************************)
(* What the comments of libvirt.go say and the code does not keep: in      *)
(* "refused" and "any" the first fails, in "any" the second.               *)
(***************************************************************************)

\* waitAndDisconnect: "Just return to avoid closing an already-closed channel", else
\* it "is open and must be closed": close(l.disconnected) never panics.
NoDoubleClose == ~panicked

\* ConnectToURI: "Since the connection can be lost, the Disconnected function can be
\* used to monitor for a lost connection."
LossMonitored ==
    \A g \in Conns :
        (disconnected = g /\ conn[g] = "down") ~> (disconnected # g \/ g \in closedChans)
=============================================================================
