------------------------------ MODULE Gateway ------------------------------
(***************************************************************************)
(* The drivers' connections: WsManager of src/gateway/ws_manager.ts and    *)
(* the eviction timer of src/server.ts, over the registry they keep up to  *)
(* date.                                                                   *)
(*                                                                         *)
(* A driver's app loses its connection and opens another before the server *)
(* has noticed: the server then holds several sockets of one driver, reads *)
(* what is left in each, and gets their close events late, in any order,   *)
(* or never.  What the matching service does with a driver is free to      *)
(* happen whenever the registry allows it; a trip is only a driver's being *)
(* on one.  Riders and observers have sockets too, but no state depends on *)
(* them.                                                                   *)
(***************************************************************************)
EXTENDS DriverRegistry

CONSTANTS
    Sockets,        \* sockets that may be open on the server at one time
    NoSocket

ASSUME GatewayAssumption == None \notin Drivers /\ NoSocket \notin Sockets

VARIABLES
    owner,          \* the driver an open socket was opened for, or None
    app,            \* the socket a driver's app uses, or NoSocket
    driverSockets,  \* WsManager.driverSockets
    unread,         \* sockets with a telemetry message not yet handled
    accepted,       \* drivers and requests whose commitTrip is to run
    outside,        \* drivers who are outside the operating region
    silent,         \* drivers whose lastSeen is more than 30 s ago
    onTrip,         \* TripStateMachine.activeDriverTrips
    freeing         \* drivers whose completeTrip awaits Redis

socketVars == <<owner, app, driverSockets, unread>>
tripVars == <<accepted, onTrip, freeing>>
gatewayVars == <<vars, socketVars, outside, silent, tripVars>>

GatewayInit ==
    /\ Init
    /\ owner = [s \in Sockets |-> None]
    /\ app = [d \in Drivers |-> NoSocket]
    /\ driverSockets = [d \in Drivers |-> NoSocket]
    /\ unread = {}
    /\ accepted = {}
    /\ outside \in SUBSET Drivers
    /\ silent = {}
    /\ onTrip = {}
    /\ freeing = {}

-----------------------------------------------------------------------------
(* The driver's side *)

\* A new connection replaces whatever the server has for the driver.
Connect(d, s) ==
    /\ app[d] = NoSocket
    /\ owner[s] = None
    /\ owner' = [owner EXCEPT ![s] = d]
    /\ app' = [app EXCEPT ![d] = s]
    /\ driverSockets' = [driverSockets EXCEPT ![d] = s]
    /\ UNCHANGED <<vars, unread, outside, silent, tripVars>>

\* The app stops or loses the network; the server does not know yet.
Disconnect(d) ==
    /\ app[d] # NoSocket
    /\ app' = [app EXCEPT ![d] = NoSocket]
    /\ UNCHANGED <<vars, owner, driverSockets, unread, outside, silent,
                   tripVars>>

SendTelemetry(d) ==
    /\ app[d] \in Sockets \ unread
    /\ unread' = unread \cup {app[d]}
    /\ UNCHANGED <<vars, owner, app, driverSockets, outside, silent,
                   tripVars>>

Move(d) ==
    /\ outside' = IF d \in outside THEN outside \ {d} ELSE outside \cup {d}
    /\ UNCHANGED <<vars, socketVars, silent, tripVars>>

-----------------------------------------------------------------------------
(* The server's side *)

\* Mutant: a driver is left offline by his telemetry.
ReportOnly(d) ==
    /\ d \notin outside
    /\ silent' = silent \ {d}
    /\ \E expired \in BOOLEAN : Telemetry(d, expired, FALSE)

\* Telemetry of a known driver: outside the region nothing is changed, inside he
\* is heard of, and reactivated unless he is on a trip.
Report(d) ==
    \/ /\ d \in outside
       /\ status[d] # "absent"
       /\ UNCHANGED <<vars, silent>>
    \/ /\ d \notin outside
       /\ silent' = silent \ {d}
       /\ \E expired \in BOOLEAN : Telemetry(d, expired, d \notin onTrip)

\* driver_telemetry on any open socket, be it one that was replaced.
HandleTelemetry(s) ==
    /\ s \in unread
    /\ unread' = unread \ {s}
    /\ LET d == owner[s]
       IN  \/ /\ RegisterDriver(d, IF d \in outside THEN "offline" ELSE "available")
              /\ silent' = silent \ {d}
           \/ Report(d)
    /\ UNCHANGED <<owner, app, driverSockets, outside, tripVars>>

\* POST /drivers/spawn, at a place inside the region: nobody need be connected.
Spawn(d) ==
    /\ \/ RegisterDriver(d, "available")
       \/ status[d] # "absent" /\ UNCHANGED vars
    /\ silent' = silent \ {d}
    /\ UNCHANGED <<socketVars, outside, tripVars>>

\* ride_response of a connected app: the commit awaits Redis.
HandleAccept(d, q) ==
    /\ app[d] # NoSocket
    /\ accepted' = accepted \cup {<<d, q>>}
    /\ UNCHANGED <<vars, socketVars, outside, silent, onTrip, freeing>>

\* Mutants: the close of any socket counts; the record alone is told.
TeardownOfAny(d, s) ==
    /\ driverSockets' = [driverSockets EXCEPT ![d] = NoSocket]
    /\ IF d \in onTrip \/ status[d] = "absent" THEN UNCHANGED <<vars, silent>>
       ELSE SetOffline(d) /\ silent' = silent \ {d}
TeardownStatusOnly(d, s) ==
    /\ driverSockets' = [driverSockets EXCEPT ![d] = IF @ = s THEN NoSocket ELSE @]
    /\ status' = IF driverSockets[d] = s /\ d \notin onTrip /\ status[d] # "absent"
                 THEN [status EXCEPT ![d] = "offline"] ELSE status
    /\ UNCHANGED <<token, index, redisVars, silent>>

\* What the close of a socket does about its driver: nothing if another socket has
\* replaced it; if not, he is unreachable, and offline unless he is on a trip.
Teardown(d, s) ==
    IF driverSockets[d] # s THEN UNCHANGED <<vars, silent, driverSockets>>
    ELSE /\ driverSockets' = [driverSockets EXCEPT ![d] = NoSocket]
         /\ IF d \in onTrip \/ status[d] = "absent" THEN UNCHANGED <<vars, silent>>
            ELSE SetOffline(d) /\ silent' = silent \ {d}

\* The close event; what has not been read by then is lost.
HandleClose(s) ==
    /\ owner[s] # None
    /\ app[owner[s]] # s
    /\ owner' = [owner EXCEPT ![s] = None]
    /\ unread' = unread \ {s}
    /\ Teardown(owner[s], s)
    /\ UNCHANGED <<app, outside, tripVars>>

\* Thirty seconds pass without a message of the driver.
FallSilent(d) ==
    /\ d \notin silent
    /\ status[d] # "absent"
    /\ silent' = silent \cup {d}
    /\ UNCHANGED <<vars, socketVars, outside, tripVars>>

\* Mutant: drivers on a trip are spared.
EvictSilentIdle(d) ==
    /\ d \in silent \ onTrip
    /\ Evict(d)
    /\ UNCHANGED <<socketVars, outside, silent, tripVars>>

EvictSilent(d) ==
    /\ d \in silent
    /\ Evict(d)
    /\ UNCHANGED <<socketVars, outside, silent, tripVars>>

-----------------------------------------------------------------------------
(* The matching service and the trips, as far as they touch a driver *)

LockTraffic(d, q) ==
    /\ status[d] # "absent"
    /\ \/ GrantLock(d, q)
       \/ ReleaseLease(d, q)
       \/ ReleaseNoLease(d, q)
    /\ UNCHANGED <<socketVars, outside, silent, tripVars>>

\* The commit of an accepted offer is followed by setMatched at once; if the trip
\* refuses the driver, he is given back.  Without the lease nothing is committed.
CommitTrip(d, q) ==
    /\ status[d] # "absent"
    /\ <<d, q>> \in accepted
    /\ accepted' = accepted \ {<<d, q>>}
    /\ \/ /\ d \notin onTrip
          /\ Commit(d, q)
          /\ onTrip' = onTrip \cup {d}
          /\ UNCHANGED freeing
       \/ /\ Commit(d, q)
          /\ freeing' = freeing \cup {d}
          /\ UNCHANGED onTrip
       \/ /\ lock[d] # q
          /\ UNCHANGED <<vars, onTrip, freeing>>
    /\ UNCHANGED <<socketVars, outside, silent>>

\* The trip ends, completed or cancelled, and completeTrip is called.
EndTrip(d) ==
    /\ d \in onTrip
    /\ onTrip' = onTrip \ {d}
    /\ freeing' = freeing \cup {d}
    /\ UNCHANGED <<vars, socketVars, outside, silent, accepted>>

FinishComplete(d) ==
    /\ d \in freeing
    /\ Complete(d)
    /\ freeing' = freeing \ {d}
    /\ silent' = silent \ {d}
    /\ UNCHANGED <<socketVars, outside, accepted, onTrip>>

RedisOnly(d) ==
    /\ HealState(d) \/ ExpireLease(d)
    /\ UNCHANGED <<socketVars, outside, silent, tripVars>>

-----------------------------------------------------------------------------
Client(d) ==
    \/ \E s \in Sockets : Connect(d, s)
    \/ Disconnect(d) \/ SendTelemetry(d) \/ Move(d)

Server(d) ==
    \/ Spawn(d) \/ FallSilent(d) \/ EvictSilent(d)
    \/ EndTrip(d) \/ FinishComplete(d) \/ RedisOnly(d)
    \/ \E q \in Requests : HandleAccept(d, q) \/ LockTraffic(d, q) \/ CommitTrip(d, q)

GatewayNext ==
    \/ \E d \in Drivers : Client(d) \/ Server(d)
    \/ \E s \in Sockets : HandleTelemetry(s) \/ HandleClose(s)

\* An app sends telemetry periodically, the server reads what has arrived, time
\* passes and the eviction timer runs.  A close event may never come: the server
\* does not ping its sockets.
Fairness ==
    /\ \A d \in Drivers :
        /\ WF_gatewayVars(SendTelemetry(d))
        /\ WF_gatewayVars(FallSilent(d))
        /\ WF_gatewayVars(EvictSilent(d))
    /\ \A s \in Sockets : WF_gatewayVars(HandleTelemetry(s))

GatewaySafety == GatewayInit /\ [][GatewayNext]_gatewayVars
GatewaySpec == GatewaySafety /\ Fairness

-----------------------------------------------------------------------------
(* Properties *)

\* Every open socket has an owner, and messages wait on open sockets only.
SocketsOK ==
    /\ owner \in [Sockets -> Drivers \cup {None}]
    /\ app \in [Drivers -> Sockets \cup {NoSocket}]
    /\ driverSockets \in [Drivers -> Sockets \cup {NoSocket}]
    /\ \A s \in unread : owner[s] # None
    /\ accepted \subseteq Drivers \X Requests

\* All the gateway does to the registry is what the registry allows its callers.
ImplementsRegistry == Spec

\* "Stale socket teardowns cannot offline replacement connections" (README.md:223):
\* a driver whose app keeps its connection stays reachable through it, and a driver
\* who is connected or on a trip is put offline only after 30 s of silence, however
\* late and in whatever order the closes of his former sockets arrive.
KeptUnlessSilent ==
    [][\A d \in Drivers :
        LET connected == app[d] # NoSocket /\ app'[d] = app[d]
        IN  /\ connected => driverSockets'[d] = app[d]
            /\ (connected \/ d \in onTrip)
                    /\ status[d] \in {"available", "busy"} /\ status'[d] = "offline"
               => d \in silent]_gatewayVars

\* A driver who stays connected inside the region without a trip is again and again
\* not offline, whatever evicted him and whichever sockets close.
ConnectedComesBack ==
    \A d \in Drivers :
        <>[](app[d] # NoSocket /\ d \notin outside /\ d \notin onTrip)
            => []<>(status[d] # "offline")

\* A driver whose app is gone for good, and whom nobody spawns any more, is offline in
\* the end, on a trip or not, even if no close event ever comes and a completion makes
\* him available once more.
GoneGoesOffline ==
    \A d \in Drivers :
        <>[](app[d] = NoSocket) /\ <>[][~Spawn(d)]_gatewayVars
            => <>[](status[d] \in {"absent", "offline"})

=============================================================================
