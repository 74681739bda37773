---------------------------- MODULE GatewayProofs ----------------------------
(***************************************************************************)
(* For any number of drivers, sockets and requests: what the gateway does  *)
(* to the registry is what the registry allows, so that the registry's     *)
(* theorems hold behind it; and late closes put nobody offline.            *)
(*                                                                         *)
(* The gateway knows a driver by the socket: the invariant says that a     *)
(* socket in use belongs to the driver who uses it, and that the server    *)
(* has that socket, and no other, for the driver.                          *)
(***************************************************************************)
EXTENDS Gateway, DriverRegistryProofs

SocketsTyped ==
    /\ owner \in [Sockets -> Drivers \cup {None}]
    /\ app \in [Drivers -> Sockets \cup {NoSocket}]
    /\ driverSockets \in [Drivers -> Sockets \cup {NoSocket}]
    /\ unread \subseteq Sockets

UnreadAreOpen == \A s \in unread : owner[s] # None

\* The socket of an app is the driver's own, and the one the server would write to.
AppIsReached ==
    \A d \in Drivers : app[d] # NoSocket => owner[app[d]] = d /\ driverSockets[d] = app[d]

GatewayInv == SocketsTyped /\ UnreadAreOpen /\ AppIsReached

-----------------------------------------------------------------------------
LEMMA GatewayInitInv == GatewayInit => GatewayInv
BY DEF GatewayInit, GatewayInv, SocketsTyped, UnreadAreOpen, AppIsReached

LEMMA ConnectInv ==
  ASSUME GatewayInv, NEW d \in Drivers, NEW s \in Sockets, Connect(d, s)
  PROVE  GatewayInv'
<1>1. SocketsTyped'
  BY DEF Connect, GatewayInv, SocketsTyped
<1>2. UnreadAreOpen'
  BY GatewayAssumption DEF Connect, GatewayInv, SocketsTyped, UnreadAreOpen
<1>3. AppIsReached'
  <2> SUFFICES ASSUME NEW c \in Drivers, app'[c] # NoSocket
               PROVE  owner'[app'[c]] = c /\ driverSockets'[c] = app'[c]
    BY DEF AppIsReached
  <2>1. CASE c = d
    BY <2>1 DEF Connect, GatewayInv, SocketsTyped
  <2>2. CASE c # d
    <3>1. app[c] # NoSocket /\ owner[app[c]] = c
      BY <2>2 DEF Connect, GatewayInv, SocketsTyped, AppIsReached
    <3>2. app[c] # s
      BY <3>1, GatewayAssumption DEF Connect
    <3> QED
      BY <2>2, <3>1, <3>2 DEF Connect, GatewayInv, SocketsTyped, AppIsReached
  <2> QED
    BY <2>1, <2>2
<1> QED
  BY <1>1, <1>2, <1>3 DEF GatewayInv

LEMMA DisconnectInv ==
  ASSUME GatewayInv, NEW d \in Drivers, Disconnect(d)
  PROVE  GatewayInv'
BY DEF Disconnect, GatewayInv, SocketsTyped, UnreadAreOpen, AppIsReached

LEMMA SendTelemetryInv ==
  ASSUME GatewayInv, NEW d \in Drivers, SendTelemetry(d)
  PROVE  GatewayInv'
<1>1. owner[app[d]] # None
  BY GatewayAssumption DEF SendTelemetry, GatewayInv, SocketsTyped, AppIsReached
<1> QED
  BY <1>1 DEF SendTelemetry, GatewayInv, SocketsTyped, UnreadAreOpen, AppIsReached

LEMMA HandleTelemetryInv ==
  ASSUME GatewayInv, NEW s \in Sockets, HandleTelemetry(s)
  PROVE  GatewayInv'
BY DEF HandleTelemetry, GatewayInv, SocketsTyped, UnreadAreOpen, AppIsReached

\* A socket that closes is no app's, and only its own entry of the map goes.
LEMMA HandleCloseInv ==
  ASSUME GatewayInv, NEW s \in Sockets, HandleClose(s)
  PROVE  GatewayInv'
<1> DEFINE d == owner[s]
<1>1. d \in Drivers /\ app[d] # s
  BY DEF HandleClose, GatewayInv, SocketsTyped
<1>2. /\ owner' = [owner EXCEPT ![s] = None]
      /\ app' = app
      /\ unread' = unread \ {s}
      /\ \/ driverSockets' = driverSockets
         \/ /\ driverSockets[d] = s
            /\ driverSockets' = [driverSockets EXCEPT ![d] = NoSocket]
  BY DEF HandleClose, Teardown
<1>3. SocketsTyped'
  BY <1>1, <1>2 DEF GatewayInv, SocketsTyped
<1>4. UnreadAreOpen'
  BY <1>2 DEF GatewayInv, SocketsTyped, UnreadAreOpen
<1>5. AppIsReached'
  <2> SUFFICES ASSUME NEW c \in Drivers, app'[c] # NoSocket
               PROVE  owner'[app'[c]] = c /\ driverSockets'[c] = app'[c]
    BY DEF AppIsReached
  <2>1. owner[app[c]] = c /\ driverSockets[c] = app[c] /\ app[c] \in Sockets
    BY <1>2 DEF GatewayInv, SocketsTyped, AppIsReached
  <2>2. app[c] # s
    BY <1>1, <2>1
  <2> QED
    BY <1>1, <1>2, <2>1, <2>2 DEF GatewayInv, SocketsTyped
<1> QED
  BY <1>3, <1>4, <1>5 DEF GatewayInv

\* Every other step leaves the sockets alone.
LEMMA OtherStepsSockets ==
  ASSUME NEW d \in Drivers, Move(d) \/ Server(d)
  PROVE  UNCHANGED socketVars
BY DEF Move, Server, Spawn, FallSilent, EvictSilent, EndTrip, FinishComplete, RedisOnly,
       HandleAccept, LockTraffic, CommitTrip

LEMMA GatewayNextInv ==
  ASSUME GatewayInv, [GatewayNext]_gatewayVars
  PROVE  GatewayInv'
<1>1. CASE UNCHANGED socketVars
  BY <1>1 DEF socketVars, GatewayInv, SocketsTyped, UnreadAreOpen, AppIsReached
<1>2. ASSUME NEW d \in Drivers, Client(d) \/ Server(d) PROVE GatewayInv'
  BY <1>1, <1>2, ConnectInv, DisconnectInv, SendTelemetryInv, OtherStepsSockets DEF Client
<1>3. ASSUME NEW s \in Sockets, HandleTelemetry(s) \/ HandleClose(s) PROVE GatewayInv'
  BY <1>3, HandleTelemetryInv, HandleCloseInv
<1>4. CASE UNCHANGED gatewayVars
  BY <1>1, <1>4 DEF gatewayVars
<1> QED
  BY <1>2, <1>3, <1>4 DEF GatewayNext

LEMMA GatewayInvariant == GatewaySafety => []GatewayInv
<1>1. ASSUME GatewayInv, [GatewayNext]_gatewayVars PROVE GatewayInv'
  BY <1>1, GatewayNextInv
<1> QED
  BY GatewayInitInv, <1>1, PTL DEF GatewaySafety

-----------------------------------------------------------------------------
(* The registry behind the gateway *)

\* A handler of the socket of a driver is a step of the registry, or none.
LEMMA SocketStepsAreRegistry ==
  ASSUME GatewayInv, NEW s \in Sockets, HandleTelemetry(s) \/ HandleClose(s)
  PROVE  [Next]_vars
<1> DEFINE d == owner[s]
<1>1. CASE HandleTelemetry(s)
  <2>1. d \in Drivers
    BY <1>1 DEF HandleTelemetry, GatewayInv, SocketsTyped, UnreadAreOpen
  <2>2. \/ \E st \in {"available", "offline"} : RegisterDriver(d, st)
        \/ UNCHANGED vars
        \/ \E expired, idle \in BOOLEAN : Telemetry(d, expired, idle)
    BY <1>1 DEF HandleTelemetry, Report
  <2> QED
    BY <2>1, <2>2 DEF Next
<1>2. CASE HandleClose(s)
  <2>1. d \in Drivers
    BY <1>2 DEF HandleClose, GatewayInv, SocketsTyped
  <2>2. SetOffline(d) \/ UNCHANGED vars
    BY <1>2 DEF HandleClose, Teardown
  <2> QED
    BY <2>1, <2>2 DEF Next
<1> QED
  BY <1>1, <1>2

LEMMA ServerStepsAreRegistry ==
  ASSUME NEW d \in Drivers, Server(d)
  PROVE  [Next]_vars
<1>1. CASE Spawn(d)
  BY <1>1 DEF Spawn, Next
<1>2. CASE FallSilent(d) \/ EndTrip(d)
  BY <1>2 DEF FallSilent, EndTrip
<1>3. CASE EvictSilent(d)
  BY <1>3 DEF EvictSilent, Next
<1>4. CASE FinishComplete(d)
  BY <1>4 DEF FinishComplete, Next
<1>5. CASE RedisOnly(d)
  BY <1>5 DEF RedisOnly, Next
<1>6. ASSUME NEW q \in Requests, HandleAccept(d, q) \/ LockTraffic(d, q) \/ CommitTrip(d, q)
      PROVE  [Next]_vars
  <2>1. CASE HandleAccept(d, q)
    BY <2>1 DEF HandleAccept
  <2>2. CASE LockTraffic(d, q)
    BY <2>2 DEF LockTraffic, Next
  <2>3. CASE CommitTrip(d, q)
    BY <2>3 DEF CommitTrip, Next
  <2> QED
    BY <1>6, <2>1, <2>2, <2>3
<1> QED
  BY <1>1, <1>2, <1>3, <1>4, <1>5, <1>6 DEF Server

LEMMA StepsAreRegistry ==
  ASSUME GatewayInv, [GatewayNext]_gatewayVars
  PROVE  [Next]_vars
<1>1. ASSUME NEW d \in Drivers, Client(d) PROVE [Next]_vars
  BY <1>1 DEF Client, Connect, Disconnect, SendTelemetry, Move
<1>2. CASE UNCHANGED gatewayVars
  BY <1>2 DEF gatewayVars
<1> QED
  BY <1>1, <1>2, ServerStepsAreRegistry, SocketStepsAreRegistry DEF GatewayNext

\* Whatever the sockets do, the registry behind the gateway behaves as the
\* registry's specification says.
THEOREM GatewayImplementsRegistry == GatewaySafety => ImplementsRegistry
<1>1. GatewayInit => Init
  BY DEF GatewayInit
<1>2. ASSUME GatewayInv, [GatewayNext]_gatewayVars PROVE [Next]_vars
  BY <1>2, StepsAreRegistry
<1> QED
  BY <1>1, <1>2, GatewayInvariant, PTL DEF GatewaySafety, ImplementsRegistry, Spec

\* So no driver is lost behind the gateway, and no locked driver is visible.
THEOREM GatewayKeepsIndex == GatewaySafety => [](NoLostDriver /\ LockedIsHidden)
BY GatewayImplementsRegistry, NoLostDriverHolds, LockedIsHiddenHolds, PTL
   DEF ImplementsRegistry

-----------------------------------------------------------------------------
(* Late closes *)

StaysReached(d) ==
    app[d] # NoSocket /\ app'[d] = app[d] => driverSockets'[d] = app[d]

GoesOffline(d) == status[d] \in {"available", "busy"} /\ status'[d] = "offline"

\* Only an eviction and a close put a driver offline.
LEMMA WhoPutsOffline ==
  ASSUME GatewayInv, TypeOK, [GatewayNext]_gatewayVars, NEW d \in Drivers, GoesOffline(d)
  PROVE  \/ d \in silent
         \/ /\ d \notin onTrip
            /\ app' = app
            /\ app[d] # driverSockets[d]
<1> USE DEF GoesOffline
<1>1. ASSUME NEW c \in Drivers, Client(c) PROVE FALSE
  BY <1>1 DEF Client, Connect, Disconnect, SendTelemetry, Move, vars
<1>2. ASSUME NEW c \in Drivers, Server(c) PROVE d \in silent
  <2>1. CASE EvictSilent(c)
    BY <2>1 DEF EvictSilent, Evict, TypeOK
  <2>2. CASE Spawn(c)
    BY <2>2 DEF Spawn, RegisterDriver, TypeOK, vars
  <2>3. CASE FallSilent(c) \/ EndTrip(c) \/ RedisOnly(c)
    BY <2>3 DEF FallSilent, EndTrip, RedisOnly, HealState, ExpireLease, localVars, vars
  <2>4. CASE FinishComplete(c)
    BY <2>4 DEF FinishComplete, Complete, SetAvailable, TypeOK
  <2>5. ASSUME NEW q \in Requests, HandleAccept(c, q) \/ LockTraffic(c, q) \/ CommitTrip(c, q)
        PROVE  FALSE
    BY <2>5 DEF HandleAccept, LockTraffic, CommitTrip, GrantLock, ReleaseLease,
                ReleaseNoLease, ReturnToPool, Commit, TypeOK, vars
  <2> QED
    BY <1>2, <2>1, <2>2, <2>3, <2>4, <2>5 DEF Server
<1>3. ASSUME NEW s \in Sockets, HandleTelemetry(s) PROVE FALSE
  <2>1. CASE \E st \in {"available", "offline"} : RegisterDriver(owner[s], st)
    BY <2>1 DEF RegisterDriver, TypeOK
  <2>2. CASE \E expired, idle \in BOOLEAN : Telemetry(owner[s], expired, idle)
    BY <2>2 DEF Telemetry, TypeOK
  <2>3. CASE UNCHANGED vars
    BY <2>3 DEF vars
  <2> QED
    BY <1>3, <2>1, <2>2, <2>3 DEF HandleTelemetry, Report
<1>4. ASSUME NEW s \in Sockets, HandleClose(s)
      PROVE  d \notin onTrip /\ app' = app /\ app[d] # driverSockets[d]
  BY <1>4 DEF HandleClose, Teardown, SetOffline, TypeOK, vars
<1>5. CASE UNCHANGED gatewayVars
  BY <1>5 DEF gatewayVars, vars
<1> QED
  BY <1>1, <1>2, <1>3, <1>4, <1>5 DEF GatewayNext

\* A driver whose app keeps its connection stays reachable, and nobody who is
\* connected or on a trip is put offline before having been silent.
THEOREM KeptUnlessSilentHolds == GatewaySafety => KeptUnlessSilent
<1> DEFINE Kept ==
      \A d \in Drivers :
        LET connected == app[d] # NoSocket /\ app'[d] = app[d]
        IN  /\ connected => driverSockets'[d] = app[d]
            /\ (connected \/ d \in onTrip)
                    /\ status[d] \in {"available", "busy"} /\ status'[d] = "offline"
               => d \in silent
<1>1. ASSUME GatewayInv, GatewayInv', TypeOK, [GatewayNext]_gatewayVars PROVE Kept
  <2> SUFFICES ASSUME NEW d \in Drivers
               PROVE  /\ StaysReached(d)
                      /\ ((app[d] # NoSocket /\ app'[d] = app[d]) \/ d \in onTrip)
                            /\ GoesOffline(d)
                         => d \in silent
    BY DEF StaysReached, GoesOffline
  <2>1. StaysReached(d)
    BY <1>1 DEF StaysReached, GatewayInv, AppIsReached
  <2>2. ((app[d] # NoSocket /\ app'[d] = app[d]) \/ d \in onTrip) /\ GoesOffline(d)
           => d \in silent
    BY <1>1, WhoPutsOffline DEF GatewayInv, AppIsReached
  <2> QED
    BY <2>1, <2>2
<1>2. Inv => TypeOK
  BY DEF Inv
<1> QED
  BY <1>1, <1>2, GatewayInvariant, GatewayImplementsRegistry, RegistryInvariant, PTL
     DEF GatewaySafety, ImplementsRegistry, KeptUnlessSilent
=============================================================================
