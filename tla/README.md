# InstaRide: TLA+ models and proofs

InstaRide matches riders with drivers. One Node.js process holds the trips, the
drivers and a spatial index in memory; Redis holds a lease per driver, a status
hash per driver and a copy of every trip, for any number of such processes; riders
and drivers talk to a process over WebSockets and HTTP. Paths below are relative to the repository root.

What is worth verifying is the coordination: which driver may be offered to
whom, who holds a driver between the offer and the match, and what remains when a
rider cancels, a driver disconnects or a reply from Redis arrives late. The code
is sequential between two `await`s, so every bug of this kind is an interleaving
of a few continuations, which tests with a fast Redis hardly ever produce.

## 1. Inventory

| Component | State | Operations | Hard behaviour | What makes it correct |
| --- | --- | --- | --- | --- |
| Trip state machine, `src/core/trip_state_machine.ts` | trip map, request, rider and driver indices | `createTrip`, `transition` and its wrappers | idempotent replays, eviction at 10000 trips, finished trips keep their driver | the indices are exact, one trip per rider, one trip per driver, no cancellation with the passenger on board |
| Driver registry, `src/core/driver_registry.ts` | record per driver (status, lock token), spatial index | `registerDriver`, `updateLocation`, `setStatus`, `acquireLock`, `releaseLock`, `commitTrip`, `completeTrip`, `evictStaleDrivers`, `reset` | four operations await Redis and then write the record | the index holds exactly the available drivers without a token |
| Redis driver lock, `src/core/redis_driver_lock.ts`, `src/infra/lua/*.lua` | `driver_lock:<id>` with a TTL, `driver:state:<id>` without | acquire, release, commit, reset of the state | leases that run out, stale busy states | one holder per driver, a busy driver cannot be locked |
| Matching service, `src/core/matching_service.ts` | pending offers, aborted requests, one offer loop per request | `requestRide`, `handleDriverResponse`, `cancelRide`, `rematch`, `reset` | loops, cancellations and timers interleave at every `await` | a match needs the lease; every lease comes back; every rider is answered |
| Trip store, `src/core/redis_trip_store.ts`, `create_trip.lua` | trip JSON, request, rider and active-set keys in Redis | `createTrip`, `saveTrip`, `reconcileOrphanedTrips` | several servers, crashes, reconciliation at start-up | a rider has one active trip across servers and restarts |
| WebSocket gateway, `src/gateway/ws_manager.ts` | sockets by client id | rider, driver and observer messages, close | replaced sockets, late close events, repeated messages | only the current socket's close takes a driver offline |
| Server, `src/server.ts` | wiring, current region, engine choice | HTTP routes, eviction timer, `/simulator/reset`, shutdown | reset while calls are in flight | the same rules hold on every route |
| Driver simulator, `src/simulation/driver_simulator.ts` | position and phase per simulated driver | answers to offers, `onTripAssigned`, `tick` | timers against cancellations | a simulated driver follows the trip it was given |
| QuadTree and heap, `src/spatial/quadtree.ts`, `src/utils/min_heap.ts` | tree of points, each driver's place and leaf | insert, update, remove, k nearest | borders, splits, collapses | k nearest equals a search of all points |
| C++ bridge and engine, `src/spatial/cpp_spatial_bridge.ts`, `cpp-engine/` | queue of unanswered requests, child process | one line per request and per answer | answers matched by position, process exit | every request gets its own answer, once; the engine's tree follows the TypeScript index |
| Dashboard, `frontend/src/hooks/useInstaRideSocket.ts` | the ride it shows, its connection | request, cancel, messages, reconnection | messages of other rides, lost messages, answers out of order | what it shows is the ride as it is |
| Flight recorder, `src/infra/flight_recorder.ts`, `cassandra_client.ts` | two buffers, a flag | record, flush, shutdown | failure and shutdown during a flush | not created by the server |
| Metrics, validation, Redis client, the rest of the frontend | none the rest depends on | | | |

How they interact: a gateway or HTTP handler calls the matching service; the
service calls the state machine synchronously and the registry and the trip store
with `await`; the registry calls the Redis lock, and its index is queried by the
offer loop. The service calls back on an offer, a revocation and a match. The
state machine calls back on every transition, which saves the trip without
waiting. `completeTrip` of the registry is called without waiting when a driver
finishes a trip. Every change of the registry's index is mirrored to the C++ engine
over its bridge, also without waiting. Every broadcast reaches the dashboards. All of
this runs on one event loop and one Redis connection per server.

The file PROJECT.json lists the hazards of the code one by one, each at its line
and with the properties that cover it.

## 2. Modules

| Module | What it is |
| --- | --- |
| `RideContract` | what the system promises about rides, with no data structure |
| `TripStateMachine` | `trip_state_machine.ts`; every call is one action; implements `RideContract` |
| `DriverRegistry` | `driver_registry.ts`, `redis_driver_lock.ts` and the Lua scripts; every asynchronous call is cut at its awaits |
| `MatchingService` | `matching_service.ts`, composed with instances of the two modules above, and the handlers of gateway and server that call them |
| `Gateway` | `ws_manager.ts` and the eviction timer, over `DriverRegistry`, which it extends and implements |
| `TripStore` | `redis_trip_store.ts` and `create_trip.lua`, several servers on one Redis, crash, restart and reconciliation |
| `SpatialBridge` | `cpp_spatial_bridge.ts`, the process of `engine_bridge.cpp` behind two pipes, the registry's mirroring and the server's seeding |
| `SpatialIndex`, `QuadTree` | a map from drivers to places; `quadtree.ts`, which implements it |
| `MinHeap`, `NearestNeighbors` | `min_heap.ts` and the k nearest search, as operators on the tree |
| `Simulator` | `driver_simulator.ts` and the region reset, composed with the trip state machine |
| `RiderView` | the dashboard's hook, over `Simulator`, whose broadcasts it hears |
| `TripStateMachineProofs`, `DriverRegistryProofs`, `MatchingServiceProofs`, `GatewayProofs`, `TripStoreProofs`, `SpatialBridgeProofs`, `QuadTreeProofs`, `SimulatorProofs` | the theorems |
| `MCTripStateMachine`, `MCMatchingService`, `MCGateway`, `MCTripStore`, `MCSpatialBridge`, `MCQuadTree`, `MCRiderView` | what TLC needs on top: symmetry, environments, scenarios, places |

Operators named "Mutant" in a comment are not used by any model. Each is a
plausible bug that takes the place of the operator after it, to see that a
property notices.

### Trip state machine

`trips`, `requestToTrip`, `activeRiderTrips` and `activeDriverTrips` are the four
maps of the class. A trip id is the number of the trip in order of creation,
because the code's random ids never repeat and its `Map` iterates in insertion
order, which decides which trip `createTrip` evicts. `Accepts` gathers the early
returns of `transition`, `Succeeds` adds its idempotent no-op; callers use both.
Calls that change nothing are stuttering steps.

### Driver registry

`status` and `token` are the record, `index` the drivers in the spatial index,
`lock` and `state` the two Redis keys. `isWithinBounds` only decides whether a
registration starts offline; other positions are taken to be inside the region.
A step that needs a Redis reply is one action: what the script does together
with what the continuation does. With one connection nobody in the process can
tell the two moments apart. In the module itself the steps come in any order,
whoever makes them; `MatchingService` orders them.

### Matching service

`offers` and `aborted` are `activeOffers` and `abortedRequests`. `loop[q]` is the
offer loop of request `q`: its `pc` names the `await` it is suspended at, with the
candidate and the set of tried drivers. `wire` is the queue of Redis commands not
answered yet: a command is appended when the code calls Redis, and a reply action
takes the head, executes it and runs the continuation up to its next `await`. So
replies come in the order of the commands, as on one connection, and everything
else (a cancellation, an answer, a timer, a disconnect) may come in between.

| pc | suspended at |
| --- | --- |
| top | the head of the `for` loop |
| acquire, holder, heal, reacquire | the four commands of `acquireLock` |
| offer | the offer promise |
| commit, rollback | `commitTrip`; `completeTrip` after a refused `setMatched` |
| release, releaseHolder | `releaseLock`, then on to the next candidate |
| exit, exitHolder | `releaseLock`, then return |
| saving, closing | `saveTrip` of a match; of a failed request |

The candidate is any driver of the index the loop has not tried: distances are
not modelled here, so the loop may also give up at any iteration, as it does when
nobody is in the radius or the 30 s budget is spent. Times are not modelled: a
timer may fire whenever its offer is pending.

A run explores a set of environments, and a behaviour keeps the one it starts in. An
environment is a set of disturbances: `drop` (sockets close, silent drivers are
evicted, both come back), `resend` (clients repeat themselves), `reject` (the trip
store refuses), `slow` (a driver answers while another loop waits for Redis to lock
that driver), `lapse` (leases and tokens run out while in use). A rider may cancel,
and a driver refuse or not answer, in every one of them. `PoolsAgree` is stated for
environments without disturbance or with `reject` alone; the two service runs that
expect a violation show what `slow` and `resend` do to its parts.

### Gateway

`driverSockets` is the map of `WsManager`; `owner` says which driver each open socket
was opened for, and `app` which socket the driver's app really uses. The app may lose
its connection and connect again before the server has noticed, so that one driver has
several open sockets; `unread` are those with a telemetry message the server has not
read, and a close event comes at any time after the app has left the socket, or never.
`outside` are the drivers outside the operating region, `silent` those whose
`lastSeen` is more than 30 s ago. `onTrip` is `activeDriverTrips`; `accepted` and
`freeing` hold the calls of `commitTrip` and `completeTrip` that wait for Redis. The
other calls of the matching service are free to come whenever the registry allows them.
`Spawn` is `POST /drivers/spawn`: it registers a driver nobody need be connected for.

### Trip store

`trips` is the memory of all servers together, a sequence in order of creation, each
trip with its server; `record`, `requestKey`, `claim` and `active` are the Redis keys
`trip:<id>`, `request:trip:<id>`, `rider:active_trip:<id>` and `trip:active`. `wire[s]`
holds the commands server `s` has issued and Redis has not executed. `saveTrip` is a
pipeline without MULTI, hence three commands between which those of another server may
be executed. The number of saves is that of the code: `onTransition` saves every status,
and the caller saves again, at once or, in `cancelRide` of an assigned trip, after
another await (`owed`). A crash empties memory and wire of a server, and all its trips
become `"lost"`, also those that have ended: the server that restarts takes a repeated
request for a new one, as does a server that has evicted the ended trip. `Start` to
`Listen` is `reconcileOrphanedTrips`, one command at a time; `sweep` is what it has
read, with the trips that were older than 60 s when it started, forgotten when it ends.
A rider's key is written once, for two hours, and lapses then whatever has become of its
trip (`ExpireClaim`, in the environments with `lapse`). `disarmed` is a history
variable: the riders whose key went, by a DEL or by lapsing, while it named an open
trip.

### QuadTree and nearest neighbours

A node is the path of quadrants from the root, so that `divided` and `points` are a
whole tree; `driverMap` and `driverLeaves` are the two maps of the class. Places are
pairs of integers, and the sides of the boxes are divided evenly, so that a place may
lie exactly on a dividing line. `Insert`, `Update` and `Remove` do what the methods
do, splits and collapses included; the recursion is given by where it stops.
`NearestNeighbors` is the loop of `kNearestNeighbors` with the heap of `MinHeap`, a
sequence sifted up and down as in the code. A loop is a function of the number of its
turns, with a turn as an operator (`Rise`, `Sink`, `Visit`). Distances are squares of planar ones. On
the sphere the point of a box the code clamps to is not always the nearest of the box,
which the comment at `quadtree.ts:49` calls exact; the model does not speak of that
error.

### Simulator and rider view

`phase`, `activeTripId` and the two-second timer of each virtual driver, with
`leftBoarding` the timers that survive a reset of the region. The offer loop is that of
`MatchingService` with its lock calls made atomic; `wire` is the queue of the commands
whose answer some code waits for. When a driver reaches a pickup or a dropoff is free.
`RiderView` adds the hook: `view` is the ride it shows, `inbox` the messages on its
socket, `posted`, `cancelSent` and `cancelDone` the HTTP calls on their way. A lost
connection takes the inbox with it. `misled` and `ownCancel` are history variables that
say when the view can be expected to be right.

`DriverAction` is `POST /trips/:tripId/driver-action` (`server.ts:726`) for the trip's own
driver. The driver panel of the dashboard sends it for simulated drivers too
(`DriverCockpit.tsx:151`, by way of `useInstaRideSocket.ts:526`): a trip can be "arrived",
started and completed with its virtual driver far away, and a completion, repeated or not,
frees that driver, who drives on. `reported` is a history variable with the trips whose
arrival or start came that way. In `RiderView` the handler runs as `PanelClick`, at any
moment after the match was announced: the panels' buttons go by a view that may be out of
date. The panel's other two buttons, which accept and reject an offer
(`POST /trips/driver-response`), do what `Accept` and `Decline` do. `RepeatCancel` is a
cancellation of a trip that is cancelled already, which completes its driver again.

A scenario fixes who takes part: which drivers and riders, how many trips (`maxRides`) and
resets, whether there are a dashboard, lost connections, short rides (the dropoff may come
before the boarding timer) and driver panels (`panel`). The run has seven: two drivers, two
riders and a reset of the region; one driver with short rides; one driver and the panels,
with two riders, or with one rider and a reset; a dashboard with one driver, on two rides, or on one ride with a
connection that breaks once, or on one ride with the panels.

### Spatial bridge

`process`, `isReady` and `pendingQueue` are the fields of the class. A promise is
the number of its request; `results` records how each settled: with the answer to a
request (by number), or with an error. `stdin` and `stdout` are the lines on their
way; a command carries the number of the promise made with it and the engine hands it
on with its answer, which the real lines do not, so that a property can see whose
answer a promise was given: no action of the bridge looks at it. The engine may die
at any moment, perhaps having printed half a line, which `JSON.parse` refuses.
`pipe` becomes `"broken"` when a write has failed: `stdin` reports that once, and the
handler drains the queue, before the exit event does so again.

`IdxInsert` and `IdxRemove` stand for every call of the registry's funnel, so the
module leaves open why a driver comes or goes; `DriverRegistry` has those reasons. An
update and a batch are one command, because both move only drivers the tree knows.
`EarlyTraffic` says whether drivers may come and go before the engine is ready; the
run says no.
`Send` grows `results` up to `MaxRequests`; `MaxPipe` bounds the commands in the pipe
only where an update is about to be added.

## 3. Runs

| Run | Instance | What it shows |
| --- | --- | --- |
| `fsm` | 3 riders, 2 drivers, 4 requests, capacity 2, 5 trips | indices exact, no double booking, the map bounded by the larger of the capacity and the number of riders, request ids of live trips remembered, `RideContract` implemented |
| `gateway` | 1 driver, 3 sockets, 2 requests | the registry's rules hold whatever sockets do (`ImplementsRegistry`); nobody who is connected or on a trip goes offline without 30 s of silence; a connected driver comes back and a lost one is offline in the end (liveness) |
| `service` | 2 riders, 2 drivers, 2 requests; once drop, resend and slow together, once reject | one loop per request, every offer backed by a lease, every lease owned by a loop, no driver stranded busy, `RideContract` implemented; without the three, index, registry, Redis and trips agree on who is free |
| `service_lapse` | 2 riders, 1 driver, 2 requests; drop, slow, lapse | a match needs the lease at the commit; waiting riders are answered and leases come back (liveness) |
| `repeated_completion` | as `service`; resend | violated: a driver on a trip who counts as available |
| `heal_race` | as `service`; slow | violated: a driver on a trip is offered to a second rider |
| `bridge` | 2 drivers, 1 of them simulated, 8 requests, updates into a pipe of at most 2 | own answers, in order; the two indices agree; every promise settles (liveness) |
| `trip_store` | 2 servers, 2 riders, 3 trips; lapsing keys with none or one of two servers, repetitions, restarts, or with two of them | Redis comes to hold what the servers hold, ended trips lock nobody out, restarts clean up, a rider's key protects the trip until some DEL or for two hours |
| `one_trip_per_rider` | the same; two servers, no lapsing keys | violated: two servers dispatch drivers to one rider |
| `quadtree` | 4 drivers, 7 places in a region of 8 by 8, capacity 1, depth 2 | the tree implements the map; cached leaves are right; no split is left that is not needed; the pruned search finds the k nearest |
| `rider_view` | the seven scenarios above, 2 trips | an assigned trip is driven, and starts at its pickup unless a panel reported it; rides end and drivers come back (liveness), a dashboard that has read its messages shows the ride as it is |
| `cancel_click` | 2 drivers, a dashboard | violated: a ride shown as cancelled goes on |

**Bounds.** *fsm*: three riders and a capacity of two make the trip map outgrow its
capacity with unfinished trips; five trips over four request ids make an evicted id come
back. *gateway*: the operations of the registry touch one driver; three sockets are one
in use and two that linger, the fewest for closes that come in the wrong order; two
requests are one lease and one late release. *service*: two requests contend for a
driver, two drivers let a loop go on to the next candidate, and `K = 2` lets it run
out; `MaxTrips = 2` trips are created, one per request id, by two riders or by one rider
in turn. `MaxWire = 2` bounds the unanswered commands only where a client is about to
add one, so loops are never held up; two are enough for a client's command to stand
between two of a loop. The liveness run has one driver because TLC cannot use symmetry
there; that driver is contended for by both requests. *bridge*: eight requests are the
PING, the two of the seeding and five more: a reset takes three, or inserts, removals
and queries cross the engine's death. One driver outside the simulator suffices to tell
seeded from unseeded drivers. `MaxPipe` bounds the pipe only where an update is about to
be added. *trip_store*: three trips are one refused, one that is ended and one that is
live; `MaxWire = 3` leaves a whole pipeline pending when the next client calls.
`MCTripLimit` and `MCActiveRiders` keep repetitions and second servers at one rider, and any
two of second server, repetitions and restarts together at two trips, which is where those
collide: there is no cross-talk between riders except through the sweep, which lone restarts
explore with two. *quadtree*:
with capacity one, two drivers at two places of one quarter split twice and the depth
limit is reached; four drivers fill one leaf at that limit beyond its capacity; the
places include a corner, the centre and one outside the region. *rider_view*: two trips
are the ride and the next one of the same driver or rider, which is what timers, late
announcements and late answers can hit; one trip where a dashboard meets a lost
connection or the panels, for the sake of the state space (the panels' effect on a next ride
is explored without the dashboard). `MaxWire = 2` bounds the pending commands
only where a cancellation or a completion is about to be repeated.

**Deadlock** is checked in `gateway` and `quadtree`. The other systems come to rest in
their instances, when the trips, requests or promises of the bounds are used up.

**Type invariants.** `TypeOK` of each module and `SocketsOK` of the gateway are not in
the runs' lists; where a module has proofs, its inductive invariant contains them.

**Fairness.** *Service*: Redis answers the oldest command (`RedisAnswers`), the event
loop runs what is ready (`LoopStep`) and timers fire (`Timeout`). The client is
configured to retry without limit, and every offer sets its timer. Nothing is assumed of
riders and drivers: `WaitingTripsSettle` holds with drivers who never answer, because
the offer times out and the loop ends after `K` candidates. *Bridge*: a living engine
reads its input (`EngineStep`), Node delivers lines (`ReadLine`, `ReadPong`) and the exit
event (`ProcessExits`). An engine that stays alive and hangs is not covered: the code has
no timeout for it, and its promises would wait. *Gateway*: a connected app sends its
periodic telemetry, the server reads it, time passes and the eviction timer runs. No
close event is ever owed: the server does not ping its sockets. *Simulator*: its tick,
its timers and Redis go on; nothing is assumed of riders, panels, or of the dashboard.

**Findings.**

- *A repeated cancellation or completion frees a driver on the next trip.*
  `transition` answers a repetition with success, `cancelRide` and both
  `complete_trip` handlers then free the driver the finished trip names.
- *Healing undoes a commit.* `acquireLock` takes "refused, and nobody holds the
  lease" for a stale state, but a lease committed between the two commands looks
  the same. The window is one round trip to Redis; a second loop gets into it
  when it picked the driver before the first one's lock was answered or, with
  `drop`, when the driver reconnected during the offer. The state machine's guard
  stops the second match, and the rollback then frees the driver while on the
  first trip.
- *A refused request deletes the key of the running trip.* `saveTrip` of a trip that
  has ended DELs `rider:active_trip:<rider>` without looking which trip it names. A
  second server that the store refuses cancels its local trip, which is saved; the
  rider's third request is then granted.
- *A cancel before the match is not sent.* The view learns the trip's id with
  `trip_matched`; until then `cancelActiveRide` changes the view only.

**Limits of the properties**, each known from the code or from TLC's counterexample to
the stronger statement:

- `PoolsAgree` leaves `drop` out: `commitTrip` leaves the index alone, relying on
  `acquireLock`. Closing the socket and sending telemetry while the offer is pending puts
  the driver back in the index, and accepting then makes the driver busy there
  (`driver_registry.ts:288`), which `docs/architecture.md:132` excludes.
- `cancelRide` finds no offer while `acquireLock` is in flight, and the offer goes out for
  a cancelled trip (`matching_service.ts:352`). The lease does come back
  (`LeasesReturn`), but only when the driver has answered or the offer has timed out.
- `OwnAnswer` is stated up to the first failed write. After it, the queue has been
  drained while answers printed before the engine died may still be unread; a query made
  before the exit event is given one of them.
- `MirrorInSync` is stated for an engine left alone until it is ready: the bridge drops
  what comes before PONG, and the server then inserts the simulated drivers only,
  whatever their status (`server.ts:174`).
- `KeptUnlessSilent` speaks of the newest connection. Two live apps under one driver id
  share it: when the newer closes, the older still sends telemetry, so that the driver
  counts as available and gets no offers. A driver spawned over HTTP has no socket either,
  and is unreachable until the eviction.
- `NoLockout` and `StoreConsistent` leave `resend` and `restart` out: a repeated request
  whose trip was refused claims the rider for the dead trip, and a lost trip younger than
  60 s keeps its rider locked until the key's TTL of two hours.
- `ClaimProtects` holds of the trips the store granted, until a DEL and for two hours:
  `saveTrip` does not renew the key, so a trip that a slow driver, or a reset, leaves open
  for longer is unprotected, and its end deletes the key of the rider's next trip. The
  second `saveTrip` of `cancelRide` may come late enough to delete the key of the rider's next
  trip; a request repeated on another server or after a restart is answered with code 1,
  which `requestRide` ignores, and is dispatched without a claim; the reconciliation of
  one server deletes keys made between its SMEMBERS and its SCAN, and cancels trips of
  other servers that are older than 60 s.
- `AssignedIsDriven` and `RidesEnd` end with the first reset and leave short rides out. A
  reset cannot cancel a trip in progress, which then never ends and locks its rider and
  its driver's id out; a dropoff before the boarding timer leaves the trip "arrived" for
  ever. Every dashboard that is opened resets the region. A reset while a match is being
  saved has `trip_matched` follow the cancellation.
- `StartsAtPickup` leaves out the trips whose arrival or start was reported over
  `driver-action`: the route asks for the driver's id only, and `arrived` and `start_trip`
  take effect wherever the virtual driver is (`server.ts:746`). `AssignedIsDriven` speaks
  of trips that have a driver: one completed from a panel is over, while its virtual driver
  drives on until its dropoff or its next match.
- `ViewIsCurrent` leaves out messages that were lost and messages of other rides: the
  hook applies the broadcasts of any ride to the view, and asks for nothing after it has
  connected again. It is proved of dashboards whose rider uses nothing beside them: a ride
  that another client cancels between its commit and its save is announced as matched
  after that (`matching_service.ts:393`). The answer to a cancellation marks whatever ride the view shows by
  then as cancelled, and a refused `POST /rides` leaves it "requested".
- A place outside the tree's region makes `insert` refuse and `update` drop the driver;
  the registry checks the bounds first.

## 4. Proofs

TLC checks the instances above; the theorems hold for any number of riders, drivers,
requests, trips, servers and sockets, and in every environment unless they name one.
Assumptions are the named ASSUMEs of the modules: the value for "none" is not a driver,
a request, a trip id or a socket; capacity, `K` and the bounds are numbers; the riders of
the store are finitely many (the sweep lists their keys), and so are its servers and the
drivers of the tree; the region of the tree can be halved `MaxDepth` times, its places are
pairs of integers, and none of them is the value for "no place"; places that are asked for
are pairs of integers too, inside the region or not, k is a natural number and the square
of a radius an integer; for the bridge, the simulated
drivers are finitely many, `MaxRequests` leaves room for the PING and the seeding, and the
markers of a waiting and of a failed promise are different and not request numbers; the
scenarios of the simulator speak of its riders and drivers, and the dashboard's rider is one
of them; the value for "no ride shown" is not a ride.

**Trip state machine.** `TypeOK /\ IndicesExact` is inductive. `IndicesExact` says
that each index names exactly the trips it should, and that a trip has a driver
exactly in the statuses from the match to the end. `NoDoubleBooking` and
`OneActiveTripPerRider` are not inductive by themselves: the guards of the code
look at an index, so one must know that a missing entry means that there is no
such trip. From the exact indices follow both, the two action properties, and
`Refinement`: the ride of a rider is the trip `activeRiderTrips` names, every
transition of that trip is a step of `RideContract` or stutters (`en_route`,
`arrived`), and the free driver that `Assign` asks for is the unset entry the
double-booking guard looks at. One lemma per action carries the induction. `MapBounded`
is a matter of counting: a call that creates a trip makes room first, unless no trip in
the map is over, and then there are no more trips than riders, because each is the one
its rider's index names.

**Driver registry.** `NoLostDriver /\ LockedIsHidden` is inductive with the types
and one more fact: a driver who is not registered holds no token, because
`registerDriver` inserts into the index without looking. `DriverStep` is what all
operations on one driver have in common; each is shown to be one, and a
`DriverStep` keeps the invariant.

**Matching service.** The module is made of the two above, and so is the proof. `Fine`
says that every step is, for the trips, a step of the state machine or none, for drivers,
leases and index, a step of the registry or none, and for the loops one that keeps the
local facts; one lemma per action proves it. `ServiceInvariant` then takes the invariants
of the two parts from the theorems of their own modules, instantiated, and `RideContract`
from `Refinement`. The map of the instance holds `MaxTrips + 1` trips, so that nothing is
evicted, as in the model. The local facts are few: an engaged loop has a candidate
(`LoopOK`); a request whose trip is still "requested" has no loop, and one whose trip
is past that has had exactly one launched (`LaunchedOK`), which is why a repeated request starts
no second one (`SingleLoop`); and a cancellation on the wire is the only one of its
request, whose loop still waits at the offer that was withdrawn (`WireOK`), without which
the release that follows could meet a loop that has gone elsewhere. `MatchUnderLease`
needs no invariant beyond them: the commit's reply is the only step that matches, in any
environment.

`ServiceNeverDoubleBooks` carries the two properties of the trip state machine over to the
service: the registry may offer a driver who is on a trip to a second rider
(`repeated_completion` and `heal_race` show how), but no driver gets two trips and no rider
two drivers, because the match is refused, and this in every environment.

**Leases.** `LeaseHasOwner` is not inductive by itself: `releaseLock` deletes what it finds
by the token in the record, so one must know that the record of a driver under lease holds
that lease's token or none (`TokenOfHolder`), and that an offer is made to its loop's
candidate (`OfferToCandidate`). With those, nobody but the owner gives a lease back, in
every environment; `OfferBacked` is its consequence as long as leases do not lapse.

**Stranded drivers.** A busy driver has a trip, a rollback or a `completeTrip` on the way
(`NoStrandedDriver`), in every environment. Only `commitTrip` makes a driver busy, and
whoever ends a driver's trip sends its `completeTrip`, except in two places: the refusal
by the trip store and the offer loop that gives up cancel a trip and free nobody. That no
driver is lost there is `SearchOK`: a request that was never answered by the store has no
loop, one without a loop waits in "requested" or was cancelled, and while its loop
searches its trip is "matching" or "cancelled", so that the trip they cancel has no
driver yet.

**Pools.** `PoolsAgree` is about environments in which connections stay up, clients do not
repeat themselves and Redis is faster than drivers. `PoolsOK` is what makes it inductive:
a driver is available, or busy for one reason exactly (a trip, a `completeTrip` on the
wire, a rollback), so that no release comes twice; a commit happens under the lease while
no other loop asks for the driver, so that it cannot take away somebody else's; and the
trip of a loop that searches has no driver, so that `releaseLock` after a cancellation
meets the lease it was called for. The invariants about leases and stranded drivers enter
as facts. `repeated_completion` and `heal_race` show that the condition is needed.

**Nobody is forgotten.** What `WaitingTripsSettle` and `LeasesReturn` need besides fairness
is that there is always something fair to wait for. `NobodyIsForgotten` and
`LeasesAreWorkedOn` say so: while a trip is "requested" or "matching", or a lease exists, a
command about it is on the wire, or an offer is out whose timer will fire, or its loop is to
take its next turn, in every environment. The invariant (`Going`) relates the wire, the
loops, the offers and the trips: a loop waits for Redis exactly while its one command is on
the wire, and for its withdrawn offer while the cancellation is, a trip that is "requested"
has its `createTrip` on the wire, and one that is "matching" has a loop that seeks and is in
`abortedRequests` only while its cancellation is on the wire. The last part is what makes it hold at
the head of an iteration, where an aborted request leaves the loop without cancelling
anything: its trip is over by then. TLC checked `Going` on the instances of `service` and
`service_lapse` before it was proved. `RepliesAreAwaitedHolds` is the other half: every reply
finds the loop, or the withdrawn offer, that waits for it. That the waiting ends remains with
TLC.

**Gateway.** `AppIsReached` (the socket of a connected app was opened for its driver
and is the one in `driverSockets`) and `UnreadAreOpen` (a message waits only on an open socket) are
inductive. From them: every step of the gateway is one of the registry or leaves it alone
(`GatewayImplementsRegistry`), so that the registry's theorems hold whatever sockets do;
and `KeptUnlessSilent`, because a close that finds the app's own socket would need the app
to have left it.

**Trip store.** `ClaimProtects` is inductive once it is known that every command on a wire
and every name in Redis is of a trip that exists (`GoodWire` and the types): the script
grants only when the key is free, each of the DELs, and each key that lapses, disarms the
rider whose open trip it unprotects, and an SREM or a SET does not touch the key.

What Redis holds once the pipelines have drained cannot be said of Redis alone while they
have not. `WrittenInv` speaks of Redis and of the commands under way together: they
*decide* about a trip (`Decided`) when the last of them that matters has the effect the
trip's status calls for, or none matters and the effect is there already. Appending a
command and executing the first one both preserve that, and of an empty wire it says what
Redis holds: `LiveTripsRecorded`, `NoLockout`, and, with the fact that a key names a trip
of its own rider (`OwnedInv`), `StoreConsistent`. Deciding about the record needs all
servers to write through one wire each and no reconciliation to cancel another server's
trips, which is the condition these properties have from the start. `OrphansSwept` has its
own part: for every stale trip of the server that reconciles there is a command on its
wire which leads, over the commands its reply issues, to the removal from `trip:active`
and of the rider's key (`TripSwept`). It holds whatever other servers do meanwhile.

The run `one_trip_per_rider` refutes that a rider has one trip under dispatch, with two
servers and a DEL under an open trip. Two theorems say how much of the claim is left. One
server alone keeps it (`OneServerOneTrip`), through crashes, restarts and repeated requests:
its memory has one open trip of a rider (`HereInv`), and after a crash nothing runs of what
it has forgotten. Any number of servers keep it for a rider whose key has not gone under an
open trip, if no request is repeated (`ArmedRidersOneTrip`): a dispatched trip's request id
names that trip (`NamedInv`), so its own script was granted the key, and the key names one
trip. Both conditions of the second are needed: a repeated request whose id another server
already knows goes on with a trip of its own after the re-read, without a key.

**QuadTree.** Operations are made of each other (`update` removes and inserts, a removal
collapses), so the invariant is about trees as values. `Sound`: the cached leaf of a driver
with a place is a leaf whose box holds the place, and a driver is a point of its cached
leaf and of no other node. `Needed`: a leaf over capacity is at the bottom, and what is
below a divided node does not fit into a leaf. The lemmas they rest on are about ways down
the tree: a chain of nodes, one on each level, each in the box of the one above, from
which follow where an insertion stops and that the points of a leaf that splits arrive in
leaves below it. A removal keeps `Needed` because a node above the leaf that does not
collapse holds too much, or has a divided node below it, off the way to the leaf, which
holds too much and has lost nothing. From
`Sound` follow `LeavesExact` and, as what the cached leaves hold (`foundBar`) is then the
map from drivers to places, `ImplementsIndex`: every operation is an insertion, a move or
a removal of one driver in that map, whatever it does to the tree. `SplitsAreNeeded`
follows from both.

**Nearest neighbours.** `NearestFound` is proved of the loops themselves, each a function of
the number of its turns. The heap: its entries are in order but at one position, to which a
turn of `BubbleUp` or `BubbleDown` moves the disorder, and the loop is over within as many
turns as there are entries; `Popped` then takes out one that none is less than. The
candidates: `InsertSorted` keeps them sorted and at most k, and what it leaves out or pushes
out is no nearer than the last of k, which stays so because the k-th never gets farther.
The main loop (`Searching`): a driver within the radius is a candidate, or beaten by k
candidates, or reachable from a node in the queue, that is, the node is its cached leaf or
above it; and the clamped distance of a node is at most that of any place in its box
(`BoxIsNear`, `BelowIsFar`). So a node beyond the radius, or no nearer than the k-th
candidate when it is the first of the queue, can be dropped without losing a driver, and
the queue, empty in the end, leaves the candidates with everybody who counts. `Sound` says
that a leaf that is evaluated has just the drivers cached there, each at its place. That the
loop does end: the queue holds nodes that were never taken out, below nodes that were, so
that each turn takes out a new one and there are no more turns than nodes.

**Spatial bridge.** `OwnAnswer` follows from an alignment of three sequences: the
queue holds the promises made last, in order (`QueueIsTail`); the printed lines are
the answers to the first of them, one after the other (`AnswersAligned`); the commands
that want an answer and are still in the pipe ask, in order, for all the others
(`CommandsAligned`). The last part holds while the engine lives; its death empties
the pipe and leaves the other two alone, which is why a crash does not shift answers.
Updates are in the pipe too and must be skipped: the alignment is by request number,
not by position. All of it is conditional on no write having failed. `SettledInOrder`
needs only `QueueIsTail`, which holds in any case.

`MirrorInSync` compares the index with the fold of the commands in the pipe over the
engine's tree. `FoldIs` says what the fold is without one: a driver is in its result when
the last command that decides about it (its own, or an INIT) is its insertion, or when none
decides and it was in the tree. Two pipes one after the other are then composed
(`DrainedConcat`), one more command does to the result what it does to the index
(`DrainedOne`), an INIT and the simulated drivers leave exactly these, whatever the tree was
(`DrainedSeed`), and `Mirrored` is inductive: until the engine is ready the index holds the
simulated drivers only, which is what it is seeded with. A bridge that is ready has made a
second promise, so that no late PONG seeds the engine again.

**Simulator.** `SimInv` has three parts. On the wire there is one command of each loop that
commits or saves, and none of any other; a driver under lease belongs to one loop; and the
commit of a driver whose last match is still being saved waits behind that save
(`PoolInv`). A driver's entry names an assigned trip of the driver, the virtual driver
follows a trip it was matched with, whatever became of it since, a match being saved has
been announced to nobody, and a trip waits at a pickup only while its driver is there
(`RideInv`). Until the first reset and without short rides, the trip of a booked driver is
then being saved, or driven to the pickup, or waiting there with a boarding timer running,
or under way (`DrivenInv`), and this is `AssignedIsDriven`. It takes all three: a driver
who still drives a cancelled ride may be leased, matched and reach the old dropoff before
or after `onTripAssigned` for the new one, which only the order of the commands and the
refusals of the state machine keep apart. The panels end trips earlier than their drivers
do, and what they free goes through the same wire; so the three parts hold with them.
`StartsAtPickup` follows from `RideInv` alone, resets included: only the two boarding timers
and `ReportMilestone` start a trip, and a trip that is "arrived" without a report has its
driver there. The dashboard adds only requests, cancellations and panel clicks (`ViewStep`),
so both hold below it (`RidesBelowView`).

`SimulatorKeepsIndices` says that the indices of the trip state machine stay exact here
too, so that nobody is booked twice. Every step but the reset of the region is, for the
trips, some steps of the state machine, and those keep `FSMP!Inv` by the theorems of its
module, instantiated; the reset cancels many trips at once, and is shown by itself to drop
the entries of just those. With the indices exact, every trip with a driver is the one the
driver's entry names, and what `AssignedIsDriven` says of entries becomes a statement about
rides: the rider whose trip has a driver is the one the virtual driver is on the way to, or
about to be (`RidesAreDriven`).

**Rider view.** The hook sets fields of its view from whatever message comes next, so what
it shows can only be as good as the order of the messages. `WordsAre` says what that order
is: the last message under way about a trip of the dashboard names the trip's present
status. Offers, matches, failures and the events of the state machine are sent at different
moments of a step's continuation, and each must be shown to leave the last word to the
event, or to agree with it: an offer goes out while the trip is "matching", a failure is
saved only of a cancelled trip (`FailsAre`), and a match is announced in the step that moves
the trip on to "en_route", because a trip of the dashboard is never cancelled while its
match is being saved. That last fact needs the hook's own state: it posts a cancellation
only for a trip id it was told in the announcement (`ViewIs`, `AskedIs`), which is why
`ViewIsCurrentHolds` assumes that nobody else cancels the dashboard's rides
(`OwnDashboard`; the scenarios of the run that have a dashboard have that too). When the last message is
read, the request it belongs to decides whose it was (`Indexed`), and `ShownIs` is kept:
the view has the status of the ride, or the hook cancelled it itself. Other riders, any
number of drivers and any number of lost connections are part of the theorem; the run has
a dashboard with one driver and no other rider.

`cancel_click` refutes that a ride shown as cancelled is over. `CancelledIsOverUnlessWritten`
says that the click is the only way there: until the first reset, a dashboard used alone
that has read its messages and did not write the status itself shows as cancelled only
rides that are.

Every safety invariant, action property and refinement that a passing run checks is stated
by a theorem. Only model-checked: liveness under fairness (`EveryPromiseSettles`,
`ConnectedComesBack`, `GoneGoesOffline`, `WaitingTripsSettle`, `LeasesReturn`, `RidesEnd`,
`DriversComeBack`).

## 5. Not modelled, and the plan

Not modelled, for good: coordinates, great-circle distances, wording, metrics, CQL, the
audit ring buffer, the format of the bridge's lines and the ids it refuses, Redis
reconnection and commands that fail. The registry's fallback without Redis is not used by
the server; `rematch` has no caller; the flight recorder is not created. The race
demonstration of the server (`server.ts:366`) is a scripted display that takes its own
leases for requests without trips. In the hook, telemetry and logs only display, as does
the map; of the panels, the buttons that send something are modelled.

Next: the reset of the region in `MatchingService`, with lock calls in flight, and the
proofs extended to it.
