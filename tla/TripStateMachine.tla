-------------------------- MODULE TripStateMachine --------------------------
(***************************************************************************)
(* The trip finite state machine of src/core/trip_state_machine.ts: the    *)
(* map of trips and the three indices the class keeps beside it.  Every    *)
(* method of the class is synchronous, so every call is one action.  A     *)
(* call the class refuses, and a call that asks for the status the trip    *)
(* already has, change nothing and are stuttering steps here; what they    *)
(* return is given by the operators Succeeds and CreateSucceeds, which the *)
(* modules that call the state machine use.                                *)
(*                                                                         *)
(* A trip id is the position of the trip in the order of creation: the     *)
(* code draws a random UUID, which never repeats, and its Map iterates in  *)
(* insertion order.  Coordinates, timestamps, reasons and the audit buffer *)
(* are left out.                                                           *)
(***************************************************************************)
EXTENDS Integers, FiniteSets

CONSTANTS
    Riders,     \* rider identities
    Drivers,    \* driver identities
    Requests,   \* client-chosen request ids
    None,       \* an absent Map entry, and a null driverId
    Capacity,   \* number of trips from which createTrip evicts (10000)
    MaxTrips    \* bound: how many trips are ever created

TripIds == 1..MaxTrips

ASSUME ConstantsAssumption ==
    /\ MaxTrips \in Nat
    /\ Capacity \in Nat \ {0}
    /\ None \notin Drivers
    /\ None \notin TripIds

VARIABLES
    trips,              \* trips: the trips still in the map, by id
    requestToTrip,      \* requestToTrip
    activeRiderTrips,   \* activeRiderTrips
    activeDriverTrips,  \* activeDriverTrips
    created             \* how many trip ids have been handed out

vars == <<trips, requestToTrip, activeRiderTrips, activeDriverTrips, created>>

-----------------------------------------------------------------------------
(* The lifecycle *)

Terminal == {"completed", "cancelled"}

\* The statuses in which a driver is bound to the trip.
Assigned == {"matched", "en_route", "arrived", "in_progress"}

TripStatus == {"requested", "matching"} \cup Assigned \cup Terminal

ActorRole == {"rider", "driver", "system"}

\* Mutant: a trip may be rematched with the passenger already on board.
AllowedTransitionsRematch(status) ==
    CASE status = "requested"   -> {"matching", "cancelled"}
      [] status = "matching"    -> {"matched", "cancelled"}
      [] status = "matched"     -> {"en_route", "arrived", "cancelled"}
      [] status = "en_route"    -> {"arrived", "matching", "cancelled"}
      [] status = "arrived"     -> {"in_progress", "matching", "cancelled"}
      [] status = "in_progress" -> {"completed", "matching"}
      [] OTHER                  -> {}

\* Mutant: a trip may start on the way to the pickup.
AllowedTransitionsNoArrival(status) ==
    CASE status = "requested"   -> {"matching", "cancelled"}
      [] status = "matching"    -> {"matched", "cancelled"}
      [] status = "matched"     -> {"en_route", "arrived", "cancelled"}
      [] status = "en_route"    -> {"arrived", "in_progress", "matching", "cancelled"}
      [] status = "arrived"     -> {"in_progress", "matching", "cancelled"}
      [] status = "in_progress" -> {"completed"}
      [] OTHER                  -> {}

\* ALLOWED_TRANSITIONS
AllowedTransitions(status) ==
    CASE status = "requested"   -> {"matching", "cancelled"}
      [] status = "matching"    -> {"matched", "cancelled"}
      [] status = "matched"     -> {"en_route", "arrived", "cancelled"}
      [] status = "en_route"    -> {"arrived", "matching", "cancelled"}
      [] status = "arrived"     -> {"in_progress", "matching", "cancelled"}
      [] status = "in_progress" -> {"completed"}
      [] OTHER                  -> {}

\* The role checks of transition().
RoleMay(role, status, target) ==
    /\ target \in {"arrived", "in_progress", "completed"} => role = "driver"
    /\ target = "cancelled" /\ status \in {"requested", "matching"}
          => role # "driver"

\* Mutant: only a missing driver is refused.
BookableAny(t, d) == d # None

\* The double-booking guard; a blank driverId (None) is refused too.
Bookable(t, d) == d # None /\ activeDriverTrips[d] \in {None, t}

\* transition(t, target, role, _, {driverId: d}) changes the trip.
Accepts(t, target, role, d) ==
    /\ t \in DOMAIN trips
    /\ target \in AllowedTransitions(trips[t].status)
    /\ RoleMay(role, trips[t].status, target)
    /\ target = "matched" => Bookable(t, d)

\* transition() returns success: it changes the trip, or the trip already has
\* the status asked for (the idempotent no-op).
Succeeds(t, target, role, d) ==
    \/ Accepts(t, target, role, d)
    \/ t \in DOMAIN trips /\ trips[t].status = target

-----------------------------------------------------------------------------
Init ==
    /\ trips = [t \in {} |-> None]
    /\ requestToTrip = [q \in Requests |-> None]
    /\ activeRiderTrips = [r \in Riders |-> None]
    /\ activeDriverTrips = [d \in Drivers |-> None]
    /\ created = 0

\* Mutant: nothing is ever evicted.
EvictedNever == {}

\* Mutant: the oldest trip goes, finished or not.
EvictedOldest ==
    {t \in DOMAIN trips :
        /\ Cardinality(DOMAIN trips) >= Capacity
        /\ \A u \in DOMAIN trips : t <= u}

\* What a createTrip(q, r) call that reaches the end of the method evicts:
\* nothing below capacity, else the oldest trip in a terminal status.
Evicted ==
    {t \in DOMAIN trips :
        /\ Cardinality(DOMAIN trips) >= Capacity
        /\ trips[t].status \in Terminal
        /\ \A u \in DOMAIN trips : trips[u].status \in Terminal => t <= u}

\* createTrip(q, r) returns success without creating a trip: the request id is
\* known and belongs to this rider.
IsReplay(q, r) ==
    /\ requestToTrip[q] \in DOMAIN trips
    /\ trips[requestToTrip[q]].riderId = r

NewTrip(q, r) ==
    [requestId |-> q, riderId |-> r, driverId |-> None, status |-> "requested"]

\* Mutant: the rider's other trips are not looked at.
RiderIsFreeAlways(r) == TRUE

\* The guard against a second active trip.
RiderIsFree(r) == activeRiderTrips[r] = None

\* createTrip for a request id not seen before, by a rider with no active trip.
CreateTrip(q, r) ==
    /\ requestToTrip[q] = None
    /\ RiderIsFree(r)
    /\ created < MaxTrips
    /\ LET id   == created + 1
           kept == DOMAIN trips \ Evicted
           gone == {trips[t].requestId : t \in Evicted}
       IN  /\ created' = id
           /\ trips' = [t \in kept \cup {id} |->
                           IF t = id THEN NewTrip(q, r) ELSE trips[t]]
           /\ requestToTrip' = [p \in Requests |->
                                   IF p = q THEN id
                                   ELSE IF p \in gone THEN None
                                   ELSE requestToTrip[p]]
           /\ activeRiderTrips' = [activeRiderTrips EXCEPT ![r] = id]
    /\ UNCHANGED activeDriverTrips

\* The assignments every transition ends with.
Enter(t, status, driver) ==
    /\ trips' = [trips EXCEPT ![t].status = status, ![t].driverId = driver]
    /\ UNCHANGED <<requestToTrip, created>>

\* activeDriverTrips.delete(trip.driverId), when the trip has a driver.
DriverIndexWithout(t) ==
    IF trips[t].driverId = None
    THEN activeDriverTrips
    ELSE [activeDriverTrips EXCEPT ![trips[t].driverId] = None]

\* Mutant: the driver's entry stays.
ClearRiderIndexOnly(t) ==
    /\ activeRiderTrips' = [activeRiderTrips EXCEPT ![trips[t].riderId] = None]
    /\ UNCHANGED activeDriverTrips

\* clearActiveIndices: the trip keeps its driverId.
ClearActiveIndices(t) ==
    /\ activeRiderTrips' = [activeRiderTrips EXCEPT ![trips[t].riderId] = None]
    /\ activeDriverTrips' = DriverIndexWithout(t)

\* startMatching and rematchTrip: both are transition(t, "matching", "system").
StartMatching(t) ==
    /\ Accepts(t, "matching", "system", None)
    /\ Enter(t, "matching", None)
    /\ activeDriverTrips' = DriverIndexWithout(t)
    /\ UNCHANGED activeRiderTrips

SetMatched(t, d) ==
    /\ Accepts(t, "matched", "system", d)
    /\ Enter(t, "matched", d)
    /\ activeDriverTrips' = [activeDriverTrips EXCEPT ![d] = t]
    /\ UNCHANGED activeRiderTrips

\* A milestone that moves no index: en_route, arrived, in_progress.
Milestone(t, target) ==
    /\ Accepts(t, target, "driver", None)
    /\ Enter(t, target, trips[t].driverId)
    /\ UNCHANGED <<activeRiderTrips, activeDriverTrips>>

DriverEnRoute(t) == Milestone(t, "en_route")
DriverArrived(t) == Milestone(t, "arrived")
StartTrip(t)     == Milestone(t, "in_progress")

CompleteTrip(t) ==
    /\ Accepts(t, "completed", "driver", None)
    /\ Enter(t, "completed", trips[t].driverId)
    /\ ClearActiveIndices(t)

CancelTrip(t, role) ==
    /\ Accepts(t, "cancelled", role, None)
    /\ Enter(t, "cancelled", trips[t].driverId)
    /\ ClearActiveIndices(t)

Next ==
    \/ \E q \in Requests, r \in Riders : CreateTrip(q, r)
    \/ \E t \in TripIds :
          \/ StartMatching(t)
          \/ \E d \in Drivers : SetMatched(t, d)
          \/ DriverEnRoute(t)
          \/ DriverArrived(t)
          \/ StartTrip(t)
          \/ CompleteTrip(t)
          \/ \E role \in ActorRole : CancelTrip(t, role)

Spec == Init /\ [][Next]_vars

-----------------------------------------------------------------------------
(* Properties *)

Trip == [requestId : Requests, riderId : Riders,
         driverId : Drivers \cup {None}, status : TripStatus]

\* Every variable has its type: the map holds well-formed trips created so far.
TypeOK ==
    /\ created \in 0..MaxTrips
    /\ DOMAIN trips \subseteq 1..created
    /\ trips \in [DOMAIN trips -> Trip]
    /\ requestToTrip \in [Requests -> TripIds \cup {None}]
    /\ activeRiderTrips \in [Riders -> TripIds \cup {None}]
    /\ activeDriverTrips \in [Drivers -> TripIds \cup {None}]

\* Trips the rider still has to be served on, and trips that hold a driver.
ActiveTrips   == {t \in DOMAIN trips : trips[t].status \notin Terminal}
AssignedTrips == {t \in DOMAIN trips : trips[t].status \in Assigned}

\* activeRiderTrips names exactly the unfinished trip of each rider: an entry
\* left behind would lock a rider out, a missing one would allow a second ride.
RiderIndexExact ==
    \A r \in Riders, t \in TripIds :
        activeRiderTrips[r] = t <=> t \in ActiveTrips /\ trips[t].riderId = r

\* activeDriverTrips names exactly the trip each driver is serving, although
\* finished trips keep their driverId.
DriverIndexExact ==
    \A d \in Drivers, t \in TripIds :
        activeDriverTrips[d] = t <=> t \in AssignedTrips /\ trips[t].driverId = d

\* requestToTrip and the trip map are evicted together: createTrip never
\* answers "Existing trip record not found".
RequestIndexExact ==
    \A q \in Requests, t \in TripIds :
        requestToTrip[q] = t <=> t \in DOMAIN trips /\ trips[t].requestId = q

\* A trip has a driver from the match on, and none while it waits for one.
DriverIffAssigned ==
    \A t \in ActiveTrips : trips[t].driverId # None <=> t \in AssignedTrips

\* The inductive invariant: the three indices agree with the trip map.
IndicesExact ==
    /\ RiderIndexExact
    /\ DriverIndexExact
    /\ RequestIndexExact
    /\ DriverIffAssigned

\* No driver serves two trips at once, whatever calls reach the state machine.
NoDoubleBooking ==
    \A t, u \in AssignedTrips : trips[t].driverId = trips[u].driverId => t = u

\* No rider has two unfinished trips at once.
OneActiveTripPerRider ==
    \A t, u \in ActiveTrips : trips[t].riderId = trips[u].riderId => t = u

\* The trip map stays bounded although createTrip evicts at most one trip: it
\* outgrows Capacity only by trips that are all still active, one per rider.
MapBounded ==
    \/ Cardinality(DOMAIN trips) <= Capacity
    \/ Cardinality(DOMAIN trips) <= Cardinality(Riders)

\* A driver leaves a trip before joining another one: no step moves a driver
\* from one active trip straight to the next.
DriverLeavesBeforeJoining ==
    [][\A d \in Drivers : activeDriverTrips[d] # None
          => activeDriverTrips'[d] \in {activeDriverTrips[d], None}]_vars

\* A request id keeps naming its trip for as long as the trip is unfinished:
\* eviction ends the idempotency of finished requests only.
LiveRequestsStayIdempotent ==
    [][\A t \in ActiveTrips : requestToTrip'[trips[t].requestId] = t]_vars

\* The state machine implements the contract on rides: the ride of a rider is
\* the trip activeRiderTrips names, seen at three stages.
Stage(status) ==
    CASE status \in {"requested", "matching"} -> "waiting"
      [] status = "in_progress"               -> "onboard"
      [] OTHER                                -> "assigned"

rideBar ==
    [r \in Riders |->
        IF activeRiderTrips[r] = None
        THEN [stage |-> "idle", driver |-> None]
        ELSE LET trip == trips[activeRiderTrips[r]]
             IN  [stage |-> Stage(trip.status), driver |-> trip.driverId]]

Contract == INSTANCE RideContract WITH ride <- rideBar

\* Every step of the trip state machine is a step of RideContract or changes
\* no ride.
ImplementsContract == Contract!Spec
=============================================================================
