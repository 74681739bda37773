----------------------- MODULE TripStateMachineProofs -----------------------
(***************************************************************************)
(* Proofs about the trip state machine, for every set of riders, drivers   *)
(* and request ids and every capacity.  The inductive invariant says that  *)
(* the trip map and its three indices agree; that no driver is booked      *)
(* twice and no rider has two rides follows from it, because an index maps *)
(* an identity to one trip only.                                           *)
(***************************************************************************)
EXTENDS TripStateMachine, FiniteSetTheorems, WellFoundedInduction, TLAPS

Inv == TypeOK /\ IndicesExact

\* What the assignments shared by all transitions do to the trip map.
LEMMA EnterEffect ==
  ASSUME TypeOK, NEW t \in DOMAIN trips, NEW s \in TripStatus,
         NEW d \in Drivers \cup {None}, Enter(t, s, d)
  PROVE  /\ DOMAIN trips' = DOMAIN trips
         /\ trips' \in [DOMAIN trips -> Trip]
         /\ trips'[t].status = s
         /\ trips'[t].driverId = d
         /\ trips'[t].riderId = trips[t].riderId
         /\ trips'[t].requestId = trips[t].requestId
         /\ \A u \in DOMAIN trips \ {t} : trips'[u] = trips[u]
BY DEF TypeOK, Enter, Trip

LEMMA InitInv == Init => Inv
BY ConstantsAssumption
   DEF Init, Inv, TypeOK, IndicesExact, RiderIndexExact, DriverIndexExact,
       RequestIndexExact, DriverIffAssigned, TripIds, ActiveTrips, AssignedTrips

-----------------------------------------------------------------------------
(* Every action preserves the invariant *)

\* Eviction removes finished trips only, together with their request ids, so
\* no index entry is left dangling and no active trip is lost.
LEMMA CreateTripInv ==
  ASSUME Inv, NEW q \in Requests, NEW r \in Riders, CreateTrip(q, r)
  PROVE  Inv'
<1> DEFINE id   == created + 1
           kept == DOMAIN trips \ Evicted
<1> USE DEF Inv
<1>1. /\ id \in TripIds
      /\ id \notin DOMAIN trips
      /\ created' = id
      /\ DOMAIN trips' = kept \cup {id}
      /\ trips'[id] = NewTrip(q, r)
      /\ \A t \in kept : trips'[t] = trips[t] /\ t # id
  BY ConstantsAssumption DEF TypeOK, CreateTrip, TripIds
<1>2. NewTrip(q, r) \in Trip
  BY DEF NewTrip, Trip, TripStatus
<1>3. TypeOK'
  <2>1. trips' \in [DOMAIN trips' -> Trip]
    BY <1>1, <1>2 DEF TypeOK, CreateTrip
  <2>2. DOMAIN trips' \subseteq 1..created'
    BY <1>1, ConstantsAssumption DEF TypeOK, TripIds
  <2>3. requestToTrip' \in [Requests -> TripIds \cup {None}]
    BY <1>1 DEF TypeOK, CreateTrip
  <2>4. activeRiderTrips' \in [Riders -> TripIds \cup {None}]
    BY <1>1 DEF TypeOK, CreateTrip
  <2>5. created' \in 0..MaxTrips
    BY <1>1, ConstantsAssumption DEF TypeOK, TripIds
  <2> QED
    BY <2>1, <2>2, <2>3, <2>4, <2>5 DEF TypeOK, CreateTrip
<1>4. Evicted \subseteq {t \in DOMAIN trips : trips[t].status \in Terminal}
  BY DEF Evicted
<1>5. /\ ActiveTrips' = ActiveTrips \cup {id}
      /\ AssignedTrips' = AssignedTrips
      /\ ActiveTrips \subseteq kept
      /\ AssignedTrips \subseteq ActiveTrips
  BY <1>1, <1>4 DEF ActiveTrips, AssignedTrips, NewTrip, Terminal, Assigned
<1>6. RiderIndexExact'
  <2> SUFFICES ASSUME NEW p \in Riders, NEW t \in TripIds
               PROVE  activeRiderTrips'[p] = t
                      <=> t \in ActiveTrips' /\ trips'[t].riderId = p
    BY DEF RiderIndexExact
  <2>1. activeRiderTrips'[p] = IF p = r THEN id ELSE activeRiderTrips[p]
    BY DEF TypeOK, CreateTrip
  <2>2. activeRiderTrips[p] = t <=> t \in ActiveTrips /\ trips[t].riderId = p
    BY DEF IndicesExact, RiderIndexExact
  <2>3. CASE p = r
    <3>1. ~(t \in ActiveTrips /\ trips[t].riderId = r)
      BY <2>2, <2>3, ConstantsAssumption DEF CreateTrip, RiderIsFree
    <3> QED
      BY <3>1, <2>1, <2>3, <1>1, <1>5 DEF NewTrip
  <2>4. CASE p # r
    BY <2>1, <2>2, <2>4, <1>1, <1>5 DEF NewTrip, ActiveTrips
  <2> QED
    BY <2>3, <2>4
<1>7. DriverIndexExact'
  <2>1. activeDriverTrips' = activeDriverTrips
    BY DEF CreateTrip
  <2>2. \A t \in AssignedTrips : trips'[t] = trips[t]
    BY <1>1, <1>5
  <2>3. AssignedTrips' = AssignedTrips
    BY <1>5
  <2>4. DriverIndexExact
    BY DEF IndicesExact
  <2> QED
    BY <2>1, <2>2, <2>3, <2>4 DEF DriverIndexExact
<1>8. RequestIndexExact'
  <2> SUFFICES ASSUME NEW p \in Requests, NEW t \in TripIds
               PROVE  requestToTrip'[p] = t
                      <=> t \in DOMAIN trips' /\ trips'[t].requestId = p
    BY DEF RequestIndexExact
  <2> DEFINE gone == {trips[u].requestId : u \in Evicted}
  <2>1. requestToTrip'[p] = IF p = q THEN id
                            ELSE IF p \in gone THEN None ELSE requestToTrip[p]
    BY DEF CreateTrip
  <2>2. \A u \in DOMAIN trips : requestToTrip[trips[u].requestId] = u
    BY ConstantsAssumption
       DEF IndicesExact, RequestIndexExact, TypeOK, Trip, TripIds
  <2>3. requestToTrip[p] = t <=> t \in DOMAIN trips /\ trips[t].requestId = p
    BY DEF IndicesExact, RequestIndexExact
  <2>4. CASE p = q
    <3>1. ~(t \in DOMAIN trips /\ trips[t].requestId = q)
      BY <2>3, <2>4, ConstantsAssumption DEF CreateTrip
    <3> QED
      BY <3>1, <2>1, <2>4, <1>1 DEF NewTrip
  <2>5. CASE p # q /\ p \in gone
    <3>1. PICK u \in Evicted : p = trips[u].requestId
      BY <2>5
    <3>2. requestToTrip[p] = u
      BY <3>1, <2>2 DEF Evicted
    <3>3. requestToTrip'[p] # t
      BY <2>1, <2>5, ConstantsAssumption
    <3>4. ~(t \in kept /\ trips[t].requestId = p)
      BY <3>1, <3>2, <2>3
    <3> QED
      BY <3>3, <3>4, <2>5, <1>1 DEF NewTrip
  <2>6. CASE p # q /\ p \notin gone
    <3>1. t \in DOMAIN trips /\ trips[t].requestId = p => t \in kept
      BY <2>6
    <3> QED
      BY <3>1, <2>1, <2>3, <2>6, <1>1 DEF NewTrip
  <2> QED
    BY <2>4, <2>5, <2>6
<1>9. DriverIffAssigned'
  BY <1>1, <1>5, ConstantsAssumption
     DEF IndicesExact, DriverIffAssigned, NewTrip, AssignedTrips, ActiveTrips, Assigned
<1> QED
  BY <1>3, <1>6, <1>7, <1>8, <1>9 DEF IndicesExact

\* The three facts about a trip a transition applies to: it is active, its
\* rider's index entry names it, and so does its driver's, if it has one.
LEMMA TransitionContext ==
  ASSUME Inv, NEW t \in DOMAIN trips, trips[t].status \notin Terminal
  PROVE  /\ t \in TripIds
         /\ trips[t] \in Trip
         /\ activeRiderTrips[trips[t].riderId] = t
         /\ t \in AssignedTrips => /\ trips[t].driverId \in Drivers
                                   /\ activeDriverTrips[trips[t].driverId] = t
         /\ t \notin AssignedTrips => trips[t].driverId = None
<1> USE DEF Inv
<1>1. t \in TripIds /\ trips[t] \in Trip /\ t \in ActiveTrips
  BY ConstantsAssumption DEF TypeOK, TripIds, ActiveTrips
<1>2. trips[t].riderId \in Riders /\ trips[t].driverId \in Drivers \cup {None}
  BY <1>1 DEF Trip
<1> QED
  BY <1>1, <1>2 DEF IndicesExact, RiderIndexExact, DriverIndexExact, DriverIffAssigned

\* startMatching and rematchTrip.
LEMMA StartMatchingInv ==
  ASSUME Inv, NEW t \in TripIds, StartMatching(t)
  PROVE  Inv'
<1> USE DEF Inv
<1>1. /\ t \in DOMAIN trips
      /\ trips[t].status \in {"requested", "en_route", "arrived"}
  BY DEF StartMatching, Accepts, AllowedTransitions
<1>2. trips[t].status \notin Terminal
  BY <1>1 DEF Terminal
<1>3. /\ Enter(t, "matching", None)
      /\ activeDriverTrips' = DriverIndexWithout(t)
      /\ UNCHANGED <<activeRiderTrips, requestToTrip, created>>
  BY DEF StartMatching, Enter
<1>4. /\ DOMAIN trips' = DOMAIN trips
      /\ trips' \in [DOMAIN trips -> Trip]
      /\ trips'[t].status = "matching"
      /\ trips'[t].driverId = None
      /\ trips'[t].riderId = trips[t].riderId
      /\ trips'[t].requestId = trips[t].requestId
      /\ \A u \in DOMAIN trips \ {t} : trips'[u] = trips[u]
  BY <1>1, <1>3, EnterEffect DEF TripStatus
<1>5. /\ ActiveTrips' = ActiveTrips
      /\ AssignedTrips' = AssignedTrips \ {t}
      /\ t \in ActiveTrips
  BY <1>1, <1>2, <1>4 DEF ActiveTrips, AssignedTrips, Terminal, Assigned
<1>6. activeDriverTrips' \in [Drivers -> TripIds \cup {None}]
  BY <1>3 DEF TypeOK, DriverIndexWithout
<1>7. TypeOK'
  BY <1>3, <1>4, <1>6 DEF TypeOK
<1>8. RiderIndexExact'
  BY <1>3, <1>4, <1>5 DEF IndicesExact, RiderIndexExact, ActiveTrips
<1>9. DriverIndexExact'
  <2> SUFFICES ASSUME NEW d \in Drivers, NEW u \in TripIds
               PROVE  activeDriverTrips'[d] = u
                      <=> u \in AssignedTrips' /\ trips'[u].driverId = d
    BY DEF DriverIndexExact
  <2>1. activeDriverTrips[d] = u <=> u \in AssignedTrips /\ trips[u].driverId = d
    BY DEF IndicesExact, DriverIndexExact
  <2>2. activeDriverTrips'[d] = IF trips[t].driverId = d THEN None
                                ELSE activeDriverTrips[d]
    BY <1>3, ConstantsAssumption DEF TypeOK, DriverIndexWithout
  <2>3. activeDriverTrips[d] = t <=> t \in AssignedTrips /\ trips[t].driverId = d
    BY DEF IndicesExact, DriverIndexExact
  <2>4. trips[t].driverId = d => t \in AssignedTrips
    BY <1>1, <1>2, TransitionContext, ConstantsAssumption
  <2> QED
    BY <2>1, <2>2, <2>3, <2>4, <1>4, <1>5, ConstantsAssumption DEF AssignedTrips
<1>10. RequestIndexExact'
  BY <1>3, <1>4 DEF IndicesExact, RequestIndexExact
<1>11. DriverIffAssigned'
  BY <1>4, <1>5 DEF IndicesExact, DriverIffAssigned, ActiveTrips
<1> QED
  BY <1>7, <1>8, <1>9, <1>10, <1>11 DEF IndicesExact

\* setMatched: the double-booking guard is what keeps DriverIndexExact.
LEMMA SetMatchedInv ==
  ASSUME Inv, NEW t \in TripIds, NEW d \in Drivers, SetMatched(t, d)
  PROVE  Inv'
<1> USE DEF Inv
<1>1. /\ t \in DOMAIN trips
      /\ trips[t].status = "matching"
      /\ activeDriverTrips[d] \in {None, t}
  BY DEF SetMatched, Accepts, AllowedTransitions, Bookable
<1>2. trips[t].status \notin Terminal
  BY <1>1 DEF Terminal
<1>3. /\ Enter(t, "matched", d)
      /\ activeDriverTrips' = [activeDriverTrips EXCEPT ![d] = t]
      /\ UNCHANGED <<activeRiderTrips, requestToTrip, created>>
  BY DEF SetMatched, Enter
<1>4. /\ DOMAIN trips' = DOMAIN trips
      /\ trips' \in [DOMAIN trips -> Trip]
      /\ trips'[t].status = "matched"
      /\ trips'[t].driverId = d
      /\ trips'[t].riderId = trips[t].riderId
      /\ trips'[t].requestId = trips[t].requestId
      /\ \A u \in DOMAIN trips \ {t} : trips'[u] = trips[u]
  BY <1>1, <1>3, EnterEffect DEF TripStatus, Assigned
<1>5. /\ ActiveTrips' = ActiveTrips
      /\ AssignedTrips' = AssignedTrips \cup {t}
      /\ t \notin AssignedTrips
  BY <1>1, <1>2, <1>4 DEF ActiveTrips, AssignedTrips, Terminal, Assigned
<1>6. TypeOK'
  BY <1>3, <1>4 DEF TypeOK
<1>7. RiderIndexExact'
  BY <1>3, <1>4, <1>5 DEF IndicesExact, RiderIndexExact, ActiveTrips
<1>8. DriverIndexExact'
  <2> SUFFICES ASSUME NEW e \in Drivers, NEW u \in TripIds
               PROVE  activeDriverTrips'[e] = u
                      <=> u \in AssignedTrips' /\ trips'[u].driverId = e
    BY DEF DriverIndexExact
  <2>1. activeDriverTrips[e] = u <=> u \in AssignedTrips /\ trips[u].driverId = e
    BY DEF IndicesExact, DriverIndexExact
  <2>2. activeDriverTrips'[e] = IF e = d THEN t ELSE activeDriverTrips[e]
    BY <1>3 DEF TypeOK
  <2>3. activeDriverTrips[d] # t
    BY <1>5 DEF IndicesExact, DriverIndexExact
  <2> QED
    BY <2>1, <2>2, <2>3, <1>1, <1>4, <1>5, ConstantsAssumption DEF AssignedTrips
<1>9. RequestIndexExact'
  BY <1>3, <1>4 DEF IndicesExact, RequestIndexExact
<1>10. DriverIffAssigned'
  BY <1>4, <1>5, ConstantsAssumption DEF IndicesExact, DriverIffAssigned, ActiveTrips
<1> QED
  BY <1>6, <1>7, <1>8, <1>9, <1>10 DEF IndicesExact

\* driverEnRoute, driverArrived and startTrip keep the driver and the indices.
LEMMA MilestoneInv ==
  ASSUME Inv, NEW t \in TripIds, NEW s \in {"en_route", "arrived", "in_progress"},
         Milestone(t, s)
  PROVE  Inv'
<1> USE DEF Inv
<1>1. /\ t \in DOMAIN trips
      /\ trips[t].status \in {"matched", "en_route", "arrived"}
  BY DEF Milestone, Accepts, AllowedTransitions
<1>2. /\ Enter(t, s, trips[t].driverId)
      /\ UNCHANGED <<activeRiderTrips, activeDriverTrips, requestToTrip, created>>
  BY DEF Milestone, Enter
<1>3. trips[t].driverId \in Drivers \cup {None} /\ s \in TripStatus
  BY <1>1 DEF TypeOK, Trip, TripStatus, Assigned
<1>4. /\ DOMAIN trips' = DOMAIN trips
      /\ trips' \in [DOMAIN trips -> Trip]
      /\ trips'[t].status = s
      /\ trips'[t].driverId = trips[t].driverId
      /\ trips'[t].riderId = trips[t].riderId
      /\ trips'[t].requestId = trips[t].requestId
      /\ \A u \in DOMAIN trips \ {t} : trips'[u] = trips[u]
  BY <1>1, <1>2, <1>3, EnterEffect
<1>5. ActiveTrips' = ActiveTrips /\ AssignedTrips' = AssignedTrips
  BY <1>1, <1>4 DEF ActiveTrips, AssignedTrips, Terminal, Assigned
<1>6. TypeOK'
  BY <1>2, <1>4 DEF TypeOK
<1>7. RiderIndexExact' /\ RequestIndexExact'
  BY <1>2, <1>4, <1>5 DEF IndicesExact, RiderIndexExact, RequestIndexExact, ActiveTrips
<1>8. DriverIndexExact' /\ DriverIffAssigned'
  BY <1>2, <1>4, <1>5
     DEF IndicesExact, DriverIndexExact, DriverIffAssigned, ActiveTrips, AssignedTrips
<1> QED
  BY <1>6, <1>7, <1>8 DEF IndicesExact

\* completeTrip and cancelTrip: the trip keeps its driverId, and only the
\* index entries tell that the driver is free.
LEMMA FinishInv ==
  ASSUME Inv, NEW t \in DOMAIN trips, NEW s \in Terminal,
         trips[t].status \notin Terminal,
         Enter(t, s, trips[t].driverId), ClearActiveIndices(t)
  PROVE  Inv'
<1> USE DEF Inv
<1>1. UNCHANGED <<requestToTrip, created>>
  BY DEF Enter
<1>2. trips[t].driverId \in Drivers \cup {None} /\ s \in TripStatus
  BY DEF TypeOK, Trip, TripStatus
<1>3. /\ DOMAIN trips' = DOMAIN trips
      /\ trips' \in [DOMAIN trips -> Trip]
      /\ trips'[t].status = s
      /\ trips'[t].driverId = trips[t].driverId
      /\ trips'[t].riderId = trips[t].riderId
      /\ trips'[t].requestId = trips[t].requestId
      /\ \A u \in DOMAIN trips \ {t} : trips'[u] = trips[u]
  BY <1>2, EnterEffect
<1>4. /\ ActiveTrips' = ActiveTrips \ {t}
      /\ AssignedTrips' = AssignedTrips \ {t}
      /\ t \in ActiveTrips
  BY <1>3 DEF ActiveTrips, AssignedTrips, Terminal, Assigned
<1>5. TypeOK'
  BY <1>1, <1>3 DEF TypeOK, ClearActiveIndices, DriverIndexWithout
<1>6. RiderIndexExact'
  <2> SUFFICES ASSUME NEW r \in Riders, NEW u \in TripIds
               PROVE  activeRiderTrips'[r] = u
                      <=> u \in ActiveTrips' /\ trips'[u].riderId = r
    BY DEF RiderIndexExact
  <2>1. activeRiderTrips[r] = u <=> u \in ActiveTrips /\ trips[u].riderId = r
    BY DEF IndicesExact, RiderIndexExact
  <2>2. activeRiderTrips'[r] = IF trips[t].riderId = r THEN None
                               ELSE activeRiderTrips[r]
    BY DEF TypeOK, ClearActiveIndices
  <2>3. activeRiderTrips[trips[t].riderId] = t
    BY TransitionContext
  <2> QED
    BY <2>1, <2>2, <2>3, <1>3, <1>4, ConstantsAssumption DEF ActiveTrips
<1>7. DriverIndexExact'
  <2> SUFFICES ASSUME NEW d \in Drivers, NEW u \in TripIds
               PROVE  activeDriverTrips'[d] = u
                      <=> u \in AssignedTrips' /\ trips'[u].driverId = d
    BY DEF DriverIndexExact
  <2>1. activeDriverTrips[d] = u <=> u \in AssignedTrips /\ trips[u].driverId = d
    BY DEF IndicesExact, DriverIndexExact
  <2>2. activeDriverTrips'[d] = IF trips[t].driverId = d THEN None
                                ELSE activeDriverTrips[d]
    BY ConstantsAssumption DEF TypeOK, ClearActiveIndices, DriverIndexWithout
  <2>3. trips[t].driverId = d => activeDriverTrips[d] = t
    BY TransitionContext, ConstantsAssumption
  <2> QED
    BY <2>1, <2>2, <2>3, <1>3, <1>4, ConstantsAssumption DEF AssignedTrips
<1>8. RequestIndexExact'
  BY <1>1, <1>3 DEF IndicesExact, RequestIndexExact
<1>9. DriverIffAssigned'
  BY <1>3, <1>4 DEF IndicesExact, DriverIffAssigned, ActiveTrips
<1> QED
  BY <1>5, <1>6, <1>7, <1>8, <1>9 DEF IndicesExact

-----------------------------------------------------------------------------
(* Theorems *)

LEMMA NextInv == Inv /\ [Next]_vars => Inv'
<1> SUFFICES ASSUME Inv, [Next]_vars PROVE Inv'
  OBVIOUS
<1>1. ASSUME NEW q \in Requests, NEW r \in Riders, CreateTrip(q, r) PROVE Inv'
  BY <1>1, CreateTripInv
<1>2. ASSUME NEW t \in TripIds, StartMatching(t) PROVE Inv'
  BY <1>2, StartMatchingInv
<1>3. ASSUME NEW t \in TripIds, NEW d \in Drivers, SetMatched(t, d) PROVE Inv'
  BY <1>3, SetMatchedInv
<1>4. ASSUME NEW t \in TripIds, DriverEnRoute(t) \/ DriverArrived(t) \/ StartTrip(t)
      PROVE  Inv'
  BY <1>4, MilestoneInv DEF DriverEnRoute, DriverArrived, StartTrip
<1>5. ASSUME NEW t \in TripIds, CompleteTrip(t) PROVE Inv'
  <2>1. t \in DOMAIN trips /\ trips[t].status \notin Terminal
    BY <1>5 DEF CompleteTrip, Accepts, AllowedTransitions, Terminal
  <2> QED
    BY <1>5, <2>1, FinishInv DEF CompleteTrip, Terminal
<1>6. ASSUME NEW t \in TripIds, NEW role \in ActorRole, CancelTrip(t, role) PROVE Inv'
  <2>1. t \in DOMAIN trips /\ trips[t].status \notin Terminal
    BY <1>6 DEF CancelTrip, Accepts, AllowedTransitions, Terminal
  <2> QED
    BY <1>6, <2>1, FinishInv DEF CancelTrip, Terminal
<1>7. CASE UNCHANGED vars
  BY <1>7 DEF vars, Inv, TypeOK, IndicesExact, RiderIndexExact, DriverIndexExact,
              RequestIndexExact, DriverIffAssigned, ActiveTrips, AssignedTrips
<1> QED
  BY <1>1, <1>2, <1>3, <1>4, <1>5, <1>6, <1>7 DEF Next

\* The trip map and its three indices have their types and agree in every
\* reachable state.
THEOREM IndicesStayExact == Spec => [](TypeOK /\ IndicesExact)
<1>1. Inv <=> TypeOK /\ IndicesExact
  BY DEF Inv
<1> QED
  BY <1>1, InitInv, NextInv, PTL DEF Spec

\* An index entry names a single trip.
LEMMA OneTripEach == Inv => NoDoubleBooking /\ OneActiveTripPerRider
<1> SUFFICES ASSUME Inv PROVE NoDoubleBooking /\ OneActiveTripPerRider
  OBVIOUS
<1>1. NoDoubleBooking
  <2> SUFFICES ASSUME NEW t \in AssignedTrips, NEW u \in AssignedTrips,
                      trips[t].driverId = trips[u].driverId
               PROVE  t = u
    BY DEF NoDoubleBooking
  <2>1. /\ t \in DOMAIN trips /\ trips[t].status \notin Terminal
        /\ u \in DOMAIN trips /\ trips[u].status \notin Terminal
    BY DEF AssignedTrips, Assigned, Terminal
  <2> QED
    BY <2>1, TransitionContext
<1>2. OneActiveTripPerRider
  <2> SUFFICES ASSUME NEW t \in ActiveTrips, NEW u \in ActiveTrips,
                      trips[t].riderId = trips[u].riderId
               PROVE  t = u
    BY DEF OneActiveTripPerRider
  <2> QED
    BY TransitionContext DEF ActiveTrips
<1> QED
  BY <1>1, <1>2

\* No driver ever serves two trips.
THEOREM NoDoubleBookingHolds == Spec => []NoDoubleBooking
BY OneTripEach, InitInv, NextInv, PTL DEF Spec

\* No rider ever has two unfinished trips.
THEOREM OneActiveTripPerRiderHolds == Spec => []OneActiveTripPerRider
BY OneTripEach, InitInv, NextInv, PTL DEF Spec

\* No step moves a driver from one active trip straight to another: only
\* setMatched sets an entry of activeDriverTrips, and its guard asks for an
\* empty one.
THEOREM DriverLeavesBeforeJoiningHolds == Spec => DriverLeavesBeforeJoining
<1> DEFINE A == \A d \in Drivers : activeDriverTrips[d] # None
                   => activeDriverTrips'[d] \in {activeDriverTrips[d], None}
<1>1. ASSUME Inv, [Next]_vars PROVE [A]_vars
  <2> SUFFICES ASSUME Next PROVE A
    BY <1>1
  <2> SUFFICES ASSUME NEW d \in Drivers, activeDriverTrips[d] # None
               PROVE  activeDriverTrips'[d] \in {activeDriverTrips[d], None}
    OBVIOUS
  <2> USE <1>1 DEF Inv, TypeOK
  <2>1. ASSUME NEW t \in TripIds,
               \/ activeDriverTrips' = DriverIndexWithout(t)
               \/ UNCHANGED activeDriverTrips
        PROVE  activeDriverTrips'[d] \in {activeDriverTrips[d], None}
    BY <2>1 DEF DriverIndexWithout
  <2>2. ASSUME NEW t \in TripIds, NEW e \in Drivers, SetMatched(t, e)
        PROVE  activeDriverTrips'[d] \in {activeDriverTrips[d], None}
    BY <2>2 DEF SetMatched, Accepts, Bookable
  <2>3. ASSUME NEW q \in Requests, NEW r \in Riders, CreateTrip(q, r)
        PROVE  activeDriverTrips'[d] \in {activeDriverTrips[d], None}
    BY <2>3 DEF CreateTrip
  <2> QED
    BY <2>1, <2>2, <2>3
       DEF Next, StartMatching, DriverEnRoute, DriverArrived, StartTrip,
           Milestone, CompleteTrip, CancelTrip, ClearActiveIndices
<1> QED
  BY <1>1, InitInv, NextInv, PTL DEF Spec, DriverLeavesBeforeJoining

\* Eviction never cuts an unfinished request loose from its trip.
THEOREM LiveRequestsStayIdempotentHolds == Spec => LiveRequestsStayIdempotent
<1> DEFINE A == \A t \in ActiveTrips : requestToTrip'[trips[t].requestId] = t
<1>1. ASSUME Inv, [Next]_vars PROVE [A]_vars
  <2> SUFFICES ASSUME Next, NEW t \in ActiveTrips
               PROVE  requestToTrip'[trips[t].requestId] = t
    BY <1>1
  <2>1. /\ t \in DOMAIN trips
        /\ t \in TripIds
        /\ trips[t].requestId \in Requests
        /\ trips[t].status \notin Terminal
    BY <1>1, TransitionContext DEF ActiveTrips, Trip
  <2>2. requestToTrip[trips[t].requestId] = t
    BY <1>1, <2>1 DEF Inv, IndicesExact, RequestIndexExact
  <2>3. CASE UNCHANGED requestToTrip
    BY <2>2, <2>3
  <2>4. ASSUME NEW q \in Requests, NEW r \in Riders, CreateTrip(q, r)
        PROVE  requestToTrip'[trips[t].requestId] = t
    <3>1. trips[t].requestId # q
      BY <2>1, <2>2, <2>4, ConstantsAssumption DEF CreateTrip
    <3>2. ASSUME NEW u \in Evicted, trips[u].requestId = trips[t].requestId
          PROVE  FALSE
      <4>1. /\ u \in DOMAIN trips /\ u \in TripIds
            /\ trips[u].status \in Terminal
        BY <1>1, ConstantsAssumption DEF Evicted, Inv, TypeOK, TripIds
      <4>2. requestToTrip[trips[u].requestId] = u
        BY <1>1, <2>1, <3>2, <4>1 DEF Inv, IndicesExact, RequestIndexExact
      <4> QED
        BY <2>1, <2>2, <3>2, <4>1, <4>2
    <3> QED
      BY <2>1, <2>2, <2>4, <3>1, <3>2 DEF CreateTrip
  <2> QED
    BY <2>3, <2>4
       DEF Next, StartMatching, SetMatched, DriverEnRoute, DriverArrived,
           StartTrip, Milestone, CompleteTrip, CancelTrip, Enter
<1> QED
  BY <1>1, InitInv, NextInv, PTL DEF Spec, LiveRequestsStayIdempotent

-----------------------------------------------------------------------------
(* The trip map stays bounded *)

\* Every non-empty set of trip ids has an oldest one.
LEMMA OldestTrip ==
  ASSUME NEW S \in SUBSET Nat, S # {}
  PROVE  \E t \in S : \A u \in S : t <= u
<1> DEFINE R == OpToRel(<, Nat)
<1>1. PICK t \in S : \A u \in S : <<u, t>> \notin R
  <2> HIDE DEF R
  <2>1. IsWellFoundedOn(R, Nat)
    BY NatLessThanWellFounded DEF R
  <2> QED
    BY <2>1, WFMin
<1>2. \A u \in S : ~(u < t)
  BY <1>1 DEF OpToRel
<1> QED
  BY <1>2

\* From a full map one trip is evicted, unless all trips are active.
LEMMA EvictsOne ==
  ASSUME TypeOK, Cardinality(DOMAIN trips) >= Capacity, DOMAIN trips # ActiveTrips
  PROVE  \E t \in DOMAIN trips : Evicted = {t}
<1> DEFINE S == {t \in DOMAIN trips : trips[t].status \in Terminal}
<1>1. S \subseteq Nat
  BY ConstantsAssumption DEF TypeOK
<1>2. S # {}
  BY DEF ActiveTrips
<1>3. PICK t \in S : \A u \in S : t <= u
  BY <1>1, <1>2, OldestTrip
<1>4. \A u \in S : (\A v \in S : u <= v) => u = t
  BY <1>1, <1>3
<1> QED
  BY <1>3, <1>4 DEF Evicted

\* A set whose members can be told by their images is no larger than these are.
LEMMA NoLargerThanImages ==
  ASSUME NEW S, NEW T, IsFiniteSet(T), NEW f \in [S -> T], NEW g, \A x \in S : g[f[x]] = x
  PROVE  Cardinality(S) <= Cardinality(T)
<1>1. f \in Injection(S, T)
  BY DEF Injection, IsInjective
<1> QED
  BY <1>1, FS_Injection

\* Only createTrip adds trips to the map.
LEMMA MapOnlyGrowsByCreate ==
  ASSUME Next
  PROVE  \/ DOMAIN trips' = DOMAIN trips
         \/ \E q \in Requests, r \in Riders : CreateTrip(q, r)
<1>1. \A t, s, d : Enter(t, s, d) => DOMAIN trips' = DOMAIN trips
  BY DEF Enter
<1> QED
  BY <1>1
     DEF Next, StartMatching, SetMatched, DriverEnRoute, DriverArrived, StartTrip,
         Milestone, CompleteTrip, CancelTrip

LEMMA CreateTripBounded ==
  ASSUME Inv, MapBounded, IsFiniteSet(Riders), NEW q \in Requests, NEW r \in Riders,
         CreateTrip(q, r)
  PROVE  MapBounded'
<1> DEFINE n == Cardinality(DOMAIN trips)
           m == Cardinality(DOMAIN trips')
<1>1. /\ DOMAIN trips' = (DOMAIN trips \ Evicted) \cup {created + 1}
      /\ created \in Nat
      /\ DOMAIN trips \subseteq 1..created
      /\ Capacity \in Nat
  BY ConstantsAssumption DEF CreateTrip, Inv, TypeOK
<1>2. /\ IsFiniteSet(DOMAIN trips)
      /\ n \in Nat
  <2>1. IsFiniteSet(1..created)
    BY <1>1, FS_Interval
  <2> QED
    BY <1>1, <2>1, FS_Subset, FS_CardinalityType
<1>3. created + 1 \notin DOMAIN trips
  BY <1>1
<1>4. CASE n < Capacity
  <2>1. Evicted = {}
    BY <1>1, <1>2, <1>4 DEF Evicted
  <2>2. DOMAIN trips' = DOMAIN trips \cup {created + 1}
    BY <1>1, <2>1
  <2>3. m = n + 1
    BY <1>2, <1>3, <2>2, FS_AddElement
  <2> QED
    BY <1>1, <1>2, <1>4, <2>3 DEF MapBounded
<1>5. CASE n >= Capacity /\ DOMAIN trips # ActiveTrips
  <2>1. PICK t \in DOMAIN trips : Evicted = {t}
    BY <1>5, EvictsOne DEF Inv
  <2>2. /\ IsFiniteSet(DOMAIN trips \ {t})
        /\ Cardinality(DOMAIN trips \ {t}) = n - 1
    BY <1>2, FS_RemoveElement
  <2>3. m = (n - 1) + 1
    <3>1. DOMAIN trips' = (DOMAIN trips \ {t}) \cup {created + 1}
      BY <1>1, <2>1
    <3> QED
      BY <1>3, <2>2, <3>1, FS_AddElement
  <2>4. m = n
    BY <1>2, <2>3
  <2> QED
    BY <2>4 DEF MapBounded
<1>6. CASE DOMAIN trips = ActiveTrips
  <2>1. Evicted = {}
    BY <1>6 DEF Evicted, ActiveTrips
  <2>2. DOMAIN trips' = ActiveTrips'
    <3>1. /\ \A t \in DOMAIN trips : trips'[t] = trips[t]
          /\ trips'[created + 1].status = "requested"
      BY <1>1, <1>3, <2>1 DEF CreateTrip, NewTrip
    <3> QED
      BY <1>1, <1>6, <2>1, <3>1 DEF ActiveTrips, Terminal
  <2>3. Inv'
    BY CreateTripInv
  <2>4. Cardinality(ActiveTrips') <= Cardinality(Riders)
    <3> DEFINE f == [t \in ActiveTrips' |-> trips'[t].riderId]
    <3>1. ASSUME NEW t \in ActiveTrips'
          PROVE  /\ trips'[t].riderId \in Riders
                 /\ activeRiderTrips'[trips'[t].riderId] = t
      <4>1. t \in TripIds /\ trips'[t] \in Trip
        BY <2>3, ConstantsAssumption DEF Inv, TypeOK, TripIds, ActiveTrips
      <4> QED
        BY <2>3, <4>1 DEF Inv, IndicesExact, RiderIndexExact, Trip
    <3>2. f \in [ActiveTrips' -> Riders]
      BY <3>1
    <3>3. \A t \in ActiveTrips' : (activeRiderTrips')[f[t]] = t
      BY <3>1
    <3> HIDE DEF f
    <3> QED
      BY <3>2, <3>3, NoLargerThanImages
  <2> QED
    BY <2>2, <2>4 DEF MapBounded
<1> QED
  BY <1>1, <1>2, <1>4, <1>5, <1>6

\* With finitely many riders the trip map stays bounded although createTrip evicts
\* one trip at most: above the capacity every trip in it is active, one per rider.
THEOREM MapBoundedHolds == IsFiniteSet(Riders) => (Spec => []MapBounded)
<1> SUFFICES ASSUME IsFiniteSet(Riders) PROVE Spec => []MapBounded
  OBVIOUS
<1>1. Init => MapBounded
  BY FS_EmptySet, ConstantsAssumption DEF Init, MapBounded
<1>2. Inv /\ MapBounded /\ [Next]_vars => MapBounded'
  BY CreateTripBounded, MapOnlyGrowsByCreate DEF MapBounded, vars
<1> QED
  BY <1>1, <1>2, InitInv, NextInv, PTL DEF Spec

-----------------------------------------------------------------------------
(* The state machine implements RideContract *)

\* The ride of the rider of an unfinished trip is that trip.
LEMMA RideOfTrip ==
  ASSUME Inv, NEW t \in DOMAIN trips, trips[t].status \notin Terminal
  PROVE  /\ trips[t].riderId \in Riders
         /\ rideBar[trips[t].riderId] =
               [stage |-> Stage(trips[t].status), driver |-> trips[t].driverId]
<1>1. /\ activeRiderTrips[trips[t].riderId] = t
      /\ t \in TripIds
      /\ trips[t].riderId \in Riders
  BY TransitionContext DEF Trip
<1> QED
  BY <1>1, ConstantsAssumption DEF rideBar

\* A transition of trip t changes the ride of its rider only.
LEMMA OtherRidesUnchanged ==
  ASSUME Inv, NEW t \in DOMAIN trips, trips[t].status \notin Terminal,
         NEW s \in TripStatus, NEW d \in Drivers \cup {None}, Enter(t, s, d),
         \A r \in Riders \ {trips[t].riderId} :
            activeRiderTrips'[r] = activeRiderTrips[r],
         NEW r \in Riders, r # trips[t].riderId
  PROVE  rideBar'[r] = rideBar[r]
<1>1. \A u \in DOMAIN trips \ {t} : trips'[u] = trips[u]
  BY EnterEffect DEF Inv
<1>2. activeRiderTrips[r] # None =>
        /\ activeRiderTrips[r] \in DOMAIN trips
        /\ trips[activeRiderTrips[r]].riderId = r
  BY DEF Inv, TypeOK, IndicesExact, RiderIndexExact, ActiveTrips
<1>3. activeRiderTrips'[r] = activeRiderTrips[r]
  OBVIOUS
<1>4. CASE activeRiderTrips[r] = None
  BY <1>3, <1>4 DEF rideBar
<1>5. CASE activeRiderTrips[r] # None
  <2>1. trips'[activeRiderTrips[r]] = trips[activeRiderTrips[r]]
    BY <1>1, <1>2, <1>5
  <2> QED
    BY <1>3, <1>5, <2>1 DEF rideBar
<1> QED
  BY <1>4, <1>5

\* A transition of trip t rewrites the ride of its rider and no other ride.
LEMMA RideBarUpdate ==
  ASSUME Inv, NEW t \in DOMAIN trips, trips[t].status \notin Terminal,
         NEW s \in TripStatus, NEW d \in Drivers \cup {None}, Enter(t, s, d),
         \A r \in Riders \ {trips[t].riderId} :
            activeRiderTrips'[r] = activeRiderTrips[r],
         NEW new, rideBar'[trips[t].riderId] = new
  PROVE  rideBar' = [rideBar EXCEPT ![trips[t].riderId] = new]
<1>1. \A r \in Riders : rideBar'[r] =
         IF r = trips[t].riderId THEN new ELSE rideBar[r]
  BY OtherRidesUnchanged
<1>2. rideBar = [r \in Riders |-> rideBar[r]] /\ rideBar' = [r \in Riders |-> rideBar'[r]]
  BY DEF rideBar
<1> QED
  BY <1>1, <1>2

\* A transition that keeps the trip active shows in the ride of its rider.
LEMMA RideAfterActiveStep ==
  ASSUME Inv, NEW t \in DOMAIN trips, trips[t].status \notin Terminal,
         NEW s \in TripStatus, NEW d \in Drivers \cup {None}, Enter(t, s, d),
         UNCHANGED activeRiderTrips
  PROVE  rideBar' = [rideBar EXCEPT ![trips[t].riderId] =
                        [stage |-> Stage(s), driver |-> d]]
<1>1. /\ trips'[t].status = s
      /\ trips'[t].driverId = d
  BY EnterEffect DEF Inv
<1>2. /\ activeRiderTrips[trips[t].riderId] = t
      /\ t \in TripIds
      /\ trips[t].riderId \in Riders
  BY TransitionContext DEF Trip
<1>3. rideBar'[trips[t].riderId] = [stage |-> Stage(s), driver |-> d]
  BY <1>1, <1>2, ConstantsAssumption DEF rideBar
<1> QED
  BY <1>3, RideBarUpdate

\* A transition to a terminal status makes the rider idle.
LEMMA RideAfterFinish ==
  ASSUME Inv, NEW t \in DOMAIN trips, trips[t].status \notin Terminal,
         NEW s \in Terminal, Enter(t, s, trips[t].driverId), ClearActiveIndices(t)
  PROVE  rideBar' = [rideBar EXCEPT ![trips[t].riderId] = Contract!Idle]
<1>1. /\ trips[t].riderId \in Riders
      /\ trips[t].driverId \in Drivers \cup {None}
      /\ s \in TripStatus
  BY DEF Inv, TypeOK, Trip, TripStatus
<1>2. \A r \in Riders : activeRiderTrips'[r] =
         IF r = trips[t].riderId THEN None ELSE activeRiderTrips[r]
  BY <1>1 DEF Inv, TypeOK, ClearActiveIndices
<1>3. rideBar'[trips[t].riderId] = Contract!Idle
  BY <1>1, <1>2 DEF rideBar, Contract!Idle
<1> QED
  BY <1>1, <1>2, <1>3, RideBarUpdate

\* createTrip is Ask: the rider had no active trip, and eviction takes no trip
\* another rider is on.
LEMMA CreateTripAsks ==
  ASSUME Inv, NEW q \in Requests, NEW r \in Riders, CreateTrip(q, r)
  PROVE  Contract!Ask(r)
<1> DEFINE id   == created + 1
           kept == DOMAIN trips \ Evicted
<1>1. /\ id \in TripIds
      /\ id \notin DOMAIN trips
      /\ trips'[id] = NewTrip(q, r)
      /\ \A t \in kept : trips'[t] = trips[t]
      /\ activeRiderTrips' = [activeRiderTrips EXCEPT ![r] = id]
  BY ConstantsAssumption DEF Inv, TypeOK, CreateTrip, TripIds
<1>2. \A p \in Riders : activeRiderTrips[p] # None
         => activeRiderTrips[p] \in kept
  BY DEF Inv, TypeOK, IndicesExact, RiderIndexExact, ActiveTrips, Evicted
<1>3. \A p \in Riders : activeRiderTrips'[p] =
         IF p = r THEN id ELSE activeRiderTrips[p]
  BY <1>1 DEF Inv, TypeOK
<1>4. rideBar[r] = Contract!Idle
  BY DEF CreateTrip, RiderIsFree, rideBar, Contract!Idle
<1>5. rideBar'[r] = Contract!Ride("waiting", None)
  BY <1>1, <1>3, ConstantsAssumption DEF rideBar, Stage, NewTrip, Contract!Ride
<1>6. ASSUME NEW p \in Riders, p # r PROVE rideBar'[p] = rideBar[p]
  <2>1. activeRiderTrips'[p] = activeRiderTrips[p]
    BY <1>3, <1>6
  <2>2. CASE activeRiderTrips[p] = None
    BY <2>1, <2>2 DEF rideBar
  <2>3. CASE activeRiderTrips[p] # None
    <3>1. trips'[activeRiderTrips[p]] = trips[activeRiderTrips[p]]
      BY <1>1, <1>2, <2>3
    <3> QED
      BY <2>1, <2>3, <3>1 DEF rideBar
  <2> QED
    BY <2>2, <2>3
<1>7. rideBar = [p \in Riders |-> rideBar[p]] /\ rideBar' = [p \in Riders |-> rideBar'[p]]
  BY DEF rideBar
<1> QED
  BY <1>4, <1>5, <1>6, <1>7 DEF Contract!Ask

\* setMatched is Assign: an unset index entry means that no rider is being
\* served by the driver.
LEMMA SetMatchedAssigns ==
  ASSUME Inv, NEW t \in TripIds, NEW d \in Drivers, SetMatched(t, d)
  PROVE  \E r \in Riders : Contract!Assign(r, d)
<1>1. /\ t \in DOMAIN trips
      /\ trips[t].status = "matching"
      /\ trips[t].status \notin Terminal
      /\ activeDriverTrips[d] \in {None, t}
      /\ Enter(t, "matched", d)
      /\ UNCHANGED activeRiderTrips
  BY DEF SetMatched, Accepts, AllowedTransitions, Bookable, Terminal
<1> DEFINE r == trips[t].riderId
<1>2. r \in Riders /\ rideBar[r].stage = "waiting"
  <2>1. /\ r \in Riders
        /\ rideBar[r] = [stage |-> Stage(trips[t].status), driver |-> trips[t].driverId]
    BY <1>1, RideOfTrip
  <2> QED
    BY <1>1, <2>1 DEF Stage
<1>3. rideBar' = [rideBar EXCEPT ![r] = Contract!Ride("assigned", d)]
  BY <1>1, RideAfterActiveStep DEF Stage, TripStatus, Assigned, Contract!Ride
<1>4. activeDriverTrips[d] = None
  BY <1>1 DEF Inv, IndicesExact, DriverIndexExact, AssignedTrips, Assigned
<1>5. ASSUME NEW p \in Riders PROVE rideBar[p].driver # d
  <2>1. CASE activeRiderTrips[p] = None
    BY <2>1, ConstantsAssumption DEF rideBar
  <2>2. CASE activeRiderTrips[p] # None
    <3> DEFINE u == activeRiderTrips[p]
    <3>1. /\ u \in TripIds
          /\ u \in DOMAIN trips
          /\ trips[u].status \notin Terminal
          /\ rideBar[p].driver = trips[u].driverId
      BY <2>2 DEF Inv, TypeOK, IndicesExact, RiderIndexExact, ActiveTrips, rideBar
    <3>2. CASE u \in AssignedTrips
      BY <1>4, <3>1, <3>2, TransitionContext, ConstantsAssumption
    <3>3. CASE u \notin AssignedTrips
      BY <3>1, <3>3, TransitionContext, ConstantsAssumption
    <3> QED
      BY <3>2, <3>3
  <2> QED
    BY <2>1, <2>2
<1> QED
  BY <1>2, <1>3, <1>5 DEF Contract!Assign, Contract!Free

\* startMatching changes no ride the first time and is Drop on a rematch.
LEMMA StartMatchingDrops ==
  ASSUME Inv, NEW t \in TripIds, StartMatching(t)
  PROVE  (\E r \in Riders : Contract!Drop(r)) \/ rideBar' = rideBar
<1>1. /\ t \in DOMAIN trips
      /\ trips[t].status \in {"requested", "en_route", "arrived"}
      /\ trips[t].status \notin Terminal
      /\ Enter(t, "matching", None)
      /\ UNCHANGED activeRiderTrips
  BY DEF StartMatching, Accepts, AllowedTransitions, Terminal
<1> DEFINE r == trips[t].riderId
<1>2. /\ r \in Riders
      /\ rideBar[r] = [stage |-> Stage(trips[t].status), driver |-> trips[t].driverId]
      /\ rideBar' = [rideBar EXCEPT ![r] = Contract!Ride("waiting", None)]
  BY <1>1, RideOfTrip, RideAfterActiveStep DEF Stage, TripStatus, Contract!Ride
<1>3. CASE trips[t].status = "requested"
  <2>1. trips[t].driverId = None
    BY <1>1, <1>3, TransitionContext DEF AssignedTrips, Assigned
  <2>2. rideBar[r] = Contract!Ride("waiting", None)
    BY <1>2, <1>3, <2>1 DEF Stage, Contract!Ride
  <2>3. rideBar = [p \in Riders |-> rideBar[p]]
    BY DEF rideBar
  <2> QED
    BY <1>2, <2>2, <2>3
<1>4. CASE trips[t].status # "requested"
  <2>1. Stage(trips[t].status) = "assigned"
    BY <1>1, <1>4 DEF Stage
  <2>2. Contract!Drop(r)
    BY <1>2, <2>1 DEF Contract!Drop
  <2> QED
    BY <1>2, <2>2
<1> QED
  BY <1>3, <1>4

\* A milestone is Board when the trip starts and changes no ride before.
LEMMA MilestoneBoards ==
  ASSUME Inv, NEW t \in TripIds, NEW s \in {"en_route", "arrived", "in_progress"},
         Milestone(t, s)
  PROVE  (\E r \in Riders : Contract!Board(r)) \/ rideBar' = rideBar
<1>1. /\ t \in DOMAIN trips
      /\ trips[t].status \in {"matched", "en_route", "arrived"}
      /\ trips[t].status \notin Terminal
      /\ trips[t].driverId \in Drivers \cup {None}
      /\ s \in TripStatus
      /\ Enter(t, s, trips[t].driverId)
      /\ UNCHANGED activeRiderTrips
  BY DEF Milestone, Accepts, AllowedTransitions, Terminal, Inv, TypeOK, Trip,
         TripStatus, Assigned
<1> DEFINE r == trips[t].riderId
<1>2. /\ r \in Riders
      /\ rideBar[r] = [stage |-> "assigned", driver |-> trips[t].driverId]
      /\ rideBar' = [rideBar EXCEPT ![r] =
                        [stage |-> Stage(s), driver |-> trips[t].driverId]]
  BY <1>1, RideOfTrip, RideAfterActiveStep DEF Stage
<1>3. CASE s = "in_progress"
  <2>1. /\ rideBar[r].stage = "assigned"
        /\ rideBar[r].driver = trips[t].driverId
        /\ Stage(s) = "onboard"
    BY <1>2, <1>3 DEF Stage
  <2>2. Contract!Board(r)
    BY <1>2, <2>1 DEF Contract!Board, Contract!Ride
  <2> QED
    BY <1>2, <2>2
<1>4. CASE s # "in_progress"
  <2>1. rideBar' = [rideBar EXCEPT ![r] = rideBar[r]]
    BY <1>2, <1>4 DEF Stage
  <2>2. rideBar = [p \in Riders |-> rideBar[p]]
    BY DEF rideBar
  <2> QED
    BY <2>1, <2>2
<1> QED
  BY <1>3, <1>4

\* Every step of the state machine is a step of the contract, or changes no
\* ride.
LEMMA StepRefines == Inv /\ [Next]_vars => [Contract!Next]_rideBar
<1> SUFFICES ASSUME Inv, [Next]_vars PROVE [Contract!Next]_rideBar
  OBVIOUS
<1>1. ASSUME NEW q \in Requests, NEW r \in Riders, CreateTrip(q, r)
      PROVE  Contract!Next
  BY <1>1, CreateTripAsks DEF Contract!Next
<1>2. ASSUME NEW t \in TripIds, StartMatching(t) PROVE [Contract!Next]_rideBar
  BY <1>2, StartMatchingDrops DEF Contract!Next
<1>3. ASSUME NEW t \in TripIds, NEW d \in Drivers, SetMatched(t, d)
      PROVE  Contract!Next
  BY <1>3, SetMatchedAssigns DEF Contract!Next
<1>4. ASSUME NEW t \in TripIds, DriverEnRoute(t) \/ DriverArrived(t) \/ StartTrip(t)
      PROVE  [Contract!Next]_rideBar
  BY <1>4, MilestoneBoards DEF Contract!Next, DriverEnRoute, DriverArrived, StartTrip
<1>5. ASSUME NEW t \in TripIds, CompleteTrip(t) PROVE Contract!Next
  <2>1. /\ t \in DOMAIN trips
        /\ trips[t].status = "in_progress"
        /\ trips[t].status \notin Terminal
        /\ Enter(t, "completed", trips[t].driverId)
        /\ ClearActiveIndices(t)
    BY <1>5 DEF CompleteTrip, Accepts, AllowedTransitions, Terminal
  <2>2. /\ trips[t].riderId \in Riders
        /\ rideBar[trips[t].riderId] =
              [stage |-> Stage(trips[t].status), driver |-> trips[t].driverId]
    BY <2>1, RideOfTrip
  <2>3. rideBar' = [rideBar EXCEPT ![trips[t].riderId] = Contract!Idle]
    BY <2>1, RideAfterFinish DEF Terminal
  <2>4. rideBar[trips[t].riderId].stage = "onboard"
    BY <2>1, <2>2 DEF Stage
  <2>5. Contract!Finish(trips[t].riderId)
    BY <2>3, <2>4 DEF Contract!Finish
  <2> QED
    BY <2>2, <2>5 DEF Contract!Next
<1>6. ASSUME NEW t \in TripIds, NEW role \in ActorRole, CancelTrip(t, role)
      PROVE  Contract!Next
  <2>1. /\ t \in DOMAIN trips
        /\ trips[t].status \in {"requested", "matching", "matched", "en_route", "arrived"}
        /\ trips[t].status \notin Terminal
        /\ Enter(t, "cancelled", trips[t].driverId)
        /\ ClearActiveIndices(t)
    BY <1>6 DEF CancelTrip, Accepts, AllowedTransitions, Terminal
  <2>2. /\ trips[t].riderId \in Riders
        /\ rideBar[trips[t].riderId] =
              [stage |-> Stage(trips[t].status), driver |-> trips[t].driverId]
    BY <2>1, RideOfTrip
  <2>3. rideBar' = [rideBar EXCEPT ![trips[t].riderId] = Contract!Idle]
    BY <2>1, RideAfterFinish DEF Terminal
  <2>4. rideBar[trips[t].riderId].stage \in {"waiting", "assigned"}
    BY <2>1, <2>2 DEF Stage
  <2>5. Contract!Abandon(trips[t].riderId)
    BY <2>3, <2>4 DEF Contract!Abandon
  <2> QED
    BY <2>2, <2>5 DEF Contract!Next
<1>7. CASE UNCHANGED vars
  BY <1>7 DEF vars, rideBar
<1> QED
  BY <1>1, <1>2, <1>3, <1>4, <1>5, <1>6, <1>7 DEF Next

\* The trip state machine implements the contract on rides: one ride per
\* rider, one rider per driver, and no way off a ride in progress but its end.
THEOREM Refinement == Spec => ImplementsContract
<1>1. Init => Contract!Init
  BY DEF Init, Contract!Init, Contract!Idle, rideBar
<1> QED
  BY <1>1, InitInv, NextInv, StepRefines, PTL DEF Spec, ImplementsContract, Contract!Spec
=============================================================================
