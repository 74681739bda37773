------------------------ MODULE MatchingServiceProofs ------------------------
(***************************************************************************)
(* The running service keeps the invariants of the two parts it is made    *)
(* of, for any number of riders, drivers, requests and trips and in every  *)
(* environment: every step of it is a step of the trip state machine or    *)
(* leaves the trips alone, and a step of the driver registry or leaves the *)
(* drivers alone.                                                          *)
(*                                                                         *)
(* What has to be known of the service for that is that a loop suspended   *)
(* in a call about a driver has one (LoopOK).  A cancellation in flight    *)
(* ends by moving the loop of its request on, so the invariant follows the *)
(* cancellations on the wire too: there is one at most for a request, and  *)
(* the loop of that request still waits for its withdrawn offer.           *)
(*                                                                         *)
(* The rest is about who has a driver.                                     *)
(*                                                                         *)
(* Leases.  Every lease has an offer loop that will release or commit it,  *)
(* in every environment, and every pending offer is backed by a lease as   *)
(* long as leases do not run out.  The loop of a cancelled offer ends at   *)
(* once when the driver's record holds another request's token, without    *)
(* releasing anything.  That no lease is left behind then rests on         *)
(* TokenOfHolder: the record of a driver under lease holds the token of    *)
(* the lease or none.                                                      *)
(*                                                                         *)
(* Stranded drivers.  A driver the registry calls busy serves a trip, or   *)
(* its completeTrip is on the way, in every environment.  The service      *)
(* cancels trips in two places without freeing a driver: when the trip     *)
(* store refuses the trip, and when an offer loop gives up.  Neither trip  *)
(* can have a driver then, and this is what SearchOK says: a refused       *)
(* request has never had a loop, a request without a loop has no driver,   *)
(* and while its loop searches its trip is matching or cancelled.          *)
(*                                                                         *)
(* Pools.  Where connections stay up, clients do not repeat themselves and *)
(* Redis is faster than drivers, registry, index, Redis and trips agree on *)
(* who is free.  PoolsOK says why: a driver is available, or busy for      *)
(* exactly one reason (a trip, a completeTrip on the wire, a rollback); a  *)
(* commit happens under the lease, while no other loop asks for the        *)
(* driver; and the trip of a loop that searches has no driver.             *)
(*                                                                         *)
(* Nobody is forgotten.  A rider who waits, and a lease, always have a     *)
(* command on the wire, an offer with its timer, or a loop that is to take *)
(* its next turn, in every environment.  A loop waits for Redis exactly    *)
(* while its one command is on the wire, one whose offer is withdrawn      *)
(* while the cancellation is, and a trip that is matching has a loop that  *)
(* still looks for a driver (Going).                                       *)
(***************************************************************************)
EXTENDS MatchingService, FiniteSetTheorems, SequenceTheorems, TLAPS

FSMP == INSTANCE TripStateMachineProofs WITH Capacity <- MaxTrips + 1
RegP == INSTANCE DriverRegistryProofs

-----------------------------------------------------------------------------
(* The theorems of the two parts speak of the same operators as the service *)

LEMMA PartsAssumptions == FSMP!ConstantsAssumption /\ RegP!NoneAssumption
BY ConstantsAssumption DEF FSMP!ConstantsAssumption, FSMP!TripIds, RegP!NoneAssumption

LEMMA SameRegistry == Reg!Next <=> RegP!Next
BY DEF Reg!Next, RegP!Next, Reg!RegisterDriver, RegP!RegisterDriver, Reg!SetAvailable,
       RegP!SetAvailable, Reg!SetOffline, RegP!SetOffline, Reg!Evict, RegP!Evict,
       Reg!Telemetry, RegP!Telemetry, Reg!HealState, RegP!HealState, Reg!Complete,
       RegP!Complete, Reg!ExpireLease, RegP!ExpireLease, Reg!GrantLock, RegP!GrantLock,
       Reg!ReleaseLease, RegP!ReleaseLease, Reg!ReleaseNoLease, RegP!ReleaseNoLease,
       Reg!Commit, RegP!Commit, Reg!ReturnToPool, RegP!ReturnToPool, Reg!Lockable,
       RegP!Lockable, Reg!redisVars, RegP!redisVars, Reg!localVars, RegP!localVars

LEMMA SameCardinality == \A S : FSM!Cardinality(S) = FSMP!Cardinality(S)
BY Zenon DEF FSM!Cardinality, FSMP!Cardinality

LEMMA RealCardinality == \A S : FSM!Cardinality(S) = Cardinality(S)
BY Zenon DEF FSM!Cardinality, Cardinality

LEMMA SameTransitions == \A s : FSM!AllowedTransitions(s) = FSMP!AllowedTransitions(s)
BY Zenon DEF FSM!AllowedTransitions, FSMP!AllowedTransitions

LEMMA SameEvicted == FSM!Evicted = FSMP!Evicted
BY SameCardinality DEF FSM!Evicted, FSMP!Evicted, FSM!Terminal, FSMP!Terminal

LEMMA SameAccepts ==
  \A t, target, role, d : FSM!Accepts(t, target, role, d) <=> FSMP!Accepts(t, target, role, d)
BY SameTransitions
   DEF FSM!Accepts, FSMP!Accepts, FSM!Bookable, FSMP!Bookable, FSM!RoleMay, FSMP!RoleMay

LEMMA SameCreateTrip == \A q, r : FSM!CreateTrip(q, r) <=> FSMP!CreateTrip(q, r)
BY SameEvicted
   DEF FSM!CreateTrip, FSMP!CreateTrip, FSM!NewTrip, FSMP!NewTrip,
       FSM!RiderIsFree, FSMP!RiderIsFree

LEMMA SameTransition ==
  \A t : /\ FSM!StartMatching(t) <=> FSMP!StartMatching(t)
         /\ \A d : FSM!SetMatched(t, d) <=> FSMP!SetMatched(t, d)
         /\ FSM!DriverEnRoute(t) <=> FSMP!DriverEnRoute(t)
         /\ FSM!DriverArrived(t) <=> FSMP!DriverArrived(t)
         /\ FSM!StartTrip(t) <=> FSMP!StartTrip(t)
         /\ FSM!CompleteTrip(t) <=> FSMP!CompleteTrip(t)
         /\ \A role : FSM!CancelTrip(t, role) <=> FSMP!CancelTrip(t, role)
BY SameAccepts
   DEF FSM!StartMatching, FSMP!StartMatching, FSM!SetMatched, FSMP!SetMatched,
       FSM!DriverEnRoute, FSMP!DriverEnRoute, FSM!DriverArrived, FSMP!DriverArrived,
       FSM!StartTrip, FSMP!StartTrip, FSM!CompleteTrip, FSMP!CompleteTrip,
       FSM!CancelTrip, FSMP!CancelTrip, FSM!Milestone, FSMP!Milestone, FSM!Enter,
       FSMP!Enter, FSM!ClearActiveIndices, FSMP!ClearActiveIndices,
       FSM!DriverIndexWithout, FSMP!DriverIndexWithout

LEMMA SameTripSteps == FSM!Next <=> FSMP!Next
BY SameCreateTrip, SameTransition
   DEF FSM!Next, FSMP!Next, FSM!TripIds, FSMP!TripIds, FSM!ActorRole, FSMP!ActorRole

LEMMA SameRides == FSM!rideBar = FSMP!rideBar /\ FSM!rideBar' = FSMP!rideBar'
BY Zenon DEF FSM!rideBar, FSMP!rideBar, FSM!Stage, FSMP!Stage

LEMMA SameContract ==
  /\ FSM!Contract!Init <=> FSMP!Contract!Init
  /\ FSM!Contract!Next <=> FSMP!Contract!Next
<1>1. FSM!Contract!Init <=> FSMP!Contract!Init
  BY SameRides DEF FSM!Contract!Init, FSMP!Contract!Init, FSM!Contract!Idle, FSMP!Contract!Idle
<1>2. FSM!Contract!Next <=> FSMP!Contract!Next
  BY SameRides
     DEF FSM!Contract!Next, FSMP!Contract!Next, FSM!Contract!Ask, FSMP!Contract!Ask,
         FSM!Contract!Assign, FSMP!Contract!Assign, FSM!Contract!Board, FSMP!Contract!Board,
         FSM!Contract!Drop, FSMP!Contract!Drop, FSM!Contract!Finish, FSMP!Contract!Finish,
         FSM!Contract!Abandon, FSMP!Contract!Abandon, FSM!Contract!Free, FSMP!Contract!Free,
         FSM!Contract!Ride, FSMP!Contract!Ride, FSM!Contract!Idle, FSMP!Contract!Idle
<1> QED
  BY <1>1, <1>2

\* The state machine inside the service, as its own specification has it.
LEMMA SameImplementsContract == FSMP!ImplementsContract => FSM!ImplementsContract
<1>1. [FSMP!Contract!Next]_FSMP!rideBar => [FSM!Contract!Next]_FSM!rideBar
  BY SameContract, SameRides
<1> QED
  BY <1>1, SameContract, PTL
     DEF FSM!ImplementsContract, FSMP!ImplementsContract, FSM!Contract!Spec, FSMP!Contract!Spec

\* Nothing is evicted: the map has room for every trip there will ever be.
LEMMA NothingEvicted ==
  ASSUME FSMP!TypeOK
  PROVE  FSM!Evicted = {}
<1>1. created \in Nat /\ created <= MaxTrips /\ DOMAIN trips \subseteq 1..created
  BY ConstantsAssumption DEF FSMP!TypeOK
<1>2. IsFiniteSet(1..created) /\ Cardinality(1..created) = created
  BY <1>1, FS_Interval
<1>3. Cardinality(DOMAIN trips) <= created /\ Cardinality(DOMAIN trips) \in Nat
  BY <1>1, <1>2, FS_Subset, FS_CardinalityType
<1>4. ~(Cardinality(DOMAIN trips) >= MaxTrips + 1)
  BY <1>1, <1>3, ConstantsAssumption
<1> QED
  BY <1>4, RealCardinality DEF FSM!Evicted

-----------------------------------------------------------------------------
(* The wire *)

Call == [call : {"store", "loop", "cancel", "cancelHolder", "complete"},
         request : Requests \cup {None}, driver : Drivers \cup {None}]

IsCancel(c) == c.call \in {"cancel", "cancelHolder"}

PlainCall == {c \in Call : ~IsCancel(c)}

\* A cancellation on the wire is for a request of W, and the only one for it.
CancelsAreFor(w, W) ==
    /\ \A i \in 1..Len(w) : IsCancel(w[i]) => w[i].request \in W
    /\ \A i, j \in 1..Len(w) :
          IsCancel(w[i]) /\ IsCancel(w[j]) /\ w[i].request = w[j].request => i = j

LEMMA TailOfWire ==
  ASSUME NEW w \in Seq(Call), w # <<>>, NEW W, CancelsAreFor(w, W)
  PROVE  /\ Tail(w) \in Seq(Call)
         /\ CancelsAreFor(Tail(w), W)
         /\ IsCancel(Head(w)) => CancelsAreFor(Tail(w), W \ {Head(w).request})
<1>1. /\ Tail(w) \in Seq(Call)
      /\ Len(w) \in Nat \ {0}
      /\ Len(Tail(w)) = Len(w) - 1
      /\ \A i \in 1..Len(Tail(w)) : Tail(w)[i] = w[i + 1] /\ i + 1 \in 1..Len(w)
      /\ Head(w) = w[1] /\ 1 \in 1..Len(w)
  OBVIOUS
<1>2. ASSUME NEW i \in 1..Len(Tail(w)), IsCancel(Tail(w)[i])
      PROVE  Tail(w)[i].request \in W
  BY <1>1, <1>2 DEF CancelsAreFor
<1>3. ASSUME NEW i \in 1..Len(Tail(w)), NEW j \in 1..Len(Tail(w)),
             IsCancel(Tail(w)[i]), IsCancel(Tail(w)[j]),
             Tail(w)[i].request = Tail(w)[j].request
      PROVE  i = j
  <2>1. i + 1 = j + 1
    BY <1>1, <1>3 DEF CancelsAreFor
  <2> QED
    BY <2>1
<1>4. ASSUME NEW i \in 1..Len(Tail(w)), IsCancel(Tail(w)[i]), IsCancel(Head(w))
      PROVE  Tail(w)[i].request # Head(w).request
  <2>1. ASSUME Tail(w)[i].request = Head(w).request PROVE i + 1 = 1
    BY <1>1, <1>4, <2>1 DEF CancelsAreFor
  <2> QED
    BY <2>1
<1> QED
  BY <1>1, <1>2, <1>3, <1>4 DEF CancelsAreFor

LEMMA WireGrows ==
  ASSUME NEW w \in Seq(Call), NEW W, CancelsAreFor(w, W)
  PROVE  /\ \A calls \in Seq(PlainCall) :
               w \o calls \in Seq(Call) /\ CancelsAreFor(w \o calls, W)
         /\ \A c \in Call :
               IsCancel(c) /\ c.request \notin W
               => /\ w \o <<c>> \in Seq(Call)
                  /\ CancelsAreFor(w \o <<c>>, W \cup {c.request})
<1>1. ASSUME NEW calls \in Seq(PlainCall)
      PROVE  w \o calls \in Seq(Call) /\ CancelsAreFor(w \o calls, W)
  <2> DEFINE v == w \o calls
  <2>1. calls \in Seq(Call) /\ v \in Seq(Call)
    BY DEF PlainCall
  <2>2. \A i \in 1..Len(calls) : ~IsCancel(calls[i])
    BY DEF PlainCall
  <2>3. ASSUME NEW i \in 1..Len(v), IsCancel(v[i])
        PROVE  i \in 1..Len(w) /\ v[i] = w[i]
    <3>1. Len(v) = Len(w) + Len(calls) /\ Len(w) \in Nat /\ Len(calls) \in Nat
      BY <2>1
    <3>2. CASE i > Len(w)
      <4>1. v[i] = calls[i - Len(w)] /\ i - Len(w) \in 1..Len(calls)
        BY <2>1, <3>1, <3>2
      <4> QED
        BY <2>2, <2>3, <4>1
    <3>3. CASE i <= Len(w)
      BY <2>1, <3>1, <3>3
    <3> QED
      BY <3>1, <3>2, <3>3
  <2> HIDE DEF v
  <2> QED
    BY <2>1, <2>3 DEF CancelsAreFor, v
<1>2. ASSUME NEW c \in Call, IsCancel(c), c.request \notin W
      PROVE  /\ w \o <<c>> \in Seq(Call)
             /\ CancelsAreFor(w \o <<c>>, W \cup {c.request})
  <2> DEFINE v == w \o <<c>>
  <2>1. v = Append(w, c)
    OBVIOUS
  <2>2. /\ v \in Seq(Call)
        /\ Len(v) = Len(w) + 1
        /\ Len(w) \in Nat
        /\ \A i \in 1..Len(v) : \/ i \in 1..Len(w) /\ v[i] = w[i]
                                \/ i = Len(v) /\ v[i] = c
    BY <2>1
  <2> HIDE DEF v
  <2>3. CancelsAreFor(v, W \cup {c.request})
    BY <1>2, <2>2 DEF CancelsAreFor
  <2> QED
    BY <2>2, <2>3 DEF v
<1> QED
  BY <1>1, <1>2

-----------------------------------------------------------------------------
(* What a step does to the trips *)

\* The trip of request q has left "requested", for good.
Dispatched(q) == TripOf(q) \in DOMAIN trips /\ StatusOf(q) # "requested"

\* A step that the state machine admits.
TripStep ==
    /\ [FSM!Next]_fsmVars
    /\ \A q \in Requests : Dispatched(q) => Dispatched(q)'

\* And that makes no match.
QuietStep ==
    /\ TripStep
    /\ \A t \in DOMAIN trips : trips'[t].status = "matched" => trips[t].status = "matched"

LEMMA EnterIsQuiet ==
  ASSUME FSMP!TypeOK, NEW t \in DOMAIN trips, NEW s, s # "requested", NEW d,
         FSM!Enter(t, s, d)
  PROVE  /\ \A q \in Requests :
               /\ Dispatched(q) => Dispatched(q)'
               /\ TripOf(q) = t => Dispatched(q)'
         /\ s # "matched" => \A u \in DOMAIN trips :
               trips'[u].status = "matched" => trips[u].status = "matched"
<1>1. /\ DOMAIN trips' = DOMAIN trips
      /\ trips'[t].status = s
      /\ \A u \in DOMAIN trips \ {t} : trips'[u] = trips[u]
      /\ requestToTrip' = requestToTrip
  BY DEF FSM!Enter, FSMP!TypeOK, FSMP!Trip
<1> QED
  BY <1>1 DEF Dispatched, TripOf, StatusOf

LEMMA NoTripStep == UNCHANGED fsmVars => QuietStep
BY DEF fsmVars, QuietStep, TripStep, Dispatched, TripOf, StatusOf

LEMMA CreateTripStep ==
  ASSUME FSMP!Inv, NEW q \in Requests, NEW r \in Riders, FSM!CreateTrip(q, r)
  PROVE  QuietStep
<1>1. /\ created \in Nat
      /\ DOMAIN trips \subseteq 1..created
      /\ DOMAIN trips \subseteq 1..MaxTrips
      /\ FSM!Evicted = {}
  BY NothingEvicted, ConstantsAssumption DEF FSMP!Inv, FSMP!TypeOK
<1>2. /\ DOMAIN trips' = DOMAIN trips \cup {created + 1}
      /\ \A t \in DOMAIN trips : trips'[t] = trips[t]
      /\ \A p \in Requests \ {q} : requestToTrip'[p] = requestToTrip[p]
      /\ requestToTrip[q] = None
  BY <1>1 DEF FSM!CreateTrip
<1>3. FSM!Next
  BY DEF FSM!Next
<1>4. None \notin DOMAIN trips
  BY <1>1, ConstantsAssumption
<1> QED
  BY <1>2, <1>3, <1>4 DEF QuietStep, TripStep, Dispatched, TripOf, StatusOf

\* The other calls of the state machine, whatever trip they are made for.
LEMMA TransitionStep ==
  ASSUME FSMP!Inv, NEW t
  PROVE  /\ FSM!StartMatching(t)
            => QuietStep /\ \A q \in Requests : TripOf(q) = t => Dispatched(q)'
         /\ \A d \in Drivers : FSM!SetMatched(t, d) => TripStep
         /\ FSM!DriverEnRoute(t) => QuietStep
         /\ FSM!DriverArrived(t) => QuietStep
         /\ FSM!StartTrip(t) => QuietStep
         /\ FSM!CompleteTrip(t) => QuietStep
         /\ \A role \in {"rider", "system"} : FSM!CancelTrip(t, role) => QuietStep
<1> USE DEF QuietStep, TripStep, FSM!Next
<1>1. FSMP!TypeOK /\ (t \in DOMAIN trips => t \in FSM!TripIds)
  BY ConstantsAssumption DEF FSMP!Inv, FSMP!TypeOK, FSM!TripIds
<1>2. ASSUME FSM!StartMatching(t)
      PROVE  QuietStep /\ \A q \in Requests : TripOf(q) = t => Dispatched(q)'
  <2>1. t \in DOMAIN trips /\ FSM!Enter(t, "matching", None)
    BY <1>2 DEF FSM!StartMatching, FSM!Accepts
  <2> QED
    BY <1>1, <1>2, <2>1, EnterIsQuiet
<1>3. ASSUME NEW d \in Drivers, FSM!SetMatched(t, d) PROVE TripStep
  <2>1. t \in DOMAIN trips /\ FSM!Enter(t, "matched", d)
    BY <1>3 DEF FSM!SetMatched, FSM!Accepts
  <2> QED
    BY <1>1, <1>3, <2>1, EnterIsQuiet
<1>4. ASSUME NEW s \in {"en_route", "arrived", "in_progress"}, FSM!Milestone(t, s)
      PROVE  /\ \A q \in Requests : Dispatched(q) => Dispatched(q)'
             /\ \A u \in DOMAIN trips :
                   trips'[u].status = "matched" => trips[u].status = "matched"
             /\ t \in FSM!TripIds
  <2>1. t \in DOMAIN trips /\ FSM!Enter(t, s, trips[t].driverId)
    BY <1>4 DEF FSM!Milestone, FSM!Accepts
  <2> QED
    BY <1>1, <2>1, EnterIsQuiet
<1>5. ASSUME FSM!DriverEnRoute(t) PROVE QuietStep
  BY <1>4, <1>5 DEF FSM!DriverEnRoute
<1>6. ASSUME FSM!DriverArrived(t) PROVE QuietStep
  BY <1>4, <1>6 DEF FSM!DriverArrived
<1>7. ASSUME FSM!StartTrip(t) PROVE QuietStep
  BY <1>4, <1>7 DEF FSM!StartTrip
<1>8. ASSUME FSM!CompleteTrip(t) PROVE QuietStep
  <2>1. t \in DOMAIN trips /\ FSM!Enter(t, "completed", trips[t].driverId)
    BY <1>8 DEF FSM!CompleteTrip, FSM!Accepts
  <2> QED
    BY <1>1, <1>8, <2>1, EnterIsQuiet
<1>9. ASSUME NEW role \in {"rider", "system"}, FSM!CancelTrip(t, role) PROVE QuietStep
  <2>1. t \in DOMAIN trips /\ FSM!Enter(t, "cancelled", trips[t].driverId)
    BY <1>9 DEF FSM!CancelTrip, FSM!Accepts
  <2>2. role \in FSM!ActorRole
    BY DEF FSM!ActorRole
  <2> QED
    BY <1>1, <1>9, <2>1, <2>2, EnterIsQuiet
<1> QED
  BY <1>2, <1>3, <1>5, <1>6, <1>7, <1>8, <1>9

-----------------------------------------------------------------------------
(* The invariant *)

\* Where a loop waits on behalf of its candidate.
Engaged == {"acquire", "holder", "heal", "reacquire", "offer", "commit",
            "rollback", "release", "releaseHolder", "exit", "exitHolder"}

LoopRecord == [pc : Pcs, driver : Drivers \cup {None}, tried : SUBSET Drivers]

\* A loop that is engaged has a candidate, and offers are made by loops.
LoopOK ==
    /\ loop \in [Requests -> LoopRecord]
    /\ \A q \in Requests : loop[q].pc \in Engaged => loop[q].driver \in Drivers
    /\ offers \in [Requests -> Drivers \cup {None}]
    /\ \A q \in Requests : offers[q] # None => At(q, "offer")

\* The requests whose offer is withdrawn, and whose loop is not told yet.
Withdrawn == {q \in Requests : At(q, "offer") /\ offers[q] = None}

WireOK == wire \in Seq(Call) /\ CancelsAreFor(wire, Withdrawn)

\* A request whose trip is still "requested" has not been given a loop.
LaunchedOK ==
    /\ launched \in [Requests -> Nat]
    /\ \A q \in Requests : \/ launched[q] = 0 /\ At(q, "idle")
                           \/ launched[q] = 1 /\ Dispatched(q)

AllRegistered == \A d \in Drivers : status[d] # "absent"

SvcInv ==
    /\ FSMP!Inv
    /\ RegP!Inv
    /\ AllRegistered
    /\ LoopOK
    /\ WireOK
    /\ LaunchedOK

LEMMA InitSvcInv == Init => SvcInv
<1> SUFFICES ASSUME Init PROVE SvcInv
  OBVIOUS
<1>1. FSMP!Inv
  <2>1. FSMP!Init
    BY DEF Init, FSM!Init, FSMP!Init
  <2> QED
    BY <2>1, PartsAssumptions, FSMP!InitInv
<1>2. RegP!Inv /\ AllRegistered
  BY DEF Init, RegP!Inv, RegP!TypeOK, RegP!NoLostDriver, RegP!LockedIsHidden,
         RegP!AbsentHasNoToken, AllRegistered
<1>3. LoopOK /\ LaunchedOK
  BY DEF Init, LoopOK, LaunchedOK, LoopRecord, NoLoop, Engaged, Pcs, At
<1>4. WireOK
  BY DEF Init, WireOK, CancelsAreFor
<1> QED
  BY <1>1, <1>2, <1>3, <1>4 DEF SvcInv

-----------------------------------------------------------------------------
(* Steps of the service as steps of the registry *)

RegistryStep == [Reg!Next]_regVars

LEMMA DriverCalls ==
  ASSUME AllRegistered, NEW d \in Drivers
  PROVE  /\ \A q \in Requests :
               /\ Reg!GrantLock(d, q) => RegistryStep
               /\ Reg!ReleaseLease(d, q) => RegistryStep
               /\ Reg!ReleaseNoLease(d, q) => RegistryStep
               /\ Reg!Commit(d, q) => RegistryStep
         /\ Reg!HealState(d) => RegistryStep
         /\ Reg!Complete(d) => RegistryStep
         /\ Reg!SetOffline(d) => RegistryStep
         /\ Reg!Evict(d) => RegistryStep
         /\ Reg!ExpireLease(d) => RegistryStep
         /\ \A expired, idle \in BOOLEAN : Reg!Telemetry(d, expired, idle) => RegistryStep
BY DEF AllRegistered, RegistryStep, Reg!Next

LEMMA RegistryStepKeeps ==
  ASSUME RegP!Inv, AllRegistered, RegistryStep
  PROVE  RegP!Inv' /\ AllRegistered'
<1>1. RegP!Inv'
  <2>1. [RegP!Next]_RegP!vars
    BY SameRegistry DEF RegistryStep, regVars, RegP!vars
  <2> QED
    BY <2>1, PartsAssumptions, RegP!NextInv
<1> SUFFICES AllRegistered'
  BY <1>1
<1>2. CASE UNCHANGED regVars
  BY <1>2 DEF regVars, AllRegistered
<1>3. CASE Reg!Next
  <2> USE DEF AllRegistered, RegP!Inv, RegP!TypeOK
  <2>1. PICK d \in Drivers :
          \/ Reg!SetAvailable(d)
          \/ Reg!SetOffline(d)
          \/ Reg!Evict(d)
          \/ \E expired, idle \in BOOLEAN : Reg!Telemetry(d, expired, idle)
          \/ UNCHANGED status
          \/ \E q \in Requests : Reg!Commit(d, q)
    BY <1>3 DEF Reg!Next, Reg!RegisterDriver, Reg!HealState, Reg!Complete,
           Reg!ExpireLease, Reg!GrantLock, Reg!ReleaseLease, Reg!ReleaseNoLease,
           Reg!ReturnToPool, Reg!localVars
  <2>2. CASE Reg!SetAvailable(d) \/ Reg!SetOffline(d) \/ Reg!Evict(d) \/ UNCHANGED status
    BY <2>2 DEF Reg!SetAvailable, Reg!SetOffline, Reg!Evict
  <2>3. CASE \E expired, idle \in BOOLEAN : Reg!Telemetry(d, expired, idle)
    BY <2>3 DEF Reg!Telemetry
  <2>4. CASE \E q \in Requests : Reg!Commit(d, q)
    BY <2>4 DEF Reg!Commit
  <2> QED
    BY <2>1, <2>2, <2>3, <2>4
<1> QED
  BY <1>2, <1>3 DEF RegistryStep

-----------------------------------------------------------------------------
(* Steps of the service on its own variables *)

\* Redis has answered, or nobody has asked it, and plain calls are sent.
PlainWire ==
    \E calls \in Seq(PlainCall) :
        \/ wire' = wire \o calls
        \/ wire # <<>> /\ wire' = Tail(wire) \o calls

\* The loop of q moves, or ends, with its candidate.
LoopMoved(q) ==
    /\ loop' \in [Requests -> LoopRecord]
    /\ \A p \in Requests \ {q} : loop'[p] = loop[p]
    /\ loop'[q].pc \in Engaged => loop'[q].driver \in Drivers

LocalInv == LoopOK /\ WireOK /\ LaunchedOK

LEMMA PlainWireOK ==
  ASSUME WireOK, PlainWire, Withdrawn \subseteq Withdrawn'
  PROVE  WireOK'
<1>1. PICK calls \in Seq(PlainCall) :
        \/ wire' = wire \o calls
        \/ wire # <<>> /\ wire' = Tail(wire) \o calls
  BY DEF PlainWire
<1>2. wire' \in Seq(Call) /\ CancelsAreFor(wire', Withdrawn)
  <2>1. CASE wire' = wire \o calls
    BY <2>1, WireGrows DEF WireOK
  <2>2. CASE wire # <<>> /\ wire' = Tail(wire) \o calls
    <3>1. Tail(wire) \in Seq(Call) /\ CancelsAreFor(Tail(wire), Withdrawn)
      BY <2>2, TailOfWire DEF WireOK
    <3> QED
      BY <2>2, <3>1, WireGrows
  <2> QED
    BY <1>1, <2>1, <2>2
<1>3. CancelsAreFor(wire', Withdrawn')
  BY <1>2 DEF CancelsAreFor
<1> QED
  BY <1>2, <1>3 DEF WireOK

\* A step that touches neither loops nor offers.
LEMMA OutsideStep ==
  ASSUME LocalInv, TripStep, PlainWire, UNCHANGED <<loop, offers, launched>>
  PROVE  LocalInv'
<1>1. LoopOK' /\ LaunchedOK'
  BY DEF LocalInv, LoopOK, LaunchedOK, TripStep, At
<1>2. Withdrawn' = Withdrawn
  BY DEF Withdrawn, At
<1> QED
  BY <1>1, <1>2, PlainWireOK DEF LocalInv

LEMMA LoopStepKeeps ==
  ASSUME LoopOK, LaunchedOK, TripStep, NEW q \in Requests, ~At(q, "idle"),
         LoopMoved(q), UNCHANGED launched,
         offers' \in [Requests -> Drivers \cup {None}],
         \A p \in Requests \ {q} : offers'[p] = offers[p],
         offers'[q] # None => loop'[q].pc = "offer"
  PROVE  LoopOK' /\ LaunchedOK'
BY DEF LoopOK, LaunchedOK, TripStep, LoopMoved, At

\* The loop of q moves on, and no cancellation of q is under way.
LEMMA InsideStep ==
  ASSUME LocalInv, TripStep, NEW q \in Requests, ~At(q, "idle"), q \notin Withdrawn,
         LoopMoved(q), UNCHANGED launched, PlainWire,
         offers' \in [Requests -> Drivers \cup {None}],
         \A p \in Requests \ {q} : offers'[p] = offers[p],
         offers'[q] # None => loop'[q].pc = "offer"
  PROVE  LocalInv'
<1>1. LoopOK' /\ LaunchedOK'
  BY LoopStepKeeps DEF LocalInv
<1>2. Withdrawn \subseteq Withdrawn'
  BY DEF Withdrawn, LoopMoved, At
<1> QED
  BY <1>1, <1>2, PlainWireOK DEF LocalInv

\* A cancellation of q is answered for the last time, and its loop moves on.
LEMMA CancelStep ==
  ASSUME LocalInv, TripStep, NEW q \in Requests, LoopMoved(q), loop'[q].pc # "offer",
         UNCHANGED <<launched, offers>>, wire # <<>>,
         IsCancel(Head(wire)), Head(wire).request = q,
         NEW calls \in Seq(PlainCall), wire' = Tail(wire) \o calls
  PROVE  LocalInv'
<1>1. q \in Withdrawn
  <2>1. Len(wire) \in Nat \ {0} /\ Head(wire) = wire[1]
    BY DEF LocalInv, WireOK
  <2> QED
    BY <2>1 DEF LocalInv, WireOK, CancelsAreFor
<1>2. LoopOK' /\ LaunchedOK'
  <2>1. ~At(q, "idle") /\ offers[q] = None
    BY <1>1 DEF Withdrawn, At
  <2> QED
    BY <2>1, LoopStepKeeps DEF LocalInv, LoopOK
<1>3. Withdrawn' = Withdrawn \ {q}
  BY DEF Withdrawn, LoopMoved, At
<1>4. wire' \in Seq(Call) /\ CancelsAreFor(wire', Withdrawn \ {q})
  <2>1. Tail(wire) \in Seq(Call) /\ CancelsAreFor(Tail(wire), Withdrawn \ {q})
    BY TailOfWire DEF LocalInv, WireOK
  <2> QED
    BY <2>1, WireGrows
<1> QED
  BY <1>2, <1>3, <1>4 DEF LocalInv, WireOK

\* The moves of a loop.
LEMMA LoopMoves ==
  ASSUME LoopOK, NEW q \in Requests
  PROVE  /\ \A pc \in Pcs : Goto(q, pc) /\ (pc \in Engaged => loop[q].driver \in Drivers)
                            => LoopMoved(q) /\ loop'[q].pc = pc
         /\ EndLoop(q) => LoopMoved(q) /\ loop'[q].pc = "idle"
         /\ \A pc \in {"release", "exit"} :
               /\ AfterRelease(q, pc) => LoopMoved(q) /\ loop'[q].pc # "offer"
               /\ CallRelease(q, pc) /\ loop[q].driver \in Drivers
                     => LoopMoved(q) /\ loop'[q].pc # "offer"
<1>1. ASSUME NEW pc \in Pcs, Goto(q, pc), pc \in Engaged => loop[q].driver \in Drivers
      PROVE  LoopMoved(q) /\ loop'[q].pc = pc
  BY <1>1 DEF Goto, LoopMoved, LoopOK, LoopRecord
<1>2. ASSUME EndLoop(q) PROVE LoopMoved(q) /\ loop'[q].pc = "idle"
  BY <1>2 DEF EndLoop, NoLoop, LoopMoved, LoopOK, LoopRecord, Pcs, Engaged
<1>3. ASSUME NEW pc \in {"release", "exit"}, AfterRelease(q, pc)
      PROVE  LoopMoved(q) /\ loop'[q].pc # "offer"
  <2>1. "top" \in Pcs /\ "top" \notin Engaged
    BY DEF Pcs, Engaged
  <2> QED
    BY <1>1, <1>2, <1>3, <2>1 DEF AfterRelease
<1>4. ASSUME NEW pc \in {"release", "exit"}, CallRelease(q, pc), loop[q].driver \in Drivers
      PROVE  LoopMoved(q) /\ loop'[q].pc # "offer"
  <2>1. pc \in Pcs
    BY DEF Pcs
  <2> QED
    BY <1>1, <1>3, <1>4, <2>1 DEF CallRelease
<1> QED
  BY <1>1, <1>2, <1>3, <1>4

-----------------------------------------------------------------------------
(* Every action of the service *)

\* A trip is matched under the lease of its request only.
MatchStep ==
    \A t \in DOMAIN trips :
        trips'[t].status = "matched" /\ trips[t].status # "matched"
        => lock[trips'[t].driverId] = trips[t].requestId

Fine == TripStep /\ MatchStep /\ RegistryStep /\ LocalInv'

LEMMA OutsideFine ==
  ASSUME SvcInv, QuietStep, RegistryStep, PlainWire, UNCHANGED <<loop, offers, launched>>
  PROVE  Fine
BY OutsideStep DEF SvcInv, LocalInv, QuietStep, MatchStep, Fine

LEMMA InsideFine ==
  ASSUME SvcInv, QuietStep, RegistryStep, PlainWire,
         NEW q \in Requests, ~At(q, "idle"), q \notin Withdrawn,
         LoopMoved(q), UNCHANGED launched,
         \/ UNCHANGED offers /\ ~At(q, "offer")
         \/ offers' = [offers EXCEPT ![q] = None]
  PROVE  Fine
<1>1. /\ offers' \in [Requests -> Drivers \cup {None}]
      /\ \A p \in Requests \ {q} : offers'[p] = offers[p]
      /\ offers'[q] = None
  BY DEF SvcInv, LoopOK
<1> QED
  BY <1>1, InsideStep DEF SvcInv, LocalInv, QuietStep, MatchStep, Fine

LEMMA PlainCalls ==
  /\ <<>> \in Seq(PlainCall)
  /\ \A q \in Requests : <<StoreCall(q)>> \in Seq(PlainCall) /\ <<LoopCall(q)>> \in Seq(PlainCall)
  /\ \A d \in Drivers \cup {None} : <<CompleteCall(d)>> \in Seq(PlainCall)
  /\ \A c, d \in Seq(PlainCall) : c \o d \in Seq(PlainCall)
<1>1. /\ \A q \in Requests : StoreCall(q) \in PlainCall /\ LoopCall(q) \in PlainCall
      /\ \A d \in Drivers \cup {None} : CompleteCall(d) \in PlainCall
  BY DEF StoreCall, LoopCall, CompleteCall, PlainCall, Call, IsCancel
<1> QED
  BY <1>1

LEMMA PlainWires ==
  ASSUME WireOK, NEW calls \in Seq(PlainCall)
  PROVE  /\ Send(calls) => PlainWire
         /\ wire # <<>> /\ Reply(calls) => PlainWire
         /\ UNCHANGED wire => PlainWire
<1>1. wire = wire \o <<>> /\ <<>> \in Seq(PlainCall)
  BY PlainCalls DEF WireOK
<1> QED
  BY <1>1 DEF Send, Reply, PlainWire

LEMMA CancelsTrip ==
  ASSUME FSMP!Inv, NEW q \in Requests
  PROVE  /\ CancelTheTrip(q) => QuietStep
         /\ CancelCalls(q) \in Seq(PlainCall)
         /\ ReleaseCalls(q) \in Seq(PlainCall)
         /\ FinishCancelCalls(q) \in Seq(PlainCall)
<1>1. CancelTheTrip(q) => QuietStep
  BY TransitionStep, NoTripStep DEF CancelTheTrip
<1>2. CancelCalls(q) \in Seq(PlainCall)
  <2>1. FSM!Succeeds(TripOf(q), "cancelled", "rider", None)
        => trips[TripOf(q)].driverId \in Drivers \cup {None}
    BY DEF FSM!Succeeds, FSM!Accepts, FSMP!Inv, FSMP!TypeOK, FSMP!Trip
  <2> QED
    BY <2>1, PlainCalls DEF CancelCalls
<1>3. ReleaseCalls(q) \in Seq(PlainCall)
  BY PlainCalls DEF ReleaseCalls
<1>4. FinishCancelCalls(q) \in Seq(PlainCall)
  BY <1>2, <1>3, PlainCalls DEF FinishCancelCalls
<1> QED
  BY <1>1, <1>2, <1>3, <1>4

\* requestRide, up to the loop.
LEMMA RequestSteps ==
  ASSUME SvcInv, NEW q \in Requests, NEW r \in Riders
  PROVE  /\ RequestRide(q, r) => Fine
         /\ RepeatRequest(q, r) => Fine
<1> USE DEF SvcInv
<1>1. ASSUME RequestRide(q, r) PROVE Fine
  <2>1. QuietStep
    BY <1>1, CreateTripStep DEF RequestRide
  <2>2. PlainWire
    BY <1>1, PlainCalls, PlainWires DEF RequestRide
  <2> QED
    BY <1>1, <2>1, <2>2, OutsideFine DEF RequestRide, svcVars, storeVars, RegistryStep
<1>2. ASSUME RepeatRequest(q, r) PROVE Fine
  <2>1. QuietStep
    BY <1>2, NoTripStep DEF RepeatRequest
  <2>2. PlainWire
    BY <1>2, PlainCalls, PlainWires DEF RepeatRequest
  <2> QED
    BY <1>2, <2>1, <2>2, OutsideFine DEF RepeatRequest, svcVars, storeVars, RegistryStep
<1> QED
  BY <1>1, <1>2

LEMMA StoreRefusalFine ==
  ASSUME SvcInv, NEW q \in Requests, StoreRefusal(q)
  PROVE  Fine
<1> USE DEF SvcInv
<1>1. QuietStep
  BY TransitionStep, NoTripStep DEF StoreRefusal
<1>2. PlainWire
  BY PlainCalls, PlainWires DEF StoreRefusal, Answered
<1> QED
  BY <1>1, <1>2, OutsideFine DEF StoreRefusal, svcVars, storeVars, RegistryStep

\* The answer of the store gives the request its only loop.
LEMMA StoreReplyFine ==
  ASSUME SvcInv, NEW q \in Requests, StoreReply(q)
  PROVE  Fine
<1> USE DEF SvcInv
<1>1. PlainWire
  BY PlainCalls, PlainWires DEF StoreReply, Answered
<1>2. RegistryStep /\ UNCHANGED offers
  BY DEF StoreReply, RegistryStep
<1>3. CASE StatusOf(q) = "requested"
  <2>1. /\ QuietStep
        /\ Dispatched(q)'
        /\ loop' = [loop EXCEPT ![q] = [NoLoop EXCEPT !.pc = "top"]]
        /\ launched' = [launched EXCEPT ![q] = @ + 1]
    BY <1>3, TransitionStep DEF StoreReply
  <2>2. launched[q] = 0 /\ At(q, "idle")
    BY <1>3 DEF LaunchedOK, Dispatched
  <2>3. /\ loop' \in [Requests -> LoopRecord]
        /\ \A p \in Requests \ {q} : loop'[p] = loop[p]
        /\ loop'[q].pc = "top"
    BY <2>1 DEF LoopOK, LoopRecord, NoLoop, Pcs
  <2>4. LaunchedOK'
    BY <2>1, <2>2, <2>3 DEF LaunchedOK, QuietStep, TripStep, At
  <2>5. LoopOK'
    BY <1>2, <2>2, <2>3 DEF LoopOK, Engaged, At
  <2>6. Withdrawn \subseteq Withdrawn'
    BY <1>2, <2>2, <2>3 DEF Withdrawn, At
  <2> QED
    BY <1>1, <1>2, <2>1, <2>4, <2>5, <2>6, PlainWireOK
       DEF Fine, LocalInv, QuietStep, MatchStep
<1>4. CASE StatusOf(q) # "requested"
  <2>1. QuietStep /\ UNCHANGED <<loop, offers, launched>>
    BY <1>4, NoTripStep DEF StoreReply
  <2> QED
    BY <1>1, <1>2, <2>1, OutsideFine
<1> QED
  BY <1>3, <1>4

\* Where a loop is says whether it has a candidate.
LEMMA Position ==
  ASSUME LoopOK, NEW q \in Requests
  PROVE  /\ \A pc \in Engaged : At(q, pc) => loop[q].driver \in Drivers
         /\ \A pc \in Pcs \ {"offer"} : At(q, pc) => q \notin Withdrawn /\ ~At(q, "offer")
         /\ \A pc \in Pcs \ {"idle"} : At(q, pc) => ~At(q, "idle")
BY DEF LoopOK, Withdrawn, At

\* The steps of a loop that calls nobody, or chooses its candidate.
LEMMA LoopSteps ==
  ASSUME SvcInv, NEW q \in Requests
  PROVE  /\ LoopAborted(q) => Fine
         /\ \A d \in Drivers : LoopTry(q, d) => Fine
         /\ LoopGivesUp(q) => Fine
         /\ FailureSaved(q) => Fine
         /\ MatchSaved(q) => Fine
<1> USE DEF SvcInv
<1>1. ASSUME LoopAborted(q) PROVE Fine
  <2>1. QuietStep /\ RegistryStep /\ PlainWire /\ LoopMoved(q)
    BY <1>1, NoTripStep, PlainCalls, PlainWires, LoopMoves DEF LoopAborted, RegistryStep
  <2> QED
    BY <1>1, <2>1, Position, InsideFine DEF LoopAborted, storeVars, Pcs
<1>2. ASSUME NEW d \in Drivers, LoopTry(q, d) PROVE Fine
  <2> DEFINE asks == status[d] = "available"
             to   == [pc     |-> IF asks THEN "acquire" ELSE "top",
                      driver |-> IF asks THEN d ELSE None,
                      tried  |-> loop[q].tried \cup {d}]
  <2>1. /\ loop' = [loop EXCEPT ![q] = to]
        /\ Send(IF asks THEN <<LoopCall(q)>> ELSE <<>>)
    BY <1>2 DEF LoopTry, LoopOK
  <2>2. to \in LoopRecord /\ (to.pc \in Engaged => to.driver \in Drivers)
    BY DEF LoopOK, LoopRecord, Pcs, Engaged
  <2>3. LoopMoved(q)
    BY <2>1, <2>2 DEF LoopOK, LoopMoved
  <2>4. QuietStep /\ RegistryStep /\ PlainWire
    BY <1>2, <2>1, NoTripStep, PlainCalls, PlainWires DEF LoopTry, RegistryStep
  <2> QED
    BY <1>2, <2>3, <2>4, Position, InsideFine DEF LoopTry, storeVars, Pcs
<1>3. ASSUME LoopGivesUp(q) PROVE Fine
  <2>1. QuietStep
    BY <1>3, TransitionStep, NoTripStep DEF LoopGivesUp
  <2>2. RegistryStep /\ PlainWire /\ LoopMoved(q)
    BY <1>3, PlainCalls, PlainWires, LoopMoves DEF LoopGivesUp, RegistryStep, Pcs, Engaged
  <2> QED
    BY <1>3, <2>1, <2>2, Position, InsideFine DEF LoopGivesUp, storeVars, Pcs
<1>4. ASSUME FailureSaved(q) PROVE Fine
  <2>1. QuietStep /\ RegistryStep /\ PlainWire /\ LoopMoved(q)
    BY <1>4, NoTripStep, PlainCalls, PlainWires, LoopMoves DEF FailureSaved, RegistryStep
  <2> QED
    BY <1>4, <2>1, Position, InsideFine DEF FailureSaved, storeVars, Pcs
<1>5. ASSUME MatchSaved(q) PROVE Fine
  <2>1. QuietStep
    BY <1>5, TransitionStep, NoTripStep DEF MatchSaved
  <2>2. RegistryStep /\ PlainWire /\ LoopMoved(q)
    BY <1>5, PlainCalls, PlainWires, LoopMoves DEF MatchSaved, RegistryStep
  <2> QED
    BY <1>5, <2>1, <2>2, Position, InsideFine DEF MatchSaved, storeVars, Pcs
<1> QED
  BY <1>1, <1>2, <1>3, <1>4, <1>5

\* Redis grants the lease, and the offer goes out.
LEMMA GrantFine ==
  ASSUME SvcInv, NEW q \in Requests, NEW pc \in {"acquire", "reacquire"},
         Resumes(q, pc), GrantAndOffer(q)
  PROVE  Fine
<1> USE DEF SvcInv
<1>1. /\ loop[q].driver \in Drivers
      /\ q \notin Withdrawn
      /\ ~At(q, "idle")
  BY Position DEF Resumes, Engaged, Pcs
<1>2. QuietStep /\ RegistryStep /\ PlainWire
  BY <1>1, NoTripStep, DriverCalls, PlainCalls, PlainWires
     DEF GrantAndOffer, Resumes, Answered
<1>3. LoopMoved(q) /\ loop'[q].pc = "offer"
  BY <1>1, LoopMoves DEF GrantAndOffer, Pcs
<1>4. /\ offers' \in [Requests -> Drivers \cup {None}]
      /\ \A p \in Requests \ {q} : offers'[p] = offers[p]
  BY <1>1 DEF GrantAndOffer, LoopOK
<1>5. LocalInv'
  BY <1>1, <1>2, <1>3, <1>4, InsideStep
     DEF GrantAndOffer, QuietStep, LocalInv, storeVars
<1> QED
  BY <1>2, <1>5 DEF Fine, QuietStep, MatchStep

\* acquireLock
LEMMA AcquireSteps ==
  ASSUME SvcInv, NEW q \in Requests
  PROVE  /\ AcquireReply(q) => Fine
         /\ HolderReply(q) => Fine
         /\ HealReply(q) => Fine
         /\ ReacquireReply(q) => Fine
<1> USE DEF SvcInv
<1>1. ASSUME NEW pc \in {"acquire", "holder", "heal", "reacquire"}, Resumes(q, pc),
             NEW next \in {"top", "holder", "heal", "reacquire"}, Goto(q, next),
             Reply(<<>>) \/ Reply(<<LoopCall(q)>>),
             QuietStep, RegistryStep, UNCHANGED <<offers, launched>>
      PROVE  Fine
  <2>1. /\ loop[q].driver \in Drivers
        /\ q \notin Withdrawn
        /\ ~At(q, "idle") /\ ~At(q, "offer")
    BY <1>1, Position DEF Resumes, Engaged, Pcs
  <2>2. PlainWire /\ LoopMoved(q)
    BY <1>1, <2>1, PlainCalls, PlainWires, LoopMoves DEF Resumes, Answered, Pcs
  <2> QED
    BY <1>1, <2>1, <2>2, InsideFine
<1>2. ASSUME AcquireReply(q) PROVE Fine
  <2>1. CASE GrantAndOffer(q)
    BY <1>2, <2>1, GrantFine DEF AcquireReply
  <2>2. CASE ~GrantAndOffer(q)
    BY <1>1, <1>2, <2>2, NoTripStep DEF AcquireReply, RegistryStep, storeVars
  <2> QED
    BY <2>1, <2>2
<1>3. ASSUME HolderReply(q) PROVE Fine
  BY <1>1, <1>3, NoTripStep DEF HolderReply, RegistryStep, storeVars
<1>4. ASSUME HealReply(q) PROVE Fine
  <2>1. RegistryStep
    BY <1>4, Position, DriverCalls DEF HealReply, Resumes, Engaged
  <2> QED
    BY <1>1, <1>4, <2>1, NoTripStep DEF HealReply, storeVars
<1>5. ASSUME ReacquireReply(q) PROVE Fine
  <2>1. CASE GrantAndOffer(q)
    BY <1>5, <2>1, GrantFine DEF ReacquireReply
  <2>2. CASE ~GrantAndOffer(q)
    BY <1>1, <1>5, <2>2, NoTripStep DEF ReacquireReply, RegistryStep, storeVars
  <2> QED
    BY <2>1, <2>2
<1> QED
  BY <1>2, <1>3, <1>4, <1>5

\* releaseLock, called by a loop
LEMMA ReleaseSteps ==
  ASSUME SvcInv, NEW q \in Requests, NEW pc \in DOMAIN HolderPc
  PROVE  /\ ReleaseReply(q, pc) => Fine
         /\ ReleaseHolderReply(q, pc) => Fine
<1> USE DEF SvcInv
<1>1. /\ pc \in {"release", "exit"}
      /\ HolderPc[pc] \in {"releaseHolder", "exitHolder"}
  BY DEF HolderPc
<1>2. ASSUME NEW at \in {"release", "exit", "releaseHolder", "exitHolder"}, Resumes(q, at)
      PROVE  /\ loop[q].driver \in Drivers
             /\ q \notin Withdrawn
             /\ ~At(q, "idle") /\ ~At(q, "offer")
  BY <1>2, Position DEF Resumes, Engaged, Pcs
<1>3. ASSUME ReleaseReply(q, pc) PROVE Fine
  <2>1. /\ loop[q].driver \in Drivers
        /\ q \notin Withdrawn
        /\ ~At(q, "idle") /\ ~At(q, "offer")
    BY <1>1, <1>2, <1>3 DEF ReleaseReply
  <2>2. QuietStep /\ PlainWire
    BY <1>3, NoTripStep, PlainCalls, PlainWires DEF ReleaseReply, Resumes, Answered
  <2>3. RegistryStep
    BY <1>3, <2>1, DriverCalls DEF ReleaseReply, RegistryStep
  <2>4. LoopMoved(q)
    BY <1>1, <1>3, <2>1, LoopMoves DEF ReleaseReply, Pcs
  <2> QED
    BY <1>3, <2>1, <2>2, <2>3, <2>4, InsideFine DEF ReleaseReply, storeVars
<1>4. ASSUME ReleaseHolderReply(q, pc) PROVE Fine
  <2>1. /\ loop[q].driver \in Drivers
        /\ q \notin Withdrawn
        /\ ~At(q, "idle") /\ ~At(q, "offer")
    BY <1>1, <1>2, <1>4 DEF ReleaseHolderReply
  <2>2. QuietStep /\ PlainWire
    BY <1>4, NoTripStep, PlainCalls, PlainWires DEF ReleaseHolderReply, Resumes, Answered
  <2>3. RegistryStep
    BY <1>4, <2>1, DriverCalls DEF ReleaseHolderReply, RegistryStep
  <2>4. LoopMoved(q)
    BY <1>1, <1>4, LoopMoves DEF ReleaseHolderReply
  <2> QED
    BY <1>4, <2>1, <2>2, <2>3, <2>4, InsideFine DEF ReleaseHolderReply, storeVars
<1> QED
  BY <1>3, <1>4

\* The outcome of an offer, whichever it is.
LEMMA ResolveFine ==
  ASSUME SvcInv, NEW q \in Requests, NEW outcome, ResolveOffer(q, outcome)
  PROVE  Fine
<1> USE DEF SvcInv
<1>1. /\ At(q, "offer")
      /\ loop[q].driver \in Drivers
      /\ q \notin Withdrawn
      /\ ~At(q, "idle")
  BY DEF ResolveOffer, LoopOK, Withdrawn, At, Engaged
<1>2. QuietStep /\ RegistryStep
  BY NoTripStep DEF ResolveOffer, RegistryStep
<1>3. PlainWire
  BY PlainCalls, PlainWires, CancelsTrip DEF ResolveOffer
<1>4. LoopMoved(q)
  BY <1>1, LoopMoves DEF ResolveOffer, Pcs
<1> QED
  BY <1>1, <1>2, <1>3, <1>4, InsideFine DEF ResolveOffer, storeVars

\* The trip is matched, and the lease that commitTrip found is its request's.
LEMMA MatchFine ==
  ASSUME SvcInv, NEW q \in Requests, Resumes(q, "commit"),
         Reg!Commit(loop[q].driver, q), FSM!SetMatched(TripOf(q), loop[q].driver),
         Goto(q, "saving"), Reply(<<>>), UNCHANGED <<offers, launched>>
  PROVE  Fine
<1> DEFINE d == loop[q].driver
           t == TripOf(q)
<1> USE DEF SvcInv
<1>1. /\ d \in Drivers
      /\ q \notin Withdrawn
      /\ ~At(q, "idle") /\ ~At(q, "offer")
  BY Position DEF Resumes, Engaged, Pcs
<1>2. TripStep /\ RegistryStep
  BY <1>1, TransitionStep, DriverCalls
<1>3. PlainWire /\ LoopMoved(q)
  BY PlainCalls, PlainWires, LoopMoves DEF Resumes, Answered, Pcs, Engaged
<1>4. LocalInv'
  <2>1. offers' \in [Requests -> Drivers \cup {None}] /\ offers'[q] = None
    BY <1>1 DEF LoopOK
  <2> QED
    BY <1>1, <1>2, <1>3, <2>1, InsideStep DEF LocalInv
<1>5. MatchStep
  <2>1. t \in DOMAIN trips /\ FSM!Enter(t, "matched", d)
    BY DEF FSM!SetMatched, FSM!Accepts
  <2>2. /\ trips'[t].driverId = d
        /\ \A u \in DOMAIN trips \ {t} : trips'[u] = trips[u]
    BY <2>1 DEF FSM!Enter, FSMP!Inv, FSMP!TypeOK, FSMP!Trip
  <2>3. trips[t].requestId = q
    <3>1. t \in FSMP!TripIds
      BY <2>1, ConstantsAssumption DEF FSMP!Inv, FSMP!TypeOK, FSMP!TripIds
    <3> QED
      BY <3>1 DEF FSMP!Inv, FSMP!IndicesExact, FSMP!RequestIndexExact, TripOf
  <2>4. lock[d] = q
    BY DEF Reg!Commit
  <2> QED
    BY <2>2, <2>3, <2>4 DEF MatchStep
<1> QED
  BY <1>2, <1>4, <1>5 DEF Fine

LEMMA CommitSteps ==
  ASSUME SvcInv, NEW q \in Requests
  PROVE  /\ CommitReply(q) => Fine
         /\ RollbackReply(q) => Fine
<1> USE DEF SvcInv
<1>1. ASSUME CommitReply(q) PROVE Fine
  <2> DEFINE d == loop[q].driver
  <2>1. /\ d \in Drivers
        /\ q \notin Withdrawn
        /\ ~At(q, "idle") /\ ~At(q, "offer")
        /\ wire # <<>>
    BY <1>1, Position DEF CommitReply, Resumes, Answered, Engaged, Pcs
  <2>2. CASE /\ Reg!Commit(d, q)
             /\ FSM!SetMatched(TripOf(q), d)
             /\ Goto(q, "saving")
             /\ Reply(<<>>)
    BY <1>1, <2>2, MatchFine DEF CommitReply, storeVars
  <2>3. CASE /\ Reg!Commit(d, q)
             /\ Goto(q, "rollback")
             /\ Reply(<<LoopCall(q)>>)
             /\ UNCHANGED fsmVars
    <3>1. QuietStep /\ RegistryStep /\ PlainWire
      BY <2>1, <2>3, NoTripStep, DriverCalls, PlainCalls, PlainWires
    <3>2. LoopMoved(q)
      BY <2>1, <2>3, LoopMoves DEF Pcs
    <3> QED
      BY <1>1, <2>1, <3>1, <3>2, InsideFine DEF CommitReply, storeVars
  <2>4. CASE /\ UNCHANGED <<fsmVars, regVars>>
             /\ CallRelease(q, "release")
             /\ Reply(ReleaseCalls(q))
    <3>1. QuietStep /\ RegistryStep /\ PlainWire
      BY <2>1, <2>4, NoTripStep, CancelsTrip, PlainWires DEF RegistryStep
    <3>2. LoopMoved(q)
      BY <2>1, <2>4, LoopMoves
    <3> QED
      BY <1>1, <2>1, <3>1, <3>2, InsideFine DEF CommitReply, storeVars
  <2> QED
    BY <1>1, <2>2, <2>3, <2>4 DEF CommitReply
<1>2. ASSUME RollbackReply(q) PROVE Fine
  <2>1. /\ loop[q].driver \in Drivers
        /\ q \notin Withdrawn
        /\ ~At(q, "idle") /\ ~At(q, "offer")
    BY <1>2, Position DEF RollbackReply, Resumes, Engaged, Pcs
  <2>2. QuietStep /\ RegistryStep /\ PlainWire
    BY <1>2, <2>1, NoTripStep, DriverCalls, PlainCalls, PlainWires
       DEF RollbackReply, Resumes, Answered
  <2>3. LoopMoved(q)
    BY <1>2, LoopMoves DEF RollbackReply, Pcs, Engaged
  <2> QED
    BY <1>2, <2>1, <2>2, <2>3, InsideFine DEF RollbackReply, storeVars
<1> QED
  BY <1>1, <1>2

\* cancelRide, up to its first await.
LEMMA CancelCallSteps ==
  ASSUME SvcInv, NEW q \in Requests
  PROVE  /\ CancelRide(q) => Fine
         /\ CancelOffer(q) => Fine
         /\ CancelLapsedOffer(q) => Fine
<1> USE DEF SvcInv
<1>1. ASSUME CancelRide(q) PROVE Fine
  <2>1. QuietStep /\ RegistryStep /\ PlainWire
    BY <1>1, CancelsTrip, PlainWires DEF CancelRide, RegistryStep
  <2> QED
    BY <1>1, <2>1, OutsideFine DEF CancelRide, storeVars
<1>2. ASSUME CancelOffer(q) PROVE Fine
  <2> DEFINE c == CancelCall(q, offers[q])
  <2>1. /\ offers[q] # None
        /\ offers' = [offers EXCEPT ![q] = None]
        /\ wire' = wire \o <<c>>
        /\ UNCHANGED <<loop, launched>>
        /\ QuietStep
        /\ RegistryStep
    BY <1>2, NoTripStep DEF CancelOffer, Send, storeVars, RegistryStep
  <2>2. c \in Call /\ IsCancel(c) /\ c.request = q
    BY DEF CancelCall, Call, IsCancel, LoopOK
  <2>3. LoopOK' /\ LaunchedOK'
    BY <2>1 DEF LoopOK, LaunchedOK, QuietStep, TripStep, At
  <2>4. q \notin Withdrawn /\ Withdrawn' = Withdrawn \cup {q}
    BY <2>1 DEF Withdrawn, LoopOK, At
  <2>5. WireOK'
    BY <2>1, <2>2, <2>4, WireGrows DEF WireOK
  <2> QED
    BY <2>1, <2>3, <2>5 DEF Fine, LocalInv, QuietStep, MatchStep
<1>3. ASSUME CancelLapsedOffer(q) PROVE Fine
  <2>1. /\ loop[q].driver \in Drivers
        /\ q \notin Withdrawn
        /\ ~At(q, "idle")
    BY <1>3 DEF CancelLapsedOffer, LoopOK, Withdrawn, At, Engaged
  <2>2. QuietStep /\ RegistryStep /\ PlainWire
    BY <1>3, CancelsTrip, PlainWires DEF CancelLapsedOffer, FinishCancel, RegistryStep
  <2>3. LoopMoved(q)
    BY <1>3, <2>1, LoopMoves DEF CancelLapsedOffer, FinishCancel
  <2> QED
    BY <1>3, <2>1, <2>2, <2>3, InsideFine DEF CancelLapsedOffer, storeVars
<1> QED
  BY <1>1, <1>2, <1>3

\* The request of a cancellation that is answered still has its loop.
LEMMA CancelIsWithdrawn ==
  ASSUME LoopOK, WireOK, wire # <<>>, IsCancel(Head(wire)), NEW q, Head(wire).request = q
  PROVE  q \in Withdrawn /\ loop[q].driver \in Drivers /\ offers[q] = None
<1>1. Len(wire) \in Nat \ {0} /\ Head(wire) = wire[1]
  BY DEF WireOK
<1> QED
  BY <1>1 DEF WireOK, CancelsAreFor, Withdrawn, LoopOK, At, Engaged

\* The loop of a cancelled offer is told when the lease is back.
LEMMA FinishCancelFine ==
  ASSUME SvcInv, NEW q \in Requests, RegistryStep, wire # <<>>, IsCancel(Head(wire)),
         Head(wire).request = q, FinishCancel(q), Reply(FinishCancelCalls(q)),
         UNCHANGED <<offers, launched>>
  PROVE  Fine
<1> USE DEF SvcInv
<1>1. QuietStep /\ FinishCancelCalls(q) \in Seq(PlainCall)
  BY CancelsTrip DEF FinishCancel
<1>2. LoopMoved(q) /\ loop'[q].pc # "offer"
  BY CancelIsWithdrawn, LoopMoves DEF FinishCancel
<1>3. LocalInv'
  BY <1>1, <1>2, CancelStep DEF LocalInv, QuietStep, Reply
<1> QED
  BY <1>1, <1>3 DEF Fine, QuietStep, MatchStep

LEMMA CancelReplySteps ==
  ASSUME SvcInv, NEW q \in Requests, NEW d \in Drivers
  PROVE  /\ CancelReply(q, d) => Fine
         /\ CancelHolderReply(q, d) => Fine
<1> USE DEF SvcInv
<1>1. ASSUME CancelReply(q, d) PROVE Fine
  <2>1. /\ wire # <<>>
        /\ IsCancel(Head(wire))
        /\ Head(wire).request = q
        /\ UNCHANGED <<offers, launched>>
    BY <1>1 DEF CancelReply, Answered, CancelCall, IsCancel, storeVars
  <2>2. CASE lock[d] = q
    <3>1. RegistryStep /\ FinishCancel(q) /\ Reply(FinishCancelCalls(q))
      BY <1>1, <2>2, DriverCalls DEF CancelReply
    <3> QED
      BY <2>1, <3>1, FinishCancelFine
  <2>3. CASE lock[d] # q
    <3> DEFINE c == HolderCall(q, d)
    <3>1. /\ wire' = Tail(wire) \o <<c>>
          /\ UNCHANGED loop
          /\ QuietStep
          /\ RegistryStep
      BY <1>1, <2>3, NoTripStep DEF CancelReply, Reply, RegistryStep
    <3>2. c \in Call /\ IsCancel(c) /\ c.request = q
      BY DEF HolderCall, Call, IsCancel
    <3>3. LoopOK' /\ LaunchedOK' /\ Withdrawn' = Withdrawn
      BY <2>1, <3>1 DEF LoopOK, LaunchedOK, Withdrawn, QuietStep, TripStep, At
    <3>4. WireOK'
      <4>1. Tail(wire) \in Seq(Call) /\ CancelsAreFor(Tail(wire), Withdrawn \ {q})
        BY <2>1, TailOfWire DEF WireOK
      <4> HIDE DEF c
      <4>2. /\ Tail(wire) \o <<c>> \in Seq(Call)
            /\ CancelsAreFor(Tail(wire) \o <<c>>, (Withdrawn \ {q}) \cup {c.request})
        BY <3>2, <4>1, WireGrows
      <4>3. (Withdrawn \ {q}) \cup {q} = Withdrawn
        BY <2>1, CancelIsWithdrawn
      <4> QED
        BY <3>1, <3>2, <3>3, <4>2, <4>3 DEF WireOK
    <3> QED
      BY <3>1, <3>3, <3>4 DEF Fine, LocalInv, QuietStep, MatchStep
  <2> QED
    BY <2>2, <2>3
<1>2. ASSUME CancelHolderReply(q, d) PROVE Fine
  <2>1. /\ wire # <<>>
        /\ IsCancel(Head(wire))
        /\ Head(wire).request = q
        /\ UNCHANGED <<offers, launched>>
        /\ FinishCancel(q)
        /\ Reply(FinishCancelCalls(q))
    BY <1>2 DEF CancelHolderReply, Answered, HolderCall, IsCancel, storeVars
  <2>2. RegistryStep
    BY <1>2, DriverCalls DEF CancelHolderReply, RegistryStep
  <2> QED
    BY <2>1, <2>2, FinishCancelFine
<1> QED
  BY <1>1, <1>2

\* The driver's milestones, connection and telemetry.
LEMMA TripSteps ==
  ASSUME SvcInv, NEW t \in FSM!TripIds
  PROVE  /\ Arrived(t) => Fine
         /\ Start(t) => Fine
         /\ Complete(t) => Fine
         /\ RepeatComplete(t) => Fine
<1> USE DEF SvcInv
<1>1. ASSUME Arrived(t) \/ Start(t) PROVE Fine
  <2>1. QuietStep /\ RegistryStep /\ PlainWire /\ UNCHANGED <<loop, offers, launched>>
    BY <1>1, TransitionStep, PlainWires, PlainCalls
       DEF Arrived, Start, RegistryStep, svcVars, storeVars
  <2> QED
    BY <2>1, OutsideFine
<1>2. ASSUME Complete(t) \/ RepeatComplete(t) PROVE Fine
  <2>1. t \in DOMAIN trips
    BY <1>2 DEF Complete, RepeatComplete, FSM!CompleteTrip, FSM!Accepts
  <2>2. trips[t].driverId \in Drivers \cup {None}
    BY <2>1 DEF FSMP!Inv, FSMP!TypeOK, FSMP!Trip
  <2>3. QuietStep /\ RegistryStep /\ UNCHANGED <<loop, offers, launched>>
    BY <1>2, TransitionStep, NoTripStep
       DEF Complete, RepeatComplete, RegistryStep, svcVars, storeVars
  <2>4. PlainWire
    BY <1>2, <2>2, PlainWires, PlainCalls DEF Complete, RepeatComplete
  <2> QED
    BY <2>3, <2>4, OutsideFine
<1> QED
  BY <1>1, <1>2

LEMMA DriverSteps ==
  ASSUME SvcInv, NEW d \in Drivers
  PROVE  /\ CompleteReply(d) => Fine
         /\ SocketClose(d) => Fine
         /\ Evict(d) => Fine
         /\ \A expired \in BOOLEAN : Telemetry(d, expired) => Fine
         /\ ExpireLease(d) => Fine
<1> USE DEF SvcInv
<1>1. ASSUME UNCHANGED <<fsmVars, svcVars, wire>>, RegistryStep PROVE Fine
  <2>1. QuietStep /\ PlainWire
    BY <1>1, NoTripStep, PlainCalls, PlainWires
  <2> QED
    BY <1>1, <2>1, OutsideFine DEF svcVars, storeVars
<1>2. ASSUME CompleteReply(d) PROVE Fine
  <2>1. QuietStep /\ PlainWire
    BY <1>2, NoTripStep, PlainCalls, PlainWires DEF CompleteReply, Answered
  <2>2. RegistryStep
    BY <1>2, DriverCalls DEF CompleteReply
  <2> QED
    BY <1>2, <2>1, <2>2, OutsideFine DEF CompleteReply, svcVars, storeVars
<1>3. ASSUME SocketClose(d) PROVE Fine
  BY <1>1, <1>3, DriverCalls DEF SocketClose
<1>4. ASSUME Evict(d) PROVE Fine
  BY <1>1, <1>4, DriverCalls DEF Evict
<1>5. ASSUME NEW expired \in BOOLEAN, Telemetry(d, expired) PROVE Fine
  <2> DEFINE idle == activeDriverTrips[d] = None
  <2>1. idle \in BOOLEAN /\ Reg!Telemetry(d, expired, idle)
    BY <1>5 DEF Telemetry
  <2>2. RegistryStep
    BY <2>1, DriverCalls
  <2> QED
    BY <1>1, <1>5, <2>2 DEF Telemetry
<1>6. ASSUME ExpireLease(d) PROVE Fine
  BY <1>1, <1>6, DriverCalls DEF ExpireLease
<1> QED
  BY <1>2, <1>3, <1>4, <1>5, <1>6

-----------------------------------------------------------------------------
(* Every step of the service *)

LEMMA NextFine == ASSUME SvcInv, [Next]_vars PROVE Fine
<1>1. CASE UNCHANGED vars
  <2>1. QuietStep /\ RegistryStep /\ UNCHANGED <<loop, offers, launched>>
    BY <1>1, NoTripStep DEF vars, RegistryStep, svcVars, storeVars
  <2>2. PlainWire
    BY <1>1, PlainCalls, PlainWires DEF vars, SvcInv
  <2> QED
    BY <2>1, <2>2, OutsideFine
<1>2. CASE Clients
  <2>1. ASSUME NEW q \in Requests, Accept(q) \/ Reject(q) PROVE Fine
    BY <2>1, ResolveFine DEF Accept, Reject
  <2> QED
    BY <1>2, <2>1, RequestSteps, CancelCallSteps, TripSteps, DriverSteps DEF Clients
<1>3. CASE RedisAnswers
  BY <1>3, StoreReplyFine, StoreRefusalFine, AcquireSteps, CommitSteps, ReleaseSteps,
     CancelReplySteps, DriverSteps DEF RedisAnswers
<1>4. ASSUME NEW q \in Requests, LoopStep(q) \/ Timeout(q) PROVE Fine
  BY <1>4, LoopSteps, ResolveFine DEF LoopStep, Timeout
<1>5. ASSUME NEW d \in Drivers, Evict(d) \/ ExpireLease(d) PROVE Fine
  BY <1>5, DriverSteps
<1> QED
  BY <1>1, <1>2, <1>3, <1>4, <1>5 DEF Next

LEMMA NextSvcInv == ASSUME SvcInv, [Next]_vars PROVE SvcInv'
<1>1. Fine
  BY NextFine
<1>2. FSMP!Inv'
  <2>1. [FSMP!Next]_FSMP!vars
    BY <1>1, SameTripSteps DEF Fine, TripStep, fsmVars, FSMP!vars
  <2> QED
    BY <2>1, PartsAssumptions, FSMP!NextInv DEF SvcInv
<1>3. RegP!Inv' /\ AllRegistered'
  BY <1>1, RegistryStepKeeps DEF Fine, SvcInv
<1> QED
  BY <1>1, <1>2, <1>3 DEF Fine, LocalInv, SvcInv

-----------------------------------------------------------------------------
(* The theorems *)

\* The inductive invariant of the running service.
THEOREM ServiceInvariant == Spec => []SvcInv
BY InitSvcInv, NextSvcInv, PTL DEF Spec

\* Whatever clients, timers, Redis and connections do, the index of the running
\* service holds every available driver without a token, and none with one.
THEOREM ServiceKeepsIndex == Spec => [](Reg!NoLostDriver /\ Reg!LockedIsHidden)
<1>1. SvcInv => Reg!NoLostDriver /\ Reg!LockedIsHidden
  BY DEF SvcInv, RegP!Inv, RegP!NoLostDriver, RegP!LockedIsHidden,
         Reg!NoLostDriver, Reg!LockedIsHidden
<1> QED
  BY <1>1, ServiceInvariant, PTL

\* The running service books no driver for two trips and gives no rider two rides, in
\* every environment: a driver offered to a second rider while on a trip, which heals of
\* the lock and repeated completions do bring about, is refused at the match.
THEOREM ServiceNeverDoubleBooks ==
  Spec => [](FSM!NoDoubleBooking /\ FSM!OneActiveTripPerRider)
<1>1. SvcInv => FSMP!NoDoubleBooking /\ FSMP!OneActiveTripPerRider
  BY PartsAssumptions, FSMP!OneTripEach DEF SvcInv
<1>2. FSM!NoDoubleBooking /\ FSM!OneActiveTripPerRider
      <=> FSMP!NoDoubleBooking /\ FSMP!OneActiveTripPerRider
  BY DEF FSM!NoDoubleBooking, FSMP!NoDoubleBooking, FSM!OneActiveTripPerRider,
         FSMP!OneActiveTripPerRider, FSM!ActiveTrips, FSMP!ActiveTrips, FSM!Terminal,
         FSMP!Terminal, FSM!AssignedTrips, FSMP!AssignedTrips, FSM!Assigned, FSMP!Assigned
<1> QED
  BY <1>1, <1>2, ServiceInvariant, PTL

\* No request is ever given a second offer loop.
THEOREM SingleLoopHolds == Spec => []SingleLoop
<1>1. SvcInv => SingleLoop
  BY DEF SvcInv, LaunchedOK, SingleLoop
<1> QED
  BY <1>1, ServiceInvariant, PTL

\* A trip is matched only in the step that finds its request's lease.
THEOREM MatchUnderLeaseHolds == Spec => MatchUnderLease
<1>1. ASSUME SvcInv, [Next]_vars PROVE [MatchStep]_vars
  BY <1>1, NextFine DEF Fine
<1>2. [][MatchStep]_vars <=> MatchUnderLease
  BY PTL DEF MatchUnderLease, MatchStep
<1> QED
  BY <1>1, <1>2, ServiceInvariant, PTL DEF Spec

\* The trips of the running service keep the contract on rides.
THEOREM ServiceImplementsContract == Spec => ImplementsContract
<1>1. Init => FSMP!Contract!Init
  BY DEF Init, FSM!Init, FSMP!Contract!Init, FSMP!Contract!Idle, FSMP!rideBar
<1>2. ASSUME SvcInv, [Next]_vars PROVE [FSMP!Contract!Next]_FSMP!rideBar
  <2>1. FSMP!Inv /\ [FSMP!Next]_FSMP!vars
    BY <1>2, NextFine, SameTripSteps DEF Fine, TripStep, SvcInv, fsmVars, FSMP!vars
  <2> QED
    BY <2>1, PartsAssumptions, FSMP!StepRefines
<1>3. Spec => FSMP!ImplementsContract
  BY <1>1, <1>2, ServiceInvariant, PTL DEF Spec, FSMP!ImplementsContract, FSMP!Contract!Spec
<1> QED
  BY <1>3, SameImplementsContract DEF ImplementsContract


-----------------------------------------------------------------------------
(* Leases *)

Holding == {"offer", "commit", "release", "exit"}

TokenOfHolder ==
    \A d \in Drivers : lock[d] # None => token[d] \in {None, lock[d]}

OfferToCandidate ==
    \A q \in Requests : offers[q] # None => offers[q] = loop[q].driver

OfferBackedUnlessLapse == "lapse" \notin environment => OfferBacked

LeaseInv ==
    /\ LeaseHasOwner
    /\ TokenOfHolder
    /\ OfferToCandidate
    /\ OfferBackedUnlessLapse

LEMMA InitLeaseInv == Init => LeaseInv
BY DEF Init, LeaseInv, LeaseHasOwner, TokenOfHolder, OfferToCandidate,
       OfferBackedUnlessLapse, OfferBacked

-----------------------------------------------------------------------------
(* What a step may do to leases, tokens, offers and loops *)

\* No lease or token is given.
NothingGranted ==
    \A d \in Drivers : lock'[d] \in {None, lock[d]} /\ token'[d] \in {None, token[d]}

NoLeaseMoves == UNCHANGED lock /\ NothingGranted

LEMMA LeasesAfter ==
  ASSUME SvcInv, LeaseInv, NothingGranted, UNCHANGED environment,
         \A p \in Requests :
            \/ offers'[p] = None
            \/ offers'[p] = offers[p] /\ loop'[p] = loop[p],
         \A d \in Drivers, p \in Requests :
            lock'[d] = p => loop'[p].driver = loop[p].driver /\ loop'[p].pc \in Holding,
         \A d \in Drivers :
            lock'[d] # lock[d] => "lapse" \in environment \/ offers'[lock[d]] = None
  PROVE  LeaseInv'
<1> USE DEF SvcInv, LeaseInv, RegP!Inv, RegP!TypeOK
<1>1. LeaseHasOwner'
  BY DEF LeaseHasOwner, NothingGranted, Holding
<1>2. TokenOfHolder'
  BY DEF TokenOfHolder, NothingGranted
<1>3. OfferToCandidate'
  BY DEF OfferToCandidate
<1>4. OfferBackedUnlessLapse'
  <2> SUFFICES ASSUME "lapse" \notin environment, NEW p \in Requests, offers'[p] # None
               PROVE  lock'[offers'[p]] = p
    BY DEF OfferBackedUnlessLapse, OfferBacked
  <2>1. offers'[p] = offers[p] /\ offers[p] \in Drivers /\ lock[offers[p]] = p
    BY DEF OfferBackedUnlessLapse, OfferBacked, LoopOK
  <2> QED
    BY <2>1
<1> QED
  BY <1>1, <1>2, <1>3, <1>4

\* The lease of a request is on the candidate of its loop.
LEMMA LeaseOfLoop ==
  ASSUME SvcInv, LeaseInv, NEW d \in Drivers, NEW q \in Requests, lock[d] = q
  PROVE  /\ loop[q].driver = d
         /\ loop[q].pc \in Holding
         /\ token[d] \in {None, q}
<1>1. q # None
  BY ConstantsAssumption
<1> QED
  BY <1>1 DEF LeaseInv, LeaseHasOwner, TokenOfHolder, Holding

\* Loops and offers stay.
LEMMA OutsideLeases ==
  ASSUME SvcInv, LeaseInv, NoLeaseMoves, UNCHANGED <<loop, environment>>,
         \A p \in Requests : offers'[p] \in {None, offers[p]}
  PROVE  LeaseInv'
BY LeasesAfter, LeaseOfLoop DEF NoLeaseMoves

\* A loop that holds no lease moves.
LEMMA IdleLeases ==
  ASSUME SvcInv, LeaseInv, NoLeaseMoves, UNCHANGED <<offers, environment>>,
         NEW q \in Requests, loop[q].pc \notin Holding,
         \A p \in Requests \ {q} : loop'[p] = loop[p]
  PROVE  LeaseInv'
<1>1. offers[q] = None
  BY DEF SvcInv, LoopOK, At, Holding
<1>2. \A d \in Drivers : lock[d] # q
  BY LeaseOfLoop
<1> QED
  BY <1>1, <1>2, LeasesAfter, LeaseOfLoop DEF NoLeaseMoves

\* A loop that may hold one moves, keeping it or with the lease released.
LEMMA HolderLeases ==
  ASSUME SvcInv, LeaseInv, NothingGranted, UNCHANGED environment,
         NEW q \in Requests, offers'[q] = None,
         \A p \in Requests \ {q} : loop'[p] = loop[p] /\ offers'[p] = offers[p],
         \A d \in Drivers : lock'[d] # lock[d] => lock[d] = q,
         \A d \in Drivers : lock'[d] = q
            => loop'[q].driver = loop[q].driver /\ loop'[q].pc \in Holding
  PROVE  LeaseInv'
<1>1. ASSUME NEW d \in Drivers, NEW p \in Requests, lock'[d] = p
      PROVE  loop'[p].driver = loop[p].driver /\ loop'[p].pc \in Holding
  <2>1. lock[d] = p
    BY <1>1, ConstantsAssumption DEF NothingGranted
  <2> QED
    BY <1>1, <2>1, LeaseOfLoop
<1> QED
  BY <1>1, LeasesAfter

\* A loop that calls releaseLock keeps the lease it has.
LEMMA CallReleaseHolds ==
  ASSUME SvcInv, LeaseInv, NothingGranted, NEW q \in Requests,
         NEW pc \in {"release", "exit"}, CallRelease(q, pc)
  PROVE  \A d \in Drivers : lock'[d] = q
            => loop'[q].driver = loop[q].driver /\ loop'[q].pc \in Holding
<1> SUFFICES ASSUME NEW d \in Drivers, lock'[d] = q
             PROVE  loop'[q].driver = loop[q].driver /\ loop'[q].pc \in Holding
  OBVIOUS
<1>1. lock[d] = q
  BY ConstantsAssumption DEF NothingGranted
<1>2. loop[q].driver = d /\ token'[d] \in {None, q}
  BY <1>1, LeaseOfLoop DEF NothingGranted
<1>3. Goto(q, pc)
  BY <1>2 DEF CallRelease, MayRelease
<1> QED
  BY <1>3 DEF Goto, SvcInv, LoopOK, LoopRecord, Holding

LEMMA RegistryLeases ==
  ASSUME RegP!TypeOK, NEW d \in Drivers
  PROVE  /\ UNCHANGED regVars => NoLeaseMoves
         /\ Reg!HealState(d) => NoLeaseMoves
         /\ Reg!Complete(d) => NoLeaseMoves
         /\ Reg!SetOffline(d) => NoLeaseMoves
         /\ Reg!Evict(d) => NoLeaseMoves
         /\ \A expired, idle \in BOOLEAN : Reg!Telemetry(d, expired, idle) => NoLeaseMoves
         /\ \A q \in Requests :
               /\ Reg!ReleaseNoLease(d, q) => NoLeaseMoves
               /\ Reg!ReleaseLease(d, q) \/ Reg!Commit(d, q)
                  => /\ NothingGranted
                     /\ lock[d] = q /\ lock'[d] = None
                     /\ \A c \in Drivers \ {d} : lock'[c] = lock[c]
<1> USE DEF RegP!TypeOK, NoLeaseMoves, NothingGranted
<1>1. UNCHANGED regVars => NoLeaseMoves
  BY DEF regVars
<1>2. /\ Reg!HealState(d) => NoLeaseMoves
      /\ Reg!Complete(d) => NoLeaseMoves
  BY DEF Reg!HealState, Reg!Complete, Reg!SetAvailable, Reg!localVars
<1>3. /\ Reg!SetOffline(d) => NoLeaseMoves
      /\ Reg!Evict(d) => NoLeaseMoves
  BY DEF Reg!SetOffline, Reg!Evict, Reg!redisVars
<1>4. ASSUME NEW expired \in BOOLEAN, NEW idle \in BOOLEAN,
             Reg!Telemetry(d, expired, idle)
      PROVE  NoLeaseMoves
  BY <1>4 DEF Reg!Telemetry, Reg!redisVars
<1>5. ASSUME NEW q \in Requests
      PROVE  /\ Reg!ReleaseNoLease(d, q) => NoLeaseMoves
             /\ Reg!ReleaseLease(d, q) \/ Reg!Commit(d, q)
                => /\ NothingGranted
                   /\ lock[d] = q /\ lock'[d] = None
                   /\ \A c \in Drivers \ {d} : lock'[c] = lock[c]
  BY DEF Reg!ReleaseNoLease, Reg!ReleaseLease, Reg!Commit, Reg!ReturnToPool
<1> QED
  BY <1>1, <1>2, <1>3, <1>4, <1>5

-----------------------------------------------------------------------------
(* Every action *)

\* Those that leave the loops alone, and the registry.
LEMMA QuietLeases ==
  ASSUME SvcInv, LeaseInv, UNCHANGED <<regVars, loop, environment>>,
         \A p \in Requests : offers'[p] \in {None, offers[p]}
  PROVE  LeaseInv'
<1>1. NoLeaseMoves
  BY DEF regVars, NoLeaseMoves, NothingGranted
<1> QED
  BY <1>1, OutsideLeases

LEMMA ClientLeases ==
  ASSUME SvcInv, LeaseInv, NEW q \in Requests
  PROVE  /\ \A r \in Riders : RequestRide(q, r) \/ RepeatRequest(q, r) => LeaseInv'
         /\ StoreRefusal(q) => LeaseInv'
         /\ CancelRide(q) => LeaseInv'
         /\ CancelOffer(q) => LeaseInv'
<1>1. ASSUME NEW r \in Riders, RequestRide(q, r) \/ RepeatRequest(q, r) PROVE LeaseInv'
  BY <1>1, QuietLeases DEF RequestRide, RepeatRequest, svcVars, storeVars
<1>2. ASSUME StoreRefusal(q) PROVE LeaseInv'
  BY <1>2, QuietLeases DEF StoreRefusal, svcVars, storeVars
<1>3. ASSUME CancelRide(q) PROVE LeaseInv'
  BY <1>3, QuietLeases DEF CancelRide, storeVars
<1>4. ASSUME CancelOffer(q) PROVE LeaseInv'
  BY <1>4, QuietLeases DEF CancelOffer, storeVars, SvcInv, LoopOK
<1> QED
  BY <1>1, <1>2, <1>3, <1>4

LEMMA TripLeases ==
  ASSUME SvcInv, LeaseInv, NEW t,
         Arrived(t) \/ Start(t) \/ Complete(t) \/ RepeatComplete(t)
  PROVE  LeaseInv'
BY QuietLeases DEF Arrived, Start, Complete, RepeatComplete, svcVars, storeVars

LEMMA DriverLeases ==
  ASSUME SvcInv, LeaseInv, NEW d \in Drivers
  PROVE  /\ CompleteReply(d) => LeaseInv'
         /\ SocketClose(d) => LeaseInv'
         /\ Evict(d) => LeaseInv'
         /\ \A expired \in BOOLEAN : Telemetry(d, expired) => LeaseInv'
         /\ ExpireLease(d) => LeaseInv'
<1> USE DEF SvcInv, RegP!Inv
<1>1. ASSUME NoLeaseMoves, UNCHANGED svcVars PROVE LeaseInv'
  BY <1>1, OutsideLeases DEF svcVars, storeVars
<1>2. ASSUME CompleteReply(d) PROVE LeaseInv'
  BY <1>1, <1>2, RegistryLeases DEF CompleteReply
<1>3. ASSUME SocketClose(d) PROVE LeaseInv'
  BY <1>1, <1>3, RegistryLeases DEF SocketClose
<1>4. ASSUME Evict(d) PROVE LeaseInv'
  BY <1>1, <1>4, RegistryLeases DEF Evict
<1>5. ASSUME NEW expired \in BOOLEAN, Telemetry(d, expired) PROVE LeaseInv'
  <2> DEFINE idle == activeDriverTrips[d] = None
  <2>1. idle \in BOOLEAN /\ Reg!Telemetry(d, expired, idle)
    BY <1>5 DEF Telemetry
  <2>2. NoLeaseMoves
    BY <2>1, RegistryLeases
  <2> QED
    BY <1>1, <1>5, <2>2 DEF Telemetry
<1>6. ASSUME ExpireLease(d) PROVE LeaseInv'
  <2>1. /\ "lapse" \in environment
        /\ lock' = [lock EXCEPT ![d] = None]
        /\ UNCHANGED <<token, loop, offers, environment>>
    BY <1>6 DEF ExpireLease, Reg!ExpireLease, Reg!localVars, svcVars, storeVars
  <2>2. NothingGranted
    BY <2>1 DEF NothingGranted, RegP!TypeOK
  <2>3. ASSUME NEW c \in Drivers, NEW p \in Requests, lock'[c] = p
        PROVE  loop[p].pc \in Holding
    BY <2>2, <2>3, LeaseOfLoop, ConstantsAssumption DEF NothingGranted
  <2> QED
    BY <2>1, <2>2, <2>3, LeasesAfter
<1> QED
  BY <1>2, <1>3, <1>4, <1>5, <1>6

\* Those of a loop that has no lease.
LEMMA SearchLeases ==
  ASSUME SvcInv, LeaseInv, NEW q \in Requests
  PROVE  /\ StoreReply(q) => LeaseInv'
         /\ LoopStep(q) => LeaseInv'
         /\ HolderReply(q) => LeaseInv'
         /\ HealReply(q) => LeaseInv'
         /\ RollbackReply(q) => LeaseInv'
         /\ AcquireReply(q) /\ ~GrantAndOffer(q) => LeaseInv'
         /\ ReacquireReply(q) /\ ~GrantAndOffer(q) => LeaseInv'
         /\ \A pc \in DOMAIN HolderPc : ReleaseHolderReply(q, pc) => LeaseInv'
<1> USE DEF SvcInv, RegP!Inv
<1>1. ASSUME NEW pc \in Pcs \ Holding, At(q, pc), NoLeaseMoves,
             UNCHANGED <<offers, environment>>,
             \/ \E to \in Pcs : Goto(q, to)
             \/ EndLoop(q)
             \/ \E new : loop' = [loop EXCEPT ![q] = new]
      PROVE  LeaseInv'
  <2>1. \A p \in Requests \ {q} : loop'[p] = loop[p]
    BY <1>1 DEF Goto, EndLoop, LoopOK
  <2> QED
    BY <1>1, <2>1, IdleLeases DEF At
<1>2. ASSUME StoreReply(q) PROVE LeaseInv'
  <2>1. NoLeaseMoves /\ UNCHANGED <<offers, environment>>
    BY <1>2 DEF StoreReply, regVars, NoLeaseMoves, NothingGranted
  <2>2. CASE StatusOf(q) = "requested"
    <3>1. At(q, "idle")
      BY <2>2 DEF LaunchedOK, Dispatched
    <3> QED
      BY <1>1, <1>2, <2>1, <2>2, <3>1 DEF StoreReply, Pcs, Holding
  <2>3. CASE StatusOf(q) # "requested"
    BY <1>2, <2>1, <2>3, OutsideLeases DEF StoreReply
  <2> QED
    BY <2>2, <2>3
<1>3. ASSUME LoopStep(q) PROVE LeaseInv'
  <2>1. NoLeaseMoves /\ UNCHANGED <<offers, environment>>
    BY <1>3 DEF LoopStep, LoopAborted, LoopTry, LoopGivesUp, FailureSaved, MatchSaved,
           storeVars, regVars, NoLeaseMoves, NothingGranted
  <2>2. PICK pc \in {"top", "closing", "saving"} : At(q, pc)
    BY <1>3 DEF LoopStep, LoopAborted, LoopTry, LoopGivesUp, FailureSaved, MatchSaved
  <2>3. \/ \E to \in Pcs : Goto(q, to)
        \/ EndLoop(q)
        \/ \E new : loop' = [loop EXCEPT ![q] = new]
    <3>1. CASE \E d \in Drivers : LoopTry(q, d)
      BY <3>1 DEF LoopTry
    <3>2. CASE ~\E d \in Drivers : LoopTry(q, d)
      BY <1>3, <3>2 DEF LoopStep, LoopAborted, LoopGivesUp, FailureSaved, MatchSaved, Pcs
    <3> QED
      BY <3>1, <3>2
  <2> QED
    BY <1>1, <2>1, <2>2, <2>3 DEF Pcs, Holding
<1>4. ASSUME HolderReply(q) PROVE LeaseInv'
  BY <1>1, <1>4, RegistryLeases, Position
     DEF HolderReply, Resumes, storeVars, Pcs, Holding, Engaged
<1>5. ASSUME HealReply(q) PROVE LeaseInv'
  BY <1>1, <1>5, RegistryLeases, Position
     DEF HealReply, Resumes, storeVars, Pcs, Holding, Engaged
<1>6. ASSUME RollbackReply(q) PROVE LeaseInv'
  BY <1>1, <1>6, RegistryLeases, Position
     DEF RollbackReply, Resumes, storeVars, Pcs, Holding, Engaged
<1>7. ASSUME AcquireReply(q) /\ ~GrantAndOffer(q) PROVE LeaseInv'
  BY <1>1, <1>7, RegistryLeases, Position
     DEF AcquireReply, Resumes, storeVars, Pcs, Holding, Engaged
<1>8. ASSUME ReacquireReply(q) /\ ~GrantAndOffer(q) PROVE LeaseInv'
  BY <1>1, <1>8, RegistryLeases, Position
     DEF ReacquireReply, Resumes, storeVars, Pcs, Holding, Engaged
<1>9. ASSUME NEW pc \in DOMAIN HolderPc, ReleaseHolderReply(q, pc) PROVE LeaseInv'
  <2>1. /\ HolderPc[pc] \in {"releaseHolder", "exitHolder"}
        /\ At(q, HolderPc[pc])
    BY <1>9 DEF HolderPc, ReleaseHolderReply, Resumes
  <2>2. NoLeaseMoves
    BY <1>9, <2>1, RegistryLeases, Position DEF ReleaseHolderReply, Engaged
  <2> QED
    BY <1>1, <1>9, <2>1, <2>2
       DEF ReleaseHolderReply, AfterRelease, storeVars, Pcs, Holding
<1> QED
  BY <1>2, <1>3, <1>4, <1>5, <1>6, <1>7, <1>8, <1>9

\* Redis grants a lease: nobody had one on this driver, nor this loop another.
LEMMA GrantLeases ==
  ASSUME SvcInv, LeaseInv, NEW q \in Requests, NEW pc \in {"acquire", "reacquire"},
         At(q, pc), GrantAndOffer(q)
  PROVE  LeaseInv'
<1> DEFINE d == loop[q].driver
<1> USE DEF SvcInv, RegP!Inv, RegP!TypeOK
<1>1. /\ d \in Drivers
      /\ lock[d] = None
      /\ lock' = [lock EXCEPT ![d] = q]
      /\ token' = [token EXCEPT ![d] = q]
      /\ offers' = [offers EXCEPT ![q] = d]
      /\ loop' = [loop EXCEPT ![q].pc = "offer"]
      /\ environment' = environment
  BY Position DEF GrantAndOffer, Reg!GrantLock, Reg!Lockable, Goto, storeVars, Engaged
<1>2. \A c \in Drivers : lock[c] # q
  BY LeaseOfLoop DEF At, Holding
<1>3. loop'[q].driver = d /\ loop'[q].pc = "offer"
  BY <1>1 DEF LoopOK, LoopRecord
<1>4. \A p \in Requests \ {q} : loop'[p] = loop[p] /\ offers'[p] = offers[p]
  BY <1>1 DEF LoopOK
<1>5. ASSUME NEW c \in Drivers, lock'[c] # None
      PROVE  /\ loop'[lock'[c]].driver = c
             /\ loop'[lock'[c]].pc \in Holding
             /\ token'[c] \in {None, lock'[c]}
  <2>1. CASE c = d
    BY <1>1, <1>3, <2>1 DEF Holding
  <2>2. CASE c # d
    <3>1. lock'[c] = lock[c] /\ token'[c] = token[c] /\ lock[c] \in Requests \ {q}
      BY <1>1, <1>2, <1>5, <2>2
    <3> QED
      BY <1>4, <3>1, LeaseOfLoop
  <2> QED
    BY <2>1, <2>2
<1>6. LeaseHasOwner' /\ TokenOfHolder'
  BY <1>5 DEF LeaseHasOwner, TokenOfHolder, Holding
<1>7. OfferToCandidate'
  BY <1>1, <1>3, <1>4 DEF OfferToCandidate, LeaseInv, LoopOK
<1>8. OfferBackedUnlessLapse'
  <2> SUFFICES ASSUME "lapse" \notin environment, NEW p \in Requests, offers'[p] # None
               PROVE  lock'[offers'[p]] = p
    BY <1>1 DEF OfferBackedUnlessLapse, OfferBacked
  <2>1. CASE p = q
    BY <1>1, <2>1 DEF LoopOK
  <2>2. CASE p # q
    <3>1. offers'[p] = offers[p] /\ offers[p] \in Drivers /\ lock[offers[p]] = p
      BY <1>4, <2>2 DEF LeaseInv, OfferBackedUnlessLapse, OfferBacked, LoopOK
    <3>2. offers[p] # d
      BY <1>1, <3>1, ConstantsAssumption
    <3> QED
      BY <1>1, <3>1, <3>2
  <2> QED
    BY <2>1, <2>2
<1> QED
  BY <1>6, <1>7, <1>8 DEF LeaseInv

\* Those of a loop that may have one.
LEMMA HolderSteps ==
  ASSUME SvcInv, LeaseInv, NEW q \in Requests
  PROVE  /\ \A pc \in DOMAIN HolderPc : ReleaseReply(q, pc) => LeaseInv'
         /\ \A outcome : ResolveOffer(q, outcome) => LeaseInv'
         /\ CommitReply(q) => LeaseInv'
         /\ CancelLapsedOffer(q) => LeaseInv'
<1> USE DEF SvcInv, RegP!Inv
<1>1. ASSUME NEW pc \in {"release", "exit", "commit"}, At(q, pc)
      PROVE  loop[q].driver \in Drivers /\ offers[q] = None
  BY <1>1 DEF LoopOK, At, Engaged
<1>2. ASSUME NEW pc \in DOMAIN HolderPc, ReleaseReply(q, pc) PROVE LeaseInv'
  <2>1. pc \in {"release", "exit"} /\ At(q, pc) /\ UNCHANGED <<offers, environment>>
    BY <1>2 DEF HolderPc, ReleaseReply, Resumes, storeVars
  <2>2. CASE lock[loop[q].driver] = q
    <3>1. /\ NothingGranted
          /\ \A d \in Drivers : lock'[d] # lock[d] => lock[d] = q
          /\ \A d \in Drivers : lock'[d] # q
      <4>1. /\ NothingGranted
            /\ lock'[loop[q].driver] = None
            /\ \A c \in Drivers \ {loop[q].driver} : lock'[c] = lock[c]
        BY <1>1, <1>2, <2>1, <2>2, RegistryLeases DEF ReleaseReply
      <4>2. \A c \in Drivers : lock[c] = q => c = loop[q].driver
        BY LeaseOfLoop
      <4> QED
        BY <2>2, <4>1, <4>2, ConstantsAssumption
    <3>2. \A p \in Requests \ {q} : loop'[p] = loop[p]
      BY <1>2, <2>1, <2>2, LoopMoves DEF ReleaseReply, LoopMoved
    <3> QED
      BY <1>1, <2>1, <3>1, <3>2, HolderLeases
  <2>3. CASE lock[loop[q].driver] # q
    <3>1. NoLeaseMoves
      BY <1>1, <1>2, <2>1, <2>3, RegistryLeases DEF ReleaseReply
    <3>2. \A d \in Drivers : lock[d] # q
      BY <2>3, LeaseOfLoop
    <3>3. \A p \in Requests \ {q} : loop'[p] = loop[p]
      BY <1>2, <2>3 DEF ReleaseReply, Goto, LoopOK
    <3> QED
      BY <1>1, <2>1, <3>1, <3>2, <3>3, HolderLeases DEF NoLeaseMoves
  <2> QED
    BY <2>2, <2>3
<1>3. ASSUME NEW outcome, ResolveOffer(q, outcome) PROVE LeaseInv'
  <2>1. /\ At(q, "offer")
        /\ loop[q].driver \in Drivers
        /\ offers' = [offers EXCEPT ![q] = None]
        /\ UNCHANGED environment
        /\ UNCHANGED regVars
    BY <1>3 DEF ResolveOffer, LoopOK, At, Engaged, storeVars
  <2>2. UNCHANGED lock /\ NothingGranted
    BY <2>1 DEF regVars, NothingGranted
  <2>3. \/ Goto(q, "commit")
        \/ \E pc \in {"release", "exit"} : CallRelease(q, pc)
    BY <1>3 DEF ResolveOffer
  <2>4. \A p \in Requests \ {q} : loop'[p] = loop[p] /\ offers'[p] = offers[p]
    BY <2>1, <2>3, LoopMoves DEF LoopMoved, LoopOK, Pcs
  <2>5. \A d \in Drivers : lock'[d] = q
           => loop'[q].driver = loop[q].driver /\ loop'[q].pc \in Holding
    <3>1. CASE Goto(q, "commit")
      BY <3>1 DEF Goto, LoopOK, LoopRecord, Holding
    <3> QED
      BY <2>2, <2>3, <3>1, CallReleaseHolds
  <2>6. offers'[q] = None
    BY <2>1 DEF LoopOK
  <2> QED
    BY <2>1, <2>2, <2>4, <2>5, <2>6, HolderLeases
<1>4. ASSUME CommitReply(q) PROVE LeaseInv'
  <2>1. At(q, "commit") /\ UNCHANGED <<offers, environment>>
    BY <1>4 DEF CommitReply, Resumes, storeVars
  <2>2. CASE /\ Reg!Commit(loop[q].driver, q)
             /\ Goto(q, "saving") \/ Goto(q, "rollback")
    <3>1. /\ NothingGranted
          /\ lock[loop[q].driver] = q
          /\ lock'[loop[q].driver] = None
          /\ \A c \in Drivers \ {loop[q].driver} : lock'[c] = lock[c]
      BY <1>1, <2>1, <2>2, RegistryLeases
    <3>2. \A c \in Drivers : lock[c] = q => c = loop[q].driver
      BY LeaseOfLoop
    <3>3. /\ \A d \in Drivers : lock'[d] # lock[d] => lock[d] = q
          /\ \A d \in Drivers : lock'[d] # q
      BY <3>1, <3>2, ConstantsAssumption
    <3>4. \A p \in Requests \ {q} : loop'[p] = loop[p]
      BY <2>2 DEF Goto, LoopOK
    <3> QED
      BY <1>1, <2>1, <3>1, <3>3, <3>4, HolderLeases
  <2>3. CASE UNCHANGED regVars /\ CallRelease(q, "release")
    <3>1. UNCHANGED lock /\ NothingGranted
      BY <2>3 DEF regVars, NothingGranted
    <3>2. \A p \in Requests \ {q} : loop'[p] = loop[p]
      BY <1>1, <2>1, <2>3, LoopMoves DEF LoopMoved
    <3>3. \A d \in Drivers : lock'[d] = q
             => loop'[q].driver = loop[q].driver /\ loop'[q].pc \in Holding
      BY <2>3, <3>1, CallReleaseHolds
    <3> QED
      BY <1>1, <2>1, <3>1, <3>2, <3>3, HolderLeases
  <2> QED
    BY <1>4, <2>2, <2>3 DEF CommitReply
<1>5. ASSUME CancelLapsedOffer(q) PROVE LeaseInv'
  <2>1. /\ loop[q].driver \in Drivers
        /\ offers' = [offers EXCEPT ![q] = None]
        /\ UNCHANGED environment
        /\ UNCHANGED regVars
        /\ CallRelease(q, "exit")
    BY <1>5 DEF CancelLapsedOffer, FinishCancel, LoopOK, At, Engaged, storeVars
  <2>2. UNCHANGED lock /\ NothingGranted
    BY <2>1 DEF regVars, NothingGranted
  <2>3. /\ \A p \in Requests \ {q} : loop'[p] = loop[p] /\ offers'[p] = offers[p]
        /\ offers'[q] = None
    BY <2>1, LoopMoves DEF LoopMoved, LoopOK
  <2>4. \A d \in Drivers : lock'[d] = q
           => loop'[q].driver = loop[q].driver /\ loop'[q].pc \in Holding
    BY <2>1, <2>2, CallReleaseHolds
  <2> QED
    BY <2>1, <2>2, <2>3, <2>4, HolderLeases
<1> QED
  BY <1>2, <1>3, <1>4, <1>5

\* The cancellation of a pending offer, after its first await.
LEMMA CancelLeases ==
  ASSUME SvcInv, LeaseInv, NEW q \in Requests, NEW d \in Drivers
  PROVE  /\ CancelReply(q, d) => LeaseInv'
         /\ CancelHolderReply(q, d) => LeaseInv'
<1> USE DEF SvcInv, RegP!Inv
<1>1. ASSUME CancelReply(q, d) \/ CancelHolderReply(q, d)
      PROVE  /\ loop[q].driver \in Drivers
             /\ offers[q] = None
             /\ UNCHANGED <<offers, environment>>
  <2>1. wire # <<>> /\ IsCancel(Head(wire)) /\ Head(wire).request = q
    BY <1>1 DEF CancelReply, CancelHolderReply, Answered, CancelCall, HolderCall, IsCancel
  <2> QED
    BY <1>1, <2>1, CancelIsWithdrawn DEF CancelReply, CancelHolderReply, storeVars
<1>2. ASSUME NothingGranted, CallRelease(q, "exit"), UNCHANGED <<offers, environment>>,
             loop[q].driver \in Drivers, offers[q] = None,
             \A c \in Drivers : lock'[c] # lock[c] => lock[c] = q
      PROVE  LeaseInv'
  <2>1. \A p \in Requests \ {q} : loop'[p] = loop[p]
    BY <1>2, LoopMoves DEF LoopMoved
  <2>2. \A c \in Drivers : lock'[c] = q
           => loop'[q].driver = loop[q].driver /\ loop'[q].pc \in Holding
    BY <1>2, CallReleaseHolds
  <2> QED
    BY <1>2, <2>1, <2>2, HolderLeases
<1>3. ASSUME CancelReply(q, d) PROVE LeaseInv'
  <2>1. CASE lock[d] = q
    <3>1. CallRelease(q, "exit") /\ Reg!ReleaseLease(d, q)
      BY <1>3, <2>1 DEF CancelReply, FinishCancel
    <3>2. NothingGranted /\ \A c \in Drivers : lock'[c] # lock[c] => lock[c] = q
      BY <2>1, <3>1, RegistryLeases
    <3> QED
      BY <1>1, <1>2, <1>3, <3>1, <3>2
  <2>2. CASE lock[d] # q
    <3>1. NoLeaseMoves /\ UNCHANGED loop
      BY <1>3, <2>2, RegistryLeases DEF CancelReply
    <3> QED
      BY <1>1, <1>3, <3>1, OutsideLeases
  <2> QED
    BY <2>1, <2>2
<1>4. ASSUME CancelHolderReply(q, d) PROVE LeaseInv'
  <2>1. NoLeaseMoves /\ CallRelease(q, "exit")
    BY <1>4, RegistryLeases DEF CancelHolderReply, FinishCancel
  <2> QED
    BY <1>1, <1>2, <1>4, <2>1 DEF NoLeaseMoves
<1> QED
  BY <1>3, <1>4

-----------------------------------------------------------------------------
LEMMA NextLeaseInv == ASSUME SvcInv, LeaseInv, [Next]_vars PROVE LeaseInv'
<1>1. CASE UNCHANGED vars
  <2>1. NoLeaseMoves /\ UNCHANGED <<loop, offers, environment>>
    BY <1>1 DEF vars, regVars, svcVars, storeVars, NoLeaseMoves, NothingGranted
  <2> QED
    BY <2>1, OutsideLeases
<1>2. CASE Clients
  <2>1. ASSUME NEW q \in Requests, Accept(q) \/ Reject(q) PROVE LeaseInv'
    BY <2>1, HolderSteps DEF Accept, Reject
  <2>2. ASSUME NEW q \in Requests, NEW r \in Riders, RequestRide(q, r) \/ RepeatRequest(q, r)
        PROVE  LeaseInv'
    BY <2>2, ClientLeases
  <2>3. ASSUME NEW q \in Requests, CancelRide(q) \/ CancelOffer(q) \/ CancelLapsedOffer(q)
        PROVE  LeaseInv'
    BY <2>3, ClientLeases, HolderSteps
  <2>4. ASSUME NEW t \in FSM!TripIds,
               Arrived(t) \/ Start(t) \/ Complete(t) \/ RepeatComplete(t)
        PROVE  LeaseInv'
    BY <2>4, TripLeases
  <2> QED
    BY <1>2, <2>1, <2>2, <2>3, <2>4, DriverLeases DEF Clients
<1>3. CASE RedisAnswers
  <2>1. ASSUME NEW q \in Requests, AcquireReply(q) \/ ReacquireReply(q) PROVE LeaseInv'
    <3>1. CASE GrantAndOffer(q)
      BY <2>1, <3>1, GrantLeases DEF AcquireReply, ReacquireReply, Resumes
    <3> QED
      BY <2>1, <3>1, SearchLeases
  <2> QED
    BY <1>3, <2>1, ClientLeases, SearchLeases, HolderSteps, CancelLeases, DriverLeases
       DEF RedisAnswers
<1>4. ASSUME NEW q \in Requests, LoopStep(q) \/ Timeout(q) PROVE LeaseInv'
  BY <1>4, SearchLeases, HolderSteps DEF Timeout
<1>5. ASSUME NEW d \in Drivers, Evict(d) \/ ExpireLease(d) PROVE LeaseInv'
  BY <1>5, DriverLeases
<1> QED
  BY <1>1, <1>2, <1>3, <1>4, <1>5 DEF Next

-----------------------------------------------------------------------------
(* The theorems about leases *)

\* The inductive invariant of the leases holds in every environment.
THEOREM LeaseInvariant == Spec => []LeaseInv
BY InitSvcInv, NextSvcInv, InitLeaseInv, NextLeaseInv, PTL DEF Spec

\* Whatever is cancelled, refused, lost or late, each lease in Redis has an
\* offer loop that is about to release or commit it.
THEOREM LeaseHasOwnerHolds == Spec => []LeaseHasOwner
<1>1. LeaseInv => LeaseHasOwner
  BY DEF LeaseInv
<1> QED
  BY <1>1, LeaseInvariant, PTL

\* Where leases do not run out in use, every pending offer is backed by the
\* lease of its driver.
THEOREM OfferBackedHolds == Spec => []("lapse" \notin environment => OfferBacked)
<1>1. LeaseInv => ("lapse" \notin environment => OfferBacked)
  BY DEF LeaseInv, OfferBackedUnlessLapse
<1> QED
  BY <1>1, LeaseInvariant, PTL

-----------------------------------------------------------------------------
(* Stranded drivers *)

\* The trip of q waits for the store, or was cancelled while it did.
Waits(q) == TripOf(q) = None \/ StatusOf(q) \in {"requested", "cancelled"}

\* It waits for a driver, or was cancelled while it did.
Searches(q) == TripOf(q) # None /\ StatusOf(q) \in {"matching", "cancelled"}

Searching == Engaged \cup {"top"}

SearchOK ==
    \A q \in Requests :
        /\ launched[q] = 0 => Waits(q)
        /\ launched[q] # 0 => q \in registered
        /\ loop[q].pc \in Searching => Searches(q)

StrandInv == SearchOK /\ NoStrandedDriver

LEMMA InitStrandInv == Init => StrandInv
BY DEF Init, StrandInv, SearchOK, NoStrandedDriver, Waits, TripOf, NoLoop, Searching,
       Engaged, FSM!Init

-----------------------------------------------------------------------------
(* What a step may do *)

OnWire(c) == \E i \in DOMAIN wire : wire[i] = c

\* Requests go on waiting and searching.
Calm ==
    \A q \in Requests : (Waits(q) => Waits(q)') /\ (Searches(q) => Searches(q)')

\* No loop starts to search.
NoNewSearch ==
    /\ \A q \in Requests : loop'[q].pc \in Searching => loop[q].pc \in Searching
    /\ UNCHANGED launched
    /\ registered \subseteq registered'

\* No driver becomes busy, and one that loses its trip has its completeTrip sent.
DriversServed ==
    \A d \in Drivers :
        /\ status'[d] = "busy" => status[d] = "busy"
        /\ activeDriverTrips[d] # None
           => activeDriverTrips'[d] # None \/ OnWire(CompleteCall(d))'

\* A completeTrip that is under way is still so, or has freed its driver.
StillFreed ==
    /\ \A d \in Drivers :
          OnWire(CompleteCall(d)) => OnWire(CompleteCall(d))' \/ status'[d] # "busy"
    /\ \A q \in Requests :
          At(q, "rollback") => loop'[q] = loop[q] \/ status'[loop[q].driver] # "busy"

LEMMA SearchKept ==
  ASSUME SearchOK, Calm, NoNewSearch
  PROVE  SearchOK'
BY DEF SearchOK, Calm, NoNewSearch

LEMMA NobodyStranded ==
  ASSUME NoStrandedDriver, DriversServed, StillFreed
  PROVE  NoStrandedDriver'
<1> SUFFICES ASSUME NEW d \in Drivers, status'[d] = "busy"
             PROVE  activeDriverTrips'[d] # None \/ BeingFreed(d)'
  BY DEF NoStrandedDriver
<1>1. activeDriverTrips[d] # None \/ BeingFreed(d)
  BY DEF NoStrandedDriver, DriversServed
<1>2. CASE activeDriverTrips[d] # None
  BY <1>2 DEF DriversServed, OnWire, BeingFreed
<1>3. CASE OnWire(CompleteCall(d))
  BY <1>3 DEF StillFreed, OnWire, BeingFreed
<1>4. ASSUME NEW q \in Requests, At(q, "rollback"), loop[q].driver = d
      PROVE  BeingFreed(d)'
  BY <1>4 DEF StillFreed, BeingFreed, At
<1> QED
  BY <1>1, <1>2, <1>3, <1>4 DEF BeingFreed, OnWire

\* Calls are sent behind those that wait, and answered one by one.
LEMMA WireKeeps ==
  ASSUME WireOK, NEW calls \in Seq(Call), NEW c
  PROVE  /\ Send(calls) /\ OnWire(c) => OnWire(c)'
         /\ wire # <<>> /\ Reply(calls) /\ Head(wire) # c /\ OnWire(c) => OnWire(c)'
         /\ (Send(calls) \/ (wire # <<>> /\ Reply(calls)))
            /\ (\E i \in DOMAIN calls : calls[i] = c) => OnWire(c)'
<1> DEFINE rest == Tail(wire)
<1>1. /\ wire \in Seq(Call) /\ calls \in Seq(Call)
      /\ Len(wire) \in Nat /\ Len(calls) \in Nat
      /\ DOMAIN wire = 1..Len(wire) /\ DOMAIN calls = 1..Len(calls)
  BY DEF WireOK
<1>2. wire # <<>> => /\ rest \in Seq(Call)
                     /\ Len(rest) = Len(wire) - 1
                     /\ \A i \in 1..Len(rest) : rest[i] = wire[i + 1]
                     /\ Head(wire) = wire[1]
  BY <1>1
<1> HIDE DEF rest
<1>3. ASSUME NEW w \in Seq(Call)
      PROVE  /\ \A i \in 1..Len(w) : i \in DOMAIN (w \o calls) /\ (w \o calls)[i] = w[i]
             /\ \A i \in 1..Len(calls) :
                   /\ Len(w) + i \in DOMAIN (w \o calls)
                   /\ (w \o calls)[Len(w) + i] = calls[i]
  BY <1>1
<1>4. ASSUME Send(calls), OnWire(c) PROVE OnWire(c)'
  BY <1>1, <1>3, <1>4 DEF Send, OnWire
<1>5. ASSUME wire # <<>>, Reply(calls), Head(wire) # c, OnWire(c) PROVE OnWire(c)'
  <2>1. PICK i \in 1..Len(wire) : wire[i] = c
    BY <1>1, <1>5 DEF OnWire
  <2>2. i - 1 \in 1..Len(rest) /\ rest[i - 1] = c
    BY <1>1, <1>2, <1>5, <2>1
  <2> QED
    BY <1>2, <1>3, <1>5, <2>2 DEF Reply, OnWire, rest
<1>6. ASSUME Send(calls), \E i \in DOMAIN calls : calls[i] = c PROVE OnWire(c)'
  BY <1>1, <1>3, <1>6 DEF Send, OnWire
<1>7. ASSUME wire # <<>>, Reply(calls), \E i \in DOMAIN calls : calls[i] = c
      PROVE  OnWire(c)'
  <2>1. wire' = rest \o calls /\ rest \in Seq(Call)
    BY <1>2, <1>7 DEF Reply, rest
  <2>2. PICK i \in 1..Len(calls) : calls[i] = c
    BY <1>1, <1>7
  <2>3. Len(rest) + i \in DOMAIN wire' /\ wire'[Len(rest) + i] = c
    BY <1>3, <2>1, <2>2
  <2> QED
    BY <2>3 DEF OnWire
<1> QED
  BY <1>4, <1>5, <1>6, <1>7

-----------------------------------------------------------------------------
(* What the calls of the state machine do to the trips and their drivers *)

LEMMA TripOfRequest ==
  ASSUME FSMP!Inv, NEW q \in Requests, TripOf(q) # None
  PROVE  /\ TripOf(q) \in DOMAIN trips
         /\ \A p \in Requests : TripOf(p) = TripOf(q) => p = q
BY DEF FSMP!Inv, FSMP!TypeOK, FSMP!IndicesExact, FSMP!RequestIndexExact, TripOf

LEMMA NoTripCalm == UNCHANGED fsmVars => Calm /\ UNCHANGED activeDriverTrips
BY DEF fsmVars, Calm, Waits, Searches, TripOf, StatusOf

LEMMA CreateTripCalm ==
  ASSUME FSMP!Inv, NEW q \in Requests, NEW r \in Riders, FSM!CreateTrip(q, r)
  PROVE  Calm /\ UNCHANGED activeDriverTrips
<1>1. /\ created \in Nat
      /\ DOMAIN trips \subseteq 1..created
      /\ FSM!Evicted = {}
      /\ requestToTrip \in [Requests -> FSMP!TripIds \cup {None}]
  BY NothingEvicted, ConstantsAssumption DEF FSMP!Inv, FSMP!TypeOK
<1>2. /\ \A t \in DOMAIN trips : trips'[t] = trips[t]
      /\ trips'[created + 1].status = "requested"
      /\ requestToTrip[q] = None
      /\ requestToTrip'[q] = created + 1
      /\ \A p \in Requests \ {q} : requestToTrip'[p] = requestToTrip[p]
  BY <1>1 DEF FSM!CreateTrip, FSM!NewTrip
<1>3. ASSUME NEW p \in Requests
      PROVE  (Waits(p) => Waits(p)') /\ (Searches(p) => Searches(p)')
  <2>1. CASE p = q
    BY <1>2, <2>1 DEF Waits, Searches, TripOf, StatusOf
  <2>2. CASE p # q
    BY <1>2, <2>2, TripOfRequest DEF Waits, Searches, TripOf, StatusOf
  <2> QED
    BY <2>1, <2>2
<1> QED
  BY <1>3 DEF Calm, FSM!CreateTrip

\* A trip that is neither waiting nor searching moves, or one is cancelled.
LEMMA EnterCalm ==
  ASSUME FSMP!Inv, NEW t \in DOMAIN trips, NEW s, NEW d, FSM!Enter(t, s, d),
         s = "cancelled" \/ trips[t].status \notin {"requested", "matching", "cancelled"}
  PROVE  Calm
<1>1. /\ trips'[t].status = s
      /\ \A u \in DOMAIN trips \ {t} : trips'[u] = trips[u]
      /\ requestToTrip' = requestToTrip
  BY DEF FSM!Enter, FSMP!Inv, FSMP!TypeOK, FSMP!Trip
<1>2. ASSUME NEW p \in Requests
      PROVE  (Waits(p) => Waits(p)') /\ (Searches(p) => Searches(p)')
  BY <1>1, TripOfRequest DEF Waits, Searches, TripOf, StatusOf
<1> QED
  BY <1>2 DEF Calm

LEMMA MilestoneCalm ==
  ASSUME FSMP!Inv, NEW t,
         FSM!DriverEnRoute(t) \/ FSM!DriverArrived(t) \/ FSM!StartTrip(t)
  PROVE  Calm /\ UNCHANGED activeDriverTrips
<1>1. PICK s \in {"en_route", "arrived", "in_progress"} : FSM!Milestone(t, s)
  BY DEF FSM!DriverEnRoute, FSM!DriverArrived, FSM!StartTrip
<1>2. /\ t \in DOMAIN trips
      /\ trips[t].status \notin {"requested", "matching", "cancelled"}
  BY <1>1 DEF FSM!Milestone, FSM!Accepts, FSM!AllowedTransitions
<1> QED
  BY <1>1, <1>2, EnterCalm DEF FSM!Milestone

\* The trip that ends takes one driver at most out of the index, its own.
LEMMA FinishCalm ==
  ASSUME FSMP!Inv, NEW t
  PROVE  /\ FSM!CompleteTrip(t) \/ (\E role : FSM!CancelTrip(t, role))
            => /\ Calm
               /\ trips[t].driverId \in Drivers \cup {None}
               /\ \A d \in Drivers \ {trips[t].driverId} :
                     activeDriverTrips'[d] = activeDriverTrips[d]
         /\ \A role : FSM!CancelTrip(t, role) /\ trips[t].status \in {"requested", "matching"}
            => UNCHANGED activeDriverTrips
<1>1. ASSUME t \in DOMAIN trips, FSM!ClearActiveIndices(t)
      PROVE  /\ trips[t].driverId \in Drivers \cup {None}
             /\ \A d \in Drivers \ {trips[t].driverId} :
                   activeDriverTrips'[d] = activeDriverTrips[d]
  BY <1>1
     DEF FSM!ClearActiveIndices, FSM!DriverIndexWithout, FSMP!Inv, FSMP!TypeOK, FSMP!Trip
<1>2. ASSUME FSM!CompleteTrip(t)
      PROVE  Calm /\ t \in DOMAIN trips /\ FSM!ClearActiveIndices(t)
  <2>1. t \in DOMAIN trips /\ trips[t].status = "in_progress"
    BY <1>2
       DEF FSM!CompleteTrip, FSM!Accepts, FSM!AllowedTransitions, FSMP!Inv, FSMP!TypeOK,
           FSMP!Trip, FSMP!TripStatus, FSMP!Assigned, FSMP!Terminal
  <2> QED
    BY <1>2, <2>1, EnterCalm DEF FSM!CompleteTrip
<1>3. ASSUME NEW role, FSM!CancelTrip(t, role)
      PROVE  Calm /\ t \in DOMAIN trips /\ FSM!ClearActiveIndices(t)
  BY <1>3, EnterCalm DEF FSM!CancelTrip, FSM!Accepts
<1>4. ASSUME NEW role, FSM!CancelTrip(t, role), trips[t].status \in {"requested", "matching"}
      PROVE  UNCHANGED activeDriverTrips
  <2>1. trips[t].driverId = None
    BY <1>3, <1>4, PartsAssumptions, FSMP!TransitionContext
       DEF FSMP!AssignedTrips, FSMP!Assigned, FSMP!Terminal
  <2> QED
    BY <1>3, <1>4, <2>1 DEF FSM!ClearActiveIndices, FSM!DriverIndexWithout
<1> QED
  BY <1>1, <1>2, <1>3, <1>4

\* Nothing of the registry but commitTrip makes a driver busy.
LEMMA NotBusier ==
  ASSUME RegP!TypeOK, NEW d \in Drivers
  PROVE  /\ UNCHANGED regVars
            \/ Reg!HealState(d) \/ Reg!Complete(d) \/ Reg!SetOffline(d) \/ Reg!Evict(d)
            \/ Reg!ExpireLease(d)
            \/ (\E expired, idle \in BOOLEAN : Reg!Telemetry(d, expired, idle))
            \/ (\E q \in Requests : \/ Reg!GrantLock(d, q)
                                    \/ Reg!ReleaseLease(d, q)
                                    \/ Reg!ReleaseNoLease(d, q))
            => \A c \in Drivers : status'[c] = "busy" => status[c] = "busy"
         /\ Reg!Complete(d) => status'[d] # "busy"
<1> USE DEF RegP!TypeOK
<1>1. ASSUME NEW expired \in BOOLEAN, NEW idle \in BOOLEAN, Reg!Telemetry(d, expired, idle)
      PROVE  \A c \in Drivers : status'[c] = "busy" => status[c] = "busy"
  BY <1>1 DEF Reg!Telemetry
<1>2. ASSUME Reg!Complete(d) \/ Reg!SetOffline(d) \/ Reg!Evict(d)
      PROVE  /\ \A c \in Drivers : status'[c] = "busy" => status[c] = "busy"
             /\ status'[d] # "busy"
  BY <1>2 DEF Reg!Complete, Reg!SetAvailable, Reg!SetOffline, Reg!Evict
<1>3. ASSUME \/ UNCHANGED regVars
             \/ Reg!HealState(d)
             \/ Reg!ExpireLease(d)
             \/ \E q \in Requests : \/ Reg!GrantLock(d, q)
                                    \/ Reg!ReleaseLease(d, q)
                                    \/ Reg!ReleaseNoLease(d, q)
      PROVE  UNCHANGED status
  BY <1>3
     DEF regVars, Reg!HealState, Reg!ExpireLease, Reg!localVars, Reg!GrantLock,
         Reg!ReleaseLease, Reg!ReleaseNoLease, Reg!ReturnToPool
<1> QED
  BY <1>1, <1>2, <1>3

-----------------------------------------------------------------------------
(* Every action of the service *)

\* Calls are sent, or something else than a completeTrip is answered.
WireStep ==
    \E calls \in Seq(Call) :
        \/ Send(calls)
        \/ wire # <<>> /\ Head(wire).call # "complete" /\ Reply(calls)

\* Searching loops go on or stop, and none leaves its rollback.
LoopsGoOn ==
    \A q \in Requests : /\ loop'[q].pc \in Searching => loop[q].pc \in Searching
                        /\ At(q, "rollback") => loop'[q] = loop[q]

NoneBusier == \A d \in Drivers : status'[d] = "busy" => status[d] = "busy"

LEMMA StrandStep ==
  ASSUME SvcInv, StrandInv, Calm, WireStep, LoopsGoOn, NoneBusier,
         UNCHANGED launched, registered \subseteq registered',
         \A d \in Drivers :
            activeDriverTrips[d] # None
            => activeDriverTrips'[d] # None \/ OnWire(CompleteCall(d))'
  PROVE  StrandInv'
<1>1. NoNewSearch /\ DriversServed
  BY DEF NoNewSearch, LoopsGoOn, DriversServed, NoneBusier
<1>2. \A d \in Drivers : OnWire(CompleteCall(d)) => OnWire(CompleteCall(d))'
  <2> TAKE d \in Drivers
  <2>1. CompleteCall(d).call = "complete"
    BY DEF CompleteCall
  <2> HIDE DEF CompleteCall
  <2> QED
    BY <2>1, WireKeeps DEF WireStep, SvcInv
<1>3. StillFreed
  BY <1>2 DEF StillFreed, LoopsGoOn
<1> QED
  BY <1>1, <1>3, SearchKept, NobodyStranded DEF StrandInv

LEMMA PlainIsCall == Seq(PlainCall) \subseteq Seq(Call)
BY DEF PlainCall

LEMMA WireSteps ==
  ASSUME SvcInv
  PROVE  /\ UNCHANGED wire => WireStep
         /\ \A calls \in Seq(PlainCall) : Send(calls) => WireStep
         /\ \A q \in Requests, pc \in Pcs, calls \in Seq(PlainCall) :
               Resumes(q, pc) /\ Reply(calls) => WireStep
<1>1. <<>> \in Seq(Call) /\ (UNCHANGED wire => Send(<<>>))
  BY DEF Send, SvcInv, WireOK
<1>2. \A q \in Requests, pc \in Pcs : Resumes(q, pc) => wire # <<>> /\ Head(wire).call # "complete"
  BY DEF Resumes, Answered, LoopCall
<1> QED
  BY <1>1, <1>2, PlainIsCall DEF WireStep

LEMMA LoopsOf ==
  ASSUME NEW q \in Requests
  PROVE  /\ UNCHANGED loop => LoopsGoOn
         /\ /\ LoopMoved(q) /\ ~At(q, "rollback")
            /\ loop[q].pc \in Searching \/ loop'[q].pc \notin Searching
            => LoopsGoOn
BY DEF LoopsGoOn, LoopMoved, At

\* Trips and drivers stay as they are.
LEMMA IdleStep ==
  ASSUME SvcInv, StrandInv, UNCHANGED fsmVars, WireStep, LoopsGoOn, NoneBusier,
         UNCHANGED launched, registered \subseteq registered'
  PROVE  StrandInv'
BY NoTripCalm, StrandStep

\* cancelRide sends the completeTrip of the driver it takes the trip from.
LEMMA CancelServes ==
  ASSUME SvcInv, NEW q \in Requests, CancelTheTrip(q)
  PROVE  /\ Calm
         /\ CancelCalls(q) \in Seq(Call)
         /\ FinishCancelCalls(q) \in Seq(Call)
         /\ \A d \in Drivers :
               activeDriverTrips[d] # None /\ activeDriverTrips'[d] = None
               => /\ \E i \in DOMAIN CancelCalls(q) : CancelCalls(q)[i] = CompleteCall(d)
                  /\ \E i \in DOMAIN FinishCancelCalls(q) :
                        FinishCancelCalls(q)[i] = CompleteCall(d)
<1> DEFINE t == TripOf(q)
<1> USE DEF SvcInv
<1>1. /\ Calm
      /\ ~FSM!Accepts(t, "cancelled", "rider", None) => UNCHANGED activeDriverTrips
      /\ \A d \in Drivers \ {trips[t].driverId} :
            activeDriverTrips'[d] = activeDriverTrips[d]
  BY FinishCalm, NoTripCalm DEF CancelTheTrip
<1>2. /\ CancelCalls(q) \in Seq(Call)
      /\ ReleaseCalls(q) \in Seq(Call)
      /\ FinishCancelCalls(q) \in Seq(Call)
  BY CancelsTrip, PlainIsCall
<1>3. ASSUME NEW d \in Drivers, activeDriverTrips[d] # None, activeDriverTrips'[d] = None
      PROVE  /\ \E i \in DOMAIN CancelCalls(q) : CancelCalls(q)[i] = CompleteCall(d)
             /\ \E i \in DOMAIN FinishCancelCalls(q) :
                   FinishCancelCalls(q)[i] = CompleteCall(d)
  <2>1. FSM!Succeeds(t, "cancelled", "rider", None) /\ trips[t].driverId = d /\ d # None
    BY <1>1, <1>3, ConstantsAssumption DEF FSM!Succeeds
  <2>2. CancelCalls(q) = <<CompleteCall(d)>>
    BY <2>1 DEF CancelCalls
  <2> HIDE DEF CompleteCall
  <2>3. 1 \in DOMAIN CancelCalls(q) /\ CancelCalls(q)[1] = CompleteCall(d)
    BY <2>2
  <2>4. 1 \in DOMAIN FinishCancelCalls(q) /\ FinishCancelCalls(q)[1] = CompleteCall(d)
    BY <1>2, <2>2 DEF FinishCancelCalls
  <2> QED
    BY <2>3, <2>4
<1> QED
  BY <1>1, <1>2, <1>3

LEMMA CancelStranding ==
  ASSUME SvcInv, StrandInv, NEW q \in Requests, CancelTheTrip(q),
         NEW calls \in {CancelCalls(q), FinishCancelCalls(q)},
         \/ Send(calls)
         \/ wire # <<>> /\ Head(wire).call # "complete" /\ Reply(calls),
         LoopsGoOn, NoneBusier, UNCHANGED <<launched, registered>>
  PROVE  StrandInv'
<1>1. WireStep /\ Calm /\ calls \in Seq(Call)
  BY CancelServes DEF WireStep
<1>2. ASSUME NEW d \in Drivers, activeDriverTrips[d] # None, activeDriverTrips'[d] = None
      PROVE  OnWire(CompleteCall(d))'
  <2>1. \E i \in DOMAIN calls : calls[i] = CompleteCall(d)
    BY <1>2, CancelServes
  <2> HIDE DEF CompleteCall
  <2> QED
    BY <1>1, <2>1, WireKeeps DEF SvcInv
<1> QED
  BY <1>1, <1>2, StrandStep

LEMMA RequestStranding ==
  ASSUME SvcInv, StrandInv, NEW q \in Requests
  PROVE  /\ \A r \in Riders : RequestRide(q, r) \/ RepeatRequest(q, r) => StrandInv'
         /\ CancelRide(q) => StrandInv'
         /\ CancelOffer(q) => StrandInv'
         /\ CancelLapsedOffer(q) => StrandInv'
<1> USE DEF SvcInv
<1>1. ASSUME NEW r \in Riders, RequestRide(q, r) PROVE StrandInv'
  <2>1. Calm /\ UNCHANGED activeDriverTrips
    BY <1>1, CreateTripCalm DEF RequestRide
  <2>2. WireStep /\ LoopsGoOn /\ NoneBusier
    BY <1>1, PlainCalls, WireSteps, LoopsOf
       DEF RequestRide, regVars, svcVars, storeVars, NoneBusier
  <2> QED
    BY <1>1, <2>1, <2>2, StrandStep DEF RequestRide, svcVars, storeVars
<1>2. ASSUME NEW r \in Riders, RepeatRequest(q, r) PROVE StrandInv'
  <2>1. WireStep /\ LoopsGoOn /\ NoneBusier
    BY <1>2, PlainCalls, WireSteps, LoopsOf
       DEF RepeatRequest, regVars, svcVars, storeVars, NoneBusier
  <2> QED
    BY <1>2, <2>1, IdleStep DEF RepeatRequest, svcVars, storeVars
<1>3. ASSUME CancelRide(q) PROVE StrandInv'
  BY <1>3, LoopsOf, CancelStranding DEF CancelRide, regVars, storeVars, NoneBusier
<1>4. ASSUME CancelOffer(q) PROVE StrandInv'
  <2>1. CancelCall(q, offers[q]) \in Call
    BY <1>4 DEF CancelOffer, CancelCall, Call, LoopOK
  <2>2. <<CancelCall(q, offers[q])>> \in Seq(Call)
    BY <2>1
  <2>3. WireStep /\ LoopsGoOn /\ NoneBusier
    BY <1>4, <2>2, LoopsOf DEF CancelOffer, WireStep, regVars, NoneBusier
  <2> QED
    BY <1>4, <2>3, IdleStep DEF CancelOffer, storeVars
<1>5. ASSUME CancelLapsedOffer(q) PROVE StrandInv'
  <2>1. At(q, "offer") /\ loop[q].driver \in Drivers
    BY <1>5 DEF CancelLapsedOffer, LoopOK, At, Engaged
  <2>2. LoopMoved(q)
    BY <1>5, <2>1, LoopMoves DEF CancelLapsedOffer, FinishCancel
  <2>3. LoopsGoOn /\ NoneBusier
    BY <1>5, <2>1, <2>2, LoopsOf
       DEF CancelLapsedOffer, At, Searching, Engaged, regVars, NoneBusier
  <2> QED
    BY <1>5, <2>3, CancelStranding DEF CancelLapsedOffer, FinishCancel, storeVars
<1> QED
  BY <1>1, <1>2, <1>3, <1>4, <1>5

\* The store's answer starts the one search of a request.
LEMMA StoreReplyStranding ==
  ASSUME SvcInv, StrandInv, NEW q \in Requests, StoreReply(q)
  PROVE  StrandInv'
<1> DEFINE t == TripOf(q)
<1> USE DEF SvcInv
<1>1. WireStep /\ NoneBusier /\ registered' = registered \cup {q}
  <2>1. wire # <<>> /\ Head(wire).call = "store" /\ Reply(<<>>) /\ <<>> \in Seq(Call)
    BY DEF StoreReply, Answered, StoreCall
  <2> QED
    BY <2>1 DEF StoreReply, WireStep, regVars, NoneBusier
<1>2. CASE StatusOf(q) # "requested"
  BY <1>1, <1>2, LoopsOf, IdleStep DEF StoreReply
<1>3. CASE StatusOf(q) = "requested"
  <2>1. /\ launched[q] = 0 /\ At(q, "idle")
        /\ FSM!StartMatching(t)
        /\ loop' = [loop EXCEPT ![q] = [NoLoop EXCEPT !.pc = "top"]]
        /\ launched' = [launched EXCEPT ![q] = @ + 1]
    BY <1>3 DEF StoreReply, LaunchedOK, Dispatched
  <2>2. t \in DOMAIN trips /\ FSM!Enter(t, "matching", None)
    BY <2>1 DEF FSM!StartMatching, FSM!Accepts
  <2>3. UNCHANGED activeDriverTrips
    <3>1. trips[t].driverId = None
      BY <1>3, <2>2, PartsAssumptions, FSMP!TransitionContext
         DEF FSMP!AssignedTrips, FSMP!Assigned, FSMP!Terminal, StatusOf
    <3> QED
      BY <2>1, <3>1 DEF FSM!StartMatching, FSM!DriverIndexWithout
  <2>4. /\ trips'[t].status = "matching"
        /\ \A u \in DOMAIN trips \ {t} : trips'[u] = trips[u]
        /\ requestToTrip' = requestToTrip
    BY <2>2 DEF FSM!Enter, FSMP!Inv, FSMP!TypeOK, FSMP!Trip
  <2>5. t # None
    BY <2>2, ConstantsAssumption DEF FSMP!Inv, FSMP!TypeOK
  <2>6. /\ launched'[q] = 1
        /\ loop'[q].pc = "top"
        /\ \A p \in Requests \ {q} : launched'[p] = launched[p] /\ loop'[p] = loop[p]
    BY <2>1 DEF LaunchedOK, LoopOK, NoLoop
  <2>7. SearchOK'
    <3>1. Searches(q)'
      BY <2>4, <2>5 DEF Searches, TripOf, StatusOf
    <3>2. ASSUME NEW p \in Requests \ {q}
          PROVE  (Waits(p) => Waits(p)') /\ (Searches(p) => Searches(p)')
      BY <2>4, <2>5, TripOfRequest DEF Waits, Searches, TripOf, StatusOf
    <3> QED
      BY <1>1, <2>6, <3>1, <3>2 DEF StrandInv, SearchOK
  <2>8. DriversServed /\ StillFreed
    <3>1. \A d \in Drivers : OnWire(CompleteCall(d)) => OnWire(CompleteCall(d))'
      <4> TAKE d \in Drivers
      <4>1. CompleteCall(d).call = "complete"
        BY DEF CompleteCall
      <4> HIDE DEF CompleteCall
      <4> QED
        BY <1>1, <4>1, WireKeeps DEF WireStep
    <3> QED
      BY <1>1, <2>1, <2>3, <2>6, <3>1 DEF DriversServed, NoneBusier, StillFreed, At
  <2> QED
    BY <2>7, <2>8, NobodyStranded DEF StrandInv
<1> QED
  BY <1>2, <1>3

\* A refused request has no loop, and so no driver.
LEMMA StoreRefusalStranding ==
  ASSUME SvcInv, StrandInv, NEW q \in Requests, StoreRefusal(q)
  PROVE  StrandInv'
<1> DEFINE t == TripOf(q)
<1> USE DEF SvcInv
<1>1. WireStep /\ NoneBusier /\ LoopsGoOn /\ UNCHANGED <<launched, registered>>
  <2>1. wire # <<>> /\ Head(wire).call = "store" /\ Reply(<<>>) /\ <<>> \in Seq(Call)
    BY DEF StoreRefusal, Answered, StoreCall
  <2> QED
    BY <2>1, LoopsOf DEF StoreRefusal, WireStep, regVars, svcVars, storeVars, NoneBusier
<1>2. CASE ~FSM!Accepts(t, "cancelled", "system", None)
  BY <1>1, <1>2, IdleStep DEF StoreRefusal
<1>3. CASE FSM!Accepts(t, "cancelled", "system", None)
  <2>1. FSM!CancelTrip(t, "system") /\ q \notin registered
    BY <1>3 DEF StoreRefusal
  <2>2. Waits(q) /\ t # None
    BY <1>3, <2>1, ConstantsAssumption
       DEF StrandInv, SearchOK, FSM!Accepts, FSMP!Inv, FSMP!TypeOK
  <2>3. trips[t].status \in {"requested", "matching"}
    BY <1>3, <2>2 DEF Waits, StatusOf, FSM!Accepts, FSM!AllowedTransitions
  <2> QED
    BY <1>1, <2>1, <2>3, FinishCalm, StrandStep
<1> QED
  BY <1>2, <1>3

\* The loop that gives up has been searching, so its trip has no driver.
LEMMA LoopStranding ==
  ASSUME SvcInv, StrandInv, NEW q \in Requests, LoopStep(q)
  PROVE  StrandInv'
<1> DEFINE t == TripOf(q)
<1> USE DEF SvcInv
<1>1. NoneBusier /\ UNCHANGED <<launched, registered>> /\ ~At(q, "rollback")
  BY DEF LoopStep, LoopAborted, LoopTry, LoopGivesUp, FailureSaved, MatchSaved, At,
         storeVars, regVars, NoneBusier
<1>2. ASSUME LoopAborted(q) PROVE StrandInv'
  <2>1. LoopsGoOn /\ WireStep
    BY <1>1, <1>2, LoopMoves, LoopsOf, WireSteps DEF LoopAborted, Searching, At
  <2> QED
    BY <1>1, <1>2, <2>1, IdleStep DEF LoopAborted
<1>3. ASSUME NEW d \in Drivers, LoopTry(q, d) PROVE StrandInv'
  <2>1. LoopsGoOn
    <3>1. \A p \in Requests \ {q} : loop'[p] = loop[p]
      BY <1>3 DEF LoopTry, LoopOK
    <3> QED
      BY <1>1, <1>3, <3>1 DEF LoopTry, LoopsGoOn, Searching, At
  <2>2. WireStep
    BY <1>3, PlainCalls, WireSteps DEF LoopTry
  <2> QED
    BY <1>1, <1>3, <2>1, <2>2, IdleStep DEF LoopTry
<1>4. ASSUME LoopGivesUp(q) PROVE StrandInv'
  <2>1. LoopsGoOn /\ WireStep
    BY <1>1, <1>4, LoopMoves, LoopsOf, WireSteps
       DEF LoopGivesUp, Searching, Engaged, Pcs, At
  <2>2. CASE ~FSM!Accepts(t, "cancelled", "system", None)
    BY <1>1, <1>4, <2>1, <2>2, IdleStep DEF LoopGivesUp
  <2>3. CASE FSM!Accepts(t, "cancelled", "system", None)
    <3>1. FSM!CancelTrip(t, "system") /\ Searches(q)
      BY <1>4, <2>3 DEF LoopGivesUp, At, StrandInv, SearchOK, Searching
    <3>2. trips[t].status = "matching"
      BY <2>3, <3>1 DEF Searches, StatusOf, FSM!Accepts, FSM!AllowedTransitions
    <3> QED
      BY <1>1, <2>1, <3>1, <3>2, FinishCalm, StrandStep
  <2> QED
    BY <2>2, <2>3
<1>5. ASSUME FailureSaved(q) PROVE StrandInv'
  <2>1. LoopsGoOn /\ WireStep
    BY <1>1, <1>5, LoopMoves, LoopsOf, WireSteps DEF FailureSaved, Searching, Engaged
  <2> QED
    BY <1>1, <1>5, <2>1, IdleStep DEF FailureSaved
<1>6. ASSUME MatchSaved(q) PROVE StrandInv'
  <2>1. LoopsGoOn /\ WireStep
    BY <1>1, <1>6, LoopMoves, LoopsOf, WireSteps DEF MatchSaved, Searching, Engaged
  <2>2. Calm /\ UNCHANGED activeDriverTrips
    BY <1>6, MilestoneCalm, NoTripCalm DEF MatchSaved
  <2> QED
    BY <1>1, <2>1, <2>2, StrandStep
<1> QED
  BY <1>2, <1>3, <1>4, <1>5, <1>6 DEF LoopStep

\* The loop of q resumes from a call about its candidate and goes on searching,
\* or ends.
LEMMA ResumeStranding ==
  ASSUME SvcInv, StrandInv, NEW q \in Requests, NEW pc \in Engaged \ {"rollback"},
         Resumes(q, pc), LoopMoved(q), UNCHANGED <<fsmVars, storeVars>>, NoneBusier,
         NEW calls \in Seq(PlainCall), Reply(calls)
  PROVE  StrandInv'
<1>1. pc \in Pcs /\ pc \in Searching
  BY DEF Engaged, Pcs, Searching
<1>2. LoopsGoOn /\ WireStep
  BY <1>1, LoopsOf, WireSteps DEF Resumes, At
<1> QED
  BY <1>2, IdleStep DEF storeVars

LEMMA AcquireStranding ==
  ASSUME SvcInv, StrandInv, NEW q \in Requests
  PROVE  /\ AcquireReply(q) => StrandInv'
         /\ HolderReply(q) => StrandInv'
         /\ HealReply(q) => StrandInv'
         /\ ReacquireReply(q) => StrandInv'
<1> USE DEF SvcInv, RegP!Inv
<1>1. ASSUME NEW pc \in {"acquire", "holder", "heal", "reacquire"}, Resumes(q, pc),
             NEW next \in {"top", "offer", "holder", "heal", "reacquire"}, Goto(q, next),
             Reply(<<>>) \/ Reply(<<LoopCall(q)>>), UNCHANGED <<fsmVars, storeVars>>,
             \/ UNCHANGED regVars
             \/ Reg!HealState(loop[q].driver)
             \/ Reg!GrantLock(loop[q].driver, q)
      PROVE  StrandInv'
  <2>1. loop[q].driver \in Drivers
    BY <1>1, Position DEF Resumes, Engaged
  <2>2. LoopMoved(q) /\ NoneBusier
    BY <1>1, <2>1, LoopMoves, NotBusier DEF Pcs, NoneBusier
  <2>3. pc \in Engaged \ {"rollback"}
    BY DEF Engaged
  <2> QED
    BY <1>1, <2>2, <2>3, PlainCalls, ResumeStranding
<1>2. ASSUME AcquireReply(q) PROVE StrandInv'
  <2>1. CASE GrantAndOffer(q)
    BY <1>1, <1>2, <2>1 DEF AcquireReply, GrantAndOffer
  <2>2. CASE ~GrantAndOffer(q)
    BY <1>1, <1>2, <2>2 DEF AcquireReply
  <2> QED
    BY <2>1, <2>2
<1>3. ASSUME HolderReply(q) PROVE StrandInv'
  BY <1>1, <1>3 DEF HolderReply
<1>4. ASSUME HealReply(q) PROVE StrandInv'
  BY <1>1, <1>4 DEF HealReply
<1>5. ASSUME ReacquireReply(q) PROVE StrandInv'
  <2>1. CASE GrantAndOffer(q)
    BY <1>1, <1>5, <2>1 DEF ReacquireReply, GrantAndOffer
  <2>2. CASE ~GrantAndOffer(q)
    BY <1>1, <1>5, <2>2 DEF ReacquireReply
  <2> QED
    BY <2>1, <2>2
<1> QED
  BY <1>2, <1>3, <1>4, <1>5

LEMMA ReleaseStranding ==
  ASSUME SvcInv, StrandInv, NEW q \in Requests, NEW pc \in DOMAIN HolderPc
  PROVE  /\ ReleaseReply(q, pc) => StrandInv'
         /\ ReleaseHolderReply(q, pc) => StrandInv'
<1> USE DEF SvcInv, RegP!Inv
<1>1. /\ pc \in {"release", "exit"}
      /\ HolderPc[pc] \in {"releaseHolder", "exitHolder"}
  BY DEF HolderPc
<1>2. ASSUME ReleaseReply(q, pc) PROVE StrandInv'
  <2>1. pc \in Engaged \ {"rollback"} /\ Resumes(q, pc) /\ loop[q].driver \in Drivers
    BY <1>1, <1>2, Position DEF ReleaseReply, Resumes, Engaged
  <2>2. NoneBusier
    BY <1>2, <2>1, NotBusier DEF ReleaseReply, NoneBusier
  <2>3. LoopMoved(q)
    BY <1>1, <1>2, <2>1, LoopMoves DEF ReleaseReply, Pcs
  <2>4. UNCHANGED <<fsmVars, storeVars>> /\ (Reply(<<>>) \/ Reply(<<LoopCall(q)>>))
    BY <1>2 DEF ReleaseReply
  <2> QED
    BY <2>1, <2>2, <2>3, <2>4, PlainCalls, ResumeStranding
<1>3. ASSUME ReleaseHolderReply(q, pc) PROVE StrandInv'
  <2> DEFINE at == HolderPc[pc]
  <2>1. at \in Engaged \ {"rollback"} /\ Resumes(q, at) /\ loop[q].driver \in Drivers
    BY <1>1, <1>3, Position DEF ReleaseHolderReply, Resumes, Engaged
  <2>2. NoneBusier
    BY <1>3, <2>1, NotBusier DEF ReleaseHolderReply, NoneBusier
  <2>3. LoopMoved(q)
    BY <1>1, <1>3, LoopMoves DEF ReleaseHolderReply
  <2>4. UNCHANGED <<fsmVars, storeVars>> /\ Reply(<<>>)
    BY <1>3 DEF ReleaseHolderReply
  <2> QED
    BY <2>1, <2>2, <2>3, <2>4, PlainCalls, ResumeStranding
<1> QED
  BY <1>2, <1>3

LEMMA ResolveStranding ==
  ASSUME SvcInv, StrandInv, NEW q \in Requests, NEW outcome, ResolveOffer(q, outcome)
  PROVE  StrandInv'
<1> USE DEF SvcInv
<1>1. At(q, "offer") /\ loop[q].driver \in Drivers
  BY DEF ResolveOffer, LoopOK, At, Engaged
<1>2. LoopMoved(q)
  BY <1>1, LoopMoves DEF ResolveOffer, Pcs
<1>3. LoopsGoOn /\ NoneBusier
  BY <1>1, <1>2, LoopsOf DEF At, Searching, Engaged, ResolveOffer, regVars, NoneBusier
<1>4. WireStep
  BY PlainCalls, CancelsTrip, WireSteps DEF ResolveOffer
<1> QED
  BY <1>3, <1>4, IdleStep DEF ResolveOffer, storeVars

\* commitTrip succeeds: the driver is busy now, and has the trip.
LEMMA MatchStranding ==
  ASSUME SvcInv, StrandInv, NEW q \in Requests, Resumes(q, "commit"),
         Reg!Commit(loop[q].driver, q), FSM!SetMatched(TripOf(q), loop[q].driver),
         Goto(q, "saving"), Reply(<<>>), UNCHANGED storeVars
  PROVE  StrandInv'
<1> DEFINE d == loop[q].driver
           t == TripOf(q)
<1> USE DEF SvcInv, RegP!Inv, RegP!TypeOK
<1>1. d \in Drivers /\ launched[q] # 0
  BY Position DEF Resumes, Engaged, LaunchedOK, At
<1>2. /\ t \in DOMAIN trips /\ t # None
      /\ \A u \in DOMAIN trips \ {t} : trips'[u] = trips[u]
      /\ requestToTrip' = requestToTrip
      /\ activeDriverTrips'[d] = t
      /\ \A c \in Drivers \ {d} : activeDriverTrips'[c] = activeDriverTrips[c]
  BY <1>1, ConstantsAssumption
     DEF FSM!SetMatched, FSM!Accepts, FSM!Enter, FSMP!Inv, FSMP!TypeOK
<1>3. /\ loop'[q].pc = "saving"
      /\ \A p \in Requests \ {q} : loop'[p] = loop[p]
  BY DEF Goto, LoopOK, LoopRecord
<1>4. SearchOK'
  <2>1. ASSUME NEW p \in Requests \ {q}
        PROVE  (Waits(p) => Waits(p)') /\ (Searches(p) => Searches(p)')
    BY <1>2, TripOfRequest DEF Waits, Searches, TripOf, StatusOf
  <2> QED
    BY <1>1, <1>3, <2>1 DEF StrandInv, SearchOK, storeVars, Searching, Engaged
<1>5. NoStrandedDriver'
  <2> SUFFICES ASSUME NEW c \in Drivers \ {d}, status'[c] = "busy"
               PROVE  activeDriverTrips'[c] # None \/ BeingFreed(c)'
    BY <1>2 DEF NoStrandedDriver
  <2>1. activeDriverTrips[c] # None \/ BeingFreed(c)
    BY <1>1 DEF Reg!Commit, StrandInv, NoStrandedDriver
  <2>2. OnWire(CompleteCall(c)) => OnWire(CompleteCall(c))'
    <3>1. wire # <<>> /\ Head(wire) # CompleteCall(c) /\ <<>> \in Seq(Call)
      BY DEF Resumes, Answered, LoopCall, CompleteCall
    <3> HIDE DEF CompleteCall
    <3> QED
      BY <3>1, WireKeeps
  <2>3. ASSUME NEW p \in Requests, At(p, "rollback"), loop[p].driver = c
        PROVE  BeingFreed(c)'
    BY <1>3, <2>3 DEF BeingFreed, At
  <2> QED
    BY <1>2, <2>1, <2>2, <2>3 DEF BeingFreed, OnWire
<1> QED
  BY <1>4, <1>5 DEF StrandInv

LEMMA CommitStranding ==
  ASSUME SvcInv, StrandInv, NEW q \in Requests
  PROVE  /\ CommitReply(q) => StrandInv'
         /\ RollbackReply(q) => StrandInv'
<1> DEFINE d == loop[q].driver
<1> USE DEF SvcInv, RegP!Inv, RegP!TypeOK
<1>1. ASSUME CommitReply(q) PROVE StrandInv'
  <2>1. Resumes(q, "commit") /\ d \in Drivers /\ UNCHANGED storeVars
    BY <1>1, Position DEF CommitReply, Resumes, Engaged
  <2>2. CASE /\ Reg!Commit(d, q)
             /\ FSM!SetMatched(TripOf(q), d)
             /\ Goto(q, "saving")
             /\ Reply(<<>>)
    BY <2>1, <2>2, MatchStranding
  <2>3. CASE /\ Reg!Commit(d, q)
             /\ Goto(q, "rollback")
             /\ Reply(<<LoopCall(q)>>)
             /\ UNCHANGED fsmVars
    <3>1. /\ loop'[q].pc = "rollback" /\ loop'[q].driver = d
          /\ \A p \in Requests \ {q} : loop'[p] = loop[p]
      BY <2>3 DEF Goto, LoopOK, LoopRecord
    <3>2. Calm /\ UNCHANGED activeDriverTrips
      BY <2>3, NoTripCalm
    <3>3. SearchOK'
      BY <2>1, <3>1, <3>2, SearchKept
         DEF StrandInv, NoNewSearch, storeVars, Resumes, At, Searching, Engaged
    <3>4. ASSUME NEW c \in Drivers, status'[c] = "busy"
          PROVE  activeDriverTrips'[c] # None \/ BeingFreed(c)'
      <4>1. CASE c = d
        BY <3>1, <4>1 DEF BeingFreed, At
      <4>2. CASE c # d
        <5>1. activeDriverTrips[c] # None \/ BeingFreed(c)
          BY <2>1, <2>3, <3>4, <4>2 DEF Reg!Commit, StrandInv, NoStrandedDriver
        <5>2. OnWire(CompleteCall(c)) => OnWire(CompleteCall(c))'
          <6>1. wire # <<>> /\ Head(wire) # CompleteCall(c)
            BY <2>1 DEF Resumes, Answered, LoopCall, CompleteCall
          <6>2. <<LoopCall(q)>> \in Seq(Call)
            BY PlainCalls, PlainIsCall
          <6> HIDE DEF CompleteCall
          <6> QED
            BY <2>3, <6>1, <6>2, WireKeeps
        <5>3. ASSUME NEW p \in Requests, At(p, "rollback"), loop[p].driver = c
              PROVE  BeingFreed(c)'
          BY <2>1, <3>1, <5>3 DEF BeingFreed, Resumes, At
        <5> QED
          BY <3>2, <5>1, <5>2, <5>3 DEF BeingFreed, OnWire
      <4> QED
        BY <4>1, <4>2
    <3> QED
      BY <3>3, <3>4 DEF StrandInv, NoStrandedDriver
  <2>4. CASE /\ UNCHANGED <<fsmVars, regVars>>
             /\ CallRelease(q, "release")
             /\ Reply(ReleaseCalls(q))
    <3>1. LoopMoved(q) /\ NoneBusier /\ "commit" \in Engaged \ {"rollback"}
      BY <2>1, <2>4, LoopMoves DEF regVars, NoneBusier, Engaged
    <3> QED
      BY <2>1, <2>4, <3>1, CancelsTrip, ResumeStranding
  <2> QED
    BY <1>1, <2>2, <2>3, <2>4 DEF CommitReply
<1>2. ASSUME RollbackReply(q) PROVE StrandInv'
  <2>1. Resumes(q, "rollback") /\ d \in Drivers /\ UNCHANGED <<fsmVars, storeVars>>
    BY <1>2, Position DEF RollbackReply, Resumes, Engaged
  <2>2. NoneBusier /\ status'[d] # "busy"
    BY <1>2, <2>1, NotBusier DEF RollbackReply, NoneBusier
  <2>3. /\ \A p \in Requests \ {q} : loop'[p] = loop[p]
        /\ loop[q].pc \in Searching
    BY <1>2, <2>1 DEF RollbackReply, Goto, LoopOK, Resumes, At, Searching, Engaged
  <2>4. SearchOK'
    BY <2>1, <2>3, NoTripCalm, SearchKept DEF StrandInv, NoNewSearch, storeVars
  <2>5. WireStep
    BY <1>2, <2>1, PlainCalls, WireSteps DEF RollbackReply, Pcs
  <2>6. DriversServed /\ StillFreed
    <3>1. ASSUME NEW c \in Drivers, OnWire(CompleteCall(c)) PROVE OnWire(CompleteCall(c))'
      <4>1. CompleteCall(c).call = "complete"
        BY DEF CompleteCall
      <4> HIDE DEF CompleteCall
      <4> QED
        BY <2>5, <3>1, <4>1, WireKeeps DEF WireStep
    <3> QED
      BY <2>1, <2>2, <2>3, <3>1, NoTripCalm DEF DriversServed, StillFreed, NoneBusier
  <2> QED
    BY <2>4, <2>6, NobodyStranded DEF StrandInv
<1> QED
  BY <1>1, <1>2

LEMMA CancelReplyStranding ==
  ASSUME SvcInv, StrandInv, NEW q \in Requests, NEW d \in Drivers
  PROVE  /\ CancelReply(q, d) => StrandInv'
         /\ CancelHolderReply(q, d) => StrandInv'
<1> USE DEF SvcInv, RegP!Inv
<1>1. ASSUME wire # <<>>, IsCancel(Head(wire)), Head(wire).request = q, NoneBusier,
             FinishCancel(q), Reply(FinishCancelCalls(q)), UNCHANGED storeVars
      PROVE  StrandInv'
  <2>1. /\ At(q, "offer")
        /\ LoopMoved(q)
        /\ Head(wire).call # "complete"
    BY <1>1, CancelIsWithdrawn, LoopMoves DEF FinishCancel, Withdrawn, IsCancel
  <2>2. LoopsGoOn
    BY <2>1, LoopsOf DEF At, Searching, Engaged
  <2> QED
    BY <1>1, <2>1, <2>2, CancelStranding DEF FinishCancel, storeVars
<1>2. ASSUME CancelReply(q, d) PROVE StrandInv'
  <2>1. /\ wire # <<>> /\ IsCancel(Head(wire)) /\ Head(wire).request = q
        /\ UNCHANGED storeVars
    BY <1>2 DEF CancelReply, Answered, CancelCall, IsCancel
  <2>2. CASE lock[d] = q
    BY <1>1, <1>2, <2>1, <2>2, NotBusier DEF CancelReply, NoneBusier
  <2>3. CASE lock[d] # q
    <3>1. HolderCall(q, d) \in Call /\ Head(wire).call # "complete"
      BY <2>1 DEF HolderCall, Call, IsCancel
    <3>2. <<HolderCall(q, d)>> \in Seq(Call)
      BY <3>1
    <3>3. WireStep /\ LoopsGoOn /\ NoneBusier
      BY <1>2, <2>1, <2>3, <3>1, <3>2, LoopsOf
         DEF CancelReply, WireStep, regVars, NoneBusier
    <3> QED
      BY <1>2, <2>3, <3>3, IdleStep DEF CancelReply, storeVars
  <2> QED
    BY <2>2, <2>3
<1>3. ASSUME CancelHolderReply(q, d) PROVE StrandInv'
  <2>1. /\ wire # <<>> /\ IsCancel(Head(wire)) /\ Head(wire).request = q
        /\ UNCHANGED storeVars
    BY <1>3 DEF CancelHolderReply, Answered, HolderCall, IsCancel
  <2>2. NoneBusier
    BY <1>3, NotBusier DEF CancelHolderReply, NoneBusier
  <2> QED
    BY <1>1, <1>3, <2>1, <2>2 DEF CancelHolderReply
<1> QED
  BY <1>2, <1>3

LEMMA TripStranding ==
  ASSUME SvcInv, StrandInv, NEW t \in FSM!TripIds
  PROVE  /\ Arrived(t) => StrandInv'
         /\ Start(t) => StrandInv'
         /\ Complete(t) => StrandInv'
         /\ RepeatComplete(t) => StrandInv'
<1> USE DEF SvcInv
<1>1. ASSUME UNCHANGED <<regVars, svcVars>>
      PROVE  LoopsGoOn /\ NoneBusier /\ UNCHANGED <<launched, registered>>
  BY <1>1, LoopsOf DEF regVars, svcVars, storeVars, NoneBusier, LoopsGoOn
<1>2. ASSUME Arrived(t) \/ Start(t) PROVE StrandInv'
  <2>1. Calm /\ UNCHANGED activeDriverTrips /\ WireStep
    BY <1>2, MilestoneCalm, WireSteps DEF Arrived, Start
  <2> QED
    BY <1>1, <1>2, <2>1, StrandStep DEF Arrived, Start
<1>3. ASSUME Complete(t) PROVE StrandInv'
  <2>0. PICK d : d = trips[t].driverId
    OBVIOUS
  <2> DEFINE calls == <<CompleteCall(d)>>
  <2>1. /\ Calm /\ d \in Drivers \cup {None}
        /\ \A c \in Drivers \ {d} : activeDriverTrips'[c] = activeDriverTrips[c]
    BY <1>3, <2>0, FinishCalm DEF Complete
  <2>2. calls \in Seq(PlainCall) /\ Send(calls)
    BY <1>3, <2>0, <2>1, PlainCalls DEF Complete
  <2>3. OnWire(CompleteCall(d))'
    <3> HIDE DEF CompleteCall
    <3>1. 1 \in DOMAIN calls /\ calls[1] = CompleteCall(d)
      OBVIOUS
    <3> QED
      BY <2>2, <3>1, PlainIsCall, WireKeeps
  <2>4. WireStep
    BY <2>2, WireSteps
  <2> QED
    BY <1>1, <1>3, <2>1, <2>3, <2>4, StrandStep DEF Complete
<1>4. ASSUME RepeatComplete(t) PROVE StrandInv'
  <2>1. trips[t].driverId \in Drivers \cup {None}
    BY <1>4 DEF RepeatComplete, FSMP!Inv, FSMP!TypeOK, FSMP!Trip
  <2>2. WireStep
    BY <1>4, <2>1, PlainCalls, WireSteps DEF RepeatComplete
  <2> QED
    BY <1>1, <1>4, <2>2, IdleStep DEF RepeatComplete
<1> QED
  BY <1>2, <1>3, <1>4

LEMMA DriverStranding ==
  ASSUME SvcInv, StrandInv, NEW d \in Drivers
  PROVE  /\ CompleteReply(d) => StrandInv'
         /\ SocketClose(d) => StrandInv'
         /\ Evict(d) => StrandInv'
         /\ \A expired \in BOOLEAN : Telemetry(d, expired) => StrandInv'
         /\ ExpireLease(d) => StrandInv'
<1> USE DEF SvcInv, RegP!Inv
<1>1. ASSUME UNCHANGED <<fsmVars, svcVars, wire>>, NoneBusier PROVE StrandInv'
  <2>1. LoopsGoOn /\ WireStep
    BY <1>1, LoopsOf, WireSteps DEF svcVars, LoopsGoOn
  <2> QED
    BY <1>1, <2>1, IdleStep DEF svcVars, storeVars
<1>2. ASSUME CompleteReply(d) PROVE StrandInv'
  <2>1. NoneBusier /\ status'[d] # "busy"
    BY <1>2, NotBusier DEF CompleteReply, NoneBusier
  <2>2. UNCHANGED <<loop, launched, registered>> /\ Calm /\ UNCHANGED activeDriverTrips
    BY <1>2, NoTripCalm DEF CompleteReply, svcVars, storeVars
  <2>3. ASSUME NEW c \in Drivers \ {d}, OnWire(CompleteCall(c))
        PROVE  OnWire(CompleteCall(c))'
    <3>1. wire # <<>> /\ Head(wire) # CompleteCall(c) /\ Reply(<<>>) /\ <<>> \in Seq(Call)
      BY <1>2 DEF CompleteReply, Answered, CompleteCall
    <3> HIDE DEF CompleteCall
    <3> QED
      BY <2>3, <3>1, WireKeeps
  <2>4. DriversServed /\ StillFreed /\ NoNewSearch
    BY <2>1, <2>2, <2>3 DEF DriversServed, StillFreed, NoNewSearch, NoneBusier
  <2> QED
    BY <2>2, <2>4, SearchKept, NobodyStranded DEF StrandInv
<1>3. ASSUME SocketClose(d) PROVE StrandInv'
  BY <1>1, <1>3, NotBusier DEF SocketClose, NoneBusier
<1>4. ASSUME Evict(d) PROVE StrandInv'
  BY <1>1, <1>4, NotBusier DEF Evict, NoneBusier
<1>5. ASSUME NEW expired \in BOOLEAN, Telemetry(d, expired) PROVE StrandInv'
  <2> DEFINE idle == activeDriverTrips[d] = None
  <2>1. idle \in BOOLEAN /\ Reg!Telemetry(d, expired, idle)
    BY <1>5 DEF Telemetry
  <2>2. NoneBusier
    BY <2>1, NotBusier DEF NoneBusier
  <2> QED
    BY <1>1, <1>5, <2>2 DEF Telemetry
<1>6. ASSUME ExpireLease(d) PROVE StrandInv'
  BY <1>1, <1>6, NotBusier DEF ExpireLease, NoneBusier
<1> QED
  BY <1>2, <1>3, <1>4, <1>5, <1>6

-----------------------------------------------------------------------------
(* The theorem *)

LEMMA NextStrandInv == ASSUME SvcInv, StrandInv, [Next]_vars PROVE StrandInv'
<1>1. CASE UNCHANGED vars
  <2>1. WireStep /\ LoopsGoOn /\ NoneBusier
    BY <1>1, WireSteps, LoopsOf DEF vars, svcVars, regVars, NoneBusier, LoopsGoOn
  <2> QED
    BY <1>1, <2>1, IdleStep DEF vars, svcVars, storeVars
<1>2. CASE Clients
  <2>1. ASSUME NEW q \in Requests, Accept(q) \/ Reject(q) PROVE StrandInv'
    BY <2>1, ResolveStranding DEF Accept, Reject
  <2> QED
    BY <1>2, <2>1, RequestStranding, TripStranding, DriverStranding DEF Clients
<1>3. CASE RedisAnswers
  BY <1>3, StoreReplyStranding, StoreRefusalStranding, AcquireStranding, CommitStranding,
     ReleaseStranding, CancelReplyStranding, DriverStranding DEF RedisAnswers
<1>4. ASSUME NEW q \in Requests, LoopStep(q) \/ Timeout(q) PROVE StrandInv'
  BY <1>4, LoopStranding, ResolveStranding DEF Timeout
<1>5. ASSUME NEW d \in Drivers, Evict(d) \/ ExpireLease(d) PROVE StrandInv'
  BY <1>5, DriverStranding
<1> QED
  BY <1>1, <1>2, <1>3, <1>4, <1>5 DEF Next

\* The requests that search have no driver, and no busy driver is left without a
\* trip or a completeTrip on its way.
THEOREM StrandInvariant == Spec => []StrandInv
BY InitStrandInv, NextStrandInv, ServiceInvariant, PTL DEF Spec

\* A driver is busy in the registry only while it serves a trip or its release
\* is on the way, whatever clients, timers, Redis and connections do.
THEOREM NoStrandedDriverHolds == Spec => []NoStrandedDriver
<1>1. StrandInv => NoStrandedDriver
  BY DEF StrandInv
<1> QED
  BY <1>1, StrandInvariant, PTL

-----------------------------------------------------------------------------
(* The pools of drivers, where connections stay up, clients do not repeat  *)
(* themselves and Redis is faster than drivers.                            *)

Steady == environment \subseteq {"reject"}

\* Loop q is somewhere in acquireLock for driver d.
Asking(q, d) ==
    loop[q].driver = d /\ loop[q].pc \in {"acquire", "holder", "heal", "reacquire"}

\* Loop q gives driver d back, whose trip the state machine refused.
Rolling(q, d) == loop[q].driver = d /\ At(q, "rollback")

Occurs(w, c) == \E i \in DOMAIN w : w[i] = c
Once(w, c)   == \A i, j \in DOMAIN w : w[i] = c /\ w[j] = c => i = j

\* A driver is available, or busy for one reason exactly: a trip, a completeTrip
\* on the wire, or a rollback.  A busy driver has no lease, is busy in Redis too,
\* and no loop asks for it.
DriverPool(d) ==
    /\ status[d] \in {"available", "busy"}
    /\ token[d] = lock[d]
    /\ status[d] = "busy" => lock[d] = None /\ state[d] = "busy"
    /\ \A q \in Requests : Asking(q, d) => status[d] = "available"
    /\ status[d] = "available"
       => /\ activeDriverTrips[d] = None
          /\ ~Occurs(wire, CompleteCall(d))
          /\ \A q \in Requests : ~Rolling(q, d)
    /\ activeDriverTrips[d] # None
       => /\ ~Occurs(wire, CompleteCall(d))
          /\ \A q \in Requests : ~Rolling(q, d)
    /\ Occurs(wire, CompleteCall(d)) => \A q \in Requests : ~Rolling(q, d)
    /\ Once(wire, CompleteCall(d))
    /\ \A p, q \in Requests : Rolling(p, d) /\ Rolling(q, d) => p = q
    /\ d \in index => status[d] = "available" /\ token[d] = None

\* A loop commits under its lease, while no other loop asks for the driver; a
\* cancellation that looks for the holder of a lease has none itself; and the
\* trip of a loop that searches has no driver.
LoopPool(q) ==
    /\ At(q, "commit") => /\ lock[loop[q].driver] = q
                          /\ \A p \in Requests : ~Asking(p, loop[q].driver)
    /\ \A d \in Drivers : Occurs(wire, HolderCall(q, d)) => lock[d] # q
    /\ loop[q].pc \in Searching => trips[TripOf(q)].driverId = None

PoolsOK ==
    /\ \A d \in Drivers : DriverPool(d)
    /\ \A q \in Requests : LoopPool(q)

PoolInv == Steady => PoolsOK

LEMMA InitPools == Init => PoolsOK
BY ConstantsAssumption
   DEF Init, PoolsOK, DriverPool, LoopPool, Asking, Rolling, At, Occurs, Once, NoLoop,
       Searching, Engaged, FSM!Init

\* In a steady environment every disturbance is off.
LEMMA SteadyMeans ==
  Steady => {"drop", "resend", "slow", "lapse"} \cap environment = {}
BY DEF Steady

-----------------------------------------------------------------------------
(* Calls on the wire *)

LEMMA TailOccurs ==
  ASSUME NEW S, NEW w \in Seq(S), w # <<>>, NEW c
  PROVE  /\ Occurs(Tail(w), c) => Occurs(w, c)
         /\ Once(w, c) => Once(Tail(w), c)
         /\ Once(w, c) /\ Head(w) = c => ~Occurs(Tail(w), c)
<1> DEFINE v == Tail(w)
<1>1. /\ v \in Seq(S)
      /\ Len(w) \in Nat \ {0} /\ Len(v) = Len(w) - 1
      /\ DOMAIN w = 1..Len(w) /\ DOMAIN v = 1..Len(v)
      /\ \A i \in 1..Len(v) : v[i] = w[i + 1] /\ i + 1 \in 1..Len(w)
      /\ Head(w) = w[1] /\ 1 \in 1..Len(w)
  OBVIOUS
<1> HIDE DEF v
<1>2. Occurs(v, c) => Occurs(w, c)
  BY <1>1 DEF Occurs
<1>3. ASSUME Once(w, c), NEW i \in DOMAIN v, NEW j \in DOMAIN v, v[i] = c, v[j] = c
      PROVE  i = j
  <2>1. i + 1 = j + 1
    BY <1>1, <1>3 DEF Once
  <2> QED
    BY <1>1, <2>1
<1>4. ASSUME Once(w, c), Head(w) = c, NEW i \in DOMAIN v, v[i] = c PROVE FALSE
  <2>1. i + 1 = 1
    BY <1>1, <1>4 DEF Once
  <2> QED
    BY <1>1, <2>1
<1> QED
  BY <1>2, <1>3, <1>4 DEF Occurs, Once, v

LEMMA JoinOccurs ==
  ASSUME NEW S, NEW w \in Seq(S), NEW calls \in Seq(S), NEW c
  PROVE  /\ Occurs(w \o calls, c) => Occurs(w, c) \/ Occurs(calls, c)
         /\ Once(w, c) /\ ~Occurs(calls, c) => Once(w \o calls, c)
         /\ ~Occurs(w, c) /\ Once(calls, c) => Once(w \o calls, c)
<1> DEFINE v == w \o calls
<1>1. /\ Len(w) \in Nat /\ Len(calls) \in Nat
      /\ DOMAIN w = 1..Len(w) /\ DOMAIN calls = 1..Len(calls)
      /\ DOMAIN v = 1..(Len(w) + Len(calls))
      /\ \A i \in DOMAIN v : IF i <= Len(w) THEN v[i] = w[i] ELSE v[i] = calls[i - Len(w)]
  OBVIOUS
<1> HIDE DEF v
<1>2. \A i \in DOMAIN v : \/ i \in DOMAIN w /\ v[i] = w[i]
                          \/ i - Len(w) \in DOMAIN calls /\ v[i] = calls[i - Len(w)]
  BY <1>1
<1>3. ASSUME Occurs(v, c) PROVE Occurs(w, c) \/ Occurs(calls, c)
  BY <1>2, <1>3 DEF Occurs
<1>4. ASSUME Once(w, c), ~Occurs(calls, c) PROVE Once(v, c)
  BY <1>2, <1>4 DEF Occurs, Once
<1>5. ASSUME ~Occurs(w, c), Once(calls, c), NEW i \in DOMAIN v, NEW j \in DOMAIN v,
             v[i] = c, v[j] = c
      PROVE  i = j
  <2>1. /\ i - Len(w) \in DOMAIN calls /\ v[i] = calls[i - Len(w)]
        /\ j - Len(w) \in DOMAIN calls /\ v[j] = calls[j - Len(w)]
    BY <1>2, <1>5 DEF Occurs
  <2>2. i - Len(w) = j - Len(w)
    BY <1>5, <2>1 DEF Once
  <2> QED
    BY <1>1, <2>2
<1> QED
  BY <1>3, <1>4, <1>5 DEF Once, v

\* A step sends nothing equal to c.
NothingSent(c) ==
    /\ Occurs(wire', c) => Occurs(wire, c)
    /\ Once(wire, c) => Once(wire', c)

LEMMA WireQuiet ==
  ASSUME WireOK, NEW calls \in Seq(Call), NEW c
  PROVE  /\ UNCHANGED wire => NothingSent(c)
         /\ Send(calls) \/ (wire # <<>> /\ Reply(calls))
            => /\ ~Occurs(calls, c) => NothingSent(c)
               /\ ~Occurs(wire, c) /\ Once(calls, c) => Once(wire', c)
               /\ Occurs(wire', c) => Occurs(wire, c) \/ Occurs(calls, c)
         /\ /\ wire # <<>> /\ Reply(calls) /\ ~Occurs(calls, c)
            /\ Head(wire) = c /\ Once(wire, c)
            => ~Occurs(wire', c) /\ Once(wire', c)
<1>1. wire \in Seq(Call)
  BY DEF WireOK
<1>2. UNCHANGED wire => NothingSent(c)
  BY DEF NothingSent
<1>3. ASSUME Send(calls)
      PROVE  /\ ~Occurs(calls, c) => NothingSent(c)
             /\ ~Occurs(wire, c) /\ Once(calls, c) => Once(wire', c)
             /\ Occurs(wire', c) => Occurs(wire, c) \/ Occurs(calls, c)
  <2>1. wire' = wire \o calls
    BY <1>3 DEF Send
  <2> QED
    BY <1>1, <2>1, JoinOccurs DEF NothingSent
<1>4. ASSUME wire # <<>>, Reply(calls)
      PROVE  /\ ~Occurs(calls, c) => NothingSent(c)
             /\ ~Occurs(wire, c) /\ Once(calls, c) => Once(wire', c)
             /\ Occurs(wire', c) => Occurs(wire, c) \/ Occurs(calls, c)
             /\ ~Occurs(calls, c) /\ Head(wire) = c /\ Once(wire, c)
                => ~Occurs(wire', c) /\ Once(wire', c)
  <2> DEFINE rest == Tail(wire)
  <2>1. /\ wire' = rest \o calls
        /\ rest \in Seq(Call)
    BY <1>1, <1>4 DEF Reply
  <2>2. /\ Occurs(rest, c) => Occurs(wire, c)
        /\ Once(wire, c) => Once(rest, c)
        /\ Once(wire, c) /\ Head(wire) = c => ~Occurs(rest, c)
    BY <1>1, <1>4, TailOccurs
  <2> HIDE DEF rest
  <2> QED
    BY <2>1, <2>2, JoinOccurs DEF NothingSent
<1> QED
  BY <1>2, <1>3, <1>4

\* Which calls are which.
LEMMA CallsDiffer ==
  ASSUME NEW d, NEW q
  PROVE  /\ \A c : ~Occurs(<<>>, c)
         /\ \A x, c : Occurs(<<x>>, c) <=> x = c
         /\ \A x, c : Once(<<x>>, c)
         /\ \A p : StoreCall(p) # CompleteCall(d) /\ LoopCall(p) # CompleteCall(d)
         /\ \A p, e : CancelCall(p, e) # CompleteCall(d) /\ HolderCall(p, e) # CompleteCall(d)
         /\ \A p : StoreCall(p) # HolderCall(q, d) /\ LoopCall(p) # HolderCall(q, d)
         /\ \A p, e : CancelCall(p, e) # HolderCall(q, d)
         /\ \A e : CompleteCall(e) # HolderCall(q, d)
         /\ \A e : CompleteCall(e) = CompleteCall(d) => e = d
         /\ \A p, e : HolderCall(p, e) = HolderCall(q, d) => p = q /\ e = d
<1>1. /\ \A c : ~Occurs(<<>>, c)
      /\ \A x, c : Occurs(<<x>>, c) <=> x = c
      /\ \A x, c : Once(<<x>>, c)
  BY DEF Occurs, Once
<1> QED
  BY <1>1 DEF StoreCall, LoopCall, CancelCall, HolderCall, CompleteCall

\* A loop's calls are no completeTrip and no GET of a cancellation.
LEMMA LoopCallsQuiet ==
  ASSUME WireOK, NEW p \in Requests, NEW d, NEW q,
         NEW c \in {CompleteCall(d), HolderCall(q, d)},
         NEW calls \in {<<>>, <<LoopCall(p)>>, <<StoreCall(p)>>},
         \/ UNCHANGED wire
         \/ Send(calls)
         \/ wire # <<>> /\ Reply(calls)
  PROVE  NothingSent(c)
<1>1. calls \in Seq(Call)
  BY PlainCalls, PlainIsCall
<1>2. ~Occurs(calls, c)
  <2>1. LoopCall(p) # c /\ StoreCall(p) # c
    BY CallsDiffer
  <2> QED
    BY <2>1 DEF Occurs
<1>3. CASE UNCHANGED wire
  BY <1>3 DEF NothingSent
<1>4. CASE Send(calls) \/ (wire # <<>> /\ Reply(calls))
  BY <1>1, <1>2, <1>4, WireQuiet
<1> QED
  BY <1>3, <1>4

-----------------------------------------------------------------------------
(* What a step leaves of the pools *)

\* Registry and Redis keep a driver available, or busy.
DriverCalm(d) ==
    /\ status'[d] = status[d]
    /\ token'[d] = lock'[d]
    /\ status[d] = "busy" => lock'[d] = None /\ state'[d] = "busy"
    /\ d \in index' => status[d] = "available" /\ token'[d] = None

\* The service gives no reason to be busy, takes none, and asks for an available
\* driver only.
ServiceCalm(d) ==
    /\ activeDriverTrips'[d] = activeDriverTrips[d]
    /\ NothingSent(CompleteCall(d))
    /\ \A q \in Requests : Rolling(q, d)' => Rolling(q, d)
    /\ \A q \in Requests : Asking(q, d)' => Asking(q, d) \/ status[d] = "available"

\* Nothing changes for the loop of q that its commit, its cancellation or its
\* trip depends on.
LoopCalm(q) ==
    /\ At(q, "commit")' => /\ At(q, "commit")
                           /\ loop'[q].driver = loop[q].driver
                           /\ lock'[loop[q].driver] = lock[loop[q].driver]
                           /\ \A p \in Requests : Asking(p, loop[q].driver)'
                                                  => Asking(p, loop[q].driver)
    /\ \A d \in Drivers : Occurs(wire', HolderCall(q, d)) => lock'[d] # q
    /\ loop'[q].pc \in Searching
       => \/ loop[q].pc \in Searching
          \/ trips'[TripOf(q)'].driverId = None

\* The trip of q, if it has no driver, does not get one.
Driverless(q) ==
    TripOf(q) # None /\ trips[TripOf(q)].driverId = None
    => TripOf(q)' = TripOf(q) /\ trips'[TripOf(q)].driverId = None

DriverlessKept == \A q \in Requests : Driverless(q)

LEMMA DriverKept ==
  ASSUME NEW d \in Drivers, DriverPool(d), DriverCalm(d), ServiceCalm(d)
  PROVE  DriverPool(d)'
<1> HIDE DEF CompleteCall, Occurs, Once, Rolling, Asking
<1>1. DriverPool(d)' <=>
        /\ status'[d] \in {"available", "busy"}
        /\ token'[d] = lock'[d]
        /\ status'[d] = "busy" => lock'[d] = None /\ state'[d] = "busy"
        /\ \A q \in Requests : Asking(q, d)' => status'[d] = "available"
        /\ status'[d] = "available"
           => /\ activeDriverTrips'[d] = None
              /\ ~Occurs(wire', CompleteCall(d))
              /\ \A q \in Requests : ~Rolling(q, d)'
        /\ activeDriverTrips'[d] # None
           => /\ ~Occurs(wire', CompleteCall(d))
              /\ \A q \in Requests : ~Rolling(q, d)'
        /\ Occurs(wire', CompleteCall(d)) => \A q \in Requests : ~Rolling(q, d)'
        /\ Once(wire', CompleteCall(d))
        /\ \A p, q \in Requests : Rolling(p, d)' /\ Rolling(q, d)' => p = q
        /\ d \in index' => status'[d] = "available" /\ token'[d] = None
  BY DEF DriverPool, CompleteCall
<1> QED
  BY <1>1 DEF DriverPool, DriverCalm, ServiceCalm, NothingSent

LEMMA LoopKept ==
  ASSUME StrandInv, NEW q \in Requests, Driverless(q), LoopPool(q), LoopCalm(q)
  PROVE  LoopPool(q)'
<1>1. At(q, "commit")' => /\ lock'[loop'[q].driver] = q
                          /\ \A p \in Requests : ~Asking(p, loop[q].driver)'
  BY DEF LoopPool, LoopCalm, Asking, At
<1>2. ASSUME NEW d \in Drivers, Occurs(wire', HolderCall(q, d)) PROVE lock'[d] # q
  BY <1>2 DEF LoopPool, LoopCalm
<1>3. ASSUME loop'[q].pc \in Searching PROVE trips'[TripOf(q)'].driverId = None
  BY <1>3 DEF LoopPool, LoopCalm, Driverless, StrandInv, SearchOK, Searches
<1> QED
  BY <1>1, <1>2, <1>3 DEF LoopPool, Asking, Occurs, HolderCall, TripOf

LEMMA PoolsKept ==
  ASSUME StrandInv, PoolsOK, DriverlessKept,
         \A d \in Drivers : DriverCalm(d) /\ ServiceCalm(d),
         \A q \in Requests : LoopCalm(q)
  PROVE  PoolsOK'
<1>1. ASSUME NEW d \in Drivers PROVE DriverPool(d)'
  BY DriverKept DEF PoolsOK
<1>2. ASSUME NEW q \in Requests PROVE LoopPool(q)'
  BY LoopKept DEF PoolsOK, DriverlessKept
<1> QED
  BY <1>1, <1>2 DEF PoolsOK

\* The registry operations that keep every driver where it is.
LEMMA RegistryStill ==
  ASSUME PoolsOK, UNCHANGED regVars
  PROVE  (\A c \in Drivers : DriverCalm(c)) /\ UNCHANGED lock
BY DEF PoolsOK, DriverPool, regVars, DriverCalm

LEMMA RegistryCalm ==
  ASSUME RegP!Inv, PoolsOK, NEW d \in Drivers, NEW q \in Requests
  PROVE  /\ (Reg!HealState(d) /\ status[d] = "available")
            \/ (Reg!ReleaseNoLease(d, q) /\ lock[d] # q)
            \/ (\E idle : Reg!Telemetry(d, FALSE, idle))
            => (\A c \in Drivers : DriverCalm(c)) /\ UNCHANGED lock
         /\ Reg!ReleaseLease(d, q)
            => /\ \A c \in Drivers : DriverCalm(c)
               /\ lock[d] = q /\ lock' = [lock EXCEPT ![d] = None]
<1> USE DEF RegP!Inv, RegP!TypeOK
<1>1. \A c \in Drivers : /\ status[c] \in {"available", "busy"}
                         /\ token[c] = lock[c]
                         /\ status[c] = "busy" => lock[c] = None /\ state[c] = "busy"
                         /\ c \in index => status[c] = "available" /\ token[c] = None
  BY DEF PoolsOK, DriverPool
<1>3. ASSUME Reg!HealState(d), status[d] = "available"
      PROVE  (\A c \in Drivers : DriverCalm(c)) /\ UNCHANGED lock
  BY <1>1, <1>3 DEF Reg!HealState, Reg!localVars, DriverCalm
<1>4. ASSUME Reg!ReleaseNoLease(d, q), lock[d] # q
      PROVE  (\A c \in Drivers : DriverCalm(c)) /\ UNCHANGED lock
  BY <1>1, <1>4 DEF Reg!ReleaseNoLease, Reg!ReturnToPool, DriverCalm
<1>5. ASSUME NEW idle, Reg!Telemetry(d, FALSE, idle)
      PROVE  (\A c \in Drivers : DriverCalm(c)) /\ UNCHANGED lock
  BY <1>1, <1>5 DEF Reg!Telemetry, Reg!redisVars, DriverCalm
<1>6. ASSUME Reg!ReleaseLease(d, q)
      PROVE  /\ \A c \in Drivers : DriverCalm(c)
             /\ lock[d] = q /\ lock' = [lock EXCEPT ![d] = None]
  BY <1>1, <1>6 DEF Reg!ReleaseLease, Reg!ReturnToPool, DriverCalm
<1> QED
  BY <1>3, <1>4, <1>5, <1>6

AskPcs == {"acquire", "holder", "heal", "reacquire"}

\* A step that gives no lease and starts no commit and no rollback, and in which
\* the loop of q at most moves.
CalmStep(q) ==
    /\ \A d \in Drivers : DriverCalm(d)
    /\ \A d \in Drivers : lock'[d] # lock[d] => lock[d] = q /\ lock'[d] = None
    /\ \A p \in Requests \ {q} : loop'[p] = loop[p]
    /\ \/ loop'[q] = loop[q]
       \/ /\ loop'[q].pc \notin {"commit", "rollback"}
          /\ loop'[q].pc \in Searching
             => \/ loop[q].pc \in Searching
                \/ trips'[TripOf(q)'].driverId = None
          /\ loop'[q].pc \in AskPcs
             => \/ loop'[q].driver \in index
                \/ loop[q].pc \in AskPcs /\ loop'[q].driver = loop[q].driver

\* And in which no driver loses its trip.
SilentStep ==
    /\ UNCHANGED activeDriverTrips
    /\ \A d \in Drivers : NothingSent(CompleteCall(d))
    /\ \A q \in Requests, d \in Drivers :
          Occurs(wire', HolderCall(q, d)) => Occurs(wire, HolderCall(q, d)) \/ lock[d] # q

LEMMA CalmLoops ==
  ASSUME SvcInv, PoolsOK, NEW q \in Requests, CalmStep(q),
         (At(q, "commit") => loop'[q] # loop[q] \/ UNCHANGED lock),
         \A p \in Requests, d \in Drivers :
            Occurs(wire', HolderCall(p, d)) => Occurs(wire, HolderCall(p, d)) \/ lock[d] # p
  PROVE  /\ \A p \in Requests : LoopCalm(p)
         /\ \A p \in Requests, d \in Drivers :
               /\ Rolling(p, d)' => Rolling(p, d)
               /\ Asking(p, d)' => Asking(p, d) \/ status[d] = "available"
<1> HIDE DEF HolderCall
<1>1. \A d \in Drivers : d \in index => status[d] = "available" /\ lock[d] = None
  BY DEF PoolsOK, DriverPool
<1>2. index \subseteq Drivers /\ \A p \in Requests : p # None
  BY ConstantsAssumption DEF SvcInv, RegP!Inv, RegP!TypeOK
<1>3. ASSUME NEW p \in Requests, NEW d \in Drivers, Asking(p, d)'
      PROVE  Asking(p, d) \/ d \in index
  BY <1>3 DEF CalmStep, Asking, AskPcs
<1>4. ASSUME NEW p \in Requests, NEW d \in Drivers, Rolling(p, d)' PROVE Rolling(p, d)
  BY <1>4 DEF CalmStep, Rolling, At
<1>5. ASSUME NEW p \in Requests PROVE LoopCalm(p)
  <2>1. ASSUME At(p, "commit")'
        PROVE  /\ At(p, "commit")
               /\ loop'[p].driver = loop[p].driver
               /\ lock'[loop[p].driver] = lock[loop[p].driver]
               /\ \A r \in Requests :
                     Asking(r, loop[p].driver)' => Asking(r, loop[p].driver)
    <3>1. loop'[p] = loop[p] /\ At(p, "commit")
      BY <2>1 DEF CalmStep, At
    <3>2. PICK d \in Drivers : d = loop[p].driver
      BY <3>1, Position DEF SvcInv, Engaged
    <3>3. lock[d] = p
      BY <3>1, <3>2 DEF PoolsOK, LoopPool
    <3>4. lock'[d] = lock[d]
      BY <3>1, <3>3 DEF CalmStep
    <3>5. d \notin index
      BY <1>1, <1>2, <3>3
    <3>6. loop'[p].driver = d
      BY <3>1, <3>2
    <3> QED
      BY <1>3, <3>1, <3>2, <3>4, <3>5, <3>6 DEF Asking
  <2>2. ASSUME NEW d \in Drivers, Occurs(wire', HolderCall(p, d)) PROVE lock'[d] # p
    <3>1. lock[d] # p
      BY <2>2 DEF PoolsOK, LoopPool
    <3> QED
      BY <1>2, <3>1 DEF CalmStep
  <2>3. loop'[p].pc \in Searching
        => \/ loop[p].pc \in Searching
           \/ trips'[TripOf(p)'].driverId = None
    BY DEF CalmStep
  <2> QED
    BY <2>1, <2>2, <2>3 DEF LoopCalm
<1> QED
  BY <1>1, <1>3, <1>4, <1>5

LEMMA CalmPools ==
  ASSUME SvcInv, StrandInv, PoolsOK, DriverlessKept, SilentStep, NEW q \in Requests,
         CalmStep(q), At(q, "commit") => loop'[q] # loop[q] \/ UNCHANGED lock
  PROVE  PoolsOK'
<1>1. /\ \A p \in Requests : LoopCalm(p)
      /\ \A p \in Requests, d \in Drivers :
            /\ Rolling(p, d)' => Rolling(p, d)
            /\ Asking(p, d)' => Asking(p, d) \/ status[d] = "available"
  BY CalmLoops DEF SilentStep
<1>2. \A d \in Drivers : DriverCalm(d) /\ ServiceCalm(d)
  BY <1>1 DEF CalmStep, SilentStep, ServiceCalm
<1> QED
  BY <1>1, <1>2, PoolsKept

\* Nothing happens to registry and loops.
LEMMA OutsidePools ==
  ASSUME SvcInv, StrandInv, PoolsOK, DriverlessKept, SilentStep,
         UNCHANGED loop, UNCHANGED lock, \A d \in Drivers : DriverCalm(d)
  PROVE  PoolsOK'
<1>1. CASE Requests = {}
  <2>1. \A d \in Drivers : ServiceCalm(d)
    BY <1>1 DEF SilentStep, ServiceCalm
  <2> QED
    BY <1>1, <2>1, PoolsKept
<1>2. ASSUME NEW q \in Requests PROVE PoolsOK'
  <2>1. CalmStep(q)
    BY DEF CalmStep
  <2> QED
    BY <2>1, CalmPools
<1> QED
  BY <1>1, <1>2

-----------------------------------------------------------------------------
(* What the state machine's calls do to trips without a driver *)

LEMMA NoTripDriverless == UNCHANGED fsmVars => DriverlessKept /\ UNCHANGED activeDriverTrips
BY DEF fsmVars, DriverlessKept, Driverless, TripOf

LEMMA CreateDriverless ==
  ASSUME FSMP!Inv, NEW q \in Requests, NEW r \in Riders, FSM!CreateTrip(q, r)
  PROVE  DriverlessKept /\ UNCHANGED activeDriverTrips
<1>1. /\ created \in Nat
      /\ DOMAIN trips \subseteq 1..created
      /\ FSM!Evicted = {}
  BY NothingEvicted, ConstantsAssumption DEF FSMP!Inv, FSMP!TypeOK
<1>2. /\ \A t \in DOMAIN trips : trips'[t] = trips[t]
      /\ requestToTrip[q] = None
      /\ \A p \in Requests \ {q} : requestToTrip'[p] = requestToTrip[p]
  BY <1>1 DEF FSM!CreateTrip
<1> QED
  BY <1>2, TripOfRequest DEF DriverlessKept, Driverless, TripOf, FSM!CreateTrip

LEMMA EnterDriverless ==
  ASSUME FSMP!Inv, NEW t \in DOMAIN trips, NEW s, NEW d \in {None, trips[t].driverId},
         FSM!Enter(t, s, d)
  PROVE  DriverlessKept
<1>1. /\ trips'[t].driverId = d
      /\ \A u \in DOMAIN trips \ {t} : trips'[u] = trips[u]
      /\ requestToTrip' = requestToTrip
  BY DEF FSM!Enter, FSMP!Inv, FSMP!TypeOK, FSMP!Trip
<1> QED
  BY <1>1, TripOfRequest DEF DriverlessKept, Driverless, TripOf

LEMMA TransitionDriverless ==
  ASSUME FSMP!Inv, NEW t
  PROVE  /\ FSM!StartMatching(t) => DriverlessKept
         /\ FSM!DriverEnRoute(t) \/ FSM!DriverArrived(t) \/ FSM!StartTrip(t)
            => DriverlessKept /\ UNCHANGED activeDriverTrips
         /\ FSM!CompleteTrip(t) \/ (\E role : FSM!CancelTrip(t, role)) => DriverlessKept
<1>1. ASSUME FSM!StartMatching(t) PROVE DriverlessKept
  BY <1>1, EnterDriverless DEF FSM!StartMatching, FSM!Accepts
<1>2. ASSUME NEW s, FSM!Milestone(t, s) PROVE DriverlessKept /\ UNCHANGED activeDriverTrips
  BY <1>2, EnterDriverless DEF FSM!Milestone, FSM!Accepts
<1>3. ASSUME FSM!CompleteTrip(t) PROVE DriverlessKept
  BY <1>3, EnterDriverless DEF FSM!CompleteTrip, FSM!Accepts
<1>4. ASSUME NEW role, FSM!CancelTrip(t, role) PROVE DriverlessKept
  BY <1>4, EnterDriverless DEF FSM!CancelTrip, FSM!Accepts
<1> QED
  BY <1>1, <1>2, <1>3, <1>4 DEF FSM!DriverEnRoute, FSM!DriverArrived, FSM!StartTrip

-----------------------------------------------------------------------------
(* Every action of a steady service *)

PoolState == SvcInv /\ LeaseInv /\ StrandInv /\ Steady /\ PoolsOK

\* Plain calls of loops, and GETs for the holder of another request's lease.
LEMMA SilentCalls ==
  ASSUME WireOK, UNCHANGED activeDriverTrips, NEW p \in Requests, NEW e \in Drivers,
         NEW x \in {LoopCall(p), StoreCall(p), CancelCall(p, e), HolderCall(p, e)},
         x = HolderCall(p, e) => lock[e] # p,
         NEW calls \in {<<>>, <<x>>},
         \/ UNCHANGED wire
         \/ Send(calls)
         \/ wire # <<>> /\ Reply(calls)
  PROVE  SilentStep
<1>1. calls \in Seq(Call)
  <2>1. x \in Call
    BY DEF LoopCall, StoreCall, CancelCall, HolderCall, Call
  <2>2. <<x>> \in Seq(Call) /\ <<>> \in Seq(Call)
    BY <2>1
  <2>3. CASE calls = <<>>
    BY <2>2, <2>3
  <2>4. CASE calls = <<x>>
    BY <2>2, <2>4
  <2> QED
    BY <2>3, <2>4
<1>2. \A c : Occurs(calls, c) => x = c
  BY DEF Occurs
<1>3. ASSUME NEW d \in Drivers PROVE NothingSent(CompleteCall(d))
  <2>1. x # CompleteCall(d)
    BY DEF LoopCall, StoreCall, CancelCall, HolderCall, CompleteCall
  <2> HIDE DEF CompleteCall
  <2>2. ~Occurs(calls, CompleteCall(d))
    BY <1>2, <2>1
  <2> QED
    BY <1>1, <2>2, WireQuiet
<1>4. ASSUME NEW q \in Requests, NEW d \in Drivers, Occurs(wire', HolderCall(q, d))
      PROVE  Occurs(wire, HolderCall(q, d)) \/ lock[d] # q
  <2>1. x = HolderCall(q, d) => lock[d] # q
    BY DEF LoopCall, StoreCall, CancelCall, HolderCall
  <2> HIDE DEF HolderCall
  <2>2. UNCHANGED wire => Occurs(wire, HolderCall(q, d))
    BY <1>4
  <2>3. Send(calls) \/ (wire # <<>> /\ Reply(calls))
        => Occurs(wire, HolderCall(q, d)) \/ Occurs(calls, HolderCall(q, d))
    BY <1>1, <1>4, WireQuiet
  <2> QED
    BY <1>2, <2>1, <2>2, <2>3
<1> QED
  BY <1>3, <1>4 DEF SilentStep

\* The loop of q goes on searching or ends, and no trip changes.
LEMMA CalmMove ==
  ASSUME PoolState, UNCHANGED fsmVars, NEW q \in Requests,
         \A d \in Drivers : DriverCalm(d),
         \A d \in Drivers : lock'[d] # lock[d] => lock[d] = q /\ lock'[d] = None,
         LoopMoved(q),
         loop'[q].pc \notin {"commit", "rollback"},
         loop'[q].pc \in Searching => loop[q].pc \in Searching,
         loop'[q].pc \in AskPcs
         => \/ loop'[q].driver \in index
            \/ loop[q].pc \in AskPcs /\ loop'[q].driver = loop[q].driver,
         NEW calls \in {<<>>, <<LoopCall(q)>>},
         \/ UNCHANGED wire
         \/ Send(calls)
         \/ wire # <<>> /\ Reply(calls)
  PROVE  PoolsOK'
<1>1. DriverlessKept /\ UNCHANGED activeDriverTrips
  BY NoTripDriverless
<1>2. SilentStep
  <2>1. CASE Drivers = {}
    <3>1. \A p \in Requests, d \in Drivers : FALSE
      BY <2>1
    <3> QED
      BY <1>1, <2>1 DEF SilentStep
  <2>2. ASSUME NEW e \in Drivers PROVE SilentStep
    <3>1. LoopCall(q) # HolderCall(q, e)
      BY DEF LoopCall, HolderCall
    <3> HIDE DEF LoopCall, HolderCall
    <3> QED
      BY <1>1, <3>1, SilentCalls DEF PoolState, SvcInv
  <2> QED
    BY <2>1, <2>2
<1>3. CalmStep(q)
  BY DEF CalmStep, LoopMoved
<1>4. At(q, "commit") => loop'[q] # loop[q]
  BY DEF At
<1> QED
  BY <1>1, <1>2, <1>3, <1>4, CalmPools DEF PoolState

\* The registry is left alone.
LEMMA StillParts ==
  ASSUME PoolState, UNCHANGED regVars
  PROVE  /\ \A d \in Drivers : DriverCalm(d)
         /\ \A q \in Requests, d \in Drivers :
               lock'[d] # lock[d] => lock[d] = q /\ lock'[d] = None
         /\ UNCHANGED lock
BY RegistryStill DEF PoolState

\* The trip of a searching loop that is cancelled has no driver to lose.
LEMMA SearchingCancel ==
  ASSUME PoolState, NEW q \in Requests, NEW role, FSM!CancelTrip(TripOf(q), role),
         loop[q].pc \in Searching \/ Waits(q)
  PROVE  DriverlessKept /\ UNCHANGED activeDriverTrips
<1> DEFINE t == TripOf(q)
<1>1. DriverlessKept
  BY TransitionDriverless DEF PoolState, SvcInv
<1>2. t \in DOMAIN trips /\ t # None
  BY ConstantsAssumption
     DEF FSM!CancelTrip, FSM!Accepts, PoolState, SvcInv, FSMP!Inv, FSMP!TypeOK
<1>3. trips[t].status \in {"requested", "matching", "cancelled"}
  BY <1>2 DEF PoolState, StrandInv, SearchOK, Searches, Waits, StatusOf
<1>4. trips[t].status # "cancelled"
  BY DEF FSM!CancelTrip, FSM!Accepts, FSM!AllowedTransitions
<1> QED
  BY <1>1, <1>3, <1>4, FinishCalm DEF PoolState, SvcInv

LEMMA LoopPools ==
  ASSUME PoolState, NEW q \in Requests, LoopStep(q)
  PROVE  PoolsOK'
<1> USE DEF PoolState, SvcInv
<1>0. UNCHANGED regVars
  BY DEF LoopStep, LoopAborted, LoopTry, LoopGivesUp, FailureSaved, MatchSaved
<1>1. /\ \A d \in Drivers : DriverCalm(d)
      /\ \A d \in Drivers : lock'[d] # lock[d] => lock[d] = q /\ lock'[d] = None
      /\ UNCHANGED lock
  BY <1>0, StillParts
<1>2. ASSUME LoopAborted(q) \/ FailureSaved(q) PROVE PoolsOK'
  <2>1. LoopMoved(q) /\ loop'[q].pc = "idle"
    BY <1>2, LoopMoves DEF LoopAborted, FailureSaved
  <2> QED
    BY <1>1, <1>2, <2>1, CalmMove DEF LoopAborted, FailureSaved, Searching, Engaged, AskPcs
<1>3. ASSUME NEW d \in Drivers, LoopTry(q, d) PROVE PoolsOK'
  <2> DEFINE asks == status[d] = "available"
             to   == [pc     |-> IF asks THEN "acquire" ELSE "top",
                      driver |-> IF asks THEN d ELSE None,
                      tried  |-> loop[q].tried \cup {d}]
  <2>1. /\ loop' = [loop EXCEPT ![q] = to]
        /\ Send(IF asks THEN <<LoopCall(q)>> ELSE <<>>)
        /\ d \in index
        /\ UNCHANGED fsmVars
        /\ loop[q].pc = "top"
    BY <1>3 DEF LoopTry, LoopOK, Candidates, At
  <2>2. to \in LoopRecord /\ (to.pc \in Engaged => to.driver \in Drivers)
    BY DEF LoopOK, LoopRecord, Pcs, Engaged
  <2>3. LoopMoved(q) /\ loop'[q] = to
    BY <2>1, <2>2 DEF LoopOK, LoopMoved
  <2>4. /\ to.pc \notin {"commit", "rollback"}
        /\ to.pc \in AskPcs => to.driver = d
        /\ loop[q].pc \in Searching
    BY <2>1 DEF AskPcs, Searching
  <2>5. (IF asks THEN <<LoopCall(q)>> ELSE <<>>) \in {<<>>, <<LoopCall(q)>>}
    OBVIOUS
  <2> HIDE DEF to, asks
  <2> QED
    BY <1>1, <2>1, <2>3, <2>4, <2>5, CalmMove
<1>4. ASSUME DriverlessKept, UNCHANGED activeDriverTrips, LoopMoved(q), UNCHANGED wire,
             loop'[q].pc \in {"idle", "closing"}
      PROVE  PoolsOK'
  <2>1. SilentStep
    BY <1>4, WireQuiet DEF SilentStep, NothingSent
  <2>2. CalmStep(q)
    BY <1>1, <1>4 DEF CalmStep, LoopMoved, Searching, Engaged, AskPcs
  <2> QED
    BY <1>1, <1>4, <2>1, <2>2, CalmPools
<1>5. ASSUME LoopGivesUp(q) PROVE PoolsOK'
  <2>1. LoopMoved(q) /\ loop'[q].pc = "closing"
    BY <1>5, LoopMoves DEF LoopGivesUp, Pcs, Engaged
  <2>2. DriverlessKept /\ UNCHANGED activeDriverTrips
    BY <1>5, SearchingCancel, NoTripDriverless DEF LoopGivesUp, At, Searching
  <2> QED
    BY <1>4, <1>5, <2>1, <2>2 DEF LoopGivesUp
<1>6. ASSUME MatchSaved(q) PROVE PoolsOK'
  <2>1. LoopMoved(q) /\ loop'[q].pc = "idle"
    BY <1>6, LoopMoves DEF MatchSaved
  <2>2. DriverlessKept /\ UNCHANGED activeDriverTrips
    BY <1>6, TransitionDriverless, NoTripDriverless DEF MatchSaved
  <2> QED
    BY <1>4, <1>6, <2>1, <2>2 DEF MatchSaved
<1> QED
  BY <1>2, <1>3, <1>5, <1>6 DEF LoopStep

\* A cancellation that looks for a holder belongs to a loop at its offer.
LEMMA HolderIsWithdrawn ==
  ASSUME WireOK, NEW q \in Requests, NEW d, Occurs(wire, HolderCall(q, d))
  PROVE  q \in Withdrawn
<1>1. PICK i \in DOMAIN wire : wire[i] = HolderCall(q, d)
  BY DEF Occurs
<1>2. i \in 1..Len(wire)
  BY DEF WireOK
<1> QED
  BY <1>1, <1>2 DEF WireOK, CancelsAreFor, IsCancel, HolderCall

\* Of a step about q, its driver and its lease, the other loops notice nothing.
LEMMA OtherLoops ==
  ASSUME SvcInv, PoolsOK, NEW q \in Requests,
         \A p \in Requests \ {q} : loop'[p] = loop[p],
         \A d \in Drivers : lock'[d] # lock[d] => lock[d] \in {q, None} /\ lock'[d] \in {q, None},
         \A d \in Drivers : Asking(q, d)' => Asking(q, d) \/ d \in index,
         \A p \in Requests, d \in Drivers :
            Occurs(wire', HolderCall(p, d)) => Occurs(wire, HolderCall(p, d)) \/ lock[d] # p
  PROVE  \A p \in Requests \ {q} : LoopCalm(p)
<1> HIDE DEF HolderCall
<1> TAKE p \in Requests \ {q}
<1>1. p # None
  BY ConstantsAssumption
<1>2. ASSUME At(p, "commit")'
      PROVE  /\ At(p, "commit")
             /\ loop'[p].driver = loop[p].driver
             /\ lock'[loop[p].driver] = lock[loop[p].driver]
             /\ \A r \in Requests : Asking(r, loop[p].driver)' => Asking(r, loop[p].driver)
  <2>1. loop'[p] = loop[p] /\ At(p, "commit")
    BY <1>2 DEF At
  <2>2. PICK e \in Drivers : e = loop[p].driver
    BY <2>1, Position DEF SvcInv, Engaged
  <2>3. lock[e] = p
    BY <2>1, <2>2 DEF PoolsOK, LoopPool
  <2>4. lock'[e] = lock[e]
    BY <1>1, <2>3
  <2>5. e \notin index
    BY <1>1, <2>3 DEF PoolsOK, DriverPool
  <2>6. \A r \in Requests : Asking(r, e)' => Asking(r, e)
    BY <2>5 DEF Asking
  <2> QED
    BY <2>1, <2>2, <2>4, <2>6 DEF Asking
<1>3. ASSUME NEW d \in Drivers, Occurs(wire', HolderCall(p, d)) PROVE lock'[d] # p
  <2>1. lock[d] # p
    BY <1>3 DEF PoolsOK, LoopPool
  <2> QED
    BY <1>1, <2>1
<1>4. loop'[p].pc \in Searching => loop[p].pc \in Searching
  OBVIOUS
<1> QED
  BY <1>2, <1>3, <1>4 DEF LoopCalm

\* The lease is granted to a loop that asked for an available driver.
LEMMA GrantPools ==
  ASSUME PoolState, NEW q \in Requests, NEW pc \in AskPcs, Resumes(q, pc), GrantAndOffer(q)
  PROVE  PoolsOK'
<1> USE DEF PoolState, SvcInv, RegP!Inv, RegP!TypeOK
<1>0. PICK d \in Drivers : d = loop[q].driver
  BY Position DEF Resumes, AskPcs, Engaged
<1>1. /\ status[d] = "available" /\ lock[d] = None
      /\ \A c \in Drivers :
            /\ status[c] \in {"available", "busy"}
            /\ token[c] = lock[c]
            /\ status[c] = "busy" => lock[c] = None /\ state[c] = "busy"
            /\ c \in index => status[c] = "available" /\ token[c] = None
  BY <1>0 DEF PoolsOK, DriverPool, Asking, Resumes, At, AskPcs, GrantAndOffer,
              Reg!GrantLock, Reg!Lockable
<1>2. /\ lock' = [lock EXCEPT ![d] = q]
      /\ \A c \in Drivers : DriverCalm(c)
  BY <1>0, <1>1 DEF GrantAndOffer, Reg!GrantLock, DriverCalm
<1>3. /\ loop'[q].pc = "offer" /\ loop[q].pc = pc
      /\ \A p \in Requests \ {q} : loop'[p] = loop[p]
      /\ UNCHANGED fsmVars
  BY DEF GrantAndOffer, Goto, LoopOK, LoopRecord, Resumes, At
<1>4. DriverlessKept /\ UNCHANGED activeDriverTrips
  BY <1>3, NoTripDriverless
<1>5. \A c \in Drivers, p \in Requests :
         NothingSent(CompleteCall(c)) /\ NothingSent(HolderCall(p, c))
  <2>1. wire # <<>> /\ Reply(<<>>)
    BY DEF Resumes, Answered, GrantAndOffer
  <2> QED
    BY <2>1, LoopCallsQuiet
<1>6. \A c \in Drivers : ServiceCalm(c)
  BY <1>3, <1>4, <1>5 DEF ServiceCalm, Rolling, Asking, At
<1>7. \A p \in Requests \ {q} : LoopCalm(p)
  <2>1. \A c \in Drivers : lock'[c] # lock[c] => lock[c] = None /\ lock'[c] = q
    BY <1>1, <1>2
  <2>2. \A c \in Drivers : ~Asking(q, c)'
    BY <1>3 DEF Asking
  <2> QED
    BY <1>3, <1>5, <2>1, <2>2, OtherLoops DEF NothingSent
<1>8. LoopCalm(q)
  <2>1. \A c \in Drivers : ~Occurs(wire', HolderCall(q, c))
    BY <1>3, <1>5, HolderIsWithdrawn DEF NothingSent, Withdrawn, At, AskPcs
  <2> QED
    BY <1>3, <2>1 DEF LoopCalm, At, AskPcs, Searching, Engaged
<1> QED
  BY <1>2, <1>4, <1>6, <1>7, <1>8, PoolsKept

LEMMA AskPools ==
  ASSUME PoolState, NEW q \in Requests
  PROVE  /\ AcquireReply(q) => PoolsOK'
         /\ HolderReply(q) => PoolsOK'
         /\ HealReply(q) => PoolsOK'
         /\ ReacquireReply(q) => PoolsOK'
<1> USE DEF PoolState, SvcInv
<1>1. ASSUME NEW pc \in AskPcs, Resumes(q, pc),
             NEW next \in {"top", "holder", "heal", "reacquire"}, Goto(q, next),
             NEW calls \in {<<>>, <<LoopCall(q)>>}, Reply(calls), UNCHANGED fsmVars,
             UNCHANGED regVars \/ Reg!HealState(loop[q].driver)
      PROVE  PoolsOK'
  <2>1. loop[q].driver \in Drivers /\ loop[q].pc = pc
    BY <1>1, Position DEF Resumes, Engaged, AskPcs, At
  <2>2. status[loop[q].driver] = "available"
    BY <2>1 DEF PoolsOK, DriverPool, Asking, AskPcs
  <2>3. (\A d \in Drivers : DriverCalm(d)) /\ UNCHANGED lock
    BY <1>1, <2>1, <2>2, StillParts, RegistryCalm
  <2>4. LoopMoved(q) /\ loop'[q].pc = next /\ loop'[q].driver = loop[q].driver
    <3>1. next \in Pcs
      BY DEF Pcs
    <3>2. LoopMoved(q) /\ loop'[q].pc = next
      BY <1>1, <2>1, <3>1, LoopMoves
    <3> QED
      BY <1>1, <3>2 DEF Goto, LoopOK, LoopRecord
  <2>5. wire # <<>> /\ pc \in Searching
    BY <1>1 DEF Resumes, Answered, AskPcs, Searching, Engaged
  <2>6. next \notin {"commit", "rollback"} /\ loop[q].pc \in AskPcs
    BY <2>1
  <2> QED
    BY <1>1, <2>1, <2>3, <2>4, <2>5, <2>6, CalmMove
<1>2. ASSUME AcquireReply(q) PROVE PoolsOK'
  <2>1. CASE GrantAndOffer(q)
    BY <1>2, <2>1, GrantPools DEF AcquireReply, AskPcs
  <2>2. CASE ~GrantAndOffer(q)
    BY <1>1, <1>2, <2>2 DEF AcquireReply, AskPcs
  <2> QED
    BY <2>1, <2>2
<1>3. ASSUME HolderReply(q) PROVE PoolsOK'
  BY <1>1, <1>3 DEF HolderReply, AskPcs
<1>4. ASSUME HealReply(q) PROVE PoolsOK'
  BY <1>1, <1>4 DEF HealReply, AskPcs
<1>5. ASSUME ReacquireReply(q) PROVE PoolsOK'
  <2>1. CASE GrantAndOffer(q)
    BY <1>5, <2>1, GrantPools DEF ReacquireReply, AskPcs
  <2>2. CASE ~GrantAndOffer(q)
    BY <1>1, <1>5, <2>2 DEF ReacquireReply, AskPcs
  <2> QED
    BY <2>1, <2>2
<1> QED
  BY <1>2, <1>3, <1>4, <1>5

\* Where a call of releaseLock leaves its loop.
LEMMA ReleaseMoves ==
  ASSUME LoopOK, NEW q \in Requests, NEW pc \in {"release", "exit"}
  PROVE  /\ AfterRelease(q, pc) => LoopMoved(q) /\ loop'[q].pc \in {"top", "idle"}
         /\ CallRelease(q, pc) /\ loop[q].driver \in Drivers
            => LoopMoved(q) /\ loop'[q].pc \in {"top", "idle", "release", "exit"}
<1>1. ASSUME AfterRelease(q, pc) PROVE LoopMoved(q) /\ loop'[q].pc \in {"top", "idle"}
  <2>1. "top" \in Pcs \ Engaged
    BY DEF Pcs, Engaged
  <2> QED
    BY <1>1, <2>1, LoopMoves DEF AfterRelease
<1>2. ASSUME CallRelease(q, pc), loop[q].driver \in Drivers
      PROVE  LoopMoved(q) /\ loop'[q].pc \in {"top", "idle", "release", "exit"}
  <2>1. pc \in Pcs
    BY DEF Pcs
  <2> QED
    BY <1>1, <1>2, <2>1, LoopMoves DEF CallRelease
<1> QED
  BY <1>1, <1>2

LEMMA ReleasePools ==
  ASSUME PoolState, NEW q \in Requests, NEW pc \in DOMAIN HolderPc
  PROVE  /\ ReleaseReply(q, pc) => PoolsOK'
         /\ ReleaseHolderReply(q, pc) => PoolsOK'
<1> USE DEF PoolState, SvcInv
<1>1. /\ pc \in {"release", "exit"}
      /\ HolderPc[pc] \in {"releaseHolder", "exitHolder"}
  BY DEF HolderPc
<1>2. ASSUME NEW at \in {"release", "exit", "releaseHolder", "exitHolder"}, At(q, at),
             wire # <<>>, LoopMoved(q),
             loop'[q].pc \in {"top", "idle", "releaseHolder", "exitHolder"},
             \A d \in Drivers : DriverCalm(d),
             \A d \in Drivers : lock'[d] # lock[d] => lock[d] = q /\ lock'[d] = None,
             NEW calls \in {<<>>, <<LoopCall(q)>>}, Reply(calls), UNCHANGED fsmVars
      PROVE  PoolsOK'
  <2>1. loop[q].pc \in Searching
    BY <1>2 DEF At, Searching, Engaged
  <2>2. loop'[q].pc \notin {"commit", "rollback"} /\ loop'[q].pc \notin AskPcs
    BY <1>2 DEF AskPcs
  <2> QED
    BY <1>2, <2>1, <2>2, CalmMove
<1>3. ASSUME ReleaseReply(q, pc) PROVE PoolsOK'
  <2>1. loop[q].driver \in Drivers /\ At(q, pc) /\ wire # <<>> /\ UNCHANGED fsmVars
    BY <1>1, <1>3, Position DEF ReleaseReply, Resumes, Answered, Engaged
  <2>2. CASE lock[loop[q].driver] = q
    <3>1. /\ \A d \in Drivers : DriverCalm(d)
          /\ lock' = [lock EXCEPT ![loop[q].driver] = None]
      BY <1>3, <2>1, <2>2, RegistryCalm DEF ReleaseReply
    <3>2. LoopMoved(q) /\ loop'[q].pc \in {"top", "idle"} /\ Reply(<<>>)
      BY <1>1, <1>3, <2>2, ReleaseMoves DEF ReleaseReply
    <3>3. \A d \in Drivers : lock'[d] # lock[d] => lock[d] = q /\ lock'[d] = None
      BY <2>1, <2>2, <3>1 DEF RegP!Inv, RegP!TypeOK
    <3> QED
      BY <1>1, <1>2, <2>1, <3>1, <3>2, <3>3
  <2>3. CASE lock[loop[q].driver] # q
    <3>1. HolderPc[pc] \in Pcs
      BY <1>1 DEF Pcs
    <3>2. LoopMoved(q) /\ loop'[q].pc = HolderPc[pc] /\ Reply(<<LoopCall(q)>>)
      BY <1>3, <2>1, <2>3, <3>1, LoopMoves DEF ReleaseReply
    <3>3. UNCHANGED regVars
      BY <1>3, <2>3 DEF ReleaseReply
    <3> QED
      BY <1>1, <1>2, <2>1, <3>2, <3>3, StillParts
  <2> QED
    BY <2>2, <2>3
<1>4. ASSUME ReleaseHolderReply(q, pc) PROVE PoolsOK'
  <2>1. /\ loop[q].driver \in Drivers /\ At(q, HolderPc[pc]) /\ wire # <<>>
        /\ UNCHANGED fsmVars /\ Reply(<<>>)
    BY <1>1, <1>4, Position DEF ReleaseHolderReply, Resumes, Answered, Engaged
  <2>2. LoopMoved(q) /\ loop'[q].pc \in {"top", "idle"}
    BY <1>1, <1>4, ReleaseMoves DEF ReleaseHolderReply
  <2>3. lock[loop[q].driver] # q
    BY <1>1, <2>1, LeaseOfLoop DEF At, Holding
  <2>4. (\A d \in Drivers : DriverCalm(d)) /\ UNCHANGED lock
    BY <1>4, <2>1, <2>3, RegistryCalm, StillParts DEF ReleaseHolderReply
  <2> QED
    BY <1>1, <1>2, <2>1, <2>2, <2>4
<1> QED
  BY <1>3, <1>4

\* A loop commits to the driver it holds the lease of.
LEMMA AcceptPools ==
  ASSUME PoolState, NEW q \in Requests, Goto(q, "commit"), offers[q] # None,
         ~BeingAcquired(offers[q], q), Send(<<LoopCall(q)>>), UNCHANGED <<fsmVars, regVars>>
  PROVE  PoolsOK'
<1> USE DEF PoolState, SvcInv
<1>0. PICK d \in Drivers : d = loop[q].driver /\ d = offers[q]
  BY DEF LoopOK, LeaseInv, OfferToCandidate
<1>1. lock[d] = q
  BY <1>0 DEF LeaseInv, OfferBackedUnlessLapse, OfferBacked, Steady
<1>2. /\ loop'[q].pc = "commit" /\ loop'[q].driver = d /\ loop[q].pc = "offer"
      /\ \A p \in Requests \ {q} : loop'[p] = loop[p]
  BY <1>0 DEF Goto, LoopOK, LoopRecord, At
<1>3. (\A c \in Drivers : DriverCalm(c)) /\ UNCHANGED lock
  BY StillParts
<1>4. DriverlessKept /\ UNCHANGED activeDriverTrips
  BY NoTripDriverless
<1>5. \A c \in Drivers, p \in Requests :
         NothingSent(CompleteCall(c)) /\ NothingSent(HolderCall(p, c))
  BY LoopCallsQuiet
<1>6. ASSUME NEW c \in Drivers PROVE DriverPool(c)'
  <2>1. ServiceCalm(c)
    BY <1>2, <1>4, <1>5 DEF ServiceCalm, Rolling, Asking, At
  <2> QED
    BY <1>3, <2>1, DriverKept DEF PoolsOK
<1>7. ASSUME NEW p \in Requests \ {q} PROVE LoopPool(p)'
  <2>1. \A c \in Drivers : ~Asking(q, c)'
    BY <1>2 DEF Asking
  <2>2. LoopCalm(p)
    BY <1>2, <1>3, <1>5, <2>1, OtherLoops DEF NothingSent
  <2> QED
    BY <1>4, <2>2, LoopKept DEF PoolsOK, DriverlessKept
<1>8. LoopPool(q)'
  <2>1. \A p \in Requests : ~Asking(p, d)'
    BY <1>0, <1>2 DEF BeingAcquired, Asking
  <2>2. ASSUME NEW c \in Drivers, Occurs(wire', HolderCall(q, c)) PROVE lock'[c] # q
    BY <1>3, <1>5, <2>2 DEF PoolsOK, LoopPool, NothingSent
  <2>3. trips'[TripOf(q)'].driverId = None
    BY <1>2 DEF PoolsOK, LoopPool, Searching, Engaged, fsmVars, TripOf
  <2>4. lock'[d] = q
    BY <1>1, <1>3
  <2> HIDE DEF HolderCall
  <2>5. LoopPool(q)' <=>
          /\ At(q, "commit")' => /\ lock'[loop'[q].driver] = q
                                 /\ \A p \in Requests : ~Asking(p, loop[q].driver)'
          /\ \A c \in Drivers : Occurs(wire', HolderCall(q, c)) => lock'[c] # q
          /\ loop'[q].pc \in Searching => trips'[TripOf(q)'].driverId = None
    BY DEF LoopPool, HolderCall
  <2>6. \A p \in Requests : ~Asking(p, loop[q].driver)'
    BY <1>2, <2>1 DEF Asking
  <2> QED
    BY <1>2, <2>2, <2>3, <2>4, <2>5, <2>6
<1> QED
  BY <1>6, <1>7, <1>8 DEF PoolsOK

LEMMA ResolvePools ==
  ASSUME PoolState, NEW q \in Requests
  PROVE  /\ Accept(q) => PoolsOK'
         /\ Reject(q) => PoolsOK'
         /\ Timeout(q) => PoolsOK'
<1> USE DEF PoolState, SvcInv
<1>1. ASSUME offers[q] # None, UNCHANGED <<fsmVars, regVars>>,
             NEW pc \in {"release", "exit"}, CallRelease(q, pc), Send(ReleaseCalls(q))
      PROVE  PoolsOK'
  <2>1. loop[q].pc = "offer" /\ loop[q].driver \in Drivers
    BY <1>1 DEF LoopOK, At, Engaged
  <2>2. LoopMoved(q) /\ loop'[q].pc \in {"top", "idle", "release", "exit"}
    BY <1>1, <2>1, ReleaseMoves
  <2>3. /\ loop'[q].pc \notin {"commit", "rollback"} /\ loop'[q].pc \notin AskPcs
        /\ loop[q].pc \in Searching
    BY <2>1, <2>2 DEF AskPcs, Searching, Engaged
  <2>4. ReleaseCalls(q) \in {<<>>, <<LoopCall(q)>>}
    BY DEF ReleaseCalls
  <2> QED
    BY <1>1, <2>2, <2>3, <2>4, StillParts, CalmMove
<1>2. ASSUME NEW outcome, ResolveOffer(q, outcome),
             outcome = "accepted" => ~BeingAcquired(offers[q], q)
      PROVE  PoolsOK'
  <2>1. offers[q] # None /\ UNCHANGED <<fsmVars, regVars>>
    BY <1>2 DEF ResolveOffer
  <2>2. \/ \E pc \in {"release", "exit"} : CallRelease(q, pc) /\ Send(ReleaseCalls(q))
        \/ outcome = "accepted" /\ Goto(q, "commit") /\ Send(<<LoopCall(q)>>)
    BY <1>2 DEF ResolveOffer
  <2> QED
    BY <1>1, <1>2, <2>1, <2>2, AcceptPools
<1> QED
  BY <1>2 DEF Accept, Reject, Timeout, Steady

\* The lease is turned into a busy driver.
LEMMA Committed ==
  ASSUME PoolState, NEW q \in Requests, At(q, "commit"), NEW d \in Drivers,
         d = loop[q].driver, Reg!Commit(d, q)
  PROVE  /\ status[d] = "available" /\ lock[d] = q /\ d \notin index
         /\ \A p \in Requests : ~Asking(p, d)
         /\ status'[d] = "busy" /\ token'[d] = None /\ lock'[d] = None /\ state'[d] = "busy"
         /\ d \notin index'
         /\ lock' = [lock EXCEPT ![d] = None]
         /\ \A c \in Drivers \ {d} : DriverCalm(c)
<1> USE DEF PoolState, SvcInv, RegP!Inv, RegP!TypeOK
<1>1. lock[d] = q /\ q # None /\ \A p \in Requests : ~Asking(p, d)
  BY ConstantsAssumption DEF PoolsOK, LoopPool
<1>2. \A c \in Drivers : /\ status[c] \in {"available", "busy"}
                         /\ token[c] = lock[c]
                         /\ status[c] = "busy" => lock[c] = None /\ state[c] = "busy"
                         /\ c \in index => status[c] = "available" /\ token[c] = None
  BY DEF PoolsOK, DriverPool
<1>3. \A c \in Drivers \ {d} : DriverCalm(c)
  BY <1>2 DEF Reg!Commit, DriverCalm
<1> QED
  BY <1>1, <1>2, <1>3 DEF Reg!Commit

LEMMA CommitPools ==
  ASSUME PoolState, NEW q \in Requests, CommitReply(q)
  PROVE  PoolsOK'
<1> USE DEF PoolState, SvcInv
<1>0. PICK d \in Drivers : d = loop[q].driver
  BY Position DEF CommitReply, Resumes, Engaged
<1>1. At(q, "commit") /\ wire # <<>> /\ lock[d] = q
  BY <1>0 DEF CommitReply, Resumes, Answered, PoolsOK, LoopPool
<1>2. /\ Reg!Commit(d, q)
      /\ \/ /\ FSM!SetMatched(TripOf(q), d)
            /\ Goto(q, "saving")
            /\ Reply(<<>>)
         \/ /\ Goto(q, "rollback")
            /\ Reply(<<LoopCall(q)>>)
            /\ UNCHANGED fsmVars
  BY <1>0, <1>1 DEF CommitReply
<1>3. /\ status[d] = "available" /\ lock[d] = q /\ d \notin index
      /\ \A p \in Requests : ~Asking(p, d)
      /\ status'[d] = "busy" /\ token'[d] = None /\ lock'[d] = None /\ state'[d] = "busy"
      /\ d \notin index'
      /\ lock' = [lock EXCEPT ![d] = None]
      /\ \A c \in Drivers \ {d} : DriverCalm(c)
  BY <1>0, <1>1, <1>2, Committed
<1>4. /\ activeDriverTrips[d] = None
      /\ ~Occurs(wire, CompleteCall(d))
      /\ Once(wire, CompleteCall(d))
      /\ \A p \in Requests : ~Rolling(p, d)
  BY <1>3 DEF PoolsOK, DriverPool
<1>5. /\ \A p \in Requests \ {q} : loop'[p] = loop[p]
      /\ loop'[q].driver = d
      /\ loop'[q].pc \in {"saving", "rollback"}
  BY <1>0, <1>2 DEF Goto, LoopOK, LoopRecord
<1>6. \A c \in Drivers, p \in Requests :
         NothingSent(CompleteCall(c)) /\ NothingSent(HolderCall(p, c))
  BY <1>1, <1>2, LoopCallsQuiet
<1>7. \A p \in Requests, c \in Drivers : Asking(p, c)' => Asking(p, c)
  BY <1>5 DEF Asking
<1>8. \A p \in Requests \ {q} : LoopCalm(p)
  <2>1. \A c \in Drivers : lock'[c] # lock[c] => lock[c] = q /\ lock'[c] = None
    BY <1>3 DEF RegP!Inv, RegP!TypeOK
  <2> QED
    BY <1>5, <1>6, <1>7, <2>1, OtherLoops DEF NothingSent
<1>9. ASSUME NEW c \in Drivers, Occurs(wire', HolderCall(q, c)) PROVE lock'[c] # q
  <2>1. lock[c] # q
    BY <1>6, <1>9 DEF PoolsOK, LoopPool, NothingSent
  <2> QED
    BY <1>3, <2>1, ConstantsAssumption DEF RegP!Inv, RegP!TypeOK
<1>10. CASE FSM!SetMatched(TripOf(q), d) /\ Goto(q, "saving")
  <2> DEFINE t == TripOf(q)
  <2>1. /\ t \in DOMAIN trips
        /\ \A u \in DOMAIN trips \ {t} : trips'[u] = trips[u]
        /\ requestToTrip' = requestToTrip
        /\ activeDriverTrips' = [activeDriverTrips EXCEPT ![d] = t]
    BY <1>10 DEF FSM!SetMatched, FSM!Accepts, FSM!Enter, FSMP!Inv, FSMP!TypeOK
  <2>2. t # None
    BY <2>1, ConstantsAssumption DEF FSMP!Inv, FSMP!TypeOK
  <2>3. loop'[q].pc = "saving"
    BY <1>10 DEF Goto, LoopOK, LoopRecord
  <2>4. ASSUME NEW c \in Drivers \ {d} PROVE DriverPool(c)'
    <3>1. ServiceCalm(c)
      BY <1>5, <1>6, <1>7, <2>1, <2>3 DEF ServiceCalm, Rolling, At, FSMP!Inv, FSMP!TypeOK
    <3> QED
      BY <1>3, <3>1, DriverKept DEF PoolsOK
  <2>5. DriverPool(d)'
    <3>1. activeDriverTrips'[d] = t
      BY <2>1 DEF FSMP!Inv, FSMP!TypeOK
    <3>2. \A p \in Requests : ~Rolling(p, d)'
      BY <1>4, <1>5, <2>3 DEF Rolling, At
    <3>3. \A p \in Requests : ~Asking(p, d)'
      BY <1>3, <1>7
    <3>4. ~Occurs(wire', CompleteCall(d)) /\ Once(wire', CompleteCall(d))
      BY <1>4, <1>6 DEF NothingSent
    <3> HIDE DEF Asking, Rolling, Occurs, Once
    <3> QED
      BY <1>3, <2>2, <3>1, <3>2, <3>3, <3>4 DEF DriverPool, CompleteCall
  <2>6. ASSUME NEW p \in Requests \ {q} PROVE LoopPool(p)'
    <3>1. Driverless(p)
      BY <2>1, <2>2, TripOfRequest DEF Driverless, TripOf
    <3> QED
      BY <1>8, <3>1, LoopKept DEF PoolsOK
  <2>7. LoopPool(q)'
    BY <1>9, <2>3 DEF LoopPool, At, Searching, Engaged, Occurs, HolderCall
  <2> QED
    BY <2>4, <2>5, <2>6, <2>7 DEF PoolsOK
<1>11. CASE UNCHANGED fsmVars /\ Goto(q, "rollback")
  <2>1. loop'[q].pc = "rollback"
    BY <1>11 DEF Goto, LoopOK, LoopRecord
  <2>2. DriverlessKept /\ UNCHANGED activeDriverTrips
    BY <1>11, NoTripDriverless
  <2>3. ASSUME NEW c \in Drivers \ {d} PROVE DriverPool(c)'
    <3>1. ServiceCalm(c)
      BY <1>5, <1>6, <1>7, <2>1, <2>2 DEF ServiceCalm, Rolling, At
    <3> QED
      BY <1>3, <3>1, DriverKept DEF PoolsOK
  <2>4. DriverPool(d)'
    <3>1. activeDriverTrips'[d] = None
      BY <1>4, <2>2
    <3>2. \A p \in Requests : Rolling(p, d)' => p = q
      BY <1>4, <1>5 DEF Rolling, At
    <3>3. \A p \in Requests : ~Asking(p, d)'
      BY <1>3, <1>7
    <3>4. ~Occurs(wire', CompleteCall(d)) /\ Once(wire', CompleteCall(d))
      BY <1>4, <1>6 DEF NothingSent
    <3> HIDE DEF Asking, Rolling, Occurs, Once
    <3> QED
      BY <1>3, <3>1, <3>2, <3>3, <3>4 DEF DriverPool, CompleteCall
  <2>5. LoopCalm(q)
    BY <1>1, <1>9, <2>1 DEF LoopCalm, At, Searching, Engaged
  <2>6. \A p \in Requests : LoopPool(p)'
    BY <1>8, <2>2, <2>5, LoopKept DEF PoolsOK, DriverlessKept
  <2> QED
    BY <2>3, <2>4, <2>6 DEF PoolsOK
<1> QED
  BY <1>2, <1>10, <1>11

\* A busy driver is given back: it has no lease to lose.
LEMMA Freed ==
  ASSUME PoolState, NEW d \in Drivers, status[d] = "busy", Reg!Complete(d)
  PROVE  /\ status'[d] = "available" /\ token'[d] = None /\ lock'[d] = None
         /\ UNCHANGED lock
         /\ \A c \in Drivers \ {d} : DriverCalm(c)
<1> USE DEF PoolState, SvcInv, RegP!Inv, RegP!TypeOK
<1>1. \A c \in Drivers : /\ status[c] \in {"available", "busy"}
                         /\ token[c] = lock[c]
                         /\ status[c] = "busy" => lock[c] = None /\ state[c] = "busy"
                         /\ c \in index => status[c] = "available" /\ token[c] = None
  BY DEF PoolsOK, DriverPool
<1> QED
  BY <1>1 DEF Reg!Complete, Reg!SetAvailable, DriverCalm

LEMMA RollbackPools ==
  ASSUME PoolState, NEW q \in Requests, RollbackReply(q)
  PROVE  PoolsOK'
<1> USE DEF PoolState, SvcInv
<1>0. PICK d \in Drivers : d = loop[q].driver
  BY Position DEF RollbackReply, Resumes, Engaged
<1>1. At(q, "rollback") /\ wire # <<>> /\ Reply(<<>>) /\ Reg!Complete(d) /\ Rolling(q, d)
  BY <1>0 DEF RollbackReply, Resumes, Answered, Rolling
<1>2. /\ status[d] = "busy"
      /\ activeDriverTrips[d] = None
      /\ ~Occurs(wire, CompleteCall(d))
      /\ Once(wire, CompleteCall(d))
      /\ \A p \in Requests : Rolling(p, d) => p = q
  BY <1>1 DEF PoolsOK, DriverPool
<1>3. /\ status'[d] = "available" /\ token'[d] = None /\ lock'[d] = None
      /\ UNCHANGED lock
      /\ \A c \in Drivers \ {d} : DriverCalm(c)
  BY <1>1, <1>2, Freed
<1>4. loop'[q].pc = "top" /\ \A p \in Requests \ {q} : loop'[p] = loop[p]
  BY DEF RollbackReply, Goto, LoopOK, LoopRecord
<1>5. \A c \in Drivers, p \in Requests :
         NothingSent(CompleteCall(c)) /\ NothingSent(HolderCall(p, c))
  BY <1>1, LoopCallsQuiet
<1>6. DriverlessKept /\ UNCHANGED activeDriverTrips
  BY NoTripDriverless DEF RollbackReply
<1>7. \A p \in Requests, c \in Drivers : /\ Asking(p, c)' => Asking(p, c)
                                         /\ Rolling(p, c)' => Rolling(p, c) /\ p # q
  BY <1>4 DEF Asking, Rolling, At
<1>8. ASSUME NEW c \in Drivers \ {d} PROVE DriverPool(c)'
  <2>1. ServiceCalm(c)
    BY <1>5, <1>6, <1>7 DEF ServiceCalm
  <2> QED
    BY <1>3, <2>1, DriverKept DEF PoolsOK
<1>9. DriverPool(d)'
  <2>1. \A p \in Requests : ~Rolling(p, d)'
    BY <1>2, <1>7
  <2>2. ~Occurs(wire', CompleteCall(d)) /\ Once(wire', CompleteCall(d))
    BY <1>2, <1>5 DEF NothingSent
  <2>3. activeDriverTrips'[d] = None
    BY <1>2, <1>6
  <2> HIDE DEF Asking, Rolling, Occurs, Once
  <2> QED
    BY <1>3, <2>1, <2>2, <2>3 DEF DriverPool, CompleteCall
<1>10. \A p \in Requests : LoopCalm(p)
  <2>1. \A p \in Requests \ {q} : LoopCalm(p)
    BY <1>3, <1>4, <1>5, <1>7, OtherLoops DEF NothingSent
  <2>2. \A c \in Drivers : Occurs(wire', HolderCall(q, c)) => lock'[c] # q
    BY <1>3, <1>5 DEF PoolsOK, LoopPool, NothingSent
  <2>3. LoopCalm(q)
    BY <1>1, <1>4, <2>2 DEF LoopCalm, At, Searching, Engaged
  <2> QED
    BY <2>1, <2>3
<1> QED
  BY <1>6, <1>8, <1>9, <1>10, LoopKept DEF PoolsOK, DriverlessKept

\* Nothing happens to the loops and leases at all.
LEMMA LoopsStill ==
  ASSUME PoolState, UNCHANGED <<loop, lock>>,
         \A p \in Requests, d \in Drivers : NothingSent(HolderCall(p, d))
  PROVE  \A p \in Requests : LoopCalm(p)
<1>1. \A p \in Requests, d \in Drivers : Occurs(wire', HolderCall(p, d)) => lock'[d] # p
  BY DEF PoolState, PoolsOK, LoopPool, NothingSent
<1> QED
  BY <1>1 DEF LoopCalm, Asking, At

\* A trip that ends gives its driver to the completeTrip it sends.
LEMMA FinishPools ==
  ASSUME PoolState, NEW t,
         FSM!CompleteTrip(t) \/ (\E role : FSM!CancelTrip(t, role)),
         NEW d, d = trips[t].driverId, d # None, Send(<<CompleteCall(d)>>),
         UNCHANGED <<regVars, loop>>
  PROVE  PoolsOK'
<1> USE DEF PoolState, SvcInv
<1>1. /\ t \in DOMAIN trips
      /\ trips[t].status \notin {"completed", "cancelled"}
      /\ FSM!ClearActiveIndices(t)
  BY DEF FSM!CompleteTrip, FSM!CancelTrip, FSM!Accepts, FSM!AllowedTransitions
<1>2. d \in Drivers /\ activeDriverTrips[d] = t /\ t # None
  <2>1. d \in Drivers
    BY <1>1 DEF FSMP!Inv, FSMP!TypeOK, FSMP!Trip
  <2>2. t \in FSMP!ActiveTrips
    BY <1>1 DEF FSMP!ActiveTrips, FSMP!Terminal
  <2>3. t \in FSMP!AssignedTrips
    BY <2>2 DEF FSMP!Inv, FSMP!IndicesExact, FSMP!DriverIffAssigned
  <2>4. t \in FSMP!TripIds /\ t # None
    BY <1>1, ConstantsAssumption DEF FSMP!Inv, FSMP!TypeOK, FSMP!TripIds
  <2> QED
    BY <2>1, <2>3, <2>4 DEF FSMP!Inv, FSMP!IndicesExact, FSMP!DriverIndexExact
<1>3. activeDriverTrips' = [activeDriverTrips EXCEPT ![d] = None]
  BY <1>1 DEF FSM!ClearActiveIndices, FSM!DriverIndexWithout
<1>4. DriverlessKept
  BY TransitionDriverless
<1>5. (\A c \in Drivers : DriverCalm(c)) /\ UNCHANGED lock
  BY StillParts
<1>6. <<CompleteCall(d)>> \in Seq(Call)
  BY <1>2, PlainCalls, PlainIsCall
<1>7. ASSUME NEW p \in Requests, NEW c \in Drivers PROVE NothingSent(HolderCall(p, c))
  <2>1. ~Occurs(<<CompleteCall(d)>>, HolderCall(p, c))
    BY CallsDiffer
  <2> HIDE DEF CompleteCall, HolderCall
  <2> QED
    BY <1>6, <2>1, WireQuiet
<1>8. ASSUME NEW c \in Drivers \ {d} PROVE DriverPool(c)'
  <2>1. NothingSent(CompleteCall(c))
    <3>1. ~Occurs(<<CompleteCall(d)>>, CompleteCall(c))
      BY DEF Occurs, CompleteCall
    <3> HIDE DEF CompleteCall
    <3> QED
      BY <1>6, <3>1, WireQuiet
  <2>2. ServiceCalm(c)
    BY <1>3, <2>1 DEF ServiceCalm, Rolling, Asking, At, FSMP!Inv, FSMP!TypeOK
  <2> QED
    BY <1>5, <2>2, DriverKept DEF PoolsOK
<1>9. DriverPool(d)'
  <2>1. /\ status[d] = "busy"
        /\ ~Occurs(wire, CompleteCall(d))
        /\ \A q \in Requests : ~Rolling(q, d)
        /\ \A q \in Requests : ~Asking(q, d)
        /\ DriverPool(d)
    BY <1>2 DEF PoolsOK, DriverPool
  <2>2. Once(wire', CompleteCall(d))
    <3>1. Once(<<CompleteCall(d)>>, CompleteCall(d))
      BY CallsDiffer
    <3> HIDE DEF CompleteCall
    <3> QED
      BY <1>6, <2>1, <3>1, WireQuiet
  <2>3. activeDriverTrips'[d] = None
    BY <1>2, <1>3 DEF FSMP!Inv, FSMP!TypeOK
  <2>4. \A q \in Requests : ~Rolling(q, d)' /\ ~Asking(q, d)'
    BY <2>1 DEF Rolling, Asking, At
  <2> HIDE DEF Asking, Rolling, Occurs, Once
  <2> QED
    BY <1>2, <1>5, <2>1, <2>2, <2>3, <2>4 DEF DriverPool, DriverCalm, CompleteCall
<1>10. \A p \in Requests : LoopPool(p)'
  <2>1. \A p \in Requests : LoopCalm(p)
    BY <1>5, <1>7, LoopsStill
  <2> QED
    BY <1>4, <2>1, LoopKept DEF PoolsOK, DriverlessKept
<1> QED
  BY <1>8, <1>9, <1>10 DEF PoolsOK

\* A step that says no more to Redis than a call that frees nobody.
LEMMA OutsideStepPools ==
  ASSUME PoolState, DriverlessKept, SilentStep, UNCHANGED <<loop, regVars>>
  PROVE  PoolsOK'
BY StillParts, OutsidePools DEF PoolState

\* Wire steps without any completeTrip or GET, whatever the drivers.
LEMMA SilentWire ==
  ASSUME PoolState, UNCHANGED activeDriverTrips, NEW p \in Requests,
         NEW calls \in {<<>>, <<LoopCall(p)>>, <<StoreCall(p)>>},
         \/ UNCHANGED wire
         \/ Send(calls)
         \/ wire # <<>> /\ Reply(calls)
  PROVE  SilentStep
<1>1. \A d \in Drivers, q \in Requests :
         NothingSent(CompleteCall(d)) /\ NothingSent(HolderCall(q, d))
  BY LoopCallsQuiet DEF PoolState, SvcInv
<1> QED
  BY <1>1 DEF SilentStep, NothingSent

LEMMA RequestPools ==
  ASSUME PoolState, NEW q \in Requests
  PROVE  /\ \A r \in Riders : RequestRide(q, r) => PoolsOK'
         /\ StoreReply(q) => PoolsOK'
         /\ StoreRefusal(q) => PoolsOK'
<1> DEFINE t == TripOf(q)
<1> USE DEF PoolState, SvcInv
<1>1. ASSUME NEW r \in Riders, RequestRide(q, r) PROVE PoolsOK'
  <2>1. DriverlessKept /\ UNCHANGED activeDriverTrips
    BY <1>1, CreateDriverless DEF RequestRide
  <2>2. SilentStep
    BY <1>1, <2>1, SilentWire DEF RequestRide
  <2> QED
    BY <1>1, <2>1, <2>2, OutsideStepPools DEF RequestRide, svcVars
<1>2. ASSUME StoreReply(q) PROVE PoolsOK'
  <2>1. wire # <<>> /\ Reply(<<>>) /\ UNCHANGED regVars
    BY <1>2 DEF StoreReply, Answered
  <2>2. CASE StatusOf(q) = "requested"
    <3>1. FSM!StartMatching(t) /\ loop' = [loop EXCEPT ![q] = [NoLoop EXCEPT !.pc = "top"]]
      BY <1>2, <2>2 DEF StoreReply
    <3>2. /\ t \in DOMAIN trips /\ FSM!Enter(t, "matching", None)
          /\ activeDriverTrips' = FSM!DriverIndexWithout(t)
      BY <3>1 DEF FSM!StartMatching, FSM!Accepts
    <3>3. trips[t].driverId = None
      BY <2>2, <3>2, PartsAssumptions, FSMP!TransitionContext
         DEF FSMP!AssignedTrips, FSMP!Assigned, FSMP!Terminal, StatusOf
    <3>4. UNCHANGED activeDriverTrips /\ DriverlessKept
      BY <3>1, <3>2, <3>3, TransitionDriverless DEF FSM!DriverIndexWithout
    <3>5. trips'[t].driverId = None /\ requestToTrip' = requestToTrip
      BY <3>2 DEF FSM!Enter, FSMP!Inv, FSMP!TypeOK, FSMP!Trip
    <3>6. loop'[q].pc = "top" /\ \A p \in Requests \ {q} : loop'[p] = loop[p]
      BY <3>1 DEF LoopOK, NoLoop
    <3>7. launched[q] = 0 /\ At(q, "idle")
      BY <2>2, <3>2 DEF LaunchedOK, Dispatched
    <3>8. CalmStep(q)
      <4>1. trips'[TripOf(q)'].driverId = None
        BY <3>5 DEF TripOf
      <4> QED
        BY <2>1, <3>6, <4>1, StillParts DEF CalmStep, AskPcs
    <3>9. SilentStep
      BY <2>1, <3>4, SilentWire
    <3> QED
      BY <3>4, <3>7, <3>8, <3>9, CalmPools DEF At
  <2>3. CASE StatusOf(q) # "requested"
    <3>1. UNCHANGED <<fsmVars, loop>>
      BY <1>2, <2>3 DEF StoreReply
    <3>2. DriverlessKept /\ UNCHANGED activeDriverTrips
      BY <3>1, NoTripDriverless
    <3>3. SilentStep
      BY <2>1, <3>2, SilentWire
    <3> QED
      BY <2>1, <3>1, <3>2, <3>3, OutsideStepPools
  <2> QED
    BY <2>2, <2>3
<1>3. ASSUME StoreRefusal(q) PROVE PoolsOK'
  <2>1. /\ wire # <<>> /\ Reply(<<>>) /\ UNCHANGED <<regVars, loop>>
        /\ q \notin registered
    BY <1>3 DEF StoreRefusal, Answered, svcVars
  <2>2. Waits(q)
    BY <2>1 DEF StrandInv, SearchOK
  <2>3. DriverlessKept /\ UNCHANGED activeDriverTrips
    BY <1>3, <2>2, SearchingCancel, NoTripDriverless DEF StoreRefusal
  <2>4. SilentStep
    BY <2>1, <2>3, SilentWire
  <2> QED
    BY <2>1, <2>3, <2>4, OutsideStepPools
<1> QED
  BY <1>1, <1>2, <1>3

LEMMA CancelPools ==
  ASSUME PoolState, NEW q \in Requests
  PROVE  /\ CancelRide(q) => PoolsOK'
         /\ CancelOffer(q) => PoolsOK'
<1> DEFINE t == TripOf(q)
<1> USE DEF PoolState, SvcInv
<1>1. ASSUME CancelRide(q) PROVE PoolsOK'
  <2>0. PICK d : d = trips[t].driverId
    OBVIOUS
  <2>1. UNCHANGED <<regVars, loop>> /\ CancelTheTrip(q) /\ Send(CancelCalls(q))
    BY <1>1 DEF CancelRide
  <2>2. t \in DOMAIN trips
    BY <1>1, TripOfRequest DEF CancelRide
  <2>3. trips[t].status # "cancelled"
    BY <1>1 DEF CancelRide, StatusOf, Steady
  <2>4. CASE FSM!Accepts(t, "cancelled", "rider", None) /\ d # None
    <3>1. CancelCalls(q) = <<CompleteCall(d)>>
      BY <2>0, <2>4 DEF CancelCalls, FSM!Succeeds
    <3>2. Send(<<CompleteCall(d)>>)
      BY <2>1, <3>1
    <3> QED
      BY <2>0, <2>1, <2>4, <3>2, FinishPools DEF CancelTheTrip
  <2>5. CASE ~(FSM!Accepts(t, "cancelled", "rider", None) /\ d # None)
    <3>1. CancelCalls(q) = <<>>
      BY <2>0, <2>3, <2>5 DEF CancelCalls, FSM!Succeeds
    <3>2. DriverlessKept /\ UNCHANGED activeDriverTrips
      <4>1. CASE FSM!Accepts(t, "cancelled", "rider", None)
        <5>1. FSM!CancelTrip(t, "rider") /\ trips[t].driverId = None
          BY <2>0, <2>1, <2>5, <4>1 DEF CancelTheTrip
        <5> QED
          BY <5>1, TransitionDriverless
             DEF FSM!CancelTrip, FSM!ClearActiveIndices, FSM!DriverIndexWithout
      <4>2. CASE ~FSM!Accepts(t, "cancelled", "rider", None)
        BY <2>1, <4>2, NoTripDriverless DEF CancelTheTrip
      <4> QED
        BY <4>1, <4>2
    <3>3. Send(<<>>)
      BY <2>1, <3>1
    <3>4. SilentStep
      BY <3>2, <3>3, SilentWire
    <3> QED
      BY <2>1, <3>2, <3>4, OutsideStepPools
  <2> QED
    BY <2>4, <2>5
<1>2. ASSUME CancelOffer(q) PROVE PoolsOK'
  <2>0. PICK d \in Drivers : d = offers[q]
    BY <1>2 DEF CancelOffer, LoopOK
  <2>1. UNCHANGED <<regVars, loop, fsmVars>> /\ Send(<<CancelCall(q, d)>>)
    BY <1>2, <2>0 DEF CancelOffer
  <2>2. DriverlessKept /\ UNCHANGED activeDriverTrips
    BY <2>1, NoTripDriverless
  <2>3. CancelCall(q, d) # HolderCall(q, d)
    BY DEF CancelCall, HolderCall
  <2>4. SilentStep
    <3> HIDE DEF CancelCall, HolderCall
    <3> QED
      BY <2>1, <2>2, <2>3, SilentCalls
  <2> QED
    BY <2>1, <2>2, <2>4, OutsideStepPools
<1> QED
  BY <1>1, <1>2

\* The loop of a withdrawn offer is told, and its trip, without a driver, ends.
LEMMA FinishCancelPools ==
  ASSUME PoolState, NEW q \in Requests, q \in Withdrawn, wire # <<>>,
         \A d \in Drivers : DriverCalm(d),
         \A d \in Drivers : lock'[d] # lock[d] => lock[d] = q /\ lock'[d] = None,
         FinishCancel(q), Reply(FinishCancelCalls(q))
  PROVE  PoolsOK'
<1> DEFINE t == TripOf(q)
<1> USE DEF PoolState, SvcInv
<1>1. loop[q].pc = "offer" /\ loop[q].driver \in Drivers /\ loop[q].pc \in Searching
  BY Position DEF Withdrawn, At, Engaged, Searching
<1>2. LoopMoved(q) /\ loop'[q].pc \in {"top", "idle", "release", "exit"}
  BY <1>1, ReleaseMoves DEF FinishCancel
<1>3. DriverlessKept /\ UNCHANGED activeDriverTrips
  BY <1>1, SearchingCancel, NoTripDriverless DEF FinishCancel, CancelTheTrip
<1>4. trips[t].driverId = None
  BY <1>1 DEF PoolsOK, LoopPool
<1>5. FinishCancelCalls(q) \in {<<>>, <<LoopCall(q)>>}
  <2>1. CancelCalls(q) = <<>>
    BY <1>4 DEF CancelCalls
  <2>2. ReleaseCalls(q) = <<>> \/ ReleaseCalls(q) = <<LoopCall(q)>>
    BY DEF ReleaseCalls
  <2> HIDE DEF LoopCall
  <2> QED
    BY <2>1, <2>2 DEF FinishCancelCalls
<1>6. SilentStep
  BY <1>3, <1>5, SilentWire
<1>7. CalmStep(q)
  BY <1>1, <1>2 DEF CalmStep, LoopMoved, AskPcs
<1> QED
  BY <1>1, <1>3, <1>6, <1>7, CalmPools DEF At

LEMMA CancelReplyPools ==
  ASSUME PoolState, NEW q \in Requests, NEW d \in Drivers
  PROVE  /\ CancelReply(q, d) => PoolsOK'
         /\ CancelHolderReply(q, d) => PoolsOK'
<1> USE DEF PoolState, SvcInv
<1>1. ASSUME CancelReply(q, d) PROVE PoolsOK'
  <2>1. wire # <<>> /\ IsCancel(Head(wire)) /\ Head(wire).request = q
    BY <1>1 DEF CancelReply, Answered, CancelCall, IsCancel
  <2>2. CASE lock[d] = q
    <3>1. /\ \A c \in Drivers : DriverCalm(c)
          /\ lock' = [lock EXCEPT ![d] = None]
      BY <1>1, <2>2, RegistryCalm DEF CancelReply
    <3>2. \A c \in Drivers : lock'[c] # lock[c] => lock[c] = q /\ lock'[c] = None
      BY <2>2, <3>1 DEF RegP!Inv, RegP!TypeOK
    <3> QED
      BY <1>1, <2>1, <2>2, <3>1, <3>2, CancelIsWithdrawn, FinishCancelPools DEF CancelReply
  <2>3. CASE lock[d] # q
    <3>1. UNCHANGED <<fsmVars, regVars, loop>> /\ Reply(<<HolderCall(q, d)>>)
      BY <1>1, <2>3 DEF CancelReply
    <3>2. DriverlessKept /\ UNCHANGED activeDriverTrips
      BY <3>1, NoTripDriverless
    <3>3. SilentStep
      <4> HIDE DEF HolderCall
      <4> QED
        BY <2>1, <2>3, <3>1, <3>2, SilentCalls
    <3> QED
      BY <3>1, <3>2, <3>3, OutsideStepPools
  <2> QED
    BY <2>2, <2>3
<1>2. ASSUME CancelHolderReply(q, d) PROVE PoolsOK'
  <2>1. wire # <<>> /\ IsCancel(Head(wire)) /\ Head(wire).request = q
    BY <1>2 DEF CancelHolderReply, Answered, HolderCall, IsCancel
  <2>2. lock[d] # q
    <3>1. 1 \in DOMAIN wire /\ wire[1] = HolderCall(q, d)
      <4>1. wire \in Seq(Call) /\ wire # <<>> /\ Head(wire) = HolderCall(q, d)
        BY <1>2 DEF CancelHolderReply, Answered, WireOK
      <4> HIDE DEF HolderCall
      <4> QED
        BY <4>1
    <3>2. Occurs(wire, HolderCall(q, d))
      BY <3>1 DEF Occurs
    <3> QED
      BY <3>2 DEF PoolsOK, LoopPool
  <2>3. (\A c \in Drivers : DriverCalm(c)) /\ UNCHANGED lock
    BY <1>2, <2>2, RegistryCalm, StillParts DEF CancelHolderReply
  <2> QED
    BY <1>2, <2>1, <2>3, CancelIsWithdrawn, FinishCancelPools DEF CancelHolderReply
<1> QED
  BY <1>1, <1>2

LEMMA TripPools ==
  ASSUME PoolState, NEW t \in FSM!TripIds
  PROVE  /\ Arrived(t) => PoolsOK'
         /\ Start(t) => PoolsOK'
         /\ Complete(t) => PoolsOK'
<1> USE DEF PoolState, SvcInv
<1>1. ASSUME Arrived(t) \/ Start(t) PROVE PoolsOK'
  <2>1. UNCHANGED <<regVars, loop, wire>> /\ DriverlessKept /\ UNCHANGED activeDriverTrips
    BY <1>1, TransitionDriverless DEF Arrived, Start, svcVars
  <2>2. SilentStep
    BY <2>1 DEF SilentStep, NothingSent
  <2> QED
    BY <2>1, <2>2, OutsideStepPools
<1>2. ASSUME Complete(t) PROVE PoolsOK'
  <2>0. PICK d : d = trips[t].driverId
    OBVIOUS
  <2>1. /\ FSM!CompleteTrip(t) /\ Send(<<CompleteCall(d)>>)
        /\ UNCHANGED <<regVars, loop>>
    BY <1>2, <2>0 DEF Complete, svcVars
  <2>2. d # None
    <3>1. t \in DOMAIN trips /\ trips[t].status = "in_progress"
      BY <2>1
         DEF FSM!CompleteTrip, FSM!Accepts, FSM!AllowedTransitions, FSMP!Inv, FSMP!TypeOK,
             FSMP!Trip, FSMP!TripStatus, FSMP!Assigned, FSMP!Terminal
    <3>2. t \in FSMP!ActiveTrips /\ t \in FSMP!AssignedTrips
      BY <3>1 DEF FSMP!ActiveTrips, FSMP!AssignedTrips, FSMP!Assigned, FSMP!Terminal
    <3> QED
      BY <2>0, <3>2 DEF FSMP!Inv, FSMP!IndicesExact, FSMP!DriverIffAssigned
  <2> QED
    BY <2>0, <2>1, <2>2, FinishPools
<1> QED
  BY <1>1, <1>2

LEMMA DriverPools ==
  ASSUME PoolState, NEW d \in Drivers
  PROVE  /\ CompleteReply(d) => PoolsOK'
         /\ \A expired \in BOOLEAN : Telemetry(d, expired) => PoolsOK'
<1> USE DEF PoolState, SvcInv
<1>1. ASSUME CompleteReply(d) PROVE PoolsOK'
  <2>1. /\ wire # <<>> /\ Head(wire) = CompleteCall(d) /\ Reply(<<>>)
        /\ Reg!Complete(d) /\ UNCHANGED <<loop, fsmVars>>
    BY <1>1 DEF CompleteReply, Answered, svcVars
  <2>2. Occurs(wire, CompleteCall(d))
    <3> HIDE DEF CompleteCall
    <3>1. wire \in Seq(Call) /\ wire # <<>> /\ Head(wire) = CompleteCall(d)
      BY <2>1 DEF WireOK
    <3>2. 1 \in DOMAIN wire /\ wire[1] = CompleteCall(d)
      BY <3>1
    <3> QED
      BY <3>2 DEF Occurs
  <2>3. /\ status[d] = "busy"
        /\ activeDriverTrips[d] = None
        /\ Once(wire, CompleteCall(d))
        /\ \A q \in Requests : ~Rolling(q, d)
    BY <2>2 DEF PoolsOK, DriverPool
  <2>4. /\ status'[d] = "available" /\ token'[d] = None /\ lock'[d] = None
        /\ UNCHANGED lock
        /\ \A c \in Drivers \ {d} : DriverCalm(c)
    BY <2>1, <2>3, Freed
  <2>5. DriverlessKept /\ UNCHANGED activeDriverTrips
    BY <2>1, NoTripDriverless
  <2>6. \A c : NothingSent(c)
    <3>1. \A c : ~Occurs(<<>>, c)
      BY DEF Occurs
    <3>2. <<>> \in Seq(Call)
      OBVIOUS
    <3> QED
      BY <2>1, <3>1, <3>2, WireQuiet
  <2>7. ~Occurs(wire', CompleteCall(d)) /\ Once(wire', CompleteCall(d))
    <3>1. ~Occurs(<<>>, CompleteCall(d)) /\ <<>> \in Seq(Call)
      BY DEF Occurs
    <3> HIDE DEF CompleteCall
    <3> QED
      BY <2>1, <2>3, <3>1, WireQuiet
  <2>8. \A q \in Requests, c \in Drivers : /\ Asking(q, c)' <=> Asking(q, c)
                                           /\ Rolling(q, c)' <=> Rolling(q, c)
    BY <2>1 DEF Asking, Rolling, At
  <2>9. ASSUME NEW c \in Drivers \ {d} PROVE DriverPool(c)'
    <3>1. ServiceCalm(c)
      BY <2>5, <2>6, <2>8 DEF ServiceCalm
    <3> QED
      BY <2>4, <3>1, DriverKept DEF PoolsOK
  <2>10. DriverPool(d)'
    <3>1. \A q \in Requests : ~Rolling(q, d)'
      BY <2>3, <2>8
    <3>2. activeDriverTrips'[d] = None
      BY <2>3, <2>5
    <3> HIDE DEF Asking, Rolling, Occurs, Once
    <3> QED
      BY <2>4, <2>7, <3>1, <3>2 DEF DriverPool, CompleteCall
  <2>11. \A p \in Requests : LoopCalm(p)
    BY <2>1, <2>4, <2>6, LoopsStill
  <2> QED
    BY <2>5, <2>9, <2>10, <2>11, LoopKept DEF PoolsOK, DriverlessKept
<1>2. ASSUME NEW expired \in BOOLEAN, Telemetry(d, expired) PROVE PoolsOK'
  <2>1. expired = FALSE
    BY <1>2 DEF Telemetry, Steady
  <2>2. UNCHANGED <<loop, fsmVars, wire>> /\ \E idle : Reg!Telemetry(d, FALSE, idle)
    BY <1>2, <2>1 DEF Telemetry, svcVars
  <2>3. (\A c \in Drivers : DriverCalm(c)) /\ UNCHANGED lock
    <3>1. CASE Requests = {}
      <4>1. \A c \in Drivers : /\ status[c] \in {"available", "busy"}
                               /\ token[c] = lock[c]
                               /\ status[c] = "busy" => lock[c] = None /\ state[c] = "busy"
                               /\ c \in index => status[c] = "available" /\ token[c] = None
        BY DEF PoolsOK, DriverPool
      <4> QED
        BY <2>2, <4>1
           DEF Reg!Telemetry, Reg!redisVars, DriverCalm, RegP!Inv, RegP!TypeOK
    <3>2. CASE Requests # {}
      BY <2>2, <3>2, RegistryCalm
    <3> QED
      BY <3>1, <3>2
  <2>4. DriverlessKept /\ UNCHANGED activeDriverTrips
    BY <2>2, NoTripDriverless
  <2>5. SilentStep
    BY <2>2, <2>4 DEF SilentStep, NothingSent
  <2> QED
    BY <2>2, <2>3, <2>4, <2>5, OutsidePools
<1> QED
  BY <1>1, <1>2

-----------------------------------------------------------------------------
(* The theorems *)

LEMMA NextPools == ASSUME PoolState, [Next]_vars PROVE PoolsOK'
<1> USE DEF PoolState
<1>1. CASE UNCHANGED vars
  <2>1. UNCHANGED <<fsmVars, regVars, loop, wire>>
    BY <1>1 DEF vars, svcVars
  <2>2. DriverlessKept /\ UNCHANGED activeDriverTrips
    BY <2>1, NoTripDriverless
  <2>3. SilentStep
    BY <2>1, <2>2 DEF SilentStep, NothingSent
  <2> QED
    BY <2>1, <2>2, <2>3, OutsideStepPools
<1>2. CASE Clients
  <2>1. ASSUME NEW q \in Requests PROVE ~CancelLapsedOffer(q)
    <3>1. SUFFICES ASSUME offers[q] # None PROVE Reg!MayRelease(offers[q], q)
      BY DEF CancelLapsedOffer
    <3>2. PICK d \in Drivers : d = offers[q]
      BY <3>1 DEF SvcInv, LoopOK
    <3>3. lock[d] = q
      BY <3>1, <3>2 DEF LeaseInv, OfferBackedUnlessLapse, OfferBacked, Steady
    <3>4. token[d] = q /\ status[d] # "absent"
      BY <3>3 DEF PoolsOK, DriverPool
    <3> QED
      BY <3>2, <3>4 DEF Reg!MayRelease
  <2>2. /\ \A q \in Requests, r \in Riders : ~RepeatRequest(q, r)
        /\ \A t \in FSM!TripIds : ~RepeatComplete(t)
        /\ \A d \in Drivers : ~SocketClose(d)
    BY DEF Steady, RepeatRequest, RepeatComplete, SocketClose
  <2> QED
    BY <1>2, <2>1, <2>2, RequestPools, CancelPools, ResolvePools, TripPools, DriverPools
       DEF Clients
<1>3. CASE RedisAnswers
  BY <1>3, RequestPools, AskPools, CommitPools, RollbackPools, ReleasePools,
     CancelReplyPools, DriverPools DEF RedisAnswers
<1>4. ASSUME NEW q \in Requests, LoopStep(q) \/ Timeout(q) PROVE PoolsOK'
  BY <1>4, LoopPools, ResolvePools
<1>5. ASSUME NEW d \in Drivers, Evict(d) \/ ExpireLease(d) PROVE FALSE
  BY <1>5 DEF Evict, ExpireLease, Steady
<1> QED
  BY <1>1, <1>2, <1>3, <1>4, <1>5 DEF Next

LEMMA EnvironmentStays == [Next]_vars => UNCHANGED environment
<1> USE DEF svcVars, storeVars
<1>1. ASSUME NEW q \in Requests
      PROVE  /\ \A r \in Riders : RequestRide(q, r) \/ RepeatRequest(q, r) => UNCHANGED environment
             /\ CancelRide(q) \/ CancelOffer(q) \/ CancelLapsedOffer(q) => UNCHANGED environment
             /\ Accept(q) \/ Reject(q) \/ Timeout(q) => UNCHANGED environment
  BY DEF RequestRide, RepeatRequest, CancelRide, CancelOffer, CancelLapsedOffer, Accept,
         Reject, Timeout, ResolveOffer
<1>2. ASSUME NEW q \in Requests
      PROVE  /\ StoreReply(q) \/ StoreRefusal(q) => UNCHANGED environment
             /\ AcquireReply(q) \/ HolderReply(q) \/ HealReply(q) \/ ReacquireReply(q)
                => UNCHANGED environment
             /\ CommitReply(q) \/ RollbackReply(q) => UNCHANGED environment
             /\ \A pc : ReleaseReply(q, pc) \/ ReleaseHolderReply(q, pc)
                => UNCHANGED environment
             /\ \A d : CancelReply(q, d) \/ CancelHolderReply(q, d) => UNCHANGED environment
             /\ LoopStep(q) => UNCHANGED environment
  BY DEF StoreReply, StoreRefusal, AcquireReply, GrantAndOffer, HolderReply, HealReply,
         ReacquireReply, CommitReply, RollbackReply, ReleaseReply, ReleaseHolderReply,
         CancelReply, CancelHolderReply, LoopStep, LoopAborted, LoopTry, LoopGivesUp,
         FailureSaved, MatchSaved
<1>3. ASSUME NEW t, Arrived(t) \/ Start(t) \/ Complete(t) \/ RepeatComplete(t)
      PROVE  UNCHANGED environment
  BY <1>3 DEF Arrived, Start, Complete, RepeatComplete
<1>4. ASSUME NEW d, \/ CompleteReply(d) \/ SocketClose(d) \/ Evict(d) \/ ExpireLease(d)
                    \/ \E expired : Telemetry(d, expired)
      PROVE  UNCHANGED environment
  BY <1>4 DEF CompleteReply, SocketClose, Evict, ExpireLease, Telemetry
<1> QED
  BY <1>1, <1>2, <1>3, <1>4 DEF Next, Clients, RedisAnswers, vars

LEMMA NextPoolInv ==
  ASSUME SvcInv, LeaseInv, StrandInv, PoolInv, [Next]_vars
  PROVE  PoolInv'
BY NextPools, EnvironmentStays DEF PoolInv, PoolState, Steady

\* In a steady environment a driver is available, or busy for exactly one of
\* three reasons: a trip, a completeTrip on its way, a rollback.
THEOREM PoolInvariant == Spec => []PoolInv
<1>1. Init => PoolInv
  BY InitPools DEF PoolInv
<1> QED
  BY <1>1, NextPoolInv, ServiceInvariant, LeaseInvariant, StrandInvariant, PTL DEF Spec

\* As long as connections stay up, clients do not repeat themselves and Redis is
\* faster than drivers, the index holds available drivers only, a driver on a
\* trip is busy in the registry and in Redis, and no driver on a trip is offered
\* another one.
THEOREM PoolsAgreeHolds == Spec => []PoolsAgree
<1>1. ASSUME SvcInv, LeaseInv, PoolInv, Steady
      PROVE  IndexOnlyAvailable /\ OnTripIsBusy /\ OfferedDriverIsFree
  <2> USE DEF SvcInv
  <2>1. \A d \in Drivers : DriverPool(d)
    BY <1>1 DEF PoolInv, PoolsOK
  <2>2. IndexOnlyAvailable /\ OnTripIsBusy
    BY <1>1, <2>1 DEF DriverPool, IndexOnlyAvailable, OnTripIsBusy, RegP!Inv, RegP!TypeOK
  <2>3. ASSUME NEW q \in Requests, offers[q] # None PROVE activeDriverTrips[offers[q]] = None
    <3>1. PICK d \in Drivers : d = offers[q]
      BY <1>1, <2>3 DEF LoopOK
    <3>2. lock[d] = q /\ q # None
      BY <1>1, <2>3, <3>1, ConstantsAssumption
         DEF LeaseInv, OfferBackedUnlessLapse, OfferBacked, Steady
    <3> QED
      BY <2>1, <3>1, <3>2 DEF DriverPool
  <2> QED
    BY <2>2, <2>3 DEF OfferedDriverIsFree
<1>2. SvcInv /\ LeaseInv /\ PoolInv => PoolsAgree
  BY <1>1 DEF PoolsAgree, Steady
<1> QED
  BY <1>2, ServiceInvariant, LeaseInvariant, PoolInvariant, PTL
-----------------------------------------------------------------------------
(* Nobody is forgotten *)

\* Where a loop waits for Redis.
Awaiting == Engaged \ {"offer"}

\* Where a loop is that still looks for a driver, or may find one.
Seeking == Searching \ {"exit", "exitHolder"}

Requested(q) == TripOf(q) # None /\ StatusOf(q) = "requested"
Matching(q) == TripOf(q) # None /\ StatusOf(q) = "matching"

\* The cancellation of q that is on the wire, if it is.
CancelOnWire(q) ==
    \E d \in Drivers : Occurs(wire, CancelCall(q, d)) \/ Occurs(wire, HolderCall(q, d))

\* A loop waits for Redis exactly while its one call is on the wire, and for its
\* withdrawn offer while the cancellation is.  The store is being asked about a
\* trip that is "requested"; one that is "matching" has a loop that seeks, and is
\* not cancelled but by a cancellation on the wire.
Going(q) ==
    /\ Occurs(wire, LoopCall(q)) <=> loop[q].pc \in Awaiting
    /\ Once(wire, LoopCall(q))
    /\ q \in Withdrawn => CancelOnWire(q)
    /\ Requested(q) => Occurs(wire, StoreCall(q))
    /\ Matching(q) => /\ loop[q].pc \in Seeking
                      /\ q \in aborted => q \in Withdrawn

GoingInv == \A q \in Requests : Going(q)

LEMMA InitGoing == Init => GoingInv
BY DEF Init, GoingInv, Going, Occurs, Once, Withdrawn, At, NoLoop, Awaiting, Engaged,
       Requested, Matching, TripOf, FSM!Init

-----------------------------------------------------------------------------
(* What a step leaves of a request's calls, trip and loop *)

\* The calls of q, or of no request.
CallsOf(q, calls) ==
    /\ calls \in Seq(Call)
    /\ \A i \in DOMAIN calls : calls[i].request \in {q, None}

\* Calls of q are sent, and one of q may be answered.
WireOf(q, calls) ==
    /\ CallsOf(q, calls)
    /\ \/ Send(calls)
       \/ wire # <<>> /\ Head(wire).request \in {q, None} /\ Reply(calls)

WireLeft(q) ==
    /\ NothingSent(LoopCall(q))
    /\ Occurs(wire, LoopCall(q)) => Occurs(wire', LoopCall(q))
    /\ Occurs(wire, StoreCall(q)) => Occurs(wire', StoreCall(q))
    /\ CancelOnWire(q) => CancelOnWire(q)'

TripLeft(q) == (Requested(q)' => Requested(q)) /\ (Matching(q)' => Matching(q))

LoopLeft(q) ==
    loop'[q] = loop[q] /\ offers'[q] = offers[q] /\ (q \in aborted' => q \in aborted)

LEMMA GoingLeft ==
  ASSUME NEW q \in Requests, Going(q), WireLeft(q), TripLeft(q), LoopLeft(q)
  PROVE  Going(q)'
<1>1. (q \in Withdrawn)' <=> q \in Withdrawn
  BY DEF LoopLeft, Withdrawn, At
<1> QED
  BY <1>1 DEF Going, WireLeft, TripLeft, LoopLeft, NothingSent

LEMMA OnWireOccurs == \A c : OnWire(c) <=> Occurs(wire, c)
BY DEF OnWire, Occurs

LEMMA WireKeepsCalls ==
  ASSUME WireOK, NEW calls \in Seq(Call), NEW c
  PROVE  /\ Send(calls) /\ Occurs(wire, c) => Occurs(wire', c)
         /\ wire # <<>> /\ Reply(calls) /\ Head(wire) # c /\ Occurs(wire, c)
            => Occurs(wire', c)
         /\ Send(calls) \/ (wire # <<>> /\ Reply(calls))
            => (Occurs(calls, c) => Occurs(wire', c))
BY WireKeeps DEF OnWire, Occurs

\* Nothing happens to the calls of another request.
LEMMA OtherWires ==
  ASSUME WireOK, NEW q \in Requests \cup {None}, NEW calls, WireOf(q, calls),
         NEW p \in Requests \ {q}
  PROVE  WireLeft(p)
<1>1. p # None /\ p # q
  BY ConstantsAssumption
<1>2. ASSUME NEW c, c.request = p
      PROVE  NothingSent(c) /\ (Occurs(wire, c) => Occurs(wire', c))
  <2>1. calls \in Seq(Call) /\ ~Occurs(calls, c)
    BY <1>1, <1>2 DEF WireOf, CallsOf, Occurs
  <2>2. Send(calls) \/ (wire # <<>> /\ Head(wire) # c /\ Reply(calls))
    BY <1>1, <1>2 DEF WireOf
  <2> QED
    BY <2>1, <2>2, WireQuiet, WireKeepsCalls
<1>3. /\ LoopCall(p).request = p /\ StoreCall(p).request = p
      /\ \A d : CancelCall(p, d).request = p /\ HolderCall(p, d).request = p
  BY DEF LoopCall, StoreCall, CancelCall, HolderCall
<1>4. /\ NothingSent(LoopCall(p))
      /\ Occurs(wire, LoopCall(p)) => Occurs(wire', LoopCall(p))
      /\ Occurs(wire, StoreCall(p)) => Occurs(wire', StoreCall(p))
  BY <1>2, <1>3
<1>5. ASSUME NEW d \in Drivers
      PROVE  /\ Occurs(wire, CancelCall(p, d)) => Occurs(wire', CancelCall(p, d))
             /\ Occurs(wire, HolderCall(p, d)) => Occurs(wire', HolderCall(p, d))
  BY <1>2, <1>3
<1> QED
  BY <1>4, <1>5 DEF WireLeft, CancelOnWire

LEMMA CallsFor ==
  ASSUME SvcInv, NEW q \in Requests
  PROVE  /\ CallsOf(q, <<>>) /\ CallsOf(q, <<LoopCall(q)>>) /\ CallsOf(q, <<StoreCall(q)>>)
         /\ \A d \in Drivers : CallsOf(q, <<CancelCall(q, d)>>) /\ CallsOf(q, <<HolderCall(q, d)>>)
         /\ CallsOf(q, CancelCalls(q)) /\ ~Occurs(CancelCalls(q), LoopCall(q))
         /\ CallsOf(q, FinishCancelCalls(q))
         /\ Occurs(FinishCancelCalls(q), LoopCall(q)) <=> MayRelease(q)
         /\ Once(FinishCancelCalls(q), LoopCall(q))
<1>1. ASSUME NEW c \in Call, c.request \in {q, None}
      PROVE  CallsOf(q, <<c>>)
  <2>1. <<c>> \in Seq(Call) /\ \A i \in DOMAIN <<c>> : <<c>>[i] = c
    OBVIOUS
  <2> QED
    BY <1>1, <2>1 DEF CallsOf
<1>2. CallsOf(q, <<>>)
  BY DEF CallsOf
<1>3. /\ LoopCall(q) \in Call /\ LoopCall(q).request = q
      /\ StoreCall(q) \in Call /\ StoreCall(q).request = q
  BY DEF LoopCall, StoreCall, Call
<1>4. ASSUME NEW d \in Drivers
      PROVE  /\ CancelCall(q, d) \in Call /\ CancelCall(q, d).request = q
             /\ HolderCall(q, d) \in Call /\ HolderCall(q, d).request = q
  BY DEF CancelCall, HolderCall, Call
<1>5. \/ CancelCalls(q) = <<>>
      \/ \E d \in Drivers : CancelCalls(q) = <<CompleteCall(d)>>
  <2>1. FSM!Succeeds(TripOf(q), "cancelled", "rider", None)
        => trips[TripOf(q)].driverId \in Drivers \cup {None}
    BY DEF FSM!Succeeds, FSM!Accepts, SvcInv, FSMP!Inv, FSMP!TypeOK, FSMP!Trip
  <2> QED
    BY <2>1 DEF CancelCalls
<1>6. \A d : CompleteCall(d).request = None /\ CompleteCall(d) # LoopCall(q)
  BY DEF CompleteCall, LoopCall
<1>7. \A d \in Drivers : CompleteCall(d) \in Call
  BY DEF CompleteCall, Call
<1> HIDE DEF LoopCall, StoreCall, CompleteCall
<1>8. CallsOf(q, CancelCalls(q)) /\ ~Occurs(CancelCalls(q), LoopCall(q))
  <2>1. CASE CancelCalls(q) = <<>>
    BY <1>2, <2>1 DEF Occurs
  <2>2. ASSUME NEW d \in Drivers, CancelCalls(q) = <<CompleteCall(d)>>
        PROVE  CallsOf(q, CancelCalls(q)) /\ ~Occurs(CancelCalls(q), LoopCall(q))
    <3>1. CallsOf(q, <<CompleteCall(d)>>)
      BY <1>1, <1>6, <1>7
    <3>2. ~Occurs(<<CompleteCall(d)>>, LoopCall(q))
      BY <1>6 DEF Occurs
    <3> QED
      BY <2>2, <3>1, <3>2
  <2> QED
    BY <1>5, <2>1, <2>2
<1>9. /\ CallsOf(q, FinishCancelCalls(q))
      /\ Occurs(FinishCancelCalls(q), LoopCall(q)) <=> MayRelease(q)
      /\ Once(FinishCancelCalls(q), LoopCall(q))
  <2>0. PICK first : first = CancelCalls(q)
    OBVIOUS
  <2>1. CallsOf(q, first) /\ ~Occurs(first, LoopCall(q))
    BY <1>8, <2>0
  <2>2. CASE ~MayRelease(q)
    <3>1. FinishCancelCalls(q) = first
      BY <2>0, <2>1, <2>2 DEF FinishCancelCalls, ReleaseCalls, CallsOf
    <3> QED
      BY <2>1, <2>2, <3>1 DEF Occurs, Once
  <2>3. CASE MayRelease(q)
    <3>1. FinishCancelCalls(q) = Append(first, LoopCall(q))
      BY <2>0, <2>1, <2>3 DEF FinishCancelCalls, ReleaseCalls, CallsOf
    <3>2. /\ Append(first, LoopCall(q)) \in Seq(Call)
          /\ DOMAIN Append(first, LoopCall(q)) = 1..(Len(first) + 1)
          /\ DOMAIN first = 1..Len(first) /\ Len(first) \in Nat
          /\ \A i \in 1..Len(first) : Append(first, LoopCall(q))[i] = first[i]
          /\ Append(first, LoopCall(q))[Len(first) + 1] = LoopCall(q)
      BY <1>3, <2>1 DEF CallsOf
    <3>3. PICK whole : whole = Append(first, LoopCall(q))
      OBVIOUS
    <3>4. /\ whole \in Seq(Call)
          /\ \A i \in DOMAIN whole :
                \/ i \in DOMAIN first /\ whole[i] = first[i]
                \/ i = Len(first) + 1 /\ whole[i] = LoopCall(q)
          /\ Len(first) + 1 \in DOMAIN whole /\ whole[Len(first) + 1] = LoopCall(q)
      BY <3>2, <3>3
    <3>5. CallsOf(q, whole)
      BY <1>3, <2>1, <3>4 DEF CallsOf
    <3>6. Occurs(whole, LoopCall(q)) /\ Once(whole, LoopCall(q))
      BY <2>1, <3>4 DEF Occurs, Once
    <3> QED
      BY <2>3, <3>1, <3>3, <3>5, <3>6
  <2> QED
    BY <2>2, <2>3
<1> QED
  BY <1>1, <1>2, <1>3, <1>4, <1>8, <1>9

\* The call of the loop of q itself: it is sent while none is on the wire, or in
\* the place of the one that is answered.
LEMMA OwnWire ==
  ASSUME WireOK, NEW c, NEW calls \in Seq(Call), Once(wire, c), Once(calls, c),
         \/ Send(calls) /\ ~Occurs(wire, c)
         \/ /\ wire # <<>> /\ Reply(calls)
            /\ Head(wire) = c \/ ~Occurs(wire, c)
  PROVE  (Occurs(wire', c) <=> Occurs(calls, c)) /\ Once(wire', c)
<1>1. wire \in Seq(Call)
  BY DEF WireOK
<1>2. ASSUME NEW w \in Seq(Call), ~Occurs(w, c), wire' = w \o calls
      PROVE  (Occurs(wire', c) <=> Occurs(calls, c)) /\ Once(wire', c)
  <2>1. (Occurs(wire', c) => Occurs(calls, c)) /\ Once(wire', c)
    BY <1>2, JoinOccurs
  <2>2. Occurs(calls, c) => Occurs(wire', c)
    <3>1. \A i \in DOMAIN calls : /\ Len(w) + i \in DOMAIN (w \o calls)
                                  /\ (w \o calls)[Len(w) + i] = calls[i]
      BY <1>2
    <3> QED
      BY <1>2, <3>1 DEF Occurs
  <2> QED
    BY <2>1, <2>2
<1>3. CASE Send(calls) /\ ~Occurs(wire, c)
  BY <1>1, <1>2, <1>3 DEF Send
<1>4. CASE /\ wire # <<>> /\ Reply(calls)
           /\ Head(wire) = c \/ ~Occurs(wire, c)
  <2>1. Tail(wire) \in Seq(Call) /\ wire' = Tail(wire) \o calls
    BY <1>1, <1>4 DEF Reply
  <2>2. ~Occurs(Tail(wire), c)
    BY <1>1, <1>4, TailOccurs
  <2> QED
    BY <1>2, <2>1, <2>2
<1> QED
  BY <1>3, <1>4

LEMMA NothingOnWire == WireOK /\ UNCHANGED wire => Send(<<>>)
BY DEF WireOK, Send

\* No trip starts to wait but the one that is created and the one that starts
\* matching.
LEMMA NoTripLeft == UNCHANGED fsmVars => \A p \in Requests : TripLeft(p)
BY DEF fsmVars, TripLeft, Requested, Matching, TripOf, StatusOf

LEMMA EnterLeft ==
  ASSUME FSMP!Inv, NEW t \in DOMAIN trips, NEW s, NEW d, FSM!Enter(t, s, d)
  PROVE  /\ \A p \in Requests : TripOf(p) # t => TripLeft(p)
         /\ s \notin {"requested", "matching"}
            => \A p \in Requests :
                  /\ TripLeft(p)
                  /\ TripOf(p) = t => ~Requested(p)' /\ ~Matching(p)'
<1>1. /\ trips'[t].status = s
      /\ \A u \in DOMAIN trips \ {t} : trips'[u] = trips[u]
      /\ requestToTrip' = requestToTrip
  BY DEF FSM!Enter, FSMP!Inv, FSMP!TypeOK, FSMP!Trip
<1>2. ASSUME NEW p \in Requests, TripOf(p) # t PROVE TripLeft(p)
  BY <1>1, <1>2, TripOfRequest DEF TripLeft, Requested, Matching, TripOf, StatusOf
<1>3. ASSUME s \notin {"requested", "matching"}, NEW p \in Requests, TripOf(p) = t
      PROVE  TripLeft(p) /\ ~Requested(p)' /\ ~Matching(p)'
  BY <1>1, <1>3 DEF TripLeft, Requested, Matching, TripOf, StatusOf
<1> QED
  BY <1>2, <1>3

LEMMA TripsMoveOn ==
  ASSUME FSMP!Inv, NEW t
  PROVE  /\ FSM!DriverEnRoute(t) \/ FSM!DriverArrived(t) \/ FSM!StartTrip(t)
            \/ FSM!CompleteTrip(t) => \A p \in Requests : TripLeft(p)
         /\ \A d : FSM!SetMatched(t, d) => \A p \in Requests :
               TripLeft(p) /\ (TripOf(p) = t => ~Matching(p)')
         /\ \A role : FSM!CancelTrip(t, role) => \A p \in Requests :
               /\ TripLeft(p)
               /\ TripOf(p) = t => ~Requested(p)' /\ ~Matching(p)'
<1>1. ASSUME FSM!DriverEnRoute(t) \/ FSM!DriverArrived(t) \/ FSM!StartTrip(t)
      PROVE  \A p \in Requests : TripLeft(p)
  <2>1. PICK s \in {"en_route", "arrived", "in_progress"} : FSM!Milestone(t, s)
    BY <1>1 DEF FSM!DriverEnRoute, FSM!DriverArrived, FSM!StartTrip
  <2>2. t \in DOMAIN trips /\ \E d : FSM!Enter(t, s, d)
    BY <2>1 DEF FSM!Milestone, FSM!Accepts
  <2> QED
    BY <2>2, EnterLeft
<1>2. ASSUME FSM!CompleteTrip(t) PROVE \A p \in Requests : TripLeft(p)
  <2>1. t \in DOMAIN trips /\ \E d : FSM!Enter(t, "completed", d)
    BY <1>2 DEF FSM!CompleteTrip, FSM!Accepts
  <2> QED
    BY <2>1, EnterLeft
<1>3. ASSUME NEW d, FSM!SetMatched(t, d)
      PROVE  \A p \in Requests : TripLeft(p) /\ (TripOf(p) = t => ~Matching(p)')
  <2>1. t \in DOMAIN trips /\ \E e : FSM!Enter(t, "matched", e)
    BY <1>3 DEF FSM!SetMatched, FSM!Accepts
  <2> QED
    BY <2>1, EnterLeft
<1>4. ASSUME NEW role, FSM!CancelTrip(t, role)
      PROVE  \A p \in Requests :
               /\ TripLeft(p)
               /\ TripOf(p) = t => ~Requested(p)' /\ ~Matching(p)'
  <2>1. t \in DOMAIN trips /\ \E e : FSM!Enter(t, "cancelled", e)
    BY <1>4 DEF FSM!CancelTrip, FSM!Accepts
  <2> QED
    BY <2>1, EnterLeft
<1> QED
  BY <1>1, <1>2, <1>3, <1>4

\* Who may cancel a trip that waits, and does.
LEMMA CancelStops ==
  ASSUME FSMP!Inv, NEW q \in Requests, NEW role \in {"rider", "system"},
         IF FSM!Accepts(TripOf(q), "cancelled", role, None)
         THEN FSM!CancelTrip(TripOf(q), role)
         ELSE UNCHANGED fsmVars
  PROVE  (\A p \in Requests : TripLeft(p)) /\ ~Requested(q)' /\ ~Matching(q)'
<1> DEFINE t == TripOf(q)
<1>1. CASE FSM!Accepts(t, "cancelled", role, None)
  BY <1>1, TripsMoveOn
<1>2. CASE ~FSM!Accepts(t, "cancelled", role, None)
  <2>1. \A p \in Requests : TripLeft(p)
    BY <1>2, NoTripLeft
  <2>2. ~Requested(q) /\ ~Matching(q)
    BY <1>2, TripOfRequest
       DEF Requested, Matching, StatusOf, FSM!Accepts, FSM!AllowedTransitions, FSM!RoleMay
  <2> QED
    BY <2>1, <2>2 DEF TripLeft
<1> QED
  BY <1>1, <1>2

-----------------------------------------------------------------------------
(* What a step does to the request it is about *)

\* Everybody else is left alone.
LEMMA GoingStep ==
  ASSUME SvcInv, GoingInv, NEW q \in Requests, NEW calls, WireOf(q, calls),
         \A p \in Requests \ {q} : TripLeft(p) /\ LoopLeft(p),
         Going(q)'
  PROVE  GoingInv'
BY GoingLeft, OtherWires DEF GoingInv, SvcInv

\* A step about no request.
LEMMA NobodysStep ==
  ASSUME SvcInv, GoingInv, NEW calls, WireOf(None, calls),
         \A p \in Requests : TripLeft(p) /\ LoopLeft(p)
  PROVE  GoingInv'
<1>1. \A p \in Requests : p # None
  BY ConstantsAssumption
<1> QED
  BY <1>1, GoingLeft, OtherWires DEF GoingInv, SvcInv

\* A loop moves on: it has sent its call if it waits again, and a trip that is
\* still matching keeps a loop that seeks.
LEMMA OwnStep ==
  ASSUME SvcInv, GoingInv, NEW q \in Requests, NEW calls, CallsOf(q, calls),
         Once(calls, LoopCall(q)),
         \/ Send(calls) /\ loop[q].pc \notin Awaiting
         \/ Resumes(q, loop[q].pc) /\ Reply(calls)
         \/ /\ wire # <<>> /\ IsCancel(Head(wire)) /\ Head(wire).request = q
            /\ loop[q].pc \notin Awaiting /\ Reply(calls),
         loop'[q].pc \in Awaiting <=> Occurs(calls, LoopCall(q)),
         q \notin Withdrawn',
         \A p \in Requests : TripLeft(p),
         \A p \in Requests \ {q} : LoopLeft(p),
         Matching(q)' => loop'[q].pc \in Seeking /\ q \notin aborted'
  PROVE  GoingInv'
<1>1. Going(q) /\ WireOK /\ calls \in Seq(Call)
  BY DEF GoingInv, SvcInv, CallsOf
<1>2. /\ \/ Send(calls) /\ ~Occurs(wire, LoopCall(q))
         \/ /\ wire # <<>> /\ Reply(calls)
            /\ Head(wire) = LoopCall(q) \/ ~Occurs(wire, LoopCall(q))
      /\ WireOf(q, calls)
      /\ Send(calls) \/ (wire # <<>> /\ Reply(calls) /\ Head(wire) # StoreCall(q))
  <2>1. /\ LoopCall(q).request = q /\ LoopCall(q) # StoreCall(q)
        /\ ~IsCancel(StoreCall(q))
    BY DEF LoopCall, StoreCall, IsCancel
  <2>2. Resumes(q, loop[q].pc) => wire # <<>> /\ Head(wire) = LoopCall(q)
    BY DEF Resumes, Answered
  <2> HIDE DEF LoopCall, StoreCall
  <2>3. loop[q].pc \notin Awaiting => ~Occurs(wire, LoopCall(q))
    BY <1>1 DEF Going
  <2> QED
    BY <2>1, <2>2, <2>3 DEF WireOf
<1>3. /\ Occurs(wire', LoopCall(q)) <=> Occurs(calls, LoopCall(q))
      /\ Once(wire', LoopCall(q))
  BY <1>1, <1>2, OwnWire DEF Going
<1>4. Occurs(wire, StoreCall(q)) => Occurs(wire', StoreCall(q))
  BY <1>1, <1>2, WireKeepsCalls
<1>5. Going(q)'
  BY <1>1, <1>3, <1>4 DEF Going, TripLeft
<1> QED
  BY <1>2, <1>5, GoingStep

-----------------------------------------------------------------------------
(* Every action leaves nobody forgotten *)

\* Where a loop goes to, and whether that waits.
LEMMA LoopTo ==
  ASSUME LoopOK, NEW q \in Requests
  PROVE  /\ \A pc \in Pcs : Goto(q, pc) => /\ loop'[q].pc = pc
                                          /\ \A p \in Requests \ {q} : loop'[p] = loop[p]
         /\ EndLoop(q) => /\ loop'[q].pc = "idle"
                          /\ \A p \in Requests \ {q} : loop'[p] = loop[p]
                          /\ aborted' \subseteq aborted /\ q \notin aborted'
BY DEF Goto, EndLoop, NoLoop, LoopOK, LoopRecord

LEMMA LoopCalls ==
  ASSUME SvcInv, NEW q \in Requests
  PROVE  /\ CallsOf(q, <<>>) /\ ~Occurs(<<>>, LoopCall(q)) /\ Once(<<>>, LoopCall(q))
         /\ CallsOf(q, <<LoopCall(q)>>)
         /\ Occurs(<<LoopCall(q)>>, LoopCall(q)) /\ Once(<<LoopCall(q)>>, LoopCall(q))
<1>1. CallsOf(q, <<>>) /\ CallsOf(q, <<LoopCall(q)>>)
  BY CallsFor
<1>2. \A c : /\ ~Occurs(<<>>, c) /\ Once(<<>>, c)
           /\ Occurs(<<c>>, c) /\ Once(<<c>>, c)
  BY DEF Occurs, Once
<1> HIDE DEF LoopCall
<1> QED
  BY <1>1, <1>2

LEMMA LoopGoing ==
  ASSUME SvcInv, GoingInv, NEW q \in Requests, LoopStep(q)
  PROVE  GoingInv'
<1> USE DEF SvcInv
<1>1. /\ CallsOf(q, <<>>) /\ ~Occurs(<<>>, LoopCall(q)) /\ Once(<<>>, LoopCall(q))
      /\ CallsOf(q, <<LoopCall(q)>>)
      /\ Occurs(<<LoopCall(q)>>, LoopCall(q)) /\ Once(<<LoopCall(q)>>, LoopCall(q))
  BY LoopCalls
<1>2. Going(q)
  BY DEF GoingInv
<1>3. ASSUME LoopAborted(q) PROVE GoingInv'
  <2>1. loop[q].pc = "top" /\ q \in aborted /\ ~Matching(q)
    BY <1>2, <1>3 DEF LoopAborted, At, Going, Withdrawn
  <2>2. \A p \in Requests : TripLeft(p)
    BY <1>3, NoTripLeft DEF LoopAborted
  <2>3. Send(<<>>) /\ \A p \in Requests \ {q} : LoopLeft(p)
    BY <1>3, LoopTo, NothingOnWire DEF LoopAborted, LoopLeft
  <2>4. loop'[q].pc = "idle"
    BY <1>3, LoopTo DEF LoopAborted
  <2>5. ~Matching(q)'
    BY <2>1, <2>2 DEF TripLeft
  <2> QED
    BY <1>1, <2>1, <2>2, <2>3, <2>4, <2>5, OwnStep DEF Awaiting, Engaged, Withdrawn, At
<1>4. ASSUME NEW d \in Drivers, LoopTry(q, d) PROVE GoingInv'
  <2>1. /\ loop[q].pc = "top" /\ q \notin aborted
        /\ aborted' = aborted /\ offers' = offers
    BY <1>4 DEF LoopTry, At
  <2>2. \A p \in Requests : TripLeft(p)
    BY <1>4, NoTripLeft DEF LoopTry
  <2>3. \A p \in Requests \ {q} : LoopLeft(p)
    BY <1>4 DEF LoopTry, LoopOK, LoopLeft
  <2>4. CASE status[d] = "available"
    <3>1. Send(<<LoopCall(q)>>) /\ loop'[q].pc = "acquire"
      BY <1>4, <2>4 DEF LoopTry, LoopOK
    <3> QED
      BY <1>1, <2>1, <2>2, <2>3, <3>1, OwnStep
         DEF Awaiting, Engaged, Seeking, Searching, Withdrawn, At
  <2>5. CASE status[d] # "available"
    <3>1. Send(<<>>) /\ loop'[q].pc = "top"
      BY <1>4, <2>5 DEF LoopTry, LoopOK
    <3> QED
      BY <1>1, <2>1, <2>2, <2>3, <3>1, OwnStep
         DEF Awaiting, Engaged, Seeking, Searching, Withdrawn, At
  <2> QED
    BY <2>4, <2>5
<1>5. ASSUME LoopGivesUp(q) PROVE GoingInv'
  <2>1. loop[q].pc = "top" /\ aborted' = aborted /\ offers' = offers /\ Send(<<>>)
    BY <1>5, NothingOnWire DEF LoopGivesUp, At
  <2>2. (\A p \in Requests : TripLeft(p)) /\ ~Matching(q)'
    BY <1>5, CancelStops DEF LoopGivesUp
  <2>3. /\ loop'[q].pc = "closing"
        /\ \A p \in Requests \ {q} : LoopLeft(p)
    BY <1>5, <2>1, LoopTo DEF LoopGivesUp, LoopLeft, Pcs
  <2> QED
    BY <1>1, <2>1, <2>2, <2>3, OwnStep DEF Awaiting, Engaged, Withdrawn, At
<1>6. ASSUME FailureSaved(q) \/ MatchSaved(q) PROVE GoingInv'
  <2>1. /\ loop[q].pc \in {"closing", "saving"} /\ EndLoop(q)
        /\ offers' = offers /\ Send(<<>>)
    BY <1>6, NothingOnWire DEF FailureSaved, MatchSaved, At
  <2>2. \A p \in Requests : TripLeft(p)
    BY <1>6, NoTripLeft, TripsMoveOn DEF FailureSaved, MatchSaved
  <2>3. /\ loop'[q].pc = "idle"
        /\ \A p \in Requests \ {q} : LoopLeft(p)
    BY <2>1, LoopTo DEF LoopLeft
  <2>4. ~Matching(q)
    BY <1>2, <2>1 DEF Going, Seeking, Searching, Engaged
  <2> QED
    BY <1>1, <2>1, <2>2, <2>3, <2>4, OwnStep
       DEF TripLeft, Awaiting, Engaged, Withdrawn, At
<1> QED
  BY <1>3, <1>4, <1>5, <1>6 DEF LoopStep

\* The loop of q resumes from its call, with or without another one.
LEMMA ResumeGoing ==
  ASSUME SvcInv, GoingInv, NEW q \in Requests, NEW pc \in Awaiting, Resumes(q, pc),
         NEW calls \in {<<>>, <<LoopCall(q)>>}, Reply(calls),
         loop'[q].pc \in Awaiting <=> calls = <<LoopCall(q)>>,
         loop'[q].pc = "offer" => offers'[q] # None,
         \A p \in Requests : TripLeft(p),
         \A p \in Requests \ {q} : LoopLeft(p),
         aborted' \subseteq aborted,
         pc \in Seeking /\ Matching(q)' => loop'[q].pc \in Seeking
  PROVE  GoingInv'
<1>1. /\ CallsOf(q, calls) /\ Once(calls, LoopCall(q))
      /\ Occurs(calls, LoopCall(q)) <=> calls = <<LoopCall(q)>>
  BY LoopCalls
<1>2. loop[q].pc = pc /\ Going(q)
  BY DEF Resumes, At, GoingInv
<1>3. Matching(q)' => loop'[q].pc \in Seeking /\ q \notin aborted'
  <2>1. Matching(q) => pc \in Seeking /\ q \notin aborted
    BY <1>2 DEF Going, Withdrawn, At, Awaiting
  <2> QED
    BY <2>1 DEF TripLeft
<1>4. q \notin Withdrawn'
  BY DEF Withdrawn, At
<1>5. Resumes(q, loop[q].pc)
  BY <1>2
<1> QED
  BY <1>1, <1>3, <1>4, <1>5, OwnStep

LEMMA AcquireGoing ==
  ASSUME SvcInv, GoingInv, NEW q \in Requests
  PROVE  /\ AcquireReply(q) => GoingInv'
         /\ HolderReply(q) => GoingInv'
         /\ HealReply(q) => GoingInv'
         /\ ReacquireReply(q) => GoingInv'
<1> USE DEF SvcInv
<1>1. ASSUME NEW pc \in {"acquire", "holder", "heal", "reacquire"}, Resumes(q, pc),
             NEW next \in {"top", "holder", "heal", "reacquire"}, Goto(q, next),
             NEW calls, Reply(calls),
             calls = IF next = "top" THEN <<>> ELSE <<LoopCall(q)>>,
             UNCHANGED <<fsmVars, offers, aborted>>
      PROVE  GoingInv'
  <2>1. /\ loop'[q].pc = next
        /\ \A p \in Requests \ {q} : LoopLeft(p)
    BY <1>1, LoopTo DEF LoopLeft, Pcs
  <2>2. /\ pc \in Awaiting /\ calls \in {<<>>, <<LoopCall(q)>>}
        /\ next \in Awaiting <=> calls = <<LoopCall(q)>>
        /\ next \in Seeking /\ next # "offer"
    BY <1>1 DEF Awaiting, Engaged, Seeking, Searching
  <2> QED
    BY <1>1, <2>1, <2>2, NoTripLeft, ResumeGoing
<1>2. ASSUME NEW pc \in {"acquire", "reacquire"}, Resumes(q, pc), GrantAndOffer(q)
      PROVE  GoingInv'
  <2>1. loop[q].driver \in Drivers /\ loop[q].driver # None
    BY <1>2, Position, ConstantsAssumption DEF Resumes, Engaged
  <2>2. /\ loop'[q].pc = "offer" /\ offers'[q] # None
        /\ \A p \in Requests \ {q} : LoopLeft(p)
    BY <1>2, <2>1, LoopTo DEF GrantAndOffer, LoopLeft, Pcs, LoopOK
  <2>3. pc \in Awaiting /\ "offer" \notin Awaiting /\ "offer" \in Seeking
    BY DEF Awaiting, Engaged, Seeking, Searching
  <2>4. UNCHANGED <<fsmVars, aborted>> /\ Reply(<<>>)
    BY <1>2 DEF GrantAndOffer
  <2> QED
    BY <1>2, <2>2, <2>3, <2>4, NoTripLeft, ResumeGoing
<1>3. ASSUME AcquireReply(q) PROVE GoingInv'
  BY <1>1, <1>2, <1>3 DEF AcquireReply
<1>4. ASSUME HolderReply(q) PROVE GoingInv'
  BY <1>1, <1>4 DEF HolderReply
<1>5. ASSUME HealReply(q) PROVE GoingInv'
  BY <1>1, <1>5 DEF HealReply
<1>6. ASSUME ReacquireReply(q) PROVE GoingInv'
  BY <1>1, <1>2, <1>6 DEF ReacquireReply
<1> QED
  BY <1>3, <1>4, <1>5, <1>6

\* Whether releaseLock sends anything or not.
LEMMA CallReleaseTo ==
  ASSUME LoopOK, NEW q \in Requests, NEW pc \in {"release", "exit"}
  PROVE  /\ CallRelease(q, pc) =>
               /\ \A p \in Requests \ {q} :
                     loop'[p] = loop[p] /\ (p \in aborted' => p \in aborted)
               /\ aborted' \subseteq aborted
               /\ loop'[q].pc = IF MayRelease(q) THEN pc
                                ELSE IF pc = "release" THEN "top" ELSE "idle"
               /\ ReleaseCalls(q) = IF MayRelease(q) THEN <<LoopCall(q)>> ELSE <<>>
         /\ AfterRelease(q, pc) =>
               /\ \A p \in Requests \ {q} :
                     loop'[p] = loop[p] /\ (p \in aborted' => p \in aborted)
               /\ aborted' \subseteq aborted
               /\ loop'[q].pc = IF pc = "release" THEN "top" ELSE "idle"
<1>1. pc \in Pcs /\ "top" \in Pcs
  BY DEF Pcs
<1>2. ASSUME AfterRelease(q, pc)
      PROVE  /\ \A p \in Requests \ {q} :
                   loop'[p] = loop[p] /\ (p \in aborted' => p \in aborted)
             /\ aborted' \subseteq aborted
             /\ loop'[q].pc = IF pc = "release" THEN "top" ELSE "idle"
  BY <1>1, <1>2, LoopTo DEF AfterRelease
<1>3. ASSUME CallRelease(q, pc)
      PROVE  /\ \A p \in Requests \ {q} :
                   loop'[p] = loop[p] /\ (p \in aborted' => p \in aborted)
             /\ aborted' \subseteq aborted
             /\ loop'[q].pc = IF MayRelease(q) THEN pc
                              ELSE IF pc = "release" THEN "top" ELSE "idle"
  <2>1. CASE MayRelease(q)
    BY <1>1, <1>3, <2>1, LoopTo DEF CallRelease
  <2>2. CASE ~MayRelease(q)
    BY <1>2, <1>3, <2>2 DEF CallRelease
  <2> QED
    BY <2>1, <2>2
<1> QED
  BY <1>2, <1>3 DEF ReleaseCalls

LEMMA ReleaseGoing ==
  ASSUME SvcInv, GoingInv, NEW q \in Requests, NEW pc \in DOMAIN HolderPc
  PROVE  /\ ReleaseReply(q, pc) => GoingInv'
         /\ ReleaseHolderReply(q, pc) => GoingInv'
<1> USE DEF SvcInv
<1>1. /\ pc \in {"release", "exit"}
      /\ HolderPc[pc] = IF pc = "release" THEN "releaseHolder" ELSE "exitHolder"
  BY DEF HolderPc
<1>2. /\ pc \in Awaiting /\ HolderPc[pc] \in Awaiting \cap Pcs
      /\ pc \in Seeking <=> pc = "release"
      /\ HolderPc[pc] \in Seeking <=> pc = "release"
      /\ "top" \in Seeking
      /\ "top" \notin Awaiting /\ "idle" \notin Awaiting
  BY <1>1 DEF Awaiting, Engaged, Seeking, Searching, Pcs
<1>3. ASSUME NEW at \in {pc, HolderPc[pc]}, Resumes(q, at), AfterRelease(q, pc),
             Reply(<<>>), UNCHANGED <<fsmVars, offers>>
      PROVE  GoingInv'
  <2>1. /\ loop'[q].pc = IF pc = "release" THEN "top" ELSE "idle"
        /\ \A p \in Requests \ {q} : LoopLeft(p)
        /\ aborted' \subseteq aborted
    BY <1>1, <1>3, CallReleaseTo DEF LoopLeft
  <2> QED
    BY <1>1, <1>2, <1>3, <2>1, NoTripLeft, ResumeGoing
<1>4. ASSUME ReleaseReply(q, pc) PROVE GoingInv'
  <2>1. CASE lock[loop[q].driver] = q
    BY <1>3, <1>4, <2>1 DEF ReleaseReply
  <2>2. CASE lock[loop[q].driver] # q
    <3>1. /\ Resumes(q, pc) /\ Goto(q, HolderPc[pc]) /\ Reply(<<LoopCall(q)>>)
          /\ UNCHANGED <<fsmVars, offers, aborted>>
      BY <1>4, <2>2 DEF ReleaseReply
    <3>2. /\ loop'[q].pc = HolderPc[pc]
          /\ \A p \in Requests \ {q} : LoopLeft(p)
      BY <1>2, <3>1, LoopTo DEF LoopLeft
    <3> QED
      BY <1>1, <1>2, <3>1, <3>2, NoTripLeft, ResumeGoing
  <2> QED
    BY <2>1, <2>2
<1>5. ASSUME ReleaseHolderReply(q, pc) PROVE GoingInv'
  BY <1>3, <1>5 DEF ReleaseHolderReply
<1> QED
  BY <1>4, <1>5

LEMMA ResolveGoing ==
  ASSUME SvcInv, GoingInv, NEW q \in Requests, NEW outcome, ResolveOffer(q, outcome)
  PROVE  GoingInv'
<1> USE DEF SvcInv
<1>1. /\ loop[q].pc = "offer" /\ loop[q].pc \notin Awaiting
      /\ q \notin Withdrawn /\ offers' = [offers EXCEPT ![q] = None]
  BY DEF ResolveOffer, LoopOK, At, Awaiting, Withdrawn
<1>2. \A p \in Requests : TripLeft(p)
  BY NoTripLeft DEF ResolveOffer
<1>3. Matching(q)' => q \notin aborted /\ StatusOf(q) = "matching"
  BY <1>1, <1>2 DEF TripLeft, GoingInv, Going, Matching
<1>4. \A p \in Requests \ {q} : offers'[p] = offers[p]
  BY <1>1 DEF LoopOK
<1>5. ASSUME NEW pc \in {"release", "exit"}, CallRelease(q, pc), Send(ReleaseCalls(q)),
             pc = "exit" => ~Matching(q)'
      PROVE  GoingInv'
  <2>0. PICK calls : calls = ReleaseCalls(q)
    OBVIOUS
  <2>1. /\ calls = IF MayRelease(q) THEN <<LoopCall(q)>> ELSE <<>>
        /\ loop'[q].pc = IF MayRelease(q) THEN pc
                         ELSE IF pc = "release" THEN "top" ELSE "idle"
        /\ \A p \in Requests \ {q} : LoopLeft(p)
        /\ aborted' \subseteq aborted
    BY <1>4, <1>5, <2>0, CallReleaseTo DEF LoopLeft
  <2>2. /\ CallsOf(q, calls) /\ Once(calls, LoopCall(q))
        /\ Occurs(calls, LoopCall(q)) <=> MayRelease(q)
    BY <2>1, LoopCalls
  <2>3. /\ pc \in Awaiting /\ "top" \notin Awaiting /\ "idle" \notin Awaiting
        /\ "release" \in Seeking /\ "top" \in Seeking
    BY DEF Awaiting, Engaged, Seeking, Searching
  <2>4. /\ loop'[q].pc \in Awaiting <=> Occurs(calls, LoopCall(q))
        /\ loop'[q].pc # "offer"
        /\ pc = "release" => loop'[q].pc \in Seeking
    BY <2>1, <2>2, <2>3
  <2>5. Matching(q)' => loop'[q].pc \in Seeking /\ q \notin aborted'
    BY <1>3, <1>5, <2>1, <2>4
  <2>6. q \notin Withdrawn'
    BY <2>4 DEF Withdrawn, At
  <2>7. Send(calls)
    BY <1>5, <2>0
  <2> QED
    BY <1>1, <1>2, <2>1, <2>2, <2>4, <2>5, <2>6, <2>7, OwnStep
<1>6. CASE Cancelled(q) /\ CallRelease(q, "exit") /\ Send(ReleaseCalls(q))
  <2>1. ~Matching(q)'
    BY <1>3, <1>6 DEF Cancelled
  <2> QED
    BY <1>5, <1>6, <2>1
<1>7. CASE /\ ~Cancelled(q) /\ Goto(q, "commit")
           /\ Send(<<LoopCall(q)>>) /\ UNCHANGED aborted
  <2>1. /\ loop'[q].pc = "commit"
        /\ \A p \in Requests \ {q} : LoopLeft(p)
    BY <1>4, <1>7, LoopTo DEF LoopLeft, Pcs
  <2>2. q \notin aborted'
    BY <1>7 DEF Cancelled
  <2>3. "commit" \in Awaiting /\ "commit" \in Seeking /\ q \notin Withdrawn'
    BY <2>1 DEF Awaiting, Engaged, Seeking, Searching, Withdrawn, At
  <2> QED
    BY <1>1, <1>2, <1>7, <2>1, <2>2, <2>3, LoopCalls, OwnStep
<1>8. CASE ~Cancelled(q) /\ CallRelease(q, "release") /\ Send(ReleaseCalls(q))
  BY <1>5, <1>8
<1> QED
  BY <1>6, <1>7, <1>8 DEF ResolveOffer

LEMMA CommitGoing ==
  ASSUME SvcInv, GoingInv, NEW q \in Requests
  PROVE  /\ CommitReply(q) => GoingInv'
         /\ RollbackReply(q) => GoingInv'
<1> USE DEF SvcInv
<1>1. /\ {"commit", "rollback", "release"} \subseteq Awaiting \cap Seeking
      /\ "top" \in Seeking \ Awaiting
      /\ "saving" \notin Awaiting
  BY DEF Awaiting, Engaged, Seeking, Searching
<1>2. ASSUME CommitReply(q) PROVE GoingInv'
  <2> DEFINE d == loop[q].driver
  <2>1. Resumes(q, "commit") /\ offers' = offers
    BY <1>2 DEF CommitReply
  <2>2. CASE /\ FSM!SetMatched(TripOf(q), d) /\ Goto(q, "saving")
             /\ Reply(<<>>) /\ UNCHANGED aborted
    <3>1. (\A p \in Requests : TripLeft(p)) /\ ~Matching(q)'
      BY <2>2, TripsMoveOn
    <3>2. /\ loop'[q].pc = "saving"
          /\ \A p \in Requests \ {q} : LoopLeft(p)
      BY <2>1, <2>2, LoopTo DEF LoopLeft, Pcs
    <3> QED
      BY <1>1, <2>1, <2>2, <3>1, <3>2, ResumeGoing
  <2>3. CASE Goto(q, "rollback") /\ Reply(<<LoopCall(q)>>) /\ UNCHANGED <<fsmVars, aborted>>
    <3>1. /\ loop'[q].pc = "rollback"
          /\ \A p \in Requests \ {q} : LoopLeft(p)
      BY <2>1, <2>3, LoopTo DEF LoopLeft, Pcs
    <3> QED
      BY <1>1, <2>1, <2>3, <3>1, NoTripLeft, ResumeGoing
  <2>4. CASE CallRelease(q, "release") /\ Reply(ReleaseCalls(q)) /\ UNCHANGED fsmVars
    <3>0. PICK calls : calls = ReleaseCalls(q)
      OBVIOUS
    <3>1. /\ calls = IF MayRelease(q) THEN <<LoopCall(q)>> ELSE <<>>
          /\ loop'[q].pc = IF MayRelease(q) THEN "release" ELSE "top"
          /\ \A p \in Requests \ {q} : LoopLeft(p)
          /\ aborted' \subseteq aborted
      BY <2>1, <2>4, <3>0, CallReleaseTo DEF LoopLeft
    <3>2. loop'[q].pc \in Awaiting <=> calls = <<LoopCall(q)>>
      BY <1>1, <3>1
    <3>3. calls \in {<<>>, <<LoopCall(q)>>} /\ loop'[q].pc \in Seeking /\ loop'[q].pc # "offer"
      BY <1>1, <3>1
    <3>4. Reply(calls)
      BY <2>4, <3>0
    <3> QED
      BY <1>1, <2>1, <2>4, <3>1, <3>2, <3>3, <3>4, NoTripLeft, ResumeGoing
  <2> QED
    BY <1>2, <2>2, <2>3, <2>4 DEF CommitReply
<1>3. ASSUME RollbackReply(q) PROVE GoingInv'
  <2>1. /\ Resumes(q, "rollback") /\ Reply(<<>>) /\ Goto(q, "top")
        /\ UNCHANGED <<fsmVars, offers, aborted>>
    BY <1>3 DEF RollbackReply
  <2>2. /\ loop'[q].pc = "top"
        /\ \A p \in Requests \ {q} : LoopLeft(p)
    BY <2>1, LoopTo DEF LoopLeft, Pcs
  <2> QED
    BY <1>1, <2>1, <2>2, NoTripLeft, ResumeGoing
<1> QED
  BY <1>2, <1>3

\* The store's answer: to a trip that waited for it, which gets a loop or is
\* cancelled, or to one that did not.
LEMMA StoreGoing ==
  ASSUME SvcInv, GoingInv, NEW q \in Requests
  PROVE  /\ StoreReply(q) => GoingInv'
         /\ StoreRefusal(q) => GoingInv'
<1> USE DEF SvcInv
<1>1. ASSUME Answered(StoreCall(q)), Reply(<<>>)
      PROVE  /\ WireOf(q, <<>>)
             /\ Occurs(wire', LoopCall(q)) <=> Occurs(wire, LoopCall(q))
             /\ Once(wire', LoopCall(q))
             /\ CancelOnWire(q) => CancelOnWire(q)'
  <2>1. /\ StoreCall(q).request = q /\ StoreCall(q) # LoopCall(q)
        /\ \A d : StoreCall(q) # CancelCall(q, d) /\ StoreCall(q) # HolderCall(q, d)
    BY DEF StoreCall, LoopCall, CancelCall, HolderCall
  <2>2. wire # <<>> /\ Head(wire) = StoreCall(q) /\ <<>> \in Seq(Call)
    BY <1>1 DEF Answered
  <2> HIDE DEF StoreCall, LoopCall, CancelCall, HolderCall
  <2>3. WireOf(q, <<>>)
    BY <1>1, <2>1, <2>2 DEF WireOf, CallsOf
  <2>4. \A c : Head(wire) # c /\ Occurs(wire, c) => Occurs(wire', c)
    BY <1>1, <2>2, WireKeepsCalls
  <2>5. \A c : NothingSent(c)
    <3>1. \A c : ~Occurs(<<>>, c)
      BY DEF Occurs
    <3> QED
      BY <1>1, <2>2, <3>1, WireQuiet
  <2>6. Once(wire, LoopCall(q))
    BY DEF GoingInv, Going
  <2> QED
    BY <2>1, <2>2, <2>3, <2>4, <2>5, <2>6 DEF NothingSent, CancelOnWire
<1>2. ASSUME Answered(StoreCall(q)), Reply(<<>>), UNCHANGED <<loop, offers, aborted>>,
             \A p \in Requests : TripLeft(p), ~Requested(q)'
      PROVE  GoingInv'
  <2>1. \A p \in Requests : LoopLeft(p)
    BY <1>2 DEF LoopLeft
  <2>2. Going(q) /\ ((q \in Withdrawn)' <=> q \in Withdrawn)
    BY <1>2 DEF GoingInv, Withdrawn, At
  <2>3. Going(q)'
    BY <1>1, <1>2, <2>2 DEF Going, TripLeft
  <2> QED
    BY <1>1, <1>2, <2>1, <2>3, GoingStep
<1>3. ASSUME StoreReply(q) PROVE GoingInv'
  <2>1. Answered(StoreCall(q)) /\ Reply(<<>>) /\ offers' = offers
    BY <1>3 DEF StoreReply
  <2>2. CASE StatusOf(q) # "requested"
    <3>1. UNCHANGED <<fsmVars, loop, offers, aborted>>
      BY <1>3, <2>2 DEF StoreReply
    <3>2. ~Requested(q) /\ \A p \in Requests : TripLeft(p)
      BY <2>2, <3>1, NoTripLeft DEF Requested
    <3>3. ~Requested(q)'
      BY <3>2 DEF TripLeft
    <3> QED
      BY <1>2, <2>1, <3>1, <3>2, <3>3
  <2>3. CASE StatusOf(q) = "requested"
    <3>1. /\ FSM!StartMatching(TripOf(q))
          /\ aborted' = aborted \ {q}
          /\ loop' = [loop EXCEPT ![q] = [NoLoop EXCEPT !.pc = "top"]]
          /\ At(q, "idle")
      BY <1>3, <2>3 DEF StoreReply, LaunchedOK, Dispatched
    <3>2. TripOf(q) \in DOMAIN trips /\ FSM!Enter(TripOf(q), "matching", None)
      BY <3>1 DEF FSM!StartMatching, FSM!Accepts
    <3>3. TripOf(q) # None
      BY <3>2, ConstantsAssumption DEF FSMP!Inv, FSMP!TypeOK
    <3>4. \A p \in Requests \ {q} : TripLeft(p)
      BY <3>2, <3>3, TripOfRequest, EnterLeft
    <3>5. ~Requested(q)'
      <4>1. trips'[TripOf(q)].status = "matching" /\ requestToTrip' = requestToTrip
        BY <3>2 DEF FSM!Enter, FSMP!Inv, FSMP!TypeOK, FSMP!Trip
      <4> QED
        BY <4>1 DEF Requested, TripOf, StatusOf
    <3>6. /\ loop'[q].pc = "top" /\ q \notin aborted'
          /\ \A p \in Requests \ {q} : LoopLeft(p)
      BY <2>1, <3>1 DEF LoopOK, LoopLeft, NoLoop
    <3>7. ~Occurs(wire, LoopCall(q))
      BY <3>1 DEF GoingInv, Going, At, Awaiting, Engaged
    <3>8. Going(q)'
      BY <1>1, <2>1, <3>5, <3>6, <3>7
         DEF Going, Awaiting, Engaged, Seeking, Searching, Withdrawn, At
    <3> QED
      BY <1>1, <2>1, <3>4, <3>6, <3>8, GoingStep
  <2> QED
    BY <2>2, <2>3
<1>4. ASSUME StoreRefusal(q) PROVE GoingInv'
  <2>1. /\ Answered(StoreCall(q)) /\ Reply(<<>>)
        /\ UNCHANGED <<loop, offers, aborted>>
    BY <1>4 DEF StoreRefusal, svcVars
  <2>2. (\A p \in Requests : TripLeft(p)) /\ ~Requested(q)'
    BY <1>4, CancelStops DEF StoreRefusal
  <2> QED
    BY <1>2, <2>1, <2>2
<1> QED
  BY <1>3, <1>4

\* A client's call sends something and starts or stops no loop.
LEMMA ClientGoing ==
  ASSUME SvcInv, GoingInv, NEW q \in Requests
  PROVE  /\ \A r \in Riders : RequestRide(q, r) \/ RepeatRequest(q, r) => GoingInv'
         /\ CancelRide(q) => GoingInv'
         /\ CancelOffer(q) => GoingInv'
<1> USE DEF SvcInv
<1>1. Going(q)
  BY DEF GoingInv
<1>2. ASSUME NEW calls, CallsOf(q, calls), Send(calls), ~Occurs(calls, LoopCall(q))
      PROVE  /\ WireOf(q, calls)
             /\ Occurs(wire', LoopCall(q)) <=> Occurs(wire, LoopCall(q))
             /\ Once(wire', LoopCall(q))
             /\ \A c : Occurs(wire, c) \/ Occurs(calls, c) => Occurs(wire', c)
  <2>1. calls \in Seq(Call) /\ WireOf(q, calls)
    BY <1>2 DEF CallsOf, WireOf
  <2>2. \A c : Occurs(wire, c) \/ Occurs(calls, c) => Occurs(wire', c)
    BY <1>2, <2>1, WireKeepsCalls
  <2>3. NothingSent(LoopCall(q))
    BY <1>2, <2>1, WireQuiet
  <2> QED
    BY <1>1, <2>1, <2>2, <2>3 DEF NothingSent, Going
<1>3. /\ CallsOf(q, <<StoreCall(q)>>) /\ ~Occurs(<<StoreCall(q)>>, LoopCall(q))
      /\ Occurs(<<StoreCall(q)>>, StoreCall(q))
  <2>1. StoreCall(q) # LoopCall(q)
    BY DEF StoreCall, LoopCall
  <2>2. \A x, c : Occurs(<<x>>, c) <=> x = c
    BY DEF Occurs
  <2> HIDE DEF StoreCall, LoopCall
  <2> QED
    BY <2>1, <2>2, CallsFor
<1>4. ASSUME Send(<<StoreCall(q)>>), UNCHANGED svcVars,
             \A p \in Requests \ {q} : TripLeft(p),
             Matching(q)' => Matching(q)
      PROVE  GoingInv'
  <2>1. \A p \in Requests : LoopLeft(p)
    BY <1>4 DEF svcVars, LoopLeft
  <2>2. /\ WireOf(q, <<StoreCall(q)>>)
        /\ Occurs(wire', LoopCall(q)) <=> Occurs(wire, LoopCall(q))
        /\ Once(wire', LoopCall(q))
        /\ Occurs(wire', StoreCall(q))
        /\ \A c : Occurs(wire, c) => Occurs(wire', c)
    BY <1>2, <1>3, <1>4
  <2>3. CancelOnWire(q) => CancelOnWire(q)'
    BY <2>2 DEF CancelOnWire
  <2>4. (q \in Withdrawn)' <=> q \in Withdrawn
    BY <2>1 DEF LoopLeft, Withdrawn, At
  <2>5. Going(q)'
    BY <1>1, <1>4, <2>1, <2>2, <2>3, <2>4 DEF Going, LoopLeft
  <2> QED
    BY <1>4, <2>1, <2>2, <2>5, GoingStep
<1>5. ASSUME NEW r \in Riders, RequestRide(q, r) PROVE GoingInv'
  <2>1. /\ created \in Nat
        /\ DOMAIN trips \subseteq 1..created
        /\ FSM!Evicted = {}
        /\ requestToTrip \in [Requests -> FSMP!TripIds \cup {None}]
    BY NothingEvicted, ConstantsAssumption DEF FSMP!Inv, FSMP!TypeOK
  <2>2. /\ \A t \in DOMAIN trips : trips'[t] = trips[t]
        /\ trips'[created + 1].status = "requested"
        /\ requestToTrip[q] = None
        /\ requestToTrip'[q] = created + 1
        /\ \A p \in Requests \ {q} : requestToTrip'[p] = requestToTrip[p]
    BY <1>5, <2>1 DEF RequestRide, FSM!CreateTrip, FSM!NewTrip
  <2>3. \A p \in Requests \ {q} : TripLeft(p)
    BY <2>2, TripOfRequest DEF TripLeft, Requested, Matching, TripOf, StatusOf
  <2>4. ~Matching(q)'
    BY <2>2 DEF Matching, TripOf, StatusOf
  <2> QED
    BY <1>4, <1>5, <2>3, <2>4 DEF RequestRide
<1>6. ASSUME NEW r \in Riders, RepeatRequest(q, r) PROVE GoingInv'
  <2>1. \A p \in Requests : TripLeft(p)
    BY <1>6, NoTripLeft DEF RepeatRequest
  <2> QED
    BY <1>4, <1>6, <2>1 DEF RepeatRequest, TripLeft
<1>7. ASSUME CancelRide(q) PROVE GoingInv'
  <2>1. /\ (\A p \in Requests : TripLeft(p)) /\ ~Requested(q)' /\ ~Matching(q)'
    BY <1>7, CancelStops DEF CancelRide, CancelTheTrip
  <2>2. /\ loop' = loop /\ offers' = offers /\ aborted' = aborted \cup {q}
        /\ Send(CancelCalls(q))
    BY <1>7 DEF CancelRide
  <2>3. /\ WireOf(q, CancelCalls(q))
        /\ Occurs(wire', LoopCall(q)) <=> Occurs(wire, LoopCall(q))
        /\ Once(wire', LoopCall(q))
        /\ \A c : Occurs(wire, c) => Occurs(wire', c)
    BY <1>2, <2>2, CallsFor
  <2>4. CancelOnWire(q) => CancelOnWire(q)'
    BY <2>3 DEF CancelOnWire
  <2>5. (q \in Withdrawn)' <=> q \in Withdrawn
    BY <2>2 DEF Withdrawn, At
  <2>6. Going(q)'
    BY <1>1, <2>1, <2>2, <2>3, <2>4, <2>5 DEF Going
  <2>7. \A p \in Requests \ {q} : LoopLeft(p)
    BY <2>2 DEF LoopLeft
  <2> QED
    BY <2>1, <2>3, <2>6, <2>7, GoingStep
<1>8. ASSUME CancelOffer(q) PROVE GoingInv'
  <2>0. PICK d : d = offers[q]
    OBVIOUS
  <2>1. /\ d \in Drivers /\ At(q, "offer") /\ Send(<<CancelCall(q, d)>>)
        /\ offers' = [offers EXCEPT ![q] = None]
        /\ loop' = loop /\ aborted' = aborted \cup {q} /\ UNCHANGED fsmVars
    BY <1>8, <2>0 DEF CancelOffer, LoopOK
  <2>2. /\ CallsOf(q, <<CancelCall(q, d)>>)
        /\ ~Occurs(<<CancelCall(q, d)>>, LoopCall(q))
        /\ Occurs(<<CancelCall(q, d)>>, CancelCall(q, d))
    <3>1. CancelCall(q, d) # LoopCall(q)
      BY DEF CancelCall, LoopCall
    <3>2. \A x, c : Occurs(<<x>>, c) <=> x = c
      BY DEF Occurs
    <3> HIDE DEF CancelCall, LoopCall
    <3> QED
      BY <2>1, <3>1, <3>2, CallsFor
  <2>3. /\ WireOf(q, <<CancelCall(q, d)>>)
        /\ Occurs(wire', LoopCall(q)) <=> Occurs(wire, LoopCall(q))
        /\ Once(wire', LoopCall(q))
        /\ Occurs(wire', CancelCall(q, d))
        /\ Occurs(wire, StoreCall(q)) => Occurs(wire', StoreCall(q))
    BY <1>2, <2>1, <2>2
  <2>4. CancelOnWire(q)' /\ q \in Withdrawn'
    BY <2>1, <2>3 DEF CancelOnWire, Withdrawn, At, LoopOK
  <2>5. \A p \in Requests : TripLeft(p)
    BY <2>1, NoTripLeft
  <2>6. Going(q)'
    BY <1>1, <2>1, <2>3, <2>4, <2>5 DEF Going, TripLeft
  <2>7. \A p \in Requests \ {q} : LoopLeft(p)
    BY <2>1 DEF LoopLeft, LoopOK
  <2> QED
    BY <2>3, <2>5, <2>6, <2>7, GoingStep
<1> QED
  BY <1>5, <1>6, <1>7, <1>8

\* The loop of a withdrawn offer is told, and the trip is over before.
LEMMA FinishGoing ==
  ASSUME SvcInv, GoingInv, NEW q \in Requests, FinishCancel(q),
         At(q, "offer"), offers'[q] = None, \A p \in Requests \ {q} : offers'[p] = offers[p],
         \/ Send(FinishCancelCalls(q))
         \/ /\ wire # <<>> /\ IsCancel(Head(wire)) /\ Head(wire).request = q
            /\ Reply(FinishCancelCalls(q))
  PROVE  GoingInv'
<1> USE DEF SvcInv
<1>1. (\A p \in Requests : TripLeft(p)) /\ ~Matching(q)'
  BY CancelStops DEF FinishCancel, CancelTheTrip
<1>0. PICK calls : calls = FinishCancelCalls(q)
  OBVIOUS
<1>2. /\ CallsOf(q, calls) /\ Once(calls, LoopCall(q))
      /\ Occurs(calls, LoopCall(q)) <=> MayRelease(q)
  BY <1>0, CallsFor
<1>3. /\ loop'[q].pc = IF MayRelease(q) THEN "exit" ELSE "idle"
      /\ \A p \in Requests \ {q} : LoopLeft(p)
  BY CallReleaseTo DEF FinishCancel, LoopLeft
<1>4. /\ loop'[q].pc \in Awaiting <=> Occurs(calls, LoopCall(q))
      /\ q \notin Withdrawn' /\ loop[q].pc \notin Awaiting
  BY <1>2, <1>3 DEF Awaiting, Engaged, Withdrawn, At
<1>5. \/ Send(calls)
      \/ /\ wire # <<>> /\ IsCancel(Head(wire)) /\ Head(wire).request = q
         /\ Reply(calls)
  BY <1>0
<1> QED
  BY <1>1, <1>2, <1>3, <1>4, <1>5, OwnStep

LEMMA CancelGoing ==
  ASSUME SvcInv, GoingInv, NEW q \in Requests
  PROVE  /\ CancelLapsedOffer(q) => GoingInv'
         /\ \A d \in Drivers : CancelReply(q, d) \/ CancelHolderReply(q, d) => GoingInv'
<1> USE DEF SvcInv
<1>1. ASSUME CancelLapsedOffer(q) PROVE GoingInv'
  BY <1>1, FinishGoing DEF CancelLapsedOffer, LoopOK
<1>2. ASSUME NEW d \in Drivers, CancelReply(q, d) PROVE GoingInv'
  <2>1. /\ wire # <<>> /\ Head(wire) = CancelCall(q, d)
        /\ IsCancel(Head(wire)) /\ Head(wire).request = q
        /\ offers' = offers
    BY <1>2 DEF CancelReply, Answered, CancelCall, IsCancel
  <2>2. At(q, "offer") /\ offers[q] = None
    BY <2>1, CancelIsWithdrawn DEF Withdrawn
  <2>3. CASE lock[d] = q
    BY <1>2, <2>1, <2>2, <2>3, FinishGoing DEF CancelReply
  <2>4. CASE lock[d] # q
    <3> DEFINE calls == <<HolderCall(q, d)>>
    <3>1. Reply(calls) /\ UNCHANGED <<fsmVars, loop, aborted>>
      BY <1>2, <2>4 DEF CancelReply
    <3>2. /\ HolderCall(q, d) # LoopCall(q)
          /\ CancelCall(q, d) # LoopCall(q) /\ CancelCall(q, d) # StoreCall(q)
      BY DEF HolderCall, CancelCall, LoopCall, StoreCall
    <3>3. CallsOf(q, calls) /\ calls \in Seq(Call)
      BY CallsFor DEF CallsOf
    <3> HIDE DEF HolderCall, CancelCall, LoopCall, StoreCall
    <3>4. Occurs(calls, HolderCall(q, d)) /\ ~Occurs(calls, LoopCall(q))
      BY <3>2 DEF Occurs
    <3> HIDE DEF calls
    <3>5. Occurs(wire', HolderCall(q, d)) /\ NothingSent(LoopCall(q))
      BY <2>1, <3>1, <3>3, <3>4, WireKeepsCalls, WireQuiet
    <3>6. Occurs(wire, StoreCall(q)) => Occurs(wire', StoreCall(q))
      BY <2>1, <3>1, <3>2, <3>3, WireKeepsCalls
    <3>7. Occurs(wire, LoopCall(q)) => Occurs(wire', LoopCall(q))
      BY <2>1, <3>1, <3>2, <3>3, WireKeepsCalls
    <3>8. WireLeft(q)
      BY <3>5, <3>6, <3>7 DEF WireLeft, CancelOnWire
    <3>9. WireOf(q, calls)
      BY <2>1, <3>1, <3>3 DEF WireOf
    <3>10. \A p \in Requests : TripLeft(p) /\ LoopLeft(p)
      BY <2>1, <3>1, NoTripLeft DEF LoopLeft
    <3>11. Going(q)'
      BY <3>8, <3>10, GoingLeft DEF GoingInv
    <3> QED
      BY <3>9, <3>10, <3>11, GoingStep
  <2> QED
    BY <2>3, <2>4
<1>3. ASSUME NEW d \in Drivers, CancelHolderReply(q, d) PROVE GoingInv'
  <2>1. /\ wire # <<>> /\ IsCancel(Head(wire)) /\ Head(wire).request = q
        /\ offers' = offers
    BY <1>3 DEF CancelHolderReply, Answered, HolderCall, IsCancel
  <2>2. At(q, "offer") /\ offers[q] = None
    BY <2>1, CancelIsWithdrawn DEF Withdrawn
  <2> QED
    BY <1>3, <2>1, <2>2, FinishGoing DEF CancelHolderReply
<1> QED
  BY <1>1, <1>2, <1>3

\* Milestones of trips, and what drivers and connections do.
LEMMA OutsideGoing ==
  ASSUME SvcInv, GoingInv
  PROVE  /\ \A t \in FSM!TripIds :
               Arrived(t) \/ Start(t) \/ Complete(t) \/ RepeatComplete(t) => GoingInv'
         /\ \A d \in Drivers :
               CompleteReply(d) \/ SocketClose(d) \/ Evict(d) \/ ExpireLease(d) => GoingInv'
         /\ \A d \in Drivers, expired \in BOOLEAN : Telemetry(d, expired) => GoingInv'
         /\ UNCHANGED vars => GoingInv'
<1> USE DEF SvcInv
<1>1. \A d \in Drivers \cup {None} : CallsOf(None, <<>>) /\ CallsOf(None, <<CompleteCall(d)>>)
  <2> TAKE d \in Drivers \cup {None}
  <2>1. CompleteCall(d) \in Call /\ CompleteCall(d).request = None
    BY DEF CompleteCall, Call
  <2> HIDE DEF CompleteCall
  <2> QED
    BY <2>1 DEF CallsOf
<1>2. UNCHANGED svcVars => \A p \in Requests : LoopLeft(p)
  BY DEF svcVars, LoopLeft
<1>3. ASSUME UNCHANGED <<svcVars, wire>>, \A p \in Requests : TripLeft(p) PROVE GoingInv'
  <2>1. WireOf(None, <<>>)
    BY <1>1, <1>3, NothingOnWire DEF WireOf
  <2> QED
    BY <1>2, <1>3, <2>1, NobodysStep
<1>4. ASSUME NEW t \in FSM!TripIds, Arrived(t) \/ Start(t) PROVE GoingInv'
  BY <1>3, <1>4, TripsMoveOn DEF Arrived, Start
<1>5. ASSUME NEW t \in FSM!TripIds, Complete(t) \/ RepeatComplete(t) PROVE GoingInv'
  <2>0. PICK d : d = trips[t].driverId
    OBVIOUS
  <2>1. t \in DOMAIN trips
    BY <1>5 DEF Complete, RepeatComplete, FSM!CompleteTrip, FSM!Accepts
  <2>2. d \in Drivers \cup {None}
    BY <2>0, <2>1 DEF FSMP!Inv, FSMP!TypeOK, FSMP!Trip
  <2>3. /\ Send(<<CompleteCall(d)>>) /\ UNCHANGED svcVars
        /\ \A p \in Requests : TripLeft(p)
    BY <1>5, <2>0, NoTripLeft, TripsMoveOn DEF Complete, RepeatComplete
  <2>4. WireOf(None, <<CompleteCall(d)>>)
    BY <1>1, <2>2, <2>3 DEF WireOf
  <2> QED
    BY <1>2, <2>3, <2>4, NobodysStep
<1>6. ASSUME NEW d \in Drivers, CompleteReply(d) PROVE GoingInv'
  <2>1. /\ wire # <<>> /\ Head(wire).request = None /\ Reply(<<>>)
        /\ UNCHANGED <<fsmVars, svcVars>>
    BY <1>6 DEF CompleteReply, Answered, CompleteCall
  <2>2. WireOf(None, <<>>)
    BY <1>1, <2>1 DEF WireOf
  <2> QED
    BY <1>2, <2>1, <2>2, NoTripLeft, NobodysStep
<1>7. ASSUME UNCHANGED <<fsmVars, svcVars, wire>> PROVE GoingInv'
  BY <1>3, <1>7, NoTripLeft
<1>8. ASSUME NEW d \in Drivers, SocketClose(d) \/ Evict(d) \/ ExpireLease(d) PROVE GoingInv'
  BY <1>7, <1>8 DEF SocketClose, Evict, ExpireLease
<1>9. ASSUME NEW d \in Drivers, NEW expired \in BOOLEAN, Telemetry(d, expired) PROVE GoingInv'
  BY <1>7, <1>9 DEF Telemetry
<1> QED
  BY <1>4, <1>5, <1>6, <1>7, <1>8, <1>9 DEF vars

LEMMA NextGoing == ASSUME SvcInv, GoingInv, [Next]_vars PROVE GoingInv'
<1>1. CASE UNCHANGED vars
  BY <1>1, OutsideGoing
<1>2. CASE Clients
  <2>1. ASSUME NEW q \in Requests, Accept(q) \/ Reject(q) PROVE GoingInv'
    BY <2>1, ResolveGoing DEF Accept, Reject
  <2> QED
    BY <1>2, <2>1, ClientGoing, CancelGoing, OutsideGoing DEF Clients
<1>3. CASE RedisAnswers
  BY <1>3, StoreGoing, AcquireGoing, CommitGoing, ReleaseGoing, CancelGoing, OutsideGoing
     DEF RedisAnswers
<1>4. ASSUME NEW q \in Requests, LoopStep(q) \/ Timeout(q) PROVE GoingInv'
  BY <1>4, LoopGoing, ResolveGoing DEF Timeout
<1>5. ASSUME NEW d \in Drivers, Evict(d) \/ ExpireLease(d) PROVE GoingInv'
  BY <1>5, OutsideGoing
<1> QED
  BY <1>1, <1>2, <1>3, <1>4, <1>5 DEF Next

-----------------------------------------------------------------------------
(* The theorems *)

\* Loops, withdrawn offers and the store are answered: what they wait for is on
\* the wire, in every environment.
THEOREM GoingInvariant == Spec => []GoingInv
BY InitGoing, NextGoing, ServiceInvariant, PTL DEF Spec

\* Something happens for q without anybody asking: Redis answers, its loop takes
\* its next turn, or the timer of its offer fires.
UnderWay(q) ==
    \/ Occurs(wire, StoreCall(q)) \/ Occurs(wire, LoopCall(q)) \/ CancelOnWire(q)
    \/ At(q, "top")
    \/ offers[q] # None

LEMMA SeekingGoesOn ==
  ASSUME SvcInv, GoingInv, NEW q \in Requests,
         Requested(q) \/ loop[q].pc \in Engaged \cup {"top"}
  PROVE  UnderWay(q)
BY DEF SvcInv, LoopOK, GoingInv, Going, UnderWay, Awaiting, Withdrawn, At

\* A rider who waits is never forgotten, whatever drivers, clients, leases and
\* connections do: as long as the trip is "requested" or "matching" a command about
\* it is on the wire, or its loop is to take its next turn, or an offer is out.
\* What WaitingTripsSettle adds under fairness is that this comes to an end.
THEOREM NobodyIsForgotten == Spec => [](\A q \in Requests : Waiting(q) => UnderWay(q))
<1>1. SvcInv /\ GoingInv => \A q \in Requests : Waiting(q) => UnderWay(q)
  <2> SUFFICES ASSUME SvcInv, GoingInv, NEW q \in Requests, Waiting(q) PROVE UnderWay(q)
    OBVIOUS
  <2>1. Requested(q) \/ Matching(q)
    BY DEF Waiting, Requested, Matching, StatusOf
  <2>2. Matching(q) => loop[q].pc \in Engaged \cup {"top"}
    BY DEF GoingInv, Going, Seeking, Searching
  <2> QED
    BY <2>1, <2>2, SeekingGoesOn
<1> QED
  BY <1>1, ServiceInvariant, GoingInvariant, PTL

\* No lease is left to its TTL: the request that holds it has a command on the wire
\* or an offer with a running timer.
THEOREM LeasesAreWorkedOn ==
  Spec => [](\A d \in Drivers : lock[d] \in Requests => UnderWay(lock[d]))
<1>1. SvcInv /\ GoingInv /\ LeaseHasOwner
      => \A d \in Drivers : lock[d] \in Requests => UnderWay(lock[d])
  <2> SUFFICES ASSUME SvcInv, GoingInv, LeaseHasOwner, NEW d \in Drivers, lock[d] \in Requests
               PROVE  UnderWay(lock[d])
    OBVIOUS
  <2>1. lock[d] # None
    BY ConstantsAssumption
  <2>2. loop[lock[d]].pc \in Engaged
    BY <2>1 DEF LeaseHasOwner, Engaged
  <2> QED
    BY <2>2, SeekingGoesOn
<1> QED
  BY <1>1, ServiceInvariant, GoingInvariant, LeaseHasOwnerHolds, PTL

\* The reply to a loop's command finds the loop where it waits for it, and the reply
\* to a cancellation the offer that was withdrawn: no answer meets code that has gone
\* on without it, and none blocks those behind it.
RepliesAreAwaited ==
    \A q \in Requests :
        /\ Answered(LoopCall(q)) => loop[q].pc \in Awaiting
        /\ \A d \in Drivers :
              Answered(CancelCall(q, d)) \/ Answered(HolderCall(q, d)) => q \in Withdrawn

THEOREM RepliesAreAwaitedHolds == Spec => []RepliesAreAwaited
<1>1. ASSUME SvcInv, GoingInv PROVE RepliesAreAwaited
  <2>1. ASSUME NEW q \in Requests, Answered(LoopCall(q)) PROVE loop[q].pc \in Awaiting
    <3>1. Occurs(wire, LoopCall(q))
      <4>1. wire \in Seq(Call) /\ wire # <<>> /\ Head(wire) = LoopCall(q)
        BY <1>1, <2>1 DEF SvcInv, WireOK, Answered
      <4> HIDE DEF LoopCall
      <4>2. 1 \in DOMAIN wire /\ wire[1] = LoopCall(q)
        BY <4>1
      <4> QED
        BY <4>2 DEF Occurs
    <3> QED
      BY <1>1, <3>1 DEF GoingInv, Going
  <2>2. ASSUME NEW q \in Requests, NEW d \in Drivers,
               Answered(CancelCall(q, d)) \/ Answered(HolderCall(q, d))
        PROVE  q \in Withdrawn
    <3>1. wire # <<>> /\ IsCancel(Head(wire)) /\ Head(wire).request = q
      BY <2>2 DEF Answered, CancelCall, HolderCall, IsCancel
    <3> QED
      BY <1>1, <3>1, CancelIsWithdrawn DEF SvcInv
  <2> QED
    BY <2>1, <2>2 DEF RepliesAreAwaited
<1>2. SvcInv /\ GoingInv => RepliesAreAwaited
  BY <1>1
<1> QED
  BY <1>2, ServiceInvariant, GoingInvariant, PTL

=============================================================================
