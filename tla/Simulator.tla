----------------------------- MODULE Simulator -----------------------------
(***************************************************************************)
(* The simulated drivers of src/simulation/driver_simulator.ts, composed   *)
(* with the trip state machine and with what the matching service, the     *)
(* registry and the region reset of src/server.ts look like from there.    *)
(*                                                                         *)
(* All of it runs on one event loop.  wire is the queue of the Redis       *)
(* commands whose reply some code waits for; the replies come in order.    *)
(* The offer loop is that of MatchingService with its lock calls made      *)
(* atomic: this module is about what follows an acceptance.  Positions are *)
(* left out: a tick that does not bring a driver to a pickup or a dropoff  *)
(* changes nothing here, and a driver may need any number of those.        *)
(***************************************************************************)
EXTENDS Integers, Sequences, FiniteSets, SequencesExt

CONSTANTS
    Riders, Drivers, Requests, None,
    MaxTrips,       \* bound: how many trips are ever created
    MaxWire,        \* bound on the commands pending when a call is repeated
    Scenarios       \* bounds: who takes part in a behaviour, and what happens

ASSUME SimulatorAssumption ==
    /\ MaxTrips \in Nat /\ MaxWire \in Nat
    /\ None \notin Drivers \cup 1..MaxTrips
    /\ \A s \in Scenarios : s.drivers \subseteq Drivers /\ s.riders \subseteq Riders

(***************************************************************************)
(* A scenario has the fields drivers (who are offered rides), riders (who  *)
(* order over HTTP), maxRides (how many trips they and the dashboard get), *)
(* maxResets (how often the region is reset), dashboard                    *)
(* (whether a dashboard is open), maxDrops (how often it is cut off),      *)
(* shortRides (whether a ride may be over before its passenger boards) and *)
(* panel (whether driver panels report milestones of simulated drivers).   *)
(***************************************************************************)

VARIABLES
    scenario,       \* the scenario of this behaviour
    trips, requestToTrip, activeRiderTrips, activeDriverTrips, created,
    status,         \* registry: "available", "leased" (to an offer) or "busy"
    loop,           \* the dispatchOfferLoop of each trip
    wire,           \* the Redis commands not answered yet
    phase,          \* VirtualDriver.phase
    activeTripId,   \* VirtualDriver.activeTripId
    boarding,       \* the running 2 s timers of each virtual driver
    leftBoarding,   \* trips whose timer belongs to a driver of the old region
    resets,         \* how often the region was reset
    reported        \* history: trips whose arrival or start a panel reported

fsmVars == <<trips, requestToTrip, activeRiderTrips, activeDriverTrips, created>>
poolVars == <<status, loop, wire>>
simVars == <<phase, activeTripId, boarding, leftBoarding, resets, reported, scenario>>
vars == <<fsmVars, poolVars, simVars>>

FSM == INSTANCE TripStateMachine WITH Capacity <- MaxTrips + 1

SaveCall(t)    == [call |-> "save", trip |-> t, driver |-> None]
FailCall(t)    == [call |-> "fail", trip |-> t, driver |-> None]
CommitCall(t)  == [call |-> "commit", trip |-> t, driver |-> None]
FreeCall(t, d) == [call |-> "free", trip |-> t, driver |-> d]
ResetCall      == [call |-> "reset", trip |-> None, driver |-> None]

Answered(c)  == wire # <<>> /\ Head(wire) = c
Reply(calls) == wire' = Tail(wire) \o calls

NoLoop == [at |-> "idle", driver |-> None, tried |-> {}]
Goto(t, at) == loop' = [loop EXCEPT ![t].at = at]

\* The state machine is asked; it may refuse, which nobody looks at.
Try(accepted, action) == IF accepted THEN action ELSE UNCHANGED fsmVars

\* simulator.start registers every driver as available.
Init ==
    /\ scenario \in Scenarios
    /\ FSM!Init
    /\ status = [d \in Drivers |-> "available"]
    /\ loop = [t \in FSM!TripIds |-> NoLoop]
    /\ wire = <<>>
    /\ phase = [d \in Drivers |-> "wandering"]
    /\ activeTripId = [d \in Drivers |-> None]
    /\ boarding = [d \in Drivers |-> 0]
    /\ leftBoarding = {}
    /\ resets = 0
    /\ reported = {}

-----------------------------------------------------------------------------
(* From the request to the match *)

\* createTrip; the answer of the trip store is awaited.
RequestRide(q, r) ==
    /\ created < scenario.maxRides
    /\ FSM!CreateTrip(q, r)
    /\ UNCHANGED <<poolVars, simVars>>

\* The store has answered: an offer loop, unless the trip is already over.
BeginMatching(t) ==
    /\ t \in DOMAIN trips
    /\ trips[t].status = "requested"
    /\ FSM!StartMatching(t)
    /\ loop' = [loop EXCEPT ![t].at = "top"]
    /\ UNCHANGED <<status, wire, simVars>>

\* The next candidate is locked and the offer goes out.
Offer(t, d) ==
    /\ d \in scenario.drivers
    /\ loop[t].at = "top"
    /\ trips[t].status = "matching"
    /\ status[d] = "available"
    /\ d \notin loop[t].tried
    /\ status' = [status EXCEPT ![d] = "leased"]
    /\ loop' = [loop EXCEPT ![t] =
                   [at |-> "offer", driver |-> d, tried |-> @.tried \cup {d}]]
    /\ UNCHANGED <<fsmVars, wire, simVars>>

\* handleIncomingOffer: the driver accepts after 1.2 to 2.8 s...
Accept(t) ==
    /\ loop[t].at = "offer"
    /\ Goto(t, "commit")
    /\ wire' = Append(wire, CommitCall(t))
    /\ UNCHANGED <<fsmVars, status, simVars>>

\* ... or, in 15 of 100 cases, rejects.
Decline(t) ==
    /\ loop[t].at = "offer"
    /\ status' = [status EXCEPT ![loop[t].driver] = "available"]
    /\ Goto(t, "top")
    /\ UNCHANGED <<fsmVars, wire, simVars>>

\* Mutant: nobody frees the driver.
RollbackCallsNone(t, d) == <<>>

RollbackCalls(t, d) == <<FreeCall(t, d)>>

\* commit_trip.lua is answered; a trip that cannot be matched any more gives
\* its driver back.
CommitReply(t) ==
    LET d == loop[t].driver
    IN  /\ Answered(CommitCall(t))
        /\ status' = [status EXCEPT ![d] = "busy"]
        /\ IF FSM!Accepts(t, "matched", "system", d)
           THEN /\ FSM!SetMatched(t, d)
                /\ Goto(t, "saving")
                /\ Reply(<<SaveCall(t)>>)
           ELSE /\ Goto(t, "rollback")
                /\ Reply(RollbackCalls(t, d))
                /\ UNCHANGED fsmVars
        /\ UNCHANGED simVars

\* No candidate accepted, is near enough, or the 30 s are over.
GiveUp(t) ==
    /\ loop[t].at = "top"
    /\ trips[t].status = "matching"
    /\ FSM!CancelTrip(t, "system")
    /\ loop' = [loop EXCEPT ![t] = NoLoop]
    /\ wire' = Append(wire, FailCall(t))
    /\ UNCHANGED <<status, simVars>>

\* The failed trip is saved: onMatchFailed.
FailReply(t) ==
    /\ Answered(FailCall(t))
    /\ Reply(<<>>)
    /\ UNCHANGED <<fsmVars, status, loop, simVars>>

\* The ride was cancelled while the loop waited for Redis.
LoopAborted(t) ==
    /\ loop[t].at = "top"
    /\ trips[t].status # "matching"
    /\ loop' = [loop EXCEPT ![t] = NoLoop]
    /\ UNCHANGED <<fsmVars, status, wire, simVars>>

\* Mutant: a driver on the way to another rider is not sent elsewhere.
AnnouncedTripIfIdle(t, d) ==
    /\ phase' = [phase EXCEPT ![d] = "en_route"]
    /\ activeTripId' = [activeTripId EXCEPT ![d] = IF @ = None THEN t ELSE @]

\* onTripAssigned, whatever the driver was doing and whatever became of the trip.
AnnouncedTrip(t, d) ==
    /\ phase' = [phase EXCEPT ![d] = "en_route"]
    /\ activeTripId' = [activeTripId EXCEPT ![d] = t]

\* The match is saved and announced.
SaveReply(t) ==
    /\ Answered(SaveCall(t))
    /\ Reply(<<>>)
    /\ AnnouncedTrip(t, loop[t].driver)
    /\ Try(FSM!Accepts(t, "en_route", "driver", None), FSM!DriverEnRoute(t))
    /\ loop' = [loop EXCEPT ![t] = NoLoop]
    /\ UNCHANGED <<status, boarding, leftBoarding, resets, reported, scenario>>

\* completeTrip(d) of the registry is answered.  A lease stays as it is.
FreeReply(t, d) ==
    /\ Answered(FreeCall(t, d))
    /\ Reply(<<>>)
    /\ status' = [status EXCEPT ![d] = IF @ = "leased" THEN @ ELSE "available"]
    /\ loop' = [loop EXCEPT ![t].at = IF @ = "rollback" THEN "top" ELSE @]
    /\ UNCHANGED <<fsmVars, simVars>>

-----------------------------------------------------------------------------
(* Cancellation and reset *)

\* What is to do for the drivers of the trips ts, some of them cancelled now:
\* offers are withdrawn and assigned drivers completed.
Withdrawn(ts) == {t \in ts : loop[t].at = "offer"}

Withdraw(ts) ==
    /\ status' = [d \in Drivers |->
           IF \E t \in Withdrawn(ts) : loop[t].driver = d THEN "available" ELSE status[d]]
    /\ loop' = [t \in FSM!TripIds |-> IF t \in Withdrawn(ts) THEN NoLoop ELSE loop[t]]

FreeCalls(t) ==
    IF trips[t].driverId = None THEN <<>> ELSE <<FreeCall(t, trips[t].driverId)>>

\* cancelRide by the rider.
CancelRide(t) ==
    /\ FSM!CancelTrip(t, "rider")
    /\ Withdraw({t})
    /\ wire' = wire \o FreeCalls(t)
    /\ UNCHANGED simVars

\* A cancelled trip is cancelled again: transition() answers with success, and
\* cancelRide completes the driver of the trip once more.
RepeatCancel(t) ==
    /\ t \in DOMAIN trips
    /\ trips[t].status = "cancelled"
    /\ Len(wire) < MaxWire
    /\ wire' = wire \o FreeCalls(t)
    /\ UNCHANGED <<fsmVars, status, loop, simVars>>

\* The trips matchingService.reset cancels: all but those in progress, which
\* the state machine refuses to cancel.
ResetTrips == {t \in FSM!ActiveTrips : FSM!Accepts(t, "cancelled", "system", None)}

ResetCalls ==
    FlattenSeq([t \in 1..MaxTrips |-> IF t \in ResetTrips THEN FreeCalls(t) ELSE <<>>])

\* POST /simulator/reset up to the await: matchingService.reset.
ResetRegion ==
    /\ resets < scenario.maxResets
    /\ resets' = resets + 1
    /\ trips' = [t \in DOMAIN trips |->
           IF t \in ResetTrips THEN [trips[t] EXCEPT !.status = "cancelled"] ELSE trips[t]]
    /\ activeRiderTrips' = [r \in Riders |->
           IF activeRiderTrips[r] \in ResetTrips THEN None ELSE activeRiderTrips[r]]
    /\ activeDriverTrips' = [d \in Drivers |->
           IF activeDriverTrips[d] \in ResetTrips THEN None ELSE activeDriverTrips[d]]
    /\ Withdraw(FSM!ActiveTrips)
    /\ wire' = wire \o ResetCalls \o <<ResetCall>>
    /\ UNCHANGED <<requestToTrip, created, phase, activeTripId, boarding, leftBoarding,
                   reported, scenario>>

\* The rest of it: the registry is emptied and the simulator starts afresh, with
\* the same ids.  Timers of the old virtual drivers keep running.
ResetReply ==
    /\ Answered(ResetCall)
    /\ Reply(<<>>)
    /\ status' = [d \in Drivers |-> IF status[d] = "leased" THEN "leased" ELSE "available"]
    /\ phase' = [d \in Drivers |-> "wandering"]
    /\ activeTripId' = [d \in Drivers |-> None]
    /\ boarding' = [d \in Drivers |-> 0]
    /\ leftBoarding' = leftBoarding \cup {activeTripId[d] : d \in {e \in Drivers : boarding[e] > 0}}
    /\ UNCHANGED <<fsmVars, loop, resets, reported, scenario>>

-----------------------------------------------------------------------------
(* tick *)

\* The tick that brings a driver to the pickup.
ReachPickup(d) ==
    LET t == activeTripId[d]
    IN  /\ phase[d] = "en_route"
        /\ t # None
        /\ phase' = [phase EXCEPT ![d] = "in_progress"]
        /\ boarding' = [boarding EXCEPT ![d] = @ + 1]
        /\ Try(FSM!Accepts(t, "arrived", "driver", None), FSM!DriverArrived(t))
        /\ UNCHANGED <<poolVars, activeTripId, leftBoarding, resets, reported, scenario>>

StartTheTrip(t) ==
    Try(t # None /\ FSM!Accepts(t, "in_progress", "driver", None), FSM!StartTrip(t))

\* Two seconds later the trip the driver has by then starts.
BoardingOver(d) ==
    /\ boarding[d] > 0
    /\ boarding' = [boarding EXCEPT ![d] = @ - 1]
    /\ StartTheTrip(activeTripId[d])
    /\ UNCHANGED <<poolVars, phase, activeTripId, leftBoarding, resets, reported, scenario>>

LeftBoardingOver(t) ==
    /\ t \in leftBoarding
    /\ leftBoarding' = leftBoarding \ {t}
    /\ StartTheTrip(t)
    /\ UNCHANGED <<poolVars, phase, activeTripId, boarding, resets, reported, scenario>>

\* The tick that brings a driver to the dropoff: registry.completeTrip is
\* called whatever completeTrip of the state machine says.  On a ride of a few
\* hundred metres that is before the boarding is over.
ReachDropoff(d) ==
    LET t == activeTripId[d]
    IN  /\ phase[d] = "in_progress"
        /\ t # None
        /\ boarding[d] = 0 \/ scenario.shortRides
        /\ phase' = [phase EXCEPT ![d] = "wandering"]
        /\ activeTripId' = [activeTripId EXCEPT ![d] = None]
        /\ Try(FSM!Accepts(t, "completed", "driver", None), FSM!CompleteTrip(t))
        /\ wire' = Append(wire, FreeCall(t, d))
        /\ UNCHANGED <<status, loop, boarding, leftBoarding, resets, reported, scenario>>

-----------------------------------------------------------------------------
(* POST /trips/:tripId/driver-action, for the driver of the trip *)

\* "arrived" and "start_trip", wherever the virtual driver is by then.  A
\* repetition, or a refusal, changes nothing.
ReportMilestone(t) ==
    /\ FSM!DriverArrived(t) \/ FSM!StartTrip(t)
    /\ reported' = reported \cup {t}
    /\ UNCHANGED <<poolVars, phase, activeTripId, boarding, leftBoarding, resets, scenario>>

\* "complete_trip", also when the trip is completed already.  The virtual driver
\* hears nothing of it and drives on.
ReportCompletion(t) ==
    /\ FSM!Succeeds(t, "completed", "driver", None)
    /\ trips[t].status = "completed" => Len(wire) < MaxWire
    /\ Try(FSM!Accepts(t, "completed", "driver", None), FSM!CompleteTrip(t))
    /\ wire' = wire \o FreeCalls(t)
    /\ UNCHANGED <<status, loop, simVars>>

DriverAction(t) ==
    /\ scenario.panel
    /\ ReportMilestone(t) \/ ReportCompletion(t)

-----------------------------------------------------------------------------
DriverStep(d) == ReachPickup(d) \/ BoardingOver(d) \/ ReachDropoff(d)
Respond(t) == Accept(t) \/ Decline(t)

LoopStep(t) ==
    \/ BeginMatching(t)
    \/ \E d \in Drivers : Offer(t, d)
    \/ GiveUp(t)
    \/ LoopAborted(t)

RedisAnswers ==
    \/ \E t \in FSM!TripIds :
          \/ CommitReply(t)
          \/ SaveReply(t)
          \/ FailReply(t)
          \/ \E d \in Drivers : FreeReply(t, d)
    \/ ResetReply

Next ==
    \/ \E q \in Requests, r \in scenario.riders : RequestRide(q, r)
    \/ \E t \in FSM!TripIds : CancelRide(t) \/ RepeatCancel(t) \/ DriverAction(t)
    \/ ResetRegion
    \/ \E t \in FSM!TripIds : LoopStep(t) \/ Respond(t) \/ LeftBoardingOver(t)
    \/ \E d \in Drivers : DriverStep(d)
    \/ RedisAnswers

Spec == Init /\ [][Next]_vars

\* Ticks, timers and Redis go on.  Nothing is assumed of riders and panels.
Fairness ==
    /\ WF_vars(RedisAnswers)
    /\ \A t \in FSM!TripIds : WF_vars(LoopStep(t)) /\ WF_vars(Respond(t))
    /\ \A d \in Drivers : WF_vars(DriverStep(d))

FairSpec == Spec /\ Fairness

-----------------------------------------------------------------------------
(* Properties *)

SavePending(t) == \E i \in DOMAIN wire : wire[i] = SaveCall(t)

\* What no ride survives: a reset of the region, and a dropoff before the boarding
\* is over, which leaves the trip "arrived" for ever and its driver wandering.
Undisturbed == resets = 0 /\ ~scenario.shortRides

\* Without those, a trip that has a driver is being driven, or about to be
\* announced: no ride that was cancelled, or completed from a panel, and is still
\* driven, no late announcement and no completion takes the driver away from the
\* present one.
AssignedIsDriven ==
    \A d \in Drivers :
        LET t == activeDriverTrips[d]
        IN  t # None /\ Undisturbed => activeTripId[d] = t \/ SavePending(t)

\* A trip of which no panel reported anything starts only with its driver at the
\* pickup, although the timer that starts it may have been set for an earlier ride
\* of that driver, whose panel may have reported what it liked.
StartsAtPickup ==
    [][\A t \in FSM!AssignedTrips :
          trips'[t].status = "in_progress" /\ trips[t].status # "in_progress" =>
          \/ t \in leftBoarding \cup reported'
          \/ /\ activeTripId[trips[t].driverId] = t
             /\ phase[trips[t].driverId] = "in_progress"]_vars

\* Every ride of simulated drivers ends, whatever was cancelled or reported when,
\* unless the region was reset or rides are short.
RidesEnd ==
    \A t \in FSM!TripIds : t \in FSM!ActiveTrips ~> t \notin FSM!ActiveTrips \/ ~Undisturbed

\* No simulated driver stays busy for ever, disturbed or not.
DriversComeBack ==
    \A d \in Drivers : status[d] = "busy" ~> status[d] # "busy"
=============================================================================
