--------------------------- MODULE MatchingService ---------------------------
(***************************************************************************)
(* The matching service of src/core/matching_service.ts, composed with the *)
(* trip state machine and the driver registry, as src/server.ts wires them *)
(* together: one Node.js process, Redis leases and a Redis trip store.     *)
(*                                                                         *)
(* Handlers, timers and continuations run one at a time on the event loop, *)
(* so a stretch of code between two awaits is one action.  What is awaited *)
(* is the reply to a Redis command.  All commands of the process go down   *)
(* one connection, which executes and answers them in order: wire is the   *)
(* queue of the commands not answered yet, and an action named ...Reply    *)
(* takes its head, does what the command does in Redis and runs the code   *)
(* the reply resumes.  saveTrip writes what nothing here reads: it is not  *)
(* on the wire, and the loop that waits for it resumes at any later time.  *)
(* The second saveTrip of cancelRide, with nothing after it, is left out.  *)
(* The next iteration of an offer loop is a step of its own, because       *)
(* continuations of other replies of the same batch may run before it.     *)
(*                                                                         *)
(* The candidate query returns some driver of the spatial index the loop   *)
(* has not tried; which one, and the radius, are left open.                *)
(***************************************************************************)
EXTENDS Integers, Sequences, FiniteSets

CONSTANTS
    Riders, Drivers, Requests, None,
    K,              \* candidates an offer loop may try (4)
    MaxTrips,       \* bound: how many trips are ever created
    MaxWire,        \* bound: commands on the wire when a client may call
    Environments    \* what may go wrong around the service, see below

(***************************************************************************)
(* An environment is the set of the disturbances a behaviour admits, fixed *)
(* from its start; Environments are those a run explores:                  *)
(*   "drop"    driver sockets close, silent drivers are evicted, and both  *)
(*             come back by telemetry;                                     *)
(*   "resend"  a rider repeats requestRide, a driver repeats complete_trip;*)
(*   "reject"  the trip store refuses a trip, because the rider has one on *)
(*             another server;                                             *)
(*   "slow"    Redis is slow enough for a driver to answer an offer while  *)
(*             another loop waits for Redis to lock the same driver;       *)
(*   "lapse"   leases and lock tokens may run out while they are in use:   *)
(*             the 3 s margin on top of the offer timeout is not enough.   *)
(* A rider may cancel at any time in every environment.                    *)
(***************************************************************************)
Disturbances == {"drop", "resend", "reject", "slow", "lapse"}

ASSUME ConstantsAssumption ==
    /\ K \in Nat \ {0}
    /\ MaxTrips \in Nat
    /\ MaxWire \in Nat \ {0}
    /\ Environments \subseteq SUBSET Disturbances
    /\ None \notin Drivers \cup Requests
    /\ None \notin 1..MaxTrips

VARIABLES
    trips, requestToTrip, activeRiderTrips, activeDriverTrips, created,
    status, token, index, lock, state,
    offers,     \* activeOffers: the driver each request is offered to
    aborted,    \* abortedRequests
    loop,       \* the dispatchOfferLoop of each request
    launched,   \* how many offer loops a request has been given
    registered, \* Redis: the requests with a request:trip:<id> key
    environment,\* what may go wrong in this behaviour; never changes
    wire        \* the commands Redis has not answered yet

fsmVars ==
    <<trips, requestToTrip, activeRiderTrips, activeDriverTrips, created>>
regVars == <<status, token, index, lock, state>>
\* What only an answer of the trip store changes.
storeVars == <<launched, registered, environment>>
svcVars == <<offers, aborted, loop, storeVars>>
vars == <<fsmVars, regVars, svcVars, wire>>

\* The trip map is far from its capacity here.
FSM == INSTANCE TripStateMachine WITH Capacity <- MaxTrips + 1
Reg == INSTANCE DriverRegistry

-----------------------------------------------------------------------------
(* The wire *)

StoreCall(q)     == [call |-> "store", request |-> q, driver |-> None]
LoopCall(q)      == [call |-> "loop", request |-> q, driver |-> None]
CancelCall(q, d) == [call |-> "cancel", request |-> q, driver |-> d]
HolderCall(q, d) == [call |-> "cancelHolder", request |-> q, driver |-> d]
CompleteCall(d)  == [call |-> "complete", request |-> None, driver |-> d]

Send(calls)  == wire' = wire \o calls
Answered(c)  == wire # <<>> /\ Head(wire) = c
\* The reply to the head arrives, and the code it resumes sends calls.
Reply(calls) == wire' = Tail(wire) \o calls
RoomOnWire   == Len(wire) < MaxWire

-----------------------------------------------------------------------------
\* Where a releaseLock called from pc reads the holder.
HolderPc == [release |-> "releaseHolder", exit |-> "exitHolder"]

NoLoop == [pc |-> "idle", driver |-> None, tried |-> {}]

\* Simulated drivers are registered before the server listens; Redis may still
\* call a driver busy on behalf of an earlier server process.
Init ==
    /\ FSM!Init
    /\ status = [d \in Drivers |-> "available"]
    /\ token = [d \in Drivers |-> None]
    /\ index = Drivers
    /\ lock = [d \in Drivers |-> None]
    /\ state \in [Drivers -> {"available", "busy"}]
    /\ offers = [q \in Requests |-> None]
    /\ aborted = {}
    /\ loop = [q \in Requests |-> NoLoop]
    /\ launched = [q \in Requests |-> 0]
    /\ registered = {}
    /\ environment \in Environments
    /\ wire = <<>>

TripOf(q) == requestToTrip[q]
StatusOf(q) == trips[TripOf(q)].status

-----------------------------------------------------------------------------
(* requestRide *)

\* createTrip, then the trip store is asked.
RequestRide(q, r) ==
    /\ RoomOnWire
    /\ FSM!CreateTrip(q, r)
    /\ Send(<<StoreCall(q)>>)
    /\ UNCHANGED <<regVars, svcVars>>

\* The rider repeats the request: createTrip returns the trip it has.
RepeatRequest(q, r) ==
    /\ "resend" \in environment
    /\ RoomOnWire
    /\ FSM!IsReplay(q, r)
    /\ Send(<<StoreCall(q)>>)
    /\ UNCHANGED <<fsmVars, regVars, svcVars>>

\* Mutant: startMatching alone decides, which a matching trip passes.
StoreReplyUnchecked(q) ==
    /\ Answered(StoreCall(q))
    /\ Reply(<<>>)
    /\ registered' = registered \cup {q}
    /\ \/ FSM!StartMatching(TripOf(q))
       \/ StatusOf(q) = "matching" /\ UNCHANGED fsmVars
    /\ aborted' = aborted \ {q}
    /\ loop' = [loop EXCEPT ![q] = [NoLoop EXCEPT !.pc = "top"]]
    /\ launched' = [launched EXCEPT ![q] = @ + 1]
    /\ UNCHANGED <<regVars, offers, environment>>

\* The store has the trip now (it knows a repeated request, and answers with
\* what it has).  Only a trip that is still "requested" is moved to matching and
\* given an offer loop.
StoreReply(q) ==
    /\ Answered(StoreCall(q))
    /\ Reply(<<>>)
    /\ registered' = registered \cup {q}
    /\ IF StatusOf(q) = "requested"
       THEN /\ FSM!StartMatching(TripOf(q))
            /\ aborted' = aborted \ {q}
            /\ loop' = [loop EXCEPT ![q] = [NoLoop EXCEPT !.pc = "top"]]
            /\ launched' = [launched EXCEPT ![q] = @ + 1]
       ELSE UNCHANGED <<fsmVars, aborted, loop, launched>>
    /\ UNCHANGED <<regVars, offers, environment>>

\* The store refuses a request it does not know, because the rider has a trip
\* elsewhere: the local trip is rolled back.
StoreRefusal(q) ==
    /\ "reject" \in environment
    /\ Answered(StoreCall(q))
    /\ q \notin registered
    /\ Reply(<<>>)
    /\ IF FSM!Accepts(TripOf(q), "cancelled", "system", None)
       THEN FSM!CancelTrip(TripOf(q), "system")
       ELSE UNCHANGED fsmVars
    /\ UNCHANGED <<regVars, svcVars>>

-----------------------------------------------------------------------------
(* dispatchOfferLoop: one record per request, pc names the await it is at *)

At(q, pc) == loop[q].pc = pc
Resumes(q, pc) == Answered(LoopCall(q)) /\ At(q, pc)
Goto(q, pc) == loop' = [loop EXCEPT ![q].pc = pc]

\* The finally block.
EndLoop(q) ==
    /\ loop' = [loop EXCEPT ![q] = NoLoop]
    /\ aborted' = aborted \ {q}

Candidates(q) == index \ loop[q].tried

\* The head of an iteration: a cancelled request leaves the loop.
LoopAborted(q) ==
    /\ At(q, "top")
    /\ q \in aborted
    /\ EndLoop(q)
    /\ UNCHANGED <<fsmVars, regVars, offers, storeVars, wire>>

\* The next candidate.  acquireLock gives up at once on a driver that is not
\* available, else it runs acquire_lock.lua.
LoopTry(q, d) ==
    /\ At(q, "top")
    /\ q \notin aborted
    /\ Cardinality(loop[q].tried) < K
    /\ d \in Candidates(q)
    /\ LET asks == status[d] = "available"
       IN  /\ loop' = [loop EXCEPT ![q] =
                          [pc     |-> IF asks THEN "acquire" ELSE "top",
                           driver |-> IF asks THEN d ELSE None,
                           tried  |-> @.tried \cup {d}]]
           /\ Send(IF asks THEN <<LoopCall(q)>> ELSE <<>>)
    /\ UNCHANGED <<fsmVars, regVars, offers, aborted, storeVars>>

\* Mutant: the loop ends without cancelling the trip.
LoopEndsSilently(q) ==
    /\ At(q, "top")
    /\ q \notin aborted
    /\ Goto(q, "closing")
    /\ UNCHANGED <<fsmVars, regVars, offers, aborted, storeVars, wire>>

\* No candidate in the radius, K candidates tried, or the 30 s budget is spent:
\* the trip is cancelled by the system and saved.
LoopGivesUp(q) ==
    /\ At(q, "top")
    /\ q \notin aborted
    /\ IF FSM!Accepts(TripOf(q), "cancelled", "system", None)
       THEN FSM!CancelTrip(TripOf(q), "system")
       ELSE UNCHANGED fsmVars
    /\ Goto(q, "closing")
    /\ UNCHANGED <<regVars, offers, aborted, storeVars, wire>>

\* saveTrip of the failed trip is answered; the rider learns of the failure.
FailureSaved(q) ==
    /\ At(q, "closing")
    /\ EndLoop(q)
    /\ UNCHANGED <<fsmVars, regVars, offers, storeVars, wire>>

\* acquireLock returns true and the offer goes out: nothing looks at aborted or
\* at the trip in between.
GrantAndOffer(q) ==
    /\ Reg!GrantLock(loop[q].driver, q)
    /\ offers' = [offers EXCEPT ![q] = loop[q].driver]
    /\ Goto(q, "offer")
    /\ Reply(<<>>)
    /\ UNCHANGED <<fsmVars, aborted, storeVars>>

\* acquire_lock.lua answers; on a refusal the holder of the lease is read.
AcquireReply(q) ==
    /\ Resumes(q, "acquire")
    /\ \/ GrantAndOffer(q)
       \/ /\ ~Reg!Lockable(loop[q].driver)
          /\ Goto(q, "holder")
          /\ Reply(<<LoopCall(q)>>)
          /\ UNCHANGED <<fsmVars, regVars, offers, aborted, storeVars>>

\* Somebody holds the lease: next candidate.  Nobody does: the busy state in
\* Redis is taken for a stale one and reset.
HolderReply(q) ==
    /\ Resumes(q, "holder")
    /\ IF lock[loop[q].driver] # None
       THEN Goto(q, "top") /\ Reply(<<>>)
       ELSE Goto(q, "heal") /\ Reply(<<LoopCall(q)>>)
    /\ UNCHANGED <<fsmVars, regVars, offers, aborted, storeVars>>

HealReply(q) ==
    /\ Resumes(q, "heal")
    /\ Reg!HealState(loop[q].driver)
    /\ Goto(q, "reacquire")
    /\ Reply(<<LoopCall(q)>>)
    /\ UNCHANGED <<fsmVars, offers, aborted, storeVars>>

ReacquireReply(q) ==
    /\ Resumes(q, "reacquire")
    /\ \/ GrantAndOffer(q)
       \/ /\ ~Reg!Lockable(loop[q].driver)
          /\ Goto(q, "top")
          /\ Reply(<<>>)
          /\ UNCHANGED <<fsmVars, regVars, offers, aborted, storeVars>>

\* The loop calls releaseLock, from "release" to go on with the next candidate
\* and from "exit" to end.  A record with another request's token makes the call
\* return at once.  token' because cancelRide may have released just before.
MayRelease(q) == token'[loop[q].driver] \in {None, q}
ReleaseCalls(q) == IF MayRelease(q) THEN <<LoopCall(q)>> ELSE <<>>

AfterRelease(q, pc) ==
    IF pc = "release"
    THEN Goto(q, "top") /\ UNCHANGED aborted
    ELSE EndLoop(q)

CallRelease(q, pc) ==
    IF MayRelease(q)
    THEN Goto(q, pc) /\ UNCHANGED aborted
    ELSE AfterRelease(q, pc)

\* Mutant: DEL without comparing the holder.
ReleaseReplyUnchecked(q, pc) ==
    /\ Resumes(q, pc)
    /\ lock' = [lock EXCEPT ![loop[q].driver] = None]
    /\ Reg!ReturnToPool(loop[q].driver)
    /\ AfterRelease(q, pc)
    /\ Reply(<<>>)
    /\ UNCHANGED <<fsmVars, offers, storeVars>>

\* release_lock.lua is answered, for a call made from pc.
ReleaseReply(q, pc) ==
    /\ Resumes(q, pc)
    /\ IF lock[loop[q].driver] = q
       THEN /\ Reg!ReleaseLease(loop[q].driver, q)
            /\ AfterRelease(q, pc)
            /\ Reply(<<>>)
       ELSE /\ Goto(q, HolderPc[pc])
            /\ Reply(<<LoopCall(q)>>)
            /\ UNCHANGED <<regVars, aborted>>
    /\ UNCHANGED <<fsmVars, offers, storeVars>>

\* There was no lease of q to release; the holder is read.
ReleaseHolderReply(q, pc) ==
    /\ Resumes(q, HolderPc[pc])
    /\ Reply(<<>>)
    /\ IF lock[loop[q].driver] \in {None, q}
       THEN Reg!ReleaseNoLease(loop[q].driver, q)
       ELSE UNCHANGED regVars
    /\ AfterRelease(q, pc)
    /\ UNCHANGED <<fsmVars, offers, storeVars>>

-----------------------------------------------------------------------------
(* The outcome of an offer *)

Cancelled(q) == q \in aborted \/ StatusOf(q) # "matching"

\* Mutant: a cancelled request ends without releasing the driver.
ResolveOfferLeaky(q, outcome) ==
    /\ offers[q] # None
    /\ offers' = [offers EXCEPT ![q] = None]
    /\ UNCHANGED <<fsmVars, regVars, storeVars>>
    /\ \/ /\ Cancelled(q)
          /\ EndLoop(q)
          /\ UNCHANGED wire
       \/ /\ ~Cancelled(q) /\ outcome = "accepted"
          /\ Goto(q, "commit")
          /\ Send(<<LoopCall(q)>>)
          /\ UNCHANGED aborted
       \/ /\ ~Cancelled(q) /\ outcome # "accepted"
          /\ CallRelease(q, "release")
          /\ Send(ReleaseCalls(q))

\* The offer promise resolves: a cancelled request releases the driver and
\* ends, an accepted offer is committed, any other outcome releases the driver
\* and goes on.
ResolveOffer(q, outcome) ==
    /\ offers[q] # None
    /\ offers' = [offers EXCEPT ![q] = None]
    /\ UNCHANGED <<fsmVars, regVars, storeVars>>
    /\ \/ /\ Cancelled(q)
          /\ CallRelease(q, "exit")
          /\ Send(ReleaseCalls(q))
       \/ /\ ~Cancelled(q) /\ outcome = "accepted"
          /\ Goto(q, "commit")
          /\ Send(<<LoopCall(q)>>)
          /\ UNCHANGED aborted
       \/ /\ ~Cancelled(q) /\ outcome # "accepted"
          /\ CallRelease(q, "release")
          /\ Send(ReleaseCalls(q))

\* Another loop is between two answers of Redis about driver d.
BeingAcquired(d, q) ==
    \E p \in Requests \ {q} :
        /\ loop[p].driver = d
        /\ loop[p].pc \in {"acquire", "holder", "heal", "reacquire"}

\* handleDriverResponse before the deadline.
Accept(q) ==
    /\ "slow" \in environment \/ ~BeingAcquired(offers[q], q)
    /\ ResolveOffer(q, "accepted")

Reject(q) == ResolveOffer(q, "rejected")

\* The timer of the offer, or a response past the deadline.
Timeout(q) == ResolveOffer(q, "timed_out")

\* commit_trip.lua is answered.  The lease was q's: the trip is matched, or, if
\* the state machine refuses, the driver is given back.  It was not: next.
CommitReply(q) ==
    LET d == loop[q].driver
        t == TripOf(q)
    IN  /\ Resumes(q, "commit")
        /\ \/ /\ Reg!Commit(d, q)
              /\ FSM!SetMatched(t, d)
              /\ Goto(q, "saving")
              /\ Reply(<<>>)
              /\ UNCHANGED aborted
           \/ /\ Reg!Commit(d, q)
              /\ ~FSM!Succeeds(t, "matched", "system", d)
              /\ Goto(q, "rollback")
              /\ Reply(<<LoopCall(q)>>)
              /\ UNCHANGED <<fsmVars, aborted>>
           \/ /\ lock[d] # q
              /\ UNCHANGED <<fsmVars, regVars>>
              /\ CallRelease(q, "release")
              /\ Reply(ReleaseCalls(q))
        /\ UNCHANGED <<offers, storeVars>>

\* completeTrip of the rolled-back driver is answered: next candidate.
RollbackReply(q) ==
    /\ Resumes(q, "rollback")
    /\ Reg!Complete(loop[q].driver)
    /\ Goto(q, "top")
    /\ Reply(<<>>)
    /\ UNCHANGED <<fsmVars, offers, aborted, storeVars>>

\* saveTrip of the match is answered and onTripMatched runs: a simulated driver
\* sets out, whatever became of the trip meanwhile.
MatchSaved(q) ==
    /\ At(q, "saving")
    /\ FSM!DriverEnRoute(TripOf(q)) \/ UNCHANGED fsmVars
    /\ EndLoop(q)
    /\ UNCHANGED <<regVars, offers, storeVars, wire>>

-----------------------------------------------------------------------------
(* cancelRide by the rider *)

\* The second half: cancelTrip, and completeTrip of the driver of the trip.
CancelTheTrip(q) ==
    IF FSM!Accepts(TripOf(q), "cancelled", "rider", None)
    THEN FSM!CancelTrip(TripOf(q), "rider")
    ELSE UNCHANGED fsmVars

\* Mutant: the driver of the trip is not freed.
CancelCallsNever(q) == <<>>

CancelCalls(q) ==
    LET d == trips[TripOf(q)].driverId
    IN  IF FSM!Succeeds(TripOf(q), "cancelled", "rider", None) /\ d # None
        THEN <<CompleteCall(d)>>
        ELSE <<>>

\* No offer is pending.
CancelRide(q) ==
    /\ TripOf(q) # None
    /\ StatusOf(q) = "cancelled" => "resend" \in environment
    /\ offers[q] = None
    /\ RoomOnWire
    /\ aborted' = aborted \cup {q}
    /\ CancelTheTrip(q)
    /\ Send(CancelCalls(q))
    /\ UNCHANGED <<regVars, offers, loop, storeVars>>

\* An offer is pending: it is withdrawn and the lease of its driver released
\* before anything else.
CancelOffer(q) ==
    /\ offers[q] # None
    /\ Reg!MayRelease(offers[q], q)
    /\ RoomOnWire
    /\ aborted' = aborted \cup {q}
    /\ offers' = [offers EXCEPT ![q] = None]
    /\ Send(<<CancelCall(q, offers[q])>>)
    /\ UNCHANGED <<fsmVars, regVars, loop, storeVars>>

\* releaseLock has returned: the offer resolves "cancelled", which makes the
\* loop release the driver once more, and the trip is cancelled before that.
FinishCancel(q) ==
    /\ CancelTheTrip(q)
    /\ CallRelease(q, "exit")

FinishCancelCalls(q) == CancelCalls(q) \o ReleaseCalls(q)

\* As CancelOffer, but the record holds another request's token.
CancelLapsedOffer(q) ==
    /\ offers[q] # None
    /\ ~Reg!MayRelease(offers[q], q)
    /\ RoomOnWire
    /\ offers' = [offers EXCEPT ![q] = None]
    /\ UNCHANGED <<regVars, storeVars>>
    /\ FinishCancel(q)
    /\ Send(FinishCancelCalls(q))

CancelReply(q, d) ==
    /\ Answered(CancelCall(q, d))
    /\ IF lock[d] = q
       THEN /\ Reg!ReleaseLease(d, q)
            /\ FinishCancel(q)
            /\ Reply(FinishCancelCalls(q))
       ELSE /\ Reply(<<HolderCall(q, d)>>)
            /\ UNCHANGED <<fsmVars, regVars, loop, aborted>>
    /\ UNCHANGED <<offers, storeVars>>

CancelHolderReply(q, d) ==
    /\ Answered(HolderCall(q, d))
    /\ IF lock[d] \in {None, q}
       THEN Reg!ReleaseNoLease(d, q)
       ELSE UNCHANGED regVars
    /\ FinishCancel(q)
    /\ Reply(FinishCancelCalls(q))
    /\ UNCHANGED <<offers, storeVars>>

-----------------------------------------------------------------------------
(* The driver: milestones of the trip, telemetry, connection *)

Arrived(t) ==
    /\ FSM!DriverArrived(t)
    /\ UNCHANGED <<regVars, svcVars, wire>>

Start(t) ==
    /\ FSM!StartTrip(t)
    /\ UNCHANGED <<regVars, svcVars, wire>>

\* complete_trip by the driver the trip names; the registry's completeTrip is
\* called and not waited for.
Complete(t) ==
    /\ RoomOnWire
    /\ FSM!CompleteTrip(t)
    /\ Send(<<CompleteCall(trips[t].driverId)>>)
    /\ UNCHANGED <<regVars, svcVars>>

\* The driver repeats it: the state machine says success once more.
RepeatComplete(t) ==
    /\ "resend" \in environment
    /\ RoomOnWire
    /\ t \in DOMAIN trips
    /\ trips[t].status = "completed"
    /\ Send(<<CompleteCall(trips[t].driverId)>>)
    /\ UNCHANGED <<fsmVars, regVars, svcVars>>

CompleteReply(d) ==
    /\ Answered(CompleteCall(d))
    /\ Reg!Complete(d)
    /\ Reply(<<>>)
    /\ UNCHANGED <<fsmVars, svcVars>>

\* The driver's current socket closes.
SocketClose(d) ==
    /\ "drop" \in environment
    /\ activeDriverTrips[d] = None
    /\ Reg!SetOffline(d)
    /\ UNCHANGED <<fsmVars, svcVars, wire>>

Evict(d) ==
    /\ "drop" \in environment
    /\ Reg!Evict(d)
    /\ UNCHANGED <<fsmVars, svcVars, wire>>

Telemetry(d, expired) ==
    /\ expired => "lapse" \in environment
    /\ Reg!Telemetry(d, expired, activeDriverTrips[d] = None)
    /\ UNCHANGED <<fsmVars, svcVars, wire>>

ExpireLease(d) ==
    /\ "lapse" \in environment
    /\ Reg!ExpireLease(d)
    /\ UNCHANGED <<fsmVars, svcVars, wire>>

-----------------------------------------------------------------------------
LoopStep(q) ==
    \/ LoopAborted(q)
    \/ \E d \in Drivers : LoopTry(q, d)
    \/ LoopGivesUp(q)
    \/ FailureSaved(q)
    \/ MatchSaved(q)

RedisAnswers ==
    \/ \E q \in Requests :
          \/ StoreReply(q)
          \/ StoreRefusal(q)
          \/ AcquireReply(q)
          \/ HolderReply(q)
          \/ HealReply(q)
          \/ ReacquireReply(q)
          \/ CommitReply(q)
          \/ RollbackReply(q)
          \/ \E pc \in DOMAIN HolderPc :
                ReleaseReply(q, pc) \/ ReleaseHolderReply(q, pc)
          \/ \E d \in Drivers : CancelReply(q, d) \/ CancelHolderReply(q, d)
    \/ \E d \in Drivers : CompleteReply(d)

Clients ==
    \/ \E q \in Requests :
          \/ \E r \in Riders : RequestRide(q, r) \/ RepeatRequest(q, r)
          \/ CancelRide(q)
          \/ CancelOffer(q)
          \/ CancelLapsedOffer(q)
          \/ Accept(q)
          \/ Reject(q)
    \/ \E t \in FSM!TripIds :
          Arrived(t) \/ Start(t) \/ Complete(t) \/ RepeatComplete(t)
    \/ \E d \in Drivers :
          \/ SocketClose(d)
          \/ \E expired \in BOOLEAN : Telemetry(d, expired)

Next ==
    \/ Clients
    \/ RedisAnswers
    \/ \E q \in Requests : LoopStep(q) \/ Timeout(q)
    \/ \E d \in Drivers : Evict(d) \/ ExpireLease(d)

Spec == Init /\ [][Next]_vars

\* Redis answers, the event loop runs what is ready, and timers fire.  Nothing
\* is assumed of riders and drivers.
Fairness ==
    /\ WF_vars(RedisAnswers)
    /\ \A q \in Requests : WF_vars(LoopStep(q)) /\ WF_vars(Timeout(q))

FairSpec == Spec /\ Fairness

-----------------------------------------------------------------------------
(* Properties *)

Pcs == {"idle", "top", "acquire", "holder", "heal", "reacquire", "offer",
        "commit", "rollback", "saving", "release", "releaseHolder", "exit",
        "exitHolder", "closing"}

Calls ==
    {StoreCall(q) : q \in Requests} \cup {LoopCall(q) : q \in Requests}
    \cup {CancelCall(q, d) : q \in Requests, d \in Drivers}
    \cup {HolderCall(q, d) : q \in Requests, d \in Drivers}
    \cup {CompleteCall(d) : d \in Drivers}

\* Every variable has its type.
TypeOK ==
    /\ FSM!TypeOK
    /\ Reg!TypeOK
    /\ offers \in [Requests -> Drivers \cup {None}]
    /\ aborted \subseteq Requests
    /\ loop \in [Requests -> [pc : Pcs, driver : Drivers \cup {None},
                              tried : SUBSET Drivers]]
    /\ launched \in [Requests -> Nat]
    /\ registered \subseteq Requests
    /\ environment \in Environments
    /\ wire \in Seq(Calls)

\* A request is never given a second offer loop, however often the rider
\* repeats it and whenever the answers of the trip store arrive.
SingleLoop == \A q \in Requests : launched[q] <= 1

\* A pending offer is backed by the lease of its driver in Redis.
OfferBacked == \A q \in Requests : offers[q] # None => lock[offers[q]] = q

\* Each lease in Redis has an offer loop that is going to release or commit it:
\* none is left to its TTL by a cancellation, a refusal or a lost connection.
LeaseHasOwner ==
    \A d \in Drivers : lock[d] # None =>
        /\ loop[lock[d]].driver = d
        /\ loop[lock[d]].pc \in {"offer", "commit", "release", "exit"}

\* Some call is on its way that ends with completeTrip of driver d.
BeingFreed(d) ==
    \/ \E i \in DOMAIN wire : wire[i] = CompleteCall(d)
    \/ \E q \in Requests : At(q, "rollback") /\ loop[q].driver = d

\* A driver is busy in the registry only while it serves a trip or its release
\* is on the way: no cancellation, refusal or race strands it.
NoStrandedDriver ==
    \A d \in Drivers :
        status[d] = "busy" => activeDriverTrips[d] # None \/ BeingFreed(d)

\* The spatial index holds only drivers a rider can be offered: available and
\* without a lease.
IndexOnlyAvailable ==
    \A d \in index : status[d] = "available" /\ token[d] = None

\* A driver on a trip is busy in the registry and in Redis, so no other request
\* can lock it.
OnTripIsBusy ==
    \A d \in Drivers :
        activeDriverTrips[d] # None => status[d] = "busy" /\ state[d] = "busy"

\* A driver with a trip is never offered another one.
OfferedDriverIsFree ==
    \A q \in Requests : offers[q] # None => activeDriverTrips[offers[q]] = None

\* As long as connections stay up, clients do not repeat themselves and Redis is
\* faster than drivers, the index, the registry and Redis agree on who is free
\* and who drives; riders may cancel, drivers refuse, offers time out and the
\* trip store refuse as they please.  The runs HealRace and RepeatedCompletion
\* show what two of the disturbances do to it.
PoolsAgree ==
    environment \subseteq {"reject"} =>
        IndexOnlyAvailable /\ OnTripIsBusy /\ OfferedDriverIsFree

\* A trip is matched only in the step that finds its request's lease on that
\* very driver, whatever happened to lease, driver and trip since the offer.
MatchUnderLease ==
    [][\A t \in DOMAIN trips :
          trips'[t].status = "matched" /\ trips[t].status # "matched"
          => lock[trips'[t].driverId] = trips[t].requestId]_vars

\* The trips of the running service keep the contract on rides.
ImplementsContract == FSM!ImplementsContract

Waiting(q) ==
    TripOf(q) # None /\ trips[TripOf(q)].status \in {"requested", "matching"}

\* A rider does not wait forever: a trip leaves "requested" and "matching".
WaitingTripsSettle == \A q \in Requests : Waiting(q) ~> ~Waiting(q)

\* Every lease is given back or committed, without its TTL running out.
LeasesReturn ==
    \A q \in Requests, d \in Drivers : lock[d] = q ~> lock[d] # q
=============================================================================
