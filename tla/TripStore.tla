----------------------------- MODULE TripStore -----------------------------
(***************************************************************************)
(* The trips of several servers in one Redis: RedisTripStore of            *)
(* src/core/redis_trip_store.ts, the script infra/lua/create_trip.lua, and *)
(* the calls that reach the store from src/core/matching_service.ts, from  *)
(* the onTransition callback and from the start-up of src/server.ts.       *)
(*                                                                         *)
(* A server keeps its trips in memory and writes them to Redis over one    *)
(* connection: wire[s] holds the commands that Redis has not executed yet, *)
(* in the order they were issued.  The reply to a command is handled with  *)
(* its execution.  saveTrip is a plain pipeline, so that commands of two   *)
(* servers interleave inside it.                                           *)
(*                                                                         *)
(* Matching, registry and driver lock are the subject of MatchingService:  *)
(* here a trip is requested, matching, matched (until it is completed) or  *)
(* ended, and a trip that a crash took from its server's memory, in        *)
(* whatever status, is lost.                                               *)
(***************************************************************************)
EXTENDS Integers, Sequences, FiniteSets, SequencesExt

CONSTANTS
    Servers,        \* server processes that share the Redis database
    Riders,         \* rider ids
    None,           \* no trip, an absent key
    MaxTrips,       \* largest bound on the trips ever created in any memory
    MaxWire,        \* bound on the commands pending when a client acts
    Environments,   \* sets of the disturbances "two", "resend", "restart", "lapse"
    TripLimit,      \* the bound on the trips in each of the environments
    ActiveRiders    \* the riders who order in each of the environments

TripIds == 1..MaxTrips

ASSUME StoreAssumption ==
    /\ MaxTrips \in Nat
    /\ None \notin TripIds
    /\ \A e \in Environments : TripLimit[e] \in 0..MaxTrips
    /\ IsFiniteSet(Riders) /\ IsFiniteSet(Servers)

VARIABLES
    environment,    \* the disturbances of this behaviour
    up,             \* for every server: "absent", "down", "reconciling" or "up"
    trips,          \* the trips created, in order, with their status in memory
    owed,           \* cancelled trips whose cancelRide has yet to save them again
    wire,           \* for every server: Redis commands not yet executed
    sweep,          \* for every server: what its reconcileOrphanedTrips has read
    record,         \* Redis trip:{id}: the status stored, or None
    requestKey,     \* Redis request:trip:{requestId}
    claim,          \* Redis rider:active_trip:{riderId}
    active,         \* Redis trip:active
    old,            \* trips created more than 60 s ago
    disarmed        \* history: riders whose key went while its trip was open

memoryVars == <<up, trips, owed>>
redisVars == <<record, requestKey, claim, active>>
vars == <<environment, memoryVars, wire, sweep, redisVars, old, disarmed>>

Open == {"requested", "matching", "matched"}
Created == DOMAIN trips
Is(t, s, statuses) == trips[t].server = s /\ trips[t].status \in statuses
Room(s) == up[s] = "up" /\ Len(wire[s]) < MaxWire
NothingRead == [ids |-> {}, stale |-> {}]

-----------------------------------------------------------------------------
(* Commands *)

Cmd(op, t) == [op |-> op, trip |-> t]
CmdSet(t, status) == [op |-> "set", trip |-> t, status |-> status]
CmdRider(op, r) == [op |-> op, rider |-> r]

\* Mutants: saveTrip leaves the rider's key, or the entry in trip:active.
SaveKeepsClaim(t, r, status) ==
    <<CmdSet(t, status), Cmd(IF status = "ended" THEN "srem" ELSE "sadd", t)>>
SaveKeepsActive(t, r, status) ==
    <<CmdSet(t, status)>>
        \o IF status = "ended" THEN <<CmdRider("del", r)>> ELSE <<Cmd("sadd", t)>>

\* The pipeline of saveTrip.
SaveTrip(t, r, status) ==
    <<CmdSet(t, status)>>
        \o IF status = "ended"
           THEN <<Cmd("srem", t), CmdRider("del", r)>>
           ELSE <<Cmd("sadd", t)>>

\* A new status in memory, and n calls of saveTrip with it.
Enter(t, status, n) ==
    LET s == trips[t].server
        save == SaveTrip(t, trips[t].rider, status)
    IN  /\ trips' = [trips EXCEPT ![t].status = status]
        /\ wire' = [wire EXCEPT ![s] = @ \o IF n = 2 THEN save \o save ELSE save]

-----------------------------------------------------------------------------
Init ==
    /\ environment \in Environments
    /\ \E fleet \in SUBSET Servers :
        /\ IF "two" \in environment THEN fleet = Servers ELSE Cardinality(fleet) = 1
        /\ up = [s \in Servers |-> IF s \in fleet THEN "up" ELSE "absent"]
    /\ trips = <<>>
    /\ owed = {}
    /\ wire = [s \in Servers |-> <<>>]
    /\ sweep = [s \in Servers |-> NothingRead]
    /\ record = [t \in TripIds |-> None]
    /\ requestKey = [q \in TripIds |-> None]
    /\ claim = [r \in Riders |-> None]
    /\ active = {}
    /\ old = {}
    /\ disarmed = {}

-----------------------------------------------------------------------------
(* Requests of riders and progress of trips, in the memory of one server *)

\* createTrip of the state machine accepts a rider without an open trip here.
RiderIsFree(s, r) ==
    \A t \in Created : ~(trips[t].rider = r /\ Is(t, s, Open))

\* A trip enters the state machine and is offered to the store.
NewTrip(s, r, q) ==
    /\ Len(trips) < TripLimit[environment]
    /\ RiderIsFree(s, r)
    /\ trips' = Append(trips,
            [rider |-> r, request |-> q, server |-> s, status |-> "requested"])
    /\ wire' = [wire EXCEPT ![s] =
            Append(@, [op |-> "create", trip |-> Len(trips) + 1, status |-> "requested"])]

\* requestRide with a request id of its own: the number of its first trip.
RequestRide(s, r) ==
    /\ Room(s)
    /\ r \in ActiveRiders[environment]
    /\ NewTrip(s, r, Len(trips) + 1)
    /\ UNCHANGED <<environment, up, owed, sweep, redisVars, old, disarmed>>

\* The trips that a server made of a request and has not lost.  Its memory finds
\* the latest by the request id, unless that one has ended and been evicted.
Here(s, q) ==
    {t \in Created : trips[t].request = q /\ Is(t, s, Open \cup {"ended"})}
IsLatest(t) == \A u \in Here(trips[t].server, trips[t].request) : u <= t

\* The client repeats a request.  The server that holds its trip offers that trip
\* to the store once more, as it is now.  Any other server takes it for a new one,
\* and so does this one after a crash or after an eviction.
ResendRequest(s, q) ==
    /\ "resend" \in environment
    /\ Room(s)
    /\ trips[q].request = q
    /\ \/ /\ \A t \in Here(s, q) : trips[t].status = "ended"
          /\ NewTrip(s, trips[q].rider, q)
       \/ \E t \in Here(s, q) :
            /\ IsLatest(t)
            /\ wire' = [wire EXCEPT ![s] = Append(@,
                    [op |-> "create", trip |-> t, status |-> trips[t].status])]
            /\ UNCHANGED trips
    /\ UNCHANGED <<environment, up, owed, sweep, redisVars, old, disarmed>>

\* Mutant: the match is not saved.
MatchUnsaved(t) ==
    /\ Room(trips[t].server)
    /\ trips[t].status = "matching"
    /\ trips' = [trips EXCEPT ![t].status = "matched"]
    /\ UNCHANGED wire
    /\ UNCHANGED <<environment, up, owed, sweep, redisVars, old, disarmed>>

\* The offer loop matches a driver: saved by onTransition and by the loop.
Match(t) ==
    /\ Room(trips[t].server)
    /\ trips[t].status = "matching"
    /\ Enter(t, "matched", 2)
    /\ UNCHANGED <<environment, up, owed, sweep, redisVars, old, disarmed>>

\* en_route, arrived and in_progress: saved by onTransition.
Progress(t) ==
    /\ Room(trips[t].server)
    /\ trips[t].status = "matched"
    /\ Enter(t, "matched", 1)
    /\ UNCHANGED <<environment, up, owed, sweep, redisVars, old, disarmed>>

\* completeTrip: saved by onTransition.
CompleteTrip(t) ==
    /\ Room(trips[t].server)
    /\ trips[t].status = "matched"
    /\ Enter(t, "ended", 1)
    /\ UNCHANGED <<environment, up, owed, sweep, redisVars, old, disarmed>>

\* The offer loop gives up, or the rider cancels a trip without a driver: saved by
\* onTransition and, with no await in between, by the caller.
EndUnassigned(t) ==
    /\ Room(trips[t].server)
    /\ trips[t].status \in {"requested", "matching"}
    /\ Enter(t, "ended", 2)
    /\ UNCHANGED <<environment, up, owed, sweep, redisVars, old, disarmed>>

\* cancelRide of a trip with a driver: saved by onTransition, and again once
\* completeTrip of the registry has been awaited.
CancelAssigned(t) ==
    /\ Room(trips[t].server)
    /\ trips[t].status = "matched"
    /\ Enter(t, "ended", 1)
    /\ owed' = owed \cup {t}
    /\ UNCHANGED <<environment, up, sweep, redisVars, old, disarmed>>

\* cancelRide of a trip that has ended saves it all the same.
RepeatCancel(t) ==
    /\ "resend" \in environment
    /\ Room(trips[t].server)
    /\ trips[t].status = "ended" /\ IsLatest(t)
    /\ owed' = owed \cup {t}
    /\ UNCHANGED <<environment, up, trips, wire, sweep, redisVars, old, disarmed>>

SaveAgain(t) ==
    /\ t \in owed
    /\ owed' = owed \ {t}
    /\ Enter(t, "ended", 1)
    /\ UNCHANGED <<environment, up, sweep, redisVars, old, disarmed>>

-----------------------------------------------------------------------------
(* Redis executes the first command of a server's connection *)

Runs(s, op) == wire[s] # <<>> /\ Head(wire[s]).op = op

\* The rest of the connection, with what follows behind it or in front of it.
Then(s, commands) == wire' = [wire EXCEPT ![s] = Tail(@) \o commands]
ThenFirst(s, commands) == wire' = [wire EXCEPT ![s] = commands \o Tail(@)]

\* requestRide once the store has answered with success: matching, and saved by
\* onTransition, if the trip is still in requested.
Continue(s, t) ==
    IF trips[t].status = "requested"
    THEN /\ trips' = [trips EXCEPT ![t].status = "matching"]
         /\ Then(s, SaveTrip(t, trips[t].rider, "matching"))
    ELSE UNCHANGED trips /\ Then(s, <<>>)

\* requestRide once the store has refused: cancelTrip, saved by onTransition.
RollBack(s, t) ==
    IF trips[t].status = "requested"
    THEN /\ trips' = [trips EXCEPT ![t].status = "ended"]
         /\ Then(s, SaveTrip(t, trips[t].rider, "ended"))
    ELSE UNCHANGED trips /\ Then(s, <<>>)

\* Mutant: SET of the rider's key without NX.
ClaimedNever(r) == FALSE
Claimed(r) == claim[r] # None

\* create_trip.lua: 1 a known request, 0 a rider with a trip, 2 a new trip.
RunCreate(s) ==
    /\ Runs(s, "create")
    /\ LET command == Head(wire[s])
           t == command.trip
           r == trips[t].rider
           q == trips[t].request
       IN  \/ /\ requestKey[q] # None
              /\ Then(s, <<Cmd("reread", t)>>)
              /\ UNCHANGED <<trips, redisVars>>
           \/ /\ requestKey[q] = None
              /\ Claimed(r)
              /\ RollBack(s, t)
              /\ UNCHANGED redisVars
           \/ /\ requestKey[q] = None
              /\ ~Claimed(r)
              /\ claim' = [claim EXCEPT ![r] = t]
              /\ requestKey' = [requestKey EXCEPT ![q] = t]
              /\ record' = [record EXCEPT ![t] = command.status]
              /\ active' = active \cup {t}
              /\ Continue(s, t)
    /\ UNCHANGED <<environment, up, owed, sweep, old, disarmed>>

\* createTrip of the store reads the trip of a known request; requestRide ignores
\* which trip that is and goes on with its own.
RunReread(s) ==
    /\ Runs(s, "reread")
    /\ Continue(s, Head(wire[s]).trip)
    /\ UNCHANGED <<environment, up, owed, sweep, redisVars, old, disarmed>>

RunSet(s) ==
    /\ Runs(s, "set")
    /\ record' = [record EXCEPT ![Head(wire[s]).trip] = Head(wire[s]).status]
    /\ Then(s, <<>>)
    /\ UNCHANGED <<environment, memoryVars, sweep, requestKey, claim, active, old, disarmed>>

RunSadd(s) ==
    /\ Runs(s, "sadd")
    /\ active' = active \cup {Head(wire[s]).trip}
    /\ Then(s, <<>>)
    /\ UNCHANGED <<environment, memoryVars, sweep, record, requestKey, claim, old, disarmed>>

RunSrem(s) ==
    /\ Runs(s, "srem")
    /\ active' = active \ {Head(wire[s]).trip}
    /\ Then(s, <<>>)
    /\ UNCHANGED <<environment, memoryVars, sweep, record, requestKey, claim, old, disarmed>>

\* A rider's key goes, whatever trip it names.
TakeKey(r) ==
    /\ claim' = [claim EXCEPT ![r] = None]
    /\ disarmed' = IF claim[r] # None /\ trips[claim[r]].status \in Open
                   THEN disarmed \cup {r} ELSE disarmed

RunDel(s) ==
    /\ Runs(s, "del")
    /\ TakeKey(Head(wire[s]).rider)
    /\ Then(s, <<>>)
    /\ UNCHANGED <<environment, memoryVars, sweep, record, requestKey, active, old>>

\* A key lapses two hours after its creation, whatever has become of its trip:
\* no later write renews it.
ExpireClaim(r) ==
    /\ "lapse" \in environment
    /\ claim[r] # None
    /\ TakeKey(r)
    /\ UNCHANGED <<environment, memoryVars, wire, sweep, record, requestKey, active, old>>

-----------------------------------------------------------------------------
(* Crash, restart and reconcileOrphanedTrips *)

\* The memory of the server and what it had not got through to Redis are gone.
Crash(s) ==
    /\ "restart" \in environment
    /\ up[s] \in {"up", "reconciling"}
    /\ up' = [up EXCEPT ![s] = "down"]
    /\ trips' = [t \in Created |->
            IF trips[t].server = s THEN [trips[t] EXCEPT !.status = "lost"] ELSE trips[t]]
    /\ owed' = {t \in owed : trips[t].server # s}
    /\ wire' = [wire EXCEPT ![s] = <<>>]
    /\ sweep' = [sweep EXCEPT ![s] = NothingRead]
    /\ UNCHANGED <<environment, redisVars, old, disarmed>>

\* A minute passes over every trip there is.
Age ==
    /\ "restart" \in environment
    /\ old # Created
    /\ old' = Created
    /\ UNCHANGED <<environment, memoryVars, wire, sweep, redisVars, disarmed>>

\* reconcileOrphanedTrips notes the time and asks for trip:active.
Start(s) ==
    /\ up[s] = "down"
    /\ up' = [up EXCEPT ![s] = "reconciling"]
    /\ sweep' = [sweep EXCEPT ![s] = [ids |-> {}, stale |-> old]]
    /\ wire' = [wire EXCEPT ![s] = <<Cmd("smembers", None)>>]
    /\ UNCHANGED <<environment, trips, owed, redisVars, old, disarmed>>

\* SMEMBERS, then SCAN for the rider keys, then one pass over either.
RunSmembers(s) ==
    /\ Runs(s, "smembers")
    /\ sweep' = [sweep EXCEPT ![s].ids = active]
    /\ ThenFirst(s, <<Cmd("scan", None)>>)
    /\ UNCHANGED <<environment, memoryVars, redisVars, old, disarmed>>

RunScan(s) ==
    /\ Runs(s, "scan")
    /\ \E keys \in SetToSeqs({r \in Riders : claim[r] # None}) :
        ThenFirst(s, [i \in DOMAIN keys |-> CmdRider("key", keys[i])]
                        \o [i \in 1..Cardinality(sweep[s].ids) |->
                                Cmd("orphan", SetToSeq(sweep[s].ids)[i])])
    /\ UNCHANGED <<environment, memoryVars, sweep, redisVars, old, disarmed>>

\* A key whose trip is not in the list goes; for any other the trip is read.
RunKey(s) ==
    /\ Runs(s, "key")
    /\ LET r == Head(wire[s]).rider
       IN  ThenFirst(s, IF claim[r] \in sweep[s].ids
                        THEN <<[op |-> "trip", trip |-> claim[r], rider |-> r]>>
                        ELSE <<CmdRider("del", r)>>)
    /\ UNCHANGED <<environment, memoryVars, sweep, redisVars, old, disarmed>>

\* What is done about a trip of the list: cancelled first if it is stale.
Finished(s, t) == record[t] = None \/ record[t] = "ended" \/ t \in sweep[s].stale
Cancelling(t) ==
    IF record[t] \in {None, "ended"} THEN <<>> ELSE <<CmdSet(t, "ended")>>

RunTrip(s) ==
    /\ Runs(s, "trip")
    /\ LET t == Head(wire[s]).trip
           r == Head(wire[s]).rider
       IN  ThenFirst(s, IF Finished(s, t)
                        THEN Cancelling(t) \o <<CmdRider("del", r), Cmd("srem", t)>>
                        ELSE <<>>)
    /\ UNCHANGED <<environment, memoryVars, sweep, redisVars, old, disarmed>>

\* Mutant: only a trip without a record is taken off the list.
SweptMissing(s, t) == IF record[t] = None THEN <<Cmd("srem", t)>> ELSE <<>>

\* The second pass; the rider is known from the record.
Swept(s, t) ==
    IF ~Finished(s, t) THEN <<>>
    ELSE Cancelling(t) \o <<Cmd("srem", t)>>
            \o IF record[t] = None THEN <<>> ELSE <<CmdRider("del", trips[t].rider)>>

RunOrphan(s) ==
    /\ Runs(s, "orphan")
    /\ ThenFirst(s, Swept(s, Head(wire[s]).trip))
    /\ UNCHANGED <<environment, memoryVars, sweep, redisVars, old, disarmed>>

Listen(s) ==
    /\ up[s] = "reconciling"
    /\ wire[s] = <<>>
    /\ up' = [up EXCEPT ![s] = "up"]
    /\ sweep' = [sweep EXCEPT ![s] = NothingRead]
    /\ UNCHANGED <<environment, trips, owed, wire, redisVars, old, disarmed>>

-----------------------------------------------------------------------------
Execute(s) ==
    \/ RunCreate(s) \/ RunReread(s)
    \/ RunSet(s) \/ RunSadd(s) \/ RunSrem(s) \/ RunDel(s)
    \/ RunSmembers(s) \/ RunScan(s) \/ RunKey(s) \/ RunTrip(s) \/ RunOrphan(s)

TripStep(t) ==
    \/ Match(t) \/ Progress(t) \/ CompleteTrip(t) \/ EndUnassigned(t)
    \/ CancelAssigned(t) \/ RepeatCancel(t) \/ SaveAgain(t)

Next ==
    \/ \E s \in Servers : \/ Execute(s)
                          \/ Crash(s) \/ Start(s) \/ Listen(s)
                          \/ \E r \in Riders : RequestRide(s, r)
                          \/ \E q \in Created : ResendRequest(s, q)
    \/ \E t \in Created : TripStep(t)
    \/ \E r \in Riders : ExpireClaim(r)
    \/ Age

Spec == Init /\ [][Next]_vars

-----------------------------------------------------------------------------
(* Properties *)

TypeOK ==
    /\ environment \in Environments
    /\ up \in [Servers -> {"absent", "down", "reconciling", "up"}]
    /\ Len(trips) \in 0..MaxTrips
    /\ \A t \in Created : trips[t] \in
            [rider : Riders, request : TripIds, server : Servers,
             status : Open \cup {"ended", "lost"}]
    /\ record \in [TripIds -> Open \cup {"ended", None}]
    /\ requestKey \in [TripIds -> TripIds \cup {None}]
    /\ claim \in [Riders -> TripIds \cup {None}]
    /\ active \subseteq Created
    /\ owed \subseteq Created
    /\ old \subseteq Created

\* No server is waiting for Redis and none is in the middle of a handler.
Quiet ==
    /\ \A s \in Servers : wire[s] = <<>> /\ up[s] # "reconciling"
    /\ owed = {}

\* A server restarts, and no other serves meanwhile.
RestartsAlone == ~({"two", "restart"} \subseteq environment)

\* Once the pipelines have drained, Redis holds every open trip of a running
\* server with the status it has in memory, and lists it as active: whatever the
\* interleaving of saveTrip calls, repeated requests and lone restarts, also for
\* the trip that a restarted server makes of a request it has forgotten.
LiveTripsRecorded ==
    Quiet /\ RestartsAlone =>
        \A t \in Created : trips[t].status \in Open =>
            record[t] = trips[t].status /\ t \in active

\* "Clean release on termination": once the pipelines have drained, no rider's key
\* names a trip that a server has ended, so that no rider is locked out of a new
\* request by a trip that is over.  It takes clients that do not repeat requests: a
\* repeated request whose trip was refused claims the rider for the dead trip.
NoLockout ==
    Quiet /\ "resend" \notin environment /\ "restart" \notin environment =>
        \A r \in Riders : claim[r] # None => trips[claim[r]].status \in Open

\* The invariants that the repository's tests audit (tests/helpers/
\* redis_invariants.ts:20 and :39), while no server restarts and no request is
\* repeated, whether or not keys lapse: an active trip has a record that is not
\* terminal, and the trip a rider's key names is active.
StoreConsistent ==
    Quiet /\ environment \subseteq {"two", "lapse"} =>
        /\ \A t \in active : record[t] \in Open
        /\ \A r \in Riders : claim[r] # None => claim[r] \in active

\* A rider whose key has not gone while the trip it named was open is protected by
\* it, with any number of servers, restarts and repeated requests: an open trip
\* that the store granted is the one the key names, so there are not two of them.
\* The DEL that does not compare, and the two hours after which the key lapses under
\* a trip that is still open, are the ways out of "one active trip per rider".
ClaimProtects ==
    \A t \in Created :
        /\ trips[t].status \in Open
        /\ requestKey[trips[t].request] = t
        /\ trips[t].rider \notin disarmed
        => claim[trips[t].rider] = t

\* When a restarted server opens its port, the trips that its crash left behind
\* more than a minute before, open or ended with their last writes lost, are neither
\* active nor claimed: their riders can order again, whatever another server was
\* doing meanwhile.
OrphansSwept ==
    [][\A s \in Servers : Listen(s) =>
        \A t \in sweep[s].stale : Is(t, s, {"lost"}) =>
            t \notin active /\ \A r \in Riders : claim[r] # t]_vars

\* "One active trip per rider" (redis_trip_store.ts:4), cluster-wide: no two
\* servers dispatch drivers to the same rider.
OneTripPerRider ==
    \A t, u \in Created :
        /\ trips[t].rider = trips[u].rider
        /\ {trips[t].status, trips[u].status} \subseteq {"matching", "matched"}
        => t = u

=============================================================================
