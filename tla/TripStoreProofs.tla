--------------------------- MODULE TripStoreProofs ---------------------------
(***************************************************************************)
(* What the store promises for any number of servers, riders and trips.    *)
(*                                                                         *)
(* 1. A rider's key protects the trip it names, through crashes, restarts  *)
(* and repeated requests, until a DEL takes it or it lapses.  The property *)
(* is almost inductive: it needs to be known that only trips that exist    *)
(* are offered to the store, so that no key and no request id names a trip *)
(* before it is created.                                                   *)
(*                                                                         *)
(* 2. What Redis holds once the pipelines have drained.  While they have   *)
(* not, nothing can be said of Redis alone, so that the invariant speaks   *)
(* of Redis and of the commands under way together: the commands that a    *)
(* connection holds decide about a trip (Decided), that is, the last of    *)
(* them that matters has the effect that the last status calls for, or     *)
(* none of them matters and the effect is there already.  Appending to a   *)
(* connection and executing its first command both preserve that, and of   *)
(* an empty connection it says what Redis holds.                           *)
(*                                                                         *)
(* 3. The reconciliation after a restart: for every stale trip of the      *)
(* server the connection holds a command that leads, over some more        *)
(* commands, to its removal from the list and of its rider's key.          *)
(*                                                                         *)
(* 4. When a rider has one trip.  Two trips of a rider are dispatched by   *)
(* two servers (HereInv: one server's memory has one open trip of the      *)
(* rider), and a trip is dispatched only if its own script was granted the *)
(* key, or the request id named another trip already.  So the violation    *)
(* needs two servers, and a repeated request, a DEL under an open trip or  *)
(* a trip that outlives the two hours of its key.                          *)
(***************************************************************************)
EXTENDS TripStore, FiniteSetTheorems, SequenceTheorems, TLAPS

Statuses == Open \cup {"ended", "lost"}
Trip == [rider : Riders, request : TripIds, server : Servers, status : Statuses]

\* Commands that name a trip in a way that matters name one that exists.
GoodWire(w, ids) ==
    \E S : /\ w \in Seq(S)
           /\ \A c \in S : c.op \in {"create", "reread", "sadd"} => c.trip \in ids

TripsTyped ==
    /\ environment \in Environments
    /\ trips \in Seq(Trip)
    /\ Len(trips) <= MaxTrips

RedisTyped ==
    /\ requestKey \in [TripIds -> Created \cup {None}]
    /\ claim \in [Riders -> Created \cup {None}]
    /\ active \subseteq TripIds

WireTyped ==
    /\ DOMAIN wire = Servers
    /\ \A s \in Servers : GoodWire(wire[s], Created)

SweepTyped ==
    /\ sweep \in [Servers -> [ids : SUBSET TripIds, stale : SUBSET TripIds]]
    /\ old \subseteq TripIds

Typed == TripsTyped /\ RedisTyped /\ WireTyped /\ SweepTyped

StoreInv == Typed /\ ClaimProtects

-----------------------------------------------------------------------------
(* Sequences of commands *)

LEMMA CreatedIds == ASSUME TripsTyped PROVE Created = 1..Len(trips) /\ Created \subseteq TripIds
BY StoreAssumption DEF TripsTyped, Created, TripIds

LEMMA GoodIf ==
  ASSUME NEW w, NEW ids, NEW S, w \in Seq(S),
         \A c \in S : c.op \in {"create", "reread", "sadd"} => c.trip \in ids
  PROVE  GoodWire(w, ids)
BY Zenon DEF GoodWire

LEMMA GoodConcat ==
  ASSUME NEW v, NEW w, NEW ids, GoodWire(v, ids), GoodWire(w, ids)
  PROVE  GoodWire(v \o w, ids)
<1>1. PICK S : v \in Seq(S) /\ \A c \in S : c.op \in {"create", "reread", "sadd"} => c.trip \in ids
  BY DEF GoodWire
<1>2. PICK T : w \in Seq(T) /\ \A c \in T : c.op \in {"create", "reread", "sadd"} => c.trip \in ids
  BY DEF GoodWire
<1>3. v \in Seq(S \cup T) /\ w \in Seq(S \cup T)
  BY <1>1, <1>2
<1>4. v \o w \in Seq(S \cup T)
  BY <1>3
<1> QED
  BY <1>1, <1>2, <1>4 DEF GoodWire

LEMMA GoodTail ==
  ASSUME NEW w, NEW ids, GoodWire(w, ids), w # <<>>
  PROVE  /\ GoodWire(Tail(w), ids)
         /\ Head(w).op \in {"create", "reread", "sadd"} => Head(w).trip \in ids
<1>1. PICK S : w \in Seq(S) /\ \A c \in S : c.op \in {"create", "reread", "sadd"} => c.trip \in ids
  BY DEF GoodWire
<1>2. Tail(w) \in Seq(S) /\ Head(w) \in S
  BY <1>1
<1> QED
  BY <1>1, <1>2 DEF GoodWire

LEMMA GoodMore ==
  ASSUME NEW w, NEW ids, NEW more, GoodWire(w, ids), ids \subseteq more
  PROVE  GoodWire(w, more)
BY DEF GoodWire

LEMMA GoodEmpty == ASSUME NEW ids PROVE GoodWire(<<>>, ids)
<1> DEFINE S == {}
<1>1. <<>> \in Seq(S)
  OBVIOUS
<1>2. \A c \in S : c.op \in {"create", "reread", "sadd"} => c.trip \in ids
  OBVIOUS
<1> HIDE DEF S
<1> QED
  BY <1>1, <1>2, GoodIf

LEMMA GoodOne ==
  ASSUME NEW c, NEW ids, c.op \in {"create", "reread", "sadd"} => c.trip \in ids
  PROVE  GoodWire(<<c>>, ids)
<1> DEFINE S == {c}
<1>1. <<c>> \in Seq(S)
  OBVIOUS
<1>2. \A b \in S : b.op \in {"create", "reread", "sadd"} => b.trip \in ids
  OBVIOUS
<1> HIDE DEF S
<1> QED
  BY <1>1, <1>2, GoodIf

LEMMA GoodAppend ==
  ASSUME NEW w, NEW c, NEW ids, GoodWire(w, ids),
         c.op \in {"create", "reread", "sadd"} => c.trip \in ids
  PROVE  GoodWire(Append(w, c), ids)
<1>1. PICK S : w \in Seq(S) /\ \A b \in S : b.op \in {"create", "reread", "sadd"} => b.trip \in ids
  BY DEF GoodWire
<1>2. w \in Seq(S \cup {c}) /\ c \in S \cup {c}
  BY <1>1
<1>3. Append(w, c) \in Seq(S \cup {c})
  BY <1>2
<1> QED
  BY <1>1, <1>3 DEF GoodWire

LEMMA GoodSave ==
  ASSUME NEW t, NEW r, NEW status, NEW ids, t \in ids
  PROVE  GoodWire(SaveTrip(t, r, status), ids)
<1>1. GoodWire(<<CmdSet(t, status)>>, ids)
  BY GoodOne DEF CmdSet
<1>2. GoodWire(<<Cmd("sadd", t)>>, ids)
  BY GoodOne DEF Cmd
<1>3. GoodWire(<<Cmd("srem", t), CmdRider("del", r)>>, ids)
  <2> DEFINE S == {Cmd("srem", t), CmdRider("del", r)}
  <2>1. <<Cmd("srem", t), CmdRider("del", r)>> \in Seq(S)
    OBVIOUS
  <2>2. \A c \in S : c.op \notin {"create", "reread", "sadd"}
    BY DEF Cmd, CmdRider
  <2> HIDE DEF S
  <2> QED
    BY <2>1, <2>2, GoodIf
<1> QED
  BY <1>1, <1>2, <1>3, GoodConcat DEF SaveTrip

\* A step that gives one connection a good sequence keeps all of them good.
LEMMA WireStep ==
  ASSUME WireTyped, NEW s \in Servers, NEW w, wire' = [wire EXCEPT ![s] = w],
         GoodWire(w, Created'), Created \subseteq Created'
  PROVE  WireTyped'
<1>1. DOMAIN wire' = Servers
  BY DEF WireTyped
<1>2. ASSUME NEW z \in Servers PROVE GoodWire(wire'[z], Created')
  <2>1. CASE z = s
    BY <2>1 DEF WireTyped
  <2>2. CASE z # s
    BY <2>2, GoodMore DEF WireTyped
  <2> QED
    BY <2>1, <2>2
<1> QED
  BY <1>1, <1>2 DEF WireTyped

\* The head of a connection is executed and other commands take its place.
LEMMA ThenWire ==
  ASSUME Typed, NEW s \in Servers, wire[s] # <<>>, NEW commands,
         GoodWire(commands, Created), Then(s, commands) \/ ThenFirst(s, commands),
         Created' = Created
  PROVE  WireTyped'
<1>1. GoodWire(wire[s], Created)
  BY DEF Typed, WireTyped
<1>2. GoodWire(Tail(wire[s]), Created)
  BY <1>1, GoodTail
<1>3. GoodWire(Tail(wire[s]) \o commands, Created) /\ GoodWire(commands \o Tail(wire[s]), Created)
  BY <1>2, GoodConcat
<1>4. PICK w \in {Tail(wire[s]) \o commands, commands \o Tail(wire[s])} :
        wire' = [wire EXCEPT ![s] = w]
  BY DEF Then, ThenFirst
<1> QED
  BY <1>3, <1>4, WireStep DEF Typed

\* The passes of a reconciliation are lists of commands that name no trip that
\* must exist.
LEMMA GoodList ==
  ASSUME NEW n \in Nat, NEW f, DOMAIN f = 1..n, f = [i \in 1..n |-> f[i]], NEW ids,
         \A i \in 1..n : f[i].op \notin {"create", "reread", "sadd"}
  PROVE  GoodWire(f, ids)
<1> DEFINE S == {f[i] : i \in 1..n}
<1>1. f \in [1..n -> S]
  OBVIOUS
<1>2. \A c \in S : c.op \in {"create", "reread", "sadd"} => c.trip \in ids
  OBVIOUS
<1> HIDE DEF S
<1>3. f \in Seq(S)
  BY <1>1, SeqDef
<1> QED
  BY <1>2, <1>3, GoodIf

-----------------------------------------------------------------------------
(* Trips change their status, and never back to an open one *)

\* What every step does with the trips that exist, as far as the property sees.
SameTrips ==
    /\ Created' = Created
    /\ \A u \in Created :
        /\ trips'[u].rider = trips[u].rider
        /\ trips'[u].request = trips[u].request
        /\ trips'[u].status \in Open => trips[u].status \in Open

LEMMA StatusStep ==
  ASSUME TripsTyped, NEW t \in Created, NEW status \in Statuses,
         trips' = [trips EXCEPT ![t].status = status], UNCHANGED environment,
         status \in Open => trips[t].status \in Open
  PROVE  TripsTyped' /\ SameTrips
<1>1. t \in 1..Len(trips) /\ trips[t] \in Trip
  BY CreatedIds DEF TripsTyped
<1>2. [trips[t] EXCEPT !.status = status] \in Trip
  BY <1>1 DEF Trip
<1>3. trips' = [trips EXCEPT ![t] = [trips[t] EXCEPT !.status = status]]
  OBVIOUS
<1>4. trips' \in Seq(Trip) /\ Len(trips') = Len(trips)
  BY <1>1, <1>2, <1>3, ExceptSeq DEF TripsTyped
<1>5. Created' = Created
  BY DEF Created
<1>6. ASSUME NEW u \in Created
      PROVE  /\ trips'[u].rider = trips[u].rider
             /\ trips'[u].request = trips[u].request
             /\ trips'[u].status \in Open => trips[u].status \in Open
  <2>1. trips[u] \in Trip
    BY CreatedIds DEF TripsTyped
  <2>2. CASE u = t
    BY <1>3, <2>1, <2>2 DEF Trip, Created
  <2>3. CASE u # t
    BY <1>3, <2>3 DEF Created
  <2> QED
    BY <2>2, <2>3
<1> QED
  BY <1>4, <1>5, <1>6 DEF TripsTyped, SameTrips

LEMMA SameNoTrips ==
  ASSUME TripsTyped, UNCHANGED <<environment, trips>>
  PROVE  TripsTyped' /\ SameTrips
BY DEF TripsTyped, SameTrips, Created

\* While no key changes, nobody loses protection.
LEMMA Protected ==
  ASSUME ClaimProtects, SameTrips, UNCHANGED <<requestKey, claim, disarmed>>
  PROVE  ClaimProtects'
BY DEF ClaimProtects, SameTrips

\* A step that touches neither keys nor sweeps.
LEMMA MemoryStep ==
  ASSUME StoreInv, TripsTyped', SameTrips, WireTyped',
         UNCHANGED <<sweep, redisVars, old, disarmed>>
  PROVE  StoreInv'
<1>1. RedisTyped' /\ SweepTyped'
  BY DEF StoreInv, Typed, RedisTyped, SweepTyped, redisVars, SameTrips
<1>2. ClaimProtects'
  BY Protected DEF StoreInv, redisVars
<1> QED
  BY <1>1, <1>2 DEF StoreInv, Typed

\* The handlers of a trip: a new status, saved once or twice.
LEMMA EnterStep ==
  ASSUME StoreInv, NEW t \in Created, NEW status \in Statuses, NEW n,
         status \in Open => trips[t].status \in Open,
         Enter(t, status, n),
         UNCHANGED <<environment, sweep, redisVars, old, disarmed>>
  PROVE  StoreInv'
<1> DEFINE z == trips[t].server
           save == SaveTrip(t, trips[t].rider, status)
<1>1. TripsTyped' /\ SameTrips
  BY StatusStep DEF StoreInv, Typed, Enter
<1>2. GoodWire(save, Created') /\ GoodWire(save \o save, Created')
  BY <1>1, GoodSave, GoodConcat DEF SameTrips
<1>3. z \in Servers
  <2>1. trips[t] \in Trip
    BY CreatedIds DEF StoreInv, Typed, TripsTyped
  <2> QED
    BY <2>1 DEF Trip
<1>4. GoodWire(wire[z], Created')
  BY <1>1, <1>3 DEF StoreInv, Typed, WireTyped, SameTrips
<1> HIDE DEF z, save
<1>5. PICK more \in {save, save \o save} : wire' = [wire EXCEPT ![z] = wire[z] \o more]
  BY DEF Enter, z, save
<1>6. GoodWire(wire[z] \o more, Created')
  BY <1>2, <1>4, <1>5, GoodConcat
<1>7. WireTyped'
  BY <1>1, <1>3, <1>5, <1>6, WireStep DEF StoreInv, Typed, SameTrips
<1> QED
  BY <1>1, <1>7, MemoryStep

\* requestRide goes on, or gives up, after an answer of the store.
LEMMA AnswerStep ==
  ASSUME StoreInv, NEW s \in Servers, wire[s] # <<>>, NEW t \in Created,
         Continue(s, t) \/ RollBack(s, t), UNCHANGED environment
  PROVE  TripsTyped' /\ SameTrips /\ WireTyped'
<1>1. CASE trips[t].status = "requested"
  <2>1. PICK status \in {"matching", "ended"} :
          /\ trips' = [trips EXCEPT ![t].status = status]
          /\ Then(s, SaveTrip(t, trips[t].rider, status))
    BY <1>1 DEF Continue, RollBack
  <2>2. status \in Statuses /\ (status \in Open => trips[t].status \in Open)
    BY <1>1 DEF Statuses, Open
  <2>3. TripsTyped' /\ SameTrips
    BY <2>1, <2>2, StatusStep DEF StoreInv, Typed
  <2>4. GoodWire(SaveTrip(t, trips[t].rider, status), Created)
    BY GoodSave
  <2>5. WireTyped'
    BY <2>1, <2>3, <2>4, ThenWire DEF StoreInv, SameTrips
  <2> QED
    BY <2>3, <2>5
<1>2. CASE trips[t].status # "requested"
  <2>1. UNCHANGED trips /\ Then(s, <<>>)
    BY <1>2 DEF Continue, RollBack
  <2>2. TripsTyped' /\ SameTrips
    BY <2>1, SameNoTrips DEF StoreInv, Typed
  <2>3. WireTyped'
    BY <2>1, <2>2, GoodEmpty, ThenWire DEF StoreInv, SameTrips
  <2> QED
    BY <2>2, <2>3
<1> QED
  BY <1>1, <1>2

\* A command is executed that leaves the memory of the servers alone.
LEMMA CommandStep ==
  ASSUME StoreInv, NEW s \in Servers, wire[s] # <<>>, NEW commands,
         GoodWire(commands, Created), Then(s, commands) \/ ThenFirst(s, commands),
         UNCHANGED <<environment, trips>>
  PROVE  TripsTyped' /\ SameTrips /\ WireTyped'
<1>1. TripsTyped' /\ SameTrips
  BY SameNoTrips DEF StoreInv, Typed
<1>2. WireTyped'
  BY <1>1, ThenWire DEF StoreInv, SameTrips
<1> QED
  BY <1>1, <1>2

-----------------------------------------------------------------------------
(* Requests *)

\* A new trip is not protected yet: no request id names it.
LEMMA NewTripInv ==
  ASSUME StoreInv, NEW s \in Servers, NEW r \in Riders, NEW q \in TripIds,
         NewTrip(s, r, q), UNCHANGED <<environment, sweep, redisVars, old, disarmed>>
  PROVE  StoreInv'
<1> DEFINE n == Len(trips) + 1
           trip == [rider |-> r, request |-> q, server |-> s, status |-> "requested"]
           command == [op |-> "create", trip |-> n, status |-> "requested"]
<1>1. n \in TripIds /\ n \notin Created /\ n # None
  BY StoreAssumption DEF StoreInv, Typed, TripsTyped, NewTrip, TripIds, Created
<1>2. trip \in Trip
  BY DEF Trip, Statuses, Open
<1>3. /\ TripsTyped'
      /\ Created' = Created \cup {n}
      /\ \A u \in Created : trips'[u] = trips[u]
      /\ trips'[n] = trip
  <2>1. trips' = Append(trips, trip)
    BY DEF NewTrip
  <2>2. trips \in Seq(Trip) /\ Len(trips) + 1 <= MaxTrips
    BY <1>1, StoreAssumption DEF StoreInv, Typed, TripsTyped, TripIds
  <2> HIDE DEF trip
  <2>3. /\ trips' \in Seq(Trip)
        /\ Len(trips') = Len(trips) + 1
        /\ \A i \in 1..Len(trips) : trips'[i] = trips[i]
        /\ trips'[Len(trips) + 1] = trip
    BY <1>2, <2>1, <2>2
  <2>4. Created = 1..Len(trips) /\ Created' = 1..Len(trips)+1
    BY <2>2, <2>3 DEF Created
  <2> QED
    BY <2>2, <2>3, <2>4 DEF StoreInv, Typed, TripsTyped
<1>4. WireTyped'
  <2>1. GoodWire(wire[s], Created')
    BY <1>3, GoodMore DEF StoreInv, Typed, WireTyped
  <2>2. command.op \in {"create", "reread", "sadd"} => command.trip \in Created'
    BY <1>3
  <2>3. wire' = [wire EXCEPT ![s] = Append(wire[s], command)]
    BY DEF NewTrip
  <2> HIDE DEF command
  <2>4. GoodWire(Append(wire[s], command), Created')
    BY <2>1, <2>2, GoodAppend
  <2> QED
    BY <1>3, <2>3, <2>4, WireStep DEF StoreInv, Typed
<1>5. RedisTyped' /\ SweepTyped'
  BY <1>3 DEF StoreInv, Typed, RedisTyped, SweepTyped, redisVars
<1>6. ClaimProtects'
  <2>1. requestKey[q] # n
    BY <1>1 DEF StoreInv, Typed, RedisTyped
  <2>2. UNCHANGED <<requestKey, claim, disarmed>>
    BY DEF redisVars
  <2> QED
    BY <1>3, <2>1, <2>2 DEF StoreInv, ClaimProtects
<1> QED
  BY <1>3, <1>4, <1>5, <1>6 DEF StoreInv, Typed

LEMMA RequestRideInv ==
  ASSUME StoreInv, NEW s \in Servers, NEW r \in Riders, RequestRide(s, r)
  PROVE  StoreInv'
<1>1. Len(trips) + 1 \in TripIds
  BY StoreAssumption DEF StoreInv, Typed, TripsTyped, RequestRide, NewTrip, TripIds
<1> QED
  BY <1>1, NewTripInv DEF RequestRide

LEMMA ResendRequestInv ==
  ASSUME StoreInv, NEW s \in Servers, NEW q \in Created, ResendRequest(s, q)
  PROVE  StoreInv'
<1>1. CASE NewTrip(s, trips[q].rider, q)
  <2>1. q \in TripIds /\ trips[q] \in Trip
    BY CreatedIds DEF StoreInv, Typed, TripsTyped
  <2>2. trips[q].rider \in Riders
    BY <2>1 DEF Trip
  <2> QED
    BY <1>1, <2>1, <2>2, NewTripInv DEF ResendRequest
<1>2. ASSUME NEW t \in Created, UNCHANGED trips,
             wire' = [wire EXCEPT ![s] = Append(wire[s],
                        [op |-> "create", trip |-> t, status |-> trips[t].status])]
      PROVE  StoreInv'
  <2> DEFINE command == [op |-> "create", trip |-> t, status |-> trips[t].status]
  <2>1. command.op \in {"create", "reread", "sadd"} => command.trip \in Created
    OBVIOUS
  <2> HIDE DEF command
  <2>2. TripsTyped' /\ SameTrips
    BY <1>2, SameNoTrips DEF StoreInv, Typed, ResendRequest
  <2>3. GoodWire(Append(wire[s], command), Created')
    BY <2>1, <2>2, GoodAppend DEF StoreInv, Typed, WireTyped, SameTrips
  <2>4. WireTyped'
    BY <1>2, <2>2, <2>3, WireStep DEF StoreInv, Typed, SameTrips, command
  <2> QED
    BY <2>2, <2>4, MemoryStep DEF ResendRequest
<1>3. \/ NewTrip(s, trips[q].rider, q)
      \/ \E t \in Created : /\ UNCHANGED trips
                            /\ wire' = [wire EXCEPT ![s] = Append(wire[s],
                                [op |-> "create", trip |-> t, status |-> trips[t].status])]
  BY DEF ResendRequest, Here
<1> QED
  BY <1>1, <1>2, <1>3

-----------------------------------------------------------------------------
(* The handlers of a trip *)

LEMMA TripStepInv ==
  ASSUME StoreInv, NEW t \in Created, TripStep(t)
  PROVE  StoreInv'
<1>1. CASE Match(t)
  BY <1>1, EnterStep DEF Match, Statuses, Open
<1>2. CASE Progress(t)
  BY <1>2, EnterStep DEF Progress, Statuses, Open
<1>3. CASE CompleteTrip(t)
  BY <1>3, EnterStep DEF CompleteTrip, Statuses, Open
<1>4. CASE EndUnassigned(t)
  BY <1>4, EnterStep DEF EndUnassigned, Statuses, Open
<1>5. CASE CancelAssigned(t)
  BY <1>5, EnterStep DEF CancelAssigned, Statuses, Open
<1>6. CASE RepeatCancel(t)
  <2>1. TripsTyped' /\ SameTrips
    BY <1>6, SameNoTrips DEF RepeatCancel, StoreInv, Typed
  <2>2. WireTyped'
    BY <1>6, <2>1 DEF RepeatCancel, StoreInv, Typed, WireTyped, SameTrips
  <2> QED
    BY <1>6, <2>1, <2>2, MemoryStep DEF RepeatCancel
<1>7. CASE SaveAgain(t)
  BY <1>7, EnterStep DEF SaveAgain, Statuses, Open
<1> QED
  BY <1>1, <1>2, <1>3, <1>4, <1>5, <1>6, <1>7 DEF TripStep

-----------------------------------------------------------------------------
(* Commands *)

\* The script claims the rider's key only when it is free: nobody else was
\* protected by it.
LEMMA RunCreateInv ==
  ASSUME StoreInv, NEW s \in Servers, RunCreate(s)
  PROVE  StoreInv'
<1> DEFINE c == Head(wire[s])
           t == c.trip
           r == trips[t].rider
           q == trips[t].request
<1>1. wire[s] # <<>> /\ t \in Created
  BY GoodTail DEF RunCreate, Runs, StoreInv, Typed, WireTyped
<1>2. r \in Riders /\ q \in TripIds /\ t \in TripIds /\ t # None
  <2>1. trips[t] \in Trip /\ t \in TripIds
    BY <1>1, CreatedIds DEF StoreInv, Typed, TripsTyped
  <2> QED
    BY <2>1, StoreAssumption DEF Trip
<1> HIDE DEF c, t, r, q
<1>3. CASE Then(s, <<Cmd("reread", t)>>) /\ UNCHANGED <<trips, redisVars>>
  <2>1. GoodWire(<<Cmd("reread", t)>>, Created)
    BY <1>1, GoodOne DEF Cmd
  <2>2. TripsTyped' /\ SameTrips /\ WireTyped'
    BY <1>1, <1>3, <2>1, CommandStep DEF RunCreate
  <2> QED
    BY <1>3, <2>2, MemoryStep DEF RunCreate
<1>4. CASE RollBack(s, t) /\ UNCHANGED redisVars
  BY <1>1, <1>4, AnswerStep, MemoryStep DEF RunCreate
<1>5. CASE /\ requestKey[q] = None
           /\ ~Claimed(r)
           /\ claim' = [claim EXCEPT ![r] = t]
           /\ requestKey' = [requestKey EXCEPT ![q] = t]
           /\ active' = active \cup {t}
           /\ Continue(s, t)
  <2>1. TripsTyped' /\ SameTrips /\ WireTyped'
    BY <1>1, <1>5, AnswerStep DEF RunCreate
  <2>2. RedisTyped' /\ SweepTyped'
    BY <1>1, <1>2, <1>5, <2>1
       DEF RunCreate, StoreInv, Typed, RedisTyped, SweepTyped, SameTrips
  <2>3. ASSUME NEW u \in Created, trips[u].status \in Open,
               requestKey'[trips[u].request] = u, trips[u].rider \notin disarmed
        PROVE  claim'[trips[u].rider] = u
    <3>1. trips[u].rider \in Riders /\ trips[u].request \in TripIds /\ u # None
      <4>1. trips[u] \in Trip /\ u \in TripIds
        BY CreatedIds DEF StoreInv, Typed, TripsTyped
      <4> QED
        BY <4>1, StoreAssumption DEF Trip
    <3>2. CASE u = t
      BY <1>2, <1>5, <3>2 DEF StoreInv, Typed, RedisTyped, r
    <3>3. CASE u # t
      <4>1. requestKey[trips[u].request] = u
        BY <1>2, <1>5, <2>3, <3>1, <3>3 DEF StoreInv, Typed, RedisTyped
      <4>2. claim[trips[u].rider] = u
        BY <2>3, <4>1 DEF StoreInv, ClaimProtects
      <4>3. trips[u].rider # r
        BY <1>5, <3>1, <4>2 DEF Claimed
      <4> QED
        BY <1>5, <3>1, <4>2, <4>3 DEF StoreInv, Typed, RedisTyped
    <3> QED
      BY <3>2, <3>3
  <2>4. UNCHANGED disarmed
    BY DEF RunCreate
  <2>5. ClaimProtects'
    BY <2>1, <2>3, <2>4 DEF ClaimProtects, SameTrips
  <2> QED
    BY <2>1, <2>2, <2>5 DEF StoreInv, Typed
<1> QED
  BY <1>3, <1>4, <1>5 DEF RunCreate, c, t, r, q

\* A key that goes while its trip is open leaves the rider disarmed, and was no other
\* rider's.
LEMMA TakeKeyInv ==
  ASSUME StoreInv, NEW r, TakeKey(r), UNCHANGED <<trips, requestKey>>
  PROVE  ClaimProtects'
<1>1. ASSUME NEW u \in Created, trips[u].status \in Open,
             requestKey[trips[u].request] = u, trips[u].rider \notin disarmed'
      PROVE  claim'[trips[u].rider] = u
  <2>1. trips[u].rider \in Riders /\ u # None
    <3>1. trips[u] \in Trip /\ u \in TripIds
      BY CreatedIds DEF StoreInv, Typed, TripsTyped
    <3> QED
      BY <3>1, StoreAssumption DEF Trip
  <2>2. trips[u].rider \notin disarmed
    BY <1>1 DEF TakeKey
  <2>3. claim[trips[u].rider] = u
    BY <1>1, <2>2 DEF StoreInv, ClaimProtects
  <2>4. trips[u].rider # r
    BY <1>1, <2>1, <2>3 DEF TakeKey
  <2> QED
    BY <2>1, <2>3, <2>4 DEF TakeKey, StoreInv, Typed, RedisTyped
<1> QED
  BY <1>1 DEF ClaimProtects, Created

LEMMA RunDelInv ==
  ASSUME StoreInv, NEW s \in Servers, RunDel(s)
  PROVE  StoreInv'
<1>1. TripsTyped' /\ SameTrips /\ WireTyped'
  BY GoodEmpty, CommandStep DEF RunDel, Runs, memoryVars
<1>2. RedisTyped' /\ SweepTyped'
  BY <1>1 DEF RunDel, TakeKey, StoreInv, Typed, RedisTyped, SweepTyped, SameTrips
<1>3. ClaimProtects'
  BY TakeKeyInv DEF RunDel, memoryVars
<1> QED
  BY <1>1, <1>2, <1>3 DEF StoreInv, Typed

LEMMA ExpireClaimInv ==
  ASSUME StoreInv, NEW r \in Riders, ExpireClaim(r)
  PROVE  StoreInv'
<1>1. TripsTyped' /\ SameTrips
  BY SameNoTrips DEF ExpireClaim, memoryVars, StoreInv, Typed
<1>2. RedisTyped' /\ SweepTyped' /\ WireTyped'
  BY <1>1 DEF ExpireClaim, TakeKey, StoreInv, Typed, RedisTyped, SweepTyped, WireTyped,
              SameTrips
<1>3. ClaimProtects'
  BY TakeKeyInv DEF ExpireClaim, memoryVars
<1> QED
  BY <1>1, <1>2, <1>3 DEF StoreInv, Typed

\* The other commands of the pipelines.
LEMMA PipelineInv ==
  ASSUME StoreInv, NEW s \in Servers,
         RunReread(s) \/ RunSet(s) \/ RunSadd(s) \/ RunSrem(s)
  PROVE  StoreInv'
<1>1. wire[s] # <<>>
  BY DEF RunReread, RunSet, RunSadd, RunSrem, Runs
<1>2. CASE RunReread(s)
  <2>1. Head(wire[s]).trip \in Created
    BY <1>1, <1>2, GoodTail DEF RunReread, Runs, StoreInv, Typed, WireTyped
  <2> QED
    BY <1>1, <1>2, <2>1, AnswerStep, MemoryStep DEF RunReread
<1>3. CASE RunSet(s) \/ RunSadd(s) \/ RunSrem(s)
  <2>1. TripsTyped' /\ SameTrips /\ WireTyped'
    BY <1>1, <1>3, GoodEmpty, CommandStep DEF RunSet, RunSadd, RunSrem, memoryVars
  <2>2. UNCHANGED <<requestKey, claim, disarmed, sweep, old>>
    BY <1>3 DEF RunSet, RunSadd, RunSrem
  <2>3. active' \subseteq TripIds
    <3>1. RunSadd(s) => Head(wire[s]).trip \in TripIds
      BY <1>1, GoodTail, CreatedIds DEF RunSadd, Runs, StoreInv, Typed, WireTyped
    <3>2. active \subseteq TripIds
      BY DEF StoreInv, Typed, RedisTyped
    <3> QED
      BY <1>3, <3>1, <3>2 DEF RunSet, RunSadd, RunSrem
  <2>4. RedisTyped' /\ SweepTyped'
    BY <2>1, <2>2, <2>3 DEF StoreInv, Typed, RedisTyped, SweepTyped, SameTrips
  <2>5. ClaimProtects'
    BY <2>1, <2>2, Protected DEF StoreInv
  <2> QED
    BY <2>1, <2>4, <2>5 DEF StoreInv, Typed
<1> QED
  BY <1>2, <1>3

-----------------------------------------------------------------------------
(* Reconciliation *)

\* A step of a reconciliation reads Redis and queues the commands that follow.
LEMMA SweepStep ==
  ASSUME StoreInv, NEW s \in Servers, wire[s] # <<>>, NEW commands,
         GoodWire(commands, Created), ThenFirst(s, commands), SweepTyped',
         UNCHANGED <<environment, memoryVars, redisVars, disarmed>>
  PROVE  StoreInv'
<1>1. TripsTyped' /\ SameTrips /\ WireTyped'
  BY CommandStep DEF memoryVars
<1>2. RedisTyped' /\ ClaimProtects'
  BY <1>1, Protected DEF StoreInv, Typed, RedisTyped, redisVars, SameTrips
<1> QED
  BY <1>1, <1>2 DEF StoreInv, Typed

LEMMA RunSmembersInv ==
  ASSUME StoreInv, NEW s \in Servers, RunSmembers(s)
  PROVE  StoreInv'
<1>1. GoodWire(<<Cmd("scan", None)>>, Created)
  BY GoodOne DEF Cmd
<1>2. SweepTyped'
  BY DEF RunSmembers, StoreInv, Typed, RedisTyped, SweepTyped
<1> QED
  BY <1>1, <1>2, SweepStep DEF RunSmembers, Runs

LEMMA RunScanInv ==
  ASSUME StoreInv, NEW s \in Servers, RunScan(s)
  PROVE  StoreInv'
<1> DEFINE claimed == {r \in Riders : claim[r] # None}
           ids == sweep[s].ids
<1>1. PICK keys \in SetToSeqs(claimed) :
        ThenFirst(s, [i \in DOMAIN keys |-> CmdRider("key", keys[i])]
                        \o [i \in 1..Cardinality(ids) |-> Cmd("orphan", SetToSeq(ids)[i])])
  BY DEF RunScan
<1>2. Cardinality(claimed) \in Nat
  BY StoreAssumption, FS_Subset, FS_CardinalityType
<1>3. Cardinality(ids) \in Nat
  <2>1. ids \subseteq TripIds
    BY DEF StoreInv, Typed, SweepTyped
  <2>2. IsFiniteSet(TripIds)
    BY StoreAssumption, FS_Interval DEF TripIds
  <2> QED
    BY <2>1, <2>2, FS_Subset, FS_CardinalityType
<1>4. DOMAIN keys = 1..Cardinality(claimed)
  BY <1>1 DEF SetToSeqs
<1> DEFINE first == [i \in DOMAIN keys |-> CmdRider("key", keys[i])]
           second == [i \in 1..Cardinality(ids) |-> Cmd("orphan", SetToSeq(ids)[i])]
<1> HIDE DEF ids, claimed
<1>5. GoodWire(first, Created)
  <2>1. DOMAIN first = 1..Cardinality(claimed)
    BY <1>4
  <2>2. first = [i \in 1..Cardinality(claimed) |-> first[i]]
    BY <1>4
  <2>3. \A i \in 1..Cardinality(claimed) : first[i].op \notin {"create", "reread", "sadd"}
    BY <1>4 DEF CmdRider
  <2> HIDE DEF first
  <2> QED
    BY <1>2, <2>1, <2>2, <2>3, GoodList
<1>6. GoodWire(second, Created)
  <2>1. DOMAIN second = 1..Cardinality(ids)
    OBVIOUS
  <2>2. second = [i \in 1..Cardinality(ids) |-> second[i]]
    OBVIOUS
  <2>3. \A i \in 1..Cardinality(ids) : second[i].op \notin {"create", "reread", "sadd"}
    BY DEF Cmd
  <2> HIDE DEF second
  <2> QED
    BY <1>3, <2>1, <2>2, <2>3, GoodList
<1>7. ThenFirst(s, first \o second)
  BY <1>1
<1> HIDE DEF first, second
<1>8. GoodWire(first \o second, Created)
  BY <1>5, <1>6, GoodConcat
<1>9. SweepTyped'
  BY DEF RunScan, StoreInv, Typed, SweepTyped
<1> QED
  BY <1>7, <1>8, <1>9, SweepStep DEF RunScan, Runs

LEMMA RunKeyInv ==
  ASSUME StoreInv, NEW s \in Servers, RunKey(s)
  PROVE  StoreInv'
<1> DEFINE r == Head(wire[s]).rider
           trip == [op |-> "trip", trip |-> claim[r], rider |-> r]
<1>1. GoodWire(<<trip>>, Created) /\ GoodWire(<<CmdRider("del", r)>>, Created)
  BY GoodOne DEF CmdRider
<1>2. SweepTyped'
  BY DEF RunKey, StoreInv, Typed, SweepTyped
<1>3. PICK commands \in {<<trip>>, <<CmdRider("del", r)>>} : ThenFirst(s, commands)
  BY DEF RunKey
<1> HIDE DEF trip, r
<1> QED
  BY <1>1, <1>2, <1>3, SweepStep DEF RunKey, Runs

LEMMA GoodCancelling ==
  ASSUME NEW t
  PROVE  GoodWire(Cancelling(t), Created)
BY GoodEmpty, GoodOne DEF Cancelling, CmdSet

LEMMA RunTripInv ==
  ASSUME StoreInv, NEW s \in Servers, RunTrip(s)
  PROVE  StoreInv'
<1> DEFINE t == Head(wire[s]).trip
           r == Head(wire[s]).rider
           release == <<CmdRider("del", r), Cmd("srem", t)>>
<1>1. GoodWire(release, Created)
  <2> DEFINE S == {CmdRider("del", r), Cmd("srem", t)}
  <2>1. release \in Seq(S)
    OBVIOUS
  <2>2. \A c \in S : c.op \in {"create", "reread", "sadd"} => c.trip \in Created
    BY DEF CmdRider, Cmd
  <2> HIDE DEF S, release
  <2> QED
    BY <2>1, <2>2, GoodIf
<1>2. SweepTyped'
  BY DEF RunTrip, StoreInv, Typed, SweepTyped
<1>3. PICK commands \in {Cancelling(t) \o release, <<>>} : ThenFirst(s, commands)
  BY DEF RunTrip
<1> HIDE DEF release, t, r
<1>4. GoodWire(commands, Created)
  <2>1. GoodWire(Cancelling(t) \o release, Created)
    BY <1>1, GoodCancelling, GoodConcat
  <2> QED
    BY <1>3, <2>1, GoodEmpty
<1> QED
  BY <1>2, <1>3, <1>4, SweepStep DEF RunTrip, Runs

LEMMA RunOrphanInv ==
  ASSUME StoreInv, NEW s \in Servers, RunOrphan(s)
  PROVE  StoreInv'
<1> DEFINE t == Head(wire[s]).trip
           r == trips[t].rider
<1>1. GoodWire(Swept(s, t), Created)
  <2>1. GoodWire(<<Cmd("srem", t)>>, Created) /\ GoodWire(<<CmdRider("del", r)>>, Created)
    BY GoodOne DEF Cmd, CmdRider
  <2> HIDE DEF t
  <2>2. PICK keys \in {<<>>, <<CmdRider("del", r)>>} :
          Swept(s, t) = IF ~Finished(s, t) THEN <<>>
                        ELSE Cancelling(t) \o <<Cmd("srem", t)>> \o keys
    BY DEF Swept
  <2>3. GoodWire(keys, Created)
    BY <2>1, <2>2, GoodEmpty
  <2>4. GoodWire(Cancelling(t) \o <<Cmd("srem", t)>>, Created)
    BY <2>1, GoodCancelling, GoodConcat
  <2>5. GoodWire(Cancelling(t) \o <<Cmd("srem", t)>> \o keys, Created)
    BY <2>3, <2>4, GoodConcat
  <2> QED
    BY <2>2, <2>5, GoodEmpty
<1>2. SweepTyped'
  BY DEF RunOrphan, StoreInv, Typed, SweepTyped
<1> QED
  BY <1>1, <1>2, SweepStep DEF RunOrphan, Runs

\* The memory of a server is gone; none of its trips is open any more.
LEMMA CrashInv ==
  ASSUME StoreInv, NEW s \in Servers, Crash(s)
  PROVE  StoreInv'
<1> DEFINE after(t) == IF trips[t].server = s THEN [trips[t] EXCEPT !.status = "lost"] ELSE trips[t]
<1>1. ASSUME NEW t \in Created
      PROVE  /\ after(t) \in Trip
             /\ after(t).rider = trips[t].rider
             /\ after(t).request = trips[t].request
             /\ after(t).status \in Open => trips[t].status \in Open
  <2>1. trips[t] \in Trip
    BY CreatedIds DEF StoreInv, Typed, TripsTyped
  <2>2. CASE trips[t].server = s
    BY <2>1, <2>2 DEF Trip, Statuses, Open
  <2>3. CASE trips[t].server # s
    BY <2>1, <2>3
  <2> QED
    BY <2>2, <2>3
<1>2. trips' = [t \in Created |-> after(t)]
  BY DEF Crash
<1> HIDE DEF after
<1>3. Created = 1..Len(trips) /\ Len(trips) \in Nat /\ Len(trips) <= MaxTrips
  BY CreatedIds DEF StoreInv, Typed, TripsTyped
<1>4. trips' \in [1..Len(trips) -> Trip]
  BY <1>1, <1>2, <1>3
<1>5. trips' \in Seq(Trip) /\ Len(trips') = Len(trips)
  BY <1>3, <1>4, SeqDef
<1>6. TripsTyped' /\ SameTrips
  <2>1. Created' = Created
    BY <1>3, <1>5 DEF Created
  <2> QED
    BY <1>1, <1>2, <1>3, <1>5, <2>1
       DEF Crash, StoreInv, Typed, TripsTyped, SameTrips
<1>7. WireTyped'
  BY <1>6, GoodEmpty, WireStep DEF Crash, StoreInv, Typed, SameTrips
<1>8. RedisTyped' /\ SweepTyped'
  BY <1>6 DEF Crash, NothingRead, StoreInv, Typed, RedisTyped, SweepTyped, redisVars, SameTrips
<1>9. ClaimProtects'
  BY <1>6, Protected DEF Crash, StoreInv, redisVars
<1> QED
  BY <1>6, <1>7, <1>8, <1>9 DEF StoreInv, Typed

LEMMA StartInv ==
  ASSUME StoreInv, NEW s \in Servers, Start(s)
  PROVE  StoreInv'
<1>1. TripsTyped' /\ SameTrips
  BY SameNoTrips DEF Start, StoreInv, Typed
<1>2. GoodWire(<<Cmd("smembers", None)>>, Created')
  BY GoodOne DEF Cmd
<1>3. WireTyped'
  BY <1>1, <1>2, WireStep DEF Start, StoreInv, Typed, SameTrips
<1>4. SweepTyped'
  BY DEF Start, StoreInv, Typed, SweepTyped
<1>5. RedisTyped' /\ ClaimProtects'
  BY <1>1, Protected DEF Start, StoreInv, Typed, RedisTyped, redisVars, SameTrips
<1> QED
  BY <1>1, <1>3, <1>4, <1>5 DEF StoreInv, Typed

\* A server that has reconciled forgets what it read.
LEMMA ListenInv ==
  ASSUME StoreInv, NEW s \in Servers, Listen(s)
  PROVE  StoreInv'
<1>1. TripsTyped' /\ SameTrips
  BY SameNoTrips DEF Listen, StoreInv, Typed
<1>2. WireTyped' /\ SweepTyped' /\ RedisTyped'
  BY <1>1 DEF Listen, NothingRead, StoreInv, Typed, WireTyped, SweepTyped, RedisTyped,
              redisVars, SameTrips
<1>3. ClaimProtects'
  BY <1>1, Protected DEF Listen, StoreInv, redisVars
<1> QED
  BY <1>1, <1>2, <1>3 DEF StoreInv, Typed

LEMMA QuietStep ==
  ASSUME StoreInv, old' \in {old, Created},
         UNCHANGED <<environment, trips, wire, sweep, redisVars, disarmed>>
  PROVE  StoreInv'
<1>1. UNCHANGED <<environment, trips, wire, sweep, redisVars, disarmed>>
  OBVIOUS
<1>2. TripsTyped' /\ SameTrips
  BY <1>1, SameNoTrips DEF StoreInv, Typed
<1>3. old' \subseteq TripIds
  BY CreatedIds DEF StoreInv, Typed, SweepTyped
<1>4. WireTyped' /\ SweepTyped' /\ RedisTyped'
  BY <1>1, <1>2, <1>3
     DEF StoreInv, Typed, WireTyped, SweepTyped, RedisTyped, redisVars, SameTrips
<1>5. ClaimProtects'
  BY <1>1, <1>2, Protected DEF StoreInv, redisVars
<1> QED
  BY <1>2, <1>4, <1>5 DEF StoreInv, Typed

-----------------------------------------------------------------------------
LEMMA StoreInit == ASSUME Init PROVE StoreInv
<1>1. TripsTyped /\ Created = {}
  BY StoreAssumption DEF Init, TripsTyped, Created
<1>2. RedisTyped /\ SweepTyped
  BY DEF Init, NothingRead, RedisTyped, SweepTyped
<1>3. WireTyped
  BY GoodEmpty DEF Init, WireTyped
<1>4. ClaimProtects
  BY <1>1 DEF ClaimProtects
<1> QED
  BY <1>1, <1>2, <1>3, <1>4 DEF StoreInv, Typed

LEMMA StoreNext == ASSUME StoreInv, [Next]_vars PROVE StoreInv'
<1>1. ASSUME NEW s \in Servers, Execute(s) PROVE StoreInv'
  BY <1>1, RunCreateInv, PipelineInv, RunDelInv, RunSmembersInv, RunScanInv,
     RunKeyInv, RunTripInv, RunOrphanInv DEF Execute
<1>2. ASSUME NEW s \in Servers, Crash(s) \/ Start(s) \/ Listen(s) PROVE StoreInv'
  BY <1>2, CrashInv, StartInv, ListenInv
<1>3. ASSUME NEW s \in Servers, NEW r \in Riders, RequestRide(s, r) PROVE StoreInv'
  BY <1>3, RequestRideInv
<1>4. ASSUME NEW s \in Servers, NEW q \in Created, ResendRequest(s, q) PROVE StoreInv'
  BY <1>4, ResendRequestInv
<1>5. ASSUME NEW t \in Created, TripStep(t) PROVE StoreInv'
  BY <1>5, TripStepInv
<1>6. ASSUME NEW r \in Riders, ExpireClaim(r) PROVE StoreInv'
  BY <1>6, ExpireClaimInv
<1>7. ASSUME Age \/ UNCHANGED vars PROVE StoreInv'
  BY <1>7, QuietStep DEF Age, vars, memoryVars
<1> QED
  BY <1>1, <1>2, <1>3, <1>4, <1>5, <1>6, <1>7 DEF Next

\* In every reachable state the store is typed and the riders' keys protect the
\* trips they name.
THEOREM StoreInvariant == Spec => []StoreInv
BY StoreInit, StoreNext, PTL DEF Spec

\* A rider's key protects the trip it was granted for until it goes under an open
\* trip, by a DEL that does not compare or because two hours are over: for any number
\* of servers that share Redis, through crashes, restarts and repeated requests.
THEOREM ClaimProtectsHolds == Spec => []ClaimProtects
BY StoreInvariant, PTL DEF StoreInv

-----------------------------------------------------------------------------
(* What a connection holds, and what will have been written when it is drained *)

Mine(z) == {t \in Created : trips[t].server = z}
Known(z) == {t \in Mine(z) : requestKey[trips[t].request] # None}

\* The commands of a server that is up, and of one that reconciles.
ServingCommands(z) ==
    [op : {"create", "set"}, trip : Mine(z), status : Statuses]
        \cup [op : {"sadd", "srem"}, trip : Mine(z)]
        \cup [op : {"reread"}, trip : Known(z)]
        \cup [op : {"del"}, rider : Riders]
SweepCommands ==
    [op : {"smembers", "scan"}, trip : {None}]
        \cup [op : {"orphan", "srem"}, trip : Created]
        \cup [op : {"set"}, trip : Created, status : Statuses]
        \cup [op : {"key", "del"}, rider : Riders]
        \cup [op : {"trip"}, trip : Created, rider : Riders]

\* A connection belongs to a server that is up or reconciles.
ConnectionsTyped ==
    \A z \in Servers :
        /\ up[z] = "up" => wire[z] \in Seq(ServingCommands(z))
        /\ up[z] = "reconciling" => wire[z] \in Seq(SweepCommands)
        /\ up[z] \in {"absent", "down"} => wire[z] = <<>>

\* Who serves: the open trips are those of servers that are up.
FleetInv ==
    /\ up \in [Servers -> {"absent", "down", "reconciling", "up"}]
    /\ "restart" \notin environment => \A z \in Servers : up[z] \in {"absent", "up"}
    /\ "two" \notin environment =>
            \A y, z \in Servers : up[y] # "absent" /\ up[z] # "absent" => y = z
    /\ \A t \in Created : trips[t].status \in Open => up[trips[t].server] = "up"
    /\ "restart" \notin environment => \A t \in Created : trips[t].status # "lost"
    /\ \A t \in owed : /\ t \in Created
                       /\ trips[t].status = "ended"
                       /\ up[trips[t].server] = "up"
    /\ active \subseteq Created
    /\ \A s \in Servers : sweep[s].ids \subseteq Created
    /\ DOMAIN record = TripIds

\* The commands in w decide about x: after the last of those in good, or from the
\* start if x is in now, there is none of those in bad.
Decided(w, good, bad, x, now) ==
    \E i \in 0..Len(w) :
        /\ i = 0 => x \in now
        /\ i > 0 => w[i] \in good
        /\ \A j \in DOMAIN w : j > i => w[j] \notin bad

CreatesOf(t) == [op : {"create"}, trip : {t}, status : Statuses]
WireOf(t) == wire[trips[t].server]

RecordDecided(t) ==
    Decided(WireOf(t), {CmdSet(t, trips[t].status)},
            {CmdSet(t, x) : x \in Statuses \ {trips[t].status}},
            record[t], {trips[t].status})
ListedDecided(t) ==
    Decided(WireOf(t), {Cmd("sadd", t)}, {Cmd("srem", t)}, t, active)
DelistedDecided(t) ==
    Decided(WireOf(t), {Cmd("srem", t)}, {Cmd("sadd", t)} \cup CreatesOf(t),
            t, TripIds \ active)
UnclaimedDecided(t) ==
    Decided(WireOf(t), {CmdRider("del", trips[t].rider)}, CreatesOf(t),
            claim[trips[t].rider], (TripIds \cup {None}) \ {t})

\* A trip that is merely requested waits for an answer of the store.
Awaited(t) ==
    \E i \in DOMAIN WireOf(t) : WireOf(t)[i].op \in {"create", "reread"} /\ WireOf(t)[i].trip = t

Calm == environment \cap {"resend", "restart"} = {}

\* What is known of one trip.
TripWritten(t) ==
    /\ trips[t].status = "requested" => Awaited(t)
    /\ trips[t].status \in {"matching", "matched"} =>
        /\ requestKey[trips[t].request] # None
        /\ RestartsAlone => RecordDecided(t) /\ ListedDecided(t)
    /\ trips[t].status = "ended" /\ Calm => DelistedDecided(t) /\ UnclaimedDecided(t)

\* The commands of a reconciling server that lead to the removal of trip t, listed
\* as ids say, from trip:active, and of the key of rider r that names it.
Delists(c, t, ids) ==
    \/ c.op = "smembers"
    \/ c.op = "scan" /\ t \in ids
    \/ c.op \in {"orphan", "srem"} /\ c.trip = t
Frees(c, t, r) ==
    \/ c.op \in {"smembers", "scan"}
    \/ c.op \in {"key", "del"} /\ c.rider = r
    \/ c.op = "trip" /\ c.trip = t /\ c.rider = r

\* What a reconciling server has yet to do about a trip of its own that is stale.
TripSwept(s, t) ==
    /\ t \in active => \E c \in Range(wire[s]) : Delists(c, t, sweep[s].ids)
    /\ \A r \in Riders : claim[r] = t => \E c \in Range(wire[s]) : Frees(c, t, r)

SweepInv ==
    \A s \in Servers : up[s] = "reconciling" =>
        \A t \in sweep[s].stale \cap Mine(s) : TripSwept(s, t)

WrittenInv ==
    /\ FleetInv
    /\ ConnectionsTyped
    /\ \A t \in Created : TripWritten(t)
    /\ SweepInv

-----------------------------------------------------------------------------
(* Lemmas about what a connection decides *)

LEMMA TailConcat ==
  ASSUME NEW S, NEW w \in Seq(S), w # <<>>, NEW u \in Seq(S)
  PROVE  /\ Tail(w) \in Seq(S) /\ Head(w) \in S /\ Head(w) = w[1]
         /\ Len(w) \in Nat \ {0} /\ Len(Tail(w)) = Len(w) - 1
         /\ DOMAIN w = 1..Len(w)
         /\ \A i \in 1..(Len(w) - 1) : Tail(w)[i] = w[i + 1]
         /\ Tail(w) \o u \in Seq(S)
         /\ Len(Tail(w) \o u) = Len(w) - 1 + Len(u)
         /\ \A i \in 1..(Len(w) - 1) : (Tail(w) \o u)[i] = w[i + 1]
         /\ \A i \in 1..Len(u) : (Tail(w) \o u)[Len(w) - 1 + i] = u[i]
<1>1. Tail(w) \in Seq(S) /\ Head(w) \in S /\ Head(w) = w[1]
  OBVIOUS
<1>2. Len(w) \in Nat \ {0} /\ Len(Tail(w)) = Len(w) - 1 /\ DOMAIN w = 1..Len(w)
  OBVIOUS
<1>3. \A i \in 1..(Len(w) - 1) : Tail(w)[i] = w[i + 1]
  BY <1>2
<1>4. PICK v \in Seq(S) : v = Tail(w)
  BY <1>1
<1>5. /\ v \o u \in Seq(S)
      /\ Len(v \o u) = Len(v) + Len(u)
      /\ \A i \in 1..Len(v) : (v \o u)[i] = v[i]
      /\ \A i \in 1..Len(u) : (v \o u)[Len(v) + i] = u[i]
  OBVIOUS
<1> QED
  BY <1>1, <1>2, <1>3, <1>4, <1>5

LEMMA DecidedAppend ==
  ASSUME NEW S, NEW w \in Seq(S), NEW u \in Seq(S), NEW good, NEW bad,
         NEW x, NEW now, NEW y, NEW then,
         Decided(w, good, bad, x, now), x \in now => y \in then,
         \A j \in DOMAIN u : u[j] \notin bad
  PROVE  Decided(w \o u, good, bad, y, then)
<1>1. PICK i \in 0..Len(w) : /\ i = 0 => x \in now
                             /\ i > 0 => w[i] \in good
                             /\ \A j \in DOMAIN w : j > i => w[j] \notin bad
  BY DEF Decided
<1>2. /\ Len(w \o u) = Len(w) + Len(u)
      /\ \A k \in 1..Len(w) : (w \o u)[k] = w[k]
      /\ \A k \in 1..Len(u) : (w \o u)[Len(w) + k] = u[k]
      /\ DOMAIN (w \o u) = 1..(Len(w) + Len(u))
      /\ DOMAIN w = 1..Len(w) /\ DOMAIN u = 1..Len(u)
      /\ Len(w) \in Nat /\ Len(u) \in Nat
  OBVIOUS
<1>3. i \in 0..Len(w \o u) /\ (i = 0 => y \in then) /\ (i > 0 => (w \o u)[i] \in good)
  BY <1>1, <1>2
<1>4. ASSUME NEW j \in DOMAIN (w \o u), j > i PROVE (w \o u)[j] \notin bad
  <2>1. CASE j <= Len(w)
    BY <1>1, <1>2, <1>4, <2>1
  <2>2. CASE j > Len(w)
    <3>1. j - Len(w) \in 1..Len(u) /\ j = Len(w) + (j - Len(w))
      BY <1>2, <2>2
    <3> QED
      BY <1>2, <3>1
  <2> QED
    BY <1>2, <2>1, <2>2
<1> QED
  BY <1>3, <1>4 DEF Decided

LEMMA DecidedLast ==
  ASSUME NEW S, NEW w \in Seq(S), NEW u \in Seq(S), NEW good, NEW bad,
         NEW x, NEW y, NEW then, Decided(u, good, bad, x, {})
  PROVE  Decided(w \o u, good, bad, y, then)
<1>1. PICK i \in 1..Len(u) : /\ u[i] \in good
                             /\ \A j \in DOMAIN u : j > i => u[j] \notin bad
  BY DEF Decided
<1>2. /\ Len(w \o u) = Len(w) + Len(u)
      /\ \A k \in 1..Len(u) : (w \o u)[Len(w) + k] = u[k]
      /\ DOMAIN (w \o u) = 1..(Len(w) + Len(u))
      /\ DOMAIN u = 1..Len(u)
      /\ Len(w) \in Nat /\ Len(u) \in Nat
  OBVIOUS
<1>3. Len(w) + i \in 0..Len(w \o u) /\ Len(w) + i > 0 /\ (w \o u)[Len(w) + i] \in good
  BY <1>1, <1>2
<1>4. ASSUME NEW j \in DOMAIN (w \o u), j > Len(w) + i PROVE (w \o u)[j] \notin bad
  <2>1. j - Len(w) \in 1..Len(u) /\ j = Len(w) + (j - Len(w)) /\ j - Len(w) > i
    BY <1>1, <1>2, <1>4
  <2> QED
    BY <1>1, <1>2, <2>1
<1> QED
  BY <1>3, <1>4 DEF Decided

LEMMA DecidedTail ==
  ASSUME NEW S, NEW w \in Seq(S), w # <<>>, NEW good, NEW bad,
         NEW x, NEW now, NEW y, NEW then,
         Decided(w, good, bad, x, now),
         Head(w) \in good => y \in then,
         x \in now /\ Head(w) \notin bad => y \in then
  PROVE  Decided(Tail(w), good, bad, y, then)
<1>1. PICK i \in 0..Len(w) : /\ i = 0 => x \in now
                             /\ i > 0 => w[i] \in good
                             /\ \A j \in DOMAIN w : j > i => w[j] \notin bad
  BY DEF Decided
<1>2. /\ Head(w) = w[1]
      /\ Len(w) \in Nat \ {0} /\ Len(Tail(w)) = Len(w) - 1
      /\ DOMAIN w = 1..Len(w) /\ DOMAIN Tail(w) = 1..(Len(w) - 1)
      /\ \A k \in 1..(Len(w) - 1) : Tail(w)[k] = w[k + 1]
  OBVIOUS
<1>3. CASE i <= 1
  <2>1. y \in then
    BY <1>1, <1>2, <1>3
  <2>2. \A j \in DOMAIN Tail(w) : Tail(w)[j] \notin bad
    BY <1>1, <1>2, <1>3
  <2>3. /\ 0 \in 0..Len(Tail(w))
        /\ 0 = 0 => y \in then
        /\ 0 > 0 => Tail(w)[0] \in good
        /\ \A j \in DOMAIN Tail(w) : j > 0 => Tail(w)[j] \notin bad
    BY <1>2, <2>1, <2>2
  <2> QED
    BY <2>3, Zenon DEF Decided
<1>4. CASE i > 1
  <2>1. i - 1 \in 0..Len(Tail(w)) /\ i - 1 > 0 /\ Tail(w)[i - 1] \in good
    BY <1>1, <1>2, <1>4
  <2>2. \A j \in DOMAIN Tail(w) : j > i - 1 => Tail(w)[j] \notin bad
    BY <1>1, <1>2, <1>4
  <2> QED
    BY <2>1, <2>2 DEF Decided
<1> QED
  BY <1>3, <1>4

LEMMA DecidedEmpty ==
  ASSUME NEW good, NEW bad, NEW x, NEW now, Decided(<<>>, good, bad, x, now)
  PROVE  x \in now
BY DEF Decided

LEMMA ConcatAgrees ==
  ASSUME NEW S, NEW u \in Seq(S), NEW v \in Seq(S), NEW w \in Seq(S),
         Len(w) = Len(u) + Len(v),
         \A i \in 1..Len(u) : w[i] = u[i],
         \A i \in 1..Len(v) : w[Len(u) + i] = v[i]
  PROVE  u \o v = w
<1>1. /\ u \o v \in Seq(S)
      /\ Len(u \o v) = Len(u) + Len(v)
      /\ Len(u) \in Nat /\ Len(v) \in Nat
      /\ \A i \in 1..Len(u) : (u \o v)[i] = u[i]
      /\ \A i \in 1..Len(v) : (u \o v)[Len(u) + i] = v[i]
  OBVIOUS
<1>2. ASSUME NEW i \in 1..Len(w) PROVE (u \o v)[i] = w[i]
  <2>1. CASE i <= Len(u)
    BY <1>1, <2>1
  <2>2. CASE i > Len(u)
    <3>1. i - Len(u) \in 1..Len(v) /\ i = Len(u) + (i - Len(u))
      BY <1>1, <2>2
    <3> QED
      BY <1>1, <3>1
  <2> QED
    BY <1>1, <2>1, <2>2
<1> QED
  BY <1>1, <1>2, SeqEqual

LEMMA ShortSequences ==
  ASSUME NEW a, NEW b, NEW c
  PROVE  <<a>> \o <<b>> = <<a, b>> /\ <<a>> \o <<b, c>> = <<a, b, c>>
<1> DEFINE S == {a, b, c}
<1>1. /\ <<a>> \in Seq(S) /\ <<b>> \in Seq(S) /\ <<b, c>> \in Seq(S)
      /\ <<a, b>> \in Seq(S) /\ <<a, b, c>> \in Seq(S)
  OBVIOUS
<1>2. /\ Len(<<a, b>>) = Len(<<a>>) + Len(<<b>>)
      /\ \A i \in 1..Len(<<a>>) : <<a, b>>[i] = <<a>>[i]
      /\ \A i \in 1..Len(<<b>>) : <<a, b>>[Len(<<a>>) + i] = <<b>>[i]
  <2>1. Len(<<a>>) = 1 /\ Len(<<b>>) = 1 /\ Len(<<a, b>>) = 2
    OBVIOUS
  <2>2. <<a, b>>[1] = <<a>>[1] /\ <<a, b>>[1 + 1] = <<b>>[1]
    OBVIOUS
  <2>3. ASSUME NEW i \in 1..Len(<<b>>) PROVE <<a, b>>[Len(<<a>>) + i] = <<b>>[i]
    <3>1. i = 1 /\ Len(<<a>>) + i = 1 + 1
      BY <2>1
    <3> QED
      BY <2>2, <3>1
  <2>4. \A i \in 1..Len(<<a>>) : <<a, b>>[i] = <<a>>[i]
    OBVIOUS
  <2>5. Len(<<a, b>>) = Len(<<a>>) + Len(<<b>>)
    BY <2>1
  <2> QED
    BY <2>3, <2>4, <2>5
<1>3. /\ Len(<<a, b, c>>) = Len(<<a>>) + Len(<<b, c>>)
      /\ \A i \in 1..Len(<<a>>) : <<a, b, c>>[i] = <<a>>[i]
      /\ \A i \in 1..Len(<<b, c>>) : <<a, b, c>>[Len(<<a>>) + i] = <<b, c>>[i]
  OBVIOUS
<1> HIDE DEF S
<1>4. <<a>> \o <<b>> = <<a, b>>
  BY <1>1, <1>2, ConcatAgrees
<1>5. <<a>> \o <<b, c>> = <<a, b, c>>
  BY <1>1, <1>3, ConcatAgrees
<1> QED
  BY <1>4, <1>5

\* The commands of saveTrip decide about the trip.
LEMMA SaveOpen ==
  ASSUME NEW t, NEW r, NEW status, status # "ended"
  PROVE  LET save == SaveTrip(t, r, status)
         IN  /\ save = <<CmdSet(t, status), Cmd("sadd", t)>>
             /\ Decided(save, {CmdSet(t, status)},
                        {CmdSet(t, x) : x \in Statuses \ {status}}, t, {})
             /\ Decided(save, {Cmd("sadd", t)}, {Cmd("srem", t)}, t, {})
<1> DEFINE save == SaveTrip(t, r, status)
           a == CmdSet(t, status)
           b == Cmd("sadd", t)
<1>1. save = <<a, b>>
  <2>1. save = <<a>> \o <<b>>
    BY DEF SaveTrip
  <2> HIDE DEF a, b
  <2> QED
    BY <2>1, ShortSequences
<1>2. b \notin {CmdSet(t, x) : x \in Statuses \ {status}}
  BY DEF Cmd, CmdSet
<1> HIDE DEF a, b, save
<1>3. Len(save) = 2 /\ DOMAIN save = 1..2 /\ save[1] = a /\ save[2] = b
  BY <1>1
<1>4. Decided(save, {a}, {CmdSet(t, x) : x \in Statuses \ {status}}, t, {})
  <2> DEFINE bad == {CmdSet(t, x) : x \in Statuses \ {status}}
  <2>1. save[2] \notin bad
    BY <1>2, <1>3
  <2> HIDE DEF bad
  <2>2. 1 \in 0..Len(save) /\ save[1] \in {a} /\ \A j \in DOMAIN save : j > 1 => save[j] \notin bad
    BY <1>3, <2>1
  <2>3. Decided(save, {a}, bad, t, {})
    BY <2>2 DEF Decided
  <2> QED
    BY <2>3 DEF bad
<1>5. Decided(save, {b}, {Cmd("srem", t)}, t, {})
  <2>1. 2 \in 0..Len(save) /\ save[2] \in {b} /\ \A j \in DOMAIN save : ~(j > 2)
    BY <1>3
  <2> QED
    BY <2>1 DEF Decided
<1> QED
  BY <1>1, <1>4, <1>5 DEF a, b, save

LEMMA SaveEnded ==
  ASSUME NEW t, NEW r
  PROVE  LET save == SaveTrip(t, r, "ended")
         IN  /\ save = <<CmdSet(t, "ended"), Cmd("srem", t), CmdRider("del", r)>>
             /\ Decided(save, {Cmd("srem", t)}, {Cmd("sadd", t)} \cup CreatesOf(t), t, {})
             /\ Decided(save, {CmdRider("del", r)}, CreatesOf(t), t, {})
<1> DEFINE save == SaveTrip(t, r, "ended")
           a == CmdSet(t, "ended")
           b == Cmd("srem", t)
           c == CmdRider("del", r)
           bad == {Cmd("sadd", t)} \cup CreatesOf(t)
<1>1. save = <<a, b, c>>
  <2>1. save = <<a>> \o <<b, c>>
    BY DEF SaveTrip
  <2> HIDE DEF a, b, c
  <2> QED
    BY <2>1, ShortSequences
<1>2. c \notin bad
  BY DEF Cmd, CmdRider, CreatesOf
<1> HIDE DEF a, b, c, save, bad
<1>3. /\ Len(save) = 3 /\ DOMAIN save = 1..3
      /\ save[1] = a /\ save[2] = b /\ save[3] = c
  BY <1>1
<1>4. Decided(save, {b}, bad, t, {})
  <2>1. 2 \in 0..Len(save) /\ save[2] \in {b} /\ \A j \in DOMAIN save : j > 2 => save[j] \notin bad
    BY <1>2, <1>3
  <2> QED
    BY <2>1 DEF Decided
<1>5. Decided(save, {c}, CreatesOf(t), t, {})
  <2>1. 3 \in 0..Len(save) /\ save[3] \in {c} /\ \A j \in DOMAIN save : ~(j > 3)
    BY <1>3
  <2> QED
    BY <2>1 DEF Decided
<1> QED
  BY <1>1, <1>4, <1>5 DEF a, b, c, bad, save

\* Once or twice.
LEMMA SaveTyped ==
  ASSUME NEW t, NEW r, NEW status, NEW S,
         CmdSet(t, status) \in S, Cmd("sadd", t) \in S, Cmd("srem", t) \in S,
         CmdRider("del", r) \in S
  PROVE  SaveTrip(t, r, status) \in Seq(S)
<1>1. CASE status = "ended"
  <2>1. SaveTrip(t, r, status) = <<CmdSet(t, status), Cmd("srem", t), CmdRider("del", r)>>
    BY <1>1, SaveEnded
  <2> QED
    BY <2>1
<1>2. CASE status # "ended"
  <2>1. SaveTrip(t, r, status) = <<CmdSet(t, status), Cmd("sadd", t)>>
    BY <1>2, SaveOpen
  <2> QED
    BY <2>1
<1> QED
  BY <1>1, <1>2

LEMMA SaveAbout ==
  ASSUME NEW t, NEW r, NEW status, NEW j \in DOMAIN SaveTrip(t, r, status)
  PROVE  /\ SaveTrip(t, r, status)[j].op \in {"set", "sadd", "srem", "del"}
         /\ SaveTrip(t, r, status)[j].op # "del" => SaveTrip(t, r, status)[j].trip = t
<1> DEFINE S == {CmdSet(t, status), Cmd("sadd", t), Cmd("srem", t), CmdRider("del", r)}
<1>1. /\ CmdSet(t, status) \in S /\ Cmd("sadd", t) \in S
      /\ Cmd("srem", t) \in S /\ CmdRider("del", r) \in S
  OBVIOUS
<1> HIDE DEF S
<1>2. SaveTrip(t, r, status) \in Seq(S)
  BY <1>1, SaveTyped
<1>3. SaveTrip(t, r, status)[j] \in S
  BY <1>2
<1> QED
  BY <1>3 DEF S, CmdSet, Cmd, CmdRider

-----------------------------------------------------------------------------
(* One trip, while its status stays the same *)

LEMMA TripFields ==
  ASSUME TripsTyped, NEW t \in Created
  PROVE  /\ trips[t] \in Trip
         /\ t \in TripIds /\ t # None
         /\ trips[t].rider \in Riders
         /\ trips[t].request \in TripIds
         /\ trips[t].server \in Servers
         /\ trips[t].status \in Statuses
<1>1. trips[t] \in Trip /\ t \in TripIds
  BY CreatedIds DEF TripsTyped
<1> QED
  BY <1>1, StoreAssumption DEF Trip

\* The commands that decide about a trip, by their fields.
LEMMA Deciding ==
  ASSUME NEW t, NEW status, NEW r
  PROVE  /\ \A c \in {CmdSet(t, x) : x \in Statuses \ {status}} :
                c.op = "set" /\ c.trip = t /\ c.status # status
         /\ CmdSet(t, status).op = "set"
         /\ CmdSet(t, status).trip = t
         /\ CmdSet(t, status).status = status
         /\ \A op : Cmd(op, t).op = op /\ Cmd(op, t).trip = t
         /\ \A op : CmdRider(op, r).op = op /\ CmdRider(op, r).rider = r
         /\ \A c \in CreatesOf(t) : c.op = "create" /\ c.trip = t
BY DEF CmdSet, Cmd, CmdRider, CreatesOf

\* Commands about other trips, and those that delete a key, decide nothing.
LEMMA Indifferent ==
  ASSUME NEW t, NEW status, NEW c,
         c.op \in {"del", "reread", "create"} \/ c.trip # t
  PROVE  c \notin {CmdSet(t, x) : x \in Statuses \ {status}} /\ c # Cmd("srem", t)
BY DEF CmdSet, Cmd

LEMMA IndifferentEnded ==
  ASSUME NEW t, NEW c, c.op \in {"del", "reread"} \/ c.trip # t
  PROVE  c \notin {Cmd("sadd", t)} \cup CreatesOf(t) /\ c \notin CreatesOf(t)
BY DEF CreatesOf, Cmd

LEMMA ServingShape ==
  ASSUME NEW z, NEW h \in ServingCommands(z)
  PROVE  /\ h.op \in {"create", "set", "reread", "sadd", "srem", "del"}
         /\ h.op # "del" => h.trip \in Mine(z)
         /\ h.op = "del" => h = CmdRider("del", h.rider) /\ h.rider \in Riders
         /\ h.op = "set" => h = CmdSet(h.trip, h.status)
         /\ h.op = "create" => h \in CreatesOf(h.trip)
         /\ h.op \in {"create", "set"} => h.status \in Statuses
         /\ h.op \in {"reread", "sadd", "srem"} => h = Cmd(h.op, h.trip)
         /\ h.op = "reread" => h.trip \in Known(z)
<1>1. CASE h \in [op : {"create", "set"}, trip : Mine(z), status : Statuses]
  BY <1>1 DEF CmdSet, CreatesOf
<1>2. CASE h \in [op : {"sadd", "srem"}, trip : Mine(z)] \cup [op : {"reread"}, trip : Known(z)]
  BY <1>2 DEF Cmd, Known
<1>3. CASE h \in [op : {"del"}, rider : Riders]
  BY <1>3 DEF CmdRider
<1> QED
  BY <1>1, <1>2, <1>3 DEF ServingCommands

\* The trip and everything the other servers write about it stay as they are, and
\* its server sends commands about other trips, or deletes keys.
LEMMA KeepAppend ==
  ASSUME TripsTyped, NEW t \in Created, TripWritten(t),
         trips'[t] = trips[t], environment' = environment,
         NEW S, WireOf(t) \in Seq(S), NEW u \in Seq(S), WireOf(t)' = WireOf(t) \o u,
         \A j \in DOMAIN u : u[j].op = "del" \/ u[j].trip # t \/ (u[j].op = "create" /\ ~Calm),
         trips[t].status \in {"matching", "matched"} =>
            /\ requestKey[trips[t].request] # None => requestKey'[trips[t].request] # None
            /\ RestartsAlone => record'[t] = record[t] /\ (t \in active => t \in active'),
         trips[t].status = "ended" /\ Calm =>
            /\ t \notin active => t \notin active'
            /\ claim'[trips[t].rider] \in TripIds \cup {None}
            /\ claim[trips[t].rider] # t => claim'[trips[t].rider] # t
  PROVE  TripWritten(t)'
<1> DEFINE w == WireOf(t)
           status == trips[t].status
           r == trips[t].rider
<1>1. trips'[t].status = status /\ trips'[t].rider = r /\ trips'[t].request = trips[t].request
  OBVIOUS
<1>2. status = "requested" => Awaited(t)'
  <2>1. SUFFICES ASSUME status = "requested" PROVE Awaited(t)'
    OBVIOUS
  <2>2. PICK i \in DOMAIN w : w[i].op \in {"create", "reread"} /\ w[i].trip = t
    BY <2>1 DEF TripWritten, Awaited
  <2>3. /\ DOMAIN w = 1..Len(w) /\ DOMAIN (w \o u) = 1..(Len(w) + Len(u))
        /\ Len(w) \in Nat /\ Len(u) \in Nat
        /\ \A k \in 1..Len(w) : (w \o u)[k] = w[k]
    OBVIOUS
  <2>4. i \in DOMAIN (w \o u) /\ (w \o u)[i] = w[i]
    BY <2>3
  <2> HIDE DEF w
  <2> QED
    BY <2>2, <2>4 DEF Awaited, w
<1>3. ASSUME status \in {"matching", "matched"}, RestartsAlone
      PROVE  RecordDecided(t)' /\ ListedDecided(t)'
  <2> DEFINE bad == {CmdSet(t, x) : x \in Statuses \ {status}}
  <2>1. /\ Decided(w, {CmdSet(t, status)}, bad, record[t], {status})
        /\ Decided(w, {Cmd("sadd", t)}, {Cmd("srem", t)}, t, active)
    BY <1>3 DEF TripWritten, RecordDecided, ListedDecided
  <2>2. record[t] \in {status} => record'[t] \in {status}
    BY <1>3
  <2>3. t \in active => t \in active'
    BY <1>3
  <2>4. ASSUME NEW j \in DOMAIN u PROVE u[j] \notin bad /\ u[j] \notin {Cmd("srem", t)}
    <3>1. u[j].op \in {"del", "reread", "create"} \/ u[j].trip # t
      OBVIOUS
    <3> QED
      BY <3>1, Indifferent
  <2> HIDE DEF w, status, bad
  <2>5. Decided(w \o u, {CmdSet(t, status)}, bad, record'[t], {status})
    BY <2>1, <2>2, <2>4, DecidedAppend DEF w
  <2>6. Decided(w \o u, {Cmd("sadd", t)}, {Cmd("srem", t)}, t, active')
    BY <2>1, <2>3, <2>4, DecidedAppend DEF w
  <2> QED
    BY <1>1, <2>5, <2>6 DEF RecordDecided, ListedDecided, w, bad
<1>4. ASSUME status = "ended", Calm
      PROVE  DelistedDecided(t)' /\ UnclaimedDecided(t)'
  <2> DEFINE bad == {Cmd("sadd", t)} \cup CreatesOf(t)
             ids == TripIds \ active
             others == (TripIds \cup {None}) \ {t}
  <2>1. /\ Decided(w, {Cmd("srem", t)}, bad, t, ids)
        /\ Decided(w, {CmdRider("del", r)}, CreatesOf(t), claim[r], others)
    BY <1>4 DEF TripWritten, DelistedDecided, UnclaimedDecided
  <2>2. t \in ids => t \in TripIds \ active'
    BY <1>4
  <2>3. claim[r] \in others => claim'[r] \in others
    BY <1>4
  <2>4. ASSUME NEW j \in DOMAIN u PROVE u[j] \notin bad /\ u[j] \notin CreatesOf(t)
    <3>1. u[j].op \in {"del", "reread"} \/ u[j].trip # t
      BY <1>4
    <3> QED
      BY <3>1, IndifferentEnded
  <2> HIDE DEF w, status, bad, r, ids, others
  <2>5. Decided(w \o u, {Cmd("srem", t)}, bad, t, TripIds \ active')
    BY <2>1, <2>2, <2>4, DecidedAppend DEF w
  <2>6. Decided(w \o u, {CmdRider("del", r)}, CreatesOf(t), claim'[r], others)
    BY <2>1, <2>3, <2>4, DecidedAppend DEF w
  <2> QED
    BY <1>1, <2>5, <2>6 DEF DelistedDecided, UnclaimedDecided, w, bad, r, others
<1> QED
  BY <1>1, <1>2, <1>3, <1>4 DEF TripWritten, RestartsAlone, Calm

\* What the command h does to Redis is what the trip needs, and the commands u that
\* follow upon it are about other trips or ask for the trip once more.
Fits(t, h, u) ==
    /\ \A j \in DOMAIN u : u[j].op \in {"del", "reread"} \/ u[j].trip # t
    /\ trips[t].status = "requested" =>
        \/ h.op \notin {"create", "reread"} \/ h.trip # t
        \/ \E j \in DOMAIN u : u[j].op = "reread" /\ u[j].trip = t
    /\ trips[t].status \in {"matching", "matched"} =>
        /\ requestKey'[trips[t].request] # None
        /\ RestartsAlone =>
            /\ h = CmdSet(t, trips[t].status) => record'[t] = trips[t].status
            /\ record'[t] = record[t] \/ (h.op = "set" /\ h.trip = t)
            /\ h = Cmd("sadd", t) => t \in active'
            /\ t \in active => t \in active' \/ h = Cmd("srem", t)
    /\ trips[t].status = "ended" /\ Calm =>
        /\ h = Cmd("srem", t) => t \notin active'
        /\ t \notin active => t \notin active' \/ h = Cmd("sadd", t) \/ h \in CreatesOf(t)
        /\ claim'[trips[t].rider] \in TripIds \cup {None}
        /\ h = CmdRider("del", trips[t].rider) => claim'[trips[t].rider] # t
        /\ claim[trips[t].rider] # t => claim'[trips[t].rider] # t \/ h \in CreatesOf(t)

\* Redis executes the first command of the trip's server.
LEMMA KeepExecute ==
  ASSUME TripsTyped, NEW t \in Created, TripWritten(t),
         trips'[t] = trips[t], environment' = environment,
         NEW S, WireOf(t) \in Seq(S), WireOf(t) # <<>>, NEW u \in Seq(S),
         WireOf(t)' = Tail(WireOf(t)) \o u,
         NEW h, h = Head(WireOf(t)), Fits(t, h, u),
         h.op = "set" => h = CmdSet(h.trip, h.status) /\ h.status \in Statuses
  PROVE  TripWritten(t)'
<1> DEFINE w == WireOf(t)
           status == trips[t].status
           r == trips[t].rider
<1>1. trips'[t].status = status /\ trips'[t].rider = r /\ trips'[t].request = trips[t].request
  OBVIOUS
<1>2. Tail(w) \in Seq(S) /\ h \in S
  OBVIOUS
<1>3. status = "requested" => Awaited(t)'
  <2>1. SUFFICES ASSUME status = "requested" PROVE Awaited(t)'
    OBVIOUS
  <2>2. PICK i \in DOMAIN w : w[i].op \in {"create", "reread"} /\ w[i].trip = t
    BY <2>1 DEF TripWritten, Awaited
  <2> DEFINE v == Tail(w) \o u
  <2>3. /\ DOMAIN w = 1..Len(w) /\ Len(w) \in Nat \ {0} /\ Len(u) \in Nat
        /\ DOMAIN u = 1..Len(u)
        /\ v \in Seq(S) /\ Len(v) = Len(w) - 1 + Len(u)
        /\ \A k \in 1..(Len(w) - 1) : v[k] = w[k + 1]
        /\ \A k \in 1..Len(u) : v[Len(w) - 1 + k] = u[k]
        /\ h = w[1]
    BY TailConcat
  <2> HIDE DEF v, w
  <2>4. DOMAIN v = 1..(Len(w) - 1 + Len(u))
    BY <2>3
  <2>5. CASE i = 1
    <3>1. PICK j \in DOMAIN u : u[j].op = "reread" /\ u[j].trip = t
      BY <2>1, <2>2, <2>3, <2>5 DEF Fits
    <3>2. Len(w) - 1 + j \in DOMAIN v /\ v[Len(w) - 1 + j] = u[j]
      <4>1. j \in 1..Len(u) /\ v[Len(w) - 1 + j] = u[j]
        BY <2>3
      <4>2. Len(w) - 1 + j \in 1..(Len(w) - 1 + Len(u))
        BY <2>3, <4>1
      <4> QED
        BY <2>4, <4>1, <4>2
    <3> QED
      BY <3>1, <3>2 DEF Awaited, v, w
  <2>6. CASE i # 1
    <3>1. i - 1 \in 1..(Len(w) - 1) /\ (i - 1) + 1 = i
      BY <2>3, <2>6
    <3>2. i - 1 \in DOMAIN v /\ v[i - 1] = w[i]
      BY <2>3, <2>4, <3>1
    <3> QED
      BY <2>2, <3>2 DEF Awaited, v, w
  <2> QED
    BY <2>5, <2>6
<1>4. ASSUME status \in {"matching", "matched"}, RestartsAlone
      PROVE  RecordDecided(t)' /\ ListedDecided(t)'
  <2> DEFINE bad == {CmdSet(t, x) : x \in Statuses \ {status}}
  <2>1. /\ Decided(w, {CmdSet(t, status)}, bad, record[t], {status})
        /\ Decided(w, {Cmd("sadd", t)}, {Cmd("srem", t)}, t, active)
    BY <1>4 DEF TripWritten, RecordDecided, ListedDecided
  <2>2. h \in {CmdSet(t, status)} => record'[t] \in {status}
    BY <1>4 DEF Fits
  <2>3. record[t] \in {status} /\ h \notin bad => record'[t] \in {status}
    <3>1. SUFFICES ASSUME record[t] = status, h \notin bad, record'[t] # record[t]
                   PROVE  FALSE
      BY <1>4 DEF Fits
    <3>2. h.op = "set" /\ h.trip = t /\ h = CmdSet(t, h.status) /\ h.status \in Statuses
      BY <1>4, <3>1 DEF Fits
    <3>3. h.status = status
      BY <3>1, <3>2
    <3> QED
      BY <2>2, <3>1, <3>2, <3>3
  <2>4. /\ h \in {Cmd("sadd", t)} => t \in active'
        /\ t \in active /\ h \notin {Cmd("srem", t)} => t \in active'
    BY <1>4 DEF Fits
  <2>5. ASSUME NEW j \in DOMAIN u PROVE u[j] \notin bad /\ u[j] \notin {Cmd("srem", t)}
    <3>1. u[j].op \in {"del", "reread", "create"} \/ u[j].trip # t
      BY DEF Fits
    <3> QED
      BY <3>1, Indifferent
  <2>6. w \in Seq(S) /\ w # <<>> /\ h = Head(w)
    OBVIOUS
  <2> HIDE DEF w, status, bad
  <2>7. Decided(Tail(w), {CmdSet(t, status)}, bad, record'[t], {status})
    BY <2>1, <2>2, <2>3, <2>6, DecidedTail
  <2>8. Decided(Tail(w), {Cmd("sadd", t)}, {Cmd("srem", t)}, t, active')
    BY <2>1, <2>4, <2>6, DecidedTail
  <2>9. Decided(Tail(w) \o u, {CmdSet(t, status)}, bad, record'[t], {status})
    BY <1>2, <2>5, <2>7, DecidedAppend
  <2>10. Decided(Tail(w) \o u, {Cmd("sadd", t)}, {Cmd("srem", t)}, t, active')
    BY <1>2, <2>5, <2>8, DecidedAppend
  <2> QED
    BY <1>1, <2>9, <2>10 DEF RecordDecided, ListedDecided, w, bad
<1>5. ASSUME status = "ended", Calm
      PROVE  DelistedDecided(t)' /\ UnclaimedDecided(t)'
  <2> DEFINE bad == {Cmd("sadd", t)} \cup CreatesOf(t)
             ids == TripIds \ active
             after == TripIds \ active'
             others == (TripIds \cup {None}) \ {t}
  <2>1. /\ Decided(w, {Cmd("srem", t)}, bad, t, ids)
        /\ Decided(w, {CmdRider("del", r)}, CreatesOf(t), claim[r], others)
    BY <1>5 DEF TripWritten, DelistedDecided, UnclaimedDecided
  <2>2. /\ h \in {Cmd("srem", t)} => t \in after
        /\ t \in ids /\ h \notin bad => t \in after
    BY <1>5, TripFields DEF Fits
  <2>3. /\ h \in {CmdRider("del", r)} => claim'[r] \in others
        /\ claim[r] \in others /\ h \notin CreatesOf(t) => claim'[r] \in others
    BY <1>5 DEF Fits
  <2>4. ASSUME NEW j \in DOMAIN u PROVE u[j] \notin bad /\ u[j] \notin CreatesOf(t)
    <3>1. u[j].op \in {"del", "reread"} \/ u[j].trip # t
      BY <1>5 DEF Fits
    <3> QED
      BY <3>1, IndifferentEnded
  <2>5. w \in Seq(S) /\ w # <<>> /\ h = Head(w)
    OBVIOUS
  <2> HIDE DEF w, status, bad, r, ids, others, after
  <2>6. Decided(Tail(w), {Cmd("srem", t)}, bad, t, after)
    BY <2>1, <2>2, <2>5, DecidedTail
  <2>7. Decided(Tail(w), {CmdRider("del", r)}, CreatesOf(t), claim'[r], others)
    BY <2>1, <2>3, <2>5, DecidedTail
  <2>8. Decided(Tail(w) \o u, {Cmd("srem", t)}, bad, t, after)
    BY <1>2, <2>4, <2>6, DecidedAppend
  <2>9. Decided(Tail(w) \o u, {CmdRider("del", r)}, CreatesOf(t), claim'[r], others)
    BY <1>2, <2>4, <2>7, DecidedAppend
  <2> QED
    BY <1>1, <2>8, <2>9 DEF DelistedDecided, UnclaimedDecided, w, bad, r, others, after
<1> QED
  BY <1>1, <1>3, <1>4, <1>5 DEF TripWritten, RestartsAlone, Calm, Fits

-----------------------------------------------------------------------------
(* A trip enters a status and is saved *)

LEMMA EnterWritten ==
  ASSUME TripsTyped, NEW t \in Created, NEW status \in {"matching", "matched", "ended"},
         trips'[t] = [trips[t] EXCEPT !.status = status], environment' = environment,
         NEW S, NEW w \in Seq(S), NEW more,
         SaveTrip(t, trips[t].rider, status) \in Seq(S),
         more \in {SaveTrip(t, trips[t].rider, status),
                   SaveTrip(t, trips[t].rider, status) \o SaveTrip(t, trips[t].rider, status)},
         WireOf(t)' = w \o more,
         status # "ended" => requestKey'[trips[t].request] # None
  PROVE  TripWritten(t)'
<1> DEFINE r == trips[t].rider
           save == SaveTrip(t, r, status)
<1>1. /\ trips'[t].status = status /\ trips'[t].rider = r
      /\ trips'[t].request = trips[t].request
  BY TripFields DEF Trip
<1>2. more \in Seq(S)
  <2> HIDE DEF save
  <2>1. save \o save \in Seq(S)
    BY DEF save
  <2> QED
    BY <2>1 DEF save
<1>3. ASSUME NEW good, NEW bad, Decided(save, good, bad, t, {}), NEW y, NEW then
      PROVE  Decided(w \o more, good, bad, y, then)
  <2> HIDE DEF save
  <2>1. save \in Seq(S)
    BY DEF save
  <2>2. Decided(save \o save, good, bad, t, {})
    BY <1>3, <2>1, DecidedLast
  <2>3. more = save \/ more = save \o save
    BY DEF save
  <2>4. Decided(more, good, bad, t, {})
    BY <1>3, <2>2, <2>3
  <2> QED
    BY <1>2, <2>4, DecidedLast
<1>4. CASE status # "ended"
  <2>1. /\ Decided(save, {CmdSet(t, status)}, {CmdSet(t, x) : x \in Statuses \ {status}}, t, {})
        /\ Decided(save, {Cmd("sadd", t)}, {Cmd("srem", t)}, t, {})
    BY <1>4, SaveOpen
  <2> HIDE DEF save, r
  <2>2. RecordDecided(t)' /\ ListedDecided(t)'
    BY <1>1, <1>3, <2>1 DEF RecordDecided, ListedDecided
  <2> QED
    BY <1>1, <1>4, <2>2 DEF TripWritten
<1>5. CASE status = "ended"
  <2>1. /\ Decided(save, {Cmd("srem", t)}, {Cmd("sadd", t)} \cup CreatesOf(t), t, {})
        /\ Decided(save, {CmdRider("del", r)}, CreatesOf(t), t, {})
    BY <1>5, SaveEnded
  <2> HIDE DEF save, r
  <2>2. DelistedDecided(t)'
    BY <1>3, <2>1 DEF DelistedDecided
  <2>3. Decided(w \o more, {CmdRider("del", r)}, CreatesOf(t), claim'[r], (TripIds \cup {None}) \ {t})
    BY <1>3, <2>1
  <2>4. UnclaimedDecided(t)'
    BY <1>1, <2>3 DEF UnclaimedDecided
  <2> QED
    BY <1>1, <1>5, <2>2, <2>4 DEF TripWritten
<1> QED
  BY <1>4, <1>5

-----------------------------------------------------------------------------
(* Steps of a server that is up *)

\* Trips keep their server, and the store forgets no request.
MineGrows ==
    /\ Created \subseteq Created'
    /\ \A t \in Created : /\ trips'[t].server = trips[t].server
                          /\ trips'[t].request = trips[t].request
                          /\ requestKey[trips[t].request] # None =>
                                requestKey'[trips[t].request] # None

LEMMA CommandsGrow ==
  ASSUME MineGrows, NEW z
  PROVE  /\ Mine(z) \subseteq Mine(z)'
         /\ Known(z) \subseteq Known(z)'
         /\ ServingCommands(z) \subseteq ServingCommands(z)'
         /\ SweepCommands \subseteq SweepCommands'
<1>1. Mine(z) \subseteq Mine(z)' /\ Known(z) \subseteq Known(z)'
  BY DEF Mine, Known, MineGrows
<1>2. ServingCommands(z) \subseteq ServingCommands(z)'
  BY <1>1 DEF ServingCommands
<1>3. SweepCommands \subseteq SweepCommands'
  BY DEF SweepCommands, MineGrows
<1> QED
  BY <1>1, <1>2, <1>3

LEMMA SeqGrows ==
  ASSUME NEW S, NEW T, S \subseteq T, NEW w \in Seq(S)
  PROVE  w \in Seq(T)
OBVIOUS

\* One connection changes, that of a server that is up.
LEMMA UpConnection ==
  ASSUME ConnectionsTyped, MineGrows, up' = up, NEW z \in Servers, up[z] = "up",
         NEW w, w \in Seq(ServingCommands(z)'),
         \A y \in Servers : wire'[y] = IF y = z THEN w ELSE wire[y]
  PROVE  ConnectionsTyped'
<1> SUFFICES ASSUME NEW y \in Servers
             PROVE  /\ up[y] = "up" => wire'[y] \in Seq(ServingCommands(y)')
                    /\ up[y] = "reconciling" => wire'[y] \in Seq(SweepCommands')
                    /\ up[y] \in {"absent", "down"} => wire'[y] = <<>>
  BY DEF ConnectionsTyped
<1>1. CASE y = z
  BY <1>1
<1>2. CASE y # z
  <2>1. wire'[y] = wire[y]
    BY <1>2
  <2>2. up[y] = "up" => wire[y] \in Seq(ServingCommands(y)')
    BY CommandsGrow, SeqGrows DEF ConnectionsTyped
  <2>3. up[y] = "reconciling" => wire[y] \in Seq(SweepCommands')
    BY CommandsGrow, SeqGrows DEF ConnectionsTyped
  <2> QED
    BY <2>1, <2>2, <2>3 DEF ConnectionsTyped
<1> QED
  BY <1>1, <1>2

\* A reconciliation is not disturbed by what servers do that are up.
LEMMA SweepKept ==
  ASSUME SweepInv,
         \A s \in Servers : up'[s] = "reconciling" =>
            /\ up[s] = "reconciling"
            /\ wire'[s] = wire[s] /\ sweep'[s] = sweep[s]
            /\ Mine(s)' \subseteq Mine(s)
            /\ \A t \in Mine(s) : t \in active' => t \in active
            /\ \A t \in Mine(s), r \in Riders : claim'[r] = t => claim[r] = t
  PROVE  SweepInv'
BY DEF SweepInv, TripSwept

-----------------------------------------------------------------------------
(* The memory of a server that is up *)

LEMMA EnterKeeps ==
  ASSUME StoreInv, WrittenInv, NEW t \in Created, NEW status \in {"matched", "ended"}, NEW n,
         up[trips[t].server] = "up", Enter(t, status, n),
         UNCHANGED <<environment, up, sweep, redisVars>>,
         owed' \subseteq owed \cup {t}, t \in owed' => status = "ended",
         status = "matched" => trips[t].status \in {"matching", "matched"}
  PROVE  WrittenInv'
<1>0. PICK z, r : z = trips[t].server /\ r = trips[t].rider
  OBVIOUS
<1> DEFINE save == SaveTrip(t, r, status)
<1>1. TripsTyped
  BY DEF StoreInv, Typed
<1>2. /\ trips[t] \in Trip /\ z \in Servers /\ r \in Riders /\ t \in TripIds
      /\ t \in Mine(z) /\ status \in Statuses
  BY <1>0, <1>1, TripFields DEF Mine, Statuses, Open
<1>3. /\ Created' = Created
      /\ trips'[t] = [trips[t] EXCEPT !.status = status]
      /\ \A u \in Created : u # t => trips'[u] = trips[u]
      /\ \A u \in Created : trips'[u].server = trips[u].server
                            /\ trips'[u].request = trips[u].request
  <2>1. Created' = Created /\ trips'[t] = [trips[t] EXCEPT !.status = status]
    BY DEF Enter, Created
  <2>2. \A u \in Created : u # t => trips'[u] = trips[u]
    BY DEF Enter, Created
  <2> QED
    BY <1>2, <2>1, <2>2 DEF Trip
<1>4. MineGrows /\ \A y : Mine(y)' = Mine(y)
  BY <1>3 DEF MineGrows, Mine, redisVars
<1>5. DOMAIN wire = Servers /\ wire[z] \in Seq(ServingCommands(z))
  BY <1>0, <1>2 DEF StoreInv, Typed, WireTyped, WrittenInv, ConnectionsTyped
<1>6. save \in Seq(ServingCommands(z)) /\ \A j \in DOMAIN save :
         save[j].op \in {"set", "sadd", "srem", "del"} /\ (save[j].op # "del" => save[j].trip = t)
  <2>1. /\ CmdSet(t, status) \in ServingCommands(z)
        /\ Cmd("sadd", t) \in ServingCommands(z)
        /\ Cmd("srem", t) \in ServingCommands(z)
        /\ CmdRider("del", r) \in ServingCommands(z)
    BY <1>2 DEF ServingCommands, CmdSet, Cmd, CmdRider
  <2>2. PICK S : S = ServingCommands(z)
    OBVIOUS
  <2>3. /\ CmdSet(t, status) \in S /\ Cmd("sadd", t) \in S
        /\ Cmd("srem", t) \in S /\ CmdRider("del", r) \in S
    BY <2>1, <2>2
  <2>4. /\ save \in Seq(S)
        /\ \A j \in DOMAIN save : /\ save[j].op \in {"set", "sadd", "srem", "del"}
                                  /\ save[j].op # "del" => save[j].trip = t
    <3>1. save \in Seq(S)
      BY <2>3, SaveTyped
    <3>2. ASSUME NEW j \in DOMAIN save
          PROVE  /\ save[j].op \in {"set", "sadd", "srem", "del"}
                 /\ save[j].op # "del" => save[j].trip = t
      BY SaveAbout
    <3> QED
      BY <3>1, <3>2
  <2> QED
    BY <2>2, <2>4
<1>7. PICK more : more \in {save, save \o save} /\ wire' = [wire EXCEPT ![z] = wire[z] \o more]
  BY <1>0 DEF Enter
<1>8. /\ more \in Seq(ServingCommands(z))
      /\ \A j \in DOMAIN more : more[j].op = "del" \/ more[j].trip = t
  <2> HIDE DEF save
  <2>1. save \o save \in Seq(ServingCommands(z))
    BY <1>6
  <2>2. ASSUME NEW j \in DOMAIN (save \o save)
        PROVE  \E k \in DOMAIN save : (save \o save)[j] = save[k]
    <3>1. /\ DOMAIN (save \o save) = 1..(Len(save) + Len(save)) /\ DOMAIN save = 1..Len(save)
          /\ Len(save) \in Nat
          /\ (save \o save)[j] = IF j <= Len(save) THEN save[j] ELSE save[j - Len(save)]
      BY <1>6
    <3>2. CASE j <= Len(save)
      BY <3>1, <3>2
    <3>3. CASE j > Len(save)
      <4>1. j - Len(save) \in DOMAIN save /\ (save \o save)[j] = save[j - Len(save)]
        BY <3>1, <3>3
      <4> QED
        BY <4>1
    <3> QED
      BY <3>1, <3>2, <3>3
  <2>3. CASE more = save
    BY <1>6, <2>3
  <2>4. CASE more = save \o save
    <3>1. \A j \in DOMAIN more : more[j].op = "del" \/ more[j].trip = t
      BY <1>6, <2>2, <2>4
    <3> QED
      BY <2>1, <2>4, <3>1
  <2> QED
    BY <1>7, <2>3, <2>4
<1> HIDE DEF save
<1>9. /\ wire'[z] = wire[z] \o more
      /\ \A y \in Servers : y # z => wire'[y] = wire[y]
  BY <1>2, <1>5, <1>7
<1>10. ConnectionsTyped'
  <2>1. wire[z] \o more \in Seq(ServingCommands(z))
    BY <1>5, <1>8
  <2>2. PICK w : w = wire[z] \o more
    OBVIOUS
  <2>3. w \in Seq(ServingCommands(z)')
    <3>1. ServingCommands(z) \subseteq ServingCommands(z)'
      BY <1>4, CommandsGrow
    <3> QED
      BY <2>1, <2>2, <3>1, SeqGrows
  <2>4. ConnectionsTyped /\ up[z] = "up" /\ up' = up
    BY <1>0 DEF WrittenInv
  <2>5. /\ z \in Servers /\ MineGrows
        /\ \A y \in Servers : wire'[y] = IF y = z THEN w ELSE wire[y]
    BY <1>2, <1>4, <1>9, <2>2
  <2> QED
    BY <2>3, <2>4, <2>5, UpConnection
<1>11. ASSUME NEW u \in Created' PROVE TripWritten(u)'
  <2>1. u \in Created /\ TripWritten(u) /\ trips[u].server \in Servers
    BY <1>1, <1>3, TripFields DEF WrittenInv
  <2>2. CASE u = t
    <3>1. WireOf(t)' = wire[z] \o more
      BY <1>0, <1>3, <1>9 DEF WireOf
    <3>2. status # "ended" => requestKey'[trips[t].request] # None
      BY <2>1, <2>2 DEF TripWritten, redisVars
    <3>3. PICK S : S = ServingCommands(z)
      OBVIOUS
    <3>4. PICK w : w = wire[z]
      OBVIOUS
    <3>5. w \in Seq(S) /\ save \in Seq(S) /\ WireOf(t)' = w \o more
      BY <1>5, <1>6, <3>1, <3>3, <3>4
    <3>6. /\ SaveTrip(t, trips[t].rider, status) \in Seq(S)
          /\ more \in {SaveTrip(t, trips[t].rider, status),
                       SaveTrip(t, trips[t].rider, status) \o SaveTrip(t, trips[t].rider, status)}
      BY <1>0, <1>7, <3>5 DEF save
    <3>7. status \in {"matching", "matched", "ended"} /\ environment' = environment
      OBVIOUS
    <3>8. trips'[t] = [trips[t] EXCEPT !.status = status]
      BY <1>3
    <3>9. TripWritten(t)'
      BY <1>1, <3>2, <3>5, <3>6, <3>7, <3>8, EnterWritten
    <3> QED
      BY <2>2, <3>9
  <2>3. CASE u # t
    <3>1. trips'[u] = trips[u] /\ WireOf(u) = wire[trips[u].server]
          /\ WireOf(u)' = wire'[trips[u].server]
      BY <1>3, <2>1, <2>3 DEF WireOf
    <3>2. /\ requestKey' = requestKey /\ record' = record /\ active' = active /\ claim' = claim
          /\ claim \in [Riders -> TripIds \cup {None}] /\ trips[u].rider \in Riders
      BY <1>1, <2>1, CreatedIds, TripFields DEF redisVars, StoreInv, Typed, RedisTyped
    <3>3. CASE trips[u].server = z
      <4>1. \A j \in DOMAIN more : more[j].op = "del" \/ more[j].trip # u
        BY <1>8, <2>3
      <4>2. WireOf(u) \in Seq(ServingCommands(z)) /\ WireOf(u)' = WireOf(u) \o more
        BY <1>5, <1>9, <3>1, <3>3
      <4> QED
        BY <1>1, <1>8, <2>1, <3>1, <3>2, <4>1, <4>2, KeepAppend
    <3>4. CASE trips[u].server # z
      <4> DEFINE S == Range(WireOf(u))
                 none == <<>>
      <4>1. GoodWire(WireOf(u), Created) /\ WireOf(u)' = WireOf(u)
        BY <1>9, <2>1, <3>1, <3>4 DEF StoreInv, Typed, WireTyped
      <4>2. PICK T : WireOf(u) \in Seq(T)
        BY <4>1 DEF GoodWire
      <4>3. WireOf(u)' = WireOf(u) \o none /\ none \in Seq(T) /\ DOMAIN none = {}
        BY <4>1, <4>2
      <4> HIDE DEF none
      <4> QED
        BY <1>1, <2>1, <3>1, <3>2, <4>2, <4>3, KeepAppend
    <3> QED
      BY <3>3, <3>4
  <2> QED
    BY <2>2, <2>3
<1>12. FleetInv'
  <2>1. \A u \in Created' : trips'[u].status \in Open => up'[trips'[u].server] = "up"
    BY <1>3 DEF WrittenInv, FleetInv
  <2>2. trips'[t].status = status
    BY <1>2, <1>3 DEF Trip
  <2>3. "restart" \notin environment' => \A u \in Created' : trips'[u].status # "lost"
    <3>1. ASSUME "restart" \notin environment, NEW u \in Created PROVE trips'[u].status # "lost"
      <4>1. CASE u = t
        BY <2>2, <4>1
      <4>2. CASE u # t
        BY <1>3, <3>1, <4>2 DEF WrittenInv, FleetInv
      <4> QED
        BY <4>1, <4>2
    <3> QED
      BY <1>3, <3>1
  <2>4. \A u \in owed' : /\ u \in Created' /\ trips'[u].status = "ended"
                         /\ up'[trips'[u].server] = "up"
    <3> SUFFICES ASSUME NEW u \in owed'
                 PROVE u \in Created' /\ trips'[u].status = "ended" /\ up'[trips'[u].server] = "up"
      OBVIOUS
    <3>1. CASE u = t
      BY <1>3, <2>2, <3>1
    <3>2. CASE u # t
      BY <1>3, <3>2 DEF WrittenInv, FleetInv
    <3> QED
      BY <3>1, <3>2
  <2> QED
    BY <1>3, <2>1, <2>3, <2>4 DEF WrittenInv, FleetInv, redisVars
<1>13. SweepInv'
  <2>1. \A s \in Servers : up'[s] = "reconciling" => s # z
    BY <1>0
  <2> QED
    BY <1>4, <1>9, <2>1, SweepKept DEF WrittenInv, redisVars
<1> QED
  BY <1>10, <1>11, <1>12, <1>13 DEF WrittenInv

\* The trips and Redis are left alone, and so is every connection but one, to which
\* at most a command is added that offers a trip once more.
LEMMA OfferKeeps ==
  ASSUME StoreInv, WrittenInv, NEW z \in Servers, up[z] = "up",
         NEW u, u \in Seq(ServingCommands(z)),
         \A y \in Servers : wire'[y] = IF y = z THEN wire[z] \o u ELSE wire[y],
         \A j \in DOMAIN u : u[j].op = "create" /\ ~Calm,
         UNCHANGED <<environment, up, trips, sweep, redisVars>>,
         \A t \in owed' : t \in owed \/ (t \in Created /\ trips[t].status = "ended"
                                            /\ up[trips[t].server] = "up")
  PROVE  WrittenInv'
<1>1. TripsTyped /\ wire[z] \in Seq(ServingCommands(z))
  BY DEF StoreInv, Typed, WrittenInv, ConnectionsTyped
<1>2. MineGrows /\ Created' = Created /\ \A y : Mine(y)' = Mine(y)
  BY DEF MineGrows, Mine, redisVars, Created
<1>3. ConnectionsTyped'
  <2>1. wire[z] \o u \in Seq(ServingCommands(z))
    BY <1>1
  <2>2. wire[z] \o u \in Seq(ServingCommands(z)')
    BY <1>2, <2>1, CommandsGrow, SeqGrows
  <2> QED
    BY <1>1, <1>2, <2>2, UpConnection DEF WrittenInv
<1>4. ASSUME NEW t \in Created' PROVE TripWritten(t)'
  <2>1. t \in Created /\ TripWritten(t) /\ trips[t].server \in Servers
    BY <1>1, <1>2, TripFields DEF WrittenInv
  <2>2. trips'[t] = trips[t] /\ WireOf(t) = wire[trips[t].server]
        /\ WireOf(t)' = wire'[trips[t].server]
    BY DEF WireOf
  <2>3. /\ requestKey' = requestKey /\ record' = record /\ active' = active /\ claim' = claim
        /\ claim \in [Riders -> TripIds \cup {None}] /\ trips[t].rider \in Riders
    BY <1>1, <2>1, CreatedIds, TripFields DEF redisVars, StoreInv, Typed, RedisTyped
  <2>4. PICK v : /\ \A j \in DOMAIN v : v[j].op = "create" /\ ~Calm
                 /\ WireOf(t)' = WireOf(t) \o v
                 /\ \E S : v \in Seq(S) /\ WireOf(t) \in Seq(S)
    <3>1. CASE trips[t].server = z
      BY <1>1, <2>2, <3>1
    <3>2. CASE trips[t].server # z
      <4> DEFINE none == <<>>
      <4>1. GoodWire(WireOf(t), Created) /\ WireOf(t)' = WireOf(t)
        BY <2>1, <2>2, <3>2 DEF StoreInv, Typed, WireTyped
      <4>2. PICK T : WireOf(t) \in Seq(T)
        BY <4>1 DEF GoodWire
      <4>3. WireOf(t)' = WireOf(t) \o none /\ none \in Seq(T) /\ DOMAIN none = {}
        BY <4>1, <4>2
      <4> HIDE DEF none
      <4> QED
        BY <4>2, <4>3
    <3> QED
      BY <3>1, <3>2
  <2>5. PICK S : v \in Seq(S) /\ WireOf(t) \in Seq(S)
    BY <2>4
  <2> QED
    BY <1>1, <2>1, <2>2, <2>3, <2>4, <2>5, KeepAppend
<1>5. FleetInv'
  BY <1>2 DEF WrittenInv, FleetInv, redisVars
<1>6. SweepInv'
  BY <1>1, <1>2, SweepKept DEF WrittenInv, redisVars
<1> QED
  BY <1>3, <1>4, <1>5, <1>6 DEF WrittenInv

\* A new trip waits for the store; nobody has written anything about it yet.
LEMMA NewTripKeeps ==
  ASSUME StoreInv, WrittenInv, NEW z \in Servers, up[z] = "up", NEW r \in Riders,
         NEW q \in TripIds, NewTrip(z, r, q),
         UNCHANGED <<environment, up, owed, sweep, redisVars>>
  PROVE  WrittenInv'
<1>0. PICK n : n = Len(trips) + 1
  OBVIOUS
<1> DEFINE trip == [rider |-> r, request |-> q, server |-> z, status |-> "requested"]
           command == [op |-> "create", trip |-> n, status |-> "requested"]
           u == <<command>>
<1>1. /\ TripsTyped /\ DOMAIN wire = Servers /\ wire[z] \in Seq(ServingCommands(z))
      /\ trips \in Seq(Trip) /\ Len(trips) \in Nat
  BY DEF StoreInv, Typed, TripsTyped, WireTyped, WrittenInv, ConnectionsTyped
<1>2. /\ Created' = Created \cup {n} /\ n \notin Created
      /\ \A t \in Created : trips'[t] = trips[t]
      /\ trips'[n] = trip
  <2>1. trips' = Append(trips, trip) /\ trip \in Trip
    BY DEF NewTrip, Trip, Statuses, Open
  <2> HIDE DEF trip
  <2>2. /\ trips' \in Seq(Trip)
        /\ Len(trips') = Len(trips) + 1
        /\ \A i \in 1..Len(trips) : trips'[i] = trips[i]
        /\ trips'[Len(trips) + 1] = trip
    BY <1>1, <2>1
  <2>3. Created = 1..Len(trips) /\ Created' = 1..(Len(trips) + 1)
    BY <1>1, <2>2 DEF Created
  <2> QED
    BY <1>0, <1>1, <2>2, <2>3
<1>3. MineGrows /\ \A y : y # z => Mine(y)' = Mine(y)
  BY <1>2 DEF MineGrows, Mine, redisVars
<1>4. command \in ServingCommands(z)'
  <2>1. n \in Mine(z)'
    BY <1>2 DEF Mine
  <2> QED
    BY <2>1 DEF ServingCommands, Statuses, Open
<1>5. wire' = [wire EXCEPT ![z] = wire[z] \o u]
  <2>1. wire' = [wire EXCEPT ![z] = Append(wire[z], command)]
    BY <1>0 DEF NewTrip
  <2> HIDE DEF command
  <2>2. Append(wire[z], command) = wire[z] \o u
    <3>1. wire[z] \in Seq(ServingCommands(z) \cup {command}) /\ command \in ServingCommands(z) \cup {command}
      BY <1>1
    <3> QED
      BY <3>1, AppendIsConcat
  <2> QED
    BY <2>1, <2>2
<1>6. wire[z] \o u \in Seq(ServingCommands(z)') /\ u \in Seq(ServingCommands(z)')
      /\ wire[z] \in Seq(ServingCommands(z)')
  <2>1. wire[z] \in Seq(ServingCommands(z)')
    BY <1>1, <1>3, CommandsGrow, SeqGrows
  <2> HIDE DEF command
  <2>2. u \in Seq(ServingCommands(z)')
    BY <1>4
  <2> QED
    BY <2>1, <2>2
<1>7. \A y \in Servers : wire'[y] = IF y = z THEN wire[z] \o u ELSE wire[y]
  BY <1>1, <1>5
<1>8. ConnectionsTyped'
  <2> HIDE DEF u
  <2> QED
    BY <1>3, <1>6, <1>7, UpConnection DEF WrittenInv
<1>9. ASSUME NEW t \in Created' PROVE TripWritten(t)'
  <2>1. CASE t = n
    <3>1. WireOf(t)' = wire[z] \o u
      <4>1. trips'[t].server = z
        BY <1>2, <2>1
      <4> HIDE DEF u
      <4> QED
        BY <1>7, <4>1 DEF WireOf
    <3>2. /\ DOMAIN (wire[z] \o u) = 1..(Len(wire[z]) + 1)
          /\ (wire[z] \o u)[Len(wire[z]) + 1] = command
          /\ Len(wire[z]) \in Nat
      <4> HIDE DEF command
      <4> QED
        BY <1>1, <1>6
    <3>3. Len(wire[z]) + 1 \in 1..(Len(wire[z]) + 1)
      BY <3>2
    <3>4. command.op = "create" /\ command.trip = t
      BY <2>1
    <3> HIDE DEF u, command
    <3>5. Awaited(t)'
      BY <3>1, <3>2, <3>3, <3>4 DEF Awaited
    <3>6. trips'[t].status = "requested"
      BY <1>2, <2>1
    <3> QED
      BY <3>5, <3>6 DEF TripWritten
  <2>2. CASE t # n
    <3>1. t \in Created /\ TripWritten(t) /\ trips[t].server \in Servers /\ trips'[t] = trips[t]
      BY <1>1, <1>2, <2>2, TripFields DEF WrittenInv
    <3>2. WireOf(t) = wire[trips[t].server] /\ WireOf(t)' = wire'[trips[t].server]
      BY <3>1 DEF WireOf
    <3>3. /\ requestKey' = requestKey /\ record' = record /\ active' = active /\ claim' = claim
          /\ claim \in [Riders -> TripIds \cup {None}] /\ trips[t].rider \in Riders
      BY <1>1, <3>1, CreatedIds, TripFields DEF redisVars, StoreInv, Typed, RedisTyped
    <3>4. CASE trips[t].server = z
      <4>1. \A j \in DOMAIN u : u[j].trip # t
        BY <2>2
      <4> HIDE DEF u
      <4>2. WireOf(t) \in Seq(ServingCommands(z)') /\ WireOf(t)' = WireOf(t) \o u
        BY <1>6, <1>7, <3>1, <3>2, <3>4
      <4> QED
        BY <1>1, <1>6, <3>1, <3>3, <4>1, <4>2, KeepAppend
    <3>5. CASE trips[t].server # z
      <4> DEFINE none == <<>>
      <4>1. GoodWire(WireOf(t), Created) /\ WireOf(t)' = WireOf(t)
        BY <1>7, <3>1, <3>2, <3>5 DEF StoreInv, Typed, WireTyped
      <4>2. PICK T : WireOf(t) \in Seq(T)
        BY <4>1 DEF GoodWire
      <4>3. WireOf(t)' = WireOf(t) \o none /\ none \in Seq(T) /\ DOMAIN none = {}
        BY <4>1, <4>2
      <4> HIDE DEF none
      <4> QED
        BY <1>1, <3>1, <3>3, <4>2, <4>3, KeepAppend
    <3> QED
      BY <3>4, <3>5
  <2> QED
    BY <2>1, <2>2
<1>10. FleetInv'
  BY <1>2 DEF WrittenInv, FleetInv, redisVars
<1>11. SweepInv'
  <2>1. \A s \in Servers : up'[s] = "reconciling" => s # z
    OBVIOUS
  <2> HIDE DEF u
  <2> QED
    BY <1>3, <1>7, <2>1, SweepKept DEF WrittenInv, redisVars
<1> QED
  BY <1>8, <1>9, <1>10, <1>11 DEF WrittenInv

LEMMA RequestRideKeeps ==
  ASSUME StoreInv, WrittenInv, NEW s \in Servers, NEW r \in Riders, RequestRide(s, r)
  PROVE  WrittenInv'
<1>1. Len(trips) + 1 \in TripIds
  BY StoreAssumption DEF StoreInv, Typed, TripsTyped, RequestRide, NewTrip, TripIds
<1> QED
  BY <1>1, NewTripKeeps DEF RequestRide, Room

LEMMA ResendRequestKeeps ==
  ASSUME StoreInv, WrittenInv, NEW s \in Servers, NEW q \in Created, ResendRequest(s, q)
  PROVE  WrittenInv'
<1>1. CASE NewTrip(s, trips[q].rider, q)
  <2>1. q \in TripIds /\ trips[q].rider \in Riders
    BY TripFields DEF StoreInv, Typed
  <2> QED
    BY <1>1, <2>1, NewTripKeeps DEF ResendRequest, Room
<1>2. ASSUME NEW t \in Created, trips[t].server = s, UNCHANGED trips,
             wire' = [wire EXCEPT ![s] = Append(wire[s],
                        [op |-> "create", trip |-> t, status |-> trips[t].status])]
      PROVE  WrittenInv'
  <2> DEFINE command == [op |-> "create", trip |-> t, status |-> trips[t].status]
             u == <<command>>
  <2>1. command \in ServingCommands(s) /\ command.op = "create"
    BY <1>2, TripFields DEF ServingCommands, Mine, StoreInv, Typed
  <2>2. up[s] = "up" /\ ~Calm /\ wire[s] \in Seq(ServingCommands(s))
    BY DEF ResendRequest, Room, Calm, WrittenInv, ConnectionsTyped
  <2>3. wire' = [wire EXCEPT ![s] = Append(wire[s], command)]
    BY <1>2
  <2> HIDE DEF command
  <2>4. Append(wire[s], command) = wire[s] \o u
    BY <2>1, <2>2, AppendIsConcat
  <2>5. u \in Seq(ServingCommands(s)) /\ \A j \in DOMAIN u : u[j].op = "create" /\ ~Calm
    BY <2>1, <2>2
  <2> HIDE DEF u
  <2>6. UNCHANGED <<environment, up, sweep, redisVars, trips, owed>>
    BY <1>2 DEF ResendRequest
  <2>7. \A y \in Servers : wire'[y] = IF y = s THEN wire[s] \o u ELSE wire[y]
    BY <2>3, <2>4 DEF StoreInv, Typed, WireTyped
  <2> QED
    BY <2>2, <2>5, <2>6, <2>7, OfferKeeps
<1>3. \/ NewTrip(s, trips[q].rider, q)
      \/ \E t \in Created : /\ trips[t].server = s /\ UNCHANGED trips
                            /\ wire' = [wire EXCEPT ![s] = Append(wire[s],
                                [op |-> "create", trip |-> t, status |-> trips[t].status])]
  BY DEF ResendRequest, Here, Is
<1> QED
  BY <1>1, <1>2, <1>3

LEMMA TripStepKeeps ==
  ASSUME StoreInv, WrittenInv, NEW t \in Created, TripStep(t)
  PROVE  WrittenInv'
<1>1. CASE Match(t)
  BY <1>1, EnterKeeps DEF Match, Room, WrittenInv, FleetInv
<1>2. CASE Progress(t)
  BY <1>2, EnterKeeps DEF Progress, Room, WrittenInv, FleetInv
<1>3. CASE CompleteTrip(t)
  BY <1>3, EnterKeeps DEF CompleteTrip, Room, WrittenInv, FleetInv
<1>4. CASE EndUnassigned(t)
  BY <1>4, EnterKeeps DEF EndUnassigned, Room, WrittenInv, FleetInv
<1>5. CASE CancelAssigned(t)
  BY <1>5, EnterKeeps DEF CancelAssigned, Room, WrittenInv, FleetInv
<1>6. CASE RepeatCancel(t)
  <2>1. PICK z \in Servers : z = trips[t].server
    BY TripFields DEF StoreInv, Typed
  <2>2. /\ up[z] = "up" /\ trips[t].status = "ended" /\ wire' = wire /\ owed' = owed \cup {t}
        /\ UNCHANGED <<environment, up, trips, sweep, redisVars>>
    BY <1>6, <2>1 DEF RepeatCancel, Room
  <2> DEFINE u == <<>>
  <2>3. wire[z] \in Seq(ServingCommands(z))
    BY <2>2 DEF WrittenInv, ConnectionsTyped
  <2>4. wire[z] \o u = wire[z]
    BY <2>3, ConcatEmptySeq
  <2>5. u \in Seq(ServingCommands(z)) /\ DOMAIN u = {}
    OBVIOUS
  <2> HIDE DEF u
  <2> QED
    BY <2>1, <2>2, <2>4, <2>5, OfferKeeps
<1>7. CASE SaveAgain(t)
  <2>1. trips[t].status = "ended" /\ up[trips[t].server] = "up"
    BY <1>7 DEF SaveAgain, WrittenInv, FleetInv
  <2> QED
    BY <1>7, <2>1, EnterKeeps DEF SaveAgain, WrittenInv, FleetInv
<1> QED
  BY <1>1, <1>2, <1>3, <1>4, <1>5, <1>6, <1>7 DEF TripStep

-----------------------------------------------------------------------------
(* Time, crashes and restarts *)

\* The trip and its connection are left alone.
LEMMA KeepIdle ==
  ASSUME StoreInv, NEW t \in Created, TripWritten(t),
         trips'[t] = trips[t], environment' = environment,
         wire'[trips[t].server] = wire[trips[t].server],
         UNCHANGED <<requestKey, record>>, t \in active <=> t \in active',
         claim'[trips[t].rider] \in {claim[trips[t].rider], None}
  PROVE  TripWritten(t)'
<1> DEFINE none == <<>>
<1>1. TripsTyped /\ trips[t].server \in Servers /\ trips[t].rider \in Riders /\ t # None
  BY TripFields DEF StoreInv, Typed
<1>2. GoodWire(WireOf(t), Created) /\ WireOf(t)' = WireOf(t)
  BY <1>1 DEF WireOf, StoreInv, Typed, WireTyped
<1>3. PICK T : WireOf(t) \in Seq(T)
  BY <1>2 DEF GoodWire
<1>4. WireOf(t)' = WireOf(t) \o none /\ none \in Seq(T) /\ DOMAIN none = {}
  BY <1>2, <1>3
<1>5. claim'[trips[t].rider] \in TripIds \cup {None}
      /\ (claim[trips[t].rider] # t => claim'[trips[t].rider] # t)
  BY <1>1, CreatedIds DEF StoreInv, Typed, RedisTyped
<1> HIDE DEF none
<1> QED
  BY <1>1, <1>3, <1>4, <1>5, KeepAppend

\* Time passes, or a key lapses.
LEMMA IdleKeeps ==
  ASSUME StoreInv, WrittenInv,
         UNCHANGED <<environment, up, trips, owed, wire, sweep, record, requestKey, active>>,
         \A r \in Riders : claim'[r] \in {claim[r], None}
  PROVE  WrittenInv'
<1>1. MineGrows /\ Created' = Created /\ \A y : Mine(y)' = Mine(y)
  BY DEF MineGrows, Mine, Created
<1>2. ConnectionsTyped'
  <2>1. SweepCommands' = SweepCommands /\ \A y : Known(y)' = Known(y)
    BY <1>1 DEF SweepCommands, Known
  <2>2. \A y : ServingCommands(y)' = ServingCommands(y)
    BY <1>1, <2>1 DEF ServingCommands
  <2> QED
    BY <2>1, <2>2 DEF ConnectionsTyped, WrittenInv
<1>3. ASSUME NEW t \in Created' PROVE TripWritten(t)'
  <2>1. t \in Created /\ TripWritten(t) /\ trips[t].rider \in Riders
    BY <1>1, TripFields DEF WrittenInv, StoreInv, Typed
  <2> QED
    BY <2>1, KeepIdle
<1>4. FleetInv'
  BY <1>1 DEF WrittenInv, FleetInv
<1>5. \A t \in Created, r \in Riders : claim'[r] = t => claim[r] = t
  BY TripFields DEF StoreInv, Typed
<1>6. SweepInv'
  BY <1>1, <1>5, SweepKept DEF WrittenInv, Mine
<1> QED
  BY <1>2, <1>3, <1>4, <1>6 DEF WrittenInv

\* The memory of a server and its connection are gone: its trips are lost.
LEMMA CrashKeeps ==
  ASSUME StoreInv, WrittenInv, NEW s \in Servers, Crash(s)
  PROVE  WrittenInv'
<1>1. TripsTyped /\ "restart" \in environment /\ environment' = environment
  BY DEF Crash, StoreInv, Typed
<1>2. /\ Created' = Created
      /\ \A t \in Created : /\ trips[t].server # s => trips'[t] = trips[t]
                            /\ trips'[t].server = trips[t].server
                            /\ trips'[t].request = trips[t].request
                            /\ trips[t].server = s => trips'[t].status \notin Open
                            /\ trips'[t].status \in Open => trips[t].status \in Open
  <2>1. trips' = [t \in Created |->
            IF trips[t].server = s THEN [trips[t] EXCEPT !.status = "lost"] ELSE trips[t]]
    BY DEF Crash
  <2>2. Created' = Created
    BY <2>1 DEF Created
  <2>3. \A t \in Created : trips[t] \in Trip
    BY <1>1, TripFields
  <2> QED
    BY <2>1, <2>2, <2>3 DEF Is, Trip, Open
<1>3. MineGrows /\ \A y : Mine(y)' = Mine(y)
  BY <1>2 DEF MineGrows, Mine, Crash, redisVars
<1>4. /\ \A y \in Servers : y # s => up'[y] = up[y] /\ wire'[y] = wire[y] /\ sweep'[y] = sweep[y]
      /\ up'[s] = "down" /\ wire'[s] = <<>> /\ sweep'[s] = NothingRead
      /\ up' \in [Servers -> {"absent", "down", "reconciling", "up"}]
  BY DEF Crash, StoreInv, Typed, WireTyped, SweepTyped, WrittenInv, FleetInv
<1>5. ConnectionsTyped'
  <2> SUFFICES ASSUME NEW y \in Servers
               PROVE  /\ up'[y] = "up" => wire'[y] \in Seq(ServingCommands(y)')
                      /\ up'[y] = "reconciling" => wire'[y] \in Seq(SweepCommands')
                      /\ up'[y] \in {"absent", "down"} => wire'[y] = <<>>
    BY DEF ConnectionsTyped
  <2>1. CASE y = s
    BY <1>4, <2>1
  <2>2. CASE y # s
    <3>1. up[y] = "up" => wire[y] \in Seq(ServingCommands(y)')
      BY <1>3, CommandsGrow, SeqGrows DEF WrittenInv, ConnectionsTyped
    <3>2. up[y] = "reconciling" => wire[y] \in Seq(SweepCommands')
      BY <1>3, CommandsGrow, SeqGrows DEF WrittenInv, ConnectionsTyped
    <3> QED
      BY <1>4, <2>2, <3>1, <3>2 DEF WrittenInv, ConnectionsTyped
  <2> QED
    BY <2>1, <2>2
<1>6. ASSUME NEW t \in Created' PROVE TripWritten(t)'
  <2>1. t \in Created /\ TripWritten(t) /\ trips[t].server \in Servers
    BY <1>1, <1>2, TripFields DEF WrittenInv
  <2>2. CASE trips[t].server = s
    <3>1. trips'[t].status \notin Open /\ ~Calm'
      BY <1>1, <1>2, <2>1, <2>2 DEF Calm
    <3> QED
      BY <3>1 DEF TripWritten, Open
  <2>3. CASE trips[t].server # s
    <3>1. /\ UNCHANGED <<requestKey, record, active, claim>>
          /\ wire'[trips[t].server] = wire[trips[t].server]
          /\ trips'[t] = trips[t]
      BY <1>2, <1>4, <2>1, <2>3 DEF Crash, redisVars
    <3> QED
      BY <1>1, <2>1, <3>1, KeepIdle
  <2> QED
    BY <2>2, <2>3
<1>7. FleetInv'
  <2>1. \A t \in Created' : trips'[t].status \in Open => up'[trips'[t].server] = "up"
    <3> SUFFICES ASSUME NEW t \in Created, trips'[t].status \in Open
                 PROVE  up'[trips'[t].server] = "up"
      BY <1>2
    <3>1. trips[t].server # s /\ trips[t].server \in Servers /\ up[trips[t].server] = "up"
      BY <1>1, <1>2, TripFields DEF WrittenInv, FleetInv
    <3> QED
      BY <1>2, <1>4, <3>1
  <2>2. \A t \in owed' : /\ t \in Created' /\ trips'[t].status = "ended"
                         /\ up'[trips'[t].server] = "up"
    <3> SUFFICES ASSUME NEW t \in owed'
                 PROVE  t \in Created' /\ trips'[t].status = "ended" /\ up'[trips'[t].server] = "up"
      OBVIOUS
    <3>1. t \in owed /\ trips[t].server # s
      BY DEF Crash
    <3>2. t \in Created /\ trips[t].status = "ended" /\ up[trips[t].server] = "up"
      BY <3>1 DEF WrittenInv, FleetInv
    <3>3. trips[t].server \in Servers
      BY <1>1, <3>2, TripFields
    <3> QED
      BY <1>2, <1>4, <3>1, <3>2, <3>3
  <2>3. \A y \in Servers : sweep'[y].ids \subseteq Created'
    BY <1>2, <1>4 DEF WrittenInv, FleetInv, NothingRead
  <2>4. \A y \in Servers : up'[y] # "absent" => up[y] # "absent"
    BY <1>4 DEF Crash
  <2> QED
    BY <1>1, <1>2, <1>4, <2>1, <2>2, <2>3, <2>4 DEF WrittenInv, FleetInv, Crash, redisVars
<1>8. SweepInv'
  BY <1>3, <1>4, SweepKept DEF WrittenInv, Crash, redisVars
<1> QED
  BY <1>5, <1>6, <1>7, <1>8 DEF WrittenInv

\* A server that comes back has no open trip, and has everything yet to read.
LEMMA StartKeeps ==
  ASSUME StoreInv, WrittenInv, NEW s \in Servers, Start(s)
  PROVE  WrittenInv'
<1>1. TripsTyped /\ UNCHANGED <<environment, trips, owed, requestKey, record, active, claim>>
  BY DEF Start, StoreInv, Typed, redisVars
<1>2. MineGrows /\ Created' = Created /\ \A y : Mine(y)' = Mine(y)
  BY <1>1 DEF MineGrows, Mine, Created
<1> DEFINE ask == Cmd("smembers", None)
<1>3. /\ \A y \in Servers : y # s => up'[y] = up[y] /\ wire'[y] = wire[y] /\ sweep'[y] = sweep[y]
      /\ up[s] = "down" /\ up'[s] = "reconciling" /\ wire'[s] = <<ask>>
      /\ sweep'[s] = [ids |-> {}, stale |-> old]
      /\ up' \in [Servers -> {"absent", "down", "reconciling", "up"}]
  BY DEF Start, StoreInv, Typed, WireTyped, SweepTyped, WrittenInv, FleetInv
<1>4. ask \in SweepCommands' /\ ask.op = "smembers"
  BY DEF SweepCommands, Cmd
<1> HIDE DEF ask
<1>5. ConnectionsTyped'
  <2> SUFFICES ASSUME NEW y \in Servers
               PROVE  /\ up'[y] = "up" => wire'[y] \in Seq(ServingCommands(y)')
                      /\ up'[y] = "reconciling" => wire'[y] \in Seq(SweepCommands')
                      /\ up'[y] \in {"absent", "down"} => wire'[y] = <<>>
    BY DEF ConnectionsTyped
  <2>1. CASE y = s
    <3>1. PICK S : S = SweepCommands'
      OBVIOUS
    <3>2. <<ask>> \in Seq(S)
      BY <1>4, <3>1
    <3> QED
      BY <1>3, <2>1, <3>1, <3>2
  <2>2. CASE y # s
    <3>1. up[y] = "up" => wire[y] \in Seq(ServingCommands(y)')
      BY <1>2, CommandsGrow, SeqGrows DEF WrittenInv, ConnectionsTyped
    <3>2. up[y] = "reconciling" => wire[y] \in Seq(SweepCommands')
      BY <1>2, CommandsGrow, SeqGrows DEF WrittenInv, ConnectionsTyped
    <3> QED
      BY <1>3, <2>2, <3>1, <3>2 DEF WrittenInv, ConnectionsTyped
  <2> QED
    BY <2>1, <2>2
<1>6. "restart" \in environment
  BY <1>3 DEF WrittenInv, FleetInv
<1>7. \A t \in Created : trips[t].server = s => trips[t].status \notin Open
  BY <1>3 DEF WrittenInv, FleetInv
<1>8. ASSUME NEW t \in Created' PROVE TripWritten(t)'
  <2>1. t \in Created /\ TripWritten(t) /\ trips[t].server \in Servers /\ trips'[t] = trips[t]
    BY <1>1, <1>2, TripFields DEF WrittenInv
  <2>2. CASE trips[t].server = s
    <3>1. trips'[t].status \notin Open /\ ~Calm'
      BY <1>1, <1>6, <1>7, <2>1, <2>2 DEF Calm
    <3> QED
      BY <3>1 DEF TripWritten, Open
  <2>3. CASE trips[t].server # s
    BY <1>1, <1>3, <2>1, <2>3, KeepIdle
  <2> QED
    BY <2>2, <2>3
<1>9. FleetInv'
  <2>1. \A t \in Created : trips[t].status \in Open => up'[trips[t].server] = "up"
    <3> SUFFICES ASSUME NEW t \in Created, trips[t].status \in Open
                 PROVE  up'[trips[t].server] = "up"
      OBVIOUS
    <3>1. trips[t].server # s /\ trips[t].server \in Servers /\ up[trips[t].server] = "up"
      BY <1>1, <1>7, TripFields DEF WrittenInv, FleetInv
    <3> QED
      BY <1>3, <3>1
  <2>2. \A t \in owed : up'[trips[t].server] = "up"
    <3> SUFFICES ASSUME NEW t \in owed PROVE up'[trips[t].server] = "up"
      OBVIOUS
    <3>1. t \in Created /\ up[trips[t].server] = "up"
      BY DEF WrittenInv, FleetInv
    <3>2. trips[t].server \in Servers
      BY <1>1, <3>1, TripFields
    <3> QED
      BY <1>3, <3>1, <3>2
  <2>3. \A y \in Servers : sweep'[y].ids \subseteq Created
    BY <1>3 DEF WrittenInv, FleetInv
  <2>4. \A y \in Servers : up'[y] # "absent" => up[y] # "absent"
    BY <1>3
  <2> QED
    BY <1>1, <1>2, <1>3, <1>6, <2>1, <2>2, <2>3, <2>4 DEF WrittenInv, FleetInv
<1>10. ASSUME NEW y \in Servers, up'[y] = "reconciling", NEW t \in sweep'[y].stale \cap Mine(y)'
       PROVE  TripSwept(y, t)'
  <2>1. CASE y = s
    <3>1. ask \in Range(wire'[y])
      BY <1>3, <2>1 DEF Range
    <3> QED
      BY <1>4, <3>1 DEF TripSwept, Delists, Frees
  <2>2. CASE y # s
    <3>1. TripSwept(y, t)
      BY <1>2, <1>3, <1>10, <2>2 DEF WrittenInv, SweepInv
    <3> QED
      BY <1>1, <1>3, <2>2, <3>1 DEF TripSwept
  <2> QED
    BY <2>1, <2>2
<1> QED
  BY <1>5, <1>8, <1>9, <1>10 DEF WrittenInv, SweepInv

\* A server that has reconciled begins to serve, with nothing under way.
LEMMA ListenKeeps ==
  ASSUME StoreInv, WrittenInv, NEW s \in Servers, Listen(s)
  PROVE  WrittenInv'
<1>1. TripsTyped
      /\ UNCHANGED <<environment, trips, owed, wire, requestKey, record, active, claim>>
  BY DEF Listen, StoreInv, Typed, redisVars
<1>2. MineGrows /\ Created' = Created /\ \A y : Mine(y)' = Mine(y)
  BY <1>1 DEF MineGrows, Mine, Created
<1>3. /\ \A y \in Servers : y # s => up'[y] = up[y] /\ sweep'[y] = sweep[y]
      /\ up[s] = "reconciling" /\ up'[s] = "up" /\ wire[s] = <<>>
      /\ sweep'[s] = NothingRead
      /\ up' \in [Servers -> {"absent", "down", "reconciling", "up"}]
  BY DEF Listen, StoreInv, Typed, WireTyped, SweepTyped, WrittenInv, FleetInv
<1>4. ConnectionsTyped'
  <2> SUFFICES ASSUME NEW y \in Servers
               PROVE  /\ up'[y] = "up" => wire[y] \in Seq(ServingCommands(y)')
                      /\ up'[y] = "reconciling" => wire[y] \in Seq(SweepCommands')
                      /\ up'[y] \in {"absent", "down"} => wire[y] = <<>>
    BY <1>1 DEF ConnectionsTyped
  <2>1. CASE y = s
    <3>1. PICK S : S = ServingCommands(y)'
      OBVIOUS
    <3>2. <<>> \in Seq(S)
      OBVIOUS
    <3> QED
      BY <1>3, <2>1, <3>1, <3>2
  <2>2. CASE y # s
    <3>1. up[y] = "up" => wire[y] \in Seq(ServingCommands(y)')
      BY <1>2, CommandsGrow, SeqGrows DEF WrittenInv, ConnectionsTyped
    <3>2. up[y] = "reconciling" => wire[y] \in Seq(SweepCommands')
      BY <1>2, CommandsGrow, SeqGrows DEF WrittenInv, ConnectionsTyped
    <3> QED
      BY <1>3, <2>2, <3>1, <3>2 DEF WrittenInv, ConnectionsTyped
  <2> QED
    BY <2>1, <2>2
<1>5. ASSUME NEW t \in Created' PROVE TripWritten(t)'
  <2>1. t \in Created /\ TripWritten(t)
    BY <1>2 DEF WrittenInv
  <2> QED
    BY <1>1, <2>1, KeepIdle
<1>6. FleetInv'
  <2>1. \A y \in Servers : up[y] = "up" => up'[y] = "up"
    BY <1>3
  <2>2. \A t \in Created : trips[t].status \in Open => up'[trips[t].server] = "up"
    BY <1>1, <2>1, TripFields DEF WrittenInv, FleetInv
  <2>3. \A t \in owed : t \in Created /\ up'[trips[t].server] = "up"
    BY <1>1, <2>1, TripFields DEF WrittenInv, FleetInv
  <2>4. \A y \in Servers : sweep'[y].ids \subseteq Created
    BY <1>3 DEF WrittenInv, FleetInv, NothingRead
  <2>5. \A y \in Servers : up'[y] # "absent" => up[y] # "absent"
    BY <1>3
  <2>6. "restart" \in environment
    BY <1>3 DEF WrittenInv, FleetInv
  <2> QED
    BY <1>1, <1>2, <1>3, <2>2, <2>3, <2>4, <2>5, <2>6 DEF WrittenInv, FleetInv
<1>7. SweepInv'
  BY <1>1, <1>2, <1>3, SweepKept DEF WrittenInv
<1> QED
  BY <1>4, <1>5, <1>6, <1>7 DEF WrittenInv

-----------------------------------------------------------------------------
(* Redis executes a command of a server that is up *)

\* What the command may do to Redis.
RedisAfter(h) ==
    /\ \A q \in TripIds : requestKey[q] # None => requestKey'[q] # None
    /\ DOMAIN record' = TripIds
    /\ h.op = "set" => record'[h.trip] = h.status
    /\ \A t \in Created :
        \/ record'[t] = record[t]
        \/ h.op = "set" /\ h.trip = t
        \/ h.op = "create" /\ h.trip = t /\ requestKey[trips[t].request] = None
    /\ h.op = "sadd" => h.trip \in active'
    /\ h.op = "srem" => h.trip \notin active'
    /\ \A t \in active : t \in active' \/ (h.op = "srem" /\ h.trip = t)
    /\ \A t \in active' : t \in active \/ (h.op \in {"sadd", "create"} /\ h.trip = t)
    /\ claim' \in [Riders -> TripIds \cup {None}]
    /\ h.op = "del" => claim'[h.rider] = None
    /\ \A r \in Riders : claim'[r] \in {claim[r], None} \/ (h.op = "create" /\ claim'[r] = h.trip)

\* What its answer may do to the memory and the connection of the server.
MemoryAfter(z, h, u) ==
    /\ \A y \in Servers : wire'[y] = IF y = z THEN Tail(wire[z]) \o u ELSE wire[y]
    /\ \/ /\ UNCHANGED trips
          /\ u = <<>>
          /\ h.op \in {"create", "reread"} => trips[h.trip].status # "requested"
       \/ /\ UNCHANGED trips
          /\ h.op = "create"
          /\ u = <<Cmd("reread", h.trip)>>
          /\ requestKey[trips[h.trip].request] # None
       \/ \E status \in {"matching", "ended"} :
            /\ h.op \in {"create", "reread"}
            /\ trips[h.trip].status = "requested"
            /\ trips' = [trips EXCEPT ![h.trip].status = status]
            /\ u = SaveTrip(h.trip, trips[h.trip].rider, status)
            /\ status = "matching" => requestKey'[trips[h.trip].request] # None

\* The three answers of the script, and the answer to the reading of a trip.
LEMMA AnswerEffects ==
  ASSUME NEW z \in Servers, DOMAIN wire = Servers, NEW h, NEW t, t = h.trip,
         h.op \in {"create", "reread"}, Continue(z, t) \/ RollBack(z, t),
         Continue(z, t) => requestKey'[trips[t].request] # None
  PROVE  \E u : MemoryAfter(z, h, u)
<1>1. CASE trips[t].status = "requested"
  <2>1. PICK status \in {"matching", "ended"} :
          /\ trips' = [trips EXCEPT ![t].status = status]
          /\ Then(z, SaveTrip(t, trips[t].rider, status))
          /\ status = "matching" => Continue(z, t)
    <3>1. CASE Continue(z, t)
      BY <1>1, <3>1 DEF Continue
    <3>2. CASE RollBack(z, t)
      BY <1>1, <3>2 DEF RollBack
    <3> QED
      BY <3>1, <3>2
  <2>2. PICK u : u = SaveTrip(t, trips[t].rider, status)
    OBVIOUS
  <2>3. \A y \in Servers : wire'[y] = IF y = z THEN Tail(wire[z]) \o u ELSE wire[y]
    BY <2>1, <2>2 DEF Then
  <2>4. MemoryAfter(z, h, u)
    BY <1>1, <2>1, <2>2, <2>3 DEF MemoryAfter
  <2> QED
    BY <2>4
<1>2. CASE trips[t].status # "requested"
  <2>1. UNCHANGED trips /\ Then(z, <<>>)
    BY <1>2 DEF Continue, RollBack
  <2>2. PICK u : u = <<>>
    OBVIOUS
  <2>3. \A y \in Servers : wire'[y] = IF y = z THEN Tail(wire[z]) \o u ELSE wire[y]
    BY <2>1, <2>2 DEF Then
  <2>4. MemoryAfter(z, h, u)
    BY <1>2, <2>1, <2>2, <2>3 DEF MemoryAfter
  <2> QED
    BY <2>4
<1> QED
  BY <1>1, <1>2

LEMMA ServingEffects ==
  ASSUME StoreInv, WrittenInv, NEW z \in Servers, up[z] = "up", Execute(z),
         NEW h, h = Head(wire[z])
  PROVE  /\ wire[z] # <<>> /\ wire[z] \in Seq(ServingCommands(z)) /\ h \in ServingCommands(z)
         /\ UNCHANGED <<environment, up, owed, sweep>>
         /\ RedisAfter(h)
         /\ \E u : MemoryAfter(z, h, u)
<1>1. /\ TripsTyped /\ DOMAIN wire = Servers /\ wire[z] \in Seq(ServingCommands(z))
      /\ wire[z] # <<>>
  BY DEF StoreInv, Typed, WireTyped, WrittenInv, ConnectionsTyped, Execute, Runs,
         RunCreate, RunReread, RunSet, RunSadd, RunSrem, RunDel,
         RunSmembers, RunScan, RunKey, RunTrip, RunOrphan
<1>2. h \in ServingCommands(z)
  BY <1>1
<1>3. /\ h.op \in {"create", "set", "reread", "sadd", "srem", "del"}
      /\ h.op # "del" => /\ h.trip \in Created /\ h.trip \in TripIds /\ h.trip # None
                         /\ trips[h.trip].request \in TripIds
                         /\ trips[h.trip].rider \in Riders
      /\ h.op = "del" => h.rider \in Riders
      /\ h.op = "reread" => requestKey[trips[h.trip].request] # None
  <2>1. /\ h.op \in {"create", "set", "reread", "sadd", "srem", "del"}
        /\ h.op # "del" => h.trip \in Created
        /\ h.op = "del" => h.rider \in Riders
        /\ h.op = "reread" => h.trip \in Known(z)
    BY <1>2, ServingShape DEF Mine
  <2> QED
    BY <1>1, <2>1, TripFields DEF Known
<1>4. /\ requestKey \in [TripIds -> TripIds \cup {None}]
      /\ claim \in [Riders -> TripIds \cup {None}]
      /\ DOMAIN record = TripIds
      /\ Created \subseteq TripIds
  BY <1>1, CreatedIds DEF StoreInv, Typed, RedisTyped, WrittenInv, FleetInv
<1>5. ASSUME RunCreate(z)
      PROVE  /\ UNCHANGED <<environment, up, owed, sweep>> /\ RedisAfter(h)
             /\ \E u : MemoryAfter(z, h, u)
  <2>0. PICK t, r, q : t = h.trip /\ r = trips[t].rider /\ q = trips[t].request
    OBVIOUS
  <2>1. h.op = "create"
    BY <1>5 DEF RunCreate, Runs
  <2>2. CASE requestKey[q] # None /\ Then(z, <<Cmd("reread", t)>>) /\ UNCHANGED <<trips, redisVars>>
    <3>1. PICK u : u = <<Cmd("reread", t)>>
      OBVIOUS
    <3>2. \A y \in Servers : wire'[y] = IF y = z THEN Tail(wire[z]) \o u ELSE wire[y]
      BY <1>1, <2>2, <3>1 DEF Then
    <3>3. MemoryAfter(z, h, u)
      BY <2>0, <2>1, <2>2, <3>1, <3>2 DEF MemoryAfter
    <3>4. RedisAfter(h)
      BY <1>4, <2>1, <2>2 DEF RedisAfter, redisVars
    <3> QED
      BY <1>5, <3>3, <3>4 DEF RunCreate
  <2>3. CASE requestKey[q] = None /\ RollBack(z, t) /\ UNCHANGED redisVars
    <3>1. RedisAfter(h)
      BY <1>4, <2>1, <2>3 DEF RedisAfter, redisVars
    <3>2. \E u : MemoryAfter(z, h, u)
      <4>1. CASE trips[t].status = "requested"
        <5>1. PICK u : u = SaveTrip(t, trips[t].rider, "ended")
          OBVIOUS
        <5>2. /\ \A y \in Servers : wire'[y] = IF y = z THEN Tail(wire[z]) \o u ELSE wire[y]
              /\ trips' = [trips EXCEPT ![t].status = "ended"]
          BY <1>1, <2>3, <4>1, <5>1 DEF RollBack, Then
        <5>3. MemoryAfter(z, h, u)
          BY <2>0, <2>1, <4>1, <5>1, <5>2 DEF MemoryAfter
        <5> QED
          BY <5>3
      <4>2. CASE trips[t].status # "requested"
        <5>1. PICK u : u = <<>>
          OBVIOUS
        <5>2. /\ \A y \in Servers : wire'[y] = IF y = z THEN Tail(wire[z]) \o u ELSE wire[y]
              /\ UNCHANGED trips
          BY <1>1, <2>3, <4>2, <5>1 DEF RollBack, Then
        <5>3. MemoryAfter(z, h, u)
          BY <2>0, <2>1, <4>2, <5>1, <5>2 DEF MemoryAfter
        <5> QED
          BY <5>3
      <4> QED
        BY <4>1, <4>2
    <3> QED
      BY <1>5, <3>1, <3>2 DEF RunCreate
  <2>4. CASE /\ requestKey[q] = None
             /\ claim' = [claim EXCEPT ![r] = t]
             /\ requestKey' = [requestKey EXCEPT ![q] = t]
             /\ record' = [record EXCEPT ![t] = h.status]
             /\ active' = active \cup {t}
             /\ Continue(z, t)
    <3>1. RedisAfter(h)
      <4>1. \A x \in TripIds : requestKey[x] # None => requestKey'[x] # None
        BY <1>3, <1>4, <2>0, <2>1, <2>4
      <4>2. DOMAIN record' = TripIds /\ \A x \in Created : x # t => record'[x] = record[x]
        BY <1>4, <2>4
      <4>3. claim' \in [Riders -> TripIds \cup {None}]
        BY <1>3, <1>4, <2>0, <2>1, <2>4
      <4>4. \A x \in Riders : claim'[x] \in {claim[x], t}
        BY <1>4, <2>4
      <4> QED
        BY <2>0, <2>1, <2>4, <4>1, <4>2, <4>3, <4>4 DEF RedisAfter
    <3>2. requestKey'[trips[t].request] # None
      BY <1>3, <1>4, <2>0, <2>1, <2>4
    <3>3. \E u : MemoryAfter(z, h, u)
      BY <1>1, <2>0, <2>1, <2>4, <3>2, AnswerEffects
    <3> QED
      BY <1>5, <3>1, <3>3 DEF RunCreate
  <2> QED
    BY <1>5, <2>0, <2>2, <2>3, <2>4 DEF RunCreate
<1>6. ASSUME RunReread(z)
      PROVE  /\ UNCHANGED <<environment, up, owed, sweep>> /\ RedisAfter(h)
             /\ \E u : MemoryAfter(z, h, u)
  <2>1. /\ h.op = "reread" /\ Continue(z, h.trip)
        /\ UNCHANGED <<environment, up, owed, sweep, requestKey, record, active, claim>>
    BY <1>6 DEF RunReread, Runs, redisVars
  <2>2. RedisAfter(h)
    BY <1>4, <2>1 DEF RedisAfter
  <2>3. \E u : MemoryAfter(z, h, u)
    BY <1>1, <1>3, <2>1, AnswerEffects
  <2> QED
    BY <2>1, <2>2, <2>3
<1>7. ASSUME RunSet(z) \/ RunSadd(z) \/ RunSrem(z) \/ RunDel(z)
      PROVE  /\ UNCHANGED <<environment, up, owed, sweep>> /\ RedisAfter(h)
             /\ \E u : MemoryAfter(z, h, u)
  <2>1. /\ UNCHANGED <<environment, up, owed, sweep, trips>>
        /\ h.op \notin {"create", "reread"} /\ Then(z, <<>>)
    BY <1>7 DEF RunSet, RunSadd, RunSrem, RunDel, Runs, memoryVars
  <2>2. RedisAfter(h)
    <3>1. CASE RunSet(z)
      <4>1. /\ h.op = "set" /\ record' = [record EXCEPT ![h.trip] = h.status]
            /\ UNCHANGED <<requestKey, active, claim>>
        BY <3>1 DEF RunSet, Runs
      <4>2. record'[h.trip] = h.status /\ DOMAIN record' = TripIds
            /\ \A x \in Created : x # h.trip => record'[x] = record[x]
        BY <1>3, <1>4, <4>1
      <4> QED
        BY <1>4, <4>1, <4>2 DEF RedisAfter
    <3>2. CASE RunSadd(z) \/ RunSrem(z)
      BY <1>4, <3>2 DEF RedisAfter, RunSadd, RunSrem, Runs
    <3>3. CASE RunDel(z)
      BY <1>3, <1>4, <3>3 DEF RedisAfter, RunDel, TakeKey, Runs
    <3> QED
      BY <1>7, <3>1, <3>2, <3>3
  <2>3. PICK u : u = <<>>
    OBVIOUS
  <2>4. \A y \in Servers : wire'[y] = IF y = z THEN Tail(wire[z]) \o u ELSE wire[y]
    BY <1>1, <2>1, <2>3 DEF Then
  <2>5. MemoryAfter(z, h, u)
    BY <2>1, <2>3, <2>4 DEF MemoryAfter
  <2> QED
    BY <2>1, <2>2, <2>5
<1>8. RunCreate(z) \/ RunReread(z) \/ RunSet(z) \/ RunSadd(z) \/ RunSrem(z) \/ RunDel(z)
  BY <1>3 DEF Execute, Runs, RunSmembers, RunScan, RunKey, RunTrip, RunOrphan
<1> QED
  BY <1>1, <1>2, <1>5, <1>6, <1>7, <1>8

LEMMA ServingKeeps ==
  ASSUME StoreInv, WrittenInv, NEW z \in Servers, up[z] = "up", Execute(z)
  PROVE  WrittenInv'
<1>0. PICK h : h = Head(wire[z])
  OBVIOUS
<1>1. /\ wire[z] # <<>> /\ wire[z] \in Seq(ServingCommands(z)) /\ h \in ServingCommands(z)
      /\ UNCHANGED <<environment, up, owed, sweep>>
      /\ RedisAfter(h) /\ \E u : MemoryAfter(z, h, u)
  BY <1>0, ServingEffects
<1>2. PICK u : MemoryAfter(z, h, u)
  BY <1>1
<1>3. TripsTyped /\ h.op \in {"create", "set", "reread", "sadd", "srem", "del"}
      /\ (h.op # "del" => /\ h.trip \in Mine(z) /\ h.trip \in Created /\ trips[h.trip].server = z
                          /\ trips[h.trip].request \in TripIds /\ trips[h.trip].rider \in Riders)
  <2>1. /\ h.op \in {"create", "set", "reread", "sadd", "srem", "del"}
        /\ h.op # "del" => h.trip \in Mine(z)
    BY <1>1, ServingShape
  <2> QED
    BY <2>1, TripFields DEF Mine, StoreInv, Typed
<1> DEFINE Changed(status) ==
            /\ h.op \in {"create", "reread"}
            /\ trips[h.trip].status = "requested"
            /\ trips' = [trips EXCEPT ![h.trip].status = status]
            /\ u = SaveTrip(h.trip, trips[h.trip].rider, status)
            /\ status = "matching" => requestKey'[trips[h.trip].request] # None
<1>4. \/ /\ UNCHANGED trips /\ u = <<>>
         /\ h.op \in {"create", "reread"} => trips[h.trip].status # "requested"
      \/ /\ UNCHANGED trips /\ h.op = "create" /\ u = <<Cmd("reread", h.trip)>>
         /\ requestKey[trips[h.trip].request] # None
      \/ \E status \in {"matching", "ended"} : Changed(status)
  BY <1>2 DEF MemoryAfter
<1>5. /\ \A y \in Servers : wire'[y] = IF y = z THEN Tail(wire[z]) \o u ELSE wire[y]
  BY <1>2 DEF MemoryAfter
<1> HIDE DEF Changed
<1>6. /\ Created' = Created
      /\ \A t \in Created : /\ trips'[t].server = trips[t].server
                            /\ trips'[t].request = trips[t].request
                            /\ \/ trips'[t] = trips[t]
                               \/ \E status \in {"matching", "ended"} :
                                    Changed(status) /\ h.op # "del" /\ h.trip = t
  <2>1. CASE UNCHANGED trips
    BY <2>1 DEF Created
  <2>2. ASSUME NEW status \in {"matching", "ended"}, Changed(status)
        PROVE  /\ Created' = Created
               /\ \A t \in Created : /\ trips'[t].server = trips[t].server
                                     /\ trips'[t].request = trips[t].request
                                     /\ trips'[t] = trips[t] \/ (h.op # "del" /\ h.trip = t)
    <3>1. trips' = [trips EXCEPT ![h.trip].status = status] /\ h.op # "del"
      BY <2>2 DEF Changed
    <3>2. \A t \in Created : trips[t] \in Trip
      BY <1>3, TripFields
    <3> QED
      BY <3>1, <3>2 DEF Created, Trip
  <2> QED
    BY <1>4, <2>1, <2>2
<1>7. MineGrows /\ \A y : Mine(y)' = Mine(y)
  BY <1>1, <1>3, <1>6, TripFields DEF MineGrows, Mine, RedisAfter
<1>8. /\ u \in Seq(ServingCommands(z)')
      /\ \A j \in DOMAIN u : \/ u[j].op \in {"del", "reread"}
                             \/ u[j].trip = h.trip /\ \E status \in {"matching", "ended"} : Changed(status)
  <2>0. PICK S : S = ServingCommands(z)'
    OBVIOUS
  <2>1. CASE u = <<>>
    BY <2>1
  <2>2. CASE h.op = "create" /\ u = <<Cmd("reread", h.trip)>> /\ requestKey[trips[h.trip].request] # None
    <3>1. h.trip \in Known(z)'
      <4>1. h.trip \in Known(z)
        BY <1>3, <2>2 DEF Known
      <4> QED
        BY <1>7, <4>1, CommandsGrow
    <3>2. Cmd("reread", h.trip) \in S /\ Cmd("reread", h.trip).op = "reread"
      BY <2>0, <3>1 DEF ServingCommands, Cmd
    <3> QED
      BY <2>0, <2>2, <3>2
  <2>3. ASSUME NEW status \in {"matching", "ended"}, Changed(status)
        PROVE  u \in Seq(S) /\ \A j \in DOMAIN u : u[j].op = "del" \/ u[j].trip = h.trip
    <3>1. PICK t, r : t = h.trip /\ r = trips[t].rider
      OBVIOUS
    <3>2. u = SaveTrip(t, r, status) /\ h.op # "del"
      BY <2>3, <3>1 DEF Changed
    <3>3. t \in Mine(z)' /\ r \in Riders
      BY <1>3, <1>7, <3>1, <3>2
    <3>4. CmdSet(t, status) \in S /\ Cmd("sadd", t) \in S /\ Cmd("srem", t) \in S
          /\ CmdRider("del", r) \in S
      BY <2>0, <3>3 DEF ServingCommands, CmdSet, Cmd, CmdRider, Statuses, Open
    <3> QED
      BY <3>1, <3>2, <3>4, SaveTyped, SaveAbout
  <2> QED
    BY <1>4, <2>0, <2>1, <2>2, <2>3
<1>9. wire[z] \in Seq(ServingCommands(z)')
  BY <1>1, <1>7, CommandsGrow, SeqGrows
<1>10. ConnectionsTyped'
  <2>0. PICK w : w = Tail(wire[z]) \o u
    OBVIOUS
  <2>1. w \in Seq(ServingCommands(z)')
    BY <1>1, <1>8, <1>9, <2>0, TailConcat
  <2>2. /\ ConnectionsTyped /\ up' = up
        /\ \A y \in Servers : wire'[y] = IF y = z THEN w ELSE wire[y]
    BY <1>1, <1>5, <2>0 DEF WrittenInv
  <2> QED
    BY <1>7, <2>1, <2>2, UpConnection
<1>11. ASSUME NEW t \in Created' PROVE TripWritten(t)'
  <2>1. /\ t \in Created /\ TripWritten(t) /\ trips[t].server \in Servers
        /\ trips[t].request \in TripIds /\ trips[t].rider \in Riders /\ t \in TripIds /\ t # None
    BY <1>3, <1>6, TripFields DEF WrittenInv
  <2>2. ASSUME NEW status \in {"matching", "ended"}, Changed(status), h.trip = t
        PROVE  TripWritten(t)'
    <3>0. PICK S, v : S = ServingCommands(z)' /\ v = Tail(wire[z])
      OBVIOUS
    <3>1. /\ trips'[t] = [trips[t] EXCEPT !.status = status]
          /\ u = SaveTrip(t, trips[t].rider, status) /\ u \in Seq(S)
          /\ status # "ended" => requestKey'[trips[t].request] # None
          /\ h.op # "del"
      BY <1>8, <2>1, <2>2, <3>0 DEF Changed, Created
    <3>2. WireOf(t)' = v \o u /\ v \in Seq(S)
      <4>1. trips'[t].server = z
        BY <1>3, <1>6, <2>1, <2>2, <3>1
      <4>2. WireOf(t)' = v \o u
        BY <1>5, <3>0, <4>1 DEF WireOf
      <4>3. v \in Seq(S)
        BY <1>1, <1>9, <3>0
      <4> QED
        BY <4>2, <4>3
    <3>3. status \in {"matching", "matched", "ended"}
      OBVIOUS
    <3> QED
      BY <1>1, <1>3, <2>1, <3>1, <3>2, <3>3, EnterWritten
  <2>3. ASSUME trips'[t] = trips[t],
               ~ \E status \in {"matching", "ended"} : Changed(status) /\ h.trip = t
        PROVE  TripWritten(t)'
    <3>1. WireOf(t) = wire[trips[t].server] /\ WireOf(t)' = wire'[trips[t].server]
      BY <2>3 DEF WireOf
    <3>2. CASE trips[t].server = z
      <4>0. PICK S : S = ServingCommands(z)'
        OBVIOUS
      <4>1. /\ WireOf(t) \in Seq(S) /\ WireOf(t) # <<>> /\ u \in Seq(S)
            /\ WireOf(t)' = Tail(WireOf(t)) \o u
            /\ h = Head(WireOf(t))
        BY <1>0, <1>1, <1>5, <1>8, <1>9, <3>1, <3>2, <4>0
      <4>2. \A j \in DOMAIN u : u[j].op \in {"del", "reread"} \/ u[j].trip # t
        BY <1>8, <2>3
      <4>3. trips[t].status = "requested" =>
              \/ h.op \notin {"create", "reread"} \/ h.trip # t
              \/ \E j \in DOMAIN u : u[j].op = "reread" /\ u[j].trip = t
        <5>1. CASE u = <<Cmd("reread", h.trip)>>
          <6>1. 1 \in DOMAIN u /\ u[1] = Cmd("reread", h.trip)
            BY <5>1
          <6> QED
            BY <6>1 DEF Cmd
        <5> QED
          BY <1>4, <2>3, <5>1
      <4>4. trips[t].status \in {"matching", "matched"} =>
              /\ requestKey'[trips[t].request] # None
              /\ RestartsAlone =>
                  /\ h = CmdSet(t, trips[t].status) => record'[t] = trips[t].status
                  /\ record'[t] = record[t] \/ (h.op = "set" /\ h.trip = t)
                  /\ h = Cmd("sadd", t) => t \in active'
                  /\ t \in active => t \in active' \/ h = Cmd("srem", t)
        <5> SUFFICES ASSUME trips[t].status \in {"matching", "matched"}
                     PROVE  /\ requestKey'[trips[t].request] # None
                            /\ h = CmdSet(t, trips[t].status) => record'[t] = trips[t].status
                            /\ record'[t] = record[t] \/ (h.op = "set" /\ h.trip = t)
                            /\ h = Cmd("sadd", t) => t \in active'
                            /\ t \in active => t \in active' \/ h = Cmd("srem", t)
          OBVIOUS
        <5>1. requestKey[trips[t].request] # None /\ requestKey'[trips[t].request] # None
          BY <1>1, <2>1 DEF TripWritten, RedisAfter
        <5>2. h = CmdSet(t, trips[t].status) => record'[t] = trips[t].status
          BY <1>1 DEF RedisAfter, CmdSet
        <5>3. record'[t] = record[t] \/ (h.op = "set" /\ h.trip = t)
          BY <1>1, <2>1, <5>1 DEF RedisAfter
        <5>4. h = Cmd("sadd", t) => t \in active'
          BY <1>1 DEF RedisAfter, Cmd
        <5>5. t \in active => t \in active' \/ h = Cmd("srem", t)
          BY <1>1, ServingShape DEF RedisAfter
        <5> QED
          BY <5>1, <5>2, <5>3, <5>4, <5>5
      <4>5. trips[t].status = "ended" /\ Calm =>
              /\ h = Cmd("srem", t) => t \notin active'
              /\ t \notin active => t \notin active' \/ h = Cmd("sadd", t) \/ h \in CreatesOf(t)
              /\ claim'[trips[t].rider] \in TripIds \cup {None}
              /\ h = CmdRider("del", trips[t].rider) => claim'[trips[t].rider] # t
              /\ claim[trips[t].rider] # t => claim'[trips[t].rider] # t \/ h \in CreatesOf(t)
        <5>1. h = Cmd("srem", t) => t \notin active'
          BY <1>1 DEF RedisAfter, Cmd
        <5>2. t \notin active => t \notin active' \/ h = Cmd("sadd", t) \/ h \in CreatesOf(t)
          BY <1>1, ServingShape DEF RedisAfter
        <5>3. claim'[trips[t].rider] \in TripIds \cup {None}
          BY <1>1, <2>1 DEF RedisAfter
        <5>4. h = CmdRider("del", trips[t].rider) => claim'[trips[t].rider] # t
          BY <1>1, <2>1 DEF RedisAfter, CmdRider
        <5>5. claim[trips[t].rider] # t => claim'[trips[t].rider] # t \/ h \in CreatesOf(t)
          BY <1>1, <2>1, ServingShape DEF RedisAfter
        <5> QED
          BY <5>1, <5>2, <5>3, <5>4, <5>5
      <4>6. Fits(t, h, u)
        BY <4>2, <4>3, <4>4, <4>5 DEF Fits
      <4>7. h.op = "set" => h = CmdSet(h.trip, h.status) /\ h.status \in Statuses
        BY <1>1, ServingShape
      <4>8. TripsTyped /\ environment' = environment
        BY <1>1, <1>3
      <4> QED
        BY <2>1, <2>3, <4>1, <4>6, <4>7, <4>8, KeepExecute
    <3>3. CASE trips[t].server # z
      <4> DEFINE none == <<>>
      <4>1. GoodWire(WireOf(t), Created) /\ WireOf(t)' = WireOf(t)
        BY <1>5, <2>1, <3>1, <3>3 DEF StoreInv, Typed, WireTyped
      <4>2. PICK T : WireOf(t) \in Seq(T)
        BY <4>1 DEF GoodWire
      <4>3. WireOf(t)' = WireOf(t) \o none /\ none \in Seq(T) /\ DOMAIN none = {}
        BY <4>1, <4>2
      <4>4. h.op = "del" \/ h.trip # t
        BY <1>3, <3>3
      <4>5. trips[t].status \in {"matching", "matched"} =>
              /\ requestKey[trips[t].request] # None => requestKey'[trips[t].request] # None
              /\ RestartsAlone => record'[t] = record[t] /\ (t \in active => t \in active')
        BY <1>1, <2>1, <4>4 DEF RedisAfter
      <4>6. trips[t].status = "ended" /\ Calm =>
              /\ t \notin active => t \notin active'
              /\ claim'[trips[t].rider] \in TripIds \cup {None}
              /\ claim[trips[t].rider] # t => claim'[trips[t].rider] # t
        BY <1>1, <2>1, <4>4 DEF RedisAfter
      <4> HIDE DEF none
      <4> QED
        BY <1>1, <1>3, <2>1, <2>3, <4>2, <4>3, <4>5, <4>6, KeepAppend
    <3> QED
      BY <3>2, <3>3
  <2>4. trips'[t] = trips[t] \/ \E status \in {"matching", "ended"} : Changed(status) /\ h.trip = t
    BY <1>6, <2>1
  <2> QED
    BY <2>2, <2>3, <2>4
<1>12. FleetInv'
  <2>1. ASSUME NEW t \in Created
        PROVE  /\ trips'[t].status \in Open => trips[t].status \in Open
               /\ trips'[t].status = "lost" => trips[t].status = "lost"
               /\ trips[t].status = "ended" => trips'[t].status = "ended"
    <3>1. ASSUME NEW status \in {"matching", "ended"}, Changed(status), h.trip = t
          PROVE  trips'[t].status = status /\ trips[t].status = "requested"
      <4>1. trips[t] \in Trip /\ trips[t].status = "requested"
            /\ trips' = [trips EXCEPT ![t].status = status]
        BY <1>3, <3>1, TripFields DEF Changed
      <4> QED
        BY <4>1 DEF Created, Trip
    <3> QED
      BY <1>6, <3>1 DEF Open
  <2>2. active' \subseteq Created
    BY <1>1, <1>3 DEF RedisAfter, WrittenInv, FleetInv
  <2> QED
    BY <1>1, <1>6, <2>1, <2>2 DEF WrittenInv, FleetInv, RedisAfter
<1>13. SweepInv'
  <2>1. ASSUME NEW s \in Servers, s # z
        PROVE  /\ \A t \in Mine(s) : t \in active' => t \in active
               /\ \A t \in Mine(s), r \in Riders : claim'[r] = t => claim[r] = t
    <3>1. \A t \in Mine(s) : t # None /\ (h.op = "del" \/ h.trip # t)
      BY <1>3, <2>1, TripFields DEF Mine
    <3> QED
      BY <1>1, <3>1 DEF RedisAfter
  <2>2. \A s \in Servers : up'[s] = "reconciling" => s # z
    BY <1>1
  <2> QED
    BY <1>1, <1>5, <1>7, <2>1, <2>2, SweepKept DEF WrittenInv
<1> QED
  BY <1>10, <1>11, <1>12, <1>13 DEF WrittenInv

-----------------------------------------------------------------------------
(* Steps of a server that reconciles *)

LEMMA RangeFirst ==
  ASSUME NEW S, NEW w \in Seq(S), w # <<>>, NEW u \in Seq(S)
  PROVE  /\ u \o Tail(w) \in Seq(S)
         /\ Range(u) \subseteq Range(u \o Tail(w))
         /\ \A c \in Range(w) : c = Head(w) \/ c \in Range(u \o Tail(w))
<1> DEFINE v == u \o Tail(w)
<1>1. /\ Tail(w) \in Seq(S) /\ Len(w) \in Nat \ {0} /\ Len(u) \in Nat
      /\ Len(Tail(w)) = Len(w) - 1 /\ Head(w) = w[1]
      /\ DOMAIN w = 1..Len(w) /\ DOMAIN u = 1..Len(u)
      /\ \A i \in 1..(Len(w) - 1) : Tail(w)[i] = w[i + 1]
  OBVIOUS
<1>2. /\ v \in Seq(S) /\ DOMAIN v = 1..(Len(u) + Len(w) - 1)
      /\ \A i \in 1..Len(u) : v[i] = u[i]
      /\ \A i \in 1..Len(Tail(w)) : v[Len(u) + i] = Tail(w)[i]
  BY <1>1
<1> HIDE DEF v
<1>3. Range(u) \subseteq Range(v)
  BY <1>1, <1>2 DEF Range
<1>4. ASSUME NEW c \in Range(w), c # Head(w) PROVE c \in Range(v)
  <2>1. PICK i \in 1..Len(w) : c = w[i]
    BY <1>1 DEF Range
  <2>2. i - 1 \in 1..(Len(w) - 1) /\ (i - 1) + 1 = i
    BY <1>1, <1>4, <2>1
  <2>3. v[Len(u) + (i - 1)] = c
    BY <1>1, <1>2, <2>1, <2>2
  <2>4. Len(u) + (i - 1) \in DOMAIN v
    BY <1>1, <1>2, <2>2
  <2> QED
    BY <2>3, <2>4 DEF Range
<1> QED
  BY <1>2, <1>3, <1>4 DEF v

\* The enumerations of a finite set leave no element out.
LEMMA Enumerated ==
  ASSUME NEW S, IsFiniteSet(S)
  PROVE  /\ Cardinality(S) \in Nat
         /\ SetToSeq(S) \in Seq(S)
         /\ Len(SetToSeq(S)) = Cardinality(S)
         /\ \A x \in S : \E i \in 1..Cardinality(S) : SetToSeq(S)[i] = x
         /\ \A keys \in SetToSeqs(S) :
                /\ DOMAIN keys = 1..Cardinality(S)
                /\ \A i \in DOMAIN keys : keys[i] \in S
                /\ \A x \in S : \E i \in DOMAIN keys : keys[i] = x
<1> DEFINE D == 1..Cardinality(S)
<1>1. Cardinality(S) \in Nat /\ ExistsBijection(D, S)
  BY FS_CardinalityType
<1>2. IsFiniteSet(D) /\ Cardinality(D) = Cardinality(S)
  BY <1>1, FS_Interval
<1>3. ASSUME NEW f \in [D -> S], IsInjective(f)
      PROVE  \A x \in S : \E i \in D : f[i] = x
  <2>1. f \in Injection(D, S)
    BY <1>3 DEF Injection
  <2>2. f \in Surjection(D, S)
    BY <1>2, <2>1, FS_Injection
  <2> QED
    BY <2>2 DEF Surjection
<1>4. \E f \in [D -> S] : IsInjective(f)
  BY <1>1 DEF ExistsBijection, Bijection, Injection
<1>5. SetToSeq(S) \in [D -> S] /\ IsInjective(SetToSeq(S))
  BY <1>4 DEF SetToSeq
<1>6. SetToSeq(S) \in Seq(S) /\ Len(SetToSeq(S)) = Cardinality(S)
  BY <1>1, <1>5
<1>7. ASSUME NEW keys \in SetToSeqs(S)
      PROVE  keys \in [D -> S] /\ IsInjective(keys)
  BY DEF SetToSeqs, IsInjective
<1> HIDE DEF D
<1>8. ASSUME NEW keys \in SetToSeqs(S)
      PROVE  /\ DOMAIN keys = D
             /\ \A i \in DOMAIN keys : keys[i] \in S
             /\ \A x \in S : \E i \in DOMAIN keys : keys[i] = x
  BY <1>3, <1>7
<1>9. \A x \in S : \E i \in D : SetToSeq(S)[i] = x
  BY <1>3, <1>5
<1> QED
  BY <1>1, <1>6, <1>8, <1>9 DEF D

\* What is left to show of a step of a reconciling server: that it does not drop
\* what it has yet to do about its own trips.
LEMMA SweepStepKeeps ==
  ASSUME StoreInv, WrittenInv, NEW s \in Servers, up[s] = "reconciling",
         UNCHANGED <<environment, up, trips, owed, requestKey>>,
         wire[s] # <<>>, NEW u \in Seq(SweepCommands),
         \A y \in Servers : wire'[y] = IF y = s THEN u \o Tail(wire[s]) ELSE wire[y],
         active' \subseteq active, \A r \in Riders : claim'[r] \in {claim[r], None},
         DOMAIN record' = DOMAIN record,
         \A y \in Servers : /\ y # s => sweep'[y] = sweep[y]
                            /\ sweep'[y].ids \subseteq Created
                            /\ sweep'[y].stale = sweep[y].stale,
         \A t \in sweep[s].ids : t \in active' => t \in sweep'[s].ids,
         \A t \in sweep[s].stale \cap Mine(s) :
            /\ t \in active' /\ Delists(Head(wire[s]), t, sweep[s].ids) =>
                    \E c \in Range(u) : Delists(c, t, sweep'[s].ids)
            /\ \A r \in Riders : claim'[r] = t /\ Frees(Head(wire[s]), t, r) =>
                    \E c \in Range(u) : Frees(c, t, r)
  PROVE  WrittenInv'
<1>1. MineGrows /\ Created' = Created /\ (\A y : Mine(y)' = Mine(y)) /\ TripsTyped
  BY DEF MineGrows, Mine, Created, StoreInv, Typed
<1>2. SweepCommands' = SweepCommands /\ \A y : ServingCommands(y)' = ServingCommands(y)
  BY <1>1 DEF SweepCommands, ServingCommands, Known
<1>3. wire[s] \in Seq(SweepCommands)
  BY DEF WrittenInv, ConnectionsTyped
<1>4. /\ u \o Tail(wire[s]) \in Seq(SweepCommands)
      /\ Range(u) \subseteq Range(wire'[s])
      /\ \A c \in Range(wire[s]) : c = Head(wire[s]) \/ c \in Range(wire'[s])
  BY <1>3, RangeFirst
<1>5. ConnectionsTyped'
  <2> SUFFICES ASSUME NEW y \in Servers
               PROVE  /\ up[y] = "up" => wire'[y] \in Seq(ServingCommands(y))
                      /\ up[y] = "reconciling" => wire'[y] \in Seq(SweepCommands)
                      /\ up[y] \in {"absent", "down"} => wire'[y] = <<>>
    BY <1>2 DEF ConnectionsTyped
  <2> QED
    BY <1>4 DEF WrittenInv, ConnectionsTyped
<1>6. FleetInv'
  BY <1>1 DEF WrittenInv, FleetInv
<1>7. "restart" \in environment
  BY DEF WrittenInv, FleetInv
<1>8. ASSUME NEW t \in Created PROVE TripWritten(t)'
  <2>1. TripWritten(t) /\ trips'[t] = trips[t] /\ trips[t].server \in Servers /\ ~Calm'
    BY <1>1, <1>7, <1>8, TripFields DEF WrittenInv, Calm
  <2>2. CASE trips[t].server = s
    <3>1. trips[t].status \notin Open
      BY <2>2 DEF WrittenInv, FleetInv
    <3> QED
      BY <2>1, <3>1 DEF TripWritten, Open
  <2>3. CASE trips[t].server # s
    <3>1. wire'[trips'[t].server] = wire[trips[t].server]
      BY <2>1, <2>3
    <3>2. Awaited(t) => Awaited(t)'
      BY <3>1 DEF Awaited, WireOf
    <3>3. CASE trips[t].status \in Open
      <4>1. "two" \in environment
        BY <2>1, <2>3, <3>3 DEF WrittenInv, FleetInv
      <4>2. ~RestartsAlone'
        BY <1>7, <4>1 DEF RestartsAlone
      <4> QED
        BY <2>1, <3>2, <3>3, <4>2 DEF TripWritten, Open
    <3>4. CASE trips[t].status \notin Open
      BY <2>1, <3>4 DEF TripWritten, Open
    <3> QED
      BY <3>3, <3>4
  <2> QED
    BY <2>2, <2>3
<1>9. ASSUME NEW y \in Servers, up[y] = "reconciling", NEW t \in sweep[y].stale \cap Mine(y)
      PROVE  TripSwept(y, t)'
  <2>0. TripSwept(y, t) /\ t \in TripIds /\ t # None
    BY <1>1, <1>9, TripFields DEF WrittenInv, SweepInv, Mine
  <2>1. CASE y = s
    <3>1. ASSUME t \in active' PROVE \E c \in Range(wire'[s]) : Delists(c, t, sweep'[s].ids)
      <4>1. PICK c \in Range(wire[s]) : Delists(c, t, sweep[s].ids)
        BY <2>0, <2>1, <3>1 DEF TripSwept
      <4>2. CASE c = Head(wire[s])
        BY <1>4, <1>9, <2>1, <3>1, <4>1, <4>2
      <4>3. CASE c # Head(wire[s])
        <5>1. Delists(c, t, sweep'[s].ids)
          BY <3>1, <4>1 DEF Delists
        <5> QED
          BY <1>4, <4>1, <4>3, <5>1
      <4> QED
        BY <4>2, <4>3
    <3>2. ASSUME NEW r \in Riders, claim'[r] = t
          PROVE  \E c \in Range(wire'[s]) : Frees(c, t, r)
      <4>1. claim[r] = t
        BY <2>0, <3>2
      <4>2. PICK c \in Range(wire[s]) : Frees(c, t, r)
        BY <2>0, <2>1, <4>1 DEF TripSwept
      <4>3. CASE c = Head(wire[s])
        BY <1>4, <1>9, <2>1, <3>2, <4>2, <4>3
      <4> QED
        BY <1>4, <4>2, <4>3
    <3> QED
      BY <2>1, <3>1, <3>2 DEF TripSwept
  <2>2. CASE y # s
    <3>1. wire'[y] = wire[y] /\ sweep'[y] = sweep[y]
      BY <2>2
    <3>2. \A r \in Riders : claim'[r] = t => claim[r] = t
      BY <2>0
    <3> QED
      BY <2>0, <3>1, <3>2 DEF TripSwept
  <2> QED
    BY <2>1, <2>2
<1>10. SweepInv'
  BY <1>1, <1>9 DEF SweepInv
<1> QED
  BY <1>1, <1>5, <1>6, <1>8, <1>10 DEF WrittenInv

LEMMA SweepShape ==
  ASSUME NEW h \in SweepCommands
  PROVE  /\ h.op \in {"smembers", "scan", "orphan", "srem", "set", "key", "del", "trip"}
         /\ h.op \in {"orphan", "srem", "set", "trip"} => h.trip \in Created
         /\ h.op \in {"key", "del", "trip"} => h.rider \in Riders
<1>1. CASE h \in [op : {"smembers", "scan"}, trip : {None}]
  BY <1>1
<1>2. CASE h \in [op : {"orphan", "srem"}, trip : Created]
  BY <1>2
<1>3. CASE h \in [op : {"set"}, trip : Created, status : Statuses]
  BY <1>3
<1>4. CASE h \in [op : {"key", "del"}, rider : Riders]
  BY <1>4
<1>5. CASE h \in [op : {"trip"}, trip : Created, rider : Riders]
  BY <1>5
<1> QED
  BY <1>1, <1>2, <1>3, <1>4, <1>5 DEF SweepCommands

\* What the commands that a reconciling server adds lead to.
LEMMA SweepAdds ==
  ASSUME NEW t, NEW r, NEW ids
  PROVE  /\ t \in Created => /\ Cmd("srem", t) \in SweepCommands
                             /\ Cmd("orphan", t) \in SweepCommands
                             /\ CmdSet(t, "ended") \in SweepCommands
         /\ r \in Riders => CmdRider("del", r) \in SweepCommands /\ CmdRider("key", r) \in SweepCommands
         /\ t \in Created /\ r \in Riders => [op |-> "trip", trip |-> t, rider |-> r] \in SweepCommands
         /\ Cmd("scan", None) \in SweepCommands
         /\ Delists(Cmd("srem", t), t, ids) /\ Delists(Cmd("orphan", t), t, ids)
         /\ Frees(CmdRider("del", r), t, r) /\ Frees(CmdRider("key", r), t, r)
         /\ Frees([op |-> "trip", trip |-> t, rider |-> r], t, r)
         /\ Frees(Cmd("scan", None), t, r)
         /\ t \in ids => Delists(Cmd("scan", None), t, ids)
<1>1. t \in Created => /\ Cmd("srem", t) \in SweepCommands
                       /\ Cmd("orphan", t) \in SweepCommands
  BY DEF SweepCommands, Cmd
<1>2. t \in Created => CmdSet(t, "ended") \in SweepCommands
  BY DEF SweepCommands, CmdSet, Statuses
<1>3. r \in Riders => CmdRider("del", r) \in SweepCommands /\ CmdRider("key", r) \in SweepCommands
  BY DEF SweepCommands, CmdRider
<1>4. t \in Created /\ r \in Riders => [op |-> "trip", trip |-> t, rider |-> r] \in SweepCommands
  BY DEF SweepCommands
<1>5. Cmd("scan", None) \in SweepCommands
  BY DEF SweepCommands, Cmd
<1> QED
  BY <1>1, <1>2, <1>3, <1>4, <1>5 DEF Delists, Frees, Cmd, CmdRider

\* A connection that loses its first command, with u put in front of the rest.
LEMMA PutFirst ==
  ASSUME NEW s \in Servers, DOMAIN wire = Servers, NEW u, ThenFirst(s, u)
  PROVE  \A y \in Servers : wire'[y] = IF y = s THEN u \o Tail(wire[s]) ELSE wire[y]
BY DEF ThenFirst

LEMMA PutNothing ==
  ASSUME NEW S, NEW s \in Servers, DOMAIN wire = Servers, wire[s] \in Seq(S), wire[s] # <<>>,
         Then(s, <<>>)
  PROVE  \A y \in Servers : wire'[y] = IF y = s THEN <<>> \o Tail(wire[s]) ELSE wire[y]
<1>1. Tail(wire[s]) \in Seq(S)
  OBVIOUS
<1>2. Tail(wire[s]) \o <<>> = Tail(wire[s]) /\ <<>> \o Tail(wire[s]) = Tail(wire[s])
  BY <1>1, ConcatEmptySeq
<1> QED
  BY <1>2 DEF Then

\* What is known when a reconciling server's first command is executed.
LEMMA SweepHead ==
  ASSUME StoreInv, WrittenInv, NEW s \in Servers, up[s] = "reconciling", wire[s] # <<>>,
         NEW h, h = Head(wire[s])
  PROVE  /\ DOMAIN wire = Servers /\ wire[s] \in Seq(SweepCommands) /\ h \in SweepCommands
         /\ h.op \in {"smembers", "scan", "orphan", "srem", "set", "key", "del", "trip"}
         /\ h.op \in {"orphan", "srem", "set", "trip"} => h.trip \in Created
         /\ h.op \in {"key", "del", "trip"} => h.rider \in Riders
         /\ sweep[s].ids \subseteq Created /\ sweep \in [Servers -> [ids : SUBSET TripIds, stale : SUBSET TripIds]]
         /\ TripsTyped /\ \A t \in Created : t # None
<1>1. wire[s] \in Seq(SweepCommands) /\ DOMAIN wire = Servers
  BY DEF WrittenInv, ConnectionsTyped, StoreInv, Typed, WireTyped
<1>2. h \in SweepCommands
  BY <1>1
<1>3. TripsTyped
  BY DEF StoreInv, Typed
<1> QED
  BY <1>1, <1>2, <1>3, SweepShape, TripFields DEF WrittenInv, FleetInv, StoreInv, Typed, SweepTyped

\* SET, SREM and DEL.
LEMMA SweepWriteKeeps ==
  ASSUME StoreInv, WrittenInv, NEW s \in Servers, up[s] = "reconciling",
         RunSet(s) \/ RunSrem(s) \/ RunDel(s)
  PROVE  WrittenInv'
<1>0. PICK h : h = Head(wire[s])
  OBVIOUS
<1>1. wire[s] # <<>> /\ Then(s, <<>>)
      /\ UNCHANGED <<environment, up, trips, owed, requestKey, sweep>>
  BY DEF RunSet, RunSrem, RunDel, Runs, memoryVars
<1>2. /\ DOMAIN wire = Servers /\ wire[s] \in Seq(SweepCommands)
      /\ sweep[s].ids \subseteq Created /\ \A t \in Created : t # None
  BY <1>0, <1>1, SweepHead
<1>3. \A y \in Servers : wire'[y] = IF y = s THEN <<>> \o Tail(wire[s]) ELSE wire[y]
  BY <1>1, <1>2, PutNothing
<1>4. <<>> \in Seq(SweepCommands) /\ Range(<<>>) = {}
  BY DEF Range
<1>5. /\ active' \subseteq active
      /\ \A r \in Riders : claim'[r] \in {claim[r], None}
      /\ DOMAIN record' = DOMAIN record
  BY DEF RunSet, RunSrem, RunDel, TakeKey, StoreInv, Typed, RedisTyped
<1>6. \A y \in Servers : sweep'[y].ids \subseteq Created
  BY <1>1 DEF WrittenInv, FleetInv
<1>7. ASSUME NEW t \in sweep[s].stale \cap Mine(s)
      PROVE  /\ t \in active' => ~Delists(h, t, sweep[s].ids)
             /\ \A r \in Riders : claim'[r] = t => ~Frees(h, t, r)
  <2>1. t # None
    BY <1>2 DEF Mine
  <2>2. CASE RunSet(s)
    BY <1>0, <2>2 DEF RunSet, Runs, Delists, Frees
  <2>3. CASE RunSrem(s)
    BY <1>0, <2>3 DEF RunSrem, Runs, Delists, Frees
  <2>4. CASE RunDel(s)
    <3>1. h.op = "del" /\ claim' = [claim EXCEPT ![h.rider] = None]
          /\ claim \in [Riders -> Created \cup {None}]
      BY <1>0, <2>4 DEF RunDel, TakeKey, Runs, StoreInv, Typed, RedisTyped
    <3> QED
      BY <2>1, <3>1 DEF Delists, Frees
  <2> QED
    BY <2>2, <2>3, <2>4
<1> QED
  BY <1>0, <1>1, <1>3, <1>4, <1>5, <1>6, <1>7, SweepStepKeeps

\* The steps that only put commands in front.
LEMMA SweepReadKeeps ==
  ASSUME StoreInv, WrittenInv, NEW s \in Servers, up[s] = "reconciling", wire[s] # <<>>,
         UNCHANGED <<environment, memoryVars, redisVars, sweep>>,
         NEW u \in Seq(SweepCommands), ThenFirst(s, u),
         \A t \in sweep[s].stale \cap Mine(s) :
            /\ t \in active /\ Delists(Head(wire[s]), t, sweep[s].ids) =>
                    \E c \in Range(u) : Delists(c, t, sweep[s].ids)
            /\ \A r \in Riders : claim[r] = t /\ Frees(Head(wire[s]), t, r) =>
                    \E c \in Range(u) : Frees(c, t, r)
  PROVE  WrittenInv'
<1>1. /\ UNCHANGED <<environment, up, trips, owed, requestKey>>
      /\ active' = active /\ claim' = claim /\ record' = record /\ sweep' = sweep
  BY DEF memoryVars, redisVars
<1>2. \A y \in Servers : wire'[y] = IF y = s THEN u \o Tail(wire[s]) ELSE wire[y]
  BY PutFirst DEF StoreInv, Typed, WireTyped
<1>3. \A y \in Servers : sweep'[y].ids \subseteq Created
  BY <1>1 DEF WrittenInv, FleetInv
<1> QED
  BY <1>1, <1>2, <1>3, SweepStepKeeps

LEMMA SmembersKeeps ==
  ASSUME StoreInv, WrittenInv, NEW s \in Servers, up[s] = "reconciling", RunSmembers(s)
  PROVE  WrittenInv'
<1>0. PICK h, c : h = Head(wire[s]) /\ c = Cmd("scan", None)
  OBVIOUS
<1>1. /\ wire[s] # <<>> /\ h.op = "smembers" /\ ThenFirst(s, <<c>>)
      /\ UNCHANGED <<environment, up, trips, owed, requestKey, record, claim, active>>
      /\ sweep' = [sweep EXCEPT ![s].ids = active]
  BY <1>0 DEF RunSmembers, Runs, memoryVars, redisVars
<1>2. DOMAIN wire = Servers
      /\ sweep \in [Servers -> [ids : SUBSET TripIds, stale : SUBSET TripIds]]
  BY <1>0, <1>1, SweepHead
<1>3. \A y \in Servers : wire'[y] = IF y = s THEN <<c>> \o Tail(wire[s]) ELSE wire[y]
  BY <1>1, <1>2, PutFirst
<1>4. <<c>> \in Seq(SweepCommands) /\ c \in Range(<<c>>)
  <2>1. PICK S : S = SweepCommands
    OBVIOUS
  <2>2. c \in S
    BY <1>0, <2>1, SweepAdds
  <2> QED
    BY <2>1, <2>2 DEF Range
<1>5. \A y \in Servers : /\ y # s => sweep'[y] = sweep[y]
                         /\ sweep'[y].ids \subseteq Created
                         /\ sweep'[y].stale = sweep[y].stale
  BY <1>1, <1>2 DEF WrittenInv, FleetInv
<1>6. sweep'[s].ids = active
  BY <1>1, <1>2
<1>7. \A t, r : (t \in active => Delists(c, t, sweep'[s].ids)) /\ Frees(c, t, r)
  BY <1>0, <1>6, SweepAdds
<1> QED
  BY <1>1, <1>3, <1>4, <1>5, <1>6, <1>7, SweepStepKeeps

LEMMA ScanKeeps ==
  ASSUME StoreInv, WrittenInv, NEW s \in Servers, up[s] = "reconciling", RunScan(s)
  PROVE  WrittenInv'
<1>0. PICK h, ids, claimed : /\ h = Head(wire[s]) /\ ids = sweep[s].ids
                             /\ claimed = {r \in Riders : claim[r] # None}
  OBVIOUS
<1>1. PICK keys \in SetToSeqs(claimed) :
        ThenFirst(s, [i \in DOMAIN keys |-> CmdRider("key", keys[i])]
                        \o [i \in 1..Cardinality(ids) |-> Cmd("orphan", SetToSeq(ids)[i])])
  BY <1>0 DEF RunScan
<1>2. wire[s] # <<>> /\ h.op = "scan"
      /\ UNCHANGED <<environment, memoryVars, redisVars, sweep>>
  BY <1>0 DEF RunScan, Runs
<1>3. IsFiniteSet(claimed) /\ claimed \subseteq Riders
  BY <1>0, StoreAssumption, FS_Subset
<1>4. ids \subseteq Created /\ ids \subseteq TripIds /\ IsFiniteSet(ids) /\ \A t \in Created : t # None
  <2>1. IsFiniteSet(TripIds)
    BY StoreAssumption, FS_Interval DEF TripIds
  <2>2. ids \subseteq Created /\ \A t \in Created : t \in TripIds /\ t # None
    BY <1>0, <1>2, SweepHead, TripFields
  <2> QED
    BY <2>1, <2>2, FS_Subset
<1>5. /\ Cardinality(claimed) \in Nat /\ Cardinality(ids) \in Nat
      /\ DOMAIN keys = 1..Cardinality(claimed)
      /\ \A i \in DOMAIN keys : keys[i] \in claimed
      /\ \A x \in claimed : \E i \in DOMAIN keys : keys[i] = x
      /\ \A x \in ids : \E i \in 1..Cardinality(ids) : SetToSeq(ids)[i] = x
      /\ \A i \in 1..Cardinality(ids) : SetToSeq(ids)[i] \in ids
  <2>1. /\ SetToSeq(ids) \in Seq(ids) /\ Len(SetToSeq(ids)) = Cardinality(ids)
        /\ \A x \in ids : \E i \in 1..Cardinality(ids) : SetToSeq(ids)[i] = x
        /\ Cardinality(ids) \in Nat
    BY <1>4, Enumerated
  <2> QED
    BY <1>1, <1>3, <2>1, Enumerated
<1>6. PICK first, second, u :
        /\ first = [i \in DOMAIN keys |-> CmdRider("key", keys[i])]
        /\ second = [i \in 1..Cardinality(ids) |-> Cmd("orphan", SetToSeq(ids)[i])]
        /\ u = first \o second
  OBVIOUS
<1>7. PICK S : S = SweepCommands
  OBVIOUS
<1>8. /\ first \in Seq(S) /\ second \in Seq(S)
      /\ Len(first) = Cardinality(claimed) /\ Len(second) = Cardinality(ids)
  <2>1. \A i \in DOMAIN keys : CmdRider("key", keys[i]) \in S
    BY <1>3, <1>5, <1>7, SweepAdds
  <2>2. \A i \in 1..Cardinality(ids) : Cmd("orphan", SetToSeq(ids)[i]) \in S
    BY <1>4, <1>5, <1>7, SweepAdds
  <2>3. first \in [1..Cardinality(claimed) -> S] /\ second \in [1..Cardinality(ids) -> S]
    BY <1>5, <1>6, <2>1, <2>2
  <2>4. ASSUME NEW n \in Nat, NEW f \in [1..n -> S] PROVE f \in Seq(S) /\ Len(f) = n
    OBVIOUS
  <2>5. Cardinality(claimed) \in Nat /\ Cardinality(ids) \in Nat
    BY <1>5
  <2> QED
    BY <2>3, <2>4, <2>5
<1>9. u \in Seq(S) /\ DOMAIN u = 1..(Cardinality(claimed) + Cardinality(ids))
      /\ (\A i \in 1..Cardinality(claimed) : u[i] = first[i])
      /\ (\A i \in 1..Cardinality(ids) : u[Cardinality(claimed) + i] = second[i])
  BY <1>5, <1>6, <1>8
<1>10. ASSUME NEW r \in claimed PROVE CmdRider("key", r) \in Range(u)
  <2>1. PICK i \in 1..Cardinality(claimed) : keys[i] = r
    BY <1>5
  <2>2. u[i] = CmdRider("key", r) /\ i \in DOMAIN u
    BY <1>5, <1>6, <1>9, <2>1
  <2> QED
    BY <2>2 DEF Range
<1>11. ASSUME NEW t \in ids PROVE Cmd("orphan", t) \in Range(u)
  <2>1. PICK i \in 1..Cardinality(ids) : SetToSeq(ids)[i] = t
    BY <1>5
  <2>2. u[Cardinality(claimed) + i] = Cmd("orphan", t) /\ Cardinality(claimed) + i \in DOMAIN u
    BY <1>5, <1>6, <1>9, <2>1
  <2> QED
    BY <2>2 DEF Range
<1>12. ThenFirst(s, u)
  BY <1>1, <1>6
<1>13. ASSUME NEW t \in sweep[s].stale \cap Mine(s)
       PROVE  /\ Delists(h, t, ids) => \E c \in Range(u) : Delists(c, t, ids)
              /\ \A r \in Riders : claim[r] = t => \E c \in Range(u) : Frees(c, t, r)
  <2>1. ASSUME Delists(h, t, ids) PROVE \E c \in Range(u) : Delists(c, t, ids)
    <3>1. t \in ids
      BY <1>2, <2>1 DEF Delists
    <3> QED
      BY <1>11, <3>1, SweepAdds
  <2>2. ASSUME NEW r \in Riders, claim[r] = t PROVE \E c \in Range(u) : Frees(c, t, r)
    <3>1. r \in claimed
      BY <1>0, <1>4, <2>2 DEF Mine
    <3> QED
      BY <1>10, <3>1, SweepAdds
  <2> QED
    BY <2>1, <2>2
<1> QED
  BY <1>0, <1>2, <1>7, <1>9, <1>12, <1>13, SweepReadKeeps

LEMMA KeyKeeps ==
  ASSUME StoreInv, WrittenInv, NEW s \in Servers, up[s] = "reconciling", RunKey(s)
  PROVE  WrittenInv'
<1>0. PICK h, r, x : h = Head(wire[s]) /\ r = h.rider /\ x = claim[r]
  OBVIOUS
<1>1. PICK c : c = IF x \in sweep[s].ids THEN [op |-> "trip", trip |-> x, rider |-> r]
                   ELSE CmdRider("del", r)
  OBVIOUS
<1>2. /\ wire[s] # <<>> /\ h.op = "key" /\ ThenFirst(s, <<c>>)
      /\ UNCHANGED <<environment, memoryVars, redisVars, sweep>>
  BY <1>0, <1>1 DEF RunKey, Runs
<1>3. r \in Riders /\ sweep[s].ids \subseteq Created
  BY <1>0, <1>2, SweepHead
<1>4. <<c>> \in Seq(SweepCommands) /\ c \in Range(<<c>>)
  <2>1. PICK S : S = SweepCommands
    OBVIOUS
  <2>2. c \in S
    BY <1>1, <1>3, <2>1, SweepAdds
  <2> QED
    BY <2>1, <2>2 DEF Range
<1>5. Frees(c, x, r)
  BY <1>1, SweepAdds
<1>6. \A t : ~Delists(h, t, sweep[s].ids)
  BY <1>2 DEF Delists
<1>7. \A t, y : Frees(h, t, y) => y = r
  BY <1>0, <1>2 DEF Frees
<1> QED
  BY <1>0, <1>2, <1>4, <1>5, <1>6, <1>7, SweepReadKeeps

\* The rider's key and the entry of a trip that is finished.
LEMMA CancellingTyped ==
  ASSUME NEW t \in Created, NEW v \in Seq(SweepCommands)
  PROVE  /\ Cancelling(t) \in Seq(SweepCommands)
         /\ Cancelling(t) \o v \in Seq(SweepCommands)
         /\ Range(v) \subseteq Range(Cancelling(t) \o v)
<1>1. PICK S, w : S = SweepCommands /\ w = Cancelling(t)
  OBVIOUS
<1>2. CmdSet(t, "ended") \in S
  BY <1>1, SweepAdds
<1>3. w \in Seq(S)
  BY <1>1, <1>2 DEF Cancelling
<1>4. /\ w \o v \in Seq(S) /\ DOMAIN v = 1..Len(v) /\ DOMAIN (w \o v) = 1..(Len(w) + Len(v))
      /\ \A i \in 1..Len(v) : (w \o v)[Len(w) + i] = v[i]
      /\ Len(w) \in Nat /\ Len(v) \in Nat
  BY <1>1, <1>3
<1>5. ASSUME NEW c \in Range(v) PROVE c \in Range(w \o v)
  <2>1. PICK i \in 1..Len(v) : v[i] = c
    BY <1>4 DEF Range
  <2>2. Len(w) + i \in DOMAIN (w \o v) /\ (w \o v)[Len(w) + i] = c
    BY <1>4, <2>1
  <2> QED
    BY <2>2 DEF Range
<1> QED
  BY <1>1, <1>3, <1>4, <1>5

LEMMA TripKeeps ==
  ASSUME StoreInv, WrittenInv, NEW s \in Servers, up[s] = "reconciling", RunTrip(s)
  PROVE  WrittenInv'
<1>0. PICK h, t, r : h = Head(wire[s]) /\ t = h.trip /\ r = h.rider
  OBVIOUS
<1>1. PICK a, b : a = CmdRider("del", r) /\ b = Cmd("srem", t)
  OBVIOUS
<1>2. PICK v, u : v = <<a, b>> /\ u = IF Finished(s, t) THEN Cancelling(t) \o v ELSE <<>>
  OBVIOUS
<1>3. /\ wire[s] # <<>> /\ h.op = "trip" /\ ThenFirst(s, u)
      /\ UNCHANGED <<environment, memoryVars, redisVars, sweep>>
  BY <1>0, <1>1, <1>2 DEF RunTrip, Runs
<1>4. t \in Created /\ r \in Riders
  BY <1>0, <1>3, SweepHead
<1>5. v \in Seq(SweepCommands) /\ a \in Range(v)
  <2>1. PICK S : S = SweepCommands
    OBVIOUS
  <2>2. a \in S /\ b \in S
    BY <1>1, <1>4, <2>1, SweepAdds
  <2>3. v \in Seq(S) /\ 1 \in DOMAIN v /\ v[1] = a
    BY <1>2, <2>2
  <2> QED
    BY <2>1, <2>3 DEF Range
<1>6. u \in Seq(SweepCommands) /\ (Finished(s, t) => a \in Range(u))
  <2>1. PICK S : S = SweepCommands
    OBVIOUS
  <2>2. <<>> \in Seq(S)
    OBVIOUS
  <2>3. /\ Cancelling(t) \o v \in Seq(SweepCommands)
        /\ a \in Range(Cancelling(t) \o v)
    BY <1>4, <1>5, CancellingTyped
  <2>4. CASE Finished(s, t)
    BY <1>2, <2>3, <2>4
  <2>5. CASE ~Finished(s, t)
    BY <1>2, <2>1, <2>2, <2>5
  <2> QED
    BY <2>4, <2>5
<1>7. \A x : ~Delists(h, x, sweep[s].ids)
  BY <1>3 DEF Delists
<1>8. \A x, y : Frees(h, x, y) => x = t /\ y = r
  BY <1>0, <1>3 DEF Frees
<1>9. t \in sweep[s].stale => Finished(s, t)
  BY DEF Finished
<1>10. Frees(a, t, r)
  BY <1>1, SweepAdds
<1> QED
  BY <1>0, <1>3, <1>6, <1>7, <1>8, <1>9, <1>10, SweepReadKeeps

LEMMA OrphanKeeps ==
  ASSUME StoreInv, WrittenInv, NEW s \in Servers, up[s] = "reconciling", RunOrphan(s)
  PROVE  WrittenInv'
<1>0. PICK h, t : h = Head(wire[s]) /\ t = h.trip
  OBVIOUS
<1>1. /\ wire[s] # <<>> /\ h.op = "orphan" /\ ThenFirst(s, Swept(s, t))
      /\ UNCHANGED <<environment, memoryVars, redisVars, sweep>>
  BY <1>0 DEF RunOrphan, Runs
<1>2. t \in Created /\ trips[t].rider \in Riders
  BY <1>0, <1>1, SweepHead, TripFields
<1>3. PICK b, a : b = Cmd("srem", t) /\ a = CmdRider("del", trips[t].rider)
  OBVIOUS
<1>4. /\ Swept(s, t) \in Seq(SweepCommands)
      /\ Finished(s, t) => b \in Range(Swept(s, t))
  <2>1. PICK S, w, k : /\ S = SweepCommands /\ w = Cancelling(t) \o <<b>>
                       /\ k = IF record[t] = None THEN <<>> ELSE <<a>>
    OBVIOUS
  <2>2. a \in S /\ b \in S
    BY <1>2, <1>3, <2>1, SweepAdds
  <2>3. <<b>> \in Seq(S) /\ b \in Range(<<b>>) /\ k \in Seq(S)
    BY <2>1, <2>2 DEF Range
  <2>4. w \in Seq(S) /\ b \in Range(w)
    BY <1>2, <2>1, <2>3, CancellingTyped
  <2>5. w \o k \in Seq(S) /\ b \in Range(w \o k)
    <3>1. /\ w \o k \in Seq(S) /\ DOMAIN w = 1..Len(w) /\ DOMAIN (w \o k) = 1..(Len(w) + Len(k))
          /\ \A i \in 1..Len(w) : (w \o k)[i] = w[i]
          /\ Len(w) \in Nat /\ Len(k) \in Nat
      BY <2>3, <2>4
    <3>2. PICK i \in 1..Len(w) : w[i] = b
      BY <2>4, <3>1 DEF Range
    <3>3. i \in DOMAIN (w \o k) /\ (w \o k)[i] = b
      BY <3>1, <3>2
    <3> QED
      BY <3>1, <3>3 DEF Range
  <2>6. <<>> \in Seq(S)
    OBVIOUS
  <2>7. CASE Finished(s, t)
    <3>1. Swept(s, t) = w \o k
      BY <1>3, <2>1, <2>7 DEF Swept
    <3> QED
      BY <2>1, <2>5, <3>1
  <2>8. CASE ~Finished(s, t)
    <3>1. Swept(s, t) = <<>>
      BY <2>8 DEF Swept
    <3> QED
      BY <2>1, <2>6, <2>8, <3>1
  <2> QED
    BY <2>7, <2>8
<1>5. \A x, y : ~Frees(h, x, y)
  BY <1>1 DEF Frees
<1>6. \A x : Delists(h, x, sweep[s].ids) => x = t
  BY <1>0, <1>1 DEF Delists
<1>7. t \in sweep[s].stale => Finished(s, t)
  BY DEF Finished
<1>8. Delists(b, t, sweep[s].ids)
  BY <1>3, SweepAdds
<1> QED
  BY <1>0, <1>1, <1>4, <1>5, <1>6, <1>7, <1>8, SweepReadKeeps

LEMMA ReconcilingKeeps ==
  ASSUME StoreInv, WrittenInv, NEW s \in Servers, up[s] = "reconciling", Execute(s)
  PROVE  WrittenInv'
<1>1. PICK h : h = Head(wire[s])
  OBVIOUS
<1>2. ~RunCreate(s) /\ ~RunReread(s) /\ ~RunSadd(s)
  <2>1. wire[s] # <<>> => h.op \in {"smembers", "scan", "orphan", "srem", "set", "key", "del", "trip"}
    BY <1>1, SweepHead
  <2> QED
    BY <1>1, <2>1 DEF RunCreate, RunReread, RunSadd, Runs
<1> QED
  BY <1>2, SweepWriteKeeps, SmembersKeeps, ScanKeeps, KeyKeeps, TripKeeps, OrphanKeeps DEF Execute

LEMMA ExecuteKeeps ==
  ASSUME StoreInv, WrittenInv, NEW s \in Servers, Execute(s)
  PROVE  WrittenInv'
<1>1. wire[s] # <<>>
  BY DEF Execute, Runs, RunCreate, RunReread, RunSet, RunSadd, RunSrem, RunDel,
         RunSmembers, RunScan, RunKey, RunTrip, RunOrphan
<1>2. up[s] \in {"up", "reconciling"}
  BY <1>1 DEF WrittenInv, FleetInv, ConnectionsTyped
<1> QED
  BY <1>2, ServingKeeps, ReconcilingKeeps

-----------------------------------------------------------------------------
LEMMA WrittenInit == ASSUME Init PROVE WrittenInv
<1>1. /\ trips = <<>> /\ Created = {} /\ owed = {} /\ active = {}
      /\ wire = [s \in Servers |-> <<>>] /\ sweep = [s \in Servers |-> NothingRead]
      /\ record = [t \in TripIds |-> None]
  BY DEF Init, Created
<1>2. PICK fleet \in SUBSET Servers :
        /\ IF "two" \in environment THEN fleet = Servers ELSE Cardinality(fleet) = 1
        /\ up = [s \in Servers |-> IF s \in fleet THEN "up" ELSE "absent"]
  BY DEF Init
<1>3. "two" \notin environment => \A y, z \in fleet : y = z
  <2> SUFFICES ASSUME "two" \notin environment PROVE \A y, z \in fleet : y = z
    OBVIOUS
  <2>1. IsFiniteSet(fleet) /\ Cardinality(fleet) = 1
    BY <1>2, StoreAssumption, FS_Subset
  <2>2. PICK x : fleet = {x}
    BY <2>1, FS_Singleton
  <2> QED
    BY <2>2
<1>4. up \in [Servers -> {"absent", "up"}]
  BY <1>2
<1>5. FleetInv
  <2>1. \A y, z \in Servers : up[y] # "absent" /\ up[z] # "absent" => y \in fleet /\ z \in fleet
    BY <1>2
  <2>2. \A s \in Servers : sweep[s].ids = {}
    BY <1>1 DEF NothingRead
  <2>3. up \in [Servers -> {"absent", "down", "reconciling", "up"}]
        /\ \A z \in Servers : up[z] \in {"absent", "up"}
    BY <1>4
  <2> QED
    BY <1>1, <1>3, <2>1, <2>2, <2>3 DEF FleetInv
<1>6. ConnectionsTyped
  <2> SUFFICES ASSUME NEW z \in Servers
               PROVE  /\ wire[z] \in Seq(ServingCommands(z))
                      /\ up[z] # "reconciling" /\ wire[z] = <<>>
    BY DEF ConnectionsTyped
  <2>1. PICK S : S = ServingCommands(z)
    OBVIOUS
  <2>2. <<>> \in Seq(S)
    OBVIOUS
  <2> QED
    BY <1>1, <1>4, <2>1, <2>2
<1>7. SweepInv
  BY <1>4 DEF SweepInv
<1> QED
  BY <1>1, <1>5, <1>6, <1>7 DEF WrittenInv

LEMMA WrittenNext == ASSUME StoreInv, WrittenInv, [Next]_vars PROVE WrittenInv'
<1>1. ASSUME NEW s \in Servers, Execute(s) PROVE WrittenInv'
  BY <1>1, ExecuteKeeps
<1>2. ASSUME NEW s \in Servers, Crash(s) \/ Start(s) \/ Listen(s) PROVE WrittenInv'
  BY <1>2, CrashKeeps, StartKeeps, ListenKeeps
<1>3. ASSUME NEW s \in Servers, NEW r \in Riders, RequestRide(s, r) PROVE WrittenInv'
  BY <1>3, RequestRideKeeps
<1>4. ASSUME NEW s \in Servers, NEW q \in Created, ResendRequest(s, q) PROVE WrittenInv'
  BY <1>4, ResendRequestKeeps
<1>5. ASSUME NEW t \in Created, TripStep(t) PROVE WrittenInv'
  BY <1>5, TripStepKeeps
<1>6. ASSUME NEW r \in Riders, ExpireClaim(r) PROVE WrittenInv'
  <2>1. \A x \in Riders : claim'[x] \in {claim[x], None}
    BY <1>6 DEF ExpireClaim, TakeKey, StoreInv, Typed, RedisTyped
  <2> QED
    BY <1>6, <2>1, IdleKeeps DEF ExpireClaim, memoryVars
<1>7. ASSUME Age \/ UNCHANGED vars PROVE WrittenInv'
  BY <1>7, IdleKeeps DEF Age, vars, memoryVars, redisVars
<1> QED
  BY <1>1, <1>2, <1>3, <1>4, <1>5, <1>6, <1>7 DEF Next

\* Whatever has been enqueued decides about every trip: what a connection still
\* holds will have written the trip's last status, listed or delisted it, and
\* released its rider, when it has been drained.
THEOREM WrittenInvariant == Spec => []WrittenInv
<1>1. StoreInv /\ WrittenInv /\ [Next]_vars => WrittenInv'
  BY WrittenNext
<1> QED
  BY <1>1, WrittenInit, StoreInvariant, PTL DEF Spec

\* With nothing left on the connections, what they decided is what Redis holds.
LEMMA Drained ==
  ASSUME StoreInv, WrittenInv, Quiet, NEW t \in Created
  PROVE  /\ trips[t].status # "requested"
         /\ trips[t].status \in Open /\ RestartsAlone =>
                record[t] = trips[t].status /\ t \in active
         /\ trips[t].status = "ended" /\ Calm =>
                t \notin active /\ claim[trips[t].rider] # t
<1>1. /\ trips[t].server \in Servers /\ trips[t].status \in Statuses /\ TripWritten(t)
      /\ t \in TripIds
  BY TripFields DEF StoreInv, Typed, WrittenInv
<1>2. WireOf(t) = <<>>
  BY <1>1 DEF Quiet, WireOf
<1>3. ~Awaited(t)
  BY <1>2 DEF Awaited
<1>4. RecordDecided(t) => record[t] = trips[t].status
  BY <1>2, DecidedEmpty DEF RecordDecided
<1>5. ListedDecided(t) => t \in active
  BY <1>2, DecidedEmpty DEF ListedDecided
<1>6. DelistedDecided(t) => t \notin active
  BY <1>2, DecidedEmpty DEF DelistedDecided
<1>7. UnclaimedDecided(t) => claim[trips[t].rider] # t
  BY <1>2, DecidedEmpty DEF UnclaimedDecided
<1> QED
  BY <1>1, <1>3, <1>4, <1>5, <1>6, <1>7 DEF TripWritten, Open

\* Once the pipelines have drained, Redis holds every open trip of a running server
\* with the status the server has in memory, and lists it as active.
THEOREM LiveTripsRecordedHolds == Spec => []LiveTripsRecorded
<1>1. StoreInv /\ WrittenInv => LiveTripsRecorded
  BY Drained DEF LiveTripsRecorded
<1> QED
  BY <1>1, StoreInvariant, WrittenInvariant, PTL

-----------------------------------------------------------------------------
(* Whose key it is *)

\* A key names a trip of its own rider, and only trips that exist grow old.
OwnedInv ==
    /\ \A r \in Riders : claim[r] # None => trips[claim[r]].rider = r
    /\ old \subseteq Created
    /\ \A s \in Servers : sweep[s].stale \subseteq Created

RidersKept ==
    /\ Created \subseteq Created'
    /\ \A t \in Created : trips'[t].rider = trips[t].rider

LEMMA StatusOnly ==
  ASSUME TripsTyped, NEW t, NEW status,
         trips' = [trips EXCEPT ![t].status = status] \/ UNCHANGED trips
  PROVE  RidersKept
<1>1. \A u \in Created : trips[u] \in Trip
  BY TripFields
<1> QED
  BY <1>1 DEF RidersKept, Created, Trip

LEMMA RidersStay == ASSUME StoreInv, [Next]_vars PROVE RidersKept
<1>0. TripsTyped
  BY DEF StoreInv, Typed
<1>1. ASSUME NEW s \in Servers, Execute(s) PROVE RidersKept
  <2>1. CASE RunCreate(s)
    BY <1>0, <2>1, StatusOnly DEF RunCreate, RollBack, Continue
  <2>2. CASE RunReread(s)
    BY <1>0, <2>2, StatusOnly DEF RunReread, Continue
  <2>3. CASE UNCHANGED trips
    BY <2>3 DEF RidersKept, Created
  <2> QED
    BY <1>1, <2>1, <2>2, <2>3
       DEF Execute, RunSet, RunSadd, RunSrem, RunDel, RunSmembers, RunScan, RunKey, RunTrip,
           RunOrphan, memoryVars
<1>2. ASSUME NEW s \in Servers, Crash(s) PROVE RidersKept
  <2>1. \A u \in Created : trips[u] \in Trip
    BY <1>0, TripFields
  <2> QED
    BY <1>2, <2>1 DEF Crash, RidersKept, Created, Trip
<1>3. ASSUME NEW s, NEW r, NEW q, NewTrip(s, r, q) PROVE RidersKept
  <2>1. PICK trip : trips' = Append(trips, trip)
    BY <1>3 DEF NewTrip
  <2> QED
    BY <1>0, <2>1, CreatedIds DEF RidersKept, Created, TripsTyped
<1>4. ASSUME NEW s \in Servers, NEW r \in Riders, RequestRide(s, r) PROVE RidersKept
  BY <1>3, <1>4 DEF RequestRide
<1>5. ASSUME NEW s \in Servers, NEW q \in Created, ResendRequest(s, q) PROVE RidersKept
  BY <1>3, <1>5 DEF ResendRequest, RidersKept, Created
<1>6. ASSUME NEW t \in Created, TripStep(t) PROVE RidersKept
  BY <1>0, <1>6, StatusOnly
     DEF TripStep, Match, Progress, CompleteTrip, EndUnassigned, CancelAssigned, RepeatCancel,
         SaveAgain, Enter
<1>7. CASE UNCHANGED trips
  BY <1>7 DEF RidersKept, Created
<1> QED
  BY <1>1, <1>2, <1>4, <1>5, <1>6, <1>7
     DEF Next, Start, Listen, ExpireClaim, Age, vars, memoryVars

\* Only the script of createTrip writes a key, for the rider of the trip.
LEMMA KeysOwned ==
  ASSUME StoreInv, OwnedInv, [Next]_vars, NEW r \in Riders, claim'[r] # None
  PROVE  trips[claim'[r]].rider = r /\ claim'[r] \in Created
<1>1. claim \in [Riders -> Created \cup {None}] /\ TripsTyped
  BY DEF StoreInv, Typed, RedisTyped
<1>2. claim[r] # None => trips[claim[r]].rider = r /\ claim[r] \in Created
  BY <1>1 DEF OwnedInv
<1>3. CASE UNCHANGED claim
  BY <1>2, <1>3
<1>4. ASSUME NEW s \in Servers, RunCreate(s)
      PROVE  \/ UNCHANGED claim
             \/ /\ Head(wire[s]).trip \in Created
                /\ claim' = [claim EXCEPT ![trips[Head(wire[s]).trip].rider] = Head(wire[s]).trip]
  <2>1. Head(wire[s]).trip \in Created
    BY <1>4, GoodTail DEF RunCreate, Runs, StoreInv, Typed, WireTyped
  <2> QED
    BY <1>4, <2>1 DEF RunCreate, redisVars
<1>5. ASSUME NEW t \in Created, claim' = [claim EXCEPT ![trips[t].rider] = t]
      PROVE  trips[claim'[r]].rider = r /\ claim'[r] \in Created
  BY <1>1, <1>2, <1>5
<1>6. ASSUME NEW x, claim' = [claim EXCEPT ![x] = None]
      PROVE  trips[claim'[r]].rider = r /\ claim'[r] \in Created
  BY <1>1, <1>2, <1>6
<1>7. ASSUME NEW s \in Servers, Execute(s) PROVE trips[claim'[r]].rider = r /\ claim'[r] \in Created
  <2>1. CASE RunCreate(s)
    BY <1>3, <1>4, <1>5, <2>1
  <2>2. CASE RunDel(s)
    BY <1>6, <2>2 DEF RunDel, TakeKey
  <2> QED
    BY <1>3, <1>7, <2>1, <2>2
       DEF Execute, RunReread, RunSet, RunSadd, RunSrem, RunSmembers, RunScan, RunKey, RunTrip,
           RunOrphan, redisVars
<1>8. ASSUME NEW x \in Riders, ExpireClaim(x) PROVE trips[claim'[r]].rider = r /\ claim'[r] \in Created
  BY <1>6, <1>8 DEF ExpireClaim, TakeKey
<1>9. ASSUME NEW s \in Servers, Crash(s) \/ Start(s) \/ Listen(s) PROVE UNCHANGED claim
  BY <1>9 DEF Crash, Start, Listen, redisVars
<1>10. ASSUME NEW s \in Servers, NEW x \in Riders, RequestRide(s, x) PROVE UNCHANGED claim
  BY <1>10 DEF RequestRide, redisVars
<1>11. ASSUME NEW s \in Servers, NEW q \in Created, ResendRequest(s, q) PROVE UNCHANGED claim
  BY <1>11 DEF ResendRequest, redisVars
<1>12. ASSUME NEW t \in Created, TripStep(t) PROVE UNCHANGED claim
  BY <1>12 DEF TripStep, Match, Progress, CompleteTrip, EndUnassigned, CancelAssigned,
               RepeatCancel, SaveAgain, redisVars
<1>13. Age \/ UNCHANGED vars => UNCHANGED claim
  BY DEF Age, vars, redisVars
<1> QED
  BY <1>3, <1>7, <1>8, <1>9, <1>10, <1>11, <1>12, <1>13 DEF Next

\* What the sweeps take for stale is what was old when they began.
LEMMA StaleExist ==
  ASSUME StoreInv, OwnedInv, [Next]_vars
  PROVE  old' \subseteq Created' /\ \A s \in Servers : sweep'[s].stale \subseteq Created'
<1>1. Created \subseteq Created' /\ SweepTyped
  BY RidersStay DEF RidersKept, StoreInv, Typed
<1>2. \/ UNCHANGED sweep
      \/ \E s : sweep' = [sweep EXCEPT ![s] = NothingRead]
      \/ \E s : sweep' = [sweep EXCEPT ![s] = [ids |-> {}, stale |-> old]]
      \/ \E s : sweep' = [sweep EXCEPT ![s].ids = active]
  <2>1. ASSUME NEW s \in Servers, Execute(s)
        PROVE UNCHANGED sweep \/ sweep' = [sweep EXCEPT ![s].ids = active]
    BY <2>1 DEF Execute, RunCreate, RunReread, RunSet, RunSadd, RunSrem, RunDel, RunSmembers,
                RunScan, RunKey, RunTrip, RunOrphan
  <2>2. ASSUME NEW s \in Servers, Crash(s) \/ Start(s) \/ Listen(s)
        PROVE \/ sweep' = [sweep EXCEPT ![s] = NothingRead]
              \/ sweep' = [sweep EXCEPT ![s] = [ids |-> {}, stale |-> old]]
    BY <2>2 DEF Crash, Start, Listen
  <2>3. ASSUME NEW s \in Servers, NEW x \in Riders, RequestRide(s, x) PROVE UNCHANGED sweep
    BY <2>3 DEF RequestRide
  <2>4. ASSUME NEW s \in Servers, NEW q \in Created, ResendRequest(s, q) PROVE UNCHANGED sweep
    BY <2>4 DEF ResendRequest
  <2>5. ASSUME NEW t \in Created, TripStep(t) PROVE UNCHANGED sweep
    BY <2>5 DEF TripStep, Match, Progress, CompleteTrip, EndUnassigned, CancelAssigned,
                RepeatCancel, SaveAgain
  <2>6. ASSUME NEW x \in Riders, ExpireClaim(x) PROVE UNCHANGED sweep
    BY <2>6 DEF ExpireClaim
  <2>7. Age \/ UNCHANGED vars => UNCHANGED sweep
    BY DEF Age, vars
  <2> QED
    BY <2>1, <2>2, <2>3, <2>4, <2>5, <2>6, <2>7 DEF Next
<1>3. \A s \in Servers : sweep'[s].stale \subseteq Created
  BY <1>1, <1>2 DEF OwnedInv, SweepTyped, NothingRead
<1>4. old' = old \/ old' = Created
  <2>1. ASSUME NEW s \in Servers, Execute(s) PROVE UNCHANGED old
    BY <2>1 DEF Execute, RunCreate, RunReread, RunSet, RunSadd, RunSrem, RunDel, RunSmembers,
                RunScan, RunKey, RunTrip, RunOrphan
  <2>2. ASSUME NEW s \in Servers, Crash(s) \/ Start(s) \/ Listen(s) PROVE UNCHANGED old
    BY <2>2 DEF Crash, Start, Listen
  <2>3. ASSUME NEW s \in Servers, NEW x \in Riders, RequestRide(s, x) PROVE UNCHANGED old
    BY <2>3 DEF RequestRide
  <2>4. ASSUME NEW s \in Servers, NEW q \in Created, ResendRequest(s, q) PROVE UNCHANGED old
    BY <2>4 DEF ResendRequest
  <2>5. ASSUME NEW t \in Created, TripStep(t) PROVE UNCHANGED old
    BY <2>5 DEF TripStep, Match, Progress, CompleteTrip, EndUnassigned, CancelAssigned,
                RepeatCancel, SaveAgain
  <2>6. ASSUME NEW x \in Riders, ExpireClaim(x) PROVE UNCHANGED old
    BY <2>6 DEF ExpireClaim
  <2>7. Age \/ UNCHANGED vars => old' = old \/ old' = Created
    BY DEF Age, vars
  <2> QED
    BY <2>1, <2>2, <2>3, <2>4, <2>5, <2>6, <2>7 DEF Next
<1> QED
  BY <1>1, <1>3, <1>4 DEF OwnedInv

LEMMA OwnedNext == ASSUME StoreInv, OwnedInv, [Next]_vars PROVE OwnedInv'
<1>1. \A r \in Riders : claim'[r] # None => trips'[claim'[r]].rider = r
  BY KeysOwned, RidersStay DEF RidersKept
<1> QED
  BY <1>1, StaleExist DEF OwnedInv

\* A key names a trip of its own rider.
THEOREM OwnedInvariant == Spec => []OwnedInv
<1>1. Init => OwnedInv
  BY DEF Init, OwnedInv, NothingRead
<1>2. StoreInv /\ OwnedInv /\ [Next]_vars => OwnedInv'
  BY OwnedNext
<1> QED
  BY <1>1, <1>2, StoreInvariant, PTL DEF Spec

-----------------------------------------------------------------------------
(* What the tests of the repository audit, and what the reconciliation promises *)

\* While no server restarts and no request is repeated, a key names an open trip
\* once the pipelines have drained.
LEMMA KeysOpen ==
  ASSUME StoreInv, WrittenInv, OwnedInv, Quiet, Calm, NEW r \in Riders, claim[r] # None
  PROVE  claim[r] \in Created /\ trips[claim[r]].status \in Open
<1>1. PICK t : t = claim[r]
  OBVIOUS
<1>2. t \in Created /\ trips[t].rider = r
  BY <1>1 DEF StoreInv, Typed, RedisTyped, OwnedInv
<1>3. trips[t].status \in Statuses
  BY <1>2, TripFields DEF StoreInv, Typed
<1>4. trips[t].status # "lost"
  BY <1>2 DEF Calm, WrittenInv, FleetInv
<1>5. trips[t].status # "ended"
  BY <1>1, <1>2, Drained
<1> QED
  BY <1>1, <1>2, <1>3, <1>4, <1>5 DEF Statuses

\* No rider's key names a trip that is over once the pipelines have drained, for
\* any number of servers, as long as requests are not repeated and no server
\* restarts.
THEOREM NoLockoutHolds == Spec => []NoLockout
<1>1. StoreInv /\ WrittenInv /\ OwnedInv => NoLockout
  BY KeysOpen DEF NoLockout, Calm
<1> QED
  BY <1>1, StoreInvariant, WrittenInvariant, OwnedInvariant, PTL

\* The invariants that the tests audit: an active trip has a record that is not
\* terminal, and the trip a rider's key names is active.
THEOREM StoreConsistentHolds == Spec => []StoreConsistent
<1>1. ASSUME StoreInv, WrittenInv, OwnedInv, Quiet, environment \subseteq {"two", "lapse"}
      PROVE  /\ \A t \in active : record[t] \in Open
             /\ \A r \in Riders : claim[r] # None => claim[r] \in active
  <2>1. Calm /\ RestartsAlone /\ "restart" \notin environment
    BY <1>1 DEF Calm, RestartsAlone
  <2>2. ASSUME NEW t \in active PROVE record[t] \in Open
    <3>1. t \in Created /\ trips[t].status \in Statuses /\ trips[t].status # "lost"
      BY <1>1, <2>1, TripFields DEF WrittenInv, FleetInv, StoreInv, Typed
    <3>2. trips[t].status \in Open
      BY <1>1, <2>1, <3>1, Drained DEF Statuses
    <3> QED
      BY <1>1, <2>1, <3>1, <3>2, Drained
  <2>3. ASSUME NEW r \in Riders, claim[r] # None PROVE claim[r] \in active
    BY <1>1, <2>1, <2>3, KeysOpen, Drained
  <2> QED
    BY <2>2, <2>3
<1>2. StoreInv /\ WrittenInv /\ OwnedInv => StoreConsistent
  BY <1>1 DEF StoreConsistent
<1> QED
  BY <1>2, StoreInvariant, WrittenInvariant, OwnedInvariant, PTL

\* A server that opens its port after a restart has swept the trips that its crash
\* left behind more than a minute before, whatever other servers did meanwhile.
THEOREM OrphansSweptHolds == Spec => OrphansSwept
<1> DEFINE Swept60 == \A s \in Servers : Listen(s) =>
                \A t \in sweep[s].stale : Is(t, s, {"lost"}) =>
                    t \notin active /\ \A r \in Riders : claim[r] # t
<1>1. ASSUME WrittenInv, OwnedInv PROVE Swept60
  <2> SUFFICES ASSUME NEW s \in Servers, Listen(s), NEW t \in sweep[s].stale, Is(t, s, {"lost"})
               PROVE  t \notin active /\ \A r \in Riders : claim[r] # t
    OBVIOUS
  <2>1. up[s] = "reconciling" /\ wire[s] = <<>>
    BY DEF Listen
  <2>2. t \in Mine(s)
    BY <1>1 DEF OwnedInv, Mine, Is
  <2>3. TripSwept(s, t) /\ Range(wire[s]) = {}
    BY <1>1, <2>1, <2>2 DEF WrittenInv, SweepInv, Range
  <2> QED
    BY <2>3 DEF TripSwept
<1>2. WrittenInv /\ OwnedInv => Swept60
  BY <1>1
<1> HIDE DEF Swept60
<1>3. Spec => [][Swept60]_vars
  BY <1>2, WrittenInvariant, OwnedInvariant, PTL
<1> QED
  BY <1>3 DEF OrphansSwept, Swept60

-----------------------------------------------------------------------------
(* When a rider has one trip *)

\* In the memory of one server a rider has one open trip.
HereInv ==
    \A t, u \in Created :
        /\ trips[t].rider = trips[u].rider /\ trips[t].server = trips[u].server
        /\ {trips[t].status, trips[u].status} \subseteq Open
        => t = u

\* A request id names a trip that was ordered with it, and while no request is
\* repeated every trip has an id of its own.
NamedInv ==
    /\ \A q \in TripIds : requestKey[q] # None => trips[requestKey[q]].request = q
    /\ "resend" \notin environment => \A t \in Created : trips[t].request = t

\* A step that creates no trip: none changes hands, and none opens again.
KeptTrips ==
    /\ Created' = Created
    /\ \A t \in Created :
        /\ trips'[t].rider = trips[t].rider
        /\ trips'[t].request = trips[t].request
        /\ trips'[t].server = trips[t].server
        /\ trips'[t].status \in Open => trips[t].status \in Open

\* A step that creates one, with a request id of its own unless it repeats one.
Ordered(s, r, q) ==
    /\ NewTrip(s, r, q)
    /\ q = Len(trips) + 1 \/ "resend" \in environment
    /\ UNCHANGED requestKey

LEMMA StatusKept ==
  ASSUME TripsTyped, NEW t, NEW status,
         \/ UNCHANGED trips
         \/ /\ trips' = [trips EXCEPT ![t].status = status]
            /\ status \in Open => trips[t].status \in Open
  PROVE  KeptTrips
<1>1. \A u \in Created : trips[u] \in Trip
  BY TripFields
<1>2. CASE UNCHANGED trips
  BY <1>2 DEF KeptTrips, Created
<1>3. CASE /\ trips' = [trips EXCEPT ![t].status = status]
           /\ status \in Open => trips[t].status \in Open
  <2>1. Created' = Created
    BY <1>3 DEF Created
  <2>2. ASSUME NEW u \in Created
        PROVE  /\ trips'[u].rider = trips[u].rider
               /\ trips'[u].request = trips[u].request
               /\ trips'[u].server = trips[u].server
               /\ trips'[u].status \in Open => trips[u].status \in Open
    <3>1. trips[u] \in Trip
      BY <1>1
    <3>2. CASE u = t
      BY <1>3, <3>1, <3>2 DEF Trip, Created
    <3>3. CASE u # t
      BY <1>3, <3>3 DEF Created
    <3> QED
      BY <3>2, <3>3
  <2> QED
    BY <2>1, <2>2 DEF KeptTrips
<1> QED
  BY <1>2, <1>3

\* Every step keeps the trips or creates one.
LEMMA TripsEvolve ==
  ASSUME StoreInv, WrittenInv, [Next]_vars
  PROVE  /\ UNCHANGED environment
         /\ KeptTrips \/ \E s \in Servers : \E r, q : Ordered(s, r, q)
<1>0. TripsTyped
  BY DEF StoreInv, Typed
<1>1. ASSUME NEW s \in Servers, Execute(s) PROVE KeptTrips /\ UNCHANGED environment
  <2>1. CASE RunCreate(s)
    <3>1. UNCHANGED environment
      BY <2>1 DEF RunCreate
    <3>2. PICK t : UNCHANGED trips \/ Continue(s, t) \/ RollBack(s, t)
      BY <2>1 DEF RunCreate
    <3>3. KeptTrips
      BY <1>0, <3>2, StatusKept DEF Continue, RollBack, Open
    <3> QED
      BY <3>1, <3>3
  <2>2. CASE RunReread(s)
    BY <1>0, <2>2, StatusKept DEF RunReread, Continue, Open
  <2>3. CASE UNCHANGED <<environment, trips>>
    BY <1>0, <2>3, StatusKept
  <2> QED
    BY <1>1, <2>1, <2>2, <2>3
       DEF Execute, RunSet, RunSadd, RunSrem, RunDel, RunSmembers, RunScan, RunKey, RunTrip,
           RunOrphan, memoryVars
<1>2. ASSUME NEW s \in Servers, Crash(s) PROVE KeptTrips /\ UNCHANGED environment
  <2>1. \A t \in Created : trips[t] \in Trip
    BY <1>0, TripFields
  <2>2. Created' = Created
    BY <1>2 DEF Crash, Created
  <2>3. ASSUME NEW t \in Created
        PROVE  /\ trips'[t].rider = trips[t].rider
               /\ trips'[t].request = trips[t].request
               /\ trips'[t].server = trips[t].server
               /\ trips'[t].status \in Open => trips[t].status \in Open
    <3>1. trips[t] \in Trip
      BY <2>1
    <3>2. CASE trips[t].server = s
      BY <1>2, <3>1, <3>2 DEF Crash, Trip, Open
    <3>3. CASE trips[t].server # s
      BY <1>2, <3>3 DEF Crash
    <3> QED
      BY <3>2, <3>3
  <2> QED
    BY <1>2, <2>2, <2>3 DEF KeptTrips, Crash
<1>3. ASSUME NEW s \in Servers, NEW r \in Riders, RequestRide(s, r)
      PROVE  Ordered(s, r, Len(trips) + 1) /\ UNCHANGED environment
  BY <1>3 DEF RequestRide, Ordered, redisVars
<1>4. ASSUME NEW s \in Servers, NEW q \in Created, ResendRequest(s, q)
      PROVE  /\ KeptTrips \/ Ordered(s, trips[q].rider, q)
             /\ UNCHANGED environment
  <2>1. /\ NewTrip(s, trips[q].rider, q) \/ UNCHANGED trips
        /\ "resend" \in environment
        /\ UNCHANGED <<environment, requestKey>>
    BY <1>4 DEF ResendRequest, redisVars
  <2> QED
    BY <1>0, <2>1, StatusKept DEF Ordered
<1>5. ASSUME NEW t \in Created, TripStep(t) PROVE KeptTrips /\ UNCHANGED environment
  <2>1. UNCHANGED environment
    BY <1>5 DEF TripStep, Match, Progress, CompleteTrip, EndUnassigned, CancelAssigned,
                RepeatCancel, SaveAgain
  <2>2. ASSUME NEW n, Enter(t, "matched", n), trips[t].status \in {"matching", "matched"}
        PROVE  KeptTrips
    <3>1. trips' = [trips EXCEPT ![t].status = "matched"]
      BY <2>2 DEF Enter
    <3>2. "matched" \in Open => trips[t].status \in Open
      BY <2>2 DEF Open
    <3> QED
      BY <1>0, <3>1, <3>2, StatusKept
  <2>3. ASSUME NEW n, Enter(t, "ended", n) PROVE KeptTrips
    <3>1. trips' = [trips EXCEPT ![t].status = "ended"]
      BY <2>3 DEF Enter
    <3>2. "ended" \in Open => trips[t].status \in Open
      BY DEF Open
    <3> QED
      BY <1>0, <3>1, <3>2, StatusKept
  <2>4. UNCHANGED trips => KeptTrips
    BY <1>0, StatusKept
  <2>5. KeptTrips
    BY <1>5, <2>2, <2>3, <2>4
       DEF TripStep, Match, Progress, CompleteTrip, EndUnassigned, CancelAssigned,
           RepeatCancel, SaveAgain
  <2> QED
    BY <2>1, <2>5
<1>6. ASSUME UNCHANGED <<environment, trips>> PROVE KeptTrips /\ UNCHANGED environment
  BY <1>0, <1>6, StatusKept
<1> QED
  BY <1>1, <1>2, <1>3, <1>4, <1>5, <1>6
     DEF Next, Start, Listen, ExpireClaim, Age, vars, memoryVars

\* The new trip, and the trips that were there.
LEMMA OrderedTrip ==
  ASSUME StoreInv, NEW s \in Servers, NEW r, NEW q, Ordered(s, r, q)
  PROVE  \E n : /\ n = Len(trips) + 1 /\ n \notin Created
                /\ Created' = Created \cup {n}
                /\ \A t \in Created : trips'[t] = trips[t]
                /\ trips'[n] = [rider |-> r, request |-> q, server |-> s, status |-> "requested"]
<1>1. TripsTyped /\ Created = 1..Len(trips) /\ Len(trips) \in Nat
  BY CreatedIds DEF StoreInv, Typed, TripsTyped
<1>2. PICK trip : /\ trip = [rider |-> r, request |-> q, server |-> s, status |-> "requested"]
                  /\ trips' = Append(trips, trip)
  BY DEF Ordered, NewTrip
<1>3. PICK n : n = Len(trips) + 1
  OBVIOUS
<1>4. n \notin Created
  BY <1>1, <1>3
<1>5. Len(trips') = n /\ DOMAIN trips' = 1..n
  BY <1>1, <1>2, <1>3 DEF TripsTyped
<1>6. Created' = Created \cup {n}
  BY <1>1, <1>3, <1>5 DEF Created
<1>7. \A t \in Created : trips'[t] = trips[t]
  BY <1>1, <1>2 DEF TripsTyped
<1>8. trips'[n] = trip
  BY <1>1, <1>2, <1>3 DEF TripsTyped
<1> QED
  BY <1>2, <1>3, <1>4, <1>6, <1>7, <1>8

LEMMA HereNext ==
  ASSUME StoreInv, WrittenInv, HereInv, [Next]_vars
  PROVE  HereInv'
<1>1. CASE KeptTrips
  BY <1>1 DEF KeptTrips, HereInv
<1>2. ASSUME NEW s \in Servers, NEW r, NEW q, Ordered(s, r, q) PROVE HereInv'
  <2>0. PICK n : /\ n \notin Created
                 /\ Created' = Created \cup {n}
                 /\ \A t \in Created : trips'[t] = trips[t]
                 /\ trips'[n] = [rider |-> r, request |-> q, server |-> s, status |-> "requested"]
    BY <1>2, OrderedTrip, Zenon
  <2>1. trips'[n].rider = r /\ trips'[n].server = s
    BY <2>0
  <2>2. \A t \in Created : trips[t].rider = r /\ trips[t].server = s => trips[t].status \notin Open
    BY <1>2 DEF Ordered, NewTrip, RiderIsFree, Is
  <2>3. ASSUME NEW t \in Created', NEW u \in Created',
               trips'[t].rider = trips'[u].rider, trips'[t].server = trips'[u].server,
               {trips'[t].status, trips'[u].status} \subseteq Open
        PROVE  t = u
    <3>1. CASE t \in Created /\ u \in Created
      BY <2>0, <2>1, <2>3, <3>1 DEF HereInv
    <3>2. CASE t = n /\ u \in Created
      BY <2>0, <2>1, <2>2, <2>3, <3>2
    <3>3. CASE t \in Created /\ u = n
      BY <2>0, <2>1, <2>2, <2>3, <3>3
    <3> QED
      BY <2>0, <2>1, <3>1, <3>2, <3>3
  <2> QED
    BY <2>3 DEF HereInv
<1> QED
  BY <1>1, <1>2, TripsEvolve

\* Only the script of createTrip writes a request id, for the trip it is given.
LEMMA NamesWritten ==
  ASSUME StoreInv, [Next]_vars
  PROVE  \/ UNCHANGED requestKey
         \/ \E t \in Created : requestKey' = [requestKey EXCEPT ![trips[t].request] = t]
<1>1. ASSUME NEW s \in Servers, RunCreate(s)
      PROVE  \/ UNCHANGED requestKey
             \/ \E t \in Created : requestKey' = [requestKey EXCEPT ![trips[t].request] = t]
  <2>1. Head(wire[s]).trip \in Created
    BY <1>1, GoodTail DEF RunCreate, Runs, StoreInv, Typed, WireTyped
  <2> QED
    BY <1>1, <2>1 DEF RunCreate, redisVars
<1>2. ASSUME NEW s \in Servers, Execute(s), ~RunCreate(s) PROVE UNCHANGED requestKey
  BY <1>2 DEF Execute, RunReread, RunSet, RunSadd, RunSrem, RunDel, RunSmembers, RunScan,
              RunKey, RunTrip, RunOrphan, redisVars
<1>3. ASSUME NEW s \in Servers, Crash(s) \/ Start(s) \/ Listen(s) PROVE UNCHANGED requestKey
  BY <1>3 DEF Crash, Start, Listen, redisVars
<1>4. ASSUME NEW s \in Servers, NEW r \in Riders, RequestRide(s, r) PROVE UNCHANGED requestKey
  BY <1>4 DEF RequestRide, redisVars
<1>5. ASSUME NEW s \in Servers, NEW q \in Created, ResendRequest(s, q) PROVE UNCHANGED requestKey
  BY <1>5 DEF ResendRequest, redisVars
<1>6. ASSUME NEW t \in Created, TripStep(t) PROVE UNCHANGED requestKey
  BY <1>6 DEF TripStep, Match, Progress, CompleteTrip, EndUnassigned, CancelAssigned,
              RepeatCancel, SaveAgain, redisVars
<1>7. ASSUME NEW r \in Riders, ExpireClaim(r) PROVE UNCHANGED requestKey
  BY <1>7 DEF ExpireClaim
<1>8. Age \/ UNCHANGED vars => UNCHANGED requestKey
  BY DEF Age, vars, redisVars
<1> QED
  BY <1>1, <1>2, <1>3, <1>4, <1>5, <1>6, <1>7, <1>8 DEF Next

LEMMA NamedNext ==
  ASSUME StoreInv, WrittenInv, NamedInv, [Next]_vars
  PROVE  NamedInv'
<1>1. requestKey \in [TripIds -> Created \cup {None}]
  BY DEF StoreInv, Typed, RedisTyped
<1>2. \A t \in Created : t \in TripIds /\ trips[t].request \in TripIds
  BY TripFields DEF StoreInv, Typed
<1>3. CASE KeptTrips
  <2>1. ASSUME NEW q \in TripIds, requestKey'[q] # None
        PROVE  trips[requestKey'[q]].request = q /\ requestKey'[q] \in Created
    <3>1. CASE UNCHANGED requestKey
      BY <1>1, <2>1, <3>1 DEF NamedInv
    <3>2. ASSUME NEW t \in Created, requestKey' = [requestKey EXCEPT ![trips[t].request] = t]
          PROVE  trips[requestKey'[q]].request = q /\ requestKey'[q] \in Created
      BY <1>1, <1>2, <2>1, <3>2 DEF NamedInv
    <3> QED
      BY <3>1, <3>2, NamesWritten
  <2>2. \A q \in TripIds : requestKey'[q] # None => trips'[requestKey'[q]].request = q
    BY <1>3, <2>1 DEF KeptTrips
  <2>3. "resend" \notin environment' => \A t \in Created' : trips'[t].request = t
    BY <1>3, TripsEvolve DEF KeptTrips, NamedInv
  <2> QED
    BY <2>2, <2>3 DEF NamedInv
<1>4. ASSUME NEW s \in Servers, NEW r, NEW q, Ordered(s, r, q) PROVE NamedInv'
  <2>0. PICK n : /\ n = Len(trips) + 1
                 /\ Created' = Created \cup {n}
                 /\ \A t \in Created : trips'[t] = trips[t]
                 /\ trips'[n] = [rider |-> r, request |-> q, server |-> s, status |-> "requested"]
    BY <1>4, OrderedTrip, Zenon
  <2>1. trips'[n].request = q
    BY <2>0
  <2>2. UNCHANGED requestKey /\ (q = n \/ "resend" \in environment)
    BY <1>4, <2>0 DEF Ordered
  <2>3. \A x \in TripIds : requestKey'[x] # None => trips'[requestKey'[x]].request = x
    BY <1>1, <2>0, <2>2 DEF NamedInv
  <2>4. "resend" \notin environment' => \A t \in Created' : trips'[t].request = t
    BY <2>0, <2>1, <2>2, TripsEvolve DEF NamedInv
  <2> QED
    BY <2>3, <2>4 DEF NamedInv
<1> QED
  BY <1>3, <1>4, TripsEvolve

\* A server has one open trip of a rider in its memory, and request ids name the
\* trips that were ordered with them: in every environment.
THEOREM OrdersInvariant == Spec => [](HereInv /\ NamedInv)
<1>1. Init => HereInv /\ NamedInv
  BY DEF Init, HereInv, NamedInv, Created
<1>2. StoreInv /\ WrittenInv /\ HereInv /\ NamedInv /\ [Next]_vars => (HereInv /\ NamedInv)'
  BY HereNext, NamedNext
<1> QED
  BY <1>1, <1>2, StoreInvariant, WrittenInvariant, PTL DEF Spec

\* One server alone never dispatches two drivers to a rider, whatever it forgets in
\* a crash and whatever its clients repeat: what the run one_trip_per_rider refutes
\* takes two servers.
THEOREM OneServerOneTrip == Spec => []("two" \notin environment => OneTripPerRider)
<1>1. ASSUME StoreInv, WrittenInv, HereInv, "two" \notin environment PROVE OneTripPerRider
  <2>1. ASSUME NEW t \in Created, NEW u \in Created, trips[t].rider = trips[u].rider,
               {trips[t].status, trips[u].status} \subseteq {"matching", "matched"}
        PROVE  t = u
    <3>1. {trips[t].status, trips[u].status} \subseteq Open
      BY <2>1 DEF Open
    <3>2. trips[t].server \in Servers /\ trips[u].server \in Servers
      BY <1>1, TripFields DEF StoreInv, Typed
    <3>3. up[trips[t].server] = "up" /\ up[trips[u].server] = "up"
      BY <1>1, <3>1 DEF WrittenInv, FleetInv
    <3>4. trips[t].server = trips[u].server
      BY <1>1, <3>2, <3>3 DEF WrittenInv, FleetInv
    <3> QED
      BY <1>1, <2>1, <3>1, <3>4 DEF HereInv
  <2> QED
    BY <2>1 DEF OneTripPerRider
<1>2. StoreInv /\ WrittenInv /\ HereInv => ("two" \notin environment => OneTripPerRider)
  BY <1>1
<1> QED
  BY <1>2, StoreInvariant, WrittenInvariant, OrdersInvariant, PTL

\* No two servers dispatch a driver to a rider whose key never went under an open
\* trip.
OneTripWhileArmed ==
    \A t, u \in Created :
        /\ trips[t].rider = trips[u].rider
        /\ {trips[t].status, trips[u].status} \subseteq {"matching", "matched"}
        /\ trips[t].rider \notin disarmed
        => t = u

\* Any number of servers, through crashes and restarts, keep "one active trip per
\* rider" as long as no request is repeated and no key goes while its trip is open, by
\* a DEL that does not compare or after two hours: the violation needs one of these.
THEOREM ArmedRidersOneTrip == Spec => []("resend" \notin environment => OneTripWhileArmed)
<1>1. ASSUME StoreInv, WrittenInv, NamedInv, "resend" \notin environment,
             NEW t \in Created, trips[t].status \in {"matching", "matched"},
             trips[t].rider \notin disarmed
      PROVE  claim[trips[t].rider] = t
  <2>1. t \in TripIds /\ trips[t].request = t
    BY <1>1, TripFields DEF StoreInv, Typed, NamedInv
  <2>2. requestKey[t] # None
    BY <1>1, <2>1 DEF WrittenInv, TripWritten
  <2>3. requestKey[t] \in Created
    BY <1>1, <2>1, <2>2 DEF StoreInv, Typed, RedisTyped
  <2>4. requestKey[t] = t
    BY <1>1, <2>1, <2>2, <2>3 DEF NamedInv
  <2> QED
    BY <1>1, <2>1, <2>4 DEF StoreInv, ClaimProtects, Open
<1>2. StoreInv /\ WrittenInv /\ NamedInv => ("resend" \notin environment => OneTripWhileArmed)
  <2> SUFFICES ASSUME StoreInv, WrittenInv, NamedInv, "resend" \notin environment,
                      NEW t \in Created, NEW u \in Created, trips[t].rider = trips[u].rider,
                      {trips[t].status, trips[u].status} \subseteq {"matching", "matched"},
                      trips[t].rider \notin disarmed
               PROVE  t = u
    BY DEF OneTripWhileArmed
  <2>1. claim[trips[t].rider] = t
    BY <1>1
  <2>2. claim[trips[u].rider] = u
    BY <1>1
  <2> QED
    BY <2>1, <2>2
<1> QED
  BY <1>2, StoreInvariant, WrittenInvariant, OrdersInvariant, PTL

=============================================================================
