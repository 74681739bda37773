--------------------------- MODULE DriverRegistry ---------------------------
(***************************************************************************)
(* The driver registry of src/core/driver_registry.ts and the two Redis    *)
(* keys it keeps per driver through src/core/redis_driver_lock.ts: the     *)
(* lease driver_lock:<id> and the hash driver:state:<id>.                  *)
(*                                                                         *)
(* setStatus, updateLocation, registerDriver and evictStaleDrivers are     *)
(* synchronous, one action each.  acquireLock, releaseLock, commitTrip and *)
(* completeTrip await Redis, and other handlers run while they wait, so    *)
(* each is cut at its awaits: an action below is what one Redis command    *)
(* does in Redis together with the code the reply resumes.  (One process   *)
(* sends its commands on one connection, so nothing it does can tell the   *)
(* moment Redis runs a command from the moment the reply arrives.)         *)
(*                                                                         *)
(* Here a step of a call may happen whenever its own conditions allow it,  *)
(* whoever makes the call and whatever it did before; MatchingService puts *)
(* the steps in the order of the real calls.                               *)
(***************************************************************************)
EXTENDS FiniteSets

CONSTANTS
    Drivers,    \* driver identities
    Requests,   \* request ids, the owners of leases
    None        \* no request

ASSUME NoneAssumption == None \notin Requests

VARIABLES
    status,     \* DriverRecord.status, or "absent" before registerDriver
    token,      \* DriverRecord.lockToken.requestId
    index,      \* drivers in the spatial index
    lock,       \* Redis: holder of the lease driver_lock:<id>
    state       \* Redis: "status" of driver:state:<id>; it has no TTL

localVars == <<status, token, index>>
redisVars == <<lock, state>>
vars == <<status, token, index, lock, state>>

\* Redis may still hold what an earlier server process left there.
Init ==
    /\ status = [d \in Drivers |-> "absent"]
    /\ token = [d \in Drivers |-> None]
    /\ index = {}
    /\ lock \in [Drivers -> Requests \cup {None}]
    /\ state \in [Drivers -> {"available", "busy"}]

-----------------------------------------------------------------------------
(* Synchronous operations *)

\* registerDriver of an unknown driver; s is "offline" when the location lies
\* outside the region.  A known driver only gets a new lastSeen.
RegisterDriver(d, s) ==
    /\ status[d] = "absent"
    /\ status' = [status EXCEPT ![d] = s]
    /\ index' = IF s = "available" THEN index \cup {d} ELSE index
    /\ UNCHANGED <<token, redisVars>>

\* setStatus(d, "available"): a driver with a lock token stays out of the index.
SetAvailable(d) ==
    /\ status[d] # "absent"
    /\ status' = [status EXCEPT ![d] = "available"]
    /\ index' = IF token[d] = None THEN index \cup {d} ELSE index
    /\ UNCHANGED token

\* setStatus(d, "offline"): the entry is removed if the driver was available.
SetOffline(d) ==
    /\ status[d] # "absent"
    /\ status' = [status EXCEPT ![d] = "offline"]
    /\ token' = [token EXCEPT ![d] = None]
    /\ index' = IF status[d] = "available" THEN index \ {d} ELSE index
    /\ UNCHANGED redisVars

\* evictStaleDrivers reaches driver d, silent for 30 s: neither a trip nor a
\* lease protects it, and Redis is not told.
Evict(d) ==
    /\ status[d] \notin {"absent", "offline"}
    /\ status' = [status EXCEPT ![d] = "offline"]
    /\ token' = [token EXCEPT ![d] = None]
    /\ index' = index \ {d}
    /\ UNCHANGED redisVars

\* updateLocation of a known driver inside the region, and the reactivation that
\* the telemetry handler adds to it.  A token past its expiresAt (expired) goes;
\* an offline driver without a trip (idle) becomes available; an available
\* driver without a token has its index entry moved, or restored if missing.
Telemetry(d, expired, idle) ==
    /\ status[d] # "absent"
    /\ expired => token[d] # None
    /\ LET tok  == IF expired THEN None ELSE token[d]
           stat == IF idle /\ status[d] = "offline" THEN "available" ELSE status[d]
       IN  /\ token' = [token EXCEPT ![d] = tok]
           /\ status' = [status EXCEPT ![d] = stat]
           /\ index' = IF stat = "available" /\ tok = None
                       THEN index \cup {d}
                       ELSE index
    /\ UNCHANGED redisVars

-----------------------------------------------------------------------------
(* acquireLock(d, q) *)

\* The script acquire_lock.lua grants the lease.
Lockable(d) == state[d] # "busy" /\ lock[d] = None

\* Mutant: the driver stays in the index.
GrantLockVisible(d, q) ==
    /\ Lockable(d)
    /\ lock' = [lock EXCEPT ![d] = q]
    /\ token' = [token EXCEPT ![d] = q]
    /\ UNCHANGED <<status, index, state>>

\* The lease is granted; the reply sets the token on the record, whatever
\* became of its status meanwhile, and takes the driver out of the index.
GrantLock(d, q) ==
    /\ Lockable(d)
    /\ lock' = [lock EXCEPT ![d] = q]
    /\ token' = [token EXCEPT ![d] = q]
    /\ index' = index \ {d}
    /\ UNCHANGED <<status, state>>

\* releaseCommittedDriver(d, "available"), here for a refused acquireLock that
\* then found no lease.
HealState(d) ==
    /\ state' = [state EXCEPT ![d] = "available"]
    /\ UNCHANGED <<localVars, lock>>

-----------------------------------------------------------------------------
(* releaseLock(d, q) *)

\* releaseLock gives up at once when the record holds another request's token.
MayRelease(d, q) == status[d] # "absent" /\ token[d] \in {None, q}

\* Mutant: the driver is not put back into the index.
ReturnToPoolHidden(d) ==
    /\ token' = [token EXCEPT ![d] = None]
    /\ UNCHANGED <<status, index, state>>

\* The token goes, whosever it is by now, and the driver is back in the index.
ReturnToPool(d) ==
    /\ token' = [token EXCEPT ![d] = None]
    /\ index' = IF status[d] = "available" THEN index \cup {d} ELSE index
    /\ UNCHANGED <<status, state>>

\* release_lock.lua found q's lease and deleted it.
ReleaseLease(d, q) ==
    /\ lock[d] = q
    /\ lock' = [lock EXCEPT ![d] = None]
    /\ ReturnToPool(d)

\* release_lock.lua found no lease of q, and the second command, the GET of the
\* holder, found no lease of anybody else.
ReleaseNoLease(d, q) ==
    /\ lock[d] \in {None, q}
    /\ ReturnToPool(d)
    /\ UNCHANGED lock

-----------------------------------------------------------------------------
(* commitTrip(d, q) and completeTrip(d) *)

\* Mutant: the lease is not compared.
CommitUnchecked(d, q) ==
    /\ lock' = [lock EXCEPT ![d] = None]
    /\ state' = [state EXCEPT ![d] = "busy"]
    /\ token' = [token EXCEPT ![d] = None]
    /\ status' = [status EXCEPT ![d] = "busy"]
    /\ UNCHANGED index

\* Mutant: the hash in Redis is left alone.
CommitLocally(d, q) ==
    /\ lock[d] = q
    /\ lock' = [lock EXCEPT ![d] = None]
    /\ token' = [token EXCEPT ![d] = None]
    /\ status' = [status EXCEPT ![d] = "busy"]
    /\ UNCHANGED <<index, state>>

\* commit_trip.lua found q's lease.  The reply marks the record busy; the
\* driver is not taken out of the index, where its token kept it from being.
Commit(d, q) ==
    /\ lock[d] = q
    /\ lock' = [lock EXCEPT ![d] = None]
    /\ state' = [state EXCEPT ![d] = "busy"]
    /\ token' = [token EXCEPT ![d] = None]
    /\ status' = [status EXCEPT ![d] = "busy"]
    /\ UNCHANGED index

\* completeTrip: the hash is reset, then setStatus(d, "available").
Complete(d) ==
    /\ state' = [state EXCEPT ![d] = "available"]
    /\ SetAvailable(d)
    /\ UNCHANGED lock

-----------------------------------------------------------------------------
\* The TTL of the lease runs out in Redis.
ExpireLease(d) ==
    /\ lock[d] # None
    /\ lock' = [lock EXCEPT ![d] = None]
    /\ UNCHANGED <<localVars, state>>

Next ==
    \E d \in Drivers :
        \/ \E s \in {"available", "offline"} : RegisterDriver(d, s)
        \/ SetAvailable(d) /\ UNCHANGED redisVars
        \/ SetOffline(d)
        \/ Evict(d)
        \/ \E expired, idle \in BOOLEAN : Telemetry(d, expired, idle)
        \/ HealState(d)
        \/ Complete(d)
        \/ ExpireLease(d)
        \/ \E q \in Requests :
              \/ status[d] # "absent" /\ GrantLock(d, q)
              \/ status[d] # "absent" /\ ReleaseLease(d, q)
              \/ status[d] # "absent" /\ ReleaseNoLease(d, q)
              \/ status[d] # "absent" /\ Commit(d, q)

Spec == Init /\ [][Next]_vars

-----------------------------------------------------------------------------
(* Properties *)

\* Every variable has its type.
TypeOK ==
    /\ status \in [Drivers -> {"absent", "available", "busy", "offline"}]
    /\ token \in [Drivers -> Requests \cup {None}]
    /\ index \subseteq Drivers
    /\ lock \in [Drivers -> Requests \cup {None}]
    /\ state \in [Drivers -> {"available", "busy"}]

\* No available, unlocked driver is ever missing from the spatial index: after
\* any interleaving of lock traffic, disconnects, evictions and expiries it can
\* be offered a ride again.
NoLostDriver ==
    \A d \in Drivers : status[d] = "available" /\ token[d] = None => d \in index

\* A driver whose record holds a lock token is never offered to another rider
\* by the spatial index.
LockedIsHidden == \A d \in Drivers : token[d] # None => d \notin index
=============================================================================
