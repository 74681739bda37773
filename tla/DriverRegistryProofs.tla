------------------------ MODULE DriverRegistryProofs ------------------------
(***************************************************************************)
(* The driver registry keeps the spatial index and the lock tokens in      *)
(* agreement, for any number of drivers and requests, and whatever order   *)
(* the steps of its asynchronous calls come in.                            *)
(*                                                                         *)
(* The invariant needs one more part: registerDriver puts a driver in the  *)
(* index without looking at its token, so a driver that is not registered  *)
(* must have none.                                                         *)
(***************************************************************************)
EXTENDS DriverRegistry, TLAPS

AbsentHasNoToken == \A d \in Drivers : status[d] = "absent" => token[d] = None

Inv ==
    /\ TypeOK
    /\ NoLostDriver
    /\ LockedIsHidden
    /\ AbsentHasNoToken

-----------------------------------------------------------------------------
LEMMA InitInv == Init => Inv
BY DEF Init, Inv, TypeOK, NoLostDriver, LockedIsHidden, AbsentHasNoToken

\* What the operations on driver d have in common: they leave the other
\* drivers alone, and give d a status, a token and a place in the index that
\* agree with each other.
DriverStep(d) ==
    /\ status' \in [Drivers -> {"absent", "available", "busy", "offline"}]
    /\ token' \in [Drivers -> Requests \cup {None}]
    /\ index' \subseteq Drivers
    /\ \A c \in Drivers \ {d} :
          /\ status'[c] = status[c]
          /\ token'[c] = token[c]
          /\ c \in index' <=> c \in index
    /\ status'[d] = "available" /\ token'[d] = None => d \in index'
    /\ token'[d] # None => d \notin index'
    /\ status'[d] = "absent" => token'[d] = None

LEMMA DriverStepInv ==
  ASSUME Inv, NEW d \in Drivers, DriverStep(d),
         lock' \in [Drivers -> Requests \cup {None}],
         state' \in [Drivers -> {"available", "busy"}]
  PROVE  Inv'
<1>1. TypeOK'
  BY DEF DriverStep, TypeOK
<1>2. NoLostDriver'
  <2>1. ASSUME NEW c \in Drivers, status'[c] = "available", token'[c] = None
        PROVE  c \in index'
    <3>1. CASE c = d
      BY <2>1, <3>1 DEF DriverStep
    <3>2. CASE c # d
      BY <2>1, <3>2 DEF DriverStep, Inv, NoLostDriver
    <3> QED
      BY <3>1, <3>2
  <2> QED
    BY <2>1 DEF NoLostDriver
<1>3. LockedIsHidden'
  <2>1. ASSUME NEW c \in Drivers, token'[c] # None
        PROVE  c \notin index'
    <3>1. CASE c = d
      BY <2>1, <3>1 DEF DriverStep
    <3>2. CASE c # d
      BY <2>1, <3>2 DEF DriverStep, Inv, LockedIsHidden
    <3> QED
      BY <3>1, <3>2
  <2> QED
    BY <2>1 DEF LockedIsHidden
<1>4. AbsentHasNoToken'
  <2>1. ASSUME NEW c \in Drivers, status'[c] = "absent"
        PROVE  token'[c] = None
    <3>1. CASE c = d
      BY <2>1, <3>1 DEF DriverStep
    <3>2. CASE c # d
      BY <2>1, <3>2 DEF DriverStep, Inv, AbsentHasNoToken
    <3> QED
      BY <3>1, <3>2
  <2> QED
    BY <2>1 DEF AbsentHasNoToken
<1> QED
  BY <1>1, <1>2, <1>3, <1>4 DEF Inv

\* Only the steps that give or take a lease, and those that write the hash,
\* change what Redis holds; all keep its type.
LEMMA RedisTypes ==
  ASSUME Inv, NoneAssumption, Next
  PROVE  /\ lock' \in [Drivers -> Requests \cup {None}]
         /\ state' \in [Drivers -> {"available", "busy"}]
BY DEF Inv, TypeOK, Next, RegisterDriver, SetAvailable, SetOffline, Evict,
       Telemetry, HealState, Complete, ExpireLease, GrantLock, ReleaseLease,
       ReleaseNoLease, Commit, ReturnToPool, redisVars, localVars

-----------------------------------------------------------------------------
(* The steps, in the order of Next *)

LEMMA SynchronousSteps ==
  ASSUME Inv, NEW d \in Drivers
  PROVE  /\ \A s \in {"available", "offline"} : RegisterDriver(d, s) => DriverStep(d)
         /\ SetAvailable(d) => DriverStep(d)
         /\ SetOffline(d) => DriverStep(d)
         /\ Evict(d) => DriverStep(d)
<1> USE DEF Inv, TypeOK, NoLostDriver, LockedIsHidden, AbsentHasNoToken, DriverStep
<1>1. ASSUME NEW s \in {"available", "offline"}, RegisterDriver(d, s)
      PROVE  DriverStep(d)
  BY <1>1 DEF RegisterDriver
<1>2. ASSUME SetAvailable(d) PROVE DriverStep(d)
  BY <1>2 DEF SetAvailable
<1>3. ASSUME SetOffline(d) PROVE DriverStep(d)
  BY <1>3 DEF SetOffline
<1>4. ASSUME Evict(d) PROVE DriverStep(d)
  BY <1>4 DEF Evict
<1> QED
  BY <1>1, <1>2, <1>3, <1>4

LEMMA TelemetryStep ==
  ASSUME Inv, NEW d \in Drivers, NEW expired \in BOOLEAN, NEW idle \in BOOLEAN,
         Telemetry(d, expired, idle)
  PROVE  DriverStep(d)
<1> USE DEF Inv, TypeOK, NoLostDriver, LockedIsHidden, AbsentHasNoToken, DriverStep
<1>1. CASE expired
  BY <1>1 DEF Telemetry
<1>2. CASE ~expired
  BY <1>2 DEF Telemetry
<1> QED
  BY <1>1, <1>2

LEMMA LeaseSteps ==
  ASSUME Inv, NoneAssumption, NEW d \in Drivers, NEW q \in Requests,
         status[d] # "absent"
  PROVE  /\ GrantLock(d, q) => DriverStep(d)
         /\ ReturnToPool(d) => DriverStep(d)
         /\ Commit(d, q) => DriverStep(d)
<1> USE DEF Inv, TypeOK, NoLostDriver, LockedIsHidden, AbsentHasNoToken, DriverStep
<1>1. ASSUME GrantLock(d, q) PROVE DriverStep(d)
  BY <1>1 DEF GrantLock
<1>2. ASSUME ReturnToPool(d) PROVE DriverStep(d)
  BY <1>2 DEF ReturnToPool
<1>3. ASSUME Commit(d, q) PROVE DriverStep(d)
  BY <1>3 DEF Commit
<1> QED
  BY <1>1, <1>2, <1>3

\* HealState and ExpireLease leave the process alone.
LEMMA LocalUnchanged ==
  ASSUME Inv, NEW d \in Drivers, UNCHANGED localVars
  PROVE  DriverStep(d)
BY DEF Inv, TypeOK, NoLostDriver, LockedIsHidden, AbsentHasNoToken, DriverStep,
       localVars

-----------------------------------------------------------------------------
LEMMA NextInv ==
  ASSUME Inv, NoneAssumption, [Next]_vars
  PROVE  Inv'
<1>1. CASE UNCHANGED vars
  BY <1>1 DEF Inv, TypeOK, NoLostDriver, LockedIsHidden, AbsentHasNoToken, vars
<1>2. CASE Next
  <2>1. PICK d \in Drivers : DriverStep(d)
    <3>1. PICK d \in Drivers :
            \/ \E s \in {"available", "offline"} : RegisterDriver(d, s)
            \/ SetAvailable(d) /\ UNCHANGED redisVars
            \/ SetOffline(d)
            \/ Evict(d)
            \/ \E expired, idle \in BOOLEAN : Telemetry(d, expired, idle)
            \/ HealState(d)
            \/ Complete(d)
            \/ ExpireLease(d)
            \/ \E q \in Requests :
                  /\ status[d] # "absent"
                  /\ \/ GrantLock(d, q)
                     \/ ReleaseLease(d, q)
                     \/ ReleaseNoLease(d, q)
                     \/ Commit(d, q)
      BY <1>2 DEF Next
    <3>2. CASE \E s \in {"available", "offline"} : RegisterDriver(d, s)
      BY <3>2, SynchronousSteps
    <3>3. CASE SetAvailable(d) \/ SetOffline(d) \/ Evict(d) \/ Complete(d)
      BY <3>3, SynchronousSteps DEF Complete
    <3>4. CASE \E expired, idle \in BOOLEAN : Telemetry(d, expired, idle)
      BY <3>4, TelemetryStep
    <3>5. CASE HealState(d) \/ ExpireLease(d)
      BY <3>5, LocalUnchanged DEF HealState, ExpireLease
    <3>6. CASE \E q \in Requests :
                  /\ status[d] # "absent"
                  /\ \/ GrantLock(d, q)
                     \/ ReleaseLease(d, q)
                     \/ ReleaseNoLease(d, q)
                     \/ Commit(d, q)
      BY <3>6, LeaseSteps DEF ReleaseLease, ReleaseNoLease
    <3> QED
      BY <3>1, <3>2, <3>3, <3>4, <3>5, <3>6
  <2> QED
    BY <1>2, <2>1, RedisTypes, DriverStepInv
<1> QED
  BY <1>1, <1>2

-----------------------------------------------------------------------------
(* The theorems *)

\* Every reachable state is well typed, and the index agrees with the tokens.
THEOREM RegistryInvariant == Spec => []Inv
<1>1. ASSUME Inv, [Next]_vars PROVE Inv'
  BY <1>1, NextInv, NoneAssumption
<1> QED
  BY InitInv, <1>1, PTL DEF Spec

\* No available, unlocked driver is ever missing from the spatial index.
THEOREM NoLostDriverHolds == Spec => []NoLostDriver
<1>1. Inv => NoLostDriver
  BY DEF Inv
<1> QED
  BY RegistryInvariant, <1>1, PTL

\* No driver with a lock token is ever in the spatial index.
THEOREM LockedIsHiddenHolds == Spec => []LockedIsHidden
<1>1. Inv => LockedIsHidden
  BY DEF Inv
<1> QED
  BY RegistryInvariant, <1>1, PTL
=============================================================================
