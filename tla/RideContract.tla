---------------------------- MODULE RideContract ----------------------------
(***************************************************************************)
(* What InstaRide promises about rides, with no trips, indices or lookups: *)
(* a rider has at most one ride, a ride has at most one driver, a driver   *)
(* serves at most one rider, and a rider on board can only be brought to   *)
(* the destination.  The trip state machine implements this specification. *)
(***************************************************************************)
CONSTANTS Riders, Drivers, None

VARIABLE ride   \* for every rider, the stage of the ride and its driver

Idle == [stage |-> "idle", driver |-> None]
Ride(stage, d) == [stage |-> stage, driver |-> d]

\* No rider is being served by driver d.
Free(d) == \A r \in Riders : ride[r].driver # d

Init == ride = [r \in Riders |-> Idle]

\* A rider asks for a ride.
Ask(r) ==
    /\ ride[r] = Idle
    /\ ride' = [ride EXCEPT ![r] = Ride("waiting", None)]

\* A free driver is assigned to a waiting rider.
Assign(r, d) ==
    /\ ride[r].stage = "waiting"
    /\ Free(d)
    /\ ride' = [ride EXCEPT ![r] = Ride("assigned", d)]

\* The rider gets into the car.
Board(r) ==
    /\ ride[r].stage = "assigned"
    /\ ride' = [ride EXCEPT ![r] = Ride("onboard", ride[r].driver)]

\* The driver is taken off the ride, which waits for another one.
Drop(r) ==
    /\ ride[r].stage = "assigned"
    /\ ride' = [ride EXCEPT ![r] = Ride("waiting", None)]

\* The ride ends at the destination.
Finish(r) ==
    /\ ride[r].stage = "onboard"
    /\ ride' = [ride EXCEPT ![r] = Idle]

\* The ride is called off, before the rider is on board.
Abandon(r) ==
    /\ ride[r].stage \in {"waiting", "assigned"}
    /\ ride' = [ride EXCEPT ![r] = Idle]

Next ==
    \E r \in Riders :
        \/ Ask(r)
        \/ \E d \in Drivers : Assign(r, d)
        \/ Board(r)
        \/ Drop(r)
        \/ Finish(r)
        \/ Abandon(r)

Spec == Init /\ [][Next]_ride
=============================================================================
