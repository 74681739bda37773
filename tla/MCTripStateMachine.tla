------------------------- MODULE MCTripStateMachine -------------------------
(***************************************************************************)
(* The trip state machine on a small instance.                             *)
(***************************************************************************)
EXTENDS TripStateMachine, TLC

\* Riders, drivers and request ids are interchangeable.
Symmetry ==
    Permutations(Riders) \cup Permutations(Drivers) \cup Permutations(Requests)
=============================================================================
