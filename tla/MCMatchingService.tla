-------------------------- MODULE MCMatchingService --------------------------
(***************************************************************************)
(* The matching service on small instances.                                *)
(***************************************************************************)
EXTENDS MatchingService, TLC

\* Drivers, and the requests and riders, are interchangeable.
Symmetry ==
    Permutations(Riders) \cup Permutations(Drivers) \cup Permutations(Requests)

\* Clients drop, repeat and answer at any moment; or connections stay up, no
\* client repeats itself, and the trip store may refuse.
MCDisturbedOrSteady == {{"drop", "resend", "slow"}, {"reject"}}

\* Leases and lock tokens run out while in use, and connections drop.
MCLapse == {{"drop", "slow", "lapse"}}

\* One disturbance each.
MCSlow == {{"slow"}}
MCResend == {{"resend"}}
=============================================================================
