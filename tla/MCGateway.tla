----------------------------- MODULE MCGateway -----------------------------
(* Drivers who reconnect, for TLC. *)
EXTENDS Gateway, TLC
=============================================================================
