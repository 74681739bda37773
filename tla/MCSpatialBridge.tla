--------------------------- MODULE MCSpatialBridge ---------------------------
(***************************************************************************)
(* The C++ bridge on a small instance.                                     *)
(***************************************************************************)
EXTENDS SpatialBridge, TLC
=============================================================================
