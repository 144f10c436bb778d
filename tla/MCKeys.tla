------------------------------- MODULE MCKeys -------------------------------
(* A small instance of Keys for TLC: the constants are in the cfg. *)
EXTENDS Keys
=============================================================================
