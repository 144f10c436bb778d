----------------------------- MODULE MCNetwork ------------------------------
(* Small instances of Network for TLC: the constants are in the cfgs. *)
EXTENDS Network
=============================================================================
