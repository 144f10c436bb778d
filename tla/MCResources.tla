---------------------------- MODULE MCResources -----------------------------
(* Small instances of Resources for TLC. *)
EXTENDS Resources, TLC
CONSTANTS Boot0, P1, P2
Alike == Permutations({P1, P2})
=============================================================================
