------------------------------ MODULE MCClock -------------------------------
(* A word of a few bits and a few ticks to the second, for TLC. *)
EXTENDS Clock
=============================================================================
