------------------------------- MODULE MCGame -------------------------------
(* A small picture, in the proportions of the program's, for TLC. *)
EXTENDS Game
=============================================================================
