------------------------------- MODULE MCHeap -------------------------------
(* Small instances of Heap for TLC: the constants are in the cfgs. *)
EXTENDS Heap
=============================================================================
