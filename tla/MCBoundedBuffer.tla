-------------------------- MODULE MCBoundedBuffer ---------------------------
(* Small instances of BoundedBuffer for TLC: the constants are in the cfgs. *)
EXTENDS BoundedBuffer
=============================================================================
