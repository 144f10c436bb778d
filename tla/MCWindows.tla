----------------------------- MODULE MCWindows ------------------------------
(* Small instances of Windows for TLC: the constants are in the cfgs. *)
EXTENDS Windows
=============================================================================
