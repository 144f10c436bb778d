---------------------------- MODULE MCScheduler ----------------------------
(* Small instances of Scheduler for TLC. *)
EXTENDS Scheduler

CONSTANT Table         \* the mutexes of the resource tables

\* Each process has a table of its own.
OwnTable == CHOOSE f \in [Proc -> Table] : IsInjective(f)

\* The keyboard's buffer is empty, with one slot and its mutex free.
OneSlot == [s \in UserSem |-> IF s = KbdFull THEN 0 ELSE 1]
=============================================================================
