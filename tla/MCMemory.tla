------------------------------ MODULE MCMemory ------------------------------
(* Small instances of Memory for TLC: the constants are in the cfg. *)
EXTENDS Memory

\* Which frame is where makes no difference as long as each one is in one
\* place: such states are the same but for the names of the frames, and a
\* state in which a frame is in two places is itself.
In(f) == IF f = 0 THEN Zero - 2 ELSE content[f]
Renamed ==
    IF ~FramesOnce THEN vars
    ELSE << [k \in DOMAIN firstFree |-> In(firstFree[k])], avail,
            [p \in Proc |-> << In(pd[p]), [t \in Table |-> In(pt[p][t])],
                               [va \in Pages |-> In(page[p][va])], In(hand[p]) >>],
            status, pc, at, child, panicked >>
=============================================================================
