----------------------------- MODULE PlainFile ------------------------------
(***************************************************************************)
(* What an open file promises to the process that reads it: the bytes at   *)
(* its offset, in order, some at each read and all with readFully.         *)
(***************************************************************************)
EXTENDS Integers, Sequences

VARIABLES content,      \* the bytes of the file that is open
          offset,
          data,         \* what the last read returned
          err           \* whether it failed

PlainVars == <<content, offset, data, err>>
Rest == Len(content) - offset

\* The file with the bytes c is opened.
Open(c) == content' = c /\ offset' = 0 /\ data' = <<>> /\ err' = FALSE

NotFound == err' = TRUE /\ data' = <<>> /\ UNCHANGED <<content, offset>>

Seek == /\ offset' \in Nat
        /\ data' = <<>> /\ err' = FALSE /\ UNCHANGED content

\* m bytes arrive: between one and n of them unless the file is at its end.
Got(m) == /\ data' = SubSeq(content, offset + 1, offset + m)
          /\ offset' = offset + m
          /\ err' = FALSE
          /\ UNCHANGED content

Read(n) == \/ /\ Rest >= 0
              /\ \E m \in 0 .. n : m <= Rest /\ (m = 0 => Rest = 0) /\ Got(m)
           \/ Rest < 0 /\ NotFound

ReadFully(n) == \/ Rest >= 0 /\ Got(IF n < Rest THEN n ELSE Rest)
                \/ Rest < 0 /\ NotFound

PlainInit == content = <<>> /\ offset = 0 /\ data = <<>> /\ err = FALSE
=============================================================================
