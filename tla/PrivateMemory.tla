--------------------------- MODULE PrivateMemory ----------------------------
(***************************************************************************)
(* What the address spaces promise: each process has a memory of its own,  *)
(* zero at first; fork copies it and execv clears it page by page.         *)
(***************************************************************************)
CONSTANTS Proc, Page, Value, Zero

VARIABLES alive, mem

memoryVars == <<alive, mem>>
Blank == [va \in Page |-> Zero]

Write(p, va, v) == p \in alive /\ mem' = [mem EXCEPT ![p][va] = v] /\ UNCHANGED alive
Fork(p, c) == /\ p \in alive /\ c \notin alive
              /\ alive' = alive \cup {c}
              /\ mem' = [mem EXCEPT ![c] = mem[p]]
Die(p) == alive' = alive \ {p} /\ mem' = [mem EXCEPT ![p] = Blank]

MemoryInit == alive \subseteq Proc /\ mem = [p \in Proc |-> Blank]
MemoryNext == \/ \E p \in Proc, va \in Page, v \in Value \cup {Zero} : Write(p, va, v)
              \/ \E p, c \in Proc : Fork(p, c)
              \/ \E p \in Proc : Die(p)
MemorySpec == MemoryInit /\ [][MemoryNext]_memoryVars
=============================================================================
