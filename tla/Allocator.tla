----------------------------- MODULE Allocator ------------------------------
(***************************************************************************)
(* What malloc and free promise: the areas that are handed out lie in the  *)
(* heap and never overlap.                                                 *)
(***************************************************************************)
EXTENDS Integers

CONSTANTS Words     \* the words of the heap

VARIABLES areas     \* the areas handed out: sets of words

Area(from, n) == from .. from + n - 1

\* An area of at least n words that nobody has.
Give(n) ==
    \E from \in Words, m \in 1 .. 2 * n + 5 :
        /\ m >= n
        /\ Area(from, m) \subseteq Words
        /\ \A a \in areas : a \cap Area(from, m) = {}
        /\ areas' = areas \cup {Area(from, m)}

TakeBack(a) == areas' = areas \ {a}

AllocInit == areas = {}
AllocNext == \/ \E n \in Words : n > 0 /\ Give(n)
             \/ \E a \in areas : TakeBack(a)
AllocSpec == AllocInit /\ [][AllocNext]_areas
=============================================================================
