-------------------------------- MODULE Fifo --------------------------------
(***************************************************************************)
(* What a bounded buffer promises: items come out in the order in which    *)
(* they went in, each to one reader, and never more than Size are inside.  *)
(***************************************************************************)
EXTENDS Integers, Sequences

CONSTANTS Reader, Item, Size,
          Nothing  \* what a reader has before it took anything

VARIABLES queue,   \* the items inside, oldest first
          got      \* what each reader took last

Add(x) == /\ Len(queue) < Size
          /\ queue' = Append(queue, x)
          /\ UNCHANGED got

Remove(r) == /\ queue # <<>>
             /\ got' = [got EXCEPT ![r] = Head(queue)]
             /\ queue' = Tail(queue)

FifoInit == queue = <<>> /\ got = [r \in Reader |-> Nothing]
FifoNext == \/ \E x \in Item : Add(x)
            \/ \E r \in Reader : Remove(r)
FifoSpec == FifoInit /\ [][FifoNext]_<<queue, got>>
=============================================================================
