-------------------------------- MODULE Heap --------------------------------
(***************************************************************************)
(* The kernel's first-fit heap (src/kernel/heap.cc; src/user/heap.c is its *)
(* copy for programs): one array of words in which every block carries its *)
(* signed size at both ends, and the free blocks form a doubly linked list *)
(* inside themselves.  malloc and free run with interrupts off, so that    *)
(* each of them is one action.                                             *)
(*                                                                         *)
(* Words that the holder of a block writes are left as they were: the      *)
(* allocator never reads them.                                             *)
(***************************************************************************)
EXTENDS Integers, FiniteSets, SequencesExt

CONSTANTS Len0,       \* len, the number of words
          Requests,   \* the numbers of bytes that callers ask for
          WordMod     \* the number of values of size_t, 2^32

ASSUME HeapAssumption == /\ Len0 \in Nat /\ Len0 >= 8
                         /\ WordMod \in Nat \ {0}
                         /\ Requests \subseteq 1 .. WordMod - 1

VARIABLES array,      \* the words
          avail,      \* the first free block, 0 if none
          held,       \* the blocks that malloc returned and free did not get
          panicked    \* Debug::panic was called

heapVars == <<array, avail, held, panicked>>
Index == 0 .. Len0 - 1
Links == INSTANCE LinkedList WITH Node <- 1 .. Len0 - 2, Null <- 0

-----------------------------------------------------------------------------
(***************************************************************************)
(* Blocks.  A heap h is a record of an array and the head of the list.     *)
(***************************************************************************)

BlockSize(a, i) == IF a[i] < 0 THEN -a[i] ELSE a[i]
Footer(a, i) == i + BlockSize(a, i) - 1
IsAvail(a, i) == a[i] > 0
IsTaken(a, i) == a[i] < 0
NextOf(a, i) == a[i + 1]
PrevOf(a, i) == a[i + 2]
LeftOf(a, i) == i - BlockSize(a, i - 1)
RightOf(a, i) == i + BlockSize(a, i)

\* sanity(i) does not panic: the tags of the block are in the array and agree.
Sane(a, i) == \/ i = 0
              \/ i \in Index /\ Footer(a, i) \in Index /\ a[i] = a[Footer(a, i)]

Tagged(a, i, n, tag) == [a EXCEPT ![i] = tag, ![i + n - 1] = tag]
MakeTaken(h, i, n) == [h EXCEPT !.array = Tagged(@, i, n, -n)]

\* The block becomes free and the first of the list.
MakeAvail(h, i, n) ==
    LET tagged == [Tagged(h.array, i, n, n) EXCEPT ![i + 1] = h.avail, ![i + 2] = 0]
    IN  [array |-> IF h.avail = 0 THEN tagged ELSE [tagged EXCEPT ![h.avail + 2] = i],
         avail |-> i]

\* Mutant: the successor of a removed block keeps its predecessor.
UnlinkHalf(h, i) ==
    LET p == PrevOf(h.array, i)
        n == NextOf(h.array, i)
    IN  [array |-> IF p = 0 THEN h.array ELSE [h.array EXCEPT ![p + 1] = n],
         avail |-> IF p = 0 THEN n ELSE h.avail]

\* The block leaves the list.
Unlink(h, i) ==
    LET p == PrevOf(h.array, i)
        n == NextOf(h.array, i)
        before == IF p = 0 THEN h.array ELSE [h.array EXCEPT ![p + 1] = n]
    IN  [array |-> IF n = 0 THEN before ELSE [before EXCEPT ![n + 2] = p],
         avail |-> IF p = 0 THEN n ELSE h.avail]

-----------------------------------------------------------------------------

\* The words of the block for so many bytes: its tags, and the two links it
\* needs when it is free again.
Ints(bytes) ==
    LET ints == ((bytes + 3) % WordMod) \div 4 + 2
    IN  IF ints < 4 THEN 4 ELSE ints

\* The free list, by following the links from its head.
FreeList == Links!Walk([i \in 1 .. Len0 - 2 |-> NextOf(array, i)], avail)

\* Where the search of malloc stops: at the first block of the list that is large
\* enough, broken or not free; 0 at the end of the list.
Found(ints) ==
    LET list == FreeList
        stops == {k \in DOMAIN list : \/ ~Sane(array, list[k])
                                      \/ ~IsAvail(array, list[k])
                                      \/ BlockSize(array, list[k]) >= ints}
    IN  IF stops = {} THEN 0 ELSE list[Min(stops)]

\* What malloc leaves of block p: a taken block, and a free one of what is
\* left if that is large enough.
Split(p, ints) ==
    LET h == Unlink([array |-> array, avail |-> avail], p)
        extra == BlockSize(array, p) - ints
    IN  IF extra >= 4
        THEN MakeAvail(MakeTaken(h, p, ints), p + ints, extra)
        ELSE MakeTaken(h, p, ints + extra)

Malloc(bytes) ==
    LET ints == Ints(bytes)
        p == Found(ints)
        h == Split(p, ints)
    IN  /\ ~panicked
        /\ IF p = 0 \/ ~Sane(array, p) \/ ~IsAvail(array, p)
           THEN panicked' = TRUE /\ UNCHANGED <<array, avail, held>>
           ELSE /\ array' = h.array
                /\ avail' = h.avail
                /\ held' = held \cup {p}
                /\ UNCHANGED panicked

\* Mutants: free takes the left block without asking whether it is free, does
\* not look to the left, or counts the left one twice.
MergedLeft(h, idx) ==
    LET l == LeftOf(h.array, idx)
    IN  MakeAvail(Unlink(h, l), l, Footer(h.array, idx) - l + 1)
MergedRight(h, idx) ==
    LET r == RightOf(h.array, idx)
    IN  IF IsAvail(h.array, r)
        THEN MakeAvail(Unlink(h, r), idx, Footer(h.array, r) - idx + 1)
        ELSE MakeAvail(h, idx, BlockSize(h.array, idx))
MergedTwice(h, idx) ==
    LET l == LeftOf(h.array, idx)
        size == BlockSize(h.array, idx)
    IN  IF IsAvail(h.array, l)
        THEN MakeAvail(Unlink(h, l), l, size + 2 * BlockSize(h.array, l))
        ELSE MakeAvail(h, idx, size)

\* The block joins the free blocks on its two sides.
Merged(h, idx) ==
    LET l == LeftOf(h.array, idx)
        r == RightOf(h.array, idx)
        h1 == IF IsAvail(h.array, l) THEN Unlink(h, l) ELSE h
        h2 == IF IsAvail(h.array, r) THEN Unlink(h1, r) ELSE h1
        from == IF IsAvail(h.array, l) THEN l ELSE idx
        upto == IF IsAvail(h.array, r) THEN Footer(h.array, r) ELSE Footer(h.array, idx)
    IN  MakeAvail(h2, from, upto - from + 1)

\* free() of the block at idx, whoever calls it.
Free(idx) ==
    LET h == [array |-> array, avail |-> avail]
        broken == \/ ~Sane(array, idx) \/ ~IsTaken(array, idx)
                  \/ ~Sane(array, LeftOf(array, idx)) \/ ~Sane(array, RightOf(array, idx))
    IN  /\ ~panicked
        /\ IF broken
           THEN panicked' = TRUE /\ UNCHANGED <<array, avail, held>>
           ELSE /\ array' = Merged(h, idx).array
                /\ avail' = Merged(h, idx).avail
                /\ held' = held \ {idx}
                /\ UNCHANGED panicked

HeapInit ==
    LET h == [array |-> [i \in Index |-> 0], avail |-> 0]
        ready == MakeTaken(MakeAvail(MakeTaken(h, 0, 2), 2, Len0 - 4), Len0 - 2, 2)
    IN  /\ array = ready.array
        /\ avail = ready.avail
        /\ held = {}
        /\ panicked = FALSE

HeapNext == \/ \E bytes \in Requests : Malloc(bytes)
        \/ \E idx \in held : Free(idx)

HeapSpec == HeapInit /\ [][HeapNext]_heapVars

-----------------------------------------------------------------------------

HeapTypeOK ==
    /\ array \in [Index -> -Len0 .. Len0]
    /\ avail \in Index
    /\ held \subseteq Index
    /\ panicked \in BOOLEAN

\* The blocks, the two guards included, and the words of one.
Blocks == {0, Len0 - 2} \cup held \cup ToSet(FreeList)
Extent(i) == i .. Footer(array, i)

\* Blocks tile the heap, the two guards at its ends included: each word is in
\* one block, and the blocks that callers hold and those of the free list are
\* all there is, over any sequence of splits and merges.
Tiled == /\ HeapTypeOK
         /\ \A i \in Blocks : Sane(array, i)
         /\ \A i, j \in Blocks : i # j => Extent(i) \cap Extent(j) = {}
         /\ UNION {Extent(i) : i \in Blocks} = Index

\* Over these blocks the list holds each free block once, its back links agree with its links,
\* and no block that a caller holds is on it.  Two neighbours are never both
\* free: what can be merged is merged.
FreeListExact ==
    LET list == FreeList
    IN  /\ Tiled
        /\ \A i, j \in DOMAIN list : i # j => list[i] # list[j]
        /\ \A i \in DOMAIN list :
             /\ IsAvail(array, list[i])
             /\ PrevOf(array, list[i]) = (IF i = 1 THEN 0 ELSE list[i - 1])
             /\ IsTaken(array, list[i] - 1) /\ IsTaken(array, RightOf(array, list[i]))
        /\ \A i \in held : IsTaken(array, i)

\* malloc gives up ("heap is full") only when no run of free words is long
\* enough for the request.
FullMeansFull ==
    [][\A bytes \in Requests :
          Malloc(bytes) /\ panicked' =>
            ~\E i \in 2 .. Len0 - 2 - Ints(bytes) :
                \A j \in held : (i .. i + Ints(bytes) - 1) \cap Extent(j) = {}]_heapVars

\* What callers have are areas that do not overlap, each with the bytes that
\* were asked for.
Areas == INSTANCE Allocator
    WITH Words <- Index,
         areas <- {(i + 1) .. (Footer(array, i) - 1) : i \in held}
ImplementsAllocator ==
    /\ Areas!AllocSpec
    /\ [][\A bytes \in Requests : Malloc(bytes) =>
             \A i \in held' \ held : 4 * (-array'[i] - 2) >= bytes]_heapVars
=============================================================================
