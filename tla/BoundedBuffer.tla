--------------------------- MODULE BoundedBuffer ----------------------------
(***************************************************************************)
(* The keyboard's buffer (src/kernel/bb.h, kbd.cc) between the keyboard    *)
(* interrupt, which puts a character, and the processes that read what is  *)
(* there (GetKeyPresses, system call 25 of syscall.cc).                    *)
(*                                                                         *)
(* A process may be interrupted and switched out between any two calls on  *)
(* the buffer's semaphores; the handler runs to its end with interrupts    *)
(* off and must not block.  The semaphores are those of module Semaphore,  *)
(* which module Scheduler implements.                                      *)
(***************************************************************************)
EXTENDS Integers, Sequences, FiniteSets, Functions

CONSTANTS Reader,    \* the processes that read the keyboard
          Key,       \* the characters
          Zero,      \* the character of a slot nobody wrote
          Size,      \* the constructor's argument, 128 for the keyboard
          MaxWant    \* bound on the length of a reader's array

ASSUME ReaderAssumption == IsFiniteSet(Reader)
ASSUME SizeAssumption == Size \in Nat \ {0} /\ MaxWant \in Nat /\ Zero \notin Key

VARIABLES arr,       \* BB::arr
          head,      \* BB::head
          tail,      \* BB::tail
          counts,    \* BB::counts
          count,     \* the permits of the three semaphores
          waiting,   \* their waiters
          pc,        \* where a reader is in get()
          left,      \* how many more characters it wants
          got,       \* the last one it got
          panicked   \* the handler blocked

ring == <<arr, head, tail, counts>>
sems == <<count, waiting>>
vars == <<ring, sems, pc, left, got, panicked>>

\* The semaphores nFull, nEmpty and mutex.
Semaphores == INSTANCE Semaphore
    WITH Proc <- Reader,
         Sem <- {"nFull", "nEmpty", "mutex"},
         InitCount <- [s \in {"nFull", "nEmpty", "mutex"} |->
                         CASE s = "nFull" -> 0 [] s = "nEmpty" -> Size [] OTHER -> 1]

TypeOK ==
    /\ arr \in [0 .. Size - 1 -> Key \cup {Zero}]
    /\ head \in 0 .. Size - 1
    /\ tail \in 0 .. Size - 1
    /\ counts \in Int
    /\ Semaphores!SemTypeOK
    /\ pc \in [Reader -> {"idle", "full", "lock", "take", "unlock", "signal"}]
    /\ left \in [Reader -> 0 .. MaxWant]
    /\ got \in [Reader -> Key \cup {Zero}]
    /\ panicked \in BOOLEAN

Init ==
    /\ arr = [i \in 0 .. Size - 1 |-> Zero]
    /\ head = 0
    /\ tail = 0
    /\ counts = 0
    /\ Semaphores!SemInit
    /\ pc = [r \in Reader |-> "idle"]
    /\ left = [r \in Reader |-> 0]
    /\ got = [r \in Reader |-> Zero]
    /\ panicked = FALSE

-----------------------------------------------------------------------------

\* A mutant of put(): the handler that finds no room overwrites a character.
PutUnchecked(k) ==
    /\ ~panicked /\ count["mutex"] > 0
    /\ arr' = [arr EXCEPT ![tail] = k]
    /\ tail' = (tail + 1) % Size
    /\ counts' = counts + 1
    /\ Semaphores!Up("nFull")
    /\ UNCHANGED <<head, pc, left, got, panicked>>

\* put(), called by the interrupt handler on the stack of whoever was
\* interrupted: a down() that finds no permit panics.
Put(k) ==
    /\ ~panicked
    /\ \/ /\ count["nEmpty"] = 0 \/ count["mutex"] = 0
          /\ panicked' = TRUE
          /\ UNCHANGED <<ring, sems>>
       \/ /\ count["nEmpty"] > 0 /\ count["mutex"] > 0
          /\ arr' = [arr EXCEPT ![tail] = k]
          /\ tail' = (tail + 1) % Size
          /\ counts' = counts + 1
          /\ LET full == waiting["nFull"]
             IN  /\ waiting' = [waiting EXCEPT !["nFull"] = IF full = <<>> THEN full ELSE Tail(full)]
                 /\ count' = [count EXCEPT !["nEmpty"] = @ - 1,
                                           !["nFull"] = IF full = <<>> THEN @ + 1 ELSE @]
          /\ UNCHANGED <<head, panicked>>
    /\ UNCHANGED <<pc, left, got>>

\* Keyboard::handler: the code of the key becomes a character.
Handler == \E k \in Key : Put(k)

-----------------------------------------------------------------------------

\* A reader's next step is its own only while it waits for nothing.
At(r, place) == pc[r] = place /\ ~Semaphores!Asleep(r) /\ ~panicked

\* GetKeyPresses reads the count without the lock and asks for that many.
Ask(r, want) ==
    /\ At(r, "idle") /\ want > 0 /\ counts > 0
    /\ left' = [left EXCEPT ![r] = IF want < counts THEN want ELSE counts]
    /\ pc' = [pc EXCEPT ![r] = "full"]
    /\ UNCHANGED <<ring, sems, got, panicked>>

\* get(): nFull.down().
TakeFull(r) ==
    /\ At(r, "full")
    /\ Semaphores!Down(r, "nFull")
    /\ pc' = [pc EXCEPT ![r] = "lock"]
    /\ UNCHANGED <<ring, left, got, panicked>>

\* get(): mutex.down().
Lock(r) ==
    /\ At(r, "lock")
    /\ Semaphores!Down(r, "mutex")
    /\ pc' = [pc EXCEPT ![r] = "take"]
    /\ UNCHANGED <<ring, left, got, panicked>>

\* Mutant: get() moves the head before it reads.
TakeNext(r) ==
    /\ At(r, "take")
    /\ counts' = counts - 1
    /\ head' = (head + 1) % Size
    /\ got' = [got EXCEPT ![r] = arr[head']]
    /\ pc' = [pc EXCEPT ![r] = "unlock"]
    /\ UNCHANGED <<arr, tail, sems, left, panicked>>

\* get(): the character at the head.
Take(r) ==
    /\ At(r, "take")
    /\ counts' = counts - 1
    /\ got' = [got EXCEPT ![r] = arr[head]]
    /\ head' = (head + 1) % Size
    /\ pc' = [pc EXCEPT ![r] = "unlock"]
    /\ UNCHANGED <<arr, tail, sems, left, panicked>>

\* Mutant: get() leaves the mutex locked.
UnlockNothing(r) ==
    /\ At(r, "unlock")
    /\ pc' = [pc EXCEPT ![r] = "signal"]
    /\ UNCHANGED <<ring, sems, left, got, panicked>>

\* get(): mutex.up().
Unlock(r) ==
    /\ At(r, "unlock")
    /\ Semaphores!Up("mutex")
    /\ pc' = [pc EXCEPT ![r] = "signal"]
    /\ UNCHANGED <<ring, left, got, panicked>>

\* get(): nEmpty.up(), and back to the loop of GetKeyPresses.
Signal(r) ==
    /\ At(r, "signal")
    /\ Semaphores!Up("nEmpty")
    /\ left' = [left EXCEPT ![r] = @ - 1]
    /\ pc' = [pc EXCEPT ![r] = IF left[r] = 1 THEN "idle" ELSE "full"]
    /\ UNCHANGED <<ring, got, panicked>>

Get(r) == TakeFull(r) \/ Lock(r) \/ Take(r) \/ Unlock(r) \/ Signal(r)

Next == \/ Handler
        \/ \E r \in Reader : Get(r) \/ \E want \in 1 .. MaxWant : Ask(r, want)

Spec == Init /\ [][Next]_vars

\* A process in the middle of get() is ready unless it waits: it runs again.
FairSpec == Spec /\ \A r \in Reader : WF_vars(Get(r))

-----------------------------------------------------------------------------

\* The readers that have a permit of nFull and still have to take the
\* character, those that have taken it and not yet made room, and those
\* inside the mutex.
Owed == {r \in Reader : \/ pc[r] = "lock" /\ r \notin Range(waiting["nFull"])
                        \/ pc[r] = "take"}
Leaving == {r \in Reader : pc[r] \in {"unlock", "signal"}}
Inside == {r \in Reader : \/ pc[r] = "take" /\ r \notin Range(waiting["mutex"])
                          \/ pc[r] = "unlock"}

\* The count that GetKeyPresses reads without a lock is the number of
\* characters inside, and each slot is free, filled or about to be made free:
\* handler and readers never lose a slot, whatever they interrupt.  One process
\* at a time moves the head, and the mutex knows.
SlotsAccounted ==
    /\ TypeOK
    /\ counts = count["nFull"] + Cardinality(Owed)
    /\ Size = counts + Cardinality(Leaving) + count["nEmpty"]
    /\ (tail - head - counts) % Size = 0
    /\ Cardinality(Inside) + count["mutex"] = 1

\* The handler never has to block: yield(q) panics inside an interrupt
\* ("blocking while iDepth", process.cc).
HandlerNeverBlocks == ~panicked

\* The characters reach the readers in the order in which they were typed.
Queue == INSTANCE Fifo
    WITH Item <- Key, Nothing <- Zero,
         queue <- [i \in 1 .. counts |-> arr[(head + i - 1) % Size]],
         got <- got
ImplementsFifo == Queue!FifoSpec

\* A reader that waits for the mutex gets it, unless the handler panics.
ReadersServed == \A r \in Reader : pc[r] = "take" ~> (pc[r] # "take" \/ panicked)
=============================================================================
