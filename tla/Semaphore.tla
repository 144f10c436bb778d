----------------------------- MODULE Semaphore -----------------------------
(***************************************************************************)
(* What the kernel's counting semaphores promise (src/kernel/semaphore.cc) *)
(* once scheduling, interrupts and nested disable() calls are abstracted   *)
(* away: a permit is handed to waiters in the order in which they came,    *)
(* never to a later caller, and down and up are atomic.                    *)
(***************************************************************************)
EXTENDS Integers, Sequences, Functions

CONSTANTS Proc,        \* the processes that call down and up
          Sem,         \* the semaphores
          InitCount    \* the constructor's argument, a function on Sem

VARIABLES count,       \* Semaphore::count
          waiting      \* Semaphore::waiting, first come first

semVars == <<count, waiting>>

SemTypeOK == /\ count \in [Sem -> Nat]
             /\ waiting \in [Sem -> Seq(Proc)]

Asleep(p) == \E s \in Sem : p \in Range(waiting[s])

SemInit == /\ count = InitCount
           /\ waiting = [s \in Sem |-> <<>>]

\* Semaphore::down by a process that is not itself waiting: it takes a
\* permit, or joins the queue when there is none.
Down(p, s) ==
    /\ ~Asleep(p)
    /\ \/ /\ count[s] # 0
          /\ count' = [count EXCEPT ![s] = @ - 1]
          /\ UNCHANGED waiting
       \/ /\ count[s] = 0
          /\ waiting' = [waiting EXCEPT ![s] = Append(@, p)]
          /\ UNCHANGED count

\* Semaphore::up: the permit goes straight to the oldest waiter; the count
\* moves only when nobody waits.
Up(s) ==
    \/ /\ waiting[s] = <<>>
       /\ count' = [count EXCEPT ![s] = @ + 1]
       /\ UNCHANGED waiting
    \/ /\ waiting[s] # <<>>
       /\ waiting' = [waiting EXCEPT ![s] = Tail(@)]
       /\ UNCHANGED count

SemNext == \/ \E p \in Proc, s \in Sem : Down(p, s)
           \/ \E s \in Sem : Up(s)

SemSpec == SemInit /\ [][SemNext]_semVars
=============================================================================
