----------------------------- MODULE Scheduler -----------------------------
(***************************************************************************)
(* The scheduling core of K439 on its one CPU: processes, the ready queue, *)
(* dispatch and context switch, nested disable()/enable(), semaphores,     *)
(* timers, the timer and keyboard interrupts, exit, kill and the reaper    *)
(* (src/kernel/process.cc, semaphore.cc, pic.cc, pit.cc, kbd.cc, bb.h,     *)
(* idle.cc).  The handlers of the other interrupts block nowhere and leave *)
(* all of this state as they found it.                                     *)
(*                                                                         *)
(* A section of code that runs with interrupts off is one action.  It ends *)
(* at the context switch, and what the switched-out process has still to   *)
(* do when it is dispatched again is its "frame": the trailing enable()s,  *)
(* or the acknowledgement and the return of the timer interrupt.  The      *)
(* handler of the keyboard takes a step for each semaphore; while it runs, *)
(* the frame of the process it interrupted says how far it is.             *)
(***************************************************************************)
EXTENDS Integers, Sequences, Functions

CONSTANTS Proc,        \* every process but the idle one
          Idle,        \* Process::idleProcess
          NoProc,      \* current == nullptr
          First,       \* the first process, started by kernelMain
          UserSem,     \* the semaphores that processes share
          KbdEmpty,    \* BB::nEmpty of the keyboard's buffer,
          KbdMutex,    \* its mutex
          KbdFull,     \* and its nFull: the processes share them, too
          InitCount,   \* their constructor's argument
          TableMutex,  \* the mutex of each process's resource table
          FileMutex,   \* Fat439::openFilesMutex
          JiffyMod,    \* the number of values of Pit::jiffies (2^32)
          Faulty,      \* the processes that may touch the null page
          MaxCount     \* bound on a shared semaphore's count

ASSUME ProcAssumption == /\ Idle \notin Proc
                         /\ NoProc \notin Proc \cup {Idle}
                         /\ First \in Proc
                         /\ Faulty \subseteq Proc
ASSUME KbdAssumption  == {KbdEmpty, KbdMutex, KbdFull} \subseteq UserSem
ASSUME SemAssumption  == /\ UserSem \cap Proc = {}
                         /\ InitCount \in [UserSem -> Nat]
                         /\ MaxCount \in Nat
                         /\ DOMAIN TableMutex = Proc
                         /\ IsInjective(TableMutex)
                         /\ FileMutex \notin Range(TableMutex)
                         /\ (Range(TableMutex) \cup {FileMutex}) \cap (UserSem \cup Proc) = {}
ASSUME TickAssumption ==
    /\ JiffyMod \in Nat \ {0}
    /\ (UserSem \cup Proc \cup Range(TableMutex) \cup {FileMutex})
         \cap (0 .. JiffyMod - 1) = {}

VARIABLES state,         \* Process::state, "NEW" before start()
          current,       \* Process::current
          readyQueue,    \* Process::readyQueue
          reaperQueue,   \* Process::reaperQueue
          isKilled,      \* Process::isKilled
          disableCount,  \* Process::disableCount
          iDepth,        \* Process::iDepth
          frame,         \* what a process has to do before its own code
          phase,         \* how far a process is in exit()
          joining,       \* the child whose doneEvent.wait() it is in
          count,         \* Semaphore::count
          waiting,       \* the queues processes block on
          jiffies,       \* Pit::jiffies
          intrFlag,      \* the CPU's interrupt flag
          inService,     \* the PIC holds IRQ 0 in service
          panicked       \* Debug::panic was called

AllProc == Proc \cup {Idle}
Ticks == 0 .. JiffyMod - 1

\* The doneEvent of process p is the semaphore p.
Sem == UserSem \cup Proc \cup Range(TableMutex) \cup {FileMutex}

\* yield(q) takes any queue: a semaphore's, or that of the timer whose
\* target is q.  A timer is in the sorted list while its queue is not empty.
WaitQueue == Sem \cup Ticks

cpuVars   == <<intrFlag, inService>>
switchVars == <<state, current, readyQueue, disableCount, frame, intrFlag>>
lifeVars  == <<isKilled, phase, joining, reaperQueue>>
vars == <<state, current, readyQueue, reaperQueue, isKilled, disableCount,
          iDepth, frame, phase, joining, count, waiting, jiffies, intrFlag,
          inService, panicked>>

States == {"NEW", "READY", "RUNNING", "BLOCKED", "TERMINATED"}

\* exit() has yet to lock the table, is closing it, has locked the open files
\* to close one of them, has closed it, has unlocked the table, has signalled.
Phases == {"body", "exit", "closing", "filing", "emptied", "closed", "signalled"}

\* What pic_irq(1) has yet to do: the four semaphore calls of put(), endIrq.
Handling == {"slot", "lock", "unlock", "full", "end"}
Frames == {"entry", "yield", "block", "irq", "none"} \cup Handling

\* The mutexes start with a permit, a doneEvent without.
InitialCount(s) == IF s \in UserSem THEN InitCount[s] ELSE IF s \in Proc THEN 0 ELSE 1

TypeOK ==
    /\ state \in [AllProc -> States]
    /\ current \in AllProc \cup {NoProc}
    /\ readyQueue \in Seq(Proc)
    /\ reaperQueue \in Seq(Proc)
    /\ isKilled \in [AllProc -> BOOLEAN]
    /\ disableCount \in [AllProc -> Nat]
    /\ iDepth \in [AllProc -> Nat]
    /\ frame \in [AllProc -> Frames]
    /\ phase \in [AllProc -> Phases]
    /\ joining \in [AllProc -> Proc \cup {NoProc}]
    /\ count \in [Sem -> Nat]
    /\ waiting \in [WaitQueue -> Seq(Proc)]
    /\ jiffies \in Ticks
    /\ intrFlag \in BOOLEAN
    /\ inService \in BOOLEAN
    /\ panicked \in BOOLEAN

-----------------------------------------------------------------------------

\* p runs its own code: not the tail of a call it was switched out of.
Running(p) == current = p /\ frame[p] = "none" /\ ~panicked
InBody(p) == Running(p) /\ phase[p] = "body" /\ joining[p] = NoProc

\* Mutant: contextSwitch always sets the interrupt flag.
SwitchToWithInterrupts(rq, st) ==
    LET next == IF rq = <<>> THEN Idle ELSE Head(rq)
    IN  /\ current' = next
        /\ readyQueue' = IF rq = <<>> THEN <<>> ELSE Tail(rq)
        /\ state' = [st EXCEPT ![next] = "RUNNING"]
        /\ intrFlag' = TRUE

\* yield() from the choice of the next process to the context switch, for
\* the ready queue rq and the states st that its beginning left.  The CPU
\* takes interrupts again only in a process that never disabled them.
SwitchTo(rq, st) ==
    LET next == IF rq = <<>> THEN Idle ELSE Head(rq)
    IN  /\ current' = next
        /\ readyQueue' = IF rq = <<>> THEN <<>> ELSE Tail(rq)
        /\ state' = [st EXCEPT ![next] = "RUNNING"]
        /\ intrFlag' = (disableCount'[next] = 0)

\* Process::yield(q) called with interrupts already disabled once: p blocks.
\* Blocking inside an interrupt handler panics.
Block(p, q) ==
    \/ /\ iDepth[p] # 0
       /\ panicked' = TRUE
       /\ UNCHANGED <<switchVars, waiting, iDepth, jiffies, inService>>
    \/ /\ iDepth[p] = 0
       /\ waiting' = [waiting EXCEPT ![q] = Append(@, p)]
       /\ disableCount' = [disableCount EXCEPT ![p] = @ + 2]
       /\ frame' = [frame EXCEPT ![p] = "block"]
       /\ SwitchTo(readyQueue, [state EXCEPT ![p] = "BLOCKED"])
       /\ UNCHANGED <<iDepth, jiffies, inService, panicked>>

\* Semaphore::down called by the running process p.
SemDown(p, s) ==
    \/ /\ count[s] # 0
       /\ count' = [count EXCEPT ![s] = @ - 1]
       /\ UNCHANGED <<switchVars, iDepth, waiting, jiffies, inService, panicked>>
    \/ /\ count[s] = 0
       /\ Block(p, s)
       /\ UNCHANGED count

\* Mutants of up(): the woken process is not queued, or is the latest to
\* have come.
ReleaseAs(s, rq, queue, woken) ==
    \/ /\ waiting[s] = <<>>
       /\ count' = [count EXCEPT ![s] = @ + 1]
       /\ UNCHANGED <<waiting, state, readyQueue>>
    \/ /\ waiting[s] # <<>>
       /\ waiting' = [waiting EXCEPT ![s] = queue]
       /\ state' = [state EXCEPT ![woken] = "READY"]
       /\ readyQueue' = rq
       /\ UNCHANGED count
ReleaseUnqueued(s) == ReleaseAs(s, readyQueue, Tail(waiting[s]), Head(waiting[s]))
ReleaseLatest(s) ==
    LET last == waiting[s][Len(waiting[s])]
    IN  ReleaseAs(s, Append(readyQueue, last), SubSeq(waiting[s], 1, Len(waiting[s]) - 1), last)

\* Semaphore::up: the permit goes to the oldest waiter, which becomes ready.
Release(s) ==
    \/ /\ waiting[s] = <<>>
       /\ count' = [count EXCEPT ![s] = @ + 1]
       /\ UNCHANGED <<waiting, state, readyQueue>>
    \/ /\ waiting[s] # <<>>
       /\ waiting' = [waiting EXCEPT ![s] = Tail(@)]
       /\ state' = [state EXCEPT ![Head(waiting[s])] = "READY"]
       /\ readyQueue' = Append(readyQueue, Head(waiting[s]))
       /\ UNCHANGED count

SemUp(s) ==
    /\ Release(s)
    /\ UNCHANGED <<current, disableCount, frame, iDepth, jiffies, cpuVars, panicked>>

-----------------------------------------------------------------------------

\* kernelMain yields to the first process, with no current process.
Boot ==
    /\ current = NoProc /\ ~panicked
    /\ UNCHANGED disableCount
    /\ SwitchTo(readyQueue, state)
    /\ UNCHANGED <<lifeVars, iDepth, frame, count, waiting, jiffies, inService, panicked>>

\* start() of a process p has constructed.
Start(p, child) ==
    /\ InBody(p) /\ state[child] = "NEW"
    /\ state' = [state EXCEPT ![child] = "READY"]
    /\ readyQueue' = Append(readyQueue, child)
    /\ UNCHANGED <<current, disableCount, frame, iDepth, lifeVars, count, waiting,
                   jiffies, cpuVars, panicked>>

Down(p, s) == InBody(p) /\ SemDown(p, s) /\ UNCHANGED lifeVars

Up(p, s) ==
    /\ InBody(p) /\ count[s] < MaxCount
    /\ SemUp(s)
    /\ UNCHANGED lifeVars

\* Event::wait on child's doneEvent: a down, then an up: it stays signalled.
\* fork returns a child only after it has started it.
JoinDown(p, child) ==
    /\ InBody(p) /\ child # p /\ state[child] # "NEW"
    /\ SemDown(p, child)
    /\ joining' = [joining EXCEPT ![p] = child]
    /\ UNCHANGED <<isKilled, phase, reaperQueue>>

JoinUp(p) ==
    /\ Running(p) /\ joining[p] # NoProc
    /\ SemUp(joining[p])
    /\ joining' = [joining EXCEPT ![p] = NoProc]
    /\ UNCHANGED <<isKilled, phase, reaperQueue>>

\* Mutant: sleepUntil also waits for the current jiffy.
SleepUntilNow(p, target) ==
    /\ InBody(p) /\ target >= jiffies
    /\ Block(p, target)
    /\ UNCHANGED <<lifeVars, count>>

\* sleepUntil: a target that is not in the future returns at once, any other
\* one blocks p on that timer.
SleepUntil(p, target) ==
    /\ InBody(p) /\ target > jiffies
    /\ Block(p, target)
    /\ UNCHANGED <<lifeVars, count>>

\* yield() called by p itself (waitForDrive, the network process): p goes to
\* the tail of the ready queue, and may well be its head as well.
Yield(p) ==
    /\ InBody(p)
    /\ disableCount' = [disableCount EXCEPT ![p] = @ + 1]
    /\ frame' = [frame EXCEPT ![p] = "yield"]
    /\ SwitchTo(Append(readyQueue, p), [state EXCEPT ![p] = "READY"])
    /\ UNCHANGED <<lifeVars, iDepth, count, waiting, jiffies, inService, panicked>>

\* pic_irq(0): startIrq, the clock and the timer that is due, then yield()
\* before the interrupt is acknowledged.  Only IRQ 0 in service masks IRQ 0.
\* Idle is ready without being in the ready queue.
Tick(p) ==
    /\ Running(p) /\ intrFlag /\ ~inService
    /\ LET now == (jiffies + 1) % JiffyMod
           first == \A t \in Ticks : t < now => waiting[t] = <<>>
           woken == IF first THEN waiting[now] ELSE <<>>
           self == IF p = Idle THEN <<>> ELSE <<p>>
       IN  /\ jiffies' = now
           /\ waiting' = [waiting EXCEPT ![now] = IF first THEN <<>> ELSE @]
           /\ disableCount' = [disableCount EXCEPT ![p] = 2]
           /\ SwitchTo((readyQueue \o woken) \o self,
                       [q \in AllProc |-> IF q = p \/ q \in Range(woken)
                                          THEN "READY" ELSE state[q]])
    /\ iDepth' = [iDepth EXCEPT ![p] = @ + 1]
    /\ frame' = [frame EXCEPT ![p] = "irq"]
    /\ inService' = TRUE
    /\ panicked' = (disableCount[p] # 0)
    /\ UNCHANGED <<lifeVars, count>>

-----------------------------------------------------------------------------

\* pic_irq(1): startIrq.  Interrupts stay off until the handler's end, and IRQ
\* 0 in service masks IRQ 1.  Bound: MaxCount characters wait to be read.
Key(p) ==
    /\ Running(p) /\ intrFlag /\ ~inService /\ count[KbdFull] < MaxCount
    /\ disableCount' = [disableCount EXCEPT ![p] = 1]
    /\ iDepth' = [iDepth EXCEPT ![p] = @ + 1]
    /\ intrFlag' = FALSE
    /\ panicked' = (disableCount[p] # 0)
    /\ frame' = [frame EXCEPT ![p] = "slot"]
    /\ UNCHANGED <<state, current, readyQueue, lifeVars, count, waiting, jiffies,
                   inService>>

Handler(p, at) == current = p /\ frame[p] = at /\ ~panicked

\* A down() of put(): without a permit it panics in yield(q).
PutDown(p, at, s, next) ==
    /\ Handler(p, at)
    /\ \/ /\ count[s] # 0
          /\ count' = [count EXCEPT ![s] = @ - 1]
          /\ frame' = [frame EXCEPT ![p] = next]
          /\ UNCHANGED <<state, current, readyQueue, disableCount, iDepth, waiting,
                         jiffies, cpuVars, panicked>>
       \/ /\ count[s] = 0
          /\ Block(p, s)
          /\ UNCHANGED count
    /\ UNCHANGED lifeVars

\* An up() of put().
PutUp(p, at, s, next) ==
    /\ Handler(p, at)
    /\ Release(s)
    /\ frame' = [frame EXCEPT ![p] = next]
    /\ UNCHANGED <<current, disableCount, iDepth, lifeVars, jiffies, cpuVars, panicked>>

\* pic_eoi, endIrq and iret.
KeyEnds(p) ==
    /\ Handler(p, "end")
    /\ panicked' = (disableCount[p] # 1)
    /\ disableCount' = [disableCount EXCEPT ![p] = 0]
    /\ iDepth' = [iDepth EXCEPT ![p] = @ - 1]
    /\ intrFlag' = TRUE
    /\ frame' = [frame EXCEPT ![p] = "none"]
    /\ UNCHANGED <<state, current, readyQueue, lifeVars, count, waiting, jiffies,
                   inService>>

\* Keyboard::handler, which puts the character into the buffer, to its end.
Put(p) ==
    \/ PutDown(p, "slot", KbdEmpty, "lock")
    \/ PutDown(p, "lock", KbdMutex, "unlock")
    \/ PutUp(p, "unlock", KbdMutex, "full")
    \/ PutUp(p, "full", KbdFull, "end")
    \/ KeyEnds(p)

-----------------------------------------------------------------------------

\* The process that dispatch() switched to goes on in checkKilled(), which
\* drains the reaper queue, and then in whatever it was switched out of.  The
\* checkReaper() of the idle loop therefore never finds anything: an exit and
\* the next process's drain have no room for it in between.
Resuming(p) ==
    current = p /\ frame[p] \in {"entry", "yield", "block", "irq"} /\ ~panicked

\* Process::entry of a process that never ran.  Interrupts are already on; a
\* tick before the first instruction is one right after this step.
Entry(p) ==
    /\ Resuming(p) /\ frame[p] = "entry" /\ ~isKilled[p]
    /\ reaperQueue' = <<>>
    /\ frame' = [frame EXCEPT ![p] = "none"]
    /\ UNCHANGED <<state, current, readyQueue, isKilled, disableCount, iDepth, phase,
                   joining, count, waiting, jiffies, cpuVars, panicked>>

\* The enable() of yield(), and that of down() or sleepUntil() which called
\* it: the last one turns interrupts on.
ReturnFromYield(p) ==
    /\ Resuming(p) /\ frame[p] \in {"yield", "block"} /\ ~isKilled[p]
    /\ LET enables == IF frame[p] = "yield" THEN 1 ELSE 2
       IN  /\ disableCount' = [disableCount EXCEPT ![p] = @ - enables]
           /\ intrFlag' = (disableCount[p] = enables)
           /\ panicked' = (disableCount[p] < enables)
    /\ reaperQueue' = <<>>
    /\ frame' = [frame EXCEPT ![p] = "none"]
    /\ UNCHANGED <<state, current, readyQueue, isKilled, iDepth, phase, joining, count,
                   waiting, jiffies, inService>>

\* Mutants of the interrupt's end: endIrq leaves disableCount as it is, or
\* the interrupt is not acknowledged.
IrqEnds(p, disables, pending) ==
    /\ Resuming(p) /\ frame[p] = "irq" /\ ~isKilled[p]
    /\ panicked' = (disableCount[p] # 2)
    /\ disableCount' = [disableCount EXCEPT ![p] = disables]
    /\ iDepth' = [iDepth EXCEPT ![p] = @ - 1]
    /\ inService' = pending
    /\ intrFlag' = TRUE
    /\ reaperQueue' = <<>>
    /\ frame' = [frame EXCEPT ![p] = "none"]
    /\ UNCHANGED <<state, current, readyQueue, isKilled, phase, joining, count, waiting,
                   jiffies>>
ReturnFromIrqDisabled(p) == IrqEnds(p, 1, FALSE)
ReturnFromIrqUnacknowledged(p) == IrqEnds(p, 0, inService)

\* The enable() of yield(), pic_eoi, endIrq, and iret.
ReturnFromIrq(p) ==
    /\ Resuming(p) /\ frame[p] = "irq" /\ ~isKilled[p]
    /\ panicked' = (disableCount[p] # 2)
    /\ disableCount' = [disableCount EXCEPT ![p] = 0]
    /\ iDepth' = [iDepth EXCEPT ![p] = @ - 1]
    /\ inService' = FALSE
    /\ intrFlag' = TRUE
    /\ reaperQueue' = <<>>
    /\ frame' = [frame EXCEPT ![p] = "none"]
    /\ UNCHANGED <<state, current, readyQueue, isKilled, phase, joining, count, waiting,
                   jiffies>>

\* checkKilled() finds isKilled and calls exit() from inside dispatch():
\* the calls p was in are never returned to.
ReturnKilled(p) ==
    /\ Resuming(p) /\ isKilled[p]
    /\ phase' = [phase EXCEPT ![p] = "exit"]
    /\ reaperQueue' = <<>>
    /\ frame' = [frame EXCEPT ![p] = "none"]
    /\ UNCHANGED <<state, current, readyQueue, isKilled, disableCount, iDepth, joining,
                   count, waiting, jiffies, cpuVars, panicked>>

-----------------------------------------------------------------------------

\* Process::exit called by p.
Exit(p) ==
    /\ InBody(p)
    /\ phase' = [phase EXCEPT ![p] = "exit"]
    /\ UNCHANGED <<switchVars, isKilled, joining, reaperQueue, iDepth, count, waiting,
                   jiffies, inService, panicked>>

\* A page fault below 0x1000: kill() of the current process, which finds
\* itself killed at once and exits.
Fault(p) ==
    /\ InBody(p) /\ p \in Faulty
    /\ isKilled' = [isKilled EXCEPT ![p] = TRUE]
    /\ phase' = [phase EXCEPT ![p] = "exit"]
    /\ reaperQueue' = <<>>
    /\ UNCHANGED <<switchVars, joining, iDepth, count, waiting, jiffies, inService,
                   panicked>>

\* Table::closeAll locks the table.
CloseAll(p) ==
    /\ Running(p) /\ phase[p] = "exit"
    /\ SemDown(p, TableMutex[p])
    /\ phase' = [phase EXCEPT ![p] = "closing"]
    /\ UNCHANGED <<isKilled, joining, reaperQueue>>

\* It drops the last reference to a file, the one a process may have open
\* here, and Fat439::closeFile locks the open files ...
CloseFile(p) ==
    /\ Running(p) /\ phase[p] = "closing"
    /\ SemDown(p, FileMutex)
    /\ phase' = [phase EXCEPT ![p] = "filing"]
    /\ UNCHANGED <<isKilled, joining, reaperQueue>>

\* ... and unlocks them.
FileClosed(p) ==
    /\ Running(p) /\ phase[p] = "filing"
    /\ SemUp(FileMutex)
    /\ phase' = [phase EXCEPT ![p] = "emptied"]
    /\ UNCHANGED <<isKilled, joining, reaperQueue>>

\* Table::closeAll unlocks the table.
CloseAllEnds(p) ==
    /\ Running(p) /\ phase[p] \in {"closing", "emptied"}
    /\ SemUp(TableMutex[p])
    /\ phase' = [phase EXCEPT ![p] = "closed"]
    /\ UNCHANGED <<isKilled, joining, reaperQueue>>

\* Mutant: exit() queues the process for the reaper before it leaves its stack.
ExitSignalReaped(p) ==
    /\ Running(p) /\ phase[p] = "closed"
    /\ SemUp(p)
    /\ phase' = [phase EXCEPT ![p] = "signalled"]
    /\ reaperQueue' = Append(reaperQueue, p)
    /\ UNCHANGED <<isKilled, joining>>

\* Mutant: the signal is lost when nobody waits for it yet.
ExitSignalLost(p) ==
    /\ Running(p) /\ phase[p] = "closed"
    /\ \/ waiting[p] # <<>> /\ SemUp(p)
       \/ waiting[p] = <<>> /\ UNCHANGED <<switchVars, iDepth, count, waiting, jiffies,
                                          inService, panicked>>
    /\ phase' = [phase EXCEPT ![p] = "signalled"]
    /\ UNCHANGED <<isKilled, joining, reaperQueue>>

\* exit(): onExit and doneEvent.signal().
ExitSignal(p) ==
    /\ Running(p) /\ phase[p] = "closed"
    /\ SemUp(p)
    /\ phase' = [phase EXCEPT ![p] = "signalled"]
    /\ UNCHANGED <<isKilled, joining, reaperQueue>>

\* exit(): onto the reaper queue and away, with no current process.
ExitSwitch(p) ==
    /\ Running(p) /\ phase[p] = "signalled"
    /\ reaperQueue' = Append(reaperQueue, p)
    /\ disableCount' = [disableCount EXCEPT ![p] = @ + 1]
    /\ SwitchTo(readyQueue, [state EXCEPT ![p] = "TERMINATED"])
    /\ UNCHANGED <<isKilled, iDepth, frame, phase, joining, count, waiting, jiffies,
                   inService, panicked>>

-----------------------------------------------------------------------------

Init ==
    /\ state = [p \in AllProc |-> IF p \in {First, Idle} THEN "READY" ELSE "NEW"]
    /\ current = NoProc
    /\ readyQueue = <<First>>
    /\ reaperQueue = <<>>
    /\ isKilled = [p \in AllProc |-> FALSE]
    /\ disableCount = [p \in AllProc |-> 0]
    /\ iDepth = [p \in AllProc |-> 0]
    /\ frame = [p \in AllProc |-> "entry"]
    /\ phase = [p \in AllProc |-> "body"]
    /\ joining = [p \in AllProc |-> NoProc]
    /\ count = [s \in Sem |-> InitialCount(s)]
    /\ waiting = [q \in WaitQueue |-> <<>>]
    /\ jiffies = 0
    /\ intrFlag = FALSE
    /\ inService = FALSE
    /\ panicked = FALSE

\* What dispatch() left undone.
Resume(p) == Entry(p) \/ ReturnFromYield(p) \/ ReturnFromIrq(p) \/ ReturnKilled(p)

\* What a process may choose to do, and what it then has to finish.
BodyStep(p) ==
    \/ Yield(p) \/ Exit(p) \/ Fault(p) \/ CloseFile(p)
    \/ \E child \in Proc : Start(p, child) \/ JoinDown(p, child)
    \/ \E s \in UserSem : Down(p, s) \/ Up(p, s)
    \/ \E target \in Ticks : SleepUntil(p, target)
FinishStep(p) ==
    \/ JoinUp(p) \/ CloseAll(p) \/ FileClosed(p) \/ CloseAllEnds(p)
    \/ ExitSignal(p) \/ ExitSwitch(p)

Next ==
    \/ Boot
    \/ \E p \in AllProc : Tick(p) \/ Resume(p) \/ Key(p) \/ Put(p)
    \/ \E p \in Proc : BodyStep(p) \/ FinishStep(p)

Spec == Init /\ [][Next]_vars

-----------------------------------------------------------------------------
(***************************************************************************)
(* Safety                                                                  *)
(***************************************************************************)

\* The ready queue holds exactly the ready processes, each once: none is lost
\* or runs twice by the ticks, wake-ups and yields that move processes to it.
ReadyQueueExact ==
    /\ IsInjective(readyQueue)
    /\ \A p \in Proc : state[p] = "READY" <=> p \in Range(readyQueue)

\* A blocked process waits in exactly one queue, once, and nobody else does:
\* no wake-up is lost and none is delivered to a process that left.
BlockedExact ==
    /\ \A q \in WaitQueue : IsInjective(waiting[q])
    /\ \A p \in Proc : state[p] = "BLOCKED" <=> \E q \in WaitQueue : p \in Range(waiting[q])
    /\ \A q, r \in WaitQueue : q # r => Range(waiting[q]) \cap Range(waiting[r]) = {}

\* One process runs: the current one.
CurrentRunning == \A p \in AllProc : state[p] = "RUNNING" <=> p = current

\* All of it: switches, wake-ups, ticks and sleeps that cross each other never
\* leave a process in two queues, or in none where nobody would ever find it.
EachInOneQueue == TypeOK /\ ReadyQueueExact /\ BlockedExact /\ CurrentRunning

\* A semaphore never holds a permit and a waiter: down() and up() agree on
\* the hand-off whatever switches and ticks come between them.
PermitsOrWaiters == \A s \in Sem : count[s] > 0 => waiting[s] = <<>>

\* Interrupts are on exactly when the current process has undone each of its
\* disable()s, over all switches, nested calls and interrupts.
InterruptFlagExact ==
    current # NoProc => (intrFlag <=> disableCount[current] = 0)

\* A kill loses what its victim held: the guarantees below end there.
SomeKilled == \E p \in Faulty : isKilled[p]

\* A key comes while the keyboard's buffer is full, or while a process is
\* inside it: its handler would have to wait.
KeyWithoutRoom ==
    \E p \in AllProc : \/ frame[p] = "slot" /\ count[KbdEmpty] = 0
                       \/ frame[p] = "lock" /\ count[KbdMutex] = 0

\* The panics of enable(), startIrq(), endIrq() and yield(q) have two causes:
\* a process was killed, and left disables or an interrupt behind, or a key
\* finds no room in the buffer.  No order of ticks, keys, switches and nested
\* disables reaches one of them in any other way.
PanicsExplained == panicked => SomeKilled \/ KeyWithoutRoom

\* Without kills only a key panics (MCScheduler_panic.cfg shows that one
\* process killed is enough to end this).
OnlyKeysPanic == panicked => KeyWithoutRoom

\* Every timer in the list is still to come, so that comparing the clock with
\* the first target for equality (Process::tick) can miss none.
TimersAhead == \A t \in Ticks : waiting[t] # <<>> => t > jiffies

\* At most one process is inside an interrupt, and while that is the timer's
\* the PIC delivers no other; the process inside may have died since.
OneInterrupted ==
    /\ \A p, q \in AllProc : iDepth[p] # 0 /\ iDepth[q] # 0 => p = q
    /\ inService <=> \E p \in AllProc : iDepth[p] # 0 /\ frame[p] \notin Handling

\* The process that deletes the reaped ones never runs on a stack it frees:
\* what is queued for the reaper has terminated, and is queued once.
ReaperSafe ==
    /\ IsInjective(reaperQueue)
    /\ \A p \in Range(reaperQueue) : state[p] = "TERMINATED"

\* What a process switched out of each place has still to undo, and what the
\* current process has disabled: only a killed one, which left its calls
\* behind, runs its own code or blocks with more.
FramesExact ==
    \A p \in AllProc :
        /\ frame[p] = "entry" => disableCount[p] = 0 /\ iDepth[p] = 0
        /\ frame[p] = "yield" => disableCount[p] = 1 /\ iDepth[p] = 0
        /\ frame[p] = "block" => /\ iDepth[p] = 0
                                 /\ isKilled[p] \/ disableCount[p] = 2
        /\ frame[p] = "irq" => disableCount[p] = 2 /\ iDepth[p] = 1
        /\ frame[p] \in Handling => /\ current = p
                                    /\ disableCount[p] = 1 /\ iDepth[p] = 1
        /\ frame[p] = "none" /\ state[p] # "TERMINATED" =>
             /\ current = p
             /\ isKilled[p] \/ disableCount[p] = 0
             /\ disableCount[p] = 0 => iDepth[p] = 0

\* Exit and kill are for a process that is not joining or new, and never for
\* the idle process.
LivesExact ==
    /\ \A p \in AllProc :
          /\ isKilled[p] => phase[p] # "body" /\ p \in Faulty
          /\ phase[p] # "body" =>
                /\ joining[p] = NoProc
                /\ frame[p] \in {"irq", "block", "none"} \cup Handling
          /\ state[p] = "NEW" => frame[p] = "entry"
          /\ state[p] = "BLOCKED" => frame[p] = "block"
          /\ state[p] = "TERMINATED" => frame[p] = "none"
    /\ phase[Idle] = "body" /\ joining[Idle] = NoProc
    /\ state[Idle] \in {"READY", "RUNNING"}

\* The inductive invariant of SchedulerProofs.
IInv == /\ TypeOK /\ ReadyQueueExact /\ BlockedExact /\ CurrentRunning
        /\ PermitsOrWaiters /\ InterruptFlagExact /\ PanicsExplained /\ TimersAhead
        /\ OneInterrupted /\ ReaperSafe /\ FramesExact /\ LivesExact

\* A terminated process never comes back, whatever still refers to it.
TerminatedForever ==
    [][\A p \in Proc : state[p] = "TERMINATED" => state'[p] = "TERMINATED"]_vars

\* Without kills some live process still has to acknowledge the interrupt in
\* service: no switch loses it.  That process may wait for the CPU for ever if
\* it is the idle one (MCScheduler_ack.cfg), and then so does the timer.
AcknowledgementOwed ==
    inService => \/ SomeKilled
                 \/ \E p \in AllProc : frame[p] = "irq" /\ state[p] # "TERMINATED"

\* The semaphores seen by their callers, without the timers' queues.
Abstract == INSTANCE Semaphore
    WITH Proc <- AllProc,
         InitCount <- [s \in Sem |-> InitialCount(s)],
         waiting <- [s \in Sem |-> waiting[s]]

\* Whatever switches, ticks, exits and kills do in between, the semaphores are
\* FIFO hand-off semaphores with atomic operations.
ImplementsSemaphore == Abstract!SemSpec

(***************************************************************************)
(* Liveness, as long as nobody is killed and the kernel does not panic.    *)
(* The timer fires whenever it can, what has begun is finished, and a      *)
(* process that has the CPU sooner or later gives it up by itself.         *)
(***************************************************************************)
Leaves(p) ==
    \/ Yield(p) \/ CloseFile(p)
    \/ \E child \in Proc : JoinDown(p, child)
    \/ \E s \in UserSem : Down(p, s)
    \/ \E target \in Ticks : SleepUntil(p, target)
GiveUp(p) == Exit(p) \/ (Leaves(p) /\ state'[p] # "RUNNING")

Machine == /\ WF_vars(Boot)
           /\ \A p \in AllProc : WF_vars(Tick(p)) /\ WF_vars(Resume(p)) /\ WF_vars(Put(p))
           /\ \A p \in Proc : SF_vars(FinishStep(p))
Cooperation == \A p \in Proc : SF_vars(GiveUp(p))

PreemptiveSpec == Spec /\ Machine
CooperativeSpec == Spec /\ Machine /\ Cooperation

\* Under cooperation every ready process gets the CPU: the ready queue is a
\* queue, and a wake-up, a tick and a yield all append to it.
EveryReadyRuns ==
    \A p \in Proc : state[p] = "READY" ~> (state[p] = "RUNNING" \/ SomeKilled \/ panicked)

\* The parent of a finished child returns from join, whether it came before
\* the child's signal or after it.
JoinersReturn ==
    \A p, q \in Proc : joining[p] = q /\ state[q] = "TERMINATED"
                          ~> (joining[p] = NoProc \/ SomeKilled \/ panicked)

\* A tick that came while a process ran is acknowledged, though only when that
\* process runs again: until then the clock stands still.
TicksAcknowledged ==
    \A p \in Proc : inService /\ frame[p] = "irq"
                      ~> (~inService \/ SomeKilled \/ panicked)

\* kill() "causes the process to exit" (process.h), unless the kernel panics.
KilledExits == \A p \in Proc : isKilled[p] ~> (state[p] = "TERMINATED" \/ panicked)

\* pic.cc says after the handler: "the PIC can deliver the next interrupt".
InterruptAcknowledged == inService ~> ~inService
=============================================================================
