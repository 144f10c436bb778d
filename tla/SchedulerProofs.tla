-------------------------- MODULE SchedulerProofs --------------------------
(***************************************************************************)
(* The scheduling core keeps its invariants for any number of processes,   *)
(* semaphores and clock values, and implements Semaphore.                  *)
(***************************************************************************)
EXTENDS Scheduler, CollectionFacts, TLAPS

(***************************************************************************)
(* The pieces that several actions share.                                  *)
(***************************************************************************)

\* Idle is a process of its own, and so is the absence of one.
LEMMA ProcFacts == /\ Idle \notin Proc /\ NoProc \notin AllProc /\ First \in Proc
                   /\ Proc \subseteq AllProc /\ Idle \in AllProc
                   /\ Sem \subseteq WaitQueue /\ Ticks \subseteq WaitQueue
                   /\ Sem \cap Ticks = {} /\ Proc \subseteq Sem
                   /\ UserSem \subseteq Sem
BY ProcAssumption, TickAssumption DEF AllProc, Sem, WaitQueue, Ticks

\* The mutexes that exit() takes are semaphores.
LEMMA MutexFacts == FileMutex \in Sem /\ \A p \in Proc : TableMutex[p] \in Sem
<1>1. \A p \in Proc : TableMutex[p] \in Range(TableMutex)
  BY SemAssumption DEF Range
<1> QED BY <1>1 DEF Sem

\* A switch picks a ready process, or Idle when there is none, and leaves the
\* ready queue, the running process and the interrupt flag in agreement.
LEMMA SwitchFacts ==
    ASSUME NEW rq \in Seq(Proc), IsInjective(rq),
           NEW st \in [AllProc -> States],
           \A p \in Proc : st[p] = "READY" <=> p \in Range(rq),
           st[Idle] = "READY",
           \A p \in AllProc : st[p] # "RUNNING",
           disableCount' \in [AllProc -> Nat],
           SwitchTo(rq, st)
    PROVE  /\ current' \in AllProc /\ readyQueue' \in Seq(Proc)
           /\ state' \in [AllProc -> States] /\ intrFlag' \in BOOLEAN
           /\ st[current'] = "READY"
           /\ state' = [st EXCEPT ![current'] = "RUNNING"]
           /\ ReadyQueueExact' /\ CurrentRunning' /\ InterruptFlagExact'
<1> USE ProcFacts
<1>1. CASE rq = <<>>
  <2>1. /\ current' = Idle /\ readyQueue' = <<>>
        /\ state' = [st EXCEPT ![Idle] = "RUNNING"]
        /\ intrFlag' = (disableCount'[Idle] = 0)
    BY <1>1 DEF SwitchTo
  <2>2. Range(rq) = {} BY <1>1, EmptyFacts
  <2>3. ReadyQueueExact'
    <3>1. IsInjective(readyQueue') /\ Range(readyQueue') = {} BY <2>1, EmptyFacts
    <3>2. \A p \in Proc : state'[p] # "READY" BY <2>1, <2>2
    <3> QED BY <3>1, <3>2 DEF ReadyQueueExact
  <2>4. CurrentRunning' BY <2>1 DEF CurrentRunning
  <2>5. InterruptFlagExact' BY <2>1 DEF InterruptFlagExact
  <2>6. state' \in [AllProc -> States] BY <2>1 DEF States
  <2>7. st[current'] = "READY" /\ state' = [st EXCEPT ![current'] = "RUNNING"] BY <2>1
  <2>8. readyQueue' \in Seq(Proc) /\ current' \in AllProc /\ intrFlag' \in BOOLEAN
    BY <2>1, EmptySeq
  <2> QED BY <2>3, <2>4, <2>5, <2>6, <2>7, <2>8
<1>2. CASE rq # <<>>
  <2>1. /\ current' = Head(rq) /\ readyQueue' = Tail(rq)
        /\ state' = [st EXCEPT ![Head(rq)] = "RUNNING"]
        /\ intrFlag' = (disableCount'[Head(rq)] = 0)
    BY <1>2 DEF SwitchTo
  <2>2. /\ Tail(rq) \in Seq(Proc) /\ Head(rq) \in Proc
        /\ Range(rq) = Range(Tail(rq)) \cup {Head(rq)}
        /\ IsInjective(Tail(rq)) /\ Head(rq) \notin Range(Tail(rq))
    BY <1>2, TailFacts
  <2>3. ReadyQueueExact'
    <3>1. \A p \in Proc : state'[p] = "READY" <=> p \in Range(Tail(rq))
      BY <2>1, <2>2
    <3> QED BY <3>1, <2>1, <2>2 DEF ReadyQueueExact
  <2>4. CurrentRunning' BY <2>1, <2>2 DEF CurrentRunning
  <2>5. InterruptFlagExact' BY <2>1 DEF InterruptFlagExact
  <2>6. state' \in [AllProc -> States] BY <2>1, <2>2 DEF States
  <2> QED BY <2>1, <2>2, <2>3, <2>4, <2>5, <2>6
<1> QED BY <1>1, <1>2

\* A process that is in no queue joins one.
LEMMA WaitFacts ==
    ASSUME TypeOK, BlockedExact, NEW p \in Proc, NEW q \in WaitQueue,
           state[p] # "BLOCKED",
           waiting' = [waiting EXCEPT ![q] = Append(@, p)],
           \A r \in Proc : state'[r] = "BLOCKED" <=> state[r] = "BLOCKED" \/ r = p
    PROVE  /\ waiting' \in [WaitQueue -> Seq(Proc)]
           /\ BlockedExact'
           /\ waiting'[q] # <<>>
           /\ \A r \in WaitQueue : r # q => waiting'[r] = waiting[r]
<1>1. waiting \in [WaitQueue -> Seq(Proc)] BY DEF TypeOK
<1>2. /\ Append(waiting[q], p) \in Seq(Proc) /\ Append(waiting[q], p) # <<>>
      /\ Range(Append(waiting[q], p)) = Range(waiting[q]) \cup {p}
      /\ p \notin Range(waiting[q]) => IsInjective(Append(waiting[q], p))
  BY <1>1, AppendFacts DEF BlockedExact
<1>3. \A r \in WaitQueue : p \notin Range(waiting[r]) BY DEF BlockedExact
<1>4. /\ waiting' \in [WaitQueue -> Seq(Proc)]
      /\ waiting'[q] = Append(waiting[q], p)
      /\ \A r \in WaitQueue : r # q => waiting'[r] = waiting[r]
  BY <1>1, <1>2
<1>5. \A r \in WaitQueue : Range(waiting'[r]) = IF r = q THEN Range(waiting[q]) \cup {p}
                                                ELSE Range(waiting[r])
  BY <1>2, <1>4
<1>6. \A r \in WaitQueue : IsInjective(waiting'[r])
  BY <1>2, <1>3, <1>4 DEF BlockedExact
<1>7. \A r \in Proc : state'[r] = "BLOCKED" <=> \E t \in WaitQueue : r \in Range(waiting'[t])
  BY <1>5 DEF BlockedExact
<1>8. \A r, t \in WaitQueue : r # t => Range(waiting'[r]) \cap Range(waiting'[t]) = {}
  BY <1>3, <1>5 DEF BlockedExact
<1> QED BY <1>2, <1>4, <1>6, <1>7, <1>8 DEF BlockedExact

\* Only the current process can be inside the keyboard's handler.
LEMMA HandlerFacts ==
    ASSUME IInv, \A p \in AllProc : current = p => frame[p] \notin Handling
    PROVE  \A p \in AllProc : frame[p] \notin Handling
BY DEF IInv, FramesExact

\* What the invariant says of a process that runs its own code.
LEMMA RunningFacts ==
    ASSUME IInv, NEW p \in AllProc, Running(p)
    PROVE  /\ state[p] = "RUNNING"
           /\ \A q \in AllProc : state[q] = "RUNNING" => q = p
           /\ \/ disableCount[p] = 0 /\ iDepth[p] = 0
              \/ isKilled[p] /\ phase[p] # "body" /\ p \in Faulty /\ disableCount[p] # 0
           /\ p \in Proc => state[Idle] = "READY"
           /\ \A q \in AllProc : frame[q] \notin Handling
           /\ ~panicked
<1>1. state[p] = "RUNNING" /\ \A q \in AllProc : state[q] = "RUNNING" => q = p
  BY DEF IInv, CurrentRunning, Running
<1>2. state[Idle] = "RUNNING" => p = Idle
  BY <1>1, ProcFacts
<1>3. \A q \in AllProc : frame[q] \notin Handling
  BY HandlerFacts DEF Running, Handling
<1> QED BY <1>1, <1>2, <1>3, ProcFacts DEF IInv, FramesExact, LivesExact, Running

\* What waits for the reaper are processes that have terminated.
LEMMA ReapedFacts ==
    ASSUME IInv
    PROVE  \A p \in Range(reaperQueue) : p \in Proc /\ state[p] = "TERMINATED"
<1>1. reaperQueue \in Seq(Proc) BY DEF IInv, TypeOK
<1>2. Range(reaperQueue) \subseteq Proc BY <1>1, RangeOfSeq
<1> QED BY <1>2 DEF IInv, ReaperSafe

\* Blocking on a semaphore without a permit or on a timer to come.
LEMMA BlockStep ==
    ASSUME IInv, NEW p \in Proc, Running(p), NEW q \in WaitQueue, Block(p, q),
           q \in Ticks => q > jiffies, q \in Sem => count[q] = 0,
           count' = count, isKilled' = isKilled, reaperQueue' = reaperQueue,
           phase' \in [AllProc -> Phases],
           joining' \in [AllProc -> Proc \cup {NoProc}],
           \A r \in AllProc : r # p => phase'[r] = phase[r] /\ joining'[r] = joining[r],
           isKilled[p] => phase'[p] # "body",
           phase'[p] # "body" => joining'[p] = NoProc
    PROVE  IInv'
<1> DEFINE st == [state EXCEPT ![p] = "BLOCKED"]
<1> USE ProcFacts
<1>1. /\ state[p] = "RUNNING" /\ frame[p] = "none" /\ state[Idle] = "READY"
      /\ \A r \in AllProc : state[r] = "RUNNING" => r = p
      /\ (disableCount[p] = 0 /\ iDepth[p] = 0) \/ (isKilled[p] /\ p \in Faulty)
      /\ ~panicked /\ \A r \in AllProc : frame[r] \notin Handling
  BY RunningFacts DEF Running
<1>2. CASE iDepth[p] # 0 /\ UNCHANGED <<switchVars, waiting, iDepth, jiffies, inService>>
  <2>1. /\ state' = state /\ current' = current /\ readyQueue' = readyQueue
        /\ disableCount' = disableCount /\ frame' = frame /\ intrFlag' = intrFlag
        /\ waiting' = waiting /\ iDepth' = iDepth /\ jiffies' = jiffies
        /\ inService' = inService
    BY <1>2 DEF switchVars
  <2>2. panicked' \in BOOLEAN /\ PanicsExplained'
    BY <1>1, <1>2 DEF Block, IInv, TypeOK, PanicsExplained, SomeKilled
  <2>3. TypeOK' BY <2>1, <2>2 DEF IInv, TypeOK
  <2>4. ReadyQueueExact' /\ BlockedExact' /\ CurrentRunning' /\ PermitsOrWaiters'
        /\ InterruptFlagExact' /\ TimersAhead' /\ OneInterrupted' /\ ReaperSafe'
    BY <2>1 DEF IInv, ReadyQueueExact, BlockedExact, CurrentRunning, PermitsOrWaiters,
                InterruptFlagExact, TimersAhead, OneInterrupted, ReaperSafe
  <2>5. FramesExact' BY <2>1 DEF IInv, FramesExact
  <2>6. LivesExact' BY <1>1, <2>1 DEF IInv, LivesExact
  <2> QED BY <2>2, <2>3, <2>4, <2>5, <2>6 DEF IInv
<1>3. CASE /\ iDepth[p] = 0
           /\ waiting' = [waiting EXCEPT ![q] = Append(@, p)]
           /\ disableCount' = [disableCount EXCEPT ![p] = @ + 2]
           /\ frame' = [frame EXCEPT ![p] = "block"]
           /\ SwitchTo(readyQueue, st)
           /\ UNCHANGED <<iDepth, jiffies, inService, panicked>>
  <2>1. /\ disableCount' \in [AllProc -> Nat]
        /\ isKilled[p] \/ disableCount'[p] = 2
        /\ \A r \in AllProc : r # p => disableCount'[r] = disableCount[r]
        /\ frame' \in [AllProc -> Frames]
        /\ frame'[p] = "block"
        /\ \A r \in AllProc : r # p => frame'[r] = frame[r]
    <3>1. /\ disableCount \in [AllProc -> Nat]
          /\ frame \in [AllProc -> Frames]
      <4>1. TypeOK BY DEF IInv
      <4> QED BY <4>1 DEF TypeOK
    <3>5. disableCount[p] + 2 \in Nat
      <4>1. disableCount[p] \in Nat BY <3>1
      <4> QED BY <4>1
    <3>2. disableCount' = [disableCount EXCEPT ![p] = disableCount[p] + 2] BY <1>3
    <3>3. isKilled[p] \/ disableCount[p] + 2 = 2 BY <1>1
    <3>4. frame' = [frame EXCEPT ![p] = "block"] BY <1>3
    <3> QED BY <3>1, <3>2, <3>3, <3>4, <3>5 DEF Frames
  <2>2. /\ st \in [AllProc -> States] /\ readyQueue \in Seq(Proc)
        /\ IsInjective(readyQueue)
        /\ \A r \in Proc : st[r] = "READY" <=> r \in Range(readyQueue)
        /\ st[Idle] = "READY"
        /\ \A r \in AllProc : st[r] # "RUNNING"
    BY <1>1 DEF IInv, TypeOK, States, ReadyQueueExact
  <2>3. /\ current' \in AllProc /\ readyQueue' \in Seq(Proc)
        /\ state' \in [AllProc -> States] /\ intrFlag' \in BOOLEAN
        /\ st[current'] = "READY"
        /\ state' = [st EXCEPT ![current'] = "RUNNING"]
        /\ ReadyQueueExact' /\ CurrentRunning' /\ InterruptFlagExact'
    <3> HIDE DEF st
    <3> QED BY <1>3, <2>1, <2>2, SwitchFacts
  <2>4. /\ state'[p] = "BLOCKED" /\ current' # p
        /\ state[current'] = "READY" /\ state'[current'] = "RUNNING"
        /\ \A r \in AllProc : r # p /\ r # current' => state'[r] = state[r]
    BY <1>1, <2>3 DEF IInv, TypeOK
  <2>5. /\ waiting' \in [WaitQueue -> Seq(Proc)] /\ BlockedExact' /\ waiting'[q] # <<>>
        /\ \A r \in WaitQueue : r # q => waiting'[r] = waiting[r]
    <3>1. \A r \in Proc : state'[r] = "BLOCKED" <=> state[r] = "BLOCKED" \/ r = p
      BY <2>4
    <3> QED BY <3>1, <1>1, <1>3, WaitFacts DEF IInv
  <2>6. TypeOK'
    BY <1>3, <2>1, <2>3, <2>5 DEF IInv, TypeOK
  <2>7. PermitsOrWaiters'
    <3>1. ASSUME NEW s \in Sem, count'[s] > 0 PROVE waiting'[s] = <<>>
      <4>1. s # q BY <3>1
      <4>2. waiting[s] = <<>> BY <3>1 DEF IInv, PermitsOrWaiters
      <4> QED BY <4>1, <4>2, <2>5
    <3> QED BY <3>1 DEF PermitsOrWaiters
  <2>8. PanicsExplained' BY <1>1, <1>3 DEF PanicsExplained
  <2>9. TimersAhead' BY <1>3, <2>5 DEF IInv, TimersAhead
  <2>14. \A r \in AllProc : frame'[r] \notin Handling BY <1>1, <2>1 DEF Handling
  <2>10. OneInterrupted' BY <1>1, <1>3, <2>14 DEF IInv, OneInterrupted
  <2>11. ReaperSafe' BY <1>1, <2>4, ReapedFacts DEF IInv, ReaperSafe
  <2>12. FramesExact'
    <3>1. ASSUME NEW r \in AllProc, r # p, state'[r] # "TERMINATED"
          PROVE  frame[r] # "none"
      BY <3>1, <1>1, <2>4 DEF IInv, FramesExact, Running
    <3>2. iDepth'[p] = 0 /\ iDepth' = iDepth BY <1>3
    <3>3. ASSUME NEW r \in AllProc, r # p
          PROVE  /\ frame'[r] = frame[r] /\ disableCount'[r] = disableCount[r]
                 /\ iDepth'[r] = iDepth[r] /\ isKilled'[r] = isKilled[r]
      BY <3>3, <1>3, <2>1
    <3> QED BY <3>1, <3>2, <3>3, <2>1, <2>14 DEF IInv, FramesExact
  <2>13. LivesExact'
    BY <1>1, <2>1, <2>4 DEF IInv, LivesExact
  <2> QED BY <2>3, <2>5, <2>6, <2>7, <2>8, <2>9, <2>10, <2>11, <2>12, <2>13 DEF IInv
<1> QED BY <1>2, <1>3 DEF Block

\* Semaphore::down by a process in its own code, in Event::wait or in exit().
LEMMA DownStep ==
    ASSUME IInv, NEW p \in Proc, Running(p), NEW s \in Sem, SemDown(p, s),
           isKilled' = isKilled, reaperQueue' = reaperQueue,
           phase' \in [AllProc -> Phases],
           joining' \in [AllProc -> Proc \cup {NoProc}],
           \A r \in AllProc : r # p => phase'[r] = phase[r] /\ joining'[r] = joining[r],
           isKilled[p] => phase'[p] # "body",
           phase'[p] # "body" => joining'[p] = NoProc
    PROVE  IInv'
<1> USE ProcFacts
<1>1. CASE /\ count[s] # 0
           /\ count' = [count EXCEPT ![s] = @ - 1]
           /\ UNCHANGED <<switchVars, iDepth, waiting, jiffies, inService, panicked>>
  <2>1. /\ state' = state /\ current' = current /\ readyQueue' = readyQueue
        /\ disableCount' = disableCount /\ frame' = frame /\ intrFlag' = intrFlag
        /\ iDepth' = iDepth /\ waiting' = waiting /\ jiffies' = jiffies
        /\ inService' = inService /\ panicked' = panicked
    BY <1>1 DEF switchVars
  <2>2. count' \in [Sem -> Nat] /\ \A r \in Sem : count'[r] > 0 => count[r] > 0
    <3>1. count \in [Sem -> Nat] /\ count[s] - 1 \in Nat /\ count[s] > 0
      <4>1. count \in [Sem -> Nat] BY DEF IInv, TypeOK
      <4>2. count[s] \in Nat /\ count[s] # 0 BY <4>1, <1>1
      <4> QED BY <4>1, <4>2
    <3>2. count' = [count EXCEPT ![s] = count[s] - 1] BY <1>1
    <3> QED BY <3>1, <3>2
  <2>3. TypeOK'
    BY <2>1, <2>2 DEF IInv, TypeOK
  <2>4. PermitsOrWaiters'
    BY <2>1, <2>2 DEF IInv, PermitsOrWaiters
  <2>5. ReadyQueueExact' /\ BlockedExact' /\ CurrentRunning' /\ InterruptFlagExact'
        /\ PanicsExplained' /\ TimersAhead' /\ OneInterrupted' /\ ReaperSafe'
    BY <2>1, RunningFacts DEF IInv, ReadyQueueExact, BlockedExact, CurrentRunning, InterruptFlagExact,
                PanicsExplained, TimersAhead, OneInterrupted, ReaperSafe
  <2>6. FramesExact'
    BY <2>1 DEF IInv, FramesExact
  <2>7. LivesExact'
    BY <2>1, RunningFacts DEF IInv, LivesExact, Running
  <2> QED BY <2>3, <2>4, <2>5, <2>6, <2>7 DEF IInv
<1>2. CASE count[s] = 0 /\ Block(p, s) /\ UNCHANGED count
  BY <1>2, BlockStep
<1> QED BY <1>1, <1>2 DEF SemDown

\* A process that is neither ready, blocked nor running becomes ready.
LEMMA ReadyFacts ==
    ASSUME TypeOK, ReadyQueueExact, NEW w \in Proc, state[w] # "READY",
           readyQueue' = Append(readyQueue, w),
           state' = [state EXCEPT ![w] = "READY"]
    PROVE  ReadyQueueExact' /\ readyQueue' \in Seq(Proc) /\ state' \in [AllProc -> States]
<1> USE ProcFacts
<1>1. readyQueue \in Seq(Proc) /\ w \notin Range(readyQueue) /\ IsInjective(readyQueue)
  BY DEF TypeOK, ReadyQueueExact
<1>2. /\ readyQueue' \in Seq(Proc) /\ IsInjective(readyQueue')
      /\ Range(readyQueue') = Range(readyQueue) \cup {w}
  BY <1>1, AppendFacts
<1>3. state' \in [AllProc -> States] /\ state'[w] = "READY"
      /\ \A r \in AllProc : r # w => state'[r] = state[r]
  BY DEF TypeOK, States
<1>4. \A r \in Proc : state'[r] = "READY" <=> r \in Range(readyQueue')
  BY <1>2, <1>3 DEF ReadyQueueExact
<1> QED BY <1>2, <1>3, <1>4 DEF ReadyQueueExact

\* The oldest waiter leaves a queue.
LEMMA WakeFacts ==
    ASSUME TypeOK, BlockedExact, NEW q \in WaitQueue, waiting[q] # <<>>,
           waiting' = [waiting EXCEPT ![q] = Tail(@)],
           state' = [state EXCEPT ![Head(waiting[q])] = "READY"]
    PROVE  /\ Head(waiting[q]) \in Proc /\ state[Head(waiting[q])] = "BLOCKED"
           /\ waiting' \in [WaitQueue -> Seq(Proc)]
           /\ BlockedExact'
           /\ \A r \in WaitQueue : r # q => waiting'[r] = waiting[r]
<1> DEFINE w == Head(waiting[q])
<1> USE ProcFacts
<1>1. waiting \in [WaitQueue -> Seq(Proc)] BY DEF TypeOK
<1>2. /\ Tail(waiting[q]) \in Seq(Proc) /\ w \in Proc
      /\ Range(waiting[q]) = Range(Tail(waiting[q])) \cup {w}
      /\ IsInjective(Tail(waiting[q])) /\ w \notin Range(Tail(waiting[q]))
  BY <1>1, TailFacts DEF BlockedExact
<1>3. state[w] = "BLOCKED" BY <1>2 DEF BlockedExact
<1>4. /\ waiting' \in [WaitQueue -> Seq(Proc)]
      /\ waiting'[q] = Tail(waiting[q])
      /\ \A r \in WaitQueue : r # q => waiting'[r] = waiting[r]
  BY <1>1, <1>2
<1>5. \A r \in WaitQueue : Range(waiting'[r]) = IF r = q THEN Range(waiting[q]) \ {w}
                                                ELSE Range(waiting[r])
  BY <1>2, <1>4
<1>6. \A r \in WaitQueue : IsInjective(waiting'[r])
  BY <1>2, <1>4 DEF BlockedExact
<1>7. \A r \in WaitQueue : r # q => w \notin Range(waiting[r])
  BY <1>2 DEF BlockedExact
<1>8. \A r \in Proc : state'[r] = "BLOCKED" <=> state[r] = "BLOCKED" /\ r # w
  BY <1>2 DEF TypeOK
<1>9. \A r \in Proc : state'[r] = "BLOCKED" <=> \E t \in WaitQueue : r \in Range(waiting'[t])
  BY <1>5, <1>7, <1>8 DEF BlockedExact
<1>10. \A r, t \in WaitQueue : r # t => Range(waiting'[r]) \cap Range(waiting'[t]) = {}
  BY <1>5 DEF BlockedExact
<1> QED BY <1>2, <1>3, <1>4, <1>6, <1>9, <1>10 DEF BlockedExact

\* Semaphore::up by a running process, which may be joining or exiting.
LEMMA UpStep ==
    ASSUME IInv, NEW p \in Proc, Running(p), NEW s \in Sem, SemUp(s),
           isKilled' = isKilled, reaperQueue' = reaperQueue,
           phase' \in [AllProc -> Phases],
           joining' \in [AllProc -> Proc \cup {NoProc}],
           \A r \in AllProc : r # p => phase'[r] = phase[r] /\ joining'[r] = joining[r],
           isKilled[p] => phase'[p] # "body",
           phase'[p] # "body" => joining'[p] = NoProc
    PROVE  IInv'
<1> DEFINE w == Head(waiting[s])
<1> USE ProcFacts
<1>1. /\ current' = current /\ disableCount' = disableCount /\ frame' = frame
      /\ iDepth' = iDepth /\ jiffies' = jiffies /\ intrFlag' = intrFlag
      /\ inService' = inService /\ panicked' = panicked
  BY DEF SemUp, cpuVars
<1>2. InterruptFlagExact' /\ PanicsExplained' /\ OneInterrupted'
  BY <1>1, RunningFacts DEF IInv, InterruptFlagExact, PanicsExplained, OneInterrupted
<1>3. frame[p] = "none" /\ state[p] = "RUNNING"
  BY RunningFacts DEF Running
<1>4. CASE waiting[s] = <<>>
  <2>1. /\ count' = [count EXCEPT ![s] = @ + 1] /\ waiting' = waiting
        /\ state' = state /\ readyQueue' = readyQueue
    BY <1>4 DEF SemUp, Release
  <2>2. count' \in [Sem -> Nat]
    <3>1. count \in [Sem -> Nat] /\ count[s] + 1 \in Nat BY DEF IInv, TypeOK
    <3> QED BY <2>1, <3>1
  <2>3. TypeOK' BY <1>1, <2>1, <2>2 DEF IInv, TypeOK
  <2>4. PermitsOrWaiters'
    BY <1>4, <2>1 DEF IInv, PermitsOrWaiters, TypeOK
  <2>5. ReadyQueueExact' /\ BlockedExact' /\ CurrentRunning' /\ TimersAhead' /\ ReaperSafe'
    BY <1>1, <2>1 DEF IInv, ReadyQueueExact, BlockedExact, CurrentRunning, TimersAhead,
                      ReaperSafe
  <2>6. FramesExact' BY <1>1, <2>1 DEF IInv, FramesExact
  <2>7. LivesExact' BY <1>1, <1>3, <2>1 DEF IInv, LivesExact
  <2> QED BY <1>2, <2>3, <2>4, <2>5, <2>6, <2>7 DEF IInv
<1>5. CASE waiting[s] # <<>>
  <2>1. /\ waiting' = [waiting EXCEPT ![s] = Tail(@)]
        /\ state' = [state EXCEPT ![w] = "READY"]
        /\ readyQueue' = Append(readyQueue, w)
        /\ count' = count
    BY <1>5 DEF SemUp, Release
  <2>2. /\ w \in Proc /\ state[w] = "BLOCKED"
        /\ waiting' \in [WaitQueue -> Seq(Proc)] /\ BlockedExact'
        /\ \A r \in WaitQueue : r # s => waiting'[r] = waiting[r]
    BY <1>5, <2>1, WakeFacts DEF IInv
  <2>3. ReadyQueueExact' /\ readyQueue' \in Seq(Proc) /\ state' \in [AllProc -> States]
    BY <2>1, <2>2, ReadyFacts DEF IInv
  <2>4. state'[w] = "READY" /\ w # p /\ \A r \in AllProc : r # w => state'[r] = state[r]
    BY <1>3, <2>1, <2>2 DEF IInv, TypeOK
  <2>5. TypeOK' BY <1>1, <2>1, <2>2, <2>3 DEF IInv, TypeOK
  <2>6. PermitsOrWaiters'
    BY <1>5, <2>1, <2>2 DEF IInv, PermitsOrWaiters
  <2>7. CurrentRunning' BY <1>1, <2>2, <2>4 DEF IInv, CurrentRunning
  <2>8. TimersAhead' BY <1>1, <2>2 DEF IInv, TimersAhead
  <2>9. ReaperSafe' BY <2>2, <2>4, ReapedFacts DEF IInv, ReaperSafe
  <2>10. frame[w] = "block" BY <2>2 DEF IInv, LivesExact
  <2>11. FramesExact' BY <1>1, <2>2, <2>4, <2>10 DEF IInv, FramesExact
  <2>12. LivesExact' BY <1>1, <1>3, <2>2, <2>4, <2>10 DEF IInv, LivesExact
  <2> QED BY <1>2, <2>2, <2>3, <2>5, <2>6, <2>7, <2>8, <2>9, <2>11, <2>12 DEF IInv
<1> QED BY <1>4, <1>5

\* start() of a new process.
LEMMA StartStep ==
    ASSUME IInv, NEW p \in Proc, NEW child \in Proc, Start(p, child)
    PROVE  IInv'
<1> USE ProcFacts
<1>1. /\ current' = current /\ disableCount' = disableCount /\ frame' = frame
      /\ iDepth' = iDepth /\ jiffies' = jiffies /\ intrFlag' = intrFlag
      /\ inService' = inService /\ panicked' = panicked
      /\ isKilled' = isKilled /\ phase' = phase /\ joining' = joining
      /\ reaperQueue' = reaperQueue /\ count' = count /\ waiting' = waiting
      /\ state[child] = "NEW" /\ state' = [state EXCEPT ![child] = "READY"]
      /\ readyQueue' = Append(readyQueue, child) /\ ~panicked
  BY DEF Start, InBody, Running, cpuVars, lifeVars
<1>2. ReadyQueueExact' /\ readyQueue' \in Seq(Proc) /\ state' \in [AllProc -> States]
  BY <1>1, ReadyFacts DEF IInv
<1>3. state'[child] = "READY" /\ \A r \in AllProc : r # child => state'[r] = state[r]
  BY <1>1 DEF IInv, TypeOK
<1>4. TypeOK' BY <1>1, <1>2 DEF IInv, TypeOK
<1>5. BlockedExact'
  <2>1. \A r \in Proc : state'[r] = "BLOCKED" <=> state[r] = "BLOCKED" BY <1>1, <1>3
  <2> QED BY <1>1, <2>1 DEF IInv, BlockedExact
<1>6. CurrentRunning' /\ PermitsOrWaiters' /\ InterruptFlagExact' /\ PanicsExplained' /\ TimersAhead'
      /\ OneInterrupted'
  BY <1>1, <1>3 DEF IInv, CurrentRunning, PermitsOrWaiters, InterruptFlagExact, PanicsExplained,
                    TimersAhead, OneInterrupted
<1>7. ReaperSafe' BY <1>1, <1>3, ReapedFacts DEF IInv, ReaperSafe
<1>8. frame[child] = "entry" BY <1>1 DEF IInv, LivesExact
<1>9. FramesExact' BY <1>1, <1>3, <1>8 DEF IInv, FramesExact
<1>10. LivesExact' BY <1>1, <1>3, <1>8 DEF IInv, LivesExact
<1> QED BY <1>2, <1>4, <1>5, <1>6, <1>7, <1>9, <1>10 DEF IInv

\* yield() called by a process in its own code.
LEMMA YieldStep ==
    ASSUME IInv, NEW p \in Proc, Yield(p)
    PROVE  IInv'
<1> DEFINE rq == Append(readyQueue, p)
           st == [state EXCEPT ![p] = "READY"]
<1> USE ProcFacts
<1>1. /\ state[p] = "RUNNING" /\ disableCount[p] = 0 /\ iDepth[p] = 0 /\ frame[p] = "none"
      /\ \A r \in AllProc : state[r] = "RUNNING" => r = p
      /\ phase[p] = "body" /\ state[Idle] = "READY" /\ ~isKilled[p]
      /\ ~panicked /\ \A r \in AllProc : frame[r] \notin Handling
  BY RunningFacts DEF Yield, InBody, Running, IInv, LivesExact
<1>2. /\ SwitchTo(rq, st)
      /\ disableCount' = [disableCount EXCEPT ![p] = @ + 1]
      /\ frame' = [frame EXCEPT ![p] = "yield"]
      /\ isKilled' = isKilled /\ phase' = phase /\ joining' = joining
      /\ reaperQueue' = reaperQueue /\ iDepth' = iDepth /\ count' = count
      /\ waiting' = waiting /\ jiffies' = jiffies /\ inService' = inService
      /\ panicked' = panicked
  BY DEF Yield, lifeVars
<1>3. /\ disableCount' \in [AllProc -> Nat] /\ disableCount'[p] = 1
      /\ \A r \in AllProc : r # p => disableCount'[r] = disableCount[r]
      /\ frame' \in [AllProc -> Frames]
      /\ frame'[p] = "yield"
      /\ \A r \in AllProc : r # p => frame'[r] = frame[r]
  BY <1>1, <1>2 DEF IInv, TypeOK, Frames
<1>4. /\ rq \in Seq(Proc) /\ IsInjective(rq) /\ Range(rq) = Range(readyQueue) \cup {p}
  BY <1>1, AppendFacts DEF IInv, TypeOK, ReadyQueueExact
<1>5. /\ st \in [AllProc -> States] /\ st[Idle] = "READY" /\ st[p] = "READY"
      /\ \A r \in AllProc : r # p => st[r] = state[r]
      /\ \A r \in AllProc : st[r] # "RUNNING"
  BY <1>1 DEF IInv, TypeOK, States
<1>6. \A r \in Proc : st[r] = "READY" <=> r \in Range(rq)
  BY <1>4, <1>5 DEF IInv, ReadyQueueExact
<1>7. /\ current' \in AllProc /\ readyQueue' \in Seq(Proc)
      /\ state' \in [AllProc -> States] /\ intrFlag' \in BOOLEAN
      /\ st[current'] = "READY"
      /\ state' = [st EXCEPT ![current'] = "RUNNING"]
      /\ ReadyQueueExact' /\ CurrentRunning' /\ InterruptFlagExact'
  <2> HIDE DEF rq, st
  <2> QED BY <1>2, <1>3, <1>4, <1>5, <1>6, SwitchFacts
<1>8. /\ state'[p] \in {"READY", "RUNNING"}
      /\ state'[current'] = "RUNNING" /\ state[current'] \in {"READY", "RUNNING"}
      /\ \A r \in AllProc : r # p /\ r # current' => state'[r] = state[r]
  BY <1>1, <1>5, <1>7 DEF IInv, TypeOK
<1>9. TypeOK' BY <1>2, <1>3, <1>7 DEF IInv, TypeOK
<1>10. BlockedExact'
  <2>1. \A r \in Proc : state'[r] = "BLOCKED" <=> state[r] = "BLOCKED" BY <1>1, <1>8
  <2> QED BY <1>2, <2>1 DEF IInv, BlockedExact
<1>15. \A r \in AllProc : frame'[r] \notin Handling BY <1>1, <1>3 DEF Handling
<1>11. PermitsOrWaiters' /\ PanicsExplained' /\ TimersAhead' /\ OneInterrupted'
  BY <1>1, <1>2, <1>15 DEF IInv, PermitsOrWaiters, PanicsExplained, TimersAhead, OneInterrupted
<1>12. ReaperSafe'
  <2>1. \A r \in AllProc : state[r] = "TERMINATED" => state'[r] = "TERMINATED"
    BY <1>1, <1>8
  <2> QED BY <2>1, <1>2, ReapedFacts DEF IInv, ReaperSafe
<1>13. FramesExact'
  <2>1. ASSUME NEW r \in AllProc, r # p, state'[r] # "TERMINATED"
        PROVE  frame[r] # "none"
    BY <2>1, <1>8 DEF IInv, FramesExact, Yield, InBody, Running
  <2>2. iDepth'[p] = 0 /\ iDepth' = iDepth /\ isKilled' = isKilled BY <1>1, <1>2
  <2> QED BY <2>1, <2>2, <1>3, <1>15 DEF IInv, FramesExact
<1>14. LivesExact'
  BY <1>1, <1>2, <1>3, <1>8 DEF IInv, LivesExact
<1> QED BY <1>7, <1>9, <1>10, <1>11, <1>12, <1>13, <1>14 DEF IInv

\* kernelMain's yield, before there is a current process.
LEMMA BootStep ==
    ASSUME IInv, Boot
    PROVE  IInv'
<1> USE ProcFacts
<1>1. /\ SwitchTo(readyQueue, state) /\ current = NoProc
      /\ disableCount' = disableCount /\ frame' = frame
      /\ isKilled' = isKilled /\ phase' = phase /\ joining' = joining
      /\ reaperQueue' = reaperQueue /\ iDepth' = iDepth /\ count' = count
      /\ waiting' = waiting /\ jiffies' = jiffies /\ inService' = inService
      /\ panicked' = panicked /\ ~panicked
  BY DEF Boot, lifeVars
<1>2. \A r \in AllProc : state[r] # "RUNNING"
  BY <1>1 DEF IInv, CurrentRunning
<1>3. /\ state \in [AllProc -> States] /\ state[Idle] = "READY"
      /\ readyQueue \in Seq(Proc) /\ IsInjective(readyQueue)
      /\ \A r \in Proc : state[r] = "READY" <=> r \in Range(readyQueue)
      /\ disableCount' \in [AllProc -> Nat]
  BY <1>1, <1>2 DEF IInv, TypeOK, LivesExact, ReadyQueueExact
<1>4. /\ current' \in AllProc /\ readyQueue' \in Seq(Proc)
      /\ state' \in [AllProc -> States] /\ intrFlag' \in BOOLEAN
      /\ state[current'] = "READY"
      /\ state' = [state EXCEPT ![current'] = "RUNNING"]
      /\ ReadyQueueExact' /\ CurrentRunning' /\ InterruptFlagExact'
  BY <1>1, <1>2, <1>3, SwitchFacts
<1>5. /\ state'[current'] = "RUNNING"
      /\ \A r \in AllProc : r # current' => state'[r] = state[r]
  BY <1>3, <1>4
<1>6. TypeOK' BY <1>1, <1>4 DEF IInv, TypeOK
<1>7. BlockedExact'
  <2>1. \A r \in Proc : state'[r] = "BLOCKED" <=> state[r] = "BLOCKED" BY <1>4, <1>5
  <2> QED BY <1>1, <2>1 DEF IInv, BlockedExact
<1>8. PermitsOrWaiters' /\ PanicsExplained' /\ TimersAhead' /\ OneInterrupted'
  BY <1>1 DEF IInv, PermitsOrWaiters, PanicsExplained, TimersAhead, OneInterrupted
<1>9. ReaperSafe' BY <1>1, <1>4, <1>5, ReapedFacts DEF IInv, ReaperSafe
<1>10. FramesExact'
  <2>1. \A r \in AllProc : frame[r] = "none" => state[r] = "TERMINATED"
    BY <1>1 DEF IInv, FramesExact
  <2>2. \A r \in AllProc : state'[r] # "TERMINATED" => state[r] # "TERMINATED"
    BY <1>4, <1>5
  <2>3. \A r \in AllProc : frame[r] \notin Handling BY <1>1, HandlerFacts
  <2> QED BY <2>1, <2>2, <2>3, <1>1 DEF IInv, FramesExact
<1>11. LivesExact' BY <1>1, <1>4, <1>5 DEF IInv, LivesExact
<1> QED BY <1>4, <1>6, <1>7, <1>8, <1>9, <1>10, <1>11 DEF IInv

\* exit() switching away for good.
LEMMA ExitSwitchStep ==
    ASSUME IInv, NEW p \in Proc, ExitSwitch(p)
    PROVE  IInv'
<1> DEFINE st == [state EXCEPT ![p] = "TERMINATED"]
<1> USE ProcFacts
<1>1. /\ state[p] = "RUNNING" /\ frame[p] = "none" /\ phase[p] = "signalled"
      /\ \A r \in AllProc : state[r] = "RUNNING" => r = p
      /\ state[Idle] = "READY" /\ current = p
      /\ ~panicked /\ \A r \in AllProc : frame[r] \notin Handling
  BY RunningFacts DEF ExitSwitch, Running
<1>2. /\ SwitchTo(readyQueue, st)
      /\ reaperQueue' = Append(reaperQueue, p)
      /\ disableCount' = [disableCount EXCEPT ![p] = @ + 1]
      /\ frame' = frame /\ isKilled' = isKilled /\ phase' = phase /\ joining' = joining
      /\ iDepth' = iDepth /\ count' = count
      /\ waiting' = waiting /\ jiffies' = jiffies /\ inService' = inService
      /\ panicked' = panicked
  BY DEF ExitSwitch
<1>3. /\ disableCount' \in [AllProc -> Nat]
      /\ \A r \in AllProc : r # p => disableCount'[r] = disableCount[r]
  BY <1>1, <1>2 DEF IInv, TypeOK
<1>4. /\ st \in [AllProc -> States] /\ readyQueue \in Seq(Proc)
      /\ IsInjective(readyQueue)
      /\ \A r \in Proc : st[r] = "READY" <=> r \in Range(readyQueue)
      /\ st[Idle] = "READY"
      /\ \A r \in AllProc : st[r] # "RUNNING"
  BY <1>1 DEF IInv, TypeOK, States, ReadyQueueExact
<1>5. /\ current' \in AllProc /\ readyQueue' \in Seq(Proc)
      /\ state' \in [AllProc -> States] /\ intrFlag' \in BOOLEAN
      /\ st[current'] = "READY"
      /\ state' = [st EXCEPT ![current'] = "RUNNING"]
      /\ ReadyQueueExact' /\ CurrentRunning' /\ InterruptFlagExact'
  <2> HIDE DEF st
  <2> QED BY <1>2, <1>3, <1>4, SwitchFacts
<1>6. /\ state'[p] = "TERMINATED" /\ current' # p
      /\ state[current'] = "READY" /\ state'[current'] = "RUNNING"
      /\ \A r \in AllProc : r # p /\ r # current' => state'[r] = state[r]
  BY <1>1, <1>5 DEF IInv, TypeOK
<1>7. /\ reaperQueue' \in Seq(Proc) /\ IsInjective(reaperQueue')
      /\ Range(reaperQueue') = Range(reaperQueue) \cup {p}
  <2>1. reaperQueue \in Seq(Proc) /\ IsInjective(reaperQueue) /\ p \notin Range(reaperQueue)
    BY <1>1, ReapedFacts DEF IInv, TypeOK, ReaperSafe
  <2> QED BY <2>1, <1>2, AppendFacts
<1>8. TypeOK' BY <1>2, <1>3, <1>5, <1>7 DEF IInv, TypeOK
<1>9. BlockedExact'
  <2>1. \A r \in Proc : state'[r] = "BLOCKED" <=> state[r] = "BLOCKED" BY <1>1, <1>6
  <2> QED BY <1>2, <2>1 DEF IInv, BlockedExact
<1>10. PermitsOrWaiters' /\ PanicsExplained' /\ TimersAhead' /\ OneInterrupted'
  BY <1>1, <1>2 DEF IInv, PermitsOrWaiters, PanicsExplained, TimersAhead, OneInterrupted
<1>11. ReaperSafe' BY <1>6, <1>7, ReapedFacts DEF ReaperSafe
<1>12. FramesExact'
  <2>1. ASSUME NEW r \in AllProc, r # p, state'[r] # "TERMINATED"
        PROVE  frame[r] # "none"
    BY <2>1, <1>1, <1>6 DEF IInv, FramesExact
  <2> QED BY <2>1, <1>1, <1>2, <1>3, <1>6 DEF IInv, FramesExact
<1>13. LivesExact'
  BY <1>1, <1>2, <1>6 DEF IInv, LivesExact
<1> QED BY <1>5, <1>8, <1>9, <1>10, <1>11, <1>12, <1>13 DEF IInv

\* The clock counts up by one and wraps at its width.
LEMMA ClockFacts ==
    ASSUME NEW m \in Nat \ {0}, NEW j \in 0 .. m - 1
    PROVE  (j + 1) % m = IF j + 1 = m THEN 0 ELSE j + 1
<1>1. CASE j + 1 = m BY <1>1
<1>2. CASE j + 1 # m BY <1>2
<1> QED BY <1>1, <1>2

\* The timer that is due empties its queue: who waited there is blocked no more.
LEMMA DueFacts ==
    ASSUME TypeOK, BlockedExact, NEW now \in Ticks, NEW woken,
           woken \in {<<>>, waiting[now]},
           waiting' = [waiting EXCEPT ![now] = IF woken = <<>> THEN @ ELSE <<>>],
           \A r \in Proc : state'[r] = "BLOCKED" <=>
                           state[r] = "BLOCKED" /\ r \notin Range(woken)
    PROVE  /\ waiting' \in [WaitQueue -> Seq(Proc)]
           /\ BlockedExact'
           /\ woken \in Seq(Proc) /\ IsInjective(woken)
           /\ \A r \in Range(woken) : r \in Proc /\ state[r] = "BLOCKED"
           /\ \A q \in WaitQueue : waiting'[q] \in {<<>>, waiting[q]}
           /\ \A q \in WaitQueue : q # now => waiting'[q] = waiting[q]
<1> USE ProcFacts, EmptyFacts
<1>1. waiting \in [WaitQueue -> Seq(Proc)] /\ <<>> \in Seq(Proc) BY EmptySeq DEF TypeOK
<1>2. woken \in Seq(Proc) /\ IsInjective(woken)
  <2>1. CASE woken = <<>> BY <2>1, <1>1
  <2>2. CASE woken = waiting[now]
    <3>1. now \in WaitQueue OBVIOUS
    <3>2. IsInjective(waiting[now]) BY <3>1 DEF BlockedExact
    <3> QED BY <2>2, <3>1, <3>2, <1>1
  <2> QED BY <2>1, <2>2
<1>3. Range(woken) \subseteq Range(waiting[now]) BY <1>1
<1>4. Range(woken) \subseteq Proc BY <1>2, RangeOfSeq
<1>5. \A r \in Range(woken) : r \in Proc /\ state[r] = "BLOCKED"
  BY <1>3, <1>4 DEF BlockedExact
<1>6. /\ waiting' \in [WaitQueue -> Seq(Proc)]
      /\ waiting'[now] = IF woken = <<>> THEN waiting[now] ELSE <<>>
      /\ \A q \in WaitQueue : q # now => waiting'[q] = waiting[q]
  BY <1>1
<1>7. \A q \in WaitQueue : Range(waiting'[q]) = IF q = now THEN Range(waiting[q]) \ Range(woken)
                                                ELSE Range(waiting[q])
  BY <1>6
<1>8. \A q \in WaitQueue : IsInjective(waiting'[q]) BY <1>6 DEF BlockedExact
<1>9. \A q \in WaitQueue : q # now => Range(waiting[q]) \cap Range(woken) = {}
  BY <1>3 DEF BlockedExact
<1>10. \A r \in Proc : state'[r] = "BLOCKED" <=> \E q \in WaitQueue : r \in Range(waiting'[q])
  <2>1. ASSUME NEW r \in Proc, state'[r] = "BLOCKED"
        PROVE  \E q \in WaitQueue : r \in Range(waiting'[q])
    <3>1. state[r] = "BLOCKED" /\ r \notin Range(woken) BY <2>1
    <3>2. PICK q \in WaitQueue : r \in Range(waiting[q]) BY <3>1 DEF BlockedExact
    <3> QED BY <3>1, <3>2, <1>7
  <2>2. ASSUME NEW r \in Proc, NEW q \in WaitQueue, r \in Range(waiting'[q])
        PROVE  state'[r] = "BLOCKED"
    <3>1. r \in Range(waiting[q]) /\ r \notin Range(woken) BY <2>2, <1>7, <1>9
    <3>2. state[r] = "BLOCKED" BY <3>1 DEF BlockedExact
    <3> QED BY <3>1, <3>2
  <2> QED BY <2>1, <2>2
<1>11. \A q, r \in WaitQueue : q # r => Range(waiting'[q]) \cap Range(waiting'[r]) = {}
  BY <1>7 DEF BlockedExact
<1>12. \A q \in WaitQueue : waiting'[q] \in {<<>>, waiting[q]} BY <1>6
<1> QED BY <1>2, <1>5, <1>6, <1>8, <1>10, <1>11, <1>12 DEF BlockedExact

\* The timer interrupt, in a process or in the idle loop.
LEMMA TickStep ==
    ASSUME IInv, NEW p \in AllProc, Tick(p)
    PROVE  IInv'
<1> DEFINE now == (jiffies + 1) % JiffyMod
           first == \A t \in Ticks : t < now => waiting[t] = <<>>
           woken == IF first THEN waiting[now] ELSE <<>>
           self == IF p = Idle THEN <<>> ELSE <<p>>
           rq == (readyQueue \o woken) \o self
           st == [q \in AllProc |-> IF q = p \/ q \in Range(woken)
                                    THEN "READY" ELSE state[q]]
<1> USE ProcFacts
<1>1. /\ state[p] = "RUNNING" /\ disableCount[p] = 0 /\ iDepth[p] = 0 /\ frame[p] = "none"
      /\ \A r \in AllProc : state[r] = "RUNNING" => r = p
      /\ current = p /\ \A r \in AllProc : frame[r] \notin Handling
  <2>1. disableCount[p] = 0 BY DEF Tick, Running, IInv, InterruptFlagExact
  <2> QED BY <2>1, RunningFacts DEF Tick, Running
<1>2. /\ jiffies' = now
      /\ waiting' = [waiting EXCEPT ![now] = IF first THEN <<>> ELSE @]
      /\ disableCount' = [disableCount EXCEPT ![p] = 2]
      /\ SwitchTo(rq, st)
      /\ iDepth' = [iDepth EXCEPT ![p] = @ + 1]
      /\ frame' = [frame EXCEPT ![p] = "irq"]
      /\ inService' = TRUE /\ ~inService
      /\ panicked' = (disableCount[p] # 0)
      /\ isKilled' = isKilled /\ phase' = phase /\ joining' = joining
      /\ reaperQueue' = reaperQueue /\ count' = count
  BY DEF Tick, lifeVars
<1>3. /\ now \in Ticks /\ jiffies \in Ticks
      /\ now = IF jiffies + 1 = JiffyMod THEN 0 ELSE jiffies + 1
  <2>1. JiffyMod \in Nat \ {0} /\ jiffies \in 0 .. JiffyMod - 1
    BY TickAssumption DEF IInv, TypeOK, Ticks
  <2>2. now = IF jiffies + 1 = JiffyMod THEN 0 ELSE jiffies + 1
    BY <2>1, ClockFacts
  <2> HIDE DEF now
  <2> QED BY <2>1, <2>2 DEF Ticks
<1>4. waiting' = [waiting EXCEPT ![now] = IF woken = <<>> THEN @ ELSE <<>>]
  <2>1. CASE first
    <3>1. waiting' = [waiting EXCEPT ![now] = <<>>] BY <1>2, <2>1
    <3>2. woken = waiting[now] BY <2>1
    <3> HIDE DEF now, first, woken
    <3> QED BY <3>1, <3>2
  <2>2. CASE ~first
    <3>1. waiting' = [waiting EXCEPT ![now] = @] BY <1>2, <2>2
    <3>2. woken = <<>> BY <2>2
    <3> HIDE DEF now, first, woken
    <3> QED BY <3>1, <3>2
  <2> QED BY <2>1, <2>2
<1>5. woken \in {<<>>, waiting[now]} OBVIOUS
<1>6. /\ woken \in Seq(Proc) /\ IsInjective(woken)
      /\ \A r \in Range(woken) : r \in Proc /\ state[r] = "BLOCKED"
  <2>1. waiting[now] \in Seq(Proc) /\ IsInjective(waiting[now])
    BY <1>3 DEF IInv, TypeOK, BlockedExact
  <2>2. \A r \in Range(waiting[now]) : r \in Proc /\ state[r] = "BLOCKED"
    BY <2>1, <1>3, RangeOfSeq DEF IInv, BlockedExact
  <2> HIDE DEF now, woken
  <2> QED BY <1>5, <2>1, <2>2, EmptyFacts, EmptySeq
<1>7. /\ self \in Seq(Proc) /\ IsInjective(self)
      /\ \A r \in Proc : r \in Range(self) <=> r = p
  <2>1. CASE p = Idle BY <2>1, EmptyFacts, EmptySeq
  <2>2. CASE p # Idle
    <3>1. p \in Proc /\ self = <<p>> BY <2>2 DEF AllProc
    <3> QED BY <3>1, SingleFacts
  <2> QED BY <2>1, <2>2
<1>8. /\ rq \in Seq(Proc) /\ IsInjective(rq)
      /\ Range(rq) = (Range(readyQueue) \cup Range(woken)) \cup Range(self)
  <2> HIDE DEF woken, self
  <2>1. /\ readyQueue \in Seq(Proc) /\ IsInjective(readyQueue)
        /\ \A r \in Range(readyQueue) : r \in Proc /\ state[r] = "READY"
    <3>1. readyQueue \in Seq(Proc) BY DEF IInv, TypeOK
    <3> QED BY <3>1, RangeOfSeq DEF IInv, ReadyQueueExact
  <2>2. /\ readyQueue \o woken \in Seq(Proc) /\ IsInjective(readyQueue \o woken)
        /\ Range(readyQueue \o woken) = Range(readyQueue) \cup Range(woken)
    <3>1. Range(readyQueue) \cap Range(woken) = {} BY <2>1, <1>6
    <3> QED BY <2>1, <1>6, <3>1, ConcatFacts
  <2>3. (Range(readyQueue) \cup Range(woken)) \cap Range(self) = {}
    BY <2>1, <1>1, <1>6, <1>7
  <2> DEFINE both == readyQueue \o woken
  <2>4. both \in Seq(Proc) /\ IsInjective(both) /\ Range(both) \cap Range(self) = {}
    BY <2>2, <2>3
  <2>5. rq = both \o self /\ Range(both) = Range(readyQueue) \cup Range(woken)
    BY <2>2
  <2> HIDE DEF both, rq
  <2>6. self \in Seq(Proc) /\ IsInjective(self) BY <1>7
  <2>7. /\ both \o self \in Seq(Proc) /\ IsInjective(both \o self)
        /\ Range(both \o self) = Range(both) \cup Range(self)
    BY <2>4, <2>6, ConcatFacts
  <2> QED BY <2>5, <2>7
<1>9. /\ st \in [AllProc -> States] /\ st[p] = "READY"
      /\ \A r \in Range(woken) : st[r] = "READY"
      /\ \A r \in AllProc : r # p /\ r \notin Range(woken) => st[r] = state[r]
  <2> HIDE DEF woken
  <2> QED BY <1>6 DEF IInv, TypeOK, States
<1>10. /\ \A r \in Proc : st[r] = "READY" <=> r \in Range(rq)
       /\ st[Idle] = "READY" /\ \A r \in AllProc : st[r] # "RUNNING"
  <2> HIDE DEF woken, self, rq, st
  <2>1. \A r \in Proc : st[r] = "READY" <=> r \in Range(rq)
    BY <1>1, <1>6, <1>7, <1>8, <1>9 DEF IInv, ReadyQueueExact
  <2>2. st[Idle] = "READY"
    BY <1>1, <1>6, <1>9 DEF IInv, LivesExact
  <2>3. \A r \in AllProc : st[r] # "RUNNING" BY <1>1, <1>9
  <2> QED BY <2>1, <2>2, <2>3
<1>11. /\ disableCount' \in [AllProc -> Nat] /\ disableCount'[p] = 2
       /\ \A r \in AllProc : r # p => disableCount'[r] = disableCount[r]
       /\ frame' \in [AllProc -> Frames]
       /\ frame'[p] = "irq"
       /\ \A r \in AllProc : r # p => frame'[r] = frame[r]
       /\ iDepth' \in [AllProc -> Nat] /\ iDepth'[p] = 1
       /\ \A r \in AllProc : r # p => iDepth'[r] = iDepth[r]
  <2> HIDE DEF now, first, woken, self, rq, st
  <2> QED BY <1>1, <1>2 DEF IInv, TypeOK, Frames
<1> HIDE DEF now, first, woken, self, rq, st
<1>12. /\ current' \in AllProc /\ readyQueue' \in Seq(Proc)
       /\ state' \in [AllProc -> States] /\ intrFlag' \in BOOLEAN
       /\ st[current'] = "READY"
       /\ state' = [st EXCEPT ![current'] = "RUNNING"]
       /\ ReadyQueueExact' /\ CurrentRunning' /\ InterruptFlagExact'
  BY <1>2, <1>8, <1>9, <1>10, <1>11, SwitchFacts
<1>13. /\ state'[p] \in {"READY", "RUNNING"}
       /\ \A r \in Range(woken) : state'[r] \in {"READY", "RUNNING"} /\ r # p
       /\ \A r \in AllProc : r # p /\ r \notin Range(woken) =>
             state'[r] = state[r] \/ (state[r] = "READY" /\ state'[r] = "RUNNING")
  BY <1>1, <1>6, <1>9, <1>12
<1>14. /\ waiting' \in [WaitQueue -> Seq(Proc)] /\ BlockedExact'
       /\ \A q \in WaitQueue : waiting'[q] \in {<<>>, waiting[q]}
       /\ \A q \in WaitQueue : q # now => waiting'[q] = waiting[q]
  <2>1. \A r \in Proc : state'[r] = "BLOCKED" <=>
                        state[r] = "BLOCKED" /\ r \notin Range(woken)
    BY <1>1, <1>13
  <2> QED BY <2>1, <1>3, <1>4, <1>5, DueFacts DEF IInv
<1>15. TypeOK'
  BY <1>1, <1>2, <1>3, <1>11, <1>12, <1>14 DEF IInv, TypeOK
<1>16. PermitsOrWaiters'
  BY <1>2, <1>14 DEF IInv, PermitsOrWaiters
<1>17. PanicsExplained'
  <2>1. panicked' = FALSE BY <1>1, <1>2
  <2> QED BY <2>1 DEF PanicsExplained
<1>18. TimersAhead'
  <2>1. \A t \in Ticks : waiting[t] # <<>> => t > jiffies BY DEF IInv, TimersAhead
  <2>2. ASSUME NEW t \in Ticks, t < now PROVE waiting[t] = <<>>
    BY <2>1, <2>2, <1>3 DEF Ticks
  <2>3. first BY <2>2 DEF first
  <2>4. waiting'[now] = <<>>
    BY <2>3, <1>2, <1>3 DEF IInv, TypeOK
  <2>5. ASSUME NEW t \in Ticks, waiting'[t] # <<>> PROVE t > now
    <3>1. t # now /\ waiting[t] # <<>> BY <2>4, <2>5, <1>14
    <3> QED BY <3>1, <2>2, <1>3 DEF Ticks
  <2> QED BY <2>5, <1>2 DEF TimersAhead
<1>19. OneInterrupted'
  <2>1. \A r \in AllProc : iDepth[r] = 0 BY <1>1, <1>2 DEF IInv, OneInterrupted
  <2>2. frame'[p] = "irq" /\ frame'[p] \notin Handling BY <1>11 DEF Handling
  <2> QED BY <2>1, <2>2, <1>2, <1>11 DEF OneInterrupted
<1>20. ReaperSafe'
  <2>1. \A r \in AllProc : state[r] = "TERMINATED" => state'[r] = "TERMINATED"
    BY <1>1, <1>6, <1>13
  <2> QED BY <2>1, <1>2, ReapedFacts DEF IInv, ReaperSafe
<1>21. FramesExact'
  <2>1. ASSUME NEW r \in AllProc, r # p, state'[r] # "TERMINATED"
        PROVE  frame[r] # "none"
    BY <2>1, <1>1, <1>6, <1>13 DEF IInv, FramesExact
  <2>2. isKilled' = isKilled BY <1>2
  <2>3. \A r \in AllProc : frame'[r] \notin Handling BY <1>1, <1>11 DEF Handling
  <2> QED BY <2>1, <2>2, <2>3, <1>11 DEF IInv, FramesExact
<1>22. LivesExact'
  <2>1. isKilled' = isKilled /\ phase' = phase /\ joining' = joining BY <1>2
  <2>2. state'[Idle] \in {"READY", "RUNNING"}
    BY <1>6, <1>13 DEF IInv, LivesExact
  <2>3. ASSUME NEW r \in AllProc
        PROVE  /\ state'[r] = "NEW" => r # p /\ state[r] = "NEW"
               /\ state'[r] = "BLOCKED" => r # p /\ state[r] = "BLOCKED"
               /\ state'[r] = "TERMINATED" => r # p /\ state[r] = "TERMINATED"
    BY <1>6, <1>13
  <2> QED BY <2>1, <2>2, <2>3, <1>11 DEF IInv, LivesExact
<1> QED BY <1>12, <1>14, <1>15, <1>16, <1>17, <1>18, <1>19, <1>20, <1>21, <1>22 DEF IInv

\* Going on after dispatch: the enable()s or the interrupt's end that the
\* frame stands for bring the counts to what the program had.
LEMMA ResumeStep ==
    ASSUME IInv, NEW p \in AllProc, Resume(p)
    PROVE  IInv'
<1> USE ProcFacts
<1>1. /\ current = p /\ frame[p] # "none" /\ state[p] = "RUNNING"
      /\ state' = state /\ current' = current /\ readyQueue' = readyQueue
      /\ isKilled' = isKilled /\ joining' = joining
      /\ count' = count /\ waiting' = waiting /\ jiffies' = jiffies
      /\ reaperQueue' = <<>> /\ frame' = [frame EXCEPT ![p] = "none"]
      /\ frame[p] \notin Handling /\ ~panicked
  BY DEF Resume, Entry, ReturnFromYield, ReturnFromIrq, ReturnKilled, Resuming,
         IInv, CurrentRunning, Handling
<1>9. /\ \A r \in AllProc : frame[r] \notin Handling
      /\ \A r \in AllProc : frame'[r] \notin Handling
  <2>1. \A r \in AllProc : frame[r] \notin Handling BY <1>1, HandlerFacts
  <2>2. frame \in [AllProc -> Frames] BY DEF IInv, TypeOK
  <2> QED BY <1>1, <2>1, <2>2 DEF Handling
<1>2. ReadyQueueExact' /\ BlockedExact' /\ CurrentRunning' /\ PermitsOrWaiters' /\ TimersAhead'
  BY <1>1 DEF IInv, ReadyQueueExact, BlockedExact, CurrentRunning, PermitsOrWaiters,
              TimersAhead
<1>3. ReaperSafe' BY <1>1, EmptyFacts DEF ReaperSafe
<1>4. /\ frame' \in [AllProc -> Frames]
      /\ frame'[p] = "none" /\ \A r \in AllProc : r # p => frame'[r] = frame[r]
      /\ reaperQueue' \in Seq(Proc)
  BY <1>1, EmptySeq DEF IInv, TypeOK, Frames
<1>5. CASE Entry(p)
  <2>1. /\ disableCount' = disableCount /\ iDepth' = iDepth /\ phase' = phase
        /\ intrFlag' = intrFlag /\ inService' = inService /\ panicked' = panicked
        /\ frame[p] = "entry"
    BY <1>5 DEF Entry, cpuVars
  <2>2. TypeOK' BY <1>1, <1>4, <2>1 DEF IInv, TypeOK
  <2>3. InterruptFlagExact' /\ PanicsExplained' /\ OneInterrupted'
    BY <1>1, <1>9, <2>1 DEF IInv, InterruptFlagExact, PanicsExplained, OneInterrupted
  <2>4. FramesExact' BY <1>1, <1>9, <1>4, <2>1 DEF IInv, FramesExact
  <2>5. LivesExact' BY <1>1, <1>4, <2>1 DEF IInv, LivesExact
  <2> QED BY <1>2, <1>3, <2>2, <2>3, <2>4, <2>5 DEF IInv
<1>6. CASE ReturnFromYield(p)
  <2>1. /\ disableCount[p] = (IF frame[p] = "yield" THEN 1 ELSE 2) /\ iDepth[p] = 0
        /\ frame[p] \in {"yield", "block"}
    BY <1>6 DEF ReturnFromYield, IInv, FramesExact
  <2>2. /\ disableCount' = [disableCount EXCEPT
                              ![p] = @ - (IF frame[p] = "yield" THEN 1 ELSE 2)]
        /\ intrFlag' = (disableCount[p] = (IF frame[p] = "yield" THEN 1 ELSE 2))
        /\ panicked' = (disableCount[p] < (IF frame[p] = "yield" THEN 1 ELSE 2))
        /\ iDepth' = iDepth /\ phase' = phase /\ inService' = inService
    BY <1>6 DEF ReturnFromYield
  <2>3. /\ disableCount' \in [AllProc -> Nat] /\ disableCount'[p] = 0
        /\ \A r \in AllProc : r # p => disableCount'[r] = disableCount[r]
        /\ intrFlag' = TRUE /\ panicked' = FALSE
    <3> DEFINE n == IF frame[p] = "yield" THEN 1 ELSE 2
    <3>1. disableCount \in [AllProc -> Nat] BY DEF IInv, TypeOK
    <3>2. n \in Nat /\ disableCount[p] = n BY <2>1
    <3>3. /\ disableCount' = [disableCount EXCEPT ![p] = disableCount[p] - n]
          /\ intrFlag' = (disableCount[p] = n) /\ panicked' = (disableCount[p] < n)
      BY <2>2
    <3> HIDE DEF n
    <3>4. disableCount[p] - n = 0 BY <3>2
    <3>5. disableCount' = [disableCount EXCEPT ![p] = 0] BY <3>3, <3>4
    <3>6. /\ disableCount' \in [AllProc -> Nat] /\ disableCount'[p] = 0
          /\ \A r \in AllProc : r # p => disableCount'[r] = disableCount[r]
      BY <3>1, <3>5
    <3>7. intrFlag' = TRUE BY <3>2, <3>3
    <3>8. (disableCount[p] < n) = FALSE BY <3>2
    <3>9. panicked' = FALSE BY <3>3, <3>8
    <3> QED BY <3>6, <3>7, <3>9
  <2>4. TypeOK' BY <1>1, <1>4, <2>2, <2>3 DEF IInv, TypeOK
  <2>5. InterruptFlagExact' /\ PanicsExplained' /\ OneInterrupted'
    BY <1>1, <1>9, <2>2, <2>3 DEF IInv, InterruptFlagExact, PanicsExplained, OneInterrupted
  <2>6. FramesExact' BY <1>1, <1>9, <1>4, <2>1, <2>2, <2>3 DEF IInv, FramesExact
  <2>7. LivesExact' BY <1>1, <1>4, <2>2 DEF IInv, LivesExact
  <2> QED BY <1>2, <1>3, <2>4, <2>5, <2>6, <2>7 DEF IInv
<1>7. CASE ReturnFromIrq(p)
  <2>1. disableCount[p] = 2 /\ iDepth[p] = 1
    BY <1>7 DEF ReturnFromIrq, IInv, FramesExact
  <2>2. /\ disableCount' = [disableCount EXCEPT ![p] = 0]
        /\ iDepth' = [iDepth EXCEPT ![p] = @ - 1]
        /\ phase' = phase /\ inService' = FALSE /\ intrFlag' = TRUE
        /\ panicked' = (disableCount[p] # 2)
    BY <1>7 DEF ReturnFromIrq
  <2>3. /\ disableCount' \in [AllProc -> Nat] /\ disableCount'[p] = 0
        /\ \A r \in AllProc : r # p => disableCount'[r] = disableCount[r]
        /\ iDepth' \in [AllProc -> Nat] /\ iDepth'[p] = 0
        /\ \A r \in AllProc : r # p => iDepth'[r] = iDepth[r]
        /\ panicked' = FALSE
    <3>1. disableCount \in [AllProc -> Nat] /\ iDepth \in [AllProc -> Nat]
      BY DEF IInv, TypeOK
    <3>2. iDepth' = [iDepth EXCEPT ![p] = 0] BY <3>1, <2>1, <2>2
    <3>3. panicked' = FALSE BY <2>1, <2>2
    <3>4. disableCount' = [disableCount EXCEPT ![p] = 0] BY <2>2
    <3>5. /\ iDepth' \in [AllProc -> Nat] /\ iDepth'[p] = 0
          /\ \A r \in AllProc : r # p => iDepth'[r] = iDepth[r]
      BY <3>1, <3>2
    <3>6. /\ disableCount' \in [AllProc -> Nat] /\ disableCount'[p] = 0
          /\ \A r \in AllProc : r # p => disableCount'[r] = disableCount[r]
      BY <3>1, <3>4
    <3> QED BY <3>3, <3>5, <3>6
  <2>4. TypeOK' BY <1>1, <1>4, <2>2, <2>3 DEF IInv, TypeOK
  <2>5. InterruptFlagExact' /\ PanicsExplained'
    BY <1>1, <2>2, <2>3 DEF InterruptFlagExact, PanicsExplained
  <2>6. OneInterrupted'
    <3>1. \A r \in AllProc : r # p => iDepth[r] = 0
      BY <2>1 DEF IInv, OneInterrupted
    <3> QED BY <1>9, <3>1, <2>2, <2>3 DEF OneInterrupted
  <2>7. FramesExact' BY <1>1, <1>9, <1>4, <2>2, <2>3 DEF IInv, FramesExact
  <2>8. LivesExact' BY <1>1, <1>4, <2>2 DEF IInv, LivesExact
  <2> QED BY <1>2, <1>3, <2>4, <2>5, <2>6, <2>7, <2>8 DEF IInv
<1>8. CASE ReturnKilled(p)
  <2>1. /\ disableCount' = disableCount /\ iDepth' = iDepth
        /\ phase' = [phase EXCEPT ![p] = "exit"]
        /\ intrFlag' = intrFlag /\ inService' = inService /\ panicked' = panicked
        /\ isKilled[p]
    BY <1>8 DEF ReturnKilled, cpuVars
  <2>2. phase[p] # "body" /\ joining[p] = NoProc /\ frame[p] \in {"irq", "block"} /\ p # Idle
    BY <1>1, <2>1, <1>8 DEF ReturnKilled, Resuming, Handling, IInv, LivesExact
  <2>3. disableCount[p] = 0 => iDepth[p] = 0
    BY <2>2 DEF IInv, FramesExact
  <2>4. /\ phase' \in [AllProc -> Phases]
        /\ phase'[p] = "exit" /\ \A r \in AllProc : r # p => phase'[r] = phase[r]
    BY <2>1 DEF IInv, TypeOK, Phases
  <2>5. TypeOK' BY <1>1, <1>4, <2>1, <2>4 DEF IInv, TypeOK
  <2>6. InterruptFlagExact' /\ PanicsExplained' /\ OneInterrupted'
    BY <1>1, <1>9, <2>1 DEF IInv, InterruptFlagExact, PanicsExplained, OneInterrupted
  <2>7. FramesExact' BY <1>1, <1>9, <1>4, <2>1, <2>3 DEF IInv, FramesExact
  <2>8. LivesExact' BY <1>1, <1>4, <2>1, <2>2, <2>4 DEF IInv, LivesExact
  <2> QED BY <1>2, <1>3, <2>5, <2>6, <2>7, <2>8 DEF IInv
<1> QED BY <1>5, <1>6, <1>7, <1>8 DEF Resume

\* A key interrupts the running process, or the idle loop.
LEMMA KeyStep ==
    ASSUME IInv, NEW p \in AllProc, Key(p)
    PROVE  IInv'
<1> USE ProcFacts
<1>1. /\ state[p] = "RUNNING" /\ disableCount[p] = 0 /\ iDepth[p] = 0 /\ frame[p] = "none"
      /\ current = p /\ ~panicked /\ ~inService
      /\ \A r \in AllProc : frame[r] \notin Handling
  <2>1. disableCount[p] = 0 BY DEF Key, Running, IInv, InterruptFlagExact
  <2> QED BY <2>1, RunningFacts DEF Key, Running
<1>2. /\ state' = state /\ current' = current /\ readyQueue' = readyQueue
      /\ isKilled' = isKilled /\ phase' = phase /\ joining' = joining
      /\ reaperQueue' = reaperQueue /\ count' = count /\ waiting' = waiting
      /\ jiffies' = jiffies /\ inService' = inService /\ intrFlag' = FALSE
      /\ panicked' = FALSE
  BY <1>1 DEF Key, lifeVars
<1>3. /\ disableCount' \in [AllProc -> Nat] /\ disableCount'[p] = 1
      /\ iDepth' \in [AllProc -> Nat] /\ iDepth'[p] = 1
      /\ frame' \in [AllProc -> Frames] /\ frame'[p] = "slot"
      /\ \A r \in AllProc : r # p => /\ disableCount'[r] = disableCount[r]
                                     /\ iDepth'[r] = iDepth[r] /\ frame'[r] = frame[r]
  <2>1. /\ disableCount \in [AllProc -> Nat] /\ iDepth \in [AllProc -> Nat]
        /\ frame \in [AllProc -> Frames]
    BY DEF IInv, TypeOK
  <2>2. /\ disableCount' = [disableCount EXCEPT ![p] = 1]
        /\ iDepth' = [iDepth EXCEPT ![p] = 1]
        /\ frame' = [frame EXCEPT ![p] = "slot"]
    BY <1>1, <2>1 DEF Key
  <2>3. "slot" \in Frames BY DEF Frames, Handling
  <2> QED BY <2>1, <2>2, <2>3
<1>4. TypeOK' BY <1>2, <1>3 DEF IInv, TypeOK
<1>5. ReadyQueueExact' /\ BlockedExact' /\ CurrentRunning' /\ PermitsOrWaiters'
      /\ PanicsExplained' /\ TimersAhead' /\ ReaperSafe'
  BY <1>2 DEF IInv, ReadyQueueExact, BlockedExact, CurrentRunning, PermitsOrWaiters,
              PanicsExplained, TimersAhead, ReaperSafe
<1>6. InterruptFlagExact' BY <1>1, <1>2, <1>3 DEF InterruptFlagExact
<1>7. OneInterrupted'
  <2>1. \A r \in AllProc : iDepth[r] = 0 BY <1>1 DEF IInv, OneInterrupted
  <2>2. frame'[p] \in Handling BY <1>3 DEF Handling
  <2> QED BY <2>1, <2>2, <1>1, <1>2, <1>3 DEF OneInterrupted
<1>8. FramesExact'
  <2>1. /\ frame'[p] = "slot" /\ current' = p /\ isKilled' = isKilled BY <1>1, <1>2, <1>3
  <2> QED BY <2>1, <1>1, <1>2, <1>3 DEF IInv, FramesExact
<1>9. LivesExact'
  <2>1. frame'[p] \in Handling BY <1>3 DEF Handling
  <2> QED BY <2>1, <1>1, <1>2, <1>3 DEF IInv, LivesExact
<1> QED BY <1>4, <1>5, <1>6, <1>7, <1>8, <1>9 DEF IInv

\* A step of the handler from one of its places to another.
LEMMA HandlerStep ==
    ASSUME IInv, NEW p \in AllProc, NEW at \in Handling, NEW next \in Handling,
           Handler(p, at), frame' = [frame EXCEPT ![p] = next],
           UNCHANGED <<current, disableCount, iDepth, lifeVars, jiffies, cpuVars, panicked>>
    PROVE  /\ state[p] = "RUNNING" /\ frame' \in [AllProc -> Frames]
           /\ frame'[p] = next /\ \A r \in AllProc : r # p => frame'[r] = frame[r]
           /\ InterruptFlagExact' /\ PanicsExplained' /\ OneInterrupted'
<1>1. /\ current' = current /\ disableCount' = disableCount /\ iDepth' = iDepth
      /\ intrFlag' = intrFlag /\ inService' = inService /\ panicked' = panicked
      /\ ~panicked /\ current = p /\ frame[p] \in Handling
  BY DEF cpuVars, Handler
<1>2. state[p] = "RUNNING" BY <1>1 DEF IInv, CurrentRunning
<1>3. /\ frame' \in [AllProc -> Frames] /\ frame'[p] = next
      /\ \A r \in AllProc : r # p => frame'[r] = frame[r]
  <2>1. frame \in [AllProc -> Frames] /\ next \in Frames BY DEF IInv, TypeOK, Frames
  <2> QED BY <2>1
<1>4. InterruptFlagExact' /\ PanicsExplained'
  BY <1>1 DEF IInv, InterruptFlagExact, PanicsExplained
<1>5. OneInterrupted' BY <1>1, <1>3 DEF IInv, OneInterrupted
<1> QED BY <1>2, <1>3, <1>4, <1>5

\* A down() of put() takes a permit; where there is none it panics, inside the
\* interrupt.
LEMMA PutDownStep ==
    ASSUME IInv, NEW p \in AllProc, NEW at \in Handling, NEW next \in Handling,
           NEW s \in Sem, PutDown(p, at, s, next),
           (at = "slot" /\ s = KbdEmpty) \/ (at = "lock" /\ s = KbdMutex)
    PROVE  IInv'
<1> USE ProcFacts
<1>1. /\ isKilled' = isKilled /\ phase' = phase /\ joining' = joining
      /\ reaperQueue' = reaperQueue /\ Handler(p, at)
      /\ current = p /\ frame[p] = at /\ frame[p] \in Handling
  BY DEF PutDown, lifeVars, Handler
<1>2. CASE /\ count[s] # 0
           /\ count' = [count EXCEPT ![s] = @ - 1]
           /\ frame' = [frame EXCEPT ![p] = next]
           /\ UNCHANGED <<state, current, readyQueue, disableCount, iDepth, waiting,
                          jiffies, cpuVars, panicked>>
  <2>1. /\ state' = state /\ current' = current /\ readyQueue' = readyQueue
        /\ disableCount' = disableCount /\ intrFlag' = intrFlag
        /\ iDepth' = iDepth /\ waiting' = waiting /\ jiffies' = jiffies
        /\ inService' = inService /\ panicked' = panicked
    BY <1>2 DEF cpuVars
  <2>2. count' \in [Sem -> Nat] /\ \A r \in Sem : count'[r] > 0 => count[r] > 0
    <3>1. count \in [Sem -> Nat] /\ count[s] - 1 \in Nat /\ count[s] > 0
      <4>1. count \in [Sem -> Nat] BY DEF IInv, TypeOK
      <4>2. count[s] \in Nat /\ count[s] # 0 BY <4>1, <1>2
      <4> QED BY <4>1, <4>2
    <3>2. count' = [count EXCEPT ![s] = count[s] - 1] BY <1>2
    <3> QED BY <3>1, <3>2
  <2>3. /\ state[p] = "RUNNING" /\ frame' \in [AllProc -> Frames]
        /\ frame'[p] = next /\ \A r \in AllProc : r # p => frame'[r] = frame[r]
        /\ InterruptFlagExact' /\ PanicsExplained' /\ OneInterrupted'
    BY <1>1, <1>2, HandlerStep DEF lifeVars
  <2>4. TypeOK' BY <1>1, <2>1, <2>2, <2>3 DEF IInv, TypeOK
  <2>5. PermitsOrWaiters' BY <2>1, <2>2 DEF IInv, PermitsOrWaiters
  <2>6. ReadyQueueExact' /\ BlockedExact' /\ CurrentRunning' /\ TimersAhead' /\ ReaperSafe'
    BY <1>1, <2>1 DEF IInv, ReadyQueueExact, BlockedExact, CurrentRunning, TimersAhead,
                      ReaperSafe
  <2>7. FramesExact' BY <1>1, <2>1, <2>3 DEF IInv, FramesExact, Handling
  <2>8. LivesExact' BY <1>1, <2>1, <2>3 DEF IInv, LivesExact, Handling
  <2> QED BY <2>3, <2>4, <2>5, <2>6, <2>7, <2>8 DEF IInv
<1>3. CASE count[s] = 0 /\ Block(p, s) /\ count' = count
  <2>1. iDepth[p] = 1 BY <1>1 DEF IInv, FramesExact
  <2>2. /\ state' = state /\ current' = current /\ readyQueue' = readyQueue
        /\ disableCount' = disableCount /\ frame' = frame /\ intrFlag' = intrFlag
        /\ iDepth' = iDepth /\ waiting' = waiting /\ jiffies' = jiffies
        /\ inService' = inService /\ panicked' = TRUE
    BY <1>3, <2>1 DEF Block, switchVars
  <2>3. PanicsExplained'
    <3>1. (frame'[p] = "slot" /\ count'[KbdEmpty] = 0) \/ (frame'[p] = "lock" /\ count'[KbdMutex] = 0)
      BY <1>1, <1>3, <2>2
    <3> QED BY <3>1 DEF PanicsExplained, KeyWithoutRoom
  <2>4. TypeOK' BY <1>1, <1>3, <2>2 DEF IInv, TypeOK
  <2>5. ReadyQueueExact' /\ BlockedExact' /\ CurrentRunning' /\ PermitsOrWaiters'
        /\ InterruptFlagExact' /\ TimersAhead' /\ OneInterrupted' /\ ReaperSafe'
    BY <1>1, <1>3, <2>2 DEF IInv, ReadyQueueExact, BlockedExact, CurrentRunning, PermitsOrWaiters,
                InterruptFlagExact, TimersAhead, OneInterrupted, ReaperSafe
  <2>6. FramesExact' BY <1>1, <2>2 DEF IInv, FramesExact
  <2>7. LivesExact' BY <1>1, <2>2 DEF IInv, LivesExact
  <2> QED BY <2>3, <2>4, <2>5, <2>6, <2>7 DEF IInv
<1> QED BY <1>2, <1>3 DEF PutDown

\* An up() of put() hands its permit over like any other.
LEMMA PutUpStep ==
    ASSUME IInv, NEW p \in AllProc, NEW at \in Handling, NEW next \in Handling,
           NEW s \in Sem, PutUp(p, at, s, next)
    PROVE  IInv'
<1> DEFINE w == Head(waiting[s])
<1> USE ProcFacts
<1>1. /\ current' = current /\ disableCount' = disableCount /\ iDepth' = iDepth
      /\ jiffies' = jiffies /\ intrFlag' = intrFlag /\ inService' = inService
      /\ panicked' = panicked /\ isKilled' = isKilled /\ phase' = phase
      /\ joining' = joining /\ reaperQueue' = reaperQueue
      /\ current = p /\ frame[p] \in Handling
  BY DEF PutUp, cpuVars, lifeVars, Handler
<1>2. /\ state[p] = "RUNNING" /\ frame' \in [AllProc -> Frames]
      /\ frame'[p] = next /\ \A r \in AllProc : r # p => frame'[r] = frame[r]
      /\ InterruptFlagExact' /\ PanicsExplained' /\ OneInterrupted'
  BY HandlerStep DEF PutUp
<1>4. CASE waiting[s] = <<>>
  <2>1. /\ count' = [count EXCEPT ![s] = @ + 1] /\ waiting' = waiting
        /\ state' = state /\ readyQueue' = readyQueue
    BY <1>4 DEF PutUp, Release
  <2>2. count' \in [Sem -> Nat]
    <3>1. count \in [Sem -> Nat] /\ count[s] + 1 \in Nat BY DEF IInv, TypeOK
    <3> QED BY <2>1, <3>1
  <2>3. TypeOK' BY <1>1, <1>2, <2>1, <2>2 DEF IInv, TypeOK
  <2>4. PermitsOrWaiters'
    BY <1>4, <2>1 DEF IInv, PermitsOrWaiters, TypeOK
  <2>5. ReadyQueueExact' /\ BlockedExact' /\ CurrentRunning' /\ TimersAhead' /\ ReaperSafe'
    BY <1>1, <2>1 DEF IInv, ReadyQueueExact, BlockedExact, CurrentRunning, TimersAhead,
                      ReaperSafe
  <2>6. FramesExact' BY <1>1, <1>2, <2>1 DEF IInv, FramesExact, Handling
  <2>7. LivesExact' BY <1>1, <1>2, <2>1 DEF IInv, LivesExact, Handling
  <2> QED BY <1>2, <2>3, <2>4, <2>5, <2>6, <2>7 DEF IInv
<1>5. CASE waiting[s] # <<>>
  <2>1. /\ waiting' = [waiting EXCEPT ![s] = Tail(@)]
        /\ state' = [state EXCEPT ![w] = "READY"]
        /\ readyQueue' = Append(readyQueue, w)
        /\ count' = count
    BY <1>5 DEF PutUp, Release
  <2>2. /\ w \in Proc /\ state[w] = "BLOCKED"
        /\ waiting' \in [WaitQueue -> Seq(Proc)] /\ BlockedExact'
        /\ \A r \in WaitQueue : r # s => waiting'[r] = waiting[r]
    BY <1>5, <2>1, WakeFacts DEF IInv
  <2>3. ReadyQueueExact' /\ readyQueue' \in Seq(Proc) /\ state' \in [AllProc -> States]
    BY <2>1, <2>2, ReadyFacts DEF IInv
  <2>4. state'[w] = "READY" /\ w # p /\ \A r \in AllProc : r # w => state'[r] = state[r]
    BY <1>2, <2>1, <2>2 DEF IInv, TypeOK
  <2>5. TypeOK' BY <1>1, <1>2, <2>1, <2>2, <2>3 DEF IInv, TypeOK
  <2>6. PermitsOrWaiters'
    BY <1>5, <2>1, <2>2 DEF IInv, PermitsOrWaiters
  <2>7. CurrentRunning' BY <1>1, <2>2, <2>4 DEF IInv, CurrentRunning
  <2>8. TimersAhead' BY <1>1, <2>2 DEF IInv, TimersAhead
  <2>9. ReaperSafe' BY <1>1, <2>2, <2>4, ReapedFacts DEF IInv, ReaperSafe
  <2>10. frame[w] = "block" BY <2>2 DEF IInv, LivesExact
  <2>11. FramesExact' BY <1>1, <1>2, <2>2, <2>4, <2>10 DEF IInv, FramesExact, Handling
  <2>12. LivesExact' BY <1>1, <1>2, <2>2, <2>4, <2>10 DEF IInv, LivesExact, Handling
  <2> QED BY <1>2, <2>2, <2>3, <2>5, <2>6, <2>7, <2>8, <2>9, <2>11, <2>12 DEF IInv
<1> QED BY <1>4, <1>5

\* The keyboard's handler, to its end.
LEMMA PutStep ==
    ASSUME IInv, NEW p \in AllProc, Put(p)
    PROVE  IInv'
<1> USE ProcFacts
<1>1. /\ KbdEmpty \in Sem /\ KbdMutex \in Sem /\ KbdFull \in Sem BY KbdAssumption
<1>2. {"slot", "lock", "unlock", "full", "end"} \subseteq Handling BY DEF Handling
<1>3. CASE PutDown(p, "slot", KbdEmpty, "lock") BY <1>1, <1>2, <1>3, PutDownStep
<1>4. CASE PutDown(p, "lock", KbdMutex, "unlock") BY <1>1, <1>2, <1>4, PutDownStep
<1>5. CASE PutUp(p, "unlock", KbdMutex, "full") BY <1>1, <1>2, <1>5, PutUpStep
<1>6. CASE PutUp(p, "full", KbdFull, "end") BY <1>1, <1>2, <1>6, PutUpStep
<1>7. CASE KeyEnds(p)
  <2>1. /\ current = p /\ ~panicked /\ frame[p] = "end" /\ frame[p] \in Handling
        /\ disableCount[p] = 1 /\ iDepth[p] = 1 /\ state[p] = "RUNNING"
    BY <1>2, <1>7 DEF KeyEnds, Handler, IInv, FramesExact, CurrentRunning
  <2>2. /\ state' = state /\ current' = current /\ readyQueue' = readyQueue
        /\ isKilled' = isKilled /\ phase' = phase /\ joining' = joining
        /\ reaperQueue' = reaperQueue /\ count' = count /\ waiting' = waiting
        /\ jiffies' = jiffies /\ inService' = inService /\ intrFlag' = TRUE
        /\ panicked' = FALSE
    BY <1>7, <2>1 DEF KeyEnds, lifeVars
  <2>3. /\ disableCount' \in [AllProc -> Nat] /\ disableCount'[p] = 0
        /\ iDepth' \in [AllProc -> Nat] /\ iDepth'[p] = 0
        /\ frame' \in [AllProc -> Frames] /\ frame'[p] = "none"
        /\ \A r \in AllProc : r # p => /\ disableCount'[r] = disableCount[r]
                                       /\ iDepth'[r] = iDepth[r] /\ frame'[r] = frame[r]
    <3>1. /\ disableCount \in [AllProc -> Nat] /\ iDepth \in [AllProc -> Nat]
          /\ frame \in [AllProc -> Frames]
      BY DEF IInv, TypeOK
    <3>2. /\ disableCount' = [disableCount EXCEPT ![p] = 0]
          /\ iDepth' = [iDepth EXCEPT ![p] = 0]
          /\ frame' = [frame EXCEPT ![p] = "none"]
      BY <1>7, <2>1, <3>1 DEF KeyEnds
    <3>3. "none" \in Frames BY DEF Frames
    <3> QED BY <3>1, <3>2, <3>3
  <2>4. \A r \in AllProc : r # p => frame[r] \notin Handling /\ iDepth[r] = 0
    BY <2>1 DEF IInv, FramesExact, OneInterrupted
  <2>5. TypeOK' BY <2>2, <2>3 DEF IInv, TypeOK
  <2>6. ReadyQueueExact' /\ BlockedExact' /\ CurrentRunning' /\ PermitsOrWaiters'
        /\ PanicsExplained' /\ TimersAhead' /\ ReaperSafe'
    BY <2>2 DEF IInv, ReadyQueueExact, BlockedExact, CurrentRunning, PermitsOrWaiters,
                PanicsExplained, TimersAhead, ReaperSafe
  <2>7. InterruptFlagExact' BY <2>1, <2>2, <2>3 DEF InterruptFlagExact
  <2>8. OneInterrupted'
    <3>1. ~inService BY <2>1, <2>4 DEF IInv, OneInterrupted
    <3> QED BY <3>1, <2>2, <2>3, <2>4 DEF OneInterrupted
  <2>9. FramesExact'
    <3>1. "none" \notin Handling BY DEF Handling
    <3> QED BY <3>1, <2>1, <2>2, <2>3 DEF IInv, FramesExact
  <2>10. LivesExact' BY <2>1, <2>2, <2>3 DEF IInv, LivesExact
  <2> QED BY <2>5, <2>6, <2>7, <2>8, <2>9, <2>10 DEF IInv
<1> QED BY <1>3, <1>4, <1>5, <1>6, <1>7 DEF Put

\* Entering exit(), by choice or killed, moves no process and no permit.
LEMMA QuietStep ==
    ASSUME IInv,
           \E p \in Proc : Exit(p) \/ Fault(p)
    PROVE  IInv'
<1> USE ProcFacts
<1>1. /\ state' = state /\ current' = current /\ readyQueue' = readyQueue
      /\ disableCount' = disableCount /\ frame' = frame /\ intrFlag' = intrFlag
      /\ joining' = joining /\ iDepth' = iDepth /\ count' = count
      /\ waiting' = waiting /\ jiffies' = jiffies /\ inService' = inService
      /\ panicked' = panicked /\ reaperQueue' \in {<<>>, reaperQueue} /\ ~panicked
  BY DEF Exit, Fault, InBody, Running, switchVars
<1>2. /\ isKilled' \in [AllProc -> BOOLEAN]
      /\ phase' \in [AllProc -> Phases]
      /\ \A r \in AllProc : isKilled[r] => isKilled'[r]
      /\ \A r \in AllProc : isKilled'[r] => phase'[r] # "body" /\ r \in Faulty
      /\ \A r \in AllProc : phase'[r] # "body" => joining[r] = NoProc /\ frame[r] \in {"irq", "block", "none"} \cup Handling
      /\ phase'[Idle] = "body"
  <2>1. PICK p \in Proc : Exit(p) \/ Fault(p) OBVIOUS
  <2>2. QED
    <3>1. /\ frame[p] = "none" /\ joining[p] = NoProc
          /\ phase' = [phase EXCEPT ![p] = "exit"]
          /\ \/ isKilled' = isKilled
             \/ isKilled' = [isKilled EXCEPT ![p] = TRUE] /\ p \in Faulty
      BY <2>1 DEF Exit, Fault, InBody, Running
    <3>2. isKilled \in [AllProc -> BOOLEAN]
          /\ phase \in [AllProc -> Phases]
      BY DEF IInv, TypeOK
    <3>3. /\ phase'[p] = "exit" /\ \A r \in AllProc : r # p => phase'[r] = phase[r]
          /\ \A r \in AllProc : r # p => isKilled'[r] = isKilled[r]
          /\ isKilled[p] => isKilled'[p]
      BY <3>1, <3>2
    <3>4. /\ isKilled' \in [AllProc -> BOOLEAN]
          /\ phase' \in [AllProc -> Phases]
      BY <3>1, <3>2 DEF Phases
    <3> QED BY <3>1, <3>3, <3>4 DEF IInv, LivesExact
<1>3. reaperQueue' \in Seq(Proc)
  <2>1. reaperQueue \in Seq(Proc) /\ <<>> \in Seq(Proc) BY EmptySeq DEF IInv, TypeOK
  <2> QED BY <1>1, <2>1
<1>4. TypeOK' BY <1>1, <1>2, <1>3 DEF IInv, TypeOK
<1>5. ReadyQueueExact' /\ BlockedExact' /\ CurrentRunning' /\ PermitsOrWaiters' /\ TimersAhead'
      /\ InterruptFlagExact' /\ OneInterrupted'
  BY <1>1 DEF IInv, ReadyQueueExact, BlockedExact, CurrentRunning, PermitsOrWaiters,
              TimersAhead, InterruptFlagExact, OneInterrupted
<1>9. PanicsExplained'
  BY <1>1, <1>2, ProcAssumption DEF IInv, PanicsExplained
<1>6. ReaperSafe' BY <1>1, EmptyFacts DEF IInv, ReaperSafe
<1>7. FramesExact' BY <1>1, <1>2 DEF IInv, FramesExact
<1>8. LivesExact' BY <1>1, <1>2 DEF IInv, LivesExact
<1> QED BY <1>4, <1>5, <1>6, <1>7, <1>8, <1>9 DEF IInv

\* The invariant holds when kernelMain has started the first process.
LEMMA InitIInv == Init => IInv
<1> USE ProcFacts
<1> SUFFICES ASSUME Init PROVE IInv OBVIOUS
<1>1. /\ readyQueue \in Seq(Proc) /\ Range(readyQueue) = {First} /\ IsInjective(readyQueue)
      /\ reaperQueue \in Seq(Proc) /\ Range(reaperQueue) = {} /\ IsInjective(reaperQueue)
  BY SingleFacts, EmptyFacts, EmptySeq DEF Init
<1>2. /\ waiting \in [WaitQueue -> Seq(Proc)]
      /\ \A q \in WaitQueue : waiting[q] = <<>>
  BY EmptySeq DEF Init
<1>3. count \in [Sem -> Nat]
  BY SemAssumption DEF Init, Sem, InitialCount
<1>4. jiffies \in Ticks BY TickAssumption DEF Init, Ticks
<1>5. TypeOK BY <1>1, <1>2, <1>3, <1>4 DEF Init, TypeOK, States, Phases, Frames
<1>6. ReadyQueueExact BY <1>1 DEF Init, ReadyQueueExact
<1>7. BlockedExact BY <1>2, EmptyFacts DEF Init, BlockedExact
<1>8. CurrentRunning BY DEF Init, CurrentRunning
<1>9. PermitsOrWaiters BY <1>2 DEF PermitsOrWaiters
<1>10. InterruptFlagExact /\ PanicsExplained BY DEF Init, InterruptFlagExact, PanicsExplained
<1>11. TimersAhead BY <1>2 DEF TimersAhead
<1>12. OneInterrupted BY DEF Init, OneInterrupted, Handling
<1>13. ReaperSafe BY <1>1 DEF ReaperSafe
<1>14. FramesExact BY DEF Init, FramesExact, Handling
<1>15. LivesExact BY DEF Init, LivesExact
<1> QED BY <1>5, <1>6, <1>7, <1>8, <1>9, <1>10, <1>11, <1>12, <1>13, <1>14, <1>15 DEF IInv

\* Every step keeps it.
LEMMA NextIInv == IInv /\ [Next]_vars => IInv'
<1> USE ProcFacts
<1> SUFFICES ASSUME IInv, [Next]_vars PROVE IInv' OBVIOUS
<1>1. CASE UNCHANGED vars
  BY <1>1 DEF vars, IInv, TypeOK, ReadyQueueExact, BlockedExact, CurrentRunning,
              PermitsOrWaiters, InterruptFlagExact, PanicsExplained, SomeKilled,
              KeyWithoutRoom, TimersAhead, OneInterrupted, ReaperSafe, FramesExact, LivesExact
<1>2. CASE Boot BY <1>2, BootStep
<1>4. ASSUME NEW p \in AllProc, Tick(p) PROVE IInv' BY <1>4, TickStep
<1>5. ASSUME NEW p \in AllProc, Resume(p) PROVE IInv' BY <1>5, ResumeStep
<1>8. ASSUME NEW p \in AllProc, Key(p) PROVE IInv' BY <1>8, KeyStep
<1>9. ASSUME NEW p \in AllProc, Put(p) PROVE IInv' BY <1>9, PutStep
<1>6. ASSUME NEW p \in Proc, BodyStep(p) PROVE IInv'
  <2>1. CASE Yield(p) BY <2>1, YieldStep
  <2>2. CASE Exit(p) \/ Fault(p) BY <2>2, QuietStep
  <2>3. ASSUME NEW child \in Proc, Start(p, child) PROVE IInv' BY <2>3, StartStep
  <2>4. ASSUME NEW child \in Proc, JoinDown(p, child) PROVE IInv'
    <3>1. /\ InBody(p) /\ SemDown(p, child)
          /\ joining' = [joining EXCEPT ![p] = child]
          /\ isKilled' = isKilled /\ phase' = phase /\ reaperQueue' = reaperQueue
      BY <2>4 DEF JoinDown
    <3>2. /\ joining' \in [AllProc -> Proc \cup {NoProc}]
          /\ \A r \in AllProc : r # p => joining'[r] = joining[r]
      BY <3>1 DEF IInv, TypeOK
    <3>3. /\ Running(p) /\ phase[p] = "body" /\ child \in Sem
          /\ phase \in [AllProc -> Phases] /\ (isKilled[p] => phase[p] # "body")
      BY <3>1 DEF InBody, IInv, TypeOK, LivesExact
    <3> QED BY <3>1, <3>2, <3>3, DownStep
  <2>5. ASSUME NEW s \in UserSem, Down(p, s) PROVE IInv'
    <3>1. /\ InBody(p) /\ SemDown(p, s) /\ joining' = joining
          /\ isKilled' = isKilled /\ phase' = phase /\ reaperQueue' = reaperQueue
      BY <2>5 DEF Down, lifeVars
    <3>2. /\ Running(p) /\ phase[p] = "body" /\ ~isKilled[p]
          /\ joining \in [AllProc -> Proc \cup {NoProc}] /\ phase \in [AllProc -> Phases]
      BY <3>1 DEF InBody, IInv, TypeOK, LivesExact
    <3> QED BY <3>1, <3>2, DownStep
  <2>6. ASSUME NEW s \in UserSem, Up(p, s) PROVE IInv'
    <3>1. /\ Running(p) /\ SemUp(s) /\ joining' = joining
          /\ isKilled' = isKilled /\ phase' = phase /\ reaperQueue' = reaperQueue
          /\ phase[p] = "body" /\ joining[p] = NoProc
      BY <2>6 DEF Up, InBody, lifeVars
    <3>2. /\ joining \in [AllProc -> Proc \cup {NoProc}]
          /\ phase \in [AllProc -> Phases]
          /\ isKilled[p] => phase[p] # "body"
      BY DEF IInv, TypeOK, LivesExact
    <3> QED BY <3>1, <3>2, UpStep
  <2>7. ASSUME NEW target \in Ticks, SleepUntil(p, target) PROVE IInv'
    <3>1. /\ InBody(p) /\ target > jiffies /\ Block(p, target) /\ joining' = joining
          /\ isKilled' = isKilled /\ phase' = phase /\ reaperQueue' = reaperQueue
          /\ count' = count
      BY <2>7 DEF SleepUntil, lifeVars
    <3>2. /\ Running(p) /\ phase[p] = "body" /\ ~isKilled[p]
          /\ joining \in [AllProc -> Proc \cup {NoProc}] /\ phase \in [AllProc -> Phases]
      BY <3>1 DEF InBody, IInv, TypeOK, LivesExact
    <3>3. target \in WaitQueue /\ target \notin Sem OBVIOUS
    <3> QED BY <3>1, <3>2, <3>3, BlockStep
  <2>8. CASE CloseFile(p)
    <3>1. /\ Running(p) /\ phase[p] = "closing" /\ SemDown(p, FileMutex)
          /\ phase' = [phase EXCEPT ![p] = "filing"]
          /\ isKilled' = isKilled /\ joining' = joining /\ reaperQueue' = reaperQueue
      BY <2>8 DEF CloseFile
    <3>2. /\ joining \in [AllProc -> Proc \cup {NoProc}] /\ joining[p] = NoProc
          /\ phase' \in [AllProc -> Phases] /\ phase'[p] = "filing"
          /\ \A r \in AllProc : r # p => phase'[r] = phase[r]
      BY <3>1 DEF IInv, TypeOK, LivesExact, Phases
    <3> QED BY <3>1, <3>2, MutexFacts, DownStep
  <2> QED BY <1>6, <2>1, <2>2, <2>3, <2>4, <2>5, <2>6, <2>7, <2>8 DEF BodyStep
<1>7. ASSUME NEW p \in Proc, FinishStep(p) PROVE IInv'
  <2>1. CASE JoinUp(p)
    <3>1. /\ Running(p) /\ joining[p] # NoProc /\ SemUp(joining[p])
          /\ joining' = [joining EXCEPT ![p] = NoProc]
          /\ isKilled' = isKilled /\ phase' = phase /\ reaperQueue' = reaperQueue
      BY <2>1 DEF JoinUp
    <3>2. /\ joining[p] \in Sem /\ phase \in [AllProc -> Phases]
          /\ joining' \in [AllProc -> Proc \cup {NoProc}] /\ joining'[p] = NoProc
          /\ \A r \in AllProc : r # p => joining'[r] = joining[r]
          /\ isKilled[p] => phase[p] # "body"
      BY <3>1 DEF IInv, TypeOK, LivesExact
    <3> QED BY <3>1, <3>2, UpStep
  <2>2. ASSUME NEW x \in Phases \ {"body"}, NEW s \in Sem, Running(p), phase[p] # "body",
               phase' = [phase EXCEPT ![p] = x], isKilled' = isKilled, joining' = joining,
               reaperQueue' = reaperQueue, SemUp(s) \/ SemDown(p, s)
        PROVE  IInv'
    <3>1. /\ joining \in [AllProc -> Proc \cup {NoProc}] /\ joining[p] = NoProc
          /\ phase' \in [AllProc -> Phases] /\ phase'[p] = x /\ x # "body"
          /\ \A r \in AllProc : r # p => phase'[r] = phase[r]
      BY <2>2 DEF IInv, TypeOK, LivesExact
    <3>2. CASE SemUp(s) BY <2>2, <3>1, <3>2, UpStep
    <3>3. CASE SemDown(p, s) BY <2>2, <3>1, <3>3, DownStep
    <3> QED BY <2>2, <3>2, <3>3
  <2>4. CASE CloseAll(p)
    BY <2>2, <2>4, MutexFacts DEF CloseAll, Phases
  <2>5. CASE FileClosed(p)
    BY <2>2, <2>5, MutexFacts DEF FileClosed, Phases
  <2>6. CASE CloseAllEnds(p)
    BY <2>2, <2>6, MutexFacts DEF CloseAllEnds, Phases
  <2>7. CASE ExitSignal(p)
    BY <2>2, <2>7 DEF ExitSignal, Phases
  <2>3. CASE ExitSwitch(p) BY <2>3, ExitSwitchStep
  <2> QED BY <1>7, <2>1, <2>3, <2>4, <2>5, <2>6, <2>7 DEF FinishStep
<1> QED BY <1>1, <1>2, <1>4, <1>5, <1>6, <1>7, <1>8, <1>9 DEF Next

\* The whole invariant, for any number of processes and semaphores.
THEOREM Invariance == Spec => []IInv
<1>1. Init => IInv BY InitIInv
<1>2. IInv /\ [Next]_vars => IInv' BY NextIInv
<1> QED BY <1>1, <1>2, PTL DEF Spec

\* The variables keep their types: no count goes below zero.
THEOREM TypeCorrect == Spec => []TypeOK
<1>1. IInv => TypeOK BY DEF IInv
<1> QED BY <1>1, Invariance, PTL

\* No process is lost, queued twice or run while queued.
THEOREM QueuesExact == Spec => []EachInOneQueue
<1>1. IInv => EachInOneQueue BY DEF IInv, EachInOneQueue
<1> QED BY <1>1, Invariance, PTL

\* disable() and enable() nest correctly over switches and interrupts.
THEOREM InterruptsExact == Spec => [](InterruptFlagExact /\ OneInterrupted)
<1>1. IInv => InterruptFlagExact /\ OneInterrupted BY DEF IInv
<1> QED BY <1>1, Invariance, PTL

\* No check of enable(), the interrupts or yield(q) panics unless a process
\* was killed for touching the null page, or a key comes while the keyboard's
\* buffer is full or locked.
THEOREM PanicsHaveCauses == Spec => []PanicsExplained
<1>1. IInv => PanicsExplained BY DEF IInv
<1> QED BY <1>1, Invariance, PTL

\* Where no process touches the null page, a key without room is the only way.
THEOREM OnlyKeysCanPanic == ASSUME Faulty = {} PROVE Spec => []OnlyKeysPanic
<1>1. IInv => OnlyKeysPanic BY DEF IInv, PanicsExplained, SomeKilled, OnlyKeysPanic
<1> QED BY <1>1, Invariance, PTL

\* No timer is missed, although tick() looks for the exact jiffy.
THEOREM NoTimerMissed == Spec => []TimersAhead
<1>1. IInv => TimersAhead BY DEF IInv
<1> QED BY <1>1, Invariance, PTL

\* Only terminated processes are reaped.
THEOREM ReaperSound == Spec => []ReaperSafe
<1>1. IInv => ReaperSafe BY DEF IInv
<1> QED BY <1>1, Invariance, PTL

\* A semaphore has permits or waiters, never both.
THEOREM HandOffSound == Spec => []PermitsOrWaiters
<1>1. IInv => PermitsOrWaiters BY DEF IInv
<1> QED BY <1>1, Invariance, PTL

(***************************************************************************)
(* Refinement: the scheduler's semaphores are those of Semaphore.          *)
(***************************************************************************)

\* A process that may call down() waits nowhere.
LEMMA AwakeFacts ==
    ASSUME IInv, NEW p \in AllProc, current = p
    PROVE  ~Abstract!Asleep(p)
<1> USE ProcFacts
<1>1. state[p] = "RUNNING" BY DEF IInv, CurrentRunning
<1>2. \A s \in Sem : p \notin Range(waiting[s])
  <2>1. ASSUME NEW s \in Sem, p \in Range(waiting[s]) PROVE FALSE
    <3>1. waiting[s] \in Seq(Proc) BY DEF IInv, TypeOK
    <3>2. p \in Proc BY <2>1, <3>1, RangeOfSeq
    <3> QED BY <1>1, <2>1, <3>2 DEF IInv, BlockedExact
  <2> QED BY <2>1
<1> QED BY <1>2 DEF Abstract!Asleep, Abstract!Range, Range

\* A step of down() is an abstract down(), or a panic that changes nothing.
LEMMA DownRefines ==
    ASSUME IInv, NEW p \in AllProc, current = p, NEW s \in Sem,
           \/ count[s] # 0 /\ count' = [count EXCEPT ![s] = @ - 1] /\ waiting' = waiting
           \/ count[s] = 0 /\ Block(p, s) /\ UNCHANGED count
    PROVE  [Abstract!Down(p, s)]_Abstract!semVars
<1> DEFINE w == [r \in Sem |-> waiting[r]]
<1> USE ProcFacts
<1>1. CASE /\ count[s] # 0
           /\ count' = [count EXCEPT ![s] = @ - 1]
           /\ waiting' = waiting
  <2>1. w' = w BY <1>1
  <2> QED BY <1>1, <2>1, AwakeFacts DEF Abstract!Down
<1>2. CASE count[s] = 0 /\ Block(p, s) /\ UNCHANGED count
  <2>1. CASE waiting' = [waiting EXCEPT ![s] = Append(@, p)]
    <3>1. waiting \in [WaitQueue -> Seq(Proc)] BY DEF IInv, TypeOK
    <3>2. w' = [w EXCEPT ![s] = Append(@, p)] BY <2>1, <3>1
    <3> QED BY <1>2, <3>2, AwakeFacts DEF Abstract!Down
  <2>2. CASE waiting' = waiting
    BY <1>2, <2>2 DEF Abstract!semVars
  <2> QED BY <1>2, <2>1, <2>2 DEF Block
<1> QED BY <1>1, <1>2

\* A step of up() is an abstract up().
LEMMA UpRefines ==
    ASSUME IInv, NEW s \in Sem, Release(s)
    PROVE  Abstract!Up(s)
<1> DEFINE w == [r \in Sem |-> waiting[r]]
<1> USE ProcFacts
<1>1. w[s] = waiting[s] OBVIOUS
<1>2. CASE waiting[s] = <<>>
  <2>1. count' = [count EXCEPT ![s] = @ + 1] /\ waiting' = waiting BY <1>2 DEF Release
  <2>2. w' = w BY <2>1
  <2> QED BY <1>1, <1>2, <2>1, <2>2 DEF Abstract!Up
<1>3. CASE waiting[s] # <<>>
  <2>1. waiting' = [waiting EXCEPT ![s] = Tail(@)] /\ count' = count BY <1>3 DEF Release
  <2>2. waiting \in [WaitQueue -> Seq(Proc)] BY DEF IInv, TypeOK
  <2>3. w' = [w EXCEPT ![s] = Tail(@)] BY <2>1, <2>2
  <2> QED BY <1>1, <1>3, <2>1, <2>3 DEF Abstract!Up
<1> QED BY <1>2, <1>3

\* Any step but those of down() and up() leaves the semaphores alone.
LEMMA StepRefines == IInv /\ [Next]_vars => [Abstract!SemNext]_Abstract!semVars
<1> USE ProcFacts
<1> SUFFICES ASSUME IInv, [Next]_vars PROVE [Abstract!SemNext]_Abstract!semVars OBVIOUS
<1>1. ASSUME count' = count, \A s \in Sem : waiting'[s] = waiting[s]
      PROVE  UNCHANGED Abstract!semVars
  BY <1>1 DEF Abstract!semVars
<1>2. CASE UNCHANGED vars BY <1>1, <1>2 DEF vars
<1>3. CASE Boot BY <1>1, <1>3 DEF Boot
<1>4. ASSUME NEW p \in AllProc, Tick(p) PROVE UNCHANGED Abstract!semVars
  <2> DEFINE now == (jiffies + 1) % JiffyMod
  <2>1. now \in Ticks
    <3>1. JiffyMod \in Nat \ {0} /\ jiffies \in 0 .. JiffyMod - 1
      BY TickAssumption DEF IInv, TypeOK, Ticks
    <3>2. now = IF jiffies + 1 = JiffyMod THEN 0 ELSE jiffies + 1
      BY <3>1, ClockFacts
    <3> HIDE DEF now
    <3> QED BY <3>1, <3>2 DEF Ticks
  <2>2. count' = count /\ \E x : waiting' = [waiting EXCEPT ![now] = x]
    BY <1>4 DEF Tick
  <2>3. waiting \in [WaitQueue -> Seq(Proc)] BY DEF IInv, TypeOK
  <2> HIDE DEF now
  <2>4. \A s \in Sem : s # now BY <2>1
  <2>5. \A s \in Sem : waiting'[s] = waiting[s] BY <2>2, <2>3, <2>4
  <2> QED BY <1>1, <2>2, <2>5
<1>5. ASSUME NEW p \in AllProc, Resume(p) PROVE UNCHANGED Abstract!semVars
  BY <1>1, <1>5 DEF Resume, Entry, ReturnFromYield, ReturnFromIrq, ReturnKilled
<1>6. ASSUME NEW p \in Proc, BodyStep(p) PROVE [Abstract!SemNext]_Abstract!semVars
  <2>1. CASE Yield(p) \/ Exit(p) \/ Fault(p)
    BY <1>1, <2>1 DEF Yield, Exit, Fault
  <2>2. ASSUME NEW child \in Proc, Start(p, child) PROVE UNCHANGED Abstract!semVars
    BY <1>1, <2>2 DEF Start
  <2>3. ASSUME NEW child \in Proc, JoinDown(p, child) PROVE [Abstract!SemNext]_Abstract!semVars
    BY <2>3, DownRefines DEF JoinDown, InBody, Running, SemDown, Abstract!SemNext
  <2>4. ASSUME NEW s \in UserSem, Down(p, s) PROVE [Abstract!SemNext]_Abstract!semVars
    BY <2>4, DownRefines DEF Down, InBody, Running, SemDown, Abstract!SemNext
  <2>5. ASSUME NEW s \in UserSem, Up(p, s) PROVE Abstract!SemNext
    BY <2>5, UpRefines DEF Up, SemUp, Abstract!SemNext
  <2>6. ASSUME NEW target \in Ticks, SleepUntil(p, target) PROVE UNCHANGED Abstract!semVars
    <3>1. /\ count' = count
          /\ waiting' = waiting \/ waiting' = [waiting EXCEPT ![target] = Append(@, p)]
      BY <2>6 DEF SleepUntil, Block
    <3>2. waiting \in [WaitQueue -> Seq(Proc)] BY DEF IInv, TypeOK
    <3>3. \A s \in Sem : s # target OBVIOUS
    <3>4. \A s \in Sem : waiting'[s] = waiting[s] BY <3>1, <3>2, <3>3
    <3> QED BY <1>1, <3>1, <3>4
  <2>7. CASE CloseFile(p)
    BY <2>7, DownRefines, MutexFacts DEF CloseFile, Running, SemDown, Abstract!SemNext
  <2> QED BY <1>6, <2>1, <2>2, <2>3, <2>4, <2>5, <2>6, <2>7 DEF BodyStep
<1>7. ASSUME NEW p \in Proc, FinishStep(p) PROVE [Abstract!SemNext]_Abstract!semVars
  <2>1. CASE JoinUp(p)
    <3>1. joining[p] \in Sem BY <2>1 DEF JoinUp, IInv, TypeOK
    <3> QED BY <2>1, <3>1, UpRefines DEF JoinUp, SemUp, Abstract!SemNext
  <2>2. CASE ExitSignal(p)
    BY <2>2, UpRefines DEF ExitSignal, SemUp, Abstract!SemNext
  <2>3. CASE ExitSwitch(p) BY <1>1, <2>3 DEF ExitSwitch
  <2>4. CASE CloseAll(p)
    BY <2>4, DownRefines, MutexFacts DEF CloseAll, Running, SemDown, Abstract!SemNext
  <2>5. CASE FileClosed(p)
    BY <2>5, UpRefines, MutexFacts DEF FileClosed, SemUp, Abstract!SemNext
  <2>6. CASE CloseAllEnds(p)
    BY <2>6, UpRefines, MutexFacts DEF CloseAllEnds, SemUp, Abstract!SemNext
  <2> QED BY <1>7, <2>1, <2>2, <2>3, <2>4, <2>5, <2>6 DEF FinishStep
<1>8. ASSUME NEW p \in AllProc, Key(p) PROVE UNCHANGED Abstract!semVars
  BY <1>1, <1>8 DEF Key
<1>9. ASSUME NEW p \in AllProc, Put(p) PROVE [Abstract!SemNext]_Abstract!semVars
  <2>1. {KbdEmpty, KbdMutex, KbdFull} \subseteq Sem BY KbdAssumption
  <2>2. ASSUME NEW s \in Sem, NEW at, NEW next, PutDown(p, at, s, next)
        PROVE  [Abstract!SemNext]_Abstract!semVars
    BY <2>2, DownRefines DEF PutDown, Handler, Abstract!SemNext
  <2>3. ASSUME NEW s \in Sem, NEW at, NEW next, PutUp(p, at, s, next)
        PROVE  Abstract!SemNext
    BY <2>3, UpRefines DEF PutUp, Abstract!SemNext
  <2>4. CASE KeyEnds(p) BY <1>1, <2>4 DEF KeyEnds
  <2> QED BY <1>9, <2>1, <2>2, <2>3, <2>4 DEF Put
<1> QED BY <1>2, <1>3, <1>4, <1>5, <1>6, <1>7, <1>8, <1>9 DEF Next

\* Scheduling, interrupts, exits and kills do not show in the semaphores:
\* they are handed over in FIFO order by atomic operations.
THEOREM SemaphoresImplemented == Spec => ImplementsSemaphore
<1>1. Init => Abstract!SemInit
  BY ProcFacts DEF Init, Abstract!SemInit
<1>2. IInv /\ [Next]_vars => [Abstract!SemNext]_Abstract!semVars BY StepRefines
<1> QED BY <1>1, <1>2, Invariance, PTL DEF Spec, ImplementsSemaphore, Abstract!SemSpec

(***************************************************************************)
(* Terminated processes.                                                   *)
(***************************************************************************)

\* A switch changes the state of nobody but the process it picks.
LEMMA SwitchKeeps ==
    ASSUME NEW rq \in Seq(Proc), NEW st \in [AllProc -> States],
           \A q \in Range(rq) : st[q] # "TERMINATED",
           SwitchTo(rq, st), NEW r \in Proc, st[r] = "TERMINATED"
    PROVE  state'[r] = "TERMINATED"
<1> USE ProcFacts
<1>1. CASE rq = <<>>
  <2>1. state' = [st EXCEPT ![Idle] = "RUNNING"] BY <1>1 DEF SwitchTo
  <2> QED BY <2>1
<1>2. CASE rq # <<>>
  <2>1. state' = [st EXCEPT ![Head(rq)] = "RUNNING"] BY <1>2 DEF SwitchTo
  <2>2. Head(rq) \in Range(rq) BY <1>2, TailFacts
  <2> QED BY <2>1, <2>2
<1> QED BY <1>1, <1>2

\* What down() and up() do to a terminated process: nothing.
LEMMA SemKeeps ==
    ASSUME IInv, NEW p \in Proc, Running(p), NEW s \in Sem, SemDown(p, s) \/ SemUp(s),
           NEW r \in Proc, state[r] = "TERMINATED"
    PROVE  state'[r] = "TERMINATED"
<1> USE ProcFacts
<1>1. state[p] = "RUNNING" /\ state \in [AllProc -> States]
  BY RunningFacts DEF IInv, TypeOK
<1>2. CASE state' = state BY <1>2
<1>3. CASE SwitchTo(readyQueue, [state EXCEPT ![p] = "BLOCKED"])
  <2>1. /\ readyQueue \in Seq(Proc)
        /\ \A q \in Range(readyQueue) : q \in Proc /\ state[q] = "READY"
    <3>1. readyQueue \in Seq(Proc) BY DEF IInv, TypeOK
    <3> QED BY <3>1, RangeOfSeq DEF IInv, ReadyQueueExact
  <2> DEFINE st == [state EXCEPT ![p] = "BLOCKED"]
  <2>2. /\ st \in [AllProc -> States] /\ st[r] = "TERMINATED"
        /\ \A q \in Range(readyQueue) : st[q] # "TERMINATED"
    BY <1>1, <2>1 DEF States
  <2> HIDE DEF st
  <2>3. SwitchTo(readyQueue, st) BY <1>3 DEF st
  <2> QED BY <2>1, <2>2, <2>3, SwitchKeeps
<1>4. CASE waiting[s] # <<>> /\ state' = [state EXCEPT ![Head(waiting[s])] = "READY"]
  <2>1. waiting[s] \in Seq(Proc) BY DEF IInv, TypeOK
  <2>2. Head(waiting[s]) \in Range(waiting[s]) /\ Head(waiting[s]) \in Proc
    BY <1>4, <2>1, TailFacts
  <2>3. state[Head(waiting[s])] = "BLOCKED" BY <2>2 DEF IInv, BlockedExact
  <2> QED BY <1>1, <1>4, <2>3
<1> QED BY <1>2, <1>3, <1>4 DEF SemDown, SemUp, Release, Block, switchVars

\* The timer interrupt wakes blocked processes only.
LEMMA TickKeeps ==
    ASSUME IInv, NEW p \in AllProc, Tick(p), NEW r \in Proc, state[r] = "TERMINATED"
    PROVE  state'[r] = "TERMINATED"
<1> DEFINE now == (jiffies + 1) % JiffyMod
           first == \A t \in Ticks : t < now => waiting[t] = <<>>
           woken == IF first THEN waiting[now] ELSE <<>>
           self == IF p = Idle THEN <<>> ELSE <<p>>
           rq == (readyQueue \o woken) \o self
           st == [q \in AllProc |-> IF q = p \/ q \in Range(woken)
                                    THEN "READY" ELSE state[q]]
<1> USE ProcFacts
<1>1. SwitchTo(rq, st) BY DEF Tick
<1>2. state[p] = "RUNNING" BY RunningFacts DEF Tick
<1>3. now \in Ticks
  <2>1. JiffyMod \in Nat \ {0} /\ jiffies \in 0 .. JiffyMod - 1
    BY TickAssumption DEF IInv, TypeOK, Ticks
  <2>2. now = IF jiffies + 1 = JiffyMod THEN 0 ELSE jiffies + 1
    BY <2>1, ClockFacts
  <2> HIDE DEF now
  <2> QED BY <2>1, <2>2 DEF Ticks
<1>4. woken \in {<<>>, waiting[now]} OBVIOUS
<1>5. woken \in Seq(Proc) /\ \A q \in Range(woken) : q \in Proc /\ state[q] = "BLOCKED"
  <2>1. waiting[now] \in Seq(Proc) BY <1>3 DEF IInv, TypeOK
  <2>2. \A q \in Range(waiting[now]) : q \in Proc /\ state[q] = "BLOCKED"
    BY <2>1, <1>3, RangeOfSeq DEF IInv, BlockedExact
  <2> HIDE DEF now, woken
  <2> QED BY <1>4, <2>1, <2>2, EmptyFacts, EmptySeq
<1>6. self \in Seq(Proc) /\ Range(self) \subseteq {p}
  <2>1. CASE p = Idle BY <2>1, EmptyFacts, EmptySeq
  <2>2. CASE p # Idle
    <3>1. p \in Proc /\ self = <<p>> BY <2>2 DEF AllProc
    <3> QED BY <3>1, SingleFacts
  <2> QED BY <2>1, <2>2
<1>7. /\ readyQueue \in Seq(Proc)
      /\ \A q \in Range(readyQueue) : q \in Proc /\ state[q] = "READY"
  <2>1. readyQueue \in Seq(Proc) BY DEF IInv, TypeOK
  <2> QED BY <2>1, RangeOfSeq DEF IInv, ReadyQueueExact
<1>8. rq \in Seq(Proc) /\ Range(rq) = (Range(readyQueue) \cup Range(woken)) \cup Range(self)
  <2> HIDE DEF woken, self
  <2> DEFINE both == readyQueue \o woken
  <2>1. both \in Seq(Proc) /\ Range(both) = Range(readyQueue) \cup Range(woken)
    BY <1>5, <1>7, ConcatFacts
  <2>2. rq = both \o self OBVIOUS
  <2> HIDE DEF both, rq
  <2>3. both \o self \in Seq(Proc) /\ Range(both \o self) = Range(both) \cup Range(self)
    BY <1>6, <2>1, ConcatFacts
  <2> QED BY <2>1, <2>2, <2>3
<1>9. /\ st \in [AllProc -> States] /\ st[p] = "READY" /\ st[r] = "TERMINATED"
      /\ \A q \in AllProc : st[q] \in {"READY", state[q]}
  <2> HIDE DEF woken
  <2>1. state \in [AllProc -> States] BY DEF IInv, TypeOK
  <2> QED BY <1>2, <1>5, <2>1 DEF States
<1>10. \A q \in Range(rq) : st[q] # "TERMINATED"
  <2> HIDE DEF woken, self, rq, st
  <2>1. ASSUME NEW q \in Range(rq) PROVE st[q] # "TERMINATED"
    <3>1. q \in Range(readyQueue) \/ q \in Range(woken) \/ q = p
      BY <2>1, <1>6, <1>8
    <3> QED BY <3>1, <1>2, <1>5, <1>7, <1>9
  <2> QED BY <2>1
<1> HIDE DEF now, first, woken, self, rq, st
<1> QED BY <1>1, <1>8, <1>9, <1>10, SwitchKeeps

\* No step brings a terminated process back.
LEMMA StepKeeps ==
    ASSUME IInv, [Next]_vars, NEW r \in Proc, state[r] = "TERMINATED"
    PROVE  state'[r] = "TERMINATED"
<1> USE ProcFacts
<1>1. /\ state \in [AllProc -> States] /\ readyQueue \in Seq(Proc)
      /\ \A q \in Range(readyQueue) : q \in Proc /\ state[q] = "READY"
  <2>1. state \in [AllProc -> States] /\ readyQueue \in Seq(Proc) BY DEF IInv, TypeOK
  <2> QED BY <2>1, RangeOfSeq DEF IInv, ReadyQueueExact
<1>2. CASE UNCHANGED vars BY <1>2 DEF vars
<1>3. CASE Boot BY <1>1, <1>3, SwitchKeeps DEF Boot
<1>5. ASSUME NEW p \in AllProc, Tick(p) PROVE state'[r] = "TERMINATED"
  BY <1>5, TickKeeps
<1>6. ASSUME NEW p \in AllProc, Resume(p) PROVE state'[r] = "TERMINATED"
  BY <1>6 DEF Resume, Entry, ReturnFromYield, ReturnFromIrq, ReturnKilled
<1>7. ASSUME NEW p \in Proc, NEW rq \in Seq(Proc), NEW x \in States,
             Running(p), SwitchTo(rq, [state EXCEPT ![p] = x]),
             Range(rq) \subseteq Range(readyQueue) \cup {p},
             p \in Range(rq) => x # "TERMINATED"
      PROVE  state'[r] = "TERMINATED"
  <2> DEFINE st == [state EXCEPT ![p] = x]
  <2>1. state[p] = "RUNNING" BY <1>7, RunningFacts
  <2>2. st \in [AllProc -> States] /\ st[r] = "TERMINATED" BY <1>1, <1>7, <2>1
  <2>3. \A q \in Range(rq) : st[q] # "TERMINATED" BY <1>1, <1>7
  <2>4. SwitchTo(rq, st) BY <1>7
  <2> HIDE DEF st
  <2> QED BY <1>7, <2>2, <2>3, <2>4, SwitchKeeps
<1>10. ASSUME NEW p \in AllProc, Key(p) PROVE state'[r] = "TERMINATED"
  BY <1>10 DEF Key
<1>11. ASSUME NEW p \in AllProc, Put(p) PROVE state'[r] = "TERMINATED"
  <2>1. {KbdEmpty, KbdMutex, KbdFull} \subseteq Sem BY KbdAssumption
  <2>2. ASSUME NEW s \in Sem, NEW at, NEW next, PutDown(p, at, s, next), at \in Handling
        PROVE  state'[r] = "TERMINATED"
    <3>1. iDepth[p] = 1 BY <2>2 DEF PutDown, Handler, IInv, FramesExact
    <3>2. state' = state BY <2>2, <3>1 DEF PutDown, Block, switchVars
    <3> QED BY <3>2
  <2>3. ASSUME NEW s \in Sem, NEW at, NEW next, PutUp(p, at, s, next)
        PROVE  state'[r] = "TERMINATED"
    <3>1. CASE waiting[s] = <<>> BY <2>3, <3>1 DEF PutUp, Release
    <3>2. CASE waiting[s] # <<>>
      <4>1. state' = [state EXCEPT ![Head(waiting[s])] = "READY"]
        BY <2>3, <3>2 DEF PutUp, Release
      <4>2. waiting[s] \in Seq(Proc) BY DEF IInv, TypeOK
      <4>3. Head(waiting[s]) \in Range(waiting[s]) /\ Head(waiting[s]) \in Proc
        BY <3>2, <4>2, TailFacts
      <4>4. state[Head(waiting[s])] = "BLOCKED" BY <4>3 DEF IInv, BlockedExact
      <4> QED BY <1>1, <4>1, <4>4
    <3> QED BY <3>1, <3>2
  <2>4. CASE KeyEnds(p) BY <2>4 DEF KeyEnds
  <2>5. "slot" \in Handling /\ "lock" \in Handling BY DEF Handling
  <2> QED BY <1>11, <2>1, <2>2, <2>3, <2>4, <2>5 DEF Put
<1>8. ASSUME NEW p \in Proc, BodyStep(p) PROVE state'[r] = "TERMINATED"
  <2>1. CASE Yield(p)
    <3> DEFINE rq == Append(readyQueue, p)
    <3>1. rq \in Seq(Proc) /\ Range(rq) = Range(readyQueue) \cup {p} BY <1>1, AppendFacts
    <3>2. Running(p) /\ SwitchTo(rq, [state EXCEPT ![p] = "READY"])
      BY <2>1 DEF Yield, InBody
    <3> HIDE DEF rq
    <3> QED BY <3>1, <3>2, <1>7 DEF States
  <2>2. CASE Exit(p) \/ Fault(p) BY <2>2 DEF Exit, Fault, switchVars
  <2>3. CASE CloseFile(p) BY <2>3, MutexFacts, SemKeeps DEF CloseFile
  <2>4. ASSUME NEW child \in Proc, Start(p, child) PROVE state'[r] = "TERMINATED"
    BY <1>1, <2>4 DEF Start
  <2>5. ASSUME NEW child \in Proc, JoinDown(p, child) PROVE state'[r] = "TERMINATED"
    BY <2>5, SemKeeps DEF JoinDown, InBody
  <2>6. ASSUME NEW s \in UserSem, Down(p, s) \/ Up(p, s) PROVE state'[r] = "TERMINATED"
    BY <2>6, SemKeeps DEF Down, Up, InBody
  <2>7. ASSUME NEW target \in Ticks, SleepUntil(p, target) PROVE state'[r] = "TERMINATED"
    <3>1. Running(p) /\ Block(p, target) BY <2>7 DEF SleepUntil, InBody
    <3>2. state[p] = "RUNNING" BY <3>1, RunningFacts
    <3>3. p \notin Range(readyQueue) BY <1>1, <3>2
    <3>4. CASE state' = state BY <3>4
    <3>5. CASE SwitchTo(readyQueue, [state EXCEPT ![p] = "BLOCKED"])
      BY <1>1, <1>7, <3>1, <3>3, <3>5 DEF States
    <3> QED BY <3>1, <3>4, <3>5 DEF Block, switchVars
  <2> QED BY <1>8, <2>1, <2>2, <2>3, <2>4, <2>5, <2>6, <2>7 DEF BodyStep
<1>9. ASSUME NEW p \in Proc, FinishStep(p) PROVE state'[r] = "TERMINATED"
  <2>1. CASE JoinUp(p)
    <3>1. joining[p] \in Sem BY <2>1 DEF JoinUp, IInv, TypeOK
    <3> QED BY <2>1, <3>1, SemKeeps DEF JoinUp
  <2>2. CASE CloseAll(p) BY <2>2, MutexFacts, SemKeeps DEF CloseAll
  <2>3. CASE FileClosed(p) BY <2>3, MutexFacts, SemKeeps DEF FileClosed
  <2>4. CASE CloseAllEnds(p) BY <2>4, MutexFacts, SemKeeps DEF CloseAllEnds
  <2>5. CASE ExitSignal(p) BY <2>5, SemKeeps DEF ExitSignal
  <2>6. CASE ExitSwitch(p)
    <3>1. Running(p) /\ SwitchTo(readyQueue, [state EXCEPT ![p] = "TERMINATED"])
      BY <2>6 DEF ExitSwitch
    <3>2. state[p] = "RUNNING" BY <3>1, RunningFacts
    <3>3. p \notin Range(readyQueue) BY <1>1, <3>2
    <3> QED BY <1>1, <1>7, <3>1, <3>3 DEF States
  <2> QED BY <1>9, <2>1, <2>2, <2>3, <2>4, <2>5, <2>6 DEF FinishStep
<1> QED BY <1>2, <1>3, <1>5, <1>6, <1>8, <1>9, <1>10, <1>11 DEF Next

\* Whatever queue still names it, a terminated process is never made ready or
\* run again: its stack may be freed.
THEOREM TerminatedStays == Spec => TerminatedForever
<1>1. IInv /\ [Next]_vars => [\A p \in Proc : state[p] = "TERMINATED" =>
                                              state'[p] = "TERMINATED"]_vars
  BY StepKeeps
<1> QED BY <1>1, Invariance, PTL DEF Spec, TerminatedForever

(***************************************************************************)
(* The acknowledgement of the timer interrupt.                             *)
(***************************************************************************)

\* A step that neither ends an interrupt nor the process inside it leaves its
\* acknowledgement owed.
LEMMA OwedKept ==
    ASSUME AcknowledgementOwed, inService' = inService,
           \A q \in Faulty : isKilled[q] => isKilled'[q],
           \A q \in AllProc : frame[q] = "irq" /\ state[q] # "TERMINATED" =>
               SomeKilled \/ (frame'[q] = "irq" /\ state'[q] # "TERMINATED")
    PROVE  AcknowledgementOwed'
BY DEF AcknowledgementOwed, SomeKilled

\* down() switches out the running process alone, which is in no interrupt's
\* frame, and terminates nobody; nor does up().
LEMMA SemOwes ==
    ASSUME IInv, AcknowledgementOwed, NEW p \in Proc, Running(p), NEW s \in WaitQueue,
           SemDown(p, s) \/ SemUp(s) \/ Block(p, s), isKilled' = isKilled
    PROVE  AcknowledgementOwed'
<1> USE ProcFacts
<1>1. /\ state \in [AllProc -> States] /\ frame[p] = "none"
      /\ frame \in [AllProc -> Frames]
  BY DEF IInv, TypeOK, Running
<1>2. inService' = inService
  BY DEF SemDown, SemUp, Release, Block, switchVars, cpuVars
<1>3. CASE state' = state /\ frame' = frame
  BY <1>2, <1>3, OwedKept
<1>4. CASE /\ frame' = [frame EXCEPT ![p] = "block"]
           /\ SwitchTo(readyQueue, [state EXCEPT ![p] = "BLOCKED"])
  <2>1. \A q \in AllProc : q # p => state'[q] \in {state[q], "RUNNING"}
    BY <1>1, <1>4 DEF SwitchTo
  <2>2. \A q \in AllProc : frame[q] = "irq" => q # p /\ frame'[q] = "irq"
    BY <1>1, <1>4
  <2> QED BY <1>2, <2>1, <2>2, OwedKept
<1>5. CASE frame' = frame /\ \E w : state' = [state EXCEPT ![w] = "READY"]
  <2>1. \A q \in AllProc : state'[q] \in {state[q], "READY"} BY <1>1, <1>5
  <2> QED BY <1>2, <1>5, <2>1, OwedKept
<1> QED BY <1>3, <1>4, <1>5 DEF SemDown, SemUp, Release, Block, switchVars

\* The interrupted process keeps its frame and its life until it is dispatched.
LEMMA TickOwes ==
    ASSUME IInv, NEW p \in AllProc, Tick(p)
    PROVE  AcknowledgementOwed'
<1> DEFINE now == (jiffies + 1) % JiffyMod
           first == \A t \in Ticks : t < now => waiting[t] = <<>>
           woken == IF first THEN waiting[now] ELSE <<>>
           self == IF p = Idle THEN <<>> ELSE <<p>>
           rq == (readyQueue \o woken) \o self
           st == [q \in AllProc |-> IF q = p \/ q \in Range(woken)
                                    THEN "READY" ELSE state[q]]
<1>1. SwitchTo(rq, st) BY DEF Tick
<1>2. st[p] = "READY" /\ DOMAIN st = AllProc OBVIOUS
<1> HIDE DEF now, first, woken, self, rq, st
<1>3. state'[p] \in {"READY", "RUNNING"} BY <1>1, <1>2 DEF SwitchTo
<1>4. frame'[p] = "irq" BY DEF Tick, IInv, TypeOK
<1> QED BY <1>3, <1>4 DEF AcknowledgementOwed

\* A process dispatched again ends its interrupt, unless it was killed.
LEMMA ResumeOwes ==
    ASSUME IInv, AcknowledgementOwed, NEW p \in AllProc, Resume(p)
    PROVE  AcknowledgementOwed'
<1>1. CASE Entry(p) \/ ReturnFromYield(p)
  <2>1. /\ frame[p] # "irq" /\ frame' = [frame EXCEPT ![p] = "none"]
        /\ state' = state /\ isKilled' = isKilled /\ inService' = inService
    <3>1. CASE Entry(p) BY <3>1 DEF Entry, cpuVars
    <3>2. CASE ReturnFromYield(p) BY <3>2 DEF ReturnFromYield
    <3> QED BY <1>1, <3>1, <3>2
  <2>2. \A q \in AllProc : frame[q] = "irq" => frame'[q] = "irq"
    BY <2>1 DEF IInv, TypeOK
  <2> QED BY <2>1, <2>2, OwedKept
<1>2. CASE ReturnFromIrq(p) BY <1>2 DEF ReturnFromIrq, AcknowledgementOwed
<1>3. CASE ReturnKilled(p)
  <2>1. isKilled[p] /\ isKilled' = isKilled BY <1>3 DEF ReturnKilled
  <2>2. p \in Faulty BY <2>1 DEF IInv, LivesExact
  <2> QED BY <2>1, <2>2 DEF AcknowledgementOwed, SomeKilled
<1> QED BY <1>1, <1>2, <1>3 DEF Resume

\* No step forgets the interrupt in service.
LEMMA StepOwes == IInv /\ AcknowledgementOwed /\ [Next]_vars => AcknowledgementOwed'
<1> USE ProcFacts
<1> SUFFICES ASSUME IInv, AcknowledgementOwed, [Next]_vars PROVE AcknowledgementOwed'
  OBVIOUS
<1>0. /\ state \in [AllProc -> States]
      /\ frame \in [AllProc -> Frames]
      /\ isKilled \in [AllProc -> BOOLEAN]
  BY DEF IInv, TypeOK
<1>1. CASE UNCHANGED vars BY <1>1, OwedKept DEF vars
<1>2. CASE Boot
  <2>1. \A q \in AllProc : state'[q] \in {state[q], "RUNNING"}
    BY <1>0, <1>2 DEF Boot, SwitchTo
  <2>2. frame' = frame /\ isKilled' = isKilled /\ inService' = inService
    BY <1>2 DEF Boot, lifeVars
  <2> QED BY <2>1, <2>2, OwedKept
<1>3. ASSUME NEW p \in AllProc, Tick(p) PROVE AcknowledgementOwed' BY <1>3, TickOwes
<1>4. ASSUME NEW p \in AllProc, Resume(p) PROVE AcknowledgementOwed' BY <1>4, ResumeOwes
<1>7. ASSUME NEW p \in AllProc, Key(p) PROVE AcknowledgementOwed'
  <2>1. /\ frame[p] = "none" /\ frame' = [frame EXCEPT ![p] = "slot"]
        /\ state' = state /\ isKilled' = isKilled /\ inService' = inService
    BY <1>7 DEF Key, Running, lifeVars
  <2>2. \A q \in AllProc : frame[q] = "irq" => frame'[q] = "irq" BY <1>0, <2>1
  <2> QED BY <2>1, <2>2, OwedKept
<1>8. ASSUME NEW p \in AllProc, Put(p) PROVE AcknowledgementOwed'
  <2>1. /\ frame[p] \in Handling /\ current = p /\ inService' = inService
        /\ isKilled' = isKilled
    BY <1>8 DEF Put, PutDown, PutUp, KeyEnds, Handler, Handling, Block, cpuVars, lifeVars
  <2>2. iDepth[p] = 1 /\ \A q \in AllProc : q # p => iDepth[q] = 0
    BY <2>1 DEF IInv, FramesExact, OneInterrupted
  <2>3. \A q \in AllProc : frame[q] # "irq"
    BY <2>1, <2>2 DEF IInv, FramesExact, Handling
  <2> QED BY <2>1, <2>3, OwedKept
<1>5. ASSUME NEW p \in Proc, BodyStep(p) PROVE AcknowledgementOwed'
  <2>1. CASE Yield(p)
    <3>1. /\ frame[p] = "none" /\ frame' = [frame EXCEPT ![p] = "yield"]
          /\ isKilled' = isKilled /\ inService' = inService
      BY <2>1 DEF Yield, InBody, Running, lifeVars
    <3>2. \A q \in AllProc : q # p => state'[q] \in {state[q], "RUNNING"}
      BY <1>0, <2>1 DEF Yield, SwitchTo
    <3>3. \A q \in AllProc : frame[q] = "irq" => q # p /\ frame'[q] = "irq"
      BY <1>0, <3>1
    <3> QED BY <3>1, <3>2, <3>3, OwedKept
  <2>2. CASE Exit(p) \/ Fault(p)
    <3>1. /\ state' = state /\ frame' = frame /\ inService' = inService
          /\ isKilled' = isKilled \/ isKilled' = [isKilled EXCEPT ![p] = TRUE]
      BY <2>2 DEF Exit, Fault, switchVars
    <3>2. \A q \in Faulty : q \in AllProc BY ProcAssumption
    <3>3. \A q \in Faulty : isKilled[q] => isKilled'[q] BY <1>0, <3>1, <3>2
    <3> QED BY <3>1, <3>3, OwedKept
  <2>3. CASE CloseFile(p) BY <2>3, MutexFacts, SemOwes DEF CloseFile
  <2>4. ASSUME NEW child \in Proc, Start(p, child) PROVE AcknowledgementOwed'
    <3>1. /\ state' = [state EXCEPT ![child] = "READY"] /\ frame' = frame
          /\ isKilled' = isKilled /\ inService' = inService
      BY <2>4 DEF Start, lifeVars, cpuVars
    <3>2. \A q \in AllProc : state'[q] \in {state[q], "READY"} BY <1>0, <3>1
    <3> QED BY <3>1, <3>2, OwedKept
  <2>5. ASSUME NEW child \in Proc, JoinDown(p, child) PROVE AcknowledgementOwed'
    BY <2>5, SemOwes DEF JoinDown, InBody
  <2>6. ASSUME NEW s \in UserSem, Down(p, s) \/ Up(p, s) PROVE AcknowledgementOwed'
    BY <2>6, SemOwes DEF Down, Up, InBody, lifeVars
  <2>7. ASSUME NEW target \in Ticks, SleepUntil(p, target) PROVE AcknowledgementOwed'
    BY <2>7, SemOwes DEF SleepUntil, InBody, lifeVars
  <2> QED BY <1>5, <2>1, <2>2, <2>3, <2>4, <2>5, <2>6, <2>7 DEF BodyStep
<1>6. ASSUME NEW p \in Proc, FinishStep(p) PROVE AcknowledgementOwed'
  <2>1. CASE JoinUp(p)
    <3>1. joining[p] \in Sem BY <2>1 DEF JoinUp, IInv, TypeOK
    <3> QED BY <2>1, <3>1, SemOwes DEF JoinUp
  <2>2. CASE CloseAll(p) BY <2>2, MutexFacts, SemOwes DEF CloseAll
  <2>3. CASE FileClosed(p) BY <2>3, MutexFacts, SemOwes DEF FileClosed
  <2>4. CASE CloseAllEnds(p) BY <2>4, MutexFacts, SemOwes DEF CloseAllEnds
  <2>5. CASE ExitSignal(p) BY <2>5, SemOwes DEF ExitSignal
  <2>6. CASE ExitSwitch(p)
    <3>1. frame[p] = "none" /\ frame' = frame /\ isKilled' = isKilled /\ inService' = inService
      BY <2>6 DEF ExitSwitch, Running
    <3>2. \A q \in AllProc : q # p => state'[q] \in {state[q], "RUNNING"}
      BY <1>0, <2>6 DEF ExitSwitch, SwitchTo
    <3>3. \A q \in AllProc : frame[q] = "irq" => q # p BY <3>1
    <3> QED BY <3>1, <3>2, <3>3, OwedKept
  <2> QED BY <1>6, <2>1, <2>2, <2>3, <2>4, <2>5, <2>6 DEF FinishStep
<1> QED BY <1>1, <1>2, <1>3, <1>4, <1>5, <1>6, <1>7, <1>8 DEF Next

\* While the PIC holds the timer interrupt in service some live process still
\* has to acknowledge it, unless one was killed: no step forgets it.  (When
\* that process runs is another matter: TicksAcknowledged.)
THEOREM AcknowledgementNeverForgotten == Spec => []AcknowledgementOwed
<1>1. Init => AcknowledgementOwed BY DEF Init, AcknowledgementOwed
<1>2. IInv /\ AcknowledgementOwed /\ [Next]_vars => AcknowledgementOwed' BY StepOwes
<1> QED BY <1>1, <1>2, Invariance, PTL DEF Spec
=============================================================================
