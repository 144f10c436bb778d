---------------------------- MODULE DesktopProofs ----------------------------
(***************************************************************************)
(* Proofs about what the user sees, for any number of programs.  The       *)
(* windows show whole pictures, memory is corrupted for four reasons       *)
(* only, and the manager's windows mirror the buffers that the kernel gave *)
(* it.  The network game, for every picture, ball, paddle and speed of the *)
(* proportions that Game assumes, and whatever arrives and is lost: the    *)
(* ball stays in the picture, the list of the clients agrees with the      *)
(* connections and the results, and a window shows one result at a time    *)
(* unless a ball was lost.                                                 *)
(***************************************************************************)
EXTENDS Windows, Game, CollectionFacts, TLAPS

(***************************************************************************)
(* The inductive invariant.                                                *)
(***************************************************************************)

\* The part of the types that does not speak of the list of windows, whose
\* links the user's library keeps.
Types ==
    /\ globalBuffer \in Process \cup {Nobody}
    /\ bufferRequests \in [Process -> Seq(Process)]
    /\ childBuffers \in [Process -> Seq(Client)]
    /\ global \in [Process -> Process \cup {Nobody}]
    /\ deleted \subseteq Client
    /\ buffer \in [Process -> [Cells -> Frame \cup {Garbage}]]
    /\ count \in [Process -> 0 .. 1] /\ waiting \in [Process -> Seq(Process)]
    /\ pc \in [Process -> Places]
    /\ drawing \in [Client -> Frame \cup {Garbage}]
    /\ newProcessCount \in Nat
    /\ copy \in [Cells -> Frame \cup {Garbage}]
    /\ corrupted \in BOOLEAN

GlobalPlaces == {"lockGlobal", "request", "unlockGlobal"}
DrawPlaces == {"write 1", "write 2", "unlock"}
LoopPlaces == {"count", "acquire", "renderAll", "render", "lockChild", "copy 1", "copy 2",
               "unlockChild", "rendered", "unfilled", "killed"}
CopyPlaces == {"copy 1", "copy 2", "unlockChild"}

\* Who is where, and what it has in its variables there.
Whereabouts ==
    /\ \A p \in Process : pc[p] \in GlobalPlaces => global[p] \in Process
    /\ global[Manager] # Manager
    /\ pc[Manager] \in {"start", "own"} => globalBuffer # Manager
    /\ pc[Manager] \notin DrawPlaces
    /\ \A c \in Client : pc[c] \notin LoopPlaces
    /\ pc[Manager] \in CopyPlaces \cup {"lockChild"} => last \in Client
    /\ \A p \in Range(bufferRequests[Manager]) : p # Manager
    /\ pc[Manager] = "acquire" /\ globalBuffer = Manager =>
          Len(bufferRequests[Manager]) = newProcessCount

\* Where p has locked the buffer of b, or is about to get it, and where it waits.
Inside(p, b) ==
    \/ pc[p] \in {"request", "unlockGlobal"} /\ b = global[p]
    \/ pc[p] \in DrawPlaces /\ b = p
    \/ pc[p] \in LoopPlaces /\ b = p
    \/ p = Manager /\ pc[p] \in CopyPlaces /\ b = last
Enters(p, b) ==
    \/ pc[p] = "request" /\ b = global[p]
    \/ pc[p] \in {"write 1", "count"} /\ b = p
    \/ p = Manager /\ pc[p] = "copy 1" /\ b = last

\* The mutex of each buffer: free, or one process is inside and others wait.
Exclusive ==
    \A b \in Process :
        /\ IsInjective(waiting[b])
        /\ \A p \in Range(waiting[b]) : Enters(p, b)
        /\ count[b] # 0 => waiting[b] = <<>> /\ \A p \in Process : ~Inside(p, b)
        /\ \A p, q \in Process :
              /\ Inside(p, b) /\ p \notin Range(waiting[b])
              /\ Inside(q, b) /\ q \notin Range(waiting[b])
              => p = q

\* A picture is half drawn only while its program writes it, and half copied
\* only while the manager does.
Pictures ==
    /\ \A b \in Process : IF pc[b] = "write 2" THEN buffer[b][1] = drawing[b]
                                               ELSE buffer[b][1] = buffer[b][2]
    /\ pc[Manager] = "copy 2" => copy[1] = buffer[last][1]
    /\ pc[Manager] \in {"unlockChild", "rendered"} => copy[1] = copy[2]

IInv == Types /\ Whereabouts /\ Exclusive /\ Pictures /\ CorruptionExplained

(***************************************************************************)
(* Locking and unlocking.                                                  *)
(***************************************************************************)

\* The manager is no program, and everybody is a process.
LEMMA WhoFacts == /\ Manager \in Process /\ Client \subseteq Process /\ Manager \notin Client
                  /\ \A p \in Process : p \in Client \/ p = Manager
BY WindowsAssumption DEF Process

\* Somebody locks a buffer: it gets inside, or waits to.
LEMMA DownKeeps ==
    ASSUME Exclusive, count \in [Process -> 0 .. 1], waiting \in [Process -> Seq(Process)],
           NEW p \in Process, NEW b \in Process, Mutexes!Down(p, b), Enters(p, b)',
           \A q, d \in Process : q # p \/ d # b => (Inside(q, d)' => Inside(q, d)),
           \A q, d \in Process : q # p => (Enters(q, d) => Enters(q, d)')
    PROVE  Exclusive' /\ count' \in [Process -> 0 .. 1] /\ waiting' \in [Process -> Seq(Process)]
<1>1. \A d \in Process : p \notin Range(waiting[d])
  BY DEF Mutexes!Down, Mutexes!Asleep, Mutexes!Range, Range
<1>2. \A d \in Process : Range(waiting[d]) \subseteq Process BY RangeOfSeq
<1>3. CASE /\ count[b] # 0 /\ count' = [count EXCEPT ![b] = @ - 1] /\ waiting' = waiting
  <2>1. /\ count' \in [Process -> 0 .. 1] /\ count'[b] = 0
        /\ \A d \in Process : d # b => count'[d] = count[d]
    BY <1>3
  <2>2. \A q \in Process : ~Inside(q, b) BY <1>3 DEF Exclusive
  <2>3. \A q \in Process : Inside(q, b)' => q = p BY <2>2
  <2>4. ASSUME NEW d \in Process
        PROVE  /\ IsInjective(waiting'[d]) /\ \A q \in Range(waiting'[d]) : Enters(q, d)'
               /\ count'[d] # 0 => waiting'[d] = <<>> /\ \A q \in Process : ~Inside(q, d)'
    BY <1>1, <1>2, <1>3, <2>1 DEF Exclusive
  <2>5. ASSUME NEW d \in Process, NEW q \in Process, NEW r \in Process,
               Inside(q, d)', q \notin Range(waiting'[d]), Inside(r, d)', r \notin Range(waiting'[d])
        PROVE  q = r
    <3>1. CASE d = b BY <2>3, <2>5, <3>1
    <3>2. CASE d # b BY <1>3, <2>5, <3>2 DEF Exclusive
    <3> QED BY <3>1, <3>2
  <2> QED BY <1>3, <2>1, <2>4, <2>5 DEF Exclusive
<1>4. CASE count[b] = 0 /\ waiting' = [waiting EXCEPT ![b] = Append(@, p)] /\ count' = count
  <2>1. PICK s : s = waiting[b] OBVIOUS
  <2>2. s \in Seq(Process) /\ IsInjective(s) /\ p \notin Range(s) BY <1>1, <2>1 DEF Exclusive
  <2>3. /\ Append(s, p) \in Seq(Process) /\ Range(Append(s, p)) = Range(s) \cup {p}
        /\ IsInjective(Append(s, p))
    BY <2>2, AppendFacts
  <2>4. /\ waiting' \in [Process -> Seq(Process)] /\ waiting'[b] = Append(s, p)
        /\ \A d \in Process : d # b => waiting'[d] = waiting[d]
    BY <1>4, <2>1, <2>3
  <2>5. ASSUME NEW d \in Process, NEW q \in Range(waiting'[d]) PROVE Enters(q, d)'
    <3>1. CASE d = b /\ q = p BY <3>1
    <3>2. CASE q \in Range(waiting[d]) BY <1>1, <1>2, <3>2 DEF Exclusive
    <3> QED BY <2>1, <2>3, <2>4, <2>5, <3>1, <3>2
  <2>6. \A d \in Process : IsInjective(waiting'[d]) BY <2>3, <2>4 DEF Exclusive
  <2>7. ASSUME NEW d \in Process, count'[d] # 0
        PROVE  waiting'[d] = <<>> /\ \A q \in Process : ~Inside(q, d)'
    BY <1>4, <2>4, <2>7 DEF Exclusive
  <2>8. ASSUME NEW d \in Process, NEW q \in Process, NEW r \in Process,
               Inside(q, d)', q \notin Range(waiting'[d]), Inside(r, d)', r \notin Range(waiting'[d])
        PROVE  q = r
    <3>1. Range(waiting[d]) \subseteq Range(waiting'[d]) BY <2>1, <2>3, <2>4
    <3>2. d = b => q # p /\ r # p BY <2>3, <2>4, <2>8
    <3>3. Inside(q, d) /\ Inside(r, d) BY <2>8, <3>2
    <3> QED BY <2>8, <3>1, <3>3 DEF Exclusive
  <2> QED BY <1>4, <2>4, <2>5, <2>6, <2>7, <2>8 DEF Exclusive
<1> QED BY <1>3, <1>4 DEF Mutexes!Down

\* Whoever is inside unlocks the buffer: the oldest of those who wait is inside
\* now, or nobody.
LEMMA UpKeeps ==
    ASSUME Exclusive, count \in [Process -> 0 .. 1], waiting \in [Process -> Seq(Process)],
           NEW p \in Process, NEW b \in Process, Mutexes!Up(b),
           \A d \in Process : p \notin Range(waiting[d]), Inside(p, b), ~Inside(p, b)',
           \A q, d \in Process : Inside(q, d)' => Inside(q, d),
           \A q, d \in Process : q # p => (Enters(q, d) => Enters(q, d)')
    PROVE  Exclusive' /\ count' \in [Process -> 0 .. 1] /\ waiting' \in [Process -> Seq(Process)]
<1>1. count[b] = 0 BY DEF Exclusive
<1>2. \A d \in Process : Range(waiting[d]) \subseteq Process BY RangeOfSeq
<1>3. CASE /\ waiting[b] = <<>> /\ count' = [count EXCEPT ![b] = @ + 1] /\ waiting' = waiting
  <2>1. /\ count' \in [Process -> 0 .. 1]
        /\ \A d \in Process : d # b => count'[d] = count[d]
    BY <1>1, <1>3
  <2>2. ASSUME NEW q \in Process PROVE ~Inside(q, b)'
    <3>1. \A r \in Process : r \notin Range(waiting[b]) BY <1>3, EmptyFacts
    <3>2. Inside(q, b) => q = p BY <3>1 DEF Exclusive
    <3> QED BY <3>2
  <2>3. ASSUME NEW d \in Process
        PROVE  /\ IsInjective(waiting'[d]) /\ \A q \in Range(waiting'[d]) : Enters(q, d)'
               /\ count'[d] # 0 => waiting'[d] = <<>> /\ \A q \in Process : ~Inside(q, d)'
    <3>1. IsInjective(waiting'[d]) BY <1>3 DEF Exclusive
    <3>2. \A q \in Range(waiting'[d]) : Enters(q, d)' BY <1>2, <1>3 DEF Exclusive
    <3>3. CASE d = b BY <1>3, <2>2, <3>1, <3>2, <3>3
    <3>4. CASE d # b BY <1>3, <2>1, <3>1, <3>2, <3>4 DEF Exclusive
    <3> QED BY <3>3, <3>4
  <2>4. ASSUME NEW d \in Process, NEW q \in Process, NEW r \in Process,
               Inside(q, d)', q \notin Range(waiting'[d]), Inside(r, d)', r \notin Range(waiting'[d])
        PROVE  q = r
    BY <1>3, <2>4 DEF Exclusive
  <2> QED BY <1>3, <2>1, <2>3, <2>4 DEF Exclusive
<1>4. CASE waiting[b] # <<>> /\ waiting' = [waiting EXCEPT ![b] = Tail(@)] /\ count' = count
  <2>1. PICK s : s = waiting[b] OBVIOUS
  <2>2. s \in Seq(Process) /\ IsInjective(s) /\ s # <<>> BY <1>4, <2>1 DEF Exclusive
  <2>3. /\ Tail(s) \in Seq(Process) /\ Range(s) = Range(Tail(s)) \cup {Head(s)}
        /\ IsInjective(Tail(s))
    BY <2>2, TailFacts
  <2>4. /\ waiting' \in [Process -> Seq(Process)] /\ waiting'[b] = Tail(s)
        /\ \A d \in Process : d # b => waiting'[d] = waiting[d]
    BY <1>4, <2>1, <2>3
  <2>5. \A d \in Process : Range(waiting'[d]) \subseteq Range(waiting[d]) BY <2>1, <2>3, <2>4
  <2>6. \A d \in Process : IsInjective(waiting'[d]) BY <2>3, <2>4 DEF Exclusive
  <2>7. ASSUME NEW d \in Process, NEW q \in Range(waiting'[d]) PROVE Enters(q, d)'
    BY <1>2, <2>5 DEF Exclusive
  <2>8. ASSUME NEW d \in Process, count'[d] # 0
        PROVE  waiting'[d] = <<>> /\ \A q \in Process : ~Inside(q, d)'
    BY <1>1, <1>4, <2>4, <2>8 DEF Exclusive
  <2>9. ASSUME NEW d \in Process, NEW q \in Process, NEW r \in Process,
               Inside(q, d)', q \notin Range(waiting'[d]), Inside(r, d)', r \notin Range(waiting'[d])
        PROVE  q = r
    <3>1. CASE d # b BY <2>4, <2>9, <3>1 DEF Exclusive
    <3>2. CASE d = b
      <4>1. ASSUME NEW x \in Process, Inside(x, b)', x \notin Range(waiting'[b])
            PROVE  x = Head(s)
        <5>1. x # p /\ Inside(x, b) BY <4>1
        <5>2. x \in Range(waiting[b]) BY <5>1 DEF Exclusive
        <5> QED BY <2>1, <2>3, <2>4, <4>1, <5>2
      <4> QED BY <2>9, <3>2, <4>1
    <3> QED BY <3>1, <3>2
  <2> QED BY <1>4, <2>4, <2>6, <2>7, <2>8, <2>9 DEF Exclusive
<1> QED BY <1>3, <1>4 DEF Mutexes!Up

\* A step that locks and unlocks nothing.
LEMMA LocksKept ==
    ASSUME Exclusive, waiting \in [Process -> Seq(Process)], NEW p \in Process,
           count' = count, waiting' = waiting,
           \A d \in Process : p \notin Range(waiting[d]),
           \A q, d \in Process : Inside(q, d)' => Inside(q, d),
           \A q, d \in Process : q # p => (Enters(q, d) => Enters(q, d)')
    PROVE  Exclusive'
<1>1. \A d \in Process : Range(waiting[d]) \subseteq Process BY RangeOfSeq
<1>2. ASSUME NEW d \in Process
      PROVE  /\ IsInjective(waiting'[d]) /\ \A q \in Range(waiting'[d]) : Enters(q, d)'
             /\ count'[d] # 0 => waiting'[d] = <<>> /\ \A q \in Process : ~Inside(q, d)'
  BY <1>1 DEF Exclusive
<1>3. ASSUME NEW d \in Process, NEW q \in Process, NEW r \in Process,
             Inside(q, d)', q \notin Range(waiting'[d]), Inside(r, d)', r \notin Range(waiting'[d])
      PROVE  q = r
  BY <1>3 DEF Exclusive
<1> QED BY <1>2, <1>3 DEF Exclusive

(***************************************************************************)
(* One step of one process.                                                *)
(***************************************************************************)

\* Process p goes from one place to another, and nobody else moves.
Moves(p, from, to) ==
    pc[p] = from /\ pc'[p] = to /\ \A q \in Process : q # p => pc'[q] = pc[q]

\* Whoever takes a step waits for nobody, and nothing is corrupted so far.
LEMMA AtFacts ==
    ASSUME NEW p \in Process, NEW place, At(p, place)
    PROVE  /\ pc[p] = place
           /\ ~corrupted /\ \A d \in Process : p \notin Range(waiting[d])
BY DEF At, Mutexes!Asleep, Mutexes!Range, Range

LEMMA GotoFacts ==
    ASSUME pc \in [Process -> Places], NEW p \in Process, NEW from, pc[p] = from,
           NEW to \in Places, Goto(p, to)
    PROVE  pc' \in [Process -> Places] /\ Moves(p, from, to)
BY DEF Goto, Moves

\* Memory is corrupted and the behaviour ends.
LEMMA CorruptedKeeps ==
    ASSUME IInv, corrupted' = TRUE,
           \/ deleted # {} \/ globalBuffer # Manager \/ newProcessCount > 1
           \/ last # Nobody /\ Outside(last) /\ UNCHANGED position,
           UNCHANGED <<globalBuffer, bufferRequests, childBuffers, global, deleted, buffer, count,
                       waiting, pc, drawing, newProcessCount, last, copy>>
    PROVE  IInv'
<1>1. Types' BY DEF IInv, Types
<1>2. Whereabouts' BY DEF IInv, Whereabouts
<1>3. Exclusive'
  <2>1. \A q, d \in Process : (Inside(q, d)' <=> Inside(q, d)) /\ (Enters(q, d)' <=> Enters(q, d))
    BY DEF Inside, Enters
  <2>2. \A d \in Process : Range(waiting[d]) \subseteq Process BY RangeOfSeq DEF IInv, Types
  <2> QED BY <2>1, <2>2 DEF IInv, Exclusive
<1>4. Pictures' BY DEF IInv, Pictures
<1>5. CorruptionExplained' BY DEF CorruptionExplained, Outside
<1> QED BY <1>1, <1>2, <1>3, <1>4, <1>5 DEF IInv

LEMMA DanglingStep ==
    ASSUME IInv, NEW p \in Process, NEW place, NEW b, Dangling(p, place, b)
    PROVE  IInv'
BY CorruptedKeeps DEF Dangling, lists, locks, manager

\* A step that changes nothing that the invariant speaks of; windows are moved
\* only as long as nothing is corrupted.
LEMMA UnchangedKeeps ==
    ASSUME IInv, ~corrupted \/ UNCHANGED position,
           UNCHANGED <<globalBuffer, bufferRequests, childBuffers, global, deleted, buffer, count,
                       waiting, pc, drawing, newProcessCount, last, copy, corrupted>>
    PROVE  IInv'
<1>1. Types' BY DEF IInv, Types
<1>2. Whereabouts' BY DEF IInv, Whereabouts
<1>3. Exclusive'
  <2>1. \A q, d \in Process : (Inside(q, d)' <=> Inside(q, d)) /\ (Enters(q, d)' <=> Enters(q, d))
    BY DEF Inside, Enters
  <2>2. \A d \in Process : Range(waiting[d]) \subseteq Process BY RangeOfSeq DEF IInv, Types
  <2> QED BY <2>1, <2>2 DEF IInv, Exclusive
<1>4. Pictures' BY DEF IInv, Pictures
<1>5. CorruptionExplained' BY DEF IInv, CorruptionExplained, Outside
<1> QED BY <1>1, <1>2, <1>3, <1>4, <1>5 DEF IInv

\* The four locks, and the four unlocks, by place.
LockOf(p, from, b, to) ==
    \/ from = "lockGlobal" /\ b = global[p] /\ to = "request"
    \/ p \in Client /\ from = "draw" /\ b = p /\ to = "write 1"
    \/ p = Manager /\ from = "keys" /\ b = p /\ to = "count"
    \/ p = Manager /\ from = "lockChild" /\ b = last /\ to = "copy 1"
UnlockOf(p, from, b, to) ==
    \/ from = "unlockGlobal" /\ b = global[p] /\ to = "opened"
    \/ p \in Client /\ from = "unlock" /\ b = p /\ to = "loop"
    \/ p = Manager /\ from = "unlockChild" /\ b = last /\ to = "rendered"
    \/ p = Manager /\ from = "render" /\ b = p /\ to = "loop"

LEMMA LockStep ==
    ASSUME IInv, NEW p \in Process, NEW from, NEW b, NEW to, LockOf(p, from, b, to),
           Lock(p, from, b, to)
    PROVE  IInv'
<1>0. pc[p] = from /\ ~corrupted /\ \A d \in Process : p \notin Range(waiting[d])
  BY AtFacts DEF Lock
<1>1. CASE b \in deleted
  BY <1>1, CorruptedKeeps DEF Lock, lists, locks, manager
<1>2. CASE b \notin deleted
  <2>1. corrupted' = FALSE /\ Mutexes!Down(p, b) /\ Goto(p, to)
    <3>1. corrupted' = (b \in deleted) BY Zenon DEF Lock
    <3>2. (b \in deleted) = FALSE BY <1>2
    <3>3. corrupted' = FALSE BY <3>1, <3>2, Zenon
    <3> QED BY <3>3 DEF Lock
  <2>2. UNCHANGED <<globalBuffer, bufferRequests, childBuffers, global, deleted, buffer, drawing,
                    newProcessCount, last, copy>>
    BY DEF Lock, lists, manager
  <2>3. b \in Process
    BY <1>0, WhoFacts DEF LockOf, IInv, Whereabouts, GlobalPlaces
  <2>4. pc' \in [Process -> Places] /\ Moves(p, from, to)
    BY <1>0, <2>1, GotoFacts DEF IInv, Types, LockOf, Places
  <2>5. Enters(p, b)' BY <2>2, <2>4 DEF LockOf, Enters, Moves
  <2>6. \A q, d \in Process : q # p \/ d # b => (Inside(q, d)' => Inside(q, d))
    BY <2>2, <2>4, WhoFacts DEF LockOf, Inside, Moves, DrawPlaces, LoopPlaces, CopyPlaces
  <2>7. \A q, d \in Process : q # p => (Enters(q, d) => Enters(q, d)')
    BY <2>2, <2>4 DEF Enters, Moves
  <2>8. Exclusive' /\ count' \in [Process -> 0 .. 1] /\ waiting' \in [Process -> Seq(Process)]
    BY <2>1, <2>3, <2>5, <2>6, <2>7, DownKeeps DEF IInv, Types
  <2>9. Types' BY <2>1, <2>2, <2>4, <2>8 DEF IInv, Types
  <2>10. Whereabouts'
    BY <2>2, <2>3, <2>4, WhoFacts
    DEF IInv, Whereabouts, LockOf, Moves, GlobalPlaces, DrawPlaces, LoopPlaces, CopyPlaces
  <2>11. Pictures' BY <2>2, <2>4, WhoFacts DEF IInv, Pictures, LockOf, Moves
  <2>12. CorruptionExplained' BY <2>1 DEF CorruptionExplained
  <2> QED BY <2>8, <2>9, <2>10, <2>11, <2>12 DEF IInv
<1> QED BY <1>1, <1>2

LEMMA UnlockStep ==
    ASSUME IInv, NEW p \in Process, NEW from, NEW b, NEW to, UnlockOf(p, from, b, to),
           Unlock(p, from, b, to)
    PROVE  IInv'
<1>0. pc[p] = from /\ ~corrupted /\ \A d \in Process : p \notin Range(waiting[d])
  BY AtFacts DEF Unlock
<1>1. CASE b \in deleted
  BY <1>1, CorruptedKeeps DEF Unlock, lists, locks, manager
<1>2. CASE b \notin deleted
  <2>1. corrupted' = FALSE /\ Mutexes!Up(b) /\ Goto(p, to)
    <3>1. corrupted' = (b \in deleted) BY Zenon DEF Unlock
    <3>2. (b \in deleted) = FALSE BY <1>2
    <3>3. corrupted' = FALSE BY <3>1, <3>2, Zenon
    <3> QED BY <3>3 DEF Unlock
  <2>2. UNCHANGED <<globalBuffer, bufferRequests, childBuffers, global, deleted, buffer, drawing,
                    newProcessCount, last, copy>>
    BY DEF Unlock, lists, manager
  <2>3. b \in Process /\ (from = "unlockChild" => b # Manager)
    BY <1>0, WhoFacts DEF UnlockOf, IInv, Whereabouts, GlobalPlaces, CopyPlaces
  <2>4. pc' \in [Process -> Places] /\ Moves(p, from, to)
    BY <1>0, <2>1, GotoFacts DEF IInv, Types, UnlockOf, Places
  <2>5. Inside(p, b)
    BY <2>4 DEF UnlockOf, Inside, Moves, DrawPlaces, LoopPlaces, CopyPlaces
  <2>6. ~Inside(p, b)'
    BY <2>2, <2>3, <2>4, WhoFacts DEF UnlockOf, Inside, Moves, DrawPlaces, LoopPlaces, CopyPlaces
  <2>7. \A q, d \in Process : Inside(q, d)' => Inside(q, d)
    BY <2>2, <2>4 DEF UnlockOf, Inside, Moves, DrawPlaces, LoopPlaces, CopyPlaces
  <2>8. \A q, d \in Process : q # p => (Enters(q, d) => Enters(q, d)')
    BY <2>2, <2>4 DEF Enters, Moves
  <2>9. Exclusive' /\ count' \in [Process -> 0 .. 1] /\ waiting' \in [Process -> Seq(Process)]
    BY <1>0, <2>1, <2>3, <2>5, <2>6, <2>7, <2>8, UpKeeps DEF IInv, Types
  <2>10. Types' BY <2>1, <2>2, <2>4, <2>9 DEF IInv, Types
  <2>11. Whereabouts'
    BY <2>2, <2>4, WhoFacts
    DEF IInv, Whereabouts, UnlockOf, Moves, GlobalPlaces, DrawPlaces, LoopPlaces, CopyPlaces
  <2>12. Pictures' BY <2>2, <2>4, WhoFacts DEF IInv, Pictures, UnlockOf, Moves
  <2>13. CorruptionExplained' BY <2>1 DEF CorruptionExplained
  <2> QED BY <2>9, <2>10, <2>11, <2>12, <2>13 DEF IInv
<1> QED BY <1>1, <1>2

\* A step that locks and unlocks nothing and corrupts nothing: it is enough
\* that the process stays inside where it is inside.
LEMMA QuietStep ==
    ASSUME IInv, NEW p \in Process, NEW from, NEW to, Moves(p, from, to),
           pc' \in [Process -> Places], corrupted' = FALSE,
           \A d \in Process : p \notin Range(waiting[d]),
           UNCHANGED <<count, waiting>>,
           \A q, d \in Process : Inside(q, d)' => Inside(q, d),
           \A q, d \in Process : q # p => (Enters(q, d) => Enters(q, d)')
    PROVE  Exclusive' /\ CorruptionExplained'
BY LocksKept DEF IInv, Types, CorruptionExplained

LEMMA GetScreenBufferStep ==
    ASSUME IInv, NEW p \in Process, GetScreenBuffer(p) PROVE IInv'
<1> DEFINE to == IF globalBuffer = Nobody THEN "own" ELSE "lockGlobal"
<1>0. pc[p] = "start" /\ ~corrupted /\ \A d \in Process : p \notin Range(waiting[d])
  BY AtFacts DEF GetScreenBuffer
<1>1. PICK place : place = to OBVIOUS
<1>2. place \in Places BY <1>1 DEF Places
<1>3. Goto(p, place) BY <1>1 DEF GetScreenBuffer
<1>4. pc' \in [Process -> Places] /\ Moves(p, "start", place)
  BY <1>0, <1>2, <1>3, GotoFacts DEF IInv, Types
<1>5. /\ UNCHANGED <<globalBuffer, bufferRequests, childBuffers, deleted, buffer, count, waiting,
                     drawing, newProcessCount, last, copy, corrupted>>
      /\ global' = [global EXCEPT ![p] = globalBuffer]
  BY DEF GetScreenBuffer, locks, manager
<1>6. place = "own" \/ (place = "lockGlobal" /\ globalBuffer \in Process)
  BY <1>1 DEF IInv, Types
<1>7. /\ global' \in [Process -> Process \cup {Nobody}] /\ global'[p] = globalBuffer
      /\ \A q \in Process : q # p => global'[q] = global[q]
  BY <1>5 DEF IInv, Types
<1>8. \A q, d \in Process : Inside(q, d)' => Inside(q, d)
  BY <1>4, <1>5, <1>6, <1>7 DEF Inside, Moves, DrawPlaces, LoopPlaces, CopyPlaces
<1>9. \A q, d \in Process : q # p => (Enters(q, d) => Enters(q, d)')
  BY <1>4, <1>5, <1>7 DEF Enters, Moves
<1>10. corrupted' = FALSE BY <1>0, <1>5 DEF IInv, Types
<1>11. Exclusive' /\ CorruptionExplained'
  BY <1>0, <1>4, <1>5, <1>8, <1>9, <1>10, QuietStep
<1>12. Types' BY <1>4, <1>5, <1>7 DEF IInv, Types
<1>13. Whereabouts'
  BY <1>4, <1>5, <1>6, <1>7, WhoFacts
  DEF IInv, Whereabouts, Moves, GlobalPlaces, DrawPlaces, LoopPlaces, CopyPlaces
<1>14. Pictures' BY <1>4, <1>5, <1>6, WhoFacts DEF IInv, Pictures, Moves
<1> QED BY <1>11, <1>12, <1>13, <1>14 DEF IInv

LEMMA OwnScreenStep ==
    ASSUME IInv, NEW p \in Process, OwnScreen(p) PROVE IInv'
<1>0. pc[p] = "own" /\ ~corrupted /\ \A d \in Process : p \notin Range(waiting[d])
  BY AtFacts DEF OwnScreen
<1>1. pc' \in [Process -> Places] /\ Moves(p, "own", "opened")
  BY <1>0, GotoFacts DEF IInv, Types, OwnScreen, Places
<1>2. /\ UNCHANGED <<bufferRequests, childBuffers, global, deleted, buffer, count, waiting,
                     drawing, newProcessCount, last, copy, corrupted>>
      /\ globalBuffer' = p
  BY DEF OwnScreen, locks, manager
<1>3. \A q, d \in Process : Inside(q, d)' => Inside(q, d)
  BY <1>1, <1>2 DEF Inside, Moves, DrawPlaces, LoopPlaces, CopyPlaces
<1>4. \A q, d \in Process : q # p => (Enters(q, d) => Enters(q, d)')
  BY <1>1, <1>2 DEF Enters, Moves
<1>5. corrupted' = FALSE BY <1>0, <1>2 DEF IInv, Types
<1>6. Exclusive' /\ CorruptionExplained' BY <1>0, <1>1, <1>2, <1>3, <1>4, <1>5, QuietStep
<1>7. Types' BY <1>1, <1>2 DEF IInv, Types
<1>8. Whereabouts'
  BY <1>1, <1>2, WhoFacts
  DEF IInv, Whereabouts, Moves, GlobalPlaces, DrawPlaces, LoopPlaces, CopyPlaces
<1>9. Pictures' BY <1>1, <1>2, WhoFacts DEF IInv, Pictures, Moves
<1> QED BY <1>6, <1>7, <1>8, <1>9 DEF IInv

\* A request comes to the manager only while the manager is not inside: the
\* number that it has read from its requests stays true.
LEMMA AddBufferRequestStep ==
    ASSUME IInv, NEW p \in Process, At(p, "request"), global[p] \notin deleted,
           bufferRequests' = [bufferRequests EXCEPT ![global[p]] = Append(@, p)],
           Goto(p, "unlockGlobal"),
           UNCHANGED <<globalBuffer, childBuffers, global, deleted, buffer, locks, drawing, manager,
                       corrupted>>
    PROVE  IInv'
<1>0. pc[p] = "request" /\ ~corrupted /\ \A d \in Process : p \notin Range(waiting[d])
  BY AtFacts
<1>1. pc' \in [Process -> Places] /\ Moves(p, "request", "unlockGlobal")
  BY <1>0, GotoFacts DEF IInv, Types, Places
<1>2. UNCHANGED <<globalBuffer, childBuffers, global, deleted, buffer, count, waiting,
                  drawing, newProcessCount, last, copy, corrupted>>
  BY DEF locks, manager
<1>3. PICK g : g = global[p] OBVIOUS
<1>4. g \in Process /\ (p = Manager => g # Manager)
  BY <1>0, <1>3 DEF IInv, Whereabouts, GlobalPlaces
<1>5. PICK s : s = bufferRequests[g] OBVIOUS
<1>6. s \in Seq(Process) /\ bufferRequests'[g] = Append(s, p)
  BY <1>3, <1>4, <1>5 DEF IInv, Types
<1>7. Append(s, p) \in Seq(Process) /\ Range(Append(s, p)) = Range(s) \cup {p}
  BY <1>6, AppendFacts
<1>8. /\ bufferRequests' \in [Process -> Seq(Process)]
      /\ \A q \in Process : q # g => bufferRequests'[q] = bufferRequests[q]
  BY <1>3, <1>4, <1>5, <1>6, <1>7 DEF IInv, Types
<1>9. ~(pc[Manager] = "acquire" /\ g = Manager)
  <2> SUFFICES ASSUME pc[Manager] = "acquire", g = Manager PROVE FALSE OBVIOUS
  <2>1. p # Manager BY <1>4
  <2>2. Inside(p, Manager) /\ Inside(Manager, Manager)
    BY <1>0, <1>3 DEF Inside, LoopPlaces
  <2>3. ~Enters(Manager, Manager) BY DEF Enters
  <2> QED BY <1>0, <2>1, <2>2, <2>3, WhoFacts DEF IInv, Exclusive
<1>10. \A q, d \in Process : Inside(q, d)' => Inside(q, d)
  BY <1>1, <1>2 DEF Inside, Moves, DrawPlaces, LoopPlaces, CopyPlaces
<1>11. \A q, d \in Process : q # p => (Enters(q, d) => Enters(q, d)')
  BY <1>1, <1>2 DEF Enters, Moves
<1>12. corrupted' = FALSE BY <1>0, <1>2 DEF IInv, Types
<1>13. Exclusive' /\ CorruptionExplained' BY <1>0, <1>1, <1>2, <1>10, <1>11, <1>12, QuietStep
<1>14. Types' BY <1>1, <1>2, <1>8 DEF IInv, Types
<1>15. \A q \in Range(bufferRequests'[Manager]) : q # Manager
  BY <1>4, <1>5, <1>6, <1>7, <1>8, WhoFacts DEF IInv, Whereabouts
<1>16. pc'[Manager] = "acquire" => bufferRequests'[Manager] = bufferRequests[Manager]
  BY <1>1, <1>8, <1>9, WhoFacts DEF Moves
<1>17. Whereabouts'
  BY <1>1, <1>2, <1>15, <1>16, WhoFacts
  DEF IInv, Whereabouts, Moves, GlobalPlaces, DrawPlaces, LoopPlaces, CopyPlaces
<1>18. Pictures' BY <1>1, <1>2, WhoFacts DEF IInv, Pictures, Moves
<1> QED BY <1>13, <1>14, <1>17, <1>18 DEF IInv

LEMMA GetBufferStep ==
    ASSUME IInv, NEW p \in Process, GetBuffer(p) PROVE IInv'
<1>1. PICK g : g = global[p] OBVIOUS
<1>2. CASE LockGlobal(p)
  <2>1. LockOf(p, "lockGlobal", g, "request") /\ Lock(p, "lockGlobal", g, "request")
    BY <1>1, <1>2 DEF LockGlobal, LockOf
  <2> QED BY <2>1, LockStep
<1>3. CASE UnlockGlobal(p)
  <2>1. UnlockOf(p, "unlockGlobal", g, "opened") /\ Unlock(p, "unlockGlobal", g, "opened")
    BY <1>1, <1>3 DEF UnlockGlobal, UnlockOf
  <2> QED BY <2>1, UnlockStep
<1>4. CASE AddBufferRequest(p)
  <2>1. CASE Dangling(p, "request", global[p])
    <3>1. Dangling(p, "request", g) BY <1>1, <2>1
    <3> QED BY <3>1, DanglingStep
  <2> QED BY <1>4, <2>1, AddBufferRequestStep DEF AddBufferRequest
<1> QED BY <1>2, <1>3, <1>4, GetScreenBufferStep, OwnScreenStep DEF GetBuffer

(***************************************************************************)
(* The programs.                                                           *)
(***************************************************************************)

\* A program moves outside of all mutexes, or stays inside of its own.
LEMMA ProgramMoves ==
    ASSUME IInv, NEW c \in Client, NEW from, NEW to \in Places, At(c, from), Goto(c, to),
           to \in DrawPlaces => from \in DrawPlaces,
           to \notin GlobalPlaces, to \notin LoopPlaces, to \notin {"start", "own"},
           UNCHANGED <<globalBuffer, bufferRequests, childBuffers, global, count, waiting,
                       newProcessCount, last, copy, corrupted>>
    PROVE  /\ pc' \in [Process -> Places] /\ Moves(c, from, to)
           /\ Whereabouts' /\ Exclusive' /\ CorruptionExplained'
<1>0. /\ pc[c] = from /\ ~corrupted /\ \A d \in Process : c \notin Range(waiting[d])
      /\ c \in Process /\ c # Manager
  BY AtFacts, WhoFacts
<1>1. pc' \in [Process -> Places] /\ Moves(c, from, to)
  BY <1>0, GotoFacts DEF IInv, Types
<1>2. \A q, d \in Process : Inside(q, d)' => Inside(q, d)
  BY <1>0, <1>1 DEF Inside, Moves, GlobalPlaces
<1>3. \A q, d \in Process : q # c => (Enters(q, d) => Enters(q, d)')
  BY <1>1 DEF Enters, Moves
<1>4. corrupted' = FALSE BY <1>0 DEF IInv, Types
<1>5. Exclusive' /\ CorruptionExplained' BY <1>0, <1>1, <1>2, <1>3, <1>4, QuietStep
<1>6. Whereabouts' BY <1>0, <1>1, WhoFacts DEF IInv, Whereabouts, Moves
<1> QED BY <1>1, <1>5, <1>6

LEMMA ExitStep ==
    ASSUME IInv, NEW c \in Client, Exit(c) PROVE IInv'
<1>0. PICK from \in {"opened", "loop"} : At(c, from) BY DEF Exit
<1>1. /\ Goto(c, "gone") /\ deleted' = deleted \cup {c}
      /\ UNCHANGED <<globalBuffer, bufferRequests, childBuffers, global, buffer, count, waiting,
                     drawing, newProcessCount, last, copy, corrupted>>
  BY DEF Exit, lists, locks, manager
<1>2. /\ pc' \in [Process -> Places] /\ Moves(c, from, "gone")
      /\ Whereabouts' /\ Exclusive' /\ CorruptionExplained'
  BY <1>0, <1>1, ProgramMoves DEF Places, DrawPlaces, GlobalPlaces, LoopPlaces
<1>3. Types' BY <1>1, <1>2 DEF IInv, Types
<1>4. Pictures' BY <1>0, <1>1, <1>2, WhoFacts DEF IInv, Pictures, Moves
<1> QED BY <1>2, <1>3, <1>4 DEF IInv

LEMMA DrawStep ==
    ASSUME IInv, NEW c \in Client, NEW frame \in Frame, Draw(c, frame) PROVE IInv'
<1>1. PICK from \in {"opened", "loop"} : At(c, from) BY DEF Draw
<1>2. /\ Goto(c, "draw") /\ drawing' = [drawing EXCEPT ![c] = frame]
      /\ UNCHANGED <<globalBuffer, bufferRequests, childBuffers, global, deleted, buffer, count,
                     waiting, newProcessCount, last, copy, corrupted>>
  BY DEF Draw, lists, locks, manager
<1>3. /\ pc' \in [Process -> Places] /\ Moves(c, from, "draw")
      /\ Whereabouts' /\ Exclusive' /\ CorruptionExplained'
  BY <1>1, <1>2, ProgramMoves DEF Places, DrawPlaces, GlobalPlaces, LoopPlaces
<1>4. Types' BY <1>2, <1>3 DEF IInv, Types
<1>5. \A b \in Process : b # c => drawing'[b] = drawing[b] BY <1>2 DEF IInv, Types
<1>6. Pictures' BY <1>1, <1>2, <1>3, <1>5, WhoFacts DEF IInv, Pictures, Moves
<1> QED BY <1>3, <1>4, <1>6 DEF IInv

\* While a program writes its buffer the manager does not copy it.
LEMMA WriteScreenStep ==
    ASSUME IInv, NEW c \in Client, WriteScreen(c) PROVE IInv'
<1>1. PICK cell \in Cells :
         /\ At(c, <<"write 1", "write 2">>[cell])
         /\ buffer' = [buffer EXCEPT ![c][cell] = drawing[c]]
         /\ Goto(c, <<"write 2", "unlock">>[cell])
         /\ UNCHANGED <<lists, deleted, locks, drawing, manager, corrupted>>
  BY DEF WriteScreen
<1>2. UNCHANGED <<globalBuffer, bufferRequests, childBuffers, global, deleted, count, waiting,
                  drawing, newProcessCount, last, copy, corrupted>>
  BY <1>1 DEF lists, locks, manager
<1>3. PICK from, to : /\ from = <<"write 1", "write 2">>[cell]
                      /\ to = <<"write 2", "unlock">>[cell]
  OBVIOUS
<1>4. \/ cell = 1 /\ from = "write 1" /\ to = "write 2"
      \/ cell = 2 /\ from = "write 2" /\ to = "unlock"
  <2>1. CASE cell = 1 BY <1>3, <2>1
  <2>2. CASE cell = 2 BY <1>3, <2>2
  <2> QED BY <2>1, <2>2 DEF Cells
<1>5. /\ pc' \in [Process -> Places] /\ Moves(c, from, to)
      /\ Whereabouts' /\ Exclusive' /\ CorruptionExplained'
  <2>1. At(c, from) /\ Goto(c, to) BY <1>1, <1>3
  <2> QED BY <1>2, <1>4, <2>1, ProgramMoves DEF Places, DrawPlaces, GlobalPlaces, LoopPlaces
<1>6. c \in Process /\ c # Manager /\ drawing[c] \in Frame \cup {Garbage}
  BY WhoFacts DEF IInv, Types
<1>7. /\ buffer' \in [Process -> [Cells -> Frame \cup {Garbage}]]
      /\ buffer'[c][cell] = drawing[c]
      /\ \A d \in Cells : d # cell => buffer'[c][d] = buffer[c][d]
      /\ \A b \in Process : b # c => buffer'[b] = buffer[b]
  BY <1>1, <1>6 DEF IInv, Types
<1>8. Types' BY <1>2, <1>5, <1>7 DEF IInv, Types
<1>9. ASSUME NEW b \in Process
      PROVE  IF pc'[b] = "write 2" THEN buffer'[b][1] = drawing'[b]
                                   ELSE buffer'[b][1] = buffer'[b][2]
  <2>1. CASE b = c BY <1>2, <1>4, <1>5, <1>6, <1>7, <2>1 DEF IInv, Pictures, Moves, Cells
  <2>2. CASE b # c BY <1>2, <1>4, <1>5, <1>7, <2>2 DEF IInv, Pictures, Moves
  <2> QED BY <2>1, <2>2
<1>10. ASSUME pc[Manager] = "copy 2" PROVE last # c /\ last \in Process
  <2>1. last \in Client BY <1>10 DEF IInv, Whereabouts, CopyPlaces
  <2>2. Inside(c, c) BY <1>4, <1>5 DEF Inside, Moves, DrawPlaces
  <2>3. Inside(Manager, last) BY <1>10 DEF Inside, CopyPlaces
  <2>4. c \notin Range(waiting[c]) BY <1>1, <1>3, <1>6, AtFacts
  <2>5. ASSUME last = c PROVE FALSE
    <3>1. ~Enters(Manager, c) BY <1>10 DEF Enters
    <3>2. Inside(Manager, c) BY <2>3, <2>5
    <3> QED BY <1>6, <2>2, <2>4, <3>1, <3>2, WhoFacts DEF IInv, Exclusive
  <2> QED BY <2>1, <2>5, WhoFacts
<1>11. pc'[Manager] = pc[Manager] BY <1>5, <1>6, WhoFacts DEF Moves
<1>12. Pictures' BY <1>2, <1>7, <1>9, <1>10, <1>11 DEF IInv, Pictures
<1> QED BY <1>5, <1>8, <1>12 DEF IInv

LEMMA ProgramStep ==
    ASSUME IInv, NEW c \in Client, Program(c) PROVE IInv'
<1>1. c \in Process BY WhoFacts
<1>2. CASE LockScreen(c)
  <2>1. LockOf(c, "draw", c, "write 1") /\ Lock(c, "draw", c, "write 1")
    BY <1>2 DEF LockScreen, LockOf
  <2> QED BY <1>1, <2>1, LockStep
<1>3. CASE UnlockScreen(c)
  <2>1. UnlockOf(c, "unlock", c, "loop") /\ Unlock(c, "unlock", c, "loop")
    BY <1>3 DEF UnlockScreen, UnlockOf
  <2> QED BY <1>1, <2>1, UnlockStep
<1> QED BY <1>2, <1>3, WriteScreenStep DEF Program

(***************************************************************************)
(* The manager.                                                            *)
(***************************************************************************)

\* The manager goes on inside of its own mutex, or outside of all.
LEMMA ManagerMoves ==
    ASSUME IInv, NEW from, NEW to \in Places, At(Manager, from), Goto(Manager, to),
           to \in LoopPlaces => from \in LoopPlaces,
           to \notin GlobalPlaces, to \notin DrawPlaces,
           to \in CopyPlaces => from \in CopyPlaces /\ last' = last,
           to # "write 1", to # "count", to # "copy 1",
           UNCHANGED <<global, count, waiting, corrupted>>
    PROVE  /\ pc' \in [Process -> Places] /\ Moves(Manager, from, to)
           /\ Exclusive' /\ CorruptionExplained'
<1>0. /\ pc[Manager] = from /\ ~corrupted /\ \A d \in Process : Manager \notin Range(waiting[d])
  BY AtFacts, WhoFacts
<1>1. pc' \in [Process -> Places] /\ Moves(Manager, from, to)
  BY <1>0, GotoFacts, WhoFacts DEF IInv, Types
<1>2. \A c \in Client : pc[c] \notin LoopPlaces BY DEF IInv, Whereabouts
<1>3. \A q, d \in Process : Inside(q, d)' => Inside(q, d)
  BY <1>1, <1>2 DEF Inside, Moves, GlobalPlaces
<1>4. \A q, d \in Process : q # Manager => (Enters(q, d) => Enters(q, d)')
  BY <1>1 DEF Enters, Moves
<1>5. corrupted' = FALSE BY <1>0 DEF IInv, Types
<1> QED BY <1>0, <1>1, <1>3, <1>4, <1>5, QuietStep, WhoFacts

LEMMA RunStep == ASSUME IInv, Run PROVE IInv'
<1>1. PICK from \in {"opened", "loop"} : At(Manager, from) BY DEF Run
<1>2. /\ Goto(Manager, "keys")
      /\ UNCHANGED <<globalBuffer, bufferRequests, childBuffers, global, deleted, buffer, count,
                     waiting, drawing, newProcessCount, last, copy, corrupted>>
  BY DEF Run, lists, locks
<1>3. /\ pc' \in [Process -> Places] /\ Moves(Manager, from, "keys")
      /\ Exclusive' /\ CorruptionExplained'
  BY <1>1, <1>2, ManagerMoves DEF Places, DrawPlaces, GlobalPlaces, LoopPlaces, CopyPlaces
<1>4. Types' BY <1>2, <1>3 DEF IInv, Types
<1>5. Whereabouts'
  BY <1>2, <1>3, WhoFacts
  DEF IInv, Whereabouts, Moves, GlobalPlaces, DrawPlaces, LoopPlaces, CopyPlaces
<1>6. Pictures' BY <1>1, <1>2, <1>3, WhoFacts DEF IInv, Pictures, Moves
<1> QED BY <1>3, <1>4, <1>5, <1>6 DEF IInv

LEMMA KeysStep == ASSUME IInv, MoveFrontToEnd \/ MoveForeground PROVE IInv'
<1>1. UNCHANGED <<globalBuffer, bufferRequests, childBuffers, global, deleted, buffer, count,
                  waiting, pc, drawing, newProcessCount, last, copy, corrupted>>
  BY DEF MoveFrontToEnd, MoveForeground, lists, locks
<1>2. ~corrupted BY DEF MoveFrontToEnd, MoveForeground, At
<1> QED BY <1>1, <1>2, UnchangedKeeps

LEMMA GetBufferRequestCountStep == ASSUME IInv, GetBufferRequestCount PROVE IInv'
<1>1. CASE Dangling(Manager, "count", globalBuffer)
  <2>1. PICK g : g = globalBuffer OBVIOUS
  <2>2. Dangling(Manager, "count", g) BY <1>1, <2>1
  <2> QED BY <2>2, DanglingStep, WhoFacts
<1>2. CASE ~Dangling(Manager, "count", globalBuffer)
  <2>1. /\ At(Manager, "count")
        /\ newProcessCount' = IF globalBuffer = Manager THEN Len(bufferRequests[Manager]) ELSE 0
        /\ Goto(Manager, IF newProcessCount' > 0 THEN "acquire" ELSE "renderAll")
        /\ UNCHANGED <<globalBuffer, bufferRequests, childBuffers, global, deleted, buffer, count,
                       waiting, drawing, last, copy, corrupted>>
    BY <1>2 DEF GetBufferRequestCount, lists, locks
  <2>2. PICK to : to = IF newProcessCount' > 0 THEN "acquire" ELSE "renderAll" OBVIOUS
  <2>3. to \in {"acquire", "renderAll"} BY <2>2
  <2>4. Goto(Manager, to) BY <2>1, <2>2
  <2>5. /\ pc' \in [Process -> Places] /\ Moves(Manager, "count", to)
        /\ Exclusive' /\ CorruptionExplained'
    BY <2>1, <2>3, <2>4, ManagerMoves
    DEF Places, DrawPlaces, GlobalPlaces, LoopPlaces, CopyPlaces
  <2>6. newProcessCount' \in Nat
    <3>1. Len(bufferRequests[Manager]) \in Nat BY WhoFacts DEF IInv, Types
    <3> QED BY <2>1, <3>1
  <2>7. Types' BY <2>1, <2>5, <2>6 DEF IInv, Types
  <2>8. Whereabouts'
    BY <2>1, <2>3, <2>5, WhoFacts
    DEF IInv, Whereabouts, Moves, GlobalPlaces, DrawPlaces, LoopPlaces, CopyPlaces
  <2>9. Pictures' BY <2>1, <2>3, <2>5, WhoFacts DEF IInv, Pictures, Moves
  <2> QED BY <2>5, <2>7, <2>8, <2>9 DEF IInv
<1> QED BY <1>1, <1>2

\* The array is big enough for one request, and the manager takes all requests.
LEMMA AcquireStep == ASSUME IInv, AcquireNewChildProcesses PROVE IInv'
<1> DEFINE requests == bufferRequests[Manager]
           Bad == \/ globalBuffer # Manager
                  \/ \E a \in DOMAIN requests : Beyond(a - 1) \/ requests[a] \in deleted
<1>0. /\ At(Manager, "acquire") /\ requests \in Seq(Process) /\ newProcessCount \in Nat
      /\ pc[Manager] = "acquire"
  BY AtFacts, WhoFacts DEF AcquireNewChildProcesses, IInv, Types
<1>1. UNCHANGED <<globalBuffer, global, deleted, buffer, count, waiting, drawing, last, copy>>
  BY DEF AcquireNewChildProcesses, lists, locks
<1>2. CASE Bad
  <2>1. corrupted' = TRUE /\ UNCHANGED <<bufferRequests, childBuffers, pc, newProcessCount>>
    BY <1>2 DEF AcquireNewChildProcesses, lists
  <2>2. ASSUME globalBuffer = Manager, deleted = {} PROVE newProcessCount > 1
    <3>1. Len(requests) = newProcessCount BY <1>0, <2>2 DEF IInv, Whereabouts
    <3>2. PICK a \in DOMAIN requests : Beyond(a - 1) BY <1>2, <2>2
    <3>3. a \in 1 .. newProcessCount BY <1>0, <3>1, <3>2
    <3>4. 9 * (a - 1) + 2 >= 3 * newProcessCount BY <3>2 DEF Beyond
    <3> QED BY <1>0, <3>3, <3>4
  <2> QED BY <1>1, <2>1, <2>2, CorruptedKeeps
<1>3. CASE ~Bad
  <2>1. /\ bufferRequests' = [bufferRequests EXCEPT ![Manager] = <<>>]
        /\ childBuffers' = [childBuffers EXCEPT ![Manager] = Reverse(requests) \o @]
        /\ Goto(Manager, "renderAll") /\ corrupted' = corrupted /\ newProcessCount' = 0
    BY <1>3 DEF AcquireNewChildProcesses
  <2>2. /\ pc' \in [Process -> Places] /\ Moves(Manager, "acquire", "renderAll")
        /\ Exclusive' /\ CorruptionExplained'
    BY <1>0, <1>1, <2>1, ManagerMoves
    DEF Places, DrawPlaces, GlobalPlaces, LoopPlaces, CopyPlaces
  <2>3. requests \in Seq(Client)
    <3>1. \A q \in Range(requests) : q # Manager BY DEF IInv, Whereabouts
    <3>2. \A j \in DOMAIN requests : requests[j] \in Client BY <1>0, <3>1, WhoFacts DEF Range
    <3> QED BY <1>0, <3>2
  <2>4. Reverse(requests) \in Seq(Client) BY <2>3 DEF Reverse
  <2>5. childBuffers' \in [Process -> Seq(Client)]
    <3>1. Reverse(requests) \o childBuffers[Manager] \in Seq(Client)
      BY <2>4, WhoFacts DEF IInv, Types
    <3> QED BY <2>1, <3>1 DEF IInv, Types
  <2>6. bufferRequests' \in [Process -> Seq(Process)] /\ Range(bufferRequests'[Manager]) = {}
    BY <2>1, EmptyFacts, WhoFacts DEF IInv, Types
  <2>7. Types' BY <1>1, <2>1, <2>2, <2>5, <2>6 DEF IInv, Types
  <2>8. Whereabouts'
    BY <1>1, <2>2, <2>6, WhoFacts
    DEF IInv, Whereabouts, Moves, GlobalPlaces, DrawPlaces, LoopPlaces, CopyPlaces
  <2>9. Pictures' BY <1>1, <2>2, WhoFacts DEF IInv, Pictures, Moves
  <2> QED BY <2>2, <2>7, <2>8, <2>9 DEF IInv
<1> QED BY <1>2, <1>3

LEMMA RenderChildrenStep == ASSUME IInv, RenderChildren PROVE IInv'
<1>1. /\ At(Manager, "renderAll") /\ Goto(Manager, "render")
      /\ UNCHANGED <<globalBuffer, bufferRequests, childBuffers, global, deleted, buffer, count,
                     waiting, drawing, newProcessCount, copy, corrupted>>
  BY DEF RenderChildren, lists, locks
<1>2. /\ pc' \in [Process -> Places] /\ Moves(Manager, "renderAll", "render")
      /\ Exclusive' /\ CorruptionExplained'
  BY <1>1, ManagerMoves DEF Places, DrawPlaces, GlobalPlaces, LoopPlaces, CopyPlaces
<1>3. Types' BY <1>1, <1>2 DEF IInv, Types
<1>4. Whereabouts'
  BY <1>1, <1>2, WhoFacts
  DEF IInv, Whereabouts, Moves, GlobalPlaces, DrawPlaces, LoopPlaces, CopyPlaces
<1>5. Pictures' BY <1>1, <1>2, WhoFacts DEF IInv, Pictures, Moves
<1> QED BY <1>2, <1>3, <1>4, <1>5 DEF IInv

LEMMA RenderedStep == ASSUME IInv, Rendered PROVE IInv'
<1>0. PICK from \in {"rendered", "unfilled"} : At(Manager, from) BY DEF Rendered
<1>1. /\ Goto(Manager, "render") /\ copy' = [c \in Cells |-> Garbage]
      /\ UNCHANGED <<globalBuffer, bufferRequests, childBuffers, global, deleted, buffer, count,
                     waiting, drawing, newProcessCount, corrupted>>
  BY DEF Rendered, lists, locks
<1>2. /\ pc' \in [Process -> Places] /\ Moves(Manager, from, "render")
      /\ Exclusive' /\ CorruptionExplained'
  BY <1>0, <1>1, ManagerMoves DEF Places, DrawPlaces, GlobalPlaces, LoopPlaces, CopyPlaces
<1>3. Types' BY <1>1, <1>2 DEF IInv, Types
<1>4. Whereabouts'
  BY <1>1, <1>2, WhoFacts
  DEF IInv, Whereabouts, Moves, GlobalPlaces, DrawPlaces, LoopPlaces, CopyPlaces
<1>5. Pictures' BY <1>0, <1>1, <1>2, WhoFacts DEF IInv, Pictures, Moves
<1> QED BY <1>2, <1>3, <1>4, <1>5 DEF IInv

\* The manager leaves its loop's place "render" only with a window to copy.
LEMMA GetChildBufferStep == ASSUME IInv, GetChildBuffer PROVE IInv'
<1> DEFINE list == childBuffers[Manager]
           Before(k) == \A j \in 1 .. k - 1 : list[j] # last
<1>0. /\ At(Manager, "render") /\ pc[Manager] = "render" /\ ~corrupted
      /\ \A d \in Process : Manager \notin Range(waiting[d])
  BY AtFacts, WhoFacts DEF GetChildBuffer
<1>1. /\ UNCHANGED <<globalBuffer, bufferRequests, childBuffers, global, deleted, buffer, count,
                     waiting, drawing, position, newProcessCount, last>>
      /\ copy' = [c \in Cells |-> Garbage] /\ last # Nobody
  BY DEF GetChildBuffer, lists, locks, places
<1>2. PICK to : to = IF globalBuffer # Manager THEN "unfilled"
                     ELSE IF last \in ToSet(list) THEN "lockChild" ELSE "killed"
  OBVIOUS
<1>3. to \in {"unfilled", "lockChild", "killed"} BY <1>2
<1>4. Goto(Manager, to) BY <1>2 DEF GetChildBuffer
<1>5. to = "lockChild" => last \in Client
  <2>1. list \in Seq(Client) BY WhoFacts DEF IInv, Types
  <2> QED BY <1>2, <2>1 DEF ToSet
<1>6. pc' \in [Process -> Places] /\ Moves(Manager, "render", to)
  <2>1. to \in Places BY <1>3 DEF Places
  <2> QED BY <1>0, <1>4, <2>1, GotoFacts, WhoFacts DEF IInv, Types
<1>7. copy' \in [Cells -> Frame \cup {Garbage}] BY <1>1
<1>8. PICK o : o = Outside(last) OBVIOUS
<1>9. corrupted' = \/ o \/ globalBuffer \in deleted
                    \/ /\ globalBuffer = Manager
                       /\ \E k \in DOMAIN list : Before(k) /\ list[k] \in deleted
  BY <1>8 DEF GetChildBuffer
<1>10. corrupted' \in BOOLEAN BY <1>8, <1>9 DEF Outside
<1>11. CorruptionExplained'
  <2>1. corrupted' => deleted # {} \/ o BY <1>9
  <2>2. Outside(last)' = o BY <1>1, <1>8 DEF Outside
  <2> QED BY <1>1, <2>1, <2>2 DEF CorruptionExplained
<1>12. Types' BY <1>1, <1>6, <1>7, <1>10 DEF IInv, Types
<1>13. \A q, d \in Process : Inside(q, d)' => Inside(q, d)
  BY <1>1, <1>3, <1>6 DEF Inside, Moves, LoopPlaces, CopyPlaces, DrawPlaces
<1>14. \A q, d \in Process : q # Manager => (Enters(q, d) => Enters(q, d)')
  BY <1>1, <1>6 DEF Enters, Moves
<1>15. Exclusive' BY <1>0, <1>1, <1>13, <1>14, LocksKept, WhoFacts DEF IInv, Types
<1>16. Whereabouts'
  BY <1>1, <1>3, <1>5, <1>6, WhoFacts
  DEF IInv, Whereabouts, Moves, GlobalPlaces, DrawPlaces, LoopPlaces, CopyPlaces
<1>17. Pictures' BY <1>1, <1>3, <1>6, WhoFacts DEF IInv, Pictures, Moves
<1> QED BY <1>11, <1>12, <1>15, <1>16, <1>17 DEF IInv

\* While the manager copies a window its program does not write.
LEMMA CopyChildStep == ASSUME IInv, CopyChild PROVE IInv'
<1> DEFINE from == <<"copy 1", "copy 2">>
           to == <<"copy 2", "unlockChild">>
<1>1. PICK cell \in Cells, place \in {"copy 1", "copy 2"} :
         /\ place = from[cell]
         /\ \/ Dangling(Manager, place, last)
            \/ /\ At(Manager, place)
               /\ copy' = [copy EXCEPT ![cell] = buffer[last][cell]]
               /\ Goto(Manager, to[cell])
               /\ UNCHANGED <<lists, deleted, buffer, locks, drawing, newProcessCount, last,
                              corrupted>>
  BY DEF CopyChild
<1>2. CASE Dangling(Manager, place, last)
  <2>1. PICK l : l = last OBVIOUS
  <2>2. Dangling(Manager, place, l) BY <1>2, <2>1
  <2> QED BY <2>2, DanglingStep, WhoFacts
<1>3. CASE ~Dangling(Manager, place, last)
  <2>1. /\ At(Manager, place) /\ copy' = [copy EXCEPT ![cell] = buffer[last][cell]]
        /\ UNCHANGED <<globalBuffer, bufferRequests, childBuffers, global, deleted, buffer, count,
                       waiting, drawing, newProcessCount, last, corrupted>>
    BY <1>1, <1>3 DEF lists, locks
  <2>2. PICK next : next = to[cell] OBVIOUS
  <2>3. Goto(Manager, next) BY <1>1, <1>3, <2>2
  <2>4. \/ cell = 1 /\ place = "copy 1" /\ next = "copy 2"
        \/ cell = 2 /\ place = "copy 2" /\ next = "unlockChild"
    <3>1. CASE cell = 1 BY <1>1, <2>2, <3>1
    <3>2. CASE cell = 2 BY <1>1, <2>2, <3>2
    <3> QED BY <3>1, <3>2 DEF Cells
  <2>5. /\ pc' \in [Process -> Places] /\ Moves(Manager, place, next)
        /\ Exclusive' /\ CorruptionExplained'
    BY <2>1, <2>3, <2>4, ManagerMoves
    DEF Places, DrawPlaces, GlobalPlaces, LoopPlaces, CopyPlaces
  <2>6. last \in Client /\ last \in Process
    BY <2>4, <2>5, WhoFacts DEF Moves, IInv, Whereabouts, CopyPlaces
  <2>7. buffer[last] \in [Cells -> Frame \cup {Garbage}] BY <2>6 DEF IInv, Types
  <2>8. /\ copy' \in [Cells -> Frame \cup {Garbage}] /\ copy'[cell] = buffer[last][cell]
        /\ \A d \in Cells : d # cell => copy'[d] = copy[d]
    BY <2>1, <2>7 DEF IInv, Types
  <2>9. Types' BY <2>1, <2>5, <2>8 DEF IInv, Types
  <2>10. Whereabouts'
    BY <2>1, <2>4, <2>5, <2>6, WhoFacts
    DEF IInv, Whereabouts, Moves, GlobalPlaces, DrawPlaces, LoopPlaces, CopyPlaces
  <2>11. pc[last] # "write 2"
    <3> SUFFICES ASSUME pc[last] = "write 2" PROVE FALSE OBVIOUS
    <3>1. PICK l : l = last OBVIOUS
    <3>2. Inside(l, l) /\ Inside(Manager, l)
      BY <2>4, <2>5, <3>1 DEF Inside, Moves, DrawPlaces, CopyPlaces
    <3>3. ~Enters(l, l) BY <3>1 DEF Enters
    <3>4. l \notin Range(waiting[l]) /\ Manager \notin Range(waiting[l])
      BY <2>1, <2>6, <3>1, <3>3, AtFacts, WhoFacts DEF IInv, Exclusive
    <3> QED BY <2>6, <3>1, <3>2, <3>4, WhoFacts DEF IInv, Exclusive
  <2>12. buffer[last][1] = buffer[last][2] BY <2>6, <2>11 DEF IInv, Pictures
  <2>13. pc'[Manager] = "copy 2" => copy'[1] = buffer'[last'][1]
    BY <2>1, <2>4, <2>5, <2>8 DEF Moves
  <2>14. pc'[Manager] \in {"unlockChild", "rendered"} => copy'[1] = copy'[2]
    BY <2>1, <2>4, <2>5, <2>8, <2>12 DEF Moves, IInv, Pictures, Cells
  <2>15. \A b \in Process : IF pc'[b] = "write 2" THEN buffer'[b][1] = drawing'[b]
                                                   ELSE buffer'[b][1] = buffer'[b][2]
    BY <2>1, <2>4, <2>5 DEF Moves, IInv, Pictures
  <2>16. Pictures' BY <2>13, <2>14, <2>15 DEF Pictures
  <2> QED BY <2>5, <2>9, <2>10, <2>16 DEF IInv
<1> QED BY <1>2, <1>3

LEMMA ManagerKeeps == ASSUME IInv, ManagerStep PROVE IInv'
<1>1. PICK l : l = last OBVIOUS
<1>2. CASE LockManager
  <2>1. LockOf(Manager, "keys", Manager, "count") /\ Lock(Manager, "keys", Manager, "count")
    BY <1>2 DEF LockManager, LockOf
  <2> QED BY <2>1, LockStep, WhoFacts
<1>3. CASE LockChild
  <2>1. LockOf(Manager, "lockChild", l, "copy 1") /\ Lock(Manager, "lockChild", l, "copy 1")
    BY <1>1, <1>3 DEF LockChild, LockOf
  <2> QED BY <2>1, LockStep, WhoFacts
<1>4. CASE UnlockChild
  <2>1. /\ UnlockOf(Manager, "unlockChild", l, "rendered")
        /\ Unlock(Manager, "unlockChild", l, "rendered")
    BY <1>1, <1>4 DEF UnlockChild, UnlockOf
  <2> QED BY <2>1, UnlockStep, WhoFacts
<1>5. CASE UnlockManager
  <2>1. UnlockOf(Manager, "render", Manager, "loop") /\ Unlock(Manager, "render", Manager, "loop")
    BY <1>5 DEF UnlockManager, UnlockOf
  <2> QED BY <2>1, UnlockStep, WhoFacts
<1> QED BY <1>2, <1>3, <1>4, <1>5, RunStep, GetBufferRequestCountStep, AcquireStep,
           RenderChildrenStep, GetChildBufferStep, CopyChildStep, RenderedStep DEF ManagerStep

(***************************************************************************)
(* The windows of the manager and the buffers that the kernel gave it.     *)
(***************************************************************************)

\* From the last window to the one in front, each once, the links lead over
\* these, and back: except that the link of the last window is left as it was
\* when another one stood behind it.
Chained(list, windows) ==
    /\ windows \in Seq(Client) /\ IsInjective(windows)
    /\ Chain(list.previous, Nobody, list.last, windows)
    /\ list.first = IF windows = <<>> THEN Nobody ELSE windows[Len(windows)]
    /\ \A k \in 2 .. Len(windows) : list.next[windows[k]] = windows[k - 1]
    /\ Len(windows) = 1 => list.next[windows[1]] = Nobody

\* Before a process asks for a window.
Early == {"start", "own", "lockGlobal", "request"}

Mirror ==
    LET requests == bufferRequests[Manager]
        taken == childBuffers[Manager]
    IN  /\ childWindows \in List!ListType /\ foreground \in Client \cup {Nobody}
        /\ Chained(childWindows, List!Backward(childWindows))
        /\ Range(List!Backward(childWindows)) = Range(taken)
        /\ IsInjective(taken) /\ IsInjective(requests)
        /\ Range(requests) \cap Range(taken) = {}
        /\ \A c \in Range(requests) \cup Range(taken) : pc[c] \notin Early
        /\ last \in Range(taken) \cup {Nobody}
        /\ pc[Manager] \in {"rendered", "unfilled"} => last # Nobody
        /\ pc[Manager] = "acquire" => newProcessCount > 0
        /\ pc[Manager] # "killed"

\* What the walk from the last window on meets.
LEMMA BackwardFacts ==
    ASSUME NEW list, NEW windows, Chained(list, windows) PROVE List!Backward(list) = windows
<1>1. IsFiniteSet(Client) /\ Nobody \notin Client BY WindowsAssumption DEF Process
<1>2. Met(Client, Nobody, list.previous, list.last) = windows
  BY <1>1, WalkFacts DEF Chained
<1>3. List!Backward(list) = Met(Client, Nobody, list.previous, list.last)
  BY DEF List!Backward, List!Walk, Met, List!Cardinality, Cardinality
<1> QED BY <1>2, <1>3

LEMMA EmptyChained == Chained(List!EmptyList, <<>>)
BY EmptyFacts DEF Chained, Chain, List!EmptyList

\* A new window comes to the front: it is the last one that the walk meets.
LEMMA PushChained ==
    ASSUME NEW list \in List!ListType, NEW windows, Chained(list, windows),
           NEW c \in Client, c \notin Range(windows)
    PROVE  /\ List!Push(list, c) \in List!ListType
           /\ Chained(List!Push(list, c), Append(windows, c))
<1> DEFINE l == List!Push(list, c)
           n == Len(windows)
           pushed == Append(windows, c)
<1>0. l \in List!ListType BY DEF List!ListType, List!Link, List!Push
<1>1. /\ l.first = c /\ l.last = (IF list.first = Nobody THEN c ELSE list.last)
      /\ l.next = [list.next EXCEPT ![c] = list.first]
      /\ l.previous = [m \in Client |-> IF m = c THEN Nobody
                                        ELSE IF m = list.first THEN c ELSE list.previous[m]]
  BY DEF List!Push
<1>2. /\ n \in Nat /\ DOMAIN windows = 1 .. n /\ windows \in Seq(Client)
      /\ (\A k \in 1 .. n : windows[k] \in Client /\ windows[k] # c)
      /\ (windows = <<>> <=> n = 0)
  BY LenProperties, EmptySeq, ElementOfSeq DEF Chained, Range
<1>3. pushed \in Seq(Client) /\ IsInjective(pushed) /\ pushed # <<>>
  BY AppendFacts DEF Chained
<1>4. /\ Len(pushed) = n + 1 /\ DOMAIN pushed = 1 .. n + 1 /\ pushed[n + 1] = c
      /\ \A k \in 1 .. n : pushed[k] = windows[k]
  BY <1>2
<1>5. Nobody \notin Client BY WindowsAssumption DEF Process
<1>6. /\ list.last = IF n = 0 THEN Nobody ELSE windows[1]
      /\ list.first = IF n = 0 THEN Nobody ELSE windows[n]
      /\ \A k \in 1 .. n : list.previous[windows[k]] = IF k = n THEN Nobody ELSE windows[k + 1]
      /\ \A k \in 2 .. n : list.next[windows[k]] = windows[k - 1]
      /\ \A j, k \in 1 .. n : j # k => windows[j] # windows[k]
  BY <1>2 DEF Chained, Chain, IsInjective
<1>7. \A m \in Client : l.next[m] = IF m = c THEN list.first ELSE list.next[m]
  BY <1>1 DEF List!ListType, List!Link
<1> HIDE DEF l, n, pushed
<1>8. l.last = pushed[1] BY <1>1, <1>2, <1>4, <1>5, <1>6
<1>9. ASSUME NEW k \in 1 .. n + 1
      PROVE  l.previous[pushed[k]] = IF k = n + 1 THEN Nobody ELSE pushed[k + 1]
  <2>1. CASE k = n + 1 BY <1>1, <1>4, <2>1
  <2>2. CASE k # n + 1
    <3>1. k \in 1 .. n /\ pushed[k] = windows[k] /\ windows[k] \in Client /\ windows[k] # c
      BY <1>2, <1>4, <2>2
    <3>2. windows[k] = list.first <=> k = n BY <1>2, <1>6, <3>1
    <3>3. l.previous[pushed[k]] = IF k = n THEN c ELSE windows[k + 1]
      BY <1>1, <1>6, <3>1, <3>2
    <3> QED BY <1>2, <1>4, <2>2, <3>1, <3>3
  <2> QED BY <2>1, <2>2
<1>10. Chain(l.previous, Nobody, l.last, pushed) BY <1>3, <1>4, <1>8, <1>9 DEF Chain
<1>11. ASSUME NEW k \in 2 .. n + 1 PROVE l.next[pushed[k]] = pushed[k - 1]
  <2>1. CASE k = n + 1
    <3>1. n \in 1 .. n BY <1>2, <2>1
    <3> QED BY <1>2, <1>4, <1>6, <1>7, <2>1, <3>1
  <2>2. CASE k # n + 1
    <3>1. k \in 2 .. n /\ k \in 1 .. n /\ k - 1 \in 1 .. n BY <1>2, <2>2
    <3> QED BY <1>2, <1>4, <1>6, <1>7, <3>1
  <2> QED BY <2>1, <2>2
<1>12. ASSUME Len(pushed) = 1 PROVE l.next[pushed[1]] = Nobody
  <2>1. n = 0
    <3>1. n \in Nat BY <1>2
    <3>2. n + 1 = 1 BY <1>4, <1>12
    <3> QED BY <3>1, <3>2
  <2>2. pushed[1] = c BY <1>4, <2>1
  <2> QED BY <1>6, <1>7, <2>1, <2>2
<1>13. Chained(l, pushed) BY <1>1, <1>3, <1>4, <1>10, <1>11, <1>12 DEF Chained
<1> QED BY <1>0, <1>13 DEF l, pushed

\* The window in front goes to the back: the walk meets it first.
LEMMA MoveChained ==
    ASSUME NEW list \in List!ListType, NEW windows, Chained(list, windows)
    PROVE  /\ List!MoveFrontToEnd(list) \in List!ListType
           /\ \E moved : /\ Chained(List!MoveFrontToEnd(list), moved)
                         /\ Range(moved) = Range(windows)
<1> DEFINE l == List!MoveFrontToEnd(list)
           n == Len(windows)
           v == [k \in 1 .. n |-> IF k = 1 THEN windows[n] ELSE windows[k - 1]]
<1>1. CASE list.first = Nobody \/ list.next[list.first] = Nobody
  <2>1. l = list BY <1>1 DEF List!MoveFrontToEnd
  <2> QED BY <2>1
<1>2. CASE ~(list.first = Nobody \/ list.next[list.first] = Nobody)
  <2>1. /\ n \in Nat /\ DOMAIN windows = 1 .. n /\ windows \in Seq(Client)
        /\ (\A k \in 1 .. n : windows[k] \in Client)
        /\ (windows = <<>> <=> n = 0)
    BY LenProperties, EmptySeq, ElementOfSeq DEF Chained
  <2>2. /\ list.last = IF n = 0 THEN Nobody ELSE windows[1]
        /\ list.first = IF n = 0 THEN Nobody ELSE windows[n]
        /\ \A k \in 1 .. n : list.previous[windows[k]] = IF k = n THEN Nobody ELSE windows[k + 1]
        /\ \A k \in 2 .. n : list.next[windows[k]] = windows[k - 1]
        /\ \A j, k \in 1 .. n : j # k => windows[j] # windows[k]
        /\ n = 1 => list.next[windows[1]] = Nobody
    BY <2>1 DEF Chained, Chain, IsInjective
  <2> HIDE DEF n
  <2>3. n >= 2
    <3>1. n # 0 BY <1>2, <2>2
    <3>2. n # 1 BY <1>2, <2>1, <2>2
    <3> QED BY <2>1, <3>1, <3>2
  <2>4. n \in 2 .. n /\ n \in 1 .. n /\ n - 1 \in 1 .. n /\ 1 \in 1 .. n /\ n - 1 # n
    BY <2>1, <2>3
  <2>5. PICK old, new : old = windows[n] /\ new = windows[n - 1] OBVIOUS
  <2>6. /\ list.first = old /\ list.next[old] = new /\ list.last = windows[1]
        /\ old \in Client /\ new \in Client /\ windows[1] \in Client /\ old # new
    BY <2>1, <2>2, <2>3, <2>4, <2>5
  <2>7. l = [list EXCEPT !.first = new, !.last = old, !.next[list.last] = old,
                         !.previous = [@ EXCEPT ![new] = Nobody, ![old] = list.last]]
    BY <1>2, <2>6 DEF List!MoveFrontToEnd
  <2>8. /\ l.first = new /\ l.last = old /\ l.size = list.size
        /\ l.next = [list.next EXCEPT ![windows[1]] = old]
        /\ l.previous = [list.previous EXCEPT ![new] = Nobody, ![old] = windows[1]]
        /\ l = [first |-> l.first, last |-> l.last, size |-> l.size, next |-> l.next,
                previous |-> l.previous]
    BY <2>6, <2>7 DEF List!ListType
  <2> HIDE DEF l
  <2>9. l \in List!ListType
    BY <2>6, <2>8 DEF List!ListType, List!Link
  <2>10. /\ \A m \in Client : l.next[m] = IF m = windows[1] THEN old ELSE list.next[m]
         /\ \A m \in Client : l.previous[m] = IF m = old THEN windows[1]
                                              ELSE IF m = new THEN Nobody ELSE list.previous[m]
    BY <2>6, <2>8 DEF List!ListType, List!Link
  <2>11. /\ v \in Seq(Client) /\ Len(v) = n /\ DOMAIN v = 1 .. n /\ v # <<>>
         /\ v[1] = old /\ \A k \in 2 .. n : v[k] = windows[k - 1] /\ k - 1 \in 1 .. n
    <3>1. \A k \in 1 .. n : v[k] \in Client BY <2>1, <2>4
    <3>2. v \in Seq(Client) /\ Len(v) = n BY <2>1, <3>1
    <3> QED BY <2>1, <2>3, <2>5, <3>2
  <2> HIDE DEF v
  <2>12. \A j, k \in 1 .. n : j # k => v[j] # v[k]
    <3> SUFFICES ASSUME NEW j \in 1 .. n, NEW k \in 1 .. n, j # k PROVE v[j] # v[k] OBVIOUS
    <3>1. CASE j = 1
      <4>1. k \in 2 .. n /\ k - 1 # n BY <2>1, <3>1
      <4> QED BY <2>2, <2>4, <2>5, <2>11, <3>1, <4>1
    <3>2. CASE k = 1
      <4>1. j \in 2 .. n /\ j - 1 # n BY <2>1, <3>2
      <4> QED BY <2>2, <2>4, <2>5, <2>11, <3>2, <4>1
    <3>3. CASE j # 1 /\ k # 1
      <4>1. j \in 2 .. n /\ k \in 2 .. n /\ j - 1 # k - 1 BY <2>1, <3>3
      <4> QED BY <2>2, <2>11, <4>1
    <3> QED BY <3>1, <3>2, <3>3
  <2>13. IsInjective(v) BY <2>11, <2>12 DEF IsInjective
  <2>14. Range(v) = Range(windows)
    <3>1. ASSUME NEW k \in 1 .. n PROVE v[k] \in Range(windows)
      <4>1. CASE k = 1 BY <2>1, <2>4, <2>5, <2>11, <4>1 DEF Range
      <4>2. CASE k # 1
        <5>1. k \in 2 .. n BY <2>1, <4>2
        <5> QED BY <2>1, <2>11, <5>1 DEF Range
      <4> QED BY <4>1, <4>2
    <3>2. ASSUME NEW k \in 1 .. n PROVE windows[k] \in Range(v)
      <4>1. CASE k = n BY <2>4, <2>5, <2>11, <4>1 DEF Range
      <4>2. CASE k # n
        <5>1. k + 1 \in 2 .. n /\ k + 1 \in 1 .. n /\ (k + 1) - 1 = k BY <2>1, <4>2
        <5>2. v[k + 1] = windows[k] BY <2>11, <5>1
        <5> QED BY <2>11, <5>1, <5>2 DEF Range
      <4> QED BY <4>1, <4>2
    <3> QED BY <2>1, <2>11, <3>1, <3>2 DEF Range
  <2>15. ASSUME NEW k \in 1 .. n
         PROVE  l.previous[v[k]] = IF k = n THEN Nobody ELSE v[k + 1]
    <3>1. CASE k = 1
      <4>1. 2 \in 2 .. n /\ 2 - 1 = 1 BY <2>1, <2>3
      <4>2. v[2] = windows[1] BY <2>11, <4>1
      <4> QED BY <2>3, <2>6, <2>10, <2>11, <3>1, <4>2
    <3>2. CASE k = n
      <4>1. v[n] = new BY <2>4, <2>5, <2>11
      <4> QED BY <2>6, <2>10, <3>2, <4>1
    <3>3. CASE k # 1 /\ k # n
      <4>1. /\ k \in 2 .. n /\ k - 1 \in 1 .. n /\ k - 1 # n /\ k - 1 # n - 1
            /\ k + 1 \in 2 .. n /\ (k + 1) - 1 = k /\ (k - 1) + 1 = k
        BY <2>1, <3>3
      <4>2. v[k] = windows[k - 1] /\ v[k + 1] = windows[k] BY <2>11, <4>1
      <4>3. windows[k - 1] # old /\ windows[k - 1] # new /\ windows[k - 1] \in Client
        BY <2>1, <2>2, <2>4, <2>5, <4>1
      <4>4. list.previous[windows[k - 1]] = windows[k] BY <2>2, <4>1
      <4> QED BY <2>10, <3>3, <4>2, <4>3, <4>4
    <3> QED BY <3>1, <3>2, <3>3
  <2>16. Chain(l.previous, Nobody, l.last, v) BY <2>8, <2>11, <2>15 DEF Chain
  <2>17. ASSUME NEW k \in 2 .. n PROVE l.next[v[k]] = v[k - 1]
    <3>1. CASE k = 2
      <4>1. v[2] = windows[1] BY <2>11, <3>1
      <4> QED BY <2>6, <2>10, <2>11, <3>1, <4>1
    <3>2. CASE k # 2
      <4>1. k - 1 \in 2 .. n /\ k - 1 \in 1 .. n /\ k - 1 # 1 BY <2>1, <3>2
      <4>2. v[k] = windows[k - 1] /\ v[k - 1] = windows[(k - 1) - 1] BY <2>11, <4>1
      <4>3. windows[k - 1] # windows[1] /\ windows[k - 1] \in Client BY <2>1, <2>2, <2>4, <4>1
      <4>4. list.next[windows[k - 1]] = windows[(k - 1) - 1] BY <2>2, <4>1
      <4> QED BY <2>10, <4>2, <4>3, <4>4
    <3> QED BY <3>1, <3>2
  <2>18. l.first = v[Len(v)] BY <2>4, <2>5, <2>8, <2>11
  <2>19. Len(v) # 1 BY <2>3, <2>11
  <2>20. Chained(l, v) BY <2>11, <2>13, <2>16, <2>17, <2>18, <2>19 DEF Chained
  <2> QED BY <2>9, <2>14, <2>20 DEF l
<1> QED BY <1>1, <1>2

\* Whoever has asked or has a window goes on and asks no more.
LEMMA Onward ==
    ASSUME IInv, Mirror, NEW p \in Process, NEW from, NEW to,
           Moves(p, from, to) \/ pc' = pc, to \in Early => from \in Early
    PROVE  \A c \in Range(bufferRequests[Manager]) \cup Range(childBuffers[Manager]) :
              c \in Process /\ pc'[c] \notin Early
<1>1. Range(bufferRequests[Manager]) \subseteq Process /\ Range(childBuffers[Manager]) \subseteq Process
  BY WhoFacts, RangeOfSeq DEF IInv, Types
<1> QED BY <1>1 DEF Mirror, Moves

\* What leaves the windows, the buffers and the requests alone.
LEMMA MirrorStays ==
    ASSUME IInv, Mirror, UNCHANGED <<childWindows, childBuffers>>,
           bufferRequests'[Manager] = bufferRequests[Manager],
           \A c \in Range(bufferRequests[Manager]) \cup Range(childBuffers[Manager]) :
              pc'[c] \notin Early,
           foreground' \in Client \cup {Nobody},
           last' \in Range(childBuffers[Manager]) \cup {Nobody},
           pc'[Manager] \in {"rendered", "unfilled"} => last' # Nobody,
           pc'[Manager] = "acquire" => newProcessCount' > 0,
           pc'[Manager] # "killed"
    PROVE  Mirror'
BY DEF Mirror

\* A step from place to place that touches none of the manager's variables.
LEMMA PlaceStep ==
    ASSUME IInv, Mirror, NEW p \in Process, NEW from, NEW to \in Places,
           At(p, from), Goto(p, to) \/ pc' = pc,
           to \in Early => from \in Early, to # "killed", to # "acquire",
           to \in {"rendered", "unfilled"} => last # Nobody,
           UNCHANGED <<bufferRequests, childBuffers, childWindows, foreground, newProcessCount, last>>
    PROVE  Mirror'
<1>1. pc[p] = from BY AtFacts
<1>2. Moves(p, from, to) \/ pc' = pc BY <1>1, GotoFacts DEF IInv, Types
<1>3. \A c \in Range(bufferRequests[Manager]) \cup Range(childBuffers[Manager]) : pc'[c] \notin Early
  BY <1>2, Onward
<1>4. pc'[Manager] \in {pc[Manager], to} BY <1>2, WhoFacts DEF Moves
<1>5. /\ foreground' \in Client \cup {Nobody}
      /\ last' \in Range(childBuffers[Manager]) \cup {Nobody}
      /\ pc'[Manager] \in {"rendered", "unfilled"} => last' # Nobody
      /\ pc'[Manager] = "acquire" => newProcessCount' > 0
      /\ pc'[Manager] # "killed"
  BY <1>4 DEF Mirror
<1> QED BY <1>3, <1>5, MirrorStays

\* A lock and an unlock are such steps, and so is the use of freed memory.
LEMMA LockMirror ==
    ASSUME IInv, Mirror, NEW p \in Process, NEW from, NEW b, NEW to \in Places,
           Lock(p, from, b, to) \/ Unlock(p, from, b, to),
           to \in Early => from \in Early, to # "killed", to # "acquire",
           to \in {"rendered", "unfilled"} => last # Nobody
    PROVE  Mirror'
<1>1. /\ At(p, from) /\ (Goto(p, to) \/ pc' = pc)
      /\ UNCHANGED <<bufferRequests, childBuffers, childWindows, foreground, newProcessCount, last>>
  BY DEF Lock, Unlock, lists, manager
<1> QED BY <1>1, PlaceStep

LEMMA DanglingMirror ==
    ASSUME IInv, Mirror, NEW p \in Process, NEW place \in Places, NEW b, Dangling(p, place, b),
           place \notin {"killed", "acquire", "rendered", "unfilled"}
    PROVE  Mirror'
<1>1. /\ At(p, place) /\ pc' = pc
      /\ UNCHANGED <<bufferRequests, childBuffers, childWindows, foreground, newProcessCount, last>>
  BY DEF Dangling, lists, manager
<1> QED BY <1>1, PlaceStep

\* A process asks once: it was at a place before, and is past it now.
LEMMA AddRequestMirror ==
    ASSUME IInv, Mirror, NEW p \in Process, At(p, "request"),
           bufferRequests' = [bufferRequests EXCEPT ![global[p]] = Append(@, p)],
           Goto(p, "unlockGlobal"),
           UNCHANGED <<childBuffers, manager>>
    PROVE  Mirror'
<1>1. pc[p] = "request" BY AtFacts
<1>2. Moves(p, "request", "unlockGlobal") BY <1>1, GotoFacts DEF IInv, Types, Places
<1>3. \A c \in Range(bufferRequests[Manager]) \cup Range(childBuffers[Manager]) :
         c \in Process /\ pc'[c] \notin Early
  BY <1>2, Onward DEF Early
<1>4. /\ pc'[p] = "unlockGlobal" /\ (p # Manager => pc'[Manager] = pc[Manager])
      /\ UNCHANGED <<childBuffers, childWindows, foreground, newProcessCount, last>>
  BY <1>2, WhoFacts DEF Moves, manager
<1>5. /\ foreground' \in Client \cup {Nobody}
      /\ last' \in Range(childBuffers[Manager]) \cup {Nobody}
      /\ pc'[Manager] \in {"rendered", "unfilled"} => last' # Nobody
      /\ pc'[Manager] = "acquire" => newProcessCount' > 0
      /\ pc'[Manager] # "killed"
  BY <1>4 DEF Mirror
<1>6. CASE global[p] # Manager
  <2>1. bufferRequests'[Manager] = bufferRequests[Manager] BY <1>6, WhoFacts DEF IInv, Types
  <2> QED BY <1>3, <1>4, <1>5, <2>1, MirrorStays
<1>7. CASE global[p] = Manager
  <2>1. PICK s : s = bufferRequests[Manager] OBVIOUS
  <2>2. s \in Seq(Process) /\ bufferRequests'[Manager] = Append(s, p)
    BY <1>7, <2>1, WhoFacts DEF IInv, Types
  <2>3. p \notin Range(s) /\ p \notin Range(childBuffers[Manager])
    BY <1>1, <2>1 DEF Mirror, Early
  <2>4. IsInjective(s) /\ Range(s) \cap Range(childBuffers[Manager]) = {}
    BY <2>1 DEF Mirror
  <2>5. Range(Append(s, p)) = Range(s) \cup {p} /\ IsInjective(Append(s, p))
    BY <2>2, <2>3, <2>4, AppendFacts
  <2>6. "unlockGlobal" \notin Early BY DEF Early
  <2>7. \A c \in Range(bufferRequests'[Manager]) \cup Range(childBuffers'[Manager]) : pc'[c] \notin Early
    BY <1>3, <1>4, <2>1, <2>2, <2>5, <2>6
  <2>8. /\ IsInjective(bufferRequests'[Manager])
        /\ Range(bufferRequests'[Manager]) \cap Range(childBuffers'[Manager]) = {}
    BY <1>4, <2>2, <2>3, <2>4, <2>5
  <2> QED BY <1>4, <1>5, <2>7, <2>8 DEF Mirror
<1> QED BY <1>6, <1>7

LEMMA GetBufferMirror ==
    ASSUME IInv, Mirror, NEW p \in Process, GetBuffer(p) PROVE Mirror'
<1>1. PICK g : g = global[p] OBVIOUS
<1>2. CASE LockGlobal(p)
  <2>1. Lock(p, "lockGlobal", g, "request") BY <1>1, <1>2 DEF LockGlobal
  <2> QED BY <2>1, LockMirror DEF Places, Early
<1>3. CASE UnlockGlobal(p)
  <2>1. Unlock(p, "unlockGlobal", g, "opened") BY <1>1, <1>3 DEF UnlockGlobal
  <2> QED BY <2>1, LockMirror DEF Places, Early
<1>4. CASE AddBufferRequest(p)
  <2>1. CASE Dangling(p, "request", global[p])
    <3>1. Dangling(p, "request", g) BY <1>1, <2>1
    <3> QED BY <3>1, DanglingMirror DEF Places
  <2> QED BY <1>4, <2>1, AddRequestMirror DEF AddBufferRequest
<1>5. CASE GetScreenBuffer(p)
  <2>1. PICK to : to = IF globalBuffer = Nobody THEN "own" ELSE "lockGlobal" OBVIOUS
  <2>2. to \in {"own", "lockGlobal"} BY <2>1
  <2>3. to \in Places /\ "start" \in Early BY <2>2 DEF Places, Early
  <2>4. /\ At(p, "start") /\ Goto(p, to)
        /\ UNCHANGED <<bufferRequests, childBuffers, childWindows, foreground, newProcessCount, last>>
    BY <1>5, <2>1 DEF GetScreenBuffer, manager
  <2> QED BY <2>2, <2>3, <2>4, PlaceStep
<1>6. CASE OwnScreen(p)
  <2>1. "opened" \in Places /\ "opened" \notin Early BY DEF Places, Early
  <2>2. /\ At(p, "own") /\ Goto(p, "opened")
        /\ UNCHANGED <<bufferRequests, childBuffers, childWindows, foreground, newProcessCount, last>>
    BY <1>6 DEF OwnScreen, manager
  <2> QED BY <2>1, <2>2, PlaceStep
<1> QED BY <1>2, <1>3, <1>4, <1>5, <1>6 DEF GetBuffer

LEMMA ProgramMirror ==
    ASSUME IInv, Mirror, NEW c \in Client,
           Exit(c) \/ Program(c) \/ \E frame \in Frame : Draw(c, frame)
    PROVE  Mirror'
<1>0. c \in Process BY WhoFacts
<1>1. CASE LockScreen(c)
  BY <1>0, <1>1, LockMirror DEF LockScreen, Places, Early
<1>2. CASE UnlockScreen(c)
  BY <1>0, <1>2, LockMirror DEF UnlockScreen, Places, Early
<1>3. ASSUME NEW from, NEW to \in {"gone", "draw", "write 2", "unlock"}, At(c, from), Goto(c, to),
             UNCHANGED <<lists, manager>>
      PROVE  Mirror'
  <2>1. to \in Places /\ to \notin Early BY <1>3 DEF Places, Early
  <2>2. UNCHANGED <<bufferRequests, childBuffers, childWindows, foreground, newProcessCount, last>>
    BY <1>3 DEF lists, manager
  <2> QED BY <1>0, <1>3, <2>1, <2>2, PlaceStep
<1>4. CASE Exit(c) BY <1>3, <1>4 DEF Exit
<1>5. CASE WriteScreen(c)
  <2>1. PICK cell \in Cells :
           /\ At(c, <<"write 1", "write 2">>[cell]) /\ Goto(c, <<"write 2", "unlock">>[cell])
           /\ UNCHANGED <<lists, manager>>
    BY <1>5 DEF WriteScreen
  <2>2. <<"write 2", "unlock">>[cell] \in {"write 2", "unlock"}
    <3>1. CASE cell = 1 BY <3>1
    <3>2. CASE cell = 2 BY <3>2
    <3> QED BY <3>1, <3>2 DEF Cells
  <2> QED BY <1>3, <2>1, <2>2
<1>6. ASSUME NEW frame \in Frame, Draw(c, frame) PROVE Mirror'
  <2>1. PICK place \in {"opened", "loop"} : At(c, place) BY <1>6 DEF Draw
  <2> QED BY <1>3, <1>6, <2>1 DEF Draw
<1> QED BY <1>1, <1>2, <1>4, <1>5, <1>6 DEF Program

\* What a window links to stands before it in the list, or nothing does.
LEMMA PreviousShown ==
    ASSUME NEW list, NEW windows, Chained(list, windows), NEW c \in Range(windows)
    PROVE  c # Nobody /\ list.previous[c] \in Range(windows) \cup {Nobody}
<1>1. /\ Len(windows) \in Nat /\ DOMAIN windows = 1 .. Len(windows)
      /\ \A k \in DOMAIN windows : windows[k] \in Client
  BY LenProperties, ElementOfSeq DEF Chained
<1>2. PICK k \in DOMAIN windows : c = windows[k] BY DEF Range
<1>3. list.previous[c] = IF k = Len(windows) THEN Nobody ELSE windows[k + 1]
  BY <1>2 DEF Chained, Chain
<1>4. k # Len(windows) => k + 1 \in DOMAIN windows BY <1>1, <1>2
<1> QED BY <1>1, <1>2, <1>3, <1>4, WindowsAssumption DEF Range, Process

LEMMA LastShown ==
    ASSUME NEW list, NEW windows, Chained(list, windows)
    PROVE  list.last \in Range(windows) \cup {Nobody}
<1>1. windows # <<>> => 1 \in DOMAIN windows
  BY LenProperties, EmptySeq DEF Chained
<1> QED BY <1>1 DEF Chained, Chain, Range

\* FoldLeft over a single request pushes that one.
LEMMA PushOne ==
    ASSUME NEW w, NEW c, NEW r, r = <<c>>
    PROVE  FoldLeft(List!Push, w, r) = List!Push(w, c)
<1> DEFINE Eq(it) == it = [s \in SUBSET DOMAIN r |->
                           IF s = {} THEN w ELSE List!Push(it[s \ {Max(s)}], r[Max(s)])]
           f == [s \in SUBSET {1} |-> IF s = {} THEN w ELSE List!Push(w, c)]
<1>1. FoldLeft(List!Push, w, r) = (CHOOSE it : Eq(it))[DOMAIN r]
  BY DEF FoldLeft, MapThenFoldSet, Max, List!Push
<1>2. DOMAIN r = {1} /\ r[1] = c OBVIOUS
<1>3. Max({1}) = 1 BY DEF Max
<1>4. SUBSET {1} = {{}, {1}} OBVIOUS
<1>5. Eq(f)
  <2>1. f[{}] = w OBVIOUS
  <2>2. {1} \ {Max({1})} = {} BY <1>3
  <2> HIDE DEF f
  <2>3. ASSUME NEW s \in SUBSET DOMAIN r, s # {}
        PROVE  List!Push(f[s \ {Max(s)}], r[Max(s)]) = List!Push(w, c)
    <3>1. s = {1} BY <1>2, <2>3
    <3> QED BY <1>2, <1>3, <2>1, <2>2, <3>1
  <2> QED BY <1>2, <1>4, <2>3 DEF f
<1>6. PICK g : g = CHOOSE it : Eq(it) OBVIOUS
<1>7. Eq(g) BY <1>5, <1>6
<1>8. DOMAIN r \in SUBSET DOMAIN r /\ {} \in SUBSET DOMAIN r /\ DOMAIN r # {} BY <1>2
<1>9. g[{}] = w BY <1>7, <1>8
<1>10. g[DOMAIN r] = List!Push(g[{}], c)
  <2>1. DOMAIN r \ {Max(DOMAIN r)} = {} /\ r[Max(DOMAIN r)] = c BY <1>2, <1>3
  <2>2. g[DOMAIN r] = List!Push(g[DOMAIN r \ {Max(DOMAIN r)}], r[Max(DOMAIN r)])
    BY <1>7, <1>8
  <2> QED BY <2>1, <2>2
<1> QED BY <1>1, <1>6, <1>9, <1>10

\* The array has room for one request, and then there is one.
LEMMA AcquireMirror == ASSUME IInv, Mirror, AcquireNewChildProcesses PROVE Mirror'
<1>1. PICK requests : requests = bufferRequests[Manager] OBVIOUS
<1>2. PICK taken : taken = childBuffers[Manager] OBVIOUS
<1>3. PICK windows : windows = List!Backward(childWindows) OBVIOUS
<1>0. /\ At(Manager, "acquire") /\ pc[Manager] = "acquire"
      /\ requests \in Seq(Process) /\ taken \in Seq(Client) /\ newProcessCount \in Nat
  BY <1>1, <1>2, AtFacts, WhoFacts DEF AcquireNewChildProcesses, IInv, Types
<1>4. UNCHANGED last BY DEF AcquireNewChildProcesses
<1>5. CASE \/ globalBuffer # Manager
           \/ \E a \in DOMAIN requests : Beyond(a - 1) \/ requests[a] \in deleted
  <2>1. UNCHANGED <<bufferRequests, childBuffers, pc, childWindows, foreground, newProcessCount>>
    BY <1>1, <1>5 DEF AcquireNewChildProcesses, lists
  <2> QED BY <1>4, <2>1 DEF Mirror
<1>6. CASE ~(\/ globalBuffer # Manager
             \/ \E a \in DOMAIN requests : Beyond(a - 1) \/ requests[a] \in deleted)
  <2>1. /\ bufferRequests' = [bufferRequests EXCEPT ![Manager] = <<>>]
        /\ childBuffers' = [childBuffers EXCEPT ![Manager] = Reverse(requests) \o @]
        /\ childWindows' = FoldLeft(List!Push, childWindows, requests)
        /\ foreground' = Last(requests)
        /\ Goto(Manager, "renderAll")
    BY <1>1, <1>6 DEF AcquireNewChildProcesses
  <2>2. Len(requests) = 1
    <3>1. Len(requests) = newProcessCount /\ newProcessCount > 0
      BY <1>0, <1>1, <1>6 DEF IInv, Whereabouts, Mirror
    <3>2. Len(requests) \in DOMAIN requests BY <1>0, <3>1
    <3>3. ~(9 * (Len(requests) - 1) + 2 >= 3 * newProcessCount) BY <1>6, <3>2 DEF Beyond
    <3> QED BY <1>0, <3>1, <3>3
  <2>3. PICK c : c = requests[1] OBVIOUS
  <2>4. requests = <<c>> /\ c \in Process
    <3>1. DOMAIN requests = 1 .. 1 /\ requests[1] \in Process
      <4>1. requests \in Seq(Process) BY <1>0
      <4>2. DOMAIN requests = 1 .. Len(requests) BY <4>1, LenProperties
      <4>3. DOMAIN requests = 1 .. 1 /\ 1 \in 1 .. Len(requests) BY <2>2, <4>2
      <4> QED BY <4>1, <4>3, ElementOfSeq
    <3>2. requests = [i \in 1 .. 1 |-> c] BY <1>0, <2>3, <3>1
    <3> QED BY <2>3, <3>1, <3>2
  <2>5. Range(requests) = {c} BY <2>4 DEF Range
  <2>6. c \in Client /\ c \notin Range(taken) /\ pc[c] \notin Early
    <3>1. c # Manager BY <1>1, <2>5 DEF IInv, Whereabouts
    <3> QED BY <1>1, <1>2, <2>4, <2>5, <3>1 DEF Mirror, Process
  <2>7. Reverse(requests) = <<c>> /\ Last(requests) = c
    <3>1. Reverse(requests) = [i \in 1 .. 1 |-> requests[(1 - i) + 1]] BY <2>2 DEF Reverse
    <3> QED BY <2>2, <2>4, <3>1 DEF Last
  <2>8. /\ bufferRequests'[Manager] = <<>> /\ childBuffers'[Manager] = <<c>> \o taken
        /\ foreground' \in Client
    BY <1>2, <2>1, <2>6, <2>7, WhoFacts DEF IInv, Types
  <2>9. <<c>> \in Seq(Client) /\ Range(<<c>>) = {c} /\ IsInjective(<<c>>) BY <2>6, SingleFacts
  <2>10. /\ Range(<<c>> \o taken) = {c} \cup Range(taken)
         /\ IsInjective(<<c>> \o taken)
    <3>1. IsInjective(taken) BY <1>2 DEF Mirror
    <3>2. Range(<<c>>) \cap Range(taken) = {} BY <2>6, <2>9
    <3>3. PICK one : one = <<c>> OBVIOUS
    <3>4. Range(one \o taken) = Range(one) \cup Range(taken) /\ IsInjective(one \o taken)
      <4>1. one \in Seq(Client) /\ IsInjective(one) BY <2>9, <3>3
      <4>2. Range(one) \cap Range(taken) = {} BY <3>2, <3>3
      <4> QED BY <1>0, <3>1, <4>1, <4>2, ConcatFacts
    <3> QED BY <2>9, <3>3, <3>4
  <2>11. Chained(childWindows, windows) /\ Range(windows) = Range(taken)
         /\ childWindows \in List!ListType
    BY <1>2, <1>3 DEF Mirror
  <2>12. PICK w : w = childWindows OBVIOUS
  <2>13. childWindows' = List!Push(w, c) BY <2>1, <2>4, <2>12, PushOne
  <2>14. List!Push(w, c) \in List!ListType /\ Chained(List!Push(w, c), Append(windows, c))
    BY <2>6, <2>11, <2>12, PushChained
  <2>15. List!Backward(List!Push(w, c)) = Append(windows, c) BY <2>14, BackwardFacts
  <2>16. Range(Append(windows, c)) = Range(windows) \cup {c}
    BY <2>6, <2>11, AppendFacts DEF Chained
  <2>17. List!Backward(childWindows)' = Append(windows, c)
    <3>1. List!Backward(childWindows)' = List!Backward(childWindows') BY DEF List!Backward
    <3> QED BY <2>13, <2>15, <3>1
  <2>18. Moves(Manager, "acquire", "renderAll")
    BY <1>0, <2>1, GotoFacts, WhoFacts DEF IInv, Types, Places
  <2>19. \A d \in Range(requests) \cup Range(taken) : pc'[d] \notin Early
    BY <1>1, <1>2, <2>18, Onward, WhoFacts DEF Early
  <2>20. pc'[Manager] = "renderAll" BY <2>18 DEF Moves
  <2>21. last' \in Range(taken) \cup {Nobody} BY <1>2, <1>4 DEF Mirror
  <2>22. Range(<<>>) = {} /\ IsInjective(<<>>) BY EmptyFacts
  <2> QED BY <2>5, <2>8, <2>10, <2>11, <2>13, <2>14, <2>16, <2>17, <2>19, <2>20, <2>21, <2>22
          DEF Mirror
<1> QED BY <1>5, <1>6

\* The manager looks only for windows whose buffers it was given.
LEMMA GetChildBufferMirror == ASSUME IInv, Mirror, GetChildBuffer PROVE Mirror'
<1>1. PICK windows : windows = List!Backward(childWindows) OBVIOUS
<1>2. PICK l : l = last OBVIOUS
<1>3. /\ At(Manager, "render") /\ pc[Manager] = "render" /\ l # Nobody
      /\ UNCHANGED <<bufferRequests, childBuffers, childWindows, foreground, newProcessCount>>
  BY <1>2, AtFacts, WhoFacts DEF GetChildBuffer, lists
<1>4. /\ l \in Range(windows) /\ Chained(childWindows, windows)
      /\ Range(windows) = Range(childBuffers[Manager])
  BY <1>1, <1>2, <1>3 DEF Mirror
<1>5. last \in ToSet(childBuffers[Manager]) BY <1>2, <1>4 DEF ToSet, Range
<1>6. PICK to \in {"unfilled", "lockChild"} : Goto(Manager, to) /\ last' = last
  <2>1. CASE globalBuffer # Manager BY <2>1 DEF GetChildBuffer
  <2>2. CASE globalBuffer = Manager BY <1>5, <2>2 DEF GetChildBuffer
  <2> QED BY <2>1, <2>2
<1>7. to \in Places /\ to \notin Early BY DEF Places, Early
<1> QED BY <1>2, <1>3, <1>6, <1>7, PlaceStep, WhoFacts

LEMMA ManagerMirror ==
    ASSUME IInv, Mirror, ManagerStep \/ MoveFrontToEnd \/ MoveForeground PROVE Mirror'
<1>1. PICK l : l = last OBVIOUS
<1>2. PICK w : w = childWindows OBVIOUS
<1>3. PICK windows : windows = List!Backward(childWindows) OBVIOUS
<1>4. /\ Chained(w, windows) /\ Range(windows) = Range(childBuffers[Manager])
      /\ w \in List!ListType
  BY <1>2, <1>3 DEF Mirror
<1>5. ASSUME NEW from, NEW to \in Places \ {"acquire", "killed", "rendered", "unfilled"},
             At(Manager, from), Goto(Manager, to), to \notin Early,
             UNCHANGED <<lists, childWindows, newProcessCount>>,
             foreground' \in Client \cup {Nobody}, last' \in Range(windows) \cup {Nobody}
      PROVE  Mirror'
  <2>1. pc[Manager] = from BY <1>5, AtFacts, WhoFacts
  <2>2. Moves(Manager, from, to) BY <1>5, <2>1, GotoFacts, WhoFacts DEF IInv, Types
  <2>3. \A c \in Range(bufferRequests[Manager]) \cup Range(childBuffers[Manager]) : pc'[c] \notin Early
    BY <1>5, <2>2, Onward, WhoFacts
  <2>4. pc'[Manager] = to BY <2>2 DEF Moves
  <2>5. UNCHANGED <<childWindows, childBuffers, bufferRequests>> BY <1>5 DEF lists
  <2> QED BY <1>4, <1>5, <2>3, <2>4, <2>5, MirrorStays
<1>6. foreground \in Client \cup {Nobody} /\ last \in Range(windows) \cup {Nobody}
  BY <1>3 DEF Mirror
<1>7. CASE Run
  <2>1. PICK place \in {"opened", "loop"} : At(Manager, place) BY <1>7 DEF Run
  <2>2. foreground' \in Client \cup {Nobody} BY <1>2, <1>4, <1>7 DEF Run, List!ListType
  <2>3. "keys" \in Places \ {"acquire", "killed", "rendered", "unfilled"} /\ "keys" \notin Early
    BY DEF Places, Early
  <2> QED BY <1>5, <1>6, <1>7, <2>1, <2>2, <2>3 DEF Run
<1>8. CASE MoveFrontToEnd
  <2>1. /\ childWindows' = List!MoveFrontToEnd(w)
        /\ UNCHANGED <<bufferRequests, childBuffers, pc, foreground, newProcessCount, last>>
    BY <1>2, <1>8 DEF MoveFrontToEnd, lists
  <2>2. PICK moved : Chained(List!MoveFrontToEnd(w), moved) /\ Range(moved) = Range(windows)
    BY <1>4, MoveChained
  <2>3. List!MoveFrontToEnd(w) \in List!ListType BY <1>4, MoveChained
  <2>4. List!Backward(List!MoveFrontToEnd(w)) = moved BY <2>2, BackwardFacts
  <2>5. List!Backward(childWindows)' = moved
    <3>1. List!Backward(childWindows)' = List!Backward(childWindows') BY DEF List!Backward
    <3> QED BY <2>1, <2>4, <3>1
  <2> QED BY <1>4, <2>1, <2>2, <2>3, <2>5 DEF Mirror
<1>9. CASE LockManager
  BY <1>9, LockMirror, WhoFacts DEF LockManager, Places, Early
<1>10. CASE GetBufferRequestCount
  <2>1. CASE Dangling(Manager, "count", globalBuffer)
    <3>1. PICK g : g = globalBuffer OBVIOUS
    <3>2. Dangling(Manager, "count", g) BY <2>1, <3>1
    <3> QED BY <3>2, DanglingMirror, WhoFacts DEF Places
  <2>2. CASE ~Dangling(Manager, "count", globalBuffer)
    <3>1. PICK to : to = IF newProcessCount' > 0 THEN "acquire" ELSE "renderAll" OBVIOUS
    <3>2. /\ At(Manager, "count") /\ Goto(Manager, to)
          /\ UNCHANGED <<bufferRequests, childBuffers, childWindows, foreground, last>>
      BY <1>10, <2>2, <3>1 DEF GetBufferRequestCount, lists
    <3>3. pc[Manager] = "count" BY <3>2, AtFacts, WhoFacts
    <3>4. to \in Places /\ to \notin Early BY <3>1 DEF Places, Early
    <3>5. Moves(Manager, "count", to) BY <3>2, <3>3, <3>4, GotoFacts, WhoFacts DEF IInv, Types
    <3>6. \A c \in Range(bufferRequests[Manager]) \cup Range(childBuffers[Manager]) : pc'[c] \notin Early
      BY <3>4, <3>5, Onward, WhoFacts
    <3>7. pc'[Manager] = to BY <3>5 DEF Moves
    <3>8. last' \in Range(childBuffers[Manager]) \cup {Nobody} BY <1>4, <1>6, <3>2
    <3> QED BY <1>6, <3>1, <3>2, <3>6, <3>7, <3>8, MirrorStays
  <2> QED BY <2>1, <2>2
<1>11. CASE RenderChildren
  <2>1. last' \in Range(windows) \cup {Nobody} BY <1>2, <1>4, <1>11, LastShown DEF RenderChildren
  <2>2. "render" \in Places \ {"acquire", "killed", "rendered", "unfilled"} /\ "render" \notin Early
    BY DEF Places, Early
  <2>3. foreground' \in Client \cup {Nobody} BY <1>6, <1>11 DEF RenderChildren
  <2> QED BY <1>5, <1>11, <2>1, <2>2, <2>3 DEF RenderChildren
<1>12. CASE LockChild
  <2>1. Lock(Manager, "lockChild", l, "copy 1") BY <1>1, <1>12 DEF LockChild
  <2> QED BY <2>1, LockMirror, WhoFacts DEF Places, Early
<1>13. CASE CopyChild
  <2>1. PICK cell \in Cells, place \in {"copy 1", "copy 2"} :
           \/ Dangling(Manager, place, last)
           \/ /\ At(Manager, place)
              /\ Goto(Manager, <<"copy 2", "unlockChild">>[cell])
              /\ UNCHANGED <<lists, childWindows, foreground, newProcessCount, last>>
    BY <1>13 DEF CopyChild
  <2>2. CASE Dangling(Manager, place, last)
    <3>1. Dangling(Manager, place, l) BY <1>1, <2>2
    <3>2. place \in Places /\ place \notin {"killed", "acquire", "rendered", "unfilled"}
      BY DEF Places
    <3> QED BY <3>1, <3>2, DanglingMirror, WhoFacts
  <2>3. CASE ~Dangling(Manager, place, last)
    <3>1. PICK to : to = <<"copy 2", "unlockChild">>[cell] OBVIOUS
    <3>2. to \in {"copy 2", "unlockChild"}
      <4>1. CASE cell = 1 BY <3>1, <4>1
      <4>2. CASE cell = 2 BY <3>1, <4>2
      <4> QED BY <4>1, <4>2 DEF Cells
    <3>3. to \in Places \ {"acquire", "killed", "rendered", "unfilled"} /\ to \notin Early
      BY <3>2 DEF Places, Early
    <3> QED BY <1>5, <1>6, <2>1, <2>3, <3>1, <3>3
  <2> QED BY <2>2, <2>3
<1>14. CASE UnlockChild
  <2>1. Unlock(Manager, "unlockChild", l, "rendered") /\ last # Nobody
    BY <1>1, <1>14 DEF UnlockChild
  <2> QED BY <2>1, LockMirror, WhoFacts DEF Places, Early
<1>15. CASE Rendered
  <2>0. PICK place \in {"rendered", "unfilled"} : At(Manager, place) BY <1>15 DEF Rendered
  <2>1. last' = w.previous[l] /\ At(Manager, place) BY <1>1, <1>2, <1>15, <2>0 DEF Rendered
  <2>2. l \in Range(windows)
    <3>1. pc[Manager] \in {"rendered", "unfilled"} BY <2>1, AtFacts, WhoFacts
    <3> QED BY <1>1, <1>6, <3>1 DEF Mirror
  <2>3. last' \in Range(windows) \cup {Nobody} BY <1>4, <2>1, <2>2, PreviousShown
  <2>4. "render" \in Places \ {"acquire", "killed", "rendered", "unfilled"} /\ "render" \notin Early
    BY DEF Places, Early
  <2>5. foreground' \in Client \cup {Nobody} BY <1>6, <1>15 DEF Rendered
  <2> QED BY <1>5, <1>15, <2>1, <2>3, <2>4, <2>5 DEF Rendered
<1>16. CASE UnlockManager
  BY <1>16, LockMirror, WhoFacts DEF UnlockManager, Places, Early
<1>17. CASE MoveForeground
  BY <1>17 DEF MoveForeground, lists, Mirror, List!Backward
<1> QED BY <1>7, <1>8, <1>9, <1>10, <1>11, <1>12, <1>13, <1>14, <1>15, <1>16, <1>17,
           AcquireMirror, GetChildBufferMirror DEF ManagerStep

(***************************************************************************)
(* The theorems.                                                           *)
(***************************************************************************)

LEMMA InitIInv == Init => IInv
<1> SUFFICES ASSUME Init PROVE IInv OBVIOUS
<1>1. /\ count = [p \in Process |-> 1] /\ waiting = [p \in Process |-> <<>>]
      /\ pc = [p \in Process |-> "start"]
  BY DEF Init, Mutexes!SemInit
<1>2. Types
  <2>1. count \in [Process -> 0 .. 1] /\ waiting \in [Process -> Seq(Process)] BY <1>1
  <2>2. pc \in [Process -> Places] BY <1>1 DEF Places
  <2>3. /\ globalBuffer \in Process \cup {Nobody} /\ deleted \subseteq Client
        /\ newProcessCount \in Nat /\ corrupted \in BOOLEAN
    BY DEF Init
  <2>5. bufferRequests \in [Process -> Seq(Process)] /\ childBuffers \in [Process -> Seq(Client)]
    <3>1. <<>> \in Seq(Process) /\ <<>> \in Seq(Client) OBVIOUS
    <3> QED BY <3>1 DEF Init
  <2>6. global \in [Process -> Process \cup {Nobody}] BY DEF Init
  <2>4. /\ buffer \in [Process -> [Cells -> Frame \cup {Garbage}]]
        /\ drawing \in [Client -> Frame \cup {Garbage}]
        /\ copy \in [Cells -> Frame \cup {Garbage}]
    BY DEF Init
  <2> QED BY <2>1, <2>2, <2>3, <2>4, <2>5, <2>6 DEF Types
<1>3. Range(bufferRequests[Manager]) = {} BY EmptyFacts, WhoFacts DEF Init
<1>4. globalBuffer # Manager /\ global[Manager] # Manager
  BY WindowsAssumption DEF Init, Process
<1>5. \A p, b \in Process : ~Inside(p, b)
  BY <1>1 DEF Inside, LoopPlaces, DrawPlaces, CopyPlaces
<1>6. Exclusive BY <1>1, <1>5, EmptyFacts DEF Exclusive
<1>7. Pictures BY <1>1, WhoFacts DEF Init, Pictures, Cells
<1>8. CorruptionExplained BY DEF Init, CorruptionExplained
<1>9. Whereabouts
  BY <1>1, <1>3, <1>4, WhoFacts
  DEF Whereabouts, GlobalPlaces, DrawPlaces, LoopPlaces, CopyPlaces
<1> QED BY <1>2, <1>6, <1>7, <1>8, <1>9 DEF IInv

LEMMA NextIInv == IInv /\ [Next]_vars => IInv'
<1> SUFFICES ASSUME IInv, [Next]_vars PROVE IInv' OBVIOUS
<1>1. CASE UNCHANGED vars
  BY <1>1, UnchangedKeeps DEF vars, lists, locks, manager, places
<1>2. CASE Next
  BY <1>2, GetBufferStep, ExitStep, ProgramStep, DrawStep, ManagerKeeps, KeysStep
  DEF Next
<1> QED BY <1>1, <1>2

\* Where every process is and which mutexes it holds, what is drawn and copied,
\* and why memory is corrupted hold together after every step.
THEOREM WindowsInvariance == Spec => []IInv
BY InitIInv, NextIInv, PTL DEF Spec

\* The manager never shows a window whose program has drawn half of its picture.
THEOREM PicturesWhole == Spec => []WholeFrames
<1>1. IInv => WholeFrames BY DEF IInv, Pictures, WholeFrames
<1> QED BY <1>1, WindowsInvariance, PTL

\* Nothing but an ended program, a second owner of the screen, two requests in
\* one turn of the manager's loop, or a window that keys have moved out of the
\* screen at its top or left makes the kernel or the manager touch memory that
\* they may not.
THEOREM CorruptionHasCauses == Spec => []CorruptionExplained
<1>1. IInv => CorruptionExplained BY DEF IInv
<1> QED BY <1>1, WindowsInvariance, PTL

\* Windows are placed by the manager and moved by keys.
Positions == position \in [Client -> Int \X Int] /\ defaultChild \in Nat

LEMMA PositionsStep == ASSUME IInv, Mirror, Positions, Next PROVE Positions'
<1>1. CASE AcquireNewChildProcesses
  <2>1. PICK requests : requests = bufferRequests[Manager] OBVIOUS
  <2>2. requests \in Seq(Process) BY <2>1, WhoFacts DEF IInv, Types
  <2>3. CASE UNCHANGED places BY <2>3 DEF Positions, places
  <2>4. CASE /\ position' = InNewPlaces(requests)
             /\ defaultChild' = defaultChild + PositionStep * Len(requests)
    <3>1. /\ PositionStep \in Nat /\ Len(requests) \in Nat /\ DOMAIN requests = 1 .. Len(requests)
      BY <2>2, LenProperties, WindowsAssumption
    <3>2. \A m, n \in Nat : m * n \in Nat OBVIOUS
    <3>3. defaultChild' \in Nat BY <2>4, <3>1, <3>2 DEF Positions
    <3>4. ASSUME NEW c \in Client, c \in ToSet(requests) PROVE Diagonal(requests, c) \in Int
      <4>1. PICK a : a = CHOOSE k \in DOMAIN requests : requests[k] = c OBVIOUS
      <4>2. a \in DOMAIN requests BY <3>4, <4>1 DEF ToSet
      <4>3. a - 1 \in Nat BY <3>1, <4>2
      <4>4. defaultChild + PositionStep * (a - 1) \in Int BY <3>1, <3>2, <4>3 DEF Positions
      <4> QED BY <4>1, <4>4 DEF Diagonal
    <3>5. PICK placed : placed = InNewPlaces(requests) OBVIOUS
    <3>6. ASSUME NEW c \in Client PROVE placed[c] \in Int \X Int
      <4>1. CASE c \in ToSet(requests)
        <5>1. placed[c] = <<Diagonal(requests, c), Diagonal(requests, c)>>
          BY <3>5, <3>6, <4>1, Zenon DEF InNewPlaces
        <5>2. Diagonal(requests, c) \in Int BY <3>4, <3>6, <4>1
        <5> QED BY <5>1, <5>2
      <4>2. CASE c \notin ToSet(requests)
        <5>1. placed[c] = position[c] BY <3>5, <3>6, <4>2, Zenon DEF InNewPlaces
        <5> QED BY <3>6, <5>1 DEF Positions
      <4> QED BY <4>1, <4>2
    <3>7. placed = [c \in Client |-> placed[c]] BY <3>5, Zenon DEF InNewPlaces
    <3>8. placed \in [Client -> Int \X Int] BY <3>6, <3>7
    <3> QED BY <2>4, <3>3, <3>5, <3>8 DEF Positions
  <2>5. \/ UNCHANGED places
        \/ /\ position' = InNewPlaces(requests)
           /\ defaultChild' = defaultChild + PositionStep * Len(requests)
    <3>1. \/ UNCHANGED places
          \/ /\ position' = InNewPlaces(bufferRequests[Manager])
             /\ defaultChild' = defaultChild + PositionStep * Len(bufferRequests[Manager])
      BY <1>1 DEF AcquireNewChildProcesses
    <3> QED BY <2>1, <3>1
  <2> QED BY <2>3, <2>4, <2>5
<1>2. CASE MoveForeground
  <2>1. PICK f : f = foreground OBVIOUS
  <2>2. f \in Client BY <1>2, <2>1 DEF MoveForeground, Mirror
  <2>3. /\ defaultChild' = defaultChild
        /\ \E x, y \in Near : position' = [position EXCEPT ![f] = <<x, y>>]
    BY <1>2, <2>1 DEF MoveForeground
  <2> QED BY <2>2, <2>3, WindowsAssumption DEF Positions
<1>3. CASE UNCHANGED places BY <1>3 DEF Positions, places
<1>4. Next => AcquireNewChildProcesses \/ MoveForeground \/ UNCHANGED places
  BY DEF Next, GetBuffer, GetScreenBuffer, OwnScreen, LockGlobal, AddBufferRequest, UnlockGlobal,
         Exit, Program, LockScreen, WriteScreen, UnlockScreen, Draw, ManagerStep, Run, LockManager,
         GetBufferRequestCount, RenderChildren, GetChildBuffer, LockChild, CopyChild, UnlockChild,
         Rendered, UnlockManager, MoveFrontToEnd, Lock, Unlock, Dangling, manager
<1> QED BY <1>1, <1>2, <1>3, <1>4

\* The manager's windows, in user space, and the buffers that the kernel gave it
\* stay the same through every interleaving, so that GetChildBuffer's search,
\* which has no end of its own, always finds what it looks for.
THEOREM WindowsMirrored == Spec => []WindowsMirror
<1>1. Init => Mirror
  <2> SUFFICES ASSUME Init PROVE Mirror OBVIOUS
  <2>1. /\ childWindows = List!EmptyList /\ foreground = Nobody /\ last = Nobody
        /\ bufferRequests[Manager] = <<>> /\ childBuffers[Manager] = <<>>
        /\ pc[Manager] = "start"
    BY WhoFacts DEF Init
  <2>2. List!EmptyList \in List!ListType
    BY DEF List!EmptyList, List!NoLinks, List!ListType, List!Link
  <2>3. List!Backward(childWindows) = <<>> BY <2>1, EmptyChained, BackwardFacts
  <2> QED BY <2>1, <2>2, <2>3, EmptyChained, EmptyFacts DEF Mirror
<1>2. IInv /\ Mirror /\ [Next]_vars => Mirror'
  <2> SUFFICES ASSUME IInv, Mirror, [Next]_vars PROVE Mirror' OBVIOUS
  <2>1. CASE UNCHANGED vars
    BY <2>1 DEF vars, lists, manager, Mirror
  <2>2. CASE Next
    BY <2>2, GetBufferMirror, ProgramMirror, ManagerMirror DEF Next
  <2> QED BY <2>1, <2>2
<1>3. IInv /\ Mirror /\ Positions => WindowsMirror
  <2> SUFFICES ASSUME IInv, Mirror, Positions PROVE WindowsMirror OBVIOUS
  <2>1. \A s : ToSet(s) = Range(s) BY DEF ToSet, Range
  <2>2. Range(childBuffers[Manager]) \subseteq Client BY WhoFacts, RangeOfSeq DEF IInv, Types
  <2>3. last \in Client \cup {Nobody} BY <2>2 DEF Mirror
  <2>4. TypeOK BY <2>3 DEF IInv, Types, Mirror, Positions, TypeOK
  <2>5. IsInjective(List!Backward(childWindows)) BY DEF Mirror, Chained
  <2> QED BY <2>1, <2>4, <2>5 DEF Mirror, WindowsMirror
<1>4. Init => Positions BY WindowsAssumption DEF Init, Positions
<1>5. IInv /\ Mirror /\ Positions /\ [Next]_vars => Positions'
  BY PositionsStep DEF Positions, vars, manager, places
<1> QED BY <1>1, <1>2, <1>3, <1>4, <1>5, WindowsInvariance, PTL DEF Spec

-----------------------------------------------------------------------------
(***************************************************************************)
(* The network game.                                                       *)
(***************************************************************************)

\* Where the ball is when it is sent: between the goals.
InField(b) ==
    /\ Margin <= b.x /\ b.x + Size + Margin <= Width
    /\ 0 <= b.y /\ b.y + Size <= Height

FieldInv == server \in Servers /\ (~IsGameOver(server) => InField(server.ball))

Good(s) == s \in Servers /\ (~IsGameOver(s) => InField(s.ball))

\* Ball::Move from inside the field ends inside it unless it returns a winner.
LEMMA MoveInField ==
    ASSUME NEW b \in Balls, InField(b), NEW paddles
    PROVE  /\ Move(b, paddles).ball \in Balls
           /\ Move(b, paddles).state \in -2 .. 1
           /\ ~(Move(b, paddles).state > -1) => InField(Move(b, paddles).ball)
<1> DEFINE x == b.x + b.vx
           y == b.y + b.vy
           top == y < 0
           below == IF top THEN -y ELSE y
           bottom == below + Size > Height
           high == OffBottom(below)
           vy == IF top = bottom THEN b.vy ELSE -b.vy
           left == x < LeftPaddleEdge /\ x - b.vx >= LeftPaddleEdge
           off == IF left THEN x - 2 * (x - LeftPaddleEdge) ELSE x
           vx == IF left THEN -b.vx ELSE b.vx
           right == off + Size > RightPaddleEdge /\ off + Size - vx <= RightPaddleEdge
           back == off - 2 * (off + Size - RightPaddleEdge)
           Result(atX, atY, newVx, newVy, state) ==
               [ball |-> [x |-> atX, y |-> atY, vx |-> newVx, vy |-> newVy], state |-> state]
           m == Move(b, paddles)
<1> USE GeometryAssumption
<1>1. /\ b.x \in Int /\ b.y \in Int
      /\ b.vx \in {-Speed, 0, Speed} /\ b.vy \in {-Speed, 0, Speed}
  BY DEF Balls
<1>2. x \in Int /\ y \in Int /\ -Speed <= y /\ y <= Height - Size + Speed
  BY <1>1 DEF InField
<1>3. below \in Int /\ 0 <= below /\ below <= Height - Size + Speed
  BY <1>2
<1>4. high \in Int /\ 0 <= high /\ high + Size <= Height
  BY <1>3 DEF OffBottom
<1>5. vx \in {-Speed, 0, Speed} /\ vy \in {-Speed, 0, Speed}
  BY <1>1
<1>6. off \in Int /\ (x >= Margin => off >= Margin)
  BY <1>1, <1>2
<1>7. (x + Size + Margin <= Width) => off + Size + Margin <= Width
  BY <1>1, <1>2
<1>8. back \in Int /\ -vx \in {-Speed, 0, Speed}
  BY <1>5, <1>6
<1>9. right => Margin <= back /\ back + Size + Margin <= Width
  <2> SUFFICES ASSUME right PROVE Margin <= back /\ back + Size + Margin <= Width
    OBVIOUS
  <2> HIDE DEF off, vx
  <2>1. off + Size > RightPaddleEdge /\ off + Size <= RightPaddleEdge + Speed
    BY <1>5, <1>6
  <2> QED BY <2>1, <1>6
<1> HIDE DEF x, y, top, below, bottom, high, vy, left, off, vx, right, back
<1>10. CASE x < Margin
  <2>1. m = Result(x, y, 0, 0, 1) BY <1>10 DEF Move, x, y
  <2> QED BY <2>1, <1>2 DEF Balls
<1>11. CASE ~(x < Margin) /\ x + Size > Width - Margin
  <2>1. m = Result(x, below, 0, 0, 0) BY <1>11 DEF Move, x, y, below, top
  <2> QED BY <2>1, <1>2, <1>3 DEF Balls
<1>12. CASE ~(x < Margin) /\ ~(x + Size > Width - Margin)
  <2>1. \/ m = Result(x, high, b.vx, vy, -2)
        \/ m = Result(off, high, vx, vy, -1)
        \/ right /\ m = Result(back, high, -vx, vy, -1)
        \/ m = Result(off, high, vx, vy, -2)
    BY <1>12 DEF Move, x, y, top, below, bottom, high, vy, left, off, vx, right, back
  <2>2. x >= Margin /\ x + Size + Margin <= Width BY <1>12, <1>2
  <2>3. CASE m = Result(x, high, b.vx, vy, -2)
    BY <2>3, <2>2, <1>1, <1>2, <1>4, <1>5 DEF Balls, InField
  <2>4. CASE m = Result(off, high, vx, vy, -1) \/ m = Result(off, high, vx, vy, -2)
    BY <2>4, <2>2, <1>4, <1>5, <1>6, <1>7 DEF Balls, InField
  <2>5. CASE right /\ m = Result(back, high, -vx, vy, -1)
    BY <2>5, <1>4, <1>5, <1>8, <1>9 DEF Balls, InField
  <2> QED BY <2>1, <2>3, <2>4, <2>5
<1> QED BY <1>10, <1>11, <1>12

\* Game::Update keeps a good server good.
LEMMA UpdateGood ==
    ASSUME NEW s \in Servers, ~IsGameOver(s) => InField(s.ball)
    PROVE  Good(Update(s))
<1>1. CASE IsGameOver(s)
  BY <1>1 DEF Update, Good
<1>2. CASE ~IsGameOver(s)
  <2> DEFINE next == Move(s.ball, s.paddlePositions)
  <2>1. s.ball \in Balls BY DEF Servers
  <2>2. /\ next.ball \in Balls /\ next.state \in -2 .. 1
        /\ ~(next.state > -1) => InField(next.ball)
    BY <2>1, <1>2, MoveInField
  <2>3. Update(s) = [s EXCEPT !.ball = next.ball, !.state = next.state]
    BY <1>2 DEF Update
  <2> HIDE DEF next
  <2>4. /\ Update(s) \in Servers
        /\ Update(s).ball = next.ball /\ Update(s).state = next.state
    BY <2>2, <2>3 DEF Servers
  <2> QED BY <2>2, <2>4 DEF Good, IsGameOver
<1> QED BY <1>1, <1>2

\* List::Push of a client gives a list.
LEMMA PushType ==
    ASSUME NEW list \in Clients!ListType, NEW c \in Player
    PROVE  Clients!Push(list, c) \in Clients!ListType
BY DEF Clients!ListType, Clients!Link, Clients!Push

\* A new game has its ball inside the field.
LEMMA PlacedInField ==
    ASSUME NEW speed \in {0, Speed} PROVE Placed(speed) \in Balls /\ InField(Placed(speed))
BY GeometryAssumption DEF Placed, Balls, InField

\* So does handling a message of any client.
LEMMA HandleGood ==
    ASSUME NEW s \in Servers, ~IsGameOver(s) => InField(s.ball), NEW c \in Player, NEW key \in Keys
    PROVE  Good(Handle(s, c, key))
<1>1. CASE key # "c"
  <2>1. Handle(s, c, key) = Steer(s, c, key) BY <1>1 DEF Handle
  <2>2. CASE ~(s.state # -2 /\ c \in s.connections /\ s.playerNum[c] < 2)
    BY <2>1, <2>2 DEF Steer, Good
  <2>3. CASE s.state # -2 /\ c \in s.connections /\ s.playerNum[c] < 2
    <3> DEFINE n == s.playerNum[c]
               p == s.paddlePositions[n]
    <3>1. n \in 0 .. 1 BY <2>3 DEF Servers
    <3>2. p \in HalfPaddle .. Height - HalfPaddle BY <3>1 DEF Servers
    <3>3. Steered(p, key) \in HalfPaddle .. Height - HalfPaddle
      BY <3>2, GeometryAssumption DEF Steered
    <3>4. Steer(s, c, key) = [s EXCEPT !.paddlePositions[n] = Steered(p, key)]
      BY <2>3 DEF Steer
    <3> HIDE DEF n, p
    <3>5. Steer(s, c, key) \in Servers BY <3>1, <3>3, <3>4 DEF Servers
    <3>6. Steer(s, c, key).ball = s.ball /\ Steer(s, c, key).state = s.state
      BY <3>4 DEF Servers
    <3> QED BY <2>1, <3>5, <3>6 DEF Good, IsGameOver
  <2> QED BY <2>2, <2>3
<1>2. CASE key = "c" /\ c \in s.connections
  BY <1>2 DEF Handle, Good
<1>3. CASE key = "c" /\ c \notin s.connections
  <2> DEFINE others == IF IsGameOver(s) THEN Clients!EmptyList ELSE s.clients
             starts == others.size + 1 = 2
             speed == IF starts THEN Speed ELSE 0
             j == Joined(s, c, others, starts)
  <2>1. Handle(s, c, key) = j BY <1>3 DEF Handle, Connect
  <2>2. others \in Clients!ListType
    BY DEF Servers, Clients!EmptyList, Clients!NoLinks, Clients!ListType, Clients!Link
  <2>3. others.size \in Nat /\ Clients!Push(others, c) \in Clients!ListType
    BY <2>2, PushType DEF Clients!ListType
  <2>4. Placed(speed) \in Balls /\ InField(Placed(speed))
    BY PlacedInField
  <2>5. StartPaddles \in [0 .. 1 -> HalfPaddle .. Height - HalfPaddle]
    BY GeometryAssumption DEF StartPaddles
  <2> HIDE DEF others, starts
  <2> DEFINE listed == Clients!Push(others, c)
             paddles == IF starts THEN StartPaddles ELSE s.paddlePositions
             nums == [s.playerNum EXCEPT ![c] = others.size]
             placed == Placed(speed)
  <2>6. /\ placed \in Balls /\ listed \in Clients!ListType
        /\ s.connections \cup {c} \in SUBSET Player
        /\ paddles \in [0 .. 1 -> HalfPaddle .. Height - HalfPaddle]
        /\ nums \in [Player -> Nat]
    BY <2>3, <2>4, <2>5 DEF Servers
  <2>7. j = [s EXCEPT !.clients = listed, !.playerNum = nums,
                      !.connections = s.connections \cup {c}, !.ball = placed,
                      !.state = -1, !.paddlePositions = paddles]
    BY DEF Joined
  <2> HIDE DEF j, speed, listed, paddles, nums, placed
  <2>8. j = [ball |-> placed, state |-> -1, paddlePositions |-> paddles,
             connections |-> s.connections \cup {c}, clients |-> listed, playerNum |-> nums]
    BY <2>7 DEF Servers
  <2>9. j \in Servers /\ j.ball = placed
    BY <2>6, <2>8 DEF Servers
  <2> USE DEF placed
  <2> QED BY <2>1, <2>4, <2>9 DEF Good
<1> QED BY <1>1, <1>2, <1>3

\* Sending changes the connections only.
LEMMA SendGood ==
    ASSUME NEW s \in Servers, ~IsGameOver(s) => InField(s.ball), Send(s)
    PROVE  FieldInv'
<1>1. server' = IF IsGameOver(s) THEN [s EXCEPT !.connections = @ \ Listed(s)] ELSE s
  BY DEF Send
<1>2. server' \in Servers /\ server'.ball = s.ball /\ server'.state = s.state
  BY <1>1 DEF Servers
<1> QED BY <1>2 DEF FieldInv, IsGameOver

\* The game of every reachable state is in the field.
THEOREM InTheField == GameSpec => []FieldInv
<1>1. GameInit => FieldInv
  <2> SUFFICES ASSUME GameInit PROVE FieldInv OBVIOUS
  <2>1. Placed(0) \in Balls /\ InField(Placed(0)) BY PlacedInField
  <2>2. StartPaddles \in [0 .. 1 -> HalfPaddle .. Height - HalfPaddle]
    BY GeometryAssumption DEF StartPaddles
  <2>3. Clients!EmptyList \in Clients!ListType
    BY DEF Clients!EmptyList, Clients!NoLinks, Clients!ListType, Clients!Link
  <2> QED BY <2>1, <2>2, <2>3 DEF GameInit, FieldInv, Servers
<1>2. FieldInv /\ [GameNext]_gameVars => FieldInv'
  <2> SUFFICES ASSUME FieldInv, [GameNext]_gameVars PROVE FieldInv' OBVIOUS
  <2> USE DEF FieldInv
  <2>1. CASE ReadNothing
    BY <2>1, UpdateGood, SendGood DEF ReadNothing, Good
  <2>2. ASSUME NEW c \in Player, NEW key \in Keys, Read(c, key) PROVE FieldInv'
    <3>1. Good(Handle(server, c, key)) BY HandleGood
    <3>2. Good(Update(Handle(server, c, key))) BY <3>1, UpdateGood DEF Good
    <3> QED BY <2>2, <3>2, SendGood DEF Read, Good
  <2>3. CASE UNCHANGED server
    BY <2>3 DEF IsGameOver
  <2>4. ASSUME NEW c \in Player, Receive(c) \/ LoseToClient(c) \/ \E key \in Keys : Press(c, key)
        PROVE  UNCHANGED server
    BY <2>4 DEF Receive, LoseToClient, Press
  <2> QED BY <2>1, <2>2, <2>3, <2>4 DEF GameNext, Turn, gameVars
<1> QED BY <1>1, <1>2, PTL DEF GameSpec

\* Whatever the players do and the network loses, each window draws the ball
\* inside its buffer.
THEOREM BallDrawn == GameSpec => []BallInPicture
<1>1. FieldInv => BallInPicture
  BY GeometryAssumption DEF FieldInv, BallInPicture, InField, Servers, Balls
<1> QED BY <1>1, InTheField, PTL

(***************************************************************************)
(* The list of the clients.                                                *)
(***************************************************************************)

Players(s) == Clients!Forward(s.clients)

\* The links of a list lead over these clients, each once.
Members(clients, list) ==
    /\ list \in Seq(Player) /\ IsInjective(list)
    /\ Chain(clients.next, NoPlayer, clients.first, list)
    /\ clients.size = Len(list)

\* What Forward finds is what the links lead over.
LEMMA ForwardFacts ==
    ASSUME NEW clients, NEW list, Members(clients, list)
    PROVE  Clients!Forward(clients) = list
<1>1. Met(Player, NoPlayer, clients.next, clients.first) = list
  BY PlayerAssumption, WalkFacts DEF Members
<1>2. Clients!Forward(clients) = Met(Player, NoPlayer, clients.next, clients.first)
  BY DEF Clients!Forward, Clients!Walk, Met, Clients!Cardinality, Cardinality
<1> QED BY <1>1, <1>2

LEMMA EmptyMembers == Members(Clients!EmptyList, <<>>)
BY EmptyFacts DEF Members, Chain, Clients!EmptyList

\* Push puts the new client in front of the others.
LEMMA PushMembers ==
    ASSUME NEW clients \in Clients!ListType, NEW list, Members(clients, list),
           NEW c \in Player, c \notin Range(list)
    PROVE  Members(Clients!Push(clients, c), <<c>> \o list)
<1> DEFINE l == Clients!Push(clients, c)
           n == Len(list)
           pushed == <<c>> \o list
<1>1. /\ l.first = c /\ l.size = clients.size + 1
      /\ l.next = [clients.next EXCEPT ![c] = clients.first]
  BY DEF Clients!Push
<1>2. /\ n \in Nat /\ DOMAIN list = 1 .. n /\ (\A k \in 1 .. n : list[k] \in Player)
      /\ (list = <<>> <=> n = 0)
  BY LenProperties, EmptySeq, ElementOfSeq DEF Members
<1>3. <<c>> \in Seq(Player) /\ Range(<<c>>) = {c} /\ IsInjective(<<c>>) BY SingleFacts
<1>4. pushed \in Seq(Player) /\ IsInjective(pushed)
  <2>1. {c} \cap Range(list) = {} OBVIOUS
  <2> QED BY <1>3, <2>1, ConcatFacts DEF Members
<1>5. /\ Len(pushed) = n + 1 /\ DOMAIN pushed = 1 .. n + 1 /\ pushed[1] = c
      /\ \A k \in 2 .. n + 1 : pushed[k] = list[k - 1]
      /\ pushed # <<>>
  BY <1>2 DEF Members
<1> HIDE DEF l, pushed, n
<1>6. \A d \in Player : l.next[d] = IF d = c THEN clients.first ELSE clients.next[d]
  BY <1>1 DEF Clients!ListType, Clients!Link
<1>7. ASSUME NEW k \in DOMAIN pushed
      PROVE  l.next[pushed[k]] = IF k = Len(pushed) THEN NoPlayer ELSE pushed[k + 1]
  <2>1. CASE k = 1
    <3>1. l.next[pushed[k]] = clients.first BY <1>5, <1>6, <2>1
    <3>2. CASE n = 0 BY <1>2, <1>5, <2>1, <3>1, <3>2 DEF Members, Chain, n
    <3>3. CASE n # 0
      <4>1. clients.first = list[1] BY <1>2, <3>3 DEF Members, Chain
      <4>2. pushed[2] = list[1] BY <1>2, <1>5, <3>3
      <4> QED BY <1>2, <1>5, <2>1, <3>1, <3>3, <4>1, <4>2
    <3> QED BY <3>2, <3>3
  <2>2. CASE k # 1
    <3>1. k \in 2 .. n + 1 /\ k - 1 \in DOMAIN list BY <1>2, <1>5, <2>2
    <3>2. pushed[k] = list[k - 1] /\ list[k - 1] \in Player /\ list[k - 1] # c
      BY <1>2, <1>5, <3>1 DEF Range
    <3>3. l.next[pushed[k]] = clients.next[list[k - 1]] BY <1>6, <3>2
    <3>4. clients.next[list[k - 1]] = IF k - 1 = n THEN NoPlayer ELSE list[k]
      BY <1>2, <3>1 DEF Members, Chain, n
    <3>5. k - 1 # n => pushed[k + 1] = list[k] BY <1>2, <1>5, <3>1
    <3> QED BY <1>2, <1>5, <3>1, <3>3, <3>4, <3>5
  <2> QED BY <2>1, <2>2
<1>8. Chain(l.next, NoPlayer, l.first, pushed) BY <1>1, <1>5, <1>7 DEF Chain
<1>9. l.size = Len(pushed) BY <1>1, <1>2, <1>5 DEF Members, n
<1>10. Members(l, pushed) BY <1>4, <1>8, <1>9 DEF Members
<1> QED BY <1>10 DEF l, pushed

\* The list, the numbers and the connections agree, and the ball moves only in
\* a game of two.
Roll(s) ==
    LET list == Players(s)
    IN  /\ Members(s.clients, list)
        /\ \A k \in DOMAIN list : s.playerNum[list[k]] = Len(list) - k
        /\ s.connections \subseteq Range(list)
        /\ IsGameOver(s) => Len(list) = 2
        /\ ~IsGameOver(s) => /\ s.connections = Range(list)
                             /\ Len(list) # 2 => s.ball = Placed(0)

\* A ball that is placed is in no goal after its first move, and one that is
\* placed without speed stays there.
LEMMA PlacedMoves ==
    ASSUME NEW paddles
    PROVE  /\ ~(Move(Placed(Speed), paddles).state > -1)
           /\ Move(Placed(0), paddles) = [ball |-> Placed(0), state |-> -1]
<1> USE GeometryAssumption
<1>1. Move(Placed(0), paddles) = [ball |-> Placed(0), state |-> -1]
  BY DEF Move, Placed, OffBottom
<1>2. ~(Move(Placed(Speed), paddles).state > -1)
  <2> DEFINE m == Move(Placed(Speed), paddles)
  <2>1. ~(StartX + Speed < Margin) /\ ~(StartX + Speed + Size > Width - Margin) OBVIOUS
  <2>2. PICK state : state = m.state OBVIOUS
  <2>3. state \in {-2, -1} BY <2>1, <2>2 DEF Move, Placed
  <2>4. ~(state > -1) BY <2>3
  <2> QED BY <2>2, <2>4
<1> QED BY <1>1, <1>2

\* Handling a message leaves the list and the game alone, or a client joins.
Handled(s, h) ==
    \/ /\ h.clients = s.clients /\ h.playerNum = s.playerNum /\ h.connections = s.connections
       /\ h.state = s.state /\ h.ball = s.ball
    \/ h.state = -1 /\ h.ball \in {Placed(0), Placed(Speed)}

LEMMA HandleRoll ==
    ASSUME NEW s \in Servers, Roll(s), IsGameOver(s) => s.connections = {},
           NEW c \in Player, NEW key \in Keys
    PROVE  Roll(Handle(s, c, key)) /\ Handled(s, Handle(s, c, key))
<1> DEFINE h == Handle(s, c, key)
<1>1. CASE ~(key = "c" /\ c \notin s.connections)
  <2>1. h = s \/ h = Steer(s, c, key) BY <1>1 DEF Handle
  <2>2. /\ h.clients = s.clients /\ h.playerNum = s.playerNum /\ h.connections = s.connections
        /\ h.state = s.state /\ h.ball = s.ball
    BY <2>1 DEF Steer, Servers
  <2> HIDE DEF h
  <2>3. Roll(h) BY <2>2 DEF Roll, Players, IsGameOver
  <2>4. Handled(s, h) BY <2>2 DEF Handled
  <2> QED BY <2>3, <2>4 DEF h
<1>2. CASE key = "c" /\ c \notin s.connections
  <2> DEFINE others == IF IsGameOver(s) THEN Clients!EmptyList ELSE s.clients
             starts == others.size + 1 = 2
             speed == IF starts THEN Speed ELSE 0
             list == IF IsGameOver(s) THEN <<>> ELSE Players(s)
             pushed == <<c>> \o list
  <2>1. h = Joined(s, c, others, starts) BY <1>2 DEF Handle, Connect
  <2>2. others \in Clients!ListType /\ Members(others, list)
    BY EmptyMembers DEF Roll, Servers, Clients!EmptyList, Clients!NoLinks, Clients!ListType, Clients!Link
  <2>3. c \notin Range(list) BY <1>2, EmptyFacts DEF Roll
  <2>4. /\ h.clients = Clients!Push(others, c) /\ h.state = -1 /\ h.ball = Placed(speed)
        /\ h.playerNum = [s.playerNum EXCEPT ![c] = others.size]
        /\ h.connections = s.connections \cup {c}
    BY <2>1 DEF Joined, Servers
  <2>5. Members(h.clients, pushed) BY <2>2, <2>3, <2>4, PushMembers
  <2>6. Players(h) = pushed BY <2>5, ForwardFacts DEF Players
  <2>7. others.size = Len(list) /\ list \in Seq(Player) BY <2>2 DEF Members
  <2> HIDE DEF h, others, starts, list
  <2>8. /\ <<c>> \in Seq(Player) /\ Range(pushed) = {c} \cup Range(list)
        /\ Len(pushed) = Len(list) + 1 /\ Len(list) \in Nat
        /\ DOMAIN pushed = 1 .. Len(list) + 1 /\ pushed[1] = c
        /\ \A k \in 2 .. Len(list) + 1 : pushed[k] = list[k - 1] /\ k - 1 \in DOMAIN list
    <3>1. <<c>> \in Seq(Player) /\ Range(<<c>>) = {c} BY SingleFacts
    <3>2. Range(<<c>> \o list) = Range(<<c>>) \cup Range(list) BY <2>7, <3>1, ConcatFacts
    <3> QED BY <2>7, <3>1, <3>2
  <2>9. h.connections = Range(pushed)
    BY <2>4, <2>8, EmptyFacts DEF Roll, list
  <2>10. \A k \in DOMAIN list : s.playerNum[list[k]] = Len(list) - k
    BY DEF Roll, list
  <2>11. \A k \in DOMAIN pushed : h.playerNum[pushed[k]] = Len(pushed) - k
    <3> SUFFICES ASSUME NEW k \in DOMAIN pushed PROVE h.playerNum[pushed[k]] = Len(pushed) - k
      OBVIOUS
    <3>1. CASE k = 1 BY <2>4, <2>7, <2>8, <3>1 DEF Servers
    <3>2. CASE k # 1
      <4>1. k \in 2 .. Len(list) + 1 /\ k - 1 \in DOMAIN list BY <2>8, <3>2
      <4>2. pushed[k] = list[k - 1] /\ list[k - 1] # c /\ list[k - 1] \in Player
        BY <2>3, <2>7, <2>8, <4>1 DEF Range
      <4>3. h.playerNum[pushed[k]] = Len(list) - (k - 1) BY <2>4, <2>10, <4>1, <4>2 DEF Servers
      <4> QED BY <2>8, <4>1, <4>3
    <3> QED BY <3>1, <3>2
  <2>12. Len(pushed) # 2 => h.ball = Placed(0) BY <2>4, <2>7, <2>8 DEF starts
  <2>13. ~IsGameOver(h) BY <2>4 DEF IsGameOver
  <2>14. Roll(h) BY <2>5, <2>6, <2>9, <2>11, <2>12, <2>13 DEF Roll
  <2>15. Handled(s, h) BY <2>4 DEF Handled
  <2> QED BY <2>14, <2>15 DEF h
<1> QED BY <1>1, <1>2

LEMMA UpdateRoll ==
    ASSUME NEW h \in Servers, Roll(h)
    PROVE  /\ Roll(Update(h))
           /\ Update(h).clients = h.clients /\ Update(h).playerNum = h.playerNum
           /\ IsGameOver(h) => Update(h) = h
           /\ ~IsGameOver(h) /\ h.ball \in {Placed(0), Placed(Speed)} => ~IsGameOver(Update(h))
           /\ ~IsGameOver(h) => Update(h).connections = Range(Players(h))
<1> DEFINE u == Update(h)
<1>1. CASE IsGameOver(h) BY <1>1 DEF Update
<1>2. CASE ~IsGameOver(h)
  <2> DEFINE next == Move(h.ball, h.paddlePositions)
  <2>1. u = [h EXCEPT !.ball = next.ball, !.state = next.state] BY <1>2 DEF Update
  <2>2. /\ u.clients = h.clients /\ u.playerNum = h.playerNum /\ u.connections = h.connections
        /\ u.ball = next.ball /\ u.state = next.state
    BY <2>1 DEF Servers
  <2>3. h.ball = Placed(0) => u.ball = Placed(0) /\ u.state = -1 BY <2>2, PlacedMoves
  <2>4. h.ball = Placed(Speed) => ~(u.state > -1) BY <2>2, PlacedMoves
  <2> HIDE DEF u, next
  <2>5. h.ball \in {Placed(0), Placed(Speed)} => ~IsGameOver(u)
    BY <2>3, <2>4 DEF IsGameOver
  <2>6. Roll(u) BY <1>2, <2>2, <2>3, <2>5 DEF Roll, Players
  <2> QED BY <1>2, <2>2, <2>5, <2>6 DEF u, Roll
<1> QED BY <1>1, <1>2

(***************************************************************************)
(* What a client's window shows, and what is on its way to it.             *)
(***************************************************************************)

Messages == {"b", "w", "l"}
Results == {"w", "l"}
Faces(c) == {m \in Results : IF m = "l" THEN c \in isSad ELSE c \in isHappy}

\* A ball lies between any two different results, those that are shown included.
Clean(faces, q) ==
    /\ \A x, y \in faces : x = y
    /\ \A x \in faces, k \in DOMAIN q :
          q[k] \in Results => q[k] = x \/ \E j \in 1 .. k - 1 : q[j] = "b"
    /\ \A i, k \in DOMAIN q :
          i < k /\ q[i] \in Results /\ q[k] \in Results
          => q[i] = q[k] \/ \E j \in i + 1 .. k - 1 : q[j] = "b"

\* Nothing but a ball was the last to be sent.
Fresh(faces, q) == IF q = <<>> THEN faces = {} ELSE q[Len(q)] = "b"

\* Appending and taking the head, by places.
LEMMA AppendPlaces ==
    ASSUME NEW S, NEW q \in Seq(S), NEW m \in S
    PROVE  /\ Append(q, m) \in Seq(S) /\ Append(q, m) # <<>> /\ Len(q) \in Nat
           /\ DOMAIN q = 1 .. Len(q)
           /\ Len(Append(q, m)) = Len(q) + 1 /\ DOMAIN Append(q, m) = 1 .. Len(q) + 1
           /\ \A k \in 1 .. Len(q) : Append(q, m)[k] = q[k]
           /\ Append(q, m)[Len(q) + 1] = m
OBVIOUS

LEMMA TailPlaces ==
    ASSUME NEW S, NEW q \in Seq(S), q # <<>>
    PROVE  /\ Tail(q) \in Seq(S) /\ Len(q) \in Nat \ {0} /\ Head(q) = q[1] /\ q[1] \in S
           /\ DOMAIN q = 1 .. Len(q)
           /\ Len(Tail(q)) = Len(q) - 1 /\ DOMAIN Tail(q) = 1 .. Len(q) - 1
           /\ \A k \in 1 .. Len(q) - 1 : Tail(q)[k] = q[k + 1]
OBVIOUS

LEMMA CleanBall ==
    ASSUME NEW faces, NEW q \in Seq(Messages), Clean(faces, q)
    PROVE  Clean(faces, Append(q, "b")) /\ Fresh(faces, Append(q, "b"))
<1> DEFINE r == Append(q, "b")
           n == Len(q)
<1>1. "b" \in Messages /\ "b" \notin Results BY DEF Messages, Results
<1>2. /\ r \in Seq(Messages) /\ r # <<>> /\ n \in Nat /\ DOMAIN q = 1 .. n
      /\ Len(r) = n + 1 /\ DOMAIN r = 1 .. n + 1
      /\ (\A k \in 1 .. n : r[k] = q[k]) /\ r[n + 1] = "b"
  BY <1>1, AppendPlaces
<1> HIDE DEF r, n
<1>3. \A k \in DOMAIN r : r[k] \in Results => k \in 1 .. n /\ k \in DOMAIN q /\ r[k] = q[k]
  BY <1>1, <1>2
<1>4. ASSUME NEW x \in faces, NEW k \in DOMAIN r, r[k] \in Results
      PROVE  r[k] = x \/ \E j \in 1 .. k - 1 : r[j] = "b"
  BY <1>2, <1>3, <1>4 DEF Clean
<1>5. ASSUME NEW i \in DOMAIN r, NEW k \in DOMAIN r, i < k, r[i] \in Results, r[k] \in Results
      PROVE  r[i] = r[k] \/ \E j \in i + 1 .. k - 1 : r[j] = "b"
  BY <1>2, <1>3, <1>5 DEF Clean
<1>6. Clean(faces, r) BY <1>4, <1>5 DEF Clean
<1>7. Fresh(faces, r) BY <1>2 DEF Fresh
<1> QED BY <1>6, <1>7 DEF r

\* A result after a ball.
LEMMA CleanResult ==
    ASSUME NEW faces, NEW q \in Seq(Messages), Clean(faces, q), Fresh(faces, q),
           NEW m \in Results
    PROVE  Clean(faces, Append(q, m))
<1> DEFINE r == Append(q, m)
           n == Len(q)
<1>1. m \in Messages /\ m # "b" BY DEF Messages, Results
<1>2. /\ r \in Seq(Messages) /\ n \in Nat /\ DOMAIN q = 1 .. n
      /\ Len(r) = n + 1 /\ DOMAIN r = 1 .. n + 1
      /\ (\A k \in 1 .. n : r[k] = q[k]) /\ r[n + 1] = m /\ (q = <<>> <=> n = 0)
  BY <1>1, AppendPlaces, EmptySeq
<1> HIDE DEF r, n
<1>3. n # 0 => r[n] = "b" BY <1>2 DEF Fresh, n
<1>4. ASSUME NEW x \in faces, NEW k \in DOMAIN r, r[k] \in Results
      PROVE  r[k] = x \/ \E j \in 1 .. k - 1 : r[j] = "b"
  <2>1. CASE k = n + 1
    <3>1. n # 0 BY <1>2 DEF Fresh
    <3> QED BY <1>2, <1>3, <2>1, <3>1
  <2>2. CASE k # n + 1
    <3>1. k \in 1 .. n /\ k \in DOMAIN q /\ q[k] \in Results BY <1>2, <1>4, <2>2
    <3>2. q[k] = x \/ \E j \in 1 .. k - 1 : q[j] = "b" BY <3>1 DEF Clean
    <3> QED BY <1>2, <3>1, <3>2
  <2> QED BY <2>1, <2>2
<1>5. ASSUME NEW i \in DOMAIN r, NEW k \in DOMAIN r, i < k, r[i] \in Results, r[k] \in Results
      PROVE  r[i] = r[k] \/ \E j \in i + 1 .. k - 1 : r[j] = "b"
  <2>1. CASE k = n + 1
    <3>1. n # 0 /\ i # n BY <1>1, <1>2, <1>3, <1>5, <2>1 DEF Results
    <3>2. n \in i + 1 .. k - 1 BY <1>2, <1>5, <2>1, <3>1
    <3> QED BY <1>3, <3>1, <3>2
  <2>2. CASE k # n + 1
    <3>1. /\ k \in 1 .. n /\ k \in DOMAIN q /\ q[k] \in Results
          /\ i \in 1 .. n /\ i \in DOMAIN q /\ q[i] \in Results
      BY <1>2, <1>5, <2>2
    <3>2. q[i] = q[k] \/ \E j \in i + 1 .. k - 1 : q[j] = "b" BY <1>5, <3>1 DEF Clean
    <3> QED BY <1>2, <3>1, <3>2
  <2> QED BY <2>1, <2>2
<1>6. Clean(faces, r) BY <1>4, <1>5 DEF Clean
<1> QED BY <1>6 DEF r

\* What is clean with a result at the end is so without it, and with it twice.
LEMMA CleanAgain ==
    ASSUME NEW faces, NEW q \in Seq(Messages), NEW m \in Results, Clean(faces, Append(q, m))
    PROVE  Clean(faces, q) /\ Clean(faces, Append(Append(q, m), m))
<1> DEFINE r == Append(q, m)
           s == Append(r, m)
           n == Len(q)
<1>1. m \in Messages /\ m # "b" BY DEF Messages, Results
<1>2. /\ r \in Seq(Messages) /\ n \in Nat /\ DOMAIN q = 1 .. n
      /\ Len(r) = n + 1 /\ DOMAIN r = 1 .. n + 1
      /\ (\A k \in 1 .. n : r[k] = q[k]) /\ r[n + 1] = m
  BY <1>1, AppendPlaces
<1>3. /\ DOMAIN s = 1 .. n + 2 /\ (\A k \in 1 .. n + 1 : s[k] = r[k]) /\ s[n + 2] = m
  <2> HIDE DEF r
  <2>1. /\ DOMAIN s = 1 .. Len(r) + 1 /\ (\A k \in 1 .. Len(r) : s[k] = r[k])
        /\ s[Len(r) + 1] = m
    BY <1>1, <1>2, AppendPlaces
  <2> QED BY <1>2, <2>1
<1>4. Clean(faces, r) OBVIOUS
<1> HIDE DEF r, s, n
<1>5. Clean(faces, q)
  <2>1. ASSUME NEW x \in faces, NEW k \in DOMAIN q, q[k] \in Results
        PROVE  q[k] = x \/ \E j \in 1 .. k - 1 : q[j] = "b"
    <3>1. k \in DOMAIN r /\ r[k] = q[k] BY <1>2
    <3>2. r[k] = x \/ \E j \in 1 .. k - 1 : r[j] = "b" BY <1>4, <2>1, <3>1 DEF Clean
    <3> QED BY <1>2, <3>1, <3>2
  <2>2. ASSUME NEW i \in DOMAIN q, NEW k \in DOMAIN q, i < k, q[i] \in Results, q[k] \in Results
        PROVE  q[i] = q[k] \/ \E j \in i + 1 .. k - 1 : q[j] = "b"
    <3>1. k \in DOMAIN r /\ r[k] = q[k] /\ i \in DOMAIN r /\ r[i] = q[i] BY <1>2
    <3>2. r[i] = r[k] \/ \E j \in i + 1 .. k - 1 : r[j] = "b" BY <1>4, <2>2, <3>1 DEF Clean
    <3> QED BY <1>2, <3>1, <3>2
  <2> QED BY <1>4, <2>1, <2>2 DEF Clean
\* A place of s is one of r, where the last one stands for both.
<1> DEFINE Place(k) == IF k = n + 2 THEN n + 1 ELSE k
<1>6. ASSUME NEW k \in DOMAIN s
       PROVE  IF k = n + 2 THEN Place(k) = n + 1 ELSE k \in 1 .. n + 1 /\ Place(k) = k
  BY <1>2, <1>3
<1> HIDE DEF Place
<1>7. ASSUME NEW k \in DOMAIN s
      PROVE  /\ Place(k) \in DOMAIN r /\ s[k] = r[Place(k)] /\ Place(k) <= k
             /\ k \in Nat /\ Place(k) \in Nat
  <2>1. CASE k = n + 2 BY <1>2, <1>3, <1>6, <2>1
  <2>2. CASE k # n + 2 BY <1>2, <1>3, <1>6, <2>2
  <2> QED BY <2>1, <2>2
<1>8. ASSUME NEW i \in DOMAIN s, NEW k \in DOMAIN s, i < k, s[i] # s[k]
      PROVE  Place(i) < Place(k) /\ Place(i) = i
  <2>1. i \in 1 .. n + 1 /\ Place(i) = i BY <1>2, <1>3, <1>8, <1>6
  <2>2. CASE k = n + 2
    <3>1. i # n + 1 BY <1>2, <1>3, <1>8, <2>2
    <3> QED BY <1>2, <1>6, <2>1, <2>2, <3>1
  <2>3. CASE k # n + 2 BY <1>8, <1>6, <2>1, <2>3
  <2> QED BY <2>2, <2>3
<1>9. \A k \in DOMAIN r : s[k] = r[k] BY <1>2, <1>3
<1>10. ASSUME NEW x \in faces, NEW k \in DOMAIN s, s[k] \in Results
      PROVE  s[k] = x \/ \E j \in 1 .. k - 1 : s[j] = "b"
  <2>1. s[k] = x \/ \E j \in 1 .. Place(k) - 1 : r[j] = "b" BY <1>4, <1>7, <1>10 DEF Clean
  <2> QED BY <1>2, <1>7, <1>9, <2>1
<1>11. ASSUME NEW i \in DOMAIN s, NEW k \in DOMAIN s, i < k, s[i] \in Results, s[k] \in Results
       PROVE  s[i] = s[k] \/ \E j \in i + 1 .. k - 1 : s[j] = "b"
  <2> SUFFICES ASSUME s[i] # s[k] PROVE \E j \in i + 1 .. k - 1 : s[j] = "b" OBVIOUS
  <2>1. Place(i) < Place(k) BY <1>8, <1>11
  <2>2. \E j \in Place(i) + 1 .. Place(k) - 1 : r[j] = "b" BY <1>4, <1>7, <1>11, <2>1 DEF Clean
  <2>3. Place(i) = i BY <1>8, <1>11
  <2> QED BY <1>2, <1>7, <1>9, <2>2, <2>3
<1>12. Clean(faces, s) BY <1>4, <1>10, <1>11 DEF Clean
<1> QED BY <1>5, <1>12 DEF r, s

\* The window shows the first message.
After(faces, m) == IF m = "b" THEN {} ELSE faces \cup {m}
LEMMA CleanReceive ==
    ASSUME NEW faces, NEW q \in Seq(Messages), q # <<>>, Clean(faces, q), faces \subseteq Results
    PROVE  Clean(After(faces, Head(q)), Tail(q))
<1> DEFINE t == Tail(q)
           n == Len(q)
           m == Head(q)
<1>1. /\ t \in Seq(Messages) /\ n \in Nat \ {0} /\ m = q[1] /\ m \in Messages
      /\ DOMAIN q = 1 .. n /\ DOMAIN t = 1 .. n - 1
      /\ \A k \in 1 .. n - 1 : t[k] = q[k + 1]
  BY TailPlaces
<1> HIDE DEF t, n, m
<1>2. \A k \in DOMAIN t : k + 1 \in DOMAIN q /\ t[k] = q[k + 1] /\ k \in Nat BY <1>1
<1>3. ASSUME NEW i \in DOMAIN t, NEW k \in DOMAIN t, i < k, t[i] \in Results, t[k] \in Results
      PROVE  t[i] = t[k] \/ \E j \in i + 1 .. k - 1 : t[j] = "b"
  <2>1. t[i] = t[k] \/ \E j \in i + 2 .. k : q[j] = "b"
    BY <1>2, <1>3 DEF Clean
  <2>2. ASSUME NEW j \in i + 2 .. k, q[j] = "b" PROVE j - 1 \in i + 1 .. k - 1 /\ t[j - 1] = "b"
    BY <1>1, <1>2, <2>2
  <2> QED BY <2>1, <2>2
<1>4. CASE m = "b" BY <1>3, <1>4 DEF Clean, After, m, t
<1>5. CASE m # "b"
  <2>1. m \in Results BY <1>1, <1>5 DEF Messages, Results
  <2>2. \A x \in faces : x = m
    <3> SUFFICES ASSUME NEW x \in faces PROVE x = m OBVIOUS
    <3>1. q[1] = x \/ \E j \in 1 .. 1 - 1 : q[j] = "b" BY <1>1, <2>1 DEF Clean
    <3> QED BY <1>1, <3>1
  <2>3. \A x \in faces \cup {m} : x = m BY <2>2
  <2>4. ASSUME NEW k \in DOMAIN t, t[k] \in Results
        PROVE  t[k] = m \/ \E j \in 1 .. k - 1 : t[j] = "b"
    <3>1. q[1] = q[k + 1] \/ \E j \in 2 .. k : q[j] = "b"
      <4>1. 1 \in DOMAIN q /\ k + 1 \in DOMAIN q /\ 1 < k + 1 BY <1>1, <1>2, <2>4
      <4>2. q[1] \in Results /\ q[k + 1] \in Results BY <1>1, <1>2, <2>1, <2>4
      <4>3. q[1] = q[k + 1] \/ \E j \in 1 + 1 .. (k + 1) - 1 : q[j] = "b"
        BY <4>1, <4>2 DEF Clean
      <4>4. 1 + 1 .. (k + 1) - 1 = 2 .. k BY <1>2, <2>4
      <4> QED BY <4>3, <4>4
    <3>2. ASSUME NEW j \in 2 .. k, q[j] = "b" PROVE j - 1 \in 1 .. k - 1 /\ t[j - 1] = "b"
      BY <1>1, <1>2, <3>2
    <3> QED BY <1>1, <1>2, <3>1, <3>2
  <2>5. Clean(faces \cup {m}, t) BY <1>3, <2>3, <2>4 DEF Clean
  <2> QED BY <1>5, <2>5 DEF After, m, t
<1> QED BY <1>4, <1>5

\* A result is lost before the window reads it.
LEMMA CleanLose ==
    ASSUME NEW faces, NEW q \in Seq(Messages), q # <<>>, Clean(faces, q), Head(q) # "b"
    PROVE  Clean(faces, Tail(q))
<1> DEFINE t == Tail(q)
           n == Len(q)
<1>1. /\ t \in Seq(Messages) /\ n \in Nat \ {0} /\ Head(q) = q[1]
      /\ DOMAIN q = 1 .. n /\ DOMAIN t = 1 .. n - 1
      /\ \A k \in 1 .. n - 1 : t[k] = q[k + 1]
  BY TailPlaces
<1> HIDE DEF t, n
<1>2. \A k \in DOMAIN t : k + 1 \in DOMAIN q /\ t[k] = q[k + 1] /\ k \in Nat BY <1>1
<1>3. ASSUME NEW i \in DOMAIN t, NEW k \in DOMAIN t, i < k, t[i] \in Results, t[k] \in Results
      PROVE  t[i] = t[k] \/ \E j \in i + 1 .. k - 1 : t[j] = "b"
  <2>1. t[i] = t[k] \/ \E j \in i + 2 .. k : q[j] = "b"
    BY <1>2, <1>3 DEF Clean
  <2>2. ASSUME NEW j \in i + 2 .. k, q[j] = "b" PROVE j - 1 \in i + 1 .. k - 1 /\ t[j - 1] = "b"
    BY <1>1, <1>2, <2>2
  <2> QED BY <2>1, <2>2
<1>4. ASSUME NEW x \in faces, NEW k \in DOMAIN t, t[k] \in Results
      PROVE  t[k] = x \/ \E j \in 1 .. k - 1 : t[j] = "b"
  <2>1. t[k] = x \/ \E j \in 1 .. k : q[j] = "b" BY <1>2, <1>4 DEF Clean
  <2>2. ASSUME NEW j \in 1 .. k, q[j] = "b" PROVE j - 1 \in 1 .. k - 1 /\ t[j - 1] = "b"
    BY <1>1, <1>2, <2>2
  <2> QED BY <2>1, <2>2
<1>5. Clean(faces, t) BY <1>3, <1>4 DEF Clean
<1> QED BY <1>5 DEF t

(***************************************************************************)
(* The inductive invariant.                                                *)
(***************************************************************************)

\* Of a window that lost no ball: what is on its way to it fits what it shows,
\* and so does what the server sends it next.
Upright(c) ==
    LET faces == Faces(c)
        q == toClient[c]
    IN  /\ Clean(faces, q)
        /\ c \in Listed(server) =>
              IF IsGameOver(server) THEN Clean(faces, Append(q, Message(server, c)))
                                    ELSE Fresh(faces, q)

GameInv ==
    /\ GameTypeOK /\ FieldInv
    /\ Roll(server) /\ (IsGameOver(server) => server.connections = {})
    /\ \A c \in Player : told[c] = IF IsGameOver(server) /\ c \in Listed(server)
                                   THEN {Message(server, c)} ELSE {}
    /\ \A c \in Player : c \in lost \/ Upright(c)

LEMMA ListedIs == ASSUME NEW s PROVE Listed(s) = Range(Players(s))
BY DEF Listed, Players, ToSet, Range

\* A turn ends a game without touching its list, and a game that is over goes on
\* to be over with the same results, or begins again.
Outcome(t) ==
    /\ Good(t) /\ Roll(t)
    /\ IsGameOver(t) =>
          /\ t.clients = server.clients /\ t.playerNum = server.playerNum
          /\ IsGameOver(server) => t.state = server.state
          /\ t.connections \subseteq Listed(t)

LEMMA TurnOutcome ==
    ASSUME GameInv, NEW h \in Servers, Good(h), Roll(h), Handled(server, h)
    PROVE  Outcome(Update(h))
<1>1. PICK s : s = server OBVIOUS
<1>2. Handled(s, h) BY <1>1
<1>3. PICK t : t = Update(h) OBVIOUS
<1>4. /\ Roll(t) /\ t.clients = h.clients /\ t.playerNum = h.playerNum
      /\ IsGameOver(h) => t = h
      /\ ~IsGameOver(h) /\ h.ball \in {Placed(0), Placed(Speed)} => ~IsGameOver(t)
  BY <1>3, UpdateRoll
<1>5. Good(t) BY <1>3, UpdateGood DEF Good
<1>6. ASSUME IsGameOver(t)
      PROVE  /\ t.clients = s.clients /\ t.playerNum = s.playerNum
             /\ IsGameOver(s) => t.state = s.state
  <2>1. ~(h.state = -1 /\ h.ball \in {Placed(0), Placed(Speed)})
    BY <1>4, <1>6 DEF IsGameOver
  <2>2. h.clients = s.clients /\ h.playerNum = s.playerNum /\ h.state = s.state
    BY <1>2, <2>1 DEF Handled
  <2> QED BY <1>4, <2>2 DEF IsGameOver
<1>7. t.connections \subseteq Listed(t) BY <1>4, ListedIs DEF Roll
<1> QED BY <1>1, <1>3, <1>4, <1>5, <1>6, <1>7 DEF Outcome

\* A message is a ball while the game goes on, a result when it is over.
LEMMA MessageFacts ==
    ASSUME NEW s, NEW c
    PROVE  /\ ~IsGameOver(s) => Message(s, c) = "b"
           /\ IsGameOver(s) => Message(s, c) = IF s.playerNum[c] = s.state THEN "w" ELSE "l"
           /\ Message(s, c) \in Messages /\ (IsGameOver(s) => Message(s, c) \in Results)
BY DEF Message, Messages, Results

\* The server sends the outcome of its turn.
LEMMA SendKeeps ==
    ASSUME GameInv, NEW t, Outcome(t), Send(t),
           toServer' \in Seq(Player \X Keys), Len(toServer') <= Depth
    PROVE  GameInv'
<1> DEFINE fits == {c \in Listed(t) : Len(toClient[c]) < Depth}
<1>1. t \in Servers /\ (~IsGameOver(t) => InField(t.ball)) BY DEF Outcome, Good
<1>2. FieldInv' BY <1>1, SendGood
<1>3. server' = IF IsGameOver(t) THEN [t EXCEPT !.connections = @ \ Listed(t)] ELSE t
  BY DEF Send
<1>4. /\ server'.clients = t.clients /\ server'.playerNum = t.playerNum
      /\ server'.state = t.state /\ server'.ball = t.ball
      /\ server'.connections = IF IsGameOver(t) THEN {} ELSE t.connections
  BY <1>1, <1>3 DEF Servers, Outcome
<1>5. /\ IsGameOver(server)' <=> IsGameOver(t)
      /\ Listed(server)' = Listed(t)
      /\ \A c : Message(server, c)' = Message(t, c)
  BY <1>4 DEF IsGameOver, Listed, Message
<1>6. Roll(server)'
  BY <1>4, <1>5 DEF Outcome, Roll, Players, IsGameOver
<1>7. /\ toClient' = [c \in Player |-> IF c \in fits THEN Append(toClient[c], Message(t, c))
                                       ELSE toClient[c]]
      /\ lost' = IF IsGameOver(t) THEN lost ELSE lost \cup (Listed(t) \ fits)
      /\ \A c \in Player : told'[c] = IF ~IsGameOver(t) THEN {}
                                      ELSE IF c \in Listed(t) THEN told[c] \cup {Message(t, c)}
                                      ELSE told[c]
      /\ isSad' = isSad /\ isHappy' = isHappy
  BY DEF Send, views
<1>8. GameTypeOK'
  <2>1. ASSUME NEW c \in Player PROVE toClient'[c] \in Seq(Messages) /\ Len(toClient'[c]) <= Depth
    <3>1. PICK q : q = toClient[c] OBVIOUS
    <3>2. PICK m : m = Message(t, c) OBVIOUS
    <3>3. q \in Seq(Messages) /\ Len(q) <= Depth BY <3>1 DEF GameInv, GameTypeOK, Messages
    <3>4. m \in Messages BY <3>2, MessageFacts
    <3>5. Append(q, m) \in Seq(Messages) /\ Len(Append(q, m)) = Len(q) + 1 /\ Len(q) \in Nat
      BY <3>3, <3>4, AppendPlaces
    <3>6. toClient'[c] = IF c \in fits THEN Append(q, m) ELSE q BY <1>7, <3>1, <3>2
    <3> QED BY <3>1, <3>3, <3>5, <3>6, DepthAssumption
  <2>2. toClient' \in [Player -> Seq(Messages)] BY <1>7, <2>1
  <2> QED BY <1>2, <1>7, <2>1, <2>2 DEF GameInv, GameTypeOK, FieldInv, Messages
<1>9. ASSUME NEW c \in Player
      PROVE  told'[c] = IF IsGameOver(server)' /\ c \in Listed(server)'
                        THEN {Message(server, c)'} ELSE {}
  <2>1. told[c] = IF IsGameOver(server) /\ c \in Listed(server)
                  THEN {Message(server, c)} ELSE {}
    BY DEF GameInv
  <2>2. IsGameOver(t) => Listed(t) = Listed(server) BY DEF Outcome, Listed
  <2>3. IsGameOver(t) /\ IsGameOver(server) => Message(t, c) = Message(server, c)
    BY DEF Outcome, Message, IsGameOver
  <2> QED BY <1>5, <1>7, <2>1, <2>2, <2>3
<1>10. ASSUME NEW c \in Player, c \notin lost' PROVE Upright(c)'
  <2>1. PICK q : q = toClient[c] OBVIOUS
  <2>2. PICK m : m = Message(t, c) OBVIOUS
  <2>3. PICK faces : faces = Faces(c) OBVIOUS
  <2>4. /\ q \in Seq(Messages) /\ m \in Messages
        /\ ~IsGameOver(t) => m = "b"
        /\ IsGameOver(t) => m \in Results
    BY <2>1, <2>2, MessageFacts DEF GameInv, GameTypeOK, Messages
  <2>5. Faces(c)' = faces BY <1>7, <2>3 DEF Faces
  <2>6. toClient'[c] = IF c \in fits THEN Append(q, m) ELSE q BY <1>7, <2>1, <2>2
  <2>7. Upright(c) /\ Clean(faces, q) BY <1>7, <1>10, <2>1, <2>3 DEF GameInv, Upright
  <2>8. CASE c \notin Listed(t)
    BY <1>5, <2>5, <2>6, <2>7, <2>8 DEF Upright
  <2>9. CASE c \in Listed(t) /\ ~IsGameOver(t)
    <3>1. c \in fits BY <1>7, <1>10, <2>9
    <3>2. Clean(faces, Append(q, "b")) /\ Fresh(faces, Append(q, "b"))
      BY <2>4, <2>7, CleanBall
    <3> QED BY <1>5, <2>4, <2>5, <2>6, <2>9, <3>1, <3>2 DEF Upright
  <2>10. CASE c \in Listed(t) /\ IsGameOver(t)
    <3>1. c \in Listed(server) BY <2>10 DEF Outcome, Listed
    <3>2. Clean(faces, Append(q, m))
      <4>1. CASE IsGameOver(server)
        <5>1. m = Message(server, c) BY <2>2, <2>10, <4>1 DEF Outcome, Message, IsGameOver
        <5> QED BY <2>1, <2>3, <2>7, <3>1, <4>1, <5>1 DEF Upright
      <4>2. CASE ~IsGameOver(server)
        <5>1. Fresh(faces, q) BY <2>1, <2>3, <2>7, <3>1, <4>2 DEF Upright
        <5> QED BY <2>4, <2>7, <2>10, <5>1, CleanResult
      <4> QED BY <4>1, <4>2
    <3>3. Clean(faces, Append(Append(q, m), m)) BY <2>4, <2>10, <3>2, CleanAgain
    <3>4. Message(server, c)' = m BY <1>5, <2>2
    <3> QED BY <1>5, <2>5, <2>6, <2>7, <2>10, <3>2, <3>3, <3>4 DEF Upright
  <2> QED BY <2>8, <2>9, <2>10
<1>11. IsGameOver(server)' => server'.connections = {} BY <1>4, <1>5
<1> QED BY <1>2, <1>6, <1>8, <1>9, <1>10, <1>11 DEF GameInv

\* One turn of the server's loop.
LEMMA TurnKeeps == ASSUME GameInv, Turn PROVE GameInv'
<1>1. PICK s : s = server OBVIOUS
<1>2. /\ s \in Servers /\ Good(s) /\ Roll(s) /\ (IsGameOver(s) => s.connections = {})
      /\ (~IsGameOver(s) => InField(s.ball))
  BY <1>1 DEF GameInv, FieldInv, Good
<1>3. toServer \in Seq(Player \X Keys) /\ Len(toServer) <= Depth BY DEF GameInv, GameTypeOK
<1>4. CASE ReadNothing
  <2>1. Handled(s, s) BY DEF Handled
  <2>2. Outcome(Update(server)) BY <1>1, <1>2, <2>1, TurnOutcome
  <2>3. Send(Update(server)) /\ toServer' = toServer BY <1>4 DEF ReadNothing
  <2> QED BY <1>3, <2>2, <2>3, SendKeeps
<1>5. ASSUME NEW c \in Player, NEW key \in Keys, Read(c, key) PROVE GameInv'
  <2>1. PICK h : h = Handle(server, c, key) OBVIOUS
  <2>2. Good(h) /\ h \in Servers BY <1>1, <1>2, <2>1, HandleGood DEF Good
  <2>3. Roll(h) /\ Handled(s, h) BY <1>1, <1>2, <2>1, HandleRoll
  <2>4. Outcome(Update(h)) BY <1>1, <2>2, <2>3, TurnOutcome
  <2>5. /\ Send(Update(h)) /\ toServer # <<>> /\ toServer' = Tail(toServer)
    BY <1>5, <2>1 DEF Read
  <2>6. PICK q : q = toServer OBVIOUS
  <2>7. Tail(q) \in Seq(Player \X Keys) /\ Len(Tail(q)) = Len(q) - 1 /\ Len(q) \in Nat
    BY <1>3, <2>5, <2>6, TailPlaces
  <2>8. toServer' \in Seq(Player \X Keys) /\ Len(toServer') <= Depth
    BY <1>3, <2>5, <2>6, <2>7, DepthAssumption
  <2> QED BY <2>4, <2>5, <2>8, SendKeeps
<1> QED BY <1>4, <1>5 DEF Turn

\* What the windows and the network do leaves the server alone.
LEMMA ServerStays ==
    ASSUME GameInv, server' = server, told' = told, GameTypeOK',
           \A c \in Player : c \in lost' \/ Upright(c)'
    PROVE  GameInv'
<1>1. FieldInv' BY DEF GameInv, FieldInv, IsGameOver
<1>2. Roll(server)' /\ (IsGameOver(server)' => server'.connections = {})
  BY DEF GameInv, Roll, Players, IsGameOver
<1>3. ASSUME NEW c \in Player
      PROVE  told'[c] = IF IsGameOver(server)' /\ c \in Listed(server)'
                        THEN {Message(server, c)'} ELSE {}
  BY DEF GameInv, IsGameOver, Listed, Message
<1> QED BY <1>1, <1>2, <1>3 DEF GameInv

\* A packet leaves the queue of a client: the others are as they were.
LEMMA OthersUpright ==
    ASSUME GameInv, NEW c \in Player, NEW d \in Player, d # c,
           server' = server, toClient' = [toClient EXCEPT ![c] = Tail(@)],
           d \in isSad' <=> d \in isSad, d \in isHappy' <=> d \in isHappy,
           d \in lost' <=> d \in lost
    PROVE  d \in lost' \/ Upright(d)'
<1>1. d \in lost \/ Upright(d) BY DEF GameInv
<1>2. toClient'[d] = toClient[d] BY DEF GameInv, GameTypeOK
<1>3. Faces(d)' = Faces(d) BY DEF Faces
<1>4. /\ IsGameOver(server)' <=> IsGameOver(server)
      /\ Listed(server)' = Listed(server) /\ Message(server, d)' = Message(server, d)
  BY DEF IsGameOver, Listed, Message
<1>5. Upright(d) => Upright(d)' BY <1>2, <1>3, <1>4 DEF Upright
<1> QED BY <1>1, <1>5

\* What a window does to the queue of its own packets keeps the types.
LEMMA TakenType ==
    ASSUME GameInv, NEW c \in Player, toClient[c] # <<>>,
           server' = server, toServer' = toServer,
           toClient' = [toClient EXCEPT ![c] = Tail(@)],
           isSad' \subseteq Player, isHappy' \subseteq Player
    PROVE  GameTypeOK'
<1>1. PICK q : q = toClient[c] OBVIOUS
<1>2. q \in Seq(Messages) /\ q # <<>> /\ Len(q) <= Depth BY <1>1 DEF GameInv, GameTypeOK, Messages
<1>3. Tail(q) \in Seq(Messages) /\ Len(Tail(q)) = Len(q) - 1 /\ Len(q) \in Nat
  BY <1>2, TailPlaces
<1>4. \A d \in Player : toClient'[d] = IF d = c THEN Tail(q) ELSE toClient[d]
  BY <1>1 DEF GameInv, GameTypeOK
<1>5. \A d \in Player : toClient'[d] \in Seq(Messages) /\ Len(toClient'[d]) <= Depth
  BY <1>2, <1>3, <1>4, DepthAssumption DEF GameInv, GameTypeOK, Messages
<1>6. toClient' \in [Player -> Seq(Messages)] BY <1>5 DEF GameInv, GameTypeOK
<1> QED BY <1>5, <1>6 DEF GameInv, GameTypeOK, Messages

\* The first of a message that follows others is the first of those.
LEMMA HeadOfAppend ==
    ASSUME NEW S, NEW q \in Seq(S), q # <<>>, NEW m \in S
    PROVE  /\ Append(q, m) \in Seq(S) /\ Append(q, m) # <<>>
           /\ Head(Append(q, m)) = Head(q) /\ Tail(Append(q, m)) = Append(Tail(q), m)
OBVIOUS

\* Nor does the last one change when the first one leaves.
LEMMA FreshTail ==
    ASSUME NEW faces, NEW q \in Seq(Messages), q # <<>>, Fresh(faces, q)
    PROVE  /\ Fresh(After(faces, Head(q)), Tail(q))
           /\ Head(q) # "b" => Fresh(faces, Tail(q))
<1> DEFINE t == Tail(q)
           n == Len(q)
<1>1. /\ t \in Seq(Messages) /\ n \in Nat \ {0} /\ Head(q) = q[1] /\ Len(t) = n - 1
      /\ \A k \in 1 .. n - 1 : t[k] = q[k + 1]
  BY TailPlaces
<1>3. q[n] = "b" BY DEF Fresh
<1> HIDE DEF t, n
<1>2. t = <<>> <=> n = 1
  <2>1. t = <<>> <=> Len(t) = 0 BY <1>1, EmptySeq
  <2> QED BY <1>1, <2>1
<1>4. t # <<>> => t[Len(t)] = "b" BY <1>1, <1>2, <1>3
<1>5. t = <<>> => Head(q) = "b" BY <1>1, <1>2, <1>3
<1> QED BY <1>4, <1>5 DEF Fresh, After, t

\* A window reads a packet and shows it.
LEMMA ReceiveKeeps == ASSUME GameInv, NEW c \in Player, Receive(c) PROVE GameInv'
<1>1. PICK q : q = toClient[c] OBVIOUS
<1>2. PICK m : m = Head(q) OBVIOUS
<1>3. PICK faces : faces = Faces(c) OBVIOUS
<1>4. PICK next : next = Message(server, c) OBVIOUS
<1>5. /\ q \in Seq(Messages) /\ q # <<>> /\ m \in Messages
      /\ isSad \subseteq Player /\ isHappy \subseteq Player /\ faces \subseteq Results
  BY <1>1, <1>2, <1>3, TailPlaces DEF GameInv, GameTypeOK, Messages, Receive, Faces
<1>6. /\ server' = server /\ toServer' = toServer /\ told' = told
      /\ toClient' = [toClient EXCEPT ![c] = Tail(@)]
      /\ lost' = IF q = <<"b">> THEN lost \ {c} ELSE lost
  BY <1>1 DEF Receive
<1>7. Shows(c, m) BY <1>1, <1>2 DEF Receive
<1>8. /\ m = "b" => isSad' = isSad \ {c} /\ isHappy' = isHappy \ {c}
      /\ m = "l" => isSad' = isSad \cup {c} /\ isHappy' = isHappy
      /\ m = "w" => isSad' = isSad /\ isHappy' = isHappy \cup {c}
  BY <1>7 DEF Shows
<1>9. \A d \in Player \ {c} : /\ d \in isSad' <=> d \in isSad
                              /\ d \in isHappy' <=> d \in isHappy
  BY <1>5, <1>8 DEF Messages
<1>10. isSad' \subseteq Player /\ isHappy' \subseteq Player BY <1>5, <1>8 DEF Messages
<1>11. Faces(c)' = After(faces, m)
  BY <1>3, <1>5, <1>8 DEF Faces, After, Messages, Results
<1>12. toClient'[c] = Tail(q) BY <1>1, <1>6 DEF GameInv, GameTypeOK
<1>13. /\ IsGameOver(server)' <=> IsGameOver(server)
       /\ Listed(server)' = Listed(server) /\ Message(server, c)' = next
  BY <1>4, <1>6 DEF IsGameOver, Listed, Message
<1>14. /\ next \in Messages
       /\ IsGameOver(server) => next \in Results
       /\ ~IsGameOver(server) => next = "b"
  BY <1>4, MessageFacts
<1>15. ASSUME c \notin lost PROVE Upright(c)'
  <2>1. Upright(c) BY <1>15 DEF GameInv
  <2>2. Clean(faces, q) BY <1>1, <1>3, <2>1 DEF Upright
  <2>3. Clean(After(faces, m), Tail(q)) BY <1>2, <1>5, <2>2, CleanReceive
  <2>4. CASE c \notin Listed(server)
    BY <1>11, <1>12, <1>13, <2>3, <2>4 DEF Upright
  <2>5. CASE c \in Listed(server) /\ ~IsGameOver(server)
    <3>1. Fresh(faces, q) BY <1>1, <1>3, <2>1, <2>5 DEF Upright
    <3>2. Fresh(After(faces, m), Tail(q)) BY <1>2, <1>5, <3>1, FreshTail
    <3> QED BY <1>11, <1>12, <1>13, <2>3, <2>5, <3>2 DEF Upright
  <2>6. CASE c \in Listed(server) /\ IsGameOver(server)
    <3>1. Clean(faces, Append(q, next)) BY <1>1, <1>3, <1>4, <2>1, <2>6 DEF Upright
    <3>2. /\ Append(q, next) \in Seq(Messages) /\ Append(q, next) # <<>>
          /\ Head(Append(q, next)) = m /\ Tail(Append(q, next)) = Append(Tail(q), next)
      BY <1>2, <1>5, <1>14, HeadOfAppend
    <3>3. Clean(After(faces, m), Append(Tail(q), next)) BY <1>5, <3>1, <3>2, CleanReceive
    <3> QED BY <1>11, <1>12, <1>13, <2>3, <2>6, <3>3 DEF Upright
  <2> QED BY <2>4, <2>5, <2>6
<1>16. ASSUME q = <<"b">> PROVE Upright(c)'
  <2>1. m = "b" /\ Tail(q) = <<>> BY <1>2, <1>16
  <2>2. After(faces, m) = {} BY <2>1 DEF After
  <2>3. Clean({}, <<>>) /\ Fresh({}, <<>>) BY EmptyFacts DEF Clean, Fresh
  <2>4. Append(<<>>, next) = <<next>> OBVIOUS
  <2>5. Clean({}, <<next>>) BY SingleFacts DEF Clean
  <2> QED BY <1>11, <1>12, <1>13, <2>1, <2>2, <2>3, <2>4, <2>5 DEF Upright
<1>17. c \in lost' \/ Upright(c)' BY <1>6, <1>15, <1>16
<1>18. ASSUME NEW d \in Player, d # c PROVE d \in lost' \/ Upright(d)'
  <2>1. d \in lost' <=> d \in lost BY <1>6, <1>18
  <2> QED BY <1>6, <1>9, <1>18, <2>1, OthersUpright
<1>19. GameTypeOK' BY <1>1, <1>5, <1>6, <1>10, TakenType
<1> QED BY <1>6, <1>17, <1>18, <1>19, ServerStays

\* The network loses a packet of a window.
LEMMA LoseKeeps == ASSUME GameInv, NEW c \in Player, LoseToClient(c) PROVE GameInv'
<1>1. PICK q : q = toClient[c] OBVIOUS
<1>2. PICK faces : faces = Faces(c) OBVIOUS
<1>3. PICK next : next = Message(server, c) OBVIOUS
<1>4. /\ q \in Seq(Messages) /\ q # <<>> /\ isSad \subseteq Player /\ isHappy \subseteq Player
  BY <1>1 DEF GameInv, GameTypeOK, Messages, LoseToClient
<1>5. /\ server' = server /\ toServer' = toServer /\ told' = told
      /\ toClient' = [toClient EXCEPT ![c] = Tail(@)]
      /\ lost' = IF Head(q) = "b" THEN lost \cup {c} ELSE lost
      /\ isSad' = isSad /\ isHappy' = isHappy
  BY <1>1 DEF LoseToClient, views
<1>6. ASSUME c \notin lost' PROVE Upright(c)'
  <2>1. Head(q) # "b" /\ Upright(c) BY <1>5, <1>6 DEF GameInv
  <2>2. Clean(faces, q) BY <1>1, <1>2, <2>1 DEF Upright
  <2>3. Clean(faces, Tail(q)) BY <1>4, <2>1, <2>2, CleanLose
  <2>4. Faces(c)' = faces BY <1>2, <1>5 DEF Faces
  <2>5. toClient'[c] = Tail(q) BY <1>1, <1>5 DEF GameInv, GameTypeOK
  <2>6. /\ IsGameOver(server)' <=> IsGameOver(server)
        /\ Listed(server)' = Listed(server) /\ Message(server, c)' = next
    BY <1>3, <1>5 DEF IsGameOver, Listed, Message
  <2>7. CASE c \notin Listed(server)
    BY <2>3, <2>4, <2>5, <2>6, <2>7 DEF Upright
  <2>8. CASE c \in Listed(server) /\ ~IsGameOver(server)
    <3>1. Fresh(faces, q) BY <1>1, <1>2, <2>1, <2>8 DEF Upright
    <3>2. Fresh(faces, Tail(q)) BY <1>4, <2>1, <3>1, FreshTail
    <3> QED BY <2>3, <2>4, <2>5, <2>6, <2>8, <3>2 DEF Upright
  <2>9. CASE c \in Listed(server) /\ IsGameOver(server)
    <3>1. Clean(faces, Append(q, next)) BY <1>1, <1>2, <1>3, <2>1, <2>9 DEF Upright
    <3>2. next \in Messages BY <1>3, MessageFacts
    <3>3. /\ Append(q, next) \in Seq(Messages) /\ Append(q, next) # <<>>
          /\ Head(Append(q, next)) = Head(q) /\ Tail(Append(q, next)) = Append(Tail(q), next)
      BY <1>4, <3>2, HeadOfAppend
    <3>4. Clean(faces, Append(Tail(q), next)) BY <2>1, <3>1, <3>3, CleanLose
    <3> QED BY <2>3, <2>4, <2>5, <2>6, <2>9, <3>4 DEF Upright
  <2> QED BY <2>7, <2>8, <2>9
<1>7. ASSUME NEW d \in Player, d # c PROVE d \in lost' \/ Upright(d)'
  <2>1. d \in lost' <=> d \in lost BY <1>5, <1>7
  <2> QED BY <1>5, <1>7, <2>1, OthersUpright
<1>8. GameTypeOK' BY <1>1, <1>4, <1>5, TakenType
<1> QED BY <1>5, <1>6, <1>7, <1>8, ServerStays

\* A key of a player is on its way to the server.
LEMMA PressKeeps == ASSUME GameInv, NEW c \in Player, NEW key \in Keys, Press(c, key) PROVE GameInv'
<1>1. /\ server' = server /\ toClient' = toClient /\ isSad' = isSad /\ isHappy' = isHappy
      /\ told' = told /\ lost' = lost
      /\ Len(toServer) < Depth /\ toServer' = Append(toServer, <<c, key>>)
  BY DEF Press, views
<1>2. PICK q : q = toServer OBVIOUS
<1>3. q \in Seq(Player \X Keys) BY <1>2 DEF GameInv, GameTypeOK
<1>4. /\ Append(q, <<c, key>>) \in Seq(Player \X Keys)
      /\ Len(Append(q, <<c, key>>)) = Len(q) + 1 /\ Len(q) \in Nat
  BY <1>3, AppendPlaces
<1>5. GameTypeOK' BY <1>1, <1>2, <1>4, DepthAssumption DEF GameInv, GameTypeOK
<1>6. ASSUME NEW d \in Player PROVE d \in lost' \/ Upright(d)'
  BY <1>1 DEF GameInv, Upright, Faces, IsGameOver, Listed, Message
<1> QED BY <1>1, <1>5, <1>6, ServerStays

\* The invariant of the game, its list and its results.
THEOREM GameInvariance == GameSpec => []GameInv
<1>1. GameInit => GameInv
  <2> SUFFICES ASSUME GameInit PROVE GameInv OBVIOUS
  <2>1. /\ server = [ball |-> Placed(0), state |-> -2, paddlePositions |-> StartPaddles,
                     connections |-> {}, clients |-> Clients!EmptyList,
                     playerNum |-> [c \in Player |-> 0]]
        /\ toServer = <<>> /\ toClient = [c \in Player |-> <<>>]
        /\ isSad = {} /\ isHappy = {} /\ told = [c \in Player |-> {}] /\ lost = {}
    BY DEF GameInit
  <2>2. /\ Placed(0) \in Balls /\ InField(Placed(0)) BY PlacedInField
  <2>3. StartPaddles \in [0 .. 1 -> HalfPaddle .. Height - HalfPaddle]
    BY GeometryAssumption DEF StartPaddles
  <2>4. Clients!EmptyList \in Clients!ListType
    BY DEF Clients!EmptyList, Clients!NoLinks, Clients!ListType, Clients!Link
  <2>5. server \in Servers /\ ~IsGameOver(server) BY <2>1, <2>2, <2>3, <2>4 DEF Servers, IsGameOver
  <2>6. FieldInv BY <2>1, <2>2, <2>5 DEF FieldInv
  <2>7. Players(server) = <<>> BY <2>1, EmptyMembers, ForwardFacts DEF Players
  <2>8. Roll(server)
    <3>1. DOMAIN Players(server) = {} /\ Range(Players(server)) = {} BY <2>7, EmptyFacts
    <3>2. Members(server.clients, Players(server)) BY <2>1, <2>7, EmptyMembers
    <3>3. server.connections = {} /\ server.ball = Placed(0) BY <2>1
    <3> QED BY <2>5, <3>1, <3>2, <3>3 DEF Roll
  <2>9. Listed(server) = {} BY <2>7, EmptyFacts, ListedIs
  <2>10. GameTypeOK BY <2>1, <2>5, EmptyFacts, DepthAssumption DEF GameTypeOK
  <2>11. ASSUME NEW c \in Player PROVE Upright(c)
    <3>1. Faces(c) = {} BY <2>1 DEF Faces
    <3>2. toClient[c] = <<>> BY <2>1
    <3>3. Clean({}, <<>>) BY EmptyFacts DEF Clean
    <3> QED BY <2>9, <3>1, <3>2, <3>3 DEF Upright
  <2> QED BY <2>1, <2>5, <2>6, <2>8, <2>9, <2>10, <2>11 DEF GameInv
<1>2. GameInv /\ [GameNext]_gameVars => GameInv'
  <2> SUFFICES ASSUME GameInv, [GameNext]_gameVars PROVE GameInv' OBVIOUS
  <2>1. CASE Turn BY <2>1, TurnKeeps
  <2>2. ASSUME NEW c \in Player, Receive(c) PROVE GameInv' BY <2>2, ReceiveKeeps
  <2>3. ASSUME NEW c \in Player, LoseToClient(c) PROVE GameInv' BY <2>3, LoseKeeps
  <2>4. ASSUME NEW c \in Player, NEW key \in Keys, Press(c, key) PROVE GameInv'
    BY <2>4, PressKeeps
  <2>5. CASE UNCHANGED gameVars
    <3>1. /\ server' = server /\ toServer' = toServer /\ toClient' = toClient
          /\ isSad' = isSad /\ isHappy' = isHappy /\ told' = told /\ lost' = lost
      BY <2>5 DEF gameVars, packets, views
    <3>2. GameTypeOK' BY <3>1 DEF GameInv, GameTypeOK
    <3>3. ASSUME NEW d \in Player PROVE d \in lost' \/ Upright(d)'
      BY <3>1 DEF GameInv, Upright, Faces, IsGameOver, Listed, Message
    <3> QED BY <3>1, <3>2, <3>3, ServerStays
  <2> QED BY <2>1, <2>2, <2>3, <2>4, <2>5 DEF GameNext
<1> QED BY <1>1, <1>2, PTL DEF GameSpec

\* The list, the numbers, the connections and the results agree: of a game that
\* is over one player is told that it has won and the other that it has lost.
THEOREM MembersAgree == GameSpec => []MembersExact
<1>1. GameInv => MembersExact
  <2> SUFFICES ASSUME GameInv PROVE MembersExact OBVIOUS
  <2>1. PICK s : s = server OBVIOUS
  <2>2. PICK list : list = Players(s) OBVIOUS
  <2>3. /\ Members(s.clients, list) /\ s \in Servers
        /\ \A k \in DOMAIN list : s.playerNum[list[k]] = Len(list) - k
        /\ s.connections = IF IsGameOver(s) THEN {} ELSE Range(list)
        /\ IsGameOver(s) => Len(list) = 2
    BY <2>1, <2>2 DEF GameInv, FieldInv, Roll
  <2>4. Clients!Forward(server.clients) = list /\ ToSet(list) = Range(list)
    BY <2>1, <2>2 DEF Players, ToSet, Range
  <2>5. ASSUME IsGameOver(server) PROVE {told[c] : c \in ToSet(list)} = {{"w"}, {"l"}}
    <3>1. /\ DOMAIN list = 1 .. 2 /\ Len(list) = 2 /\ s.state \in 0 .. 1
          /\ list[1] \in Player /\ list[2] \in Player
      <4>1. Len(list) = 2 /\ list \in Seq(Player) BY <2>1, <2>3, <2>5 DEF Members
      <4>2. s.state \in 0 .. 1 BY <2>1, <2>3, <2>5 DEF Servers, IsGameOver
      <4>3. DOMAIN list = 1 .. 2 BY <4>1
      <4>4. list[1] \in Player /\ list[2] \in Player BY <4>1
      <4> QED BY <4>1, <4>2, <4>3, <4>4
    <3>2. Range(list) = {list[1], list[2]} BY <3>1 DEF Range
    <3>3. s.playerNum[list[1]] = 1 /\ s.playerNum[list[2]] = 0 BY <2>3, <3>1
    <3>4. /\ Message(s, list[1]) = IF s.state = 1 THEN "w" ELSE "l"
          /\ Message(s, list[2]) = IF s.state = 0 THEN "w" ELSE "l"
      BY <2>1, <2>5, <3>3, MessageFacts
    <3>5. Listed(s) = Range(list) BY <2>2, ListedIs
    <3>6. told[list[1]] = {Message(s, list[1])} /\ told[list[2]] = {Message(s, list[2])}
      <4>1. ASSUME NEW c \in Player, c \in Listed(s) PROVE told[c] = {Message(s, c)}
        BY <2>1, <2>5, <4>1 DEF GameInv
      <4> QED BY <3>1, <3>2, <3>5, <4>1
    <3>7. {told[c] : c \in Range(list)} = {told[list[1]], told[list[2]]} BY <3>2
    <3>8. CASE s.state = 0
      <4>1. told[list[1]] = {"l"} /\ told[list[2]] = {"w"} BY <3>4, <3>6, <3>8
      <4> QED BY <2>4, <3>7, <4>1
    <3>9. CASE s.state = 1
      <4>1. told[list[1]] = {"w"} /\ told[list[2]] = {"l"} BY <3>4, <3>6, <3>9
      <4> QED BY <2>4, <3>7, <4>1
    <3> QED BY <3>1, <3>8, <3>9
  <2>6. IsInjective(list) /\ Len(list) = s.clients.size BY <2>3 DEF Members
  <2>7. GameTypeOK BY DEF GameInv
  <2> QED BY <2>1, <2>3, <2>4, <2>5, <2>6, <2>7 DEF MembersExact
<1> QED BY <1>1, GameInvariance, PTL

\* A window that shows both faces lost a ball: what it missed between two games
\* is the network's doing, never the order of what the server sends.
THEOREM ShownLast == GameSpec => []ShownIsLast
<1>1. GameInv => ShownIsLast
  <2> SUFFICES ASSUME GameInv, NEW c \in Player, c \in isSad, c \in isHappy, c \notin lost
               PROVE  FALSE
    BY DEF GameInv, GameTypeOK, ShownIsLast
  <2>1. Clean(Faces(c), toClient[c]) BY DEF GameInv, Upright
  <2>2. "w" \in Faces(c) /\ "l" \in Faces(c) BY DEF Faces, Results
  <2> QED BY <2>1, <2>2 DEF Clean
<1> QED BY <1>1, GameInvariance, PTL
=============================================================================
