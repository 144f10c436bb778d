---------------------------- MODULE DriverProofs -----------------------------
(***************************************************************************)
(* The drivers and what programs see of them.  The keyboard's buffer loses *)
(* no slot and no count, and hands its characters out in order, for any    *)
(* number of readers, characters and slots.  The clock wakes every sleeper *)
(* in its second, for any width of the jiffies and any frequency, unless   *)
(* the jiffies wrapped within a call.  The queue of a program's keys, used *)
(* on both sides of a mutex that only one side holds, is exact unless an   *)
(* addition overlapped the removal of the only node.                       *)
(***************************************************************************)
EXTENDS BoundedBuffer, Clock, Keys, CollectionFacts, FiniteSetTheorems, TLAPS

Sems == {"nFull", "nEmpty", "mutex"}

\* Who waits for what, and that nobody waits while there is a permit.
Waits ==
    /\ waiting["nEmpty"] = <<>>
    /\ \A s \in Sems : IsInjective(waiting[s])
    /\ \A s \in Sems : waiting[s] # <<>> => count[s] = 0
    /\ \A r \in Range(waiting["nFull"]) : pc[r] = "lock"
    /\ \A r \in Range(waiting["mutex"]) : pc[r] = "take"

\* The characters are in the slots from head on, up to tail.
RingExact == tail - head - counts \in {0, -Size}

\* Conjuncts of SlotsAccounted, by name.
CountExact == counts = count["nFull"] + Cardinality(Owed)
RoomExact == Size = counts + Cardinality(Leaving) + count["nEmpty"]
MutexExact == Cardinality(Inside) + count["mutex"] = 1

\* A reader in the middle of GetKeyPresses still wants something.
LeftExact == \A r \in Reader : pc[r] # "idle" => left[r] > 0

BInv == TypeOK /\ Waits /\ RingExact /\ CountExact /\ RoomExact /\ MutexExact /\ LeftExact

-----------------------------------------------------------------------------

\* What the type of the state says of its parts.
LEMMA Types ==
    ASSUME TypeOK
    PROVE  /\ \A s \in Sems : count[s] \in Nat /\ waiting[s] \in Seq(Reader)
           /\ \A s \in Sems : Range(waiting[s]) \subseteq Reader
           /\ count \in [Sems -> Nat] /\ waiting \in [Sems -> Seq(Reader)]
           /\ Size \in Nat \ {0} /\ MaxWant \in Nat
<1>1. count \in [Sems -> Nat] /\ waiting \in [Sems -> Seq(Reader)]
  BY DEF TypeOK, Semaphores!SemTypeOK, Sems
<1>2. ASSUME NEW s \in Sems PROVE Range(waiting[s]) \subseteq Reader
  <2>1. waiting[s] \in Seq(Reader) BY <1>1
  <2> QED BY <2>1, RangeOfSeq
<1> QED BY <1>1, <1>2, SizeAssumption

\* The sets of readers are finite, and change by one reader at a time.
LEMMA Finite ==
    ASSUME NEW S \in SUBSET Reader
    PROVE  IsFiniteSet(S) /\ Cardinality(S) \in Nat
BY ReaderAssumption, FS_Subset, FS_CardinalityType

LEMMA OneMore ==
    ASSUME NEW S \in SUBSET Reader, NEW x \in Reader, x \notin S
    PROVE  Cardinality(S \cup {x}) = Cardinality(S) + 1
BY Finite, FS_AddElement

LEMMA OneLess ==
    ASSUME NEW S \in SUBSET Reader, NEW x \in S
    PROVE  Cardinality(S \ {x}) = Cardinality(S) - 1 /\ Cardinality(S) > 0
<1>1. Cardinality(S \ {x}) = Cardinality(S) - 1
  BY Finite, FS_RemoveElement
<1>2. Cardinality(S \ {x}) \in Nat /\ Cardinality(S) \in Nat
  <2>1. S \ {x} \in SUBSET Reader OBVIOUS
  <2> QED BY <2>1, Finite
<1> QED BY <1>1, <1>2

\* An index that moves on by one.
LEMMA MoveOn ==
    ASSUME NEW i \in 0 .. Size - 1
    PROVE  (i + 1) % Size = IF i + 1 = Size THEN 0 ELSE i + 1
BY SizeAssumption

\* BInv is what the invariant of the run says, and more.
LEMMA BInvImplies == BInv => SlotsAccounted
<1> SUFFICES ASSUME BInv PROVE SlotsAccounted OBVIOUS
<1>1. 0 % Size = 0 /\ (-Size) % Size = 0 BY SizeAssumption
<1>2. (tail - head - counts) % Size = 0 BY <1>1 DEF BInv, RingExact
<1> QED BY <1>2 DEF BInv, SlotsAccounted, CountExact, RoomExact, MutexExact

LEMMA InitBInv == Init => BInv
<1> SUFFICES ASSUME Init PROVE BInv OBVIOUS
<1>1. TypeOK
  BY SizeAssumption DEF Init, TypeOK, Semaphores!SemInit, Semaphores!SemTypeOK
<1>2. Waits
  BY EmptyFacts DEF Init, Waits, Semaphores!SemInit, Sems
<1>3. Owed = {} /\ Leaving = {} /\ Inside = {}
  BY DEF Init, Owed, Leaving, Inside
<1>4. CountExact /\ RoomExact /\ MutexExact
  BY <1>3, FS_EmptySet, SizeAssumption
     DEF Init, Semaphores!SemInit, CountExact, RoomExact, MutexExact
<1> QED BY <1>1, <1>2, <1>4 DEF Init, BInv, RingExact, LeftExact

\* The rest of the state is not looked at.
LEMMA Stutter ==
    ASSUME BInv, UNCHANGED <<arr, head, tail, counts, count, waiting, pc, left, got>>,
           panicked' \in BOOLEAN
    PROVE  BInv'
<1>1. TypeOK' BY DEF BInv, TypeOK, Semaphores!SemTypeOK
<1>2. Waits' BY DEF BInv, Waits
<1>3. Owed' = Owed /\ Leaving' = Leaving /\ Inside' = Inside BY DEF Owed, Leaving, Inside
<1>4. RingExact' /\ CountExact' /\ RoomExact' /\ MutexExact' /\ LeftExact'
  BY <1>3 DEF BInv, RingExact, CountExact, RoomExact, MutexExact, LeftExact
<1> QED BY <1>1, <1>2, <1>4 DEF BInv

\* The interrupt handler.
LEMMA PutStep ==
    ASSUME BInv, NEW k \in Key, Put(k) PROVE BInv'
<1>0. TypeOK /\ Waits /\ RingExact /\ CountExact /\ RoomExact /\ MutexExact /\ LeftExact
  BY DEF BInv
<1> USE <1>0
<1>1. CASE /\ panicked' = TRUE /\ UNCHANGED <<ring, sems>> /\ UNCHANGED <<pc, left, got>>
  <2>1. /\ UNCHANGED <<arr, head, tail, counts, count, waiting, pc, left, got>>
        /\ panicked' \in BOOLEAN
    BY <1>1 DEF ring, sems
  <2> QED BY <2>1, Stutter
<1>2. CASE /\ count["nEmpty"] > 0 /\ count["mutex"] > 0
           /\ arr' = [arr EXCEPT ![tail] = k]
           /\ tail' = (tail + 1) % Size
           /\ counts' = counts + 1
           /\ LET full == waiting["nFull"]
              IN  /\ waiting' = [waiting EXCEPT !["nFull"] = IF full = <<>> THEN full ELSE Tail(full)]
                  /\ count' = [count EXCEPT !["nEmpty"] = @ - 1,
                                            !["nFull"] = IF full = <<>> THEN @ + 1 ELSE @]
           /\ UNCHANGED <<head, panicked, pc, left, got>>
  <2> DEFINE full == waiting["nFull"]
  <2>1. full \in Seq(Reader) /\ Size \in Nat \ {0}
        /\ \A s \in Sems : count[s] \in Nat /\ waiting[s] \in Seq(Reader)
        /\ count \in [Sems -> Nat] /\ waiting \in [Sems -> Seq(Reader)]
    BY Types DEF Sems
  <2>2. full # <<>> =>
          /\ Tail(full) \in Seq(Reader) /\ Head(full) \in Reader
          /\ Range(full) = Range(Tail(full)) \cup {Head(full)}
          /\ IsInjective(Tail(full)) /\ Head(full) \notin Range(Tail(full))
    BY <2>1, TailFacts DEF Waits, Sems
  <2>3. /\ waiting'["nFull"] = IF full = <<>> THEN full ELSE Tail(full)
        /\ waiting'["nEmpty"] = waiting["nEmpty"] /\ waiting'["mutex"] = waiting["mutex"]
        /\ count'["nEmpty"] = count["nEmpty"] - 1 /\ count'["mutex"] = count["mutex"]
        /\ count'["nFull"] = IF full = <<>> THEN count["nFull"] + 1 ELSE count["nFull"]
    BY <1>2, <2>1 DEF Sems
  <2>4. counts < Size /\ counts \in Int
    <3>1. Cardinality(Leaving) \in Nat BY Finite DEF Leaving
    <3>2. counts \in Int /\ count["nEmpty"] \in Nat /\ count["nEmpty"] > 0
      BY <1>2, <2>1 DEF TypeOK, Sems
    <3> QED BY <3>1, <3>2, <2>1 DEF RoomExact
  <2>5. TypeOK'
    <3>1. tail' \in 0 .. Size - 1 BY <1>2, MoveOn, SizeAssumption DEF TypeOK
    <3>2. count' \in [Sems -> Nat] /\ waiting' \in [Sems -> Seq(Reader)]
      <4> DEFINE rest == IF full = <<>> THEN full ELSE Tail(full)
      <4>1. rest \in Seq(Reader) /\ waiting' = [waiting EXCEPT !["nFull"] = rest]
        BY <1>2, <2>1, <2>2
      <4>2. count["nEmpty"] - 1 \in Nat BY <1>2, <2>1 DEF Sems
      <4> HIDE DEF rest
      <4>3. waiting' \in [Sems -> Seq(Reader)] BY <2>1, <4>1 DEF Sems
      <4>4. count' \in [Sems -> Nat] BY <1>2, <2>1, <4>2 DEF Sems
      <4> QED BY <4>3, <4>4
    <3>3. arr' \in [0 .. Size - 1 -> Key \cup {Zero}] BY <1>2 DEF TypeOK
    <3>4. Semaphores!SemTypeOK' BY <3>2 DEF Semaphores!SemTypeOK, Sems
    <3> QED BY <1>2, <3>1, <3>3, <3>4 DEF TypeOK
  <2>6. RingExact'
    <3>1. tail' = IF tail + 1 = Size THEN 0 ELSE tail + 1
      BY <1>2, MoveOn DEF TypeOK
    <3>2. tail \in 0 .. Size - 1 /\ head \in 0 .. Size - 1 /\ head' = head /\ counts' = counts + 1
      BY <1>2 DEF TypeOK
    <3> HIDE <1>0
    <3>3. tail - head - counts \in {0, -Size} BY <1>0 DEF RingExact
    <3> QED BY <3>1, <3>2, <3>3, <2>1, <2>4 DEF RingExact
  <2>7. Waits'
    BY <1>2, <2>2, <2>3 DEF Waits, Sems
  <2>8. CountExact'
    <3>1. CASE full = <<>>
      <4>1. pc' = pc /\ waiting'["nFull"] = waiting["nFull"] BY <3>1, <1>2, <2>3
      <4>2. Owed' = Owed BY <4>1 DEF Owed
      <4>3. Cardinality(Owed) \in Nat BY Finite DEF Owed
      <4> QED BY <4>2, <4>3, <3>1, <1>2, <2>1, <2>3 DEF CountExact, Sems
    <3>2. CASE full # <<>>
      <4>1. /\ pc' = pc /\ pc[Head(full)] = "lock" /\ Head(full) \in Reader
            /\ Range(waiting["nFull"]) = Range(waiting'["nFull"]) \cup {Head(full)}
            /\ Head(full) \notin Range(waiting'["nFull"])
        BY <3>2, <1>2, <2>2, <2>3 DEF Waits
      <4> HIDE DEF full
      <4>2. Owed' = Owed \cup {Head(full)} /\ Head(full) \notin Owed BY <4>1 DEF Owed
      <4>3. Cardinality(Owed') = Cardinality(Owed) + 1 /\ Cardinality(Owed) \in Nat
        <5>1. Owed \in SUBSET Reader BY DEF Owed
        <5> QED BY <5>1, <4>1, <4>2, OneMore, Finite
      <4> QED BY <4>3, <3>2, <1>2, <2>1, <2>3 DEF CountExact, Sems
    <3> QED BY <3>1, <3>2
  <2>9. RoomExact'
    <3>1. Leaving' = Leaving BY <1>2 DEF Leaving
    <3>2. Cardinality(Leaving) \in Nat BY Finite DEF Leaving
    <3> QED BY <3>1, <3>2, <1>2, <2>1, <2>3 DEF RoomExact, TypeOK, Sems
  <2>10. MutexExact'
    <3>1. Inside' = Inside BY <1>2, <2>3 DEF Inside
    <3> QED BY <3>1, <2>3 DEF MutexExact
  <2>11. LeftExact' BY <1>2 DEF LeftExact
  <2> QED BY <2>5, <2>6, <2>7, <2>8, <2>9, <2>10, <2>11 DEF BInv
<1> QED BY <1>1, <1>2 DEF Put

-----------------------------------------------------------------------------
\* The readers.

\* A reader that asks for a permit takes one or waits for it.
LEMMA DownFacts ==
    ASSUME TypeOK, Waits, NEW r \in Reader, NEW s \in {"nFull", "mutex"}, Semaphores!Down(r, s)
    PROVE  /\ count' \in [Sems -> Nat] /\ waiting' \in [Sems -> Seq(Reader)]
           /\ \A u \in Sems \ {s} : count'[u] = count[u] /\ waiting'[u] = waiting[u]
           /\ \A u \in Sems : r \notin Range(waiting[u])
           /\ \/ count[s] > 0 /\ count'[s] = count[s] - 1 /\ waiting'[s] = waiting[s]
              \/ count'[s] = count[s] /\ Range(waiting'[s]) = Range(waiting[s]) \cup {r}
           /\ \A u \in Sems : IsInjective(waiting'[u]) /\ (waiting'[u] # <<>> => count'[u] = 0)
<1>1. /\ \A u \in Sems : count[u] \in Nat /\ waiting[u] \in Seq(Reader)
      /\ count \in [Sems -> Nat] /\ waiting \in [Sems -> Seq(Reader)]
  BY Types
<1>2. \A u \in Sems : r \notin Range(waiting[u])
  BY DEF Semaphores!Down, Semaphores!Asleep, Semaphores!Range, Range, Sems
<1>3. s \in Sems BY DEF Sems
<1>4. CASE count[s] # 0 /\ count' = [count EXCEPT ![s] = @ - 1] /\ UNCHANGED waiting
  <2>1. count[s] - 1 \in Nat BY <1>1, <1>3, <1>4
  <2> QED BY <2>1, <1>1, <1>2, <1>3, <1>4 DEF Waits
<1>5. CASE count[s] = 0 /\ waiting' = [waiting EXCEPT ![s] = Append(@, r)] /\ UNCHANGED count
  <2> DEFINE longer == Append(waiting[s], r)
  <2>1. /\ longer \in Seq(Reader) /\ Range(longer) = Range(waiting[s]) \cup {r}
        /\ IsInjective(longer)
    BY <1>1, <1>2, <1>3, AppendFacts DEF Waits
  <2>2. waiting' = [waiting EXCEPT ![s] = longer] BY <1>5
  <2> HIDE DEF longer
  <2>3. waiting' \in [Sems -> Seq(Reader)] /\ waiting'[s] = longer
        /\ \A u \in Sems \ {s} : waiting'[u] = waiting[u]
    BY <2>1, <2>2, <1>1, <1>3
  <2> QED BY <2>1, <2>3, <1>1, <1>2, <1>3, <1>5 DEF Waits
<1> QED BY <1>4, <1>5 DEF Semaphores!Down

\* A permit that is given back goes to the oldest waiter or to nobody.
LEMMA UpFacts ==
    ASSUME TypeOK, Waits, NEW s \in {"nEmpty", "mutex"}, Semaphores!Up(s)
    PROVE  /\ count' \in [Sems -> Nat] /\ waiting' \in [Sems -> Seq(Reader)]
           /\ \A u \in Sems \ {s} : count'[u] = count[u] /\ waiting'[u] = waiting[u]
           /\ \/ /\ waiting[s] = <<>> /\ waiting'[s] = <<>>
                 /\ count'[s] = count[s] + 1
              \/ /\ count'[s] = count[s]
                 /\ \E h \in Reader : /\ Range(waiting[s]) = Range(waiting'[s]) \cup {h}
                                      /\ h \notin Range(waiting'[s])
           /\ \A u \in Sems : IsInjective(waiting'[u]) /\ (waiting'[u] # <<>> => count'[u] = 0)
<1>1. /\ \A u \in Sems : count[u] \in Nat /\ waiting[u] \in Seq(Reader)
      /\ count \in [Sems -> Nat] /\ waiting \in [Sems -> Seq(Reader)]
  BY Types
<1>2. s \in Sems BY DEF Sems
<1>3. CASE waiting[s] = <<>> /\ count' = [count EXCEPT ![s] = @ + 1] /\ UNCHANGED waiting
  BY <1>1, <1>2, <1>3 DEF Waits
<1>4. CASE waiting[s] # <<>> /\ waiting' = [waiting EXCEPT ![s] = Tail(@)] /\ UNCHANGED count
  <2> DEFINE rest == Tail(waiting[s])
  <2>1. /\ rest \in Seq(Reader) /\ Head(waiting[s]) \in Reader
        /\ Range(waiting[s]) = Range(rest) \cup {Head(waiting[s])}
        /\ IsInjective(rest) /\ Head(waiting[s]) \notin Range(rest)
    BY <1>1, <1>2, <1>4, TailFacts DEF Waits
  <2>2. waiting' = [waiting EXCEPT ![s] = rest] BY <1>4
  <2> HIDE DEF rest
  <2>3. waiting' \in [Sems -> Seq(Reader)] /\ waiting'[s] = rest
        /\ \A u \in Sems \ {s} : waiting'[u] = waiting[u]
    BY <2>1, <2>2, <1>1, <1>2
  <2> QED BY <2>1, <2>3, <1>1, <1>2, <1>4 DEF Waits
<1> QED BY <1>3, <1>4 DEF Semaphores!Up

\* A reader that moves is nobody's waiter.
LEMMA AwakeFacts ==
    ASSUME NEW r \in Reader, NEW place, At(r, place)
    PROVE  pc[r] = place /\ \A s \in Sems : r \notin Range(waiting[s])
BY DEF At, Semaphores!Asleep, Semaphores!Range, Range, Sems

LEMMA AskStep ==
    ASSUME BInv, NEW r \in Reader, NEW want \in 1 .. MaxWant, Ask(r, want) PROVE BInv'
<1>0. TypeOK /\ Waits /\ RingExact /\ CountExact /\ RoomExact /\ MutexExact /\ LeftExact
  BY DEF BInv
<1>1. /\ UNCHANGED <<arr, head, tail, counts, count, waiting, got, panicked>>
      /\ pc[r] = "idle" /\ pc' = [pc EXCEPT ![r] = "full"]
      /\ left' = [left EXCEPT ![r] = IF want < counts THEN want ELSE counts] /\ counts > 0
  BY DEF Ask, At, ring, sems
<1>2. (IF want < counts THEN want ELSE counts) \in 1 .. MaxWant
  BY <1>0, <1>1, SizeAssumption DEF TypeOK
<1>3. TypeOK' /\ LeftExact'
  <2>1. pc' \in [Reader -> {"idle", "full", "lock", "take", "unlock", "signal"}]
        /\ left' \in [Reader -> 0 .. MaxWant]
    BY <1>0, <1>1, <1>2 DEF TypeOK
  <2> QED BY <2>1, <1>0, <1>1, <1>2 DEF TypeOK, Semaphores!SemTypeOK, LeftExact
<1>4. Waits' BY <1>0, <1>1 DEF Waits, TypeOK
<1>5. Owed' = Owed /\ Leaving' = Leaving /\ Inside' = Inside
  BY <1>0, <1>1 DEF Owed, Leaving, Inside, TypeOK
<1>6. RingExact' /\ CountExact' /\ RoomExact' /\ MutexExact'
  BY <1>0, <1>1, <1>5 DEF RingExact, CountExact, RoomExact, MutexExact
<1> QED BY <1>3, <1>4, <1>6 DEF BInv

LEMMA TakeFullStep ==
    ASSUME BInv, NEW r \in Reader, TakeFull(r) PROVE BInv'
<1>0. TypeOK /\ Waits /\ RingExact /\ CountExact /\ RoomExact /\ MutexExact /\ LeftExact
  BY DEF BInv
<1>1. /\ UNCHANGED <<arr, head, tail, counts, left, got, panicked>>
      /\ pc[r] = "full" /\ pc' = [pc EXCEPT ![r] = "lock"] /\ Semaphores!Down(r, "nFull")
  BY DEF TakeFull, At, ring
<1> DEFINE s == "nFull"
<1>2. /\ count' \in [Sems -> Nat] /\ waiting' \in [Sems -> Seq(Reader)]
      /\ \A u \in Sems \ {s} : count'[u] = count[u] /\ waiting'[u] = waiting[u]
      /\ \A u \in Sems : r \notin Range(waiting[u])
      /\ \/ count[s] > 0 /\ count'[s] = count[s] - 1 /\ waiting'[s] = waiting[s]
         \/ count'[s] = count[s] /\ Range(waiting'[s]) = Range(waiting[s]) \cup {r}
      /\ \A u \in Sems : IsInjective(waiting'[u]) /\ (waiting'[u] # <<>> => count'[u] = 0)
  BY <1>0, <1>1, DownFacts
<1>3. /\ count'["nEmpty"] = count["nEmpty"] /\ waiting'["nEmpty"] = waiting["nEmpty"]
      /\ count'["mutex"] = count["mutex"] /\ waiting'["mutex"] = waiting["mutex"]
      /\ count["nFull"] \in Nat
      /\ r \notin Range(waiting["nFull"]) /\ r \notin Range(waiting["mutex"])
  BY <1>0, <1>2, Types DEF Sems
<1>4. TypeOK' /\ LeftExact'
  <2>1. pc' \in [Reader -> {"idle", "full", "lock", "take", "unlock", "signal"}]
    BY <1>0, <1>1 DEF TypeOK
  <2>2. Semaphores!SemTypeOK' BY <1>2 DEF Semaphores!SemTypeOK, Sems
  <2> QED BY <2>1, <2>2, <1>0, <1>1 DEF TypeOK, LeftExact
<1>5. Waits'
  BY <1>0, <1>1, <1>2, <1>3 DEF Waits, TypeOK
<1>6. Leaving' = Leaving /\ Inside' = Inside
  BY <1>0, <1>1, <1>3 DEF Leaving, Inside, TypeOK
<1>7. RingExact' /\ RoomExact' /\ MutexExact'
  BY <1>0, <1>1, <1>3, <1>6 DEF RingExact, RoomExact, MutexExact
<1>8. CountExact'
  <2>1. Cardinality(Owed) \in Nat /\ Owed \in SUBSET Reader /\ r \notin Owed
    BY <1>1, Finite DEF Owed
  <2>2. CASE count["nFull"] > 0 /\ count'["nFull"] = count["nFull"] - 1 /\ waiting'["nFull"] = waiting["nFull"]
    <3>1. Owed' = Owed \cup {r} BY <2>2, <1>0, <1>1, <1>3 DEF Owed, TypeOK
    <3>2. Cardinality(Owed') = Cardinality(Owed) + 1 BY <3>1, <2>1, OneMore
    <3> QED BY <3>2, <2>1, <2>2, <1>0, <1>1, <1>3 DEF CountExact
  <2>3. CASE count'["nFull"] = count["nFull"] /\ Range(waiting'["nFull"]) = Range(waiting["nFull"]) \cup {r}
    <3>1. Owed' = Owed BY <2>3, <1>0, <1>1, <1>3 DEF Owed, TypeOK
    <3> QED BY <3>1, <2>3, <1>0, <1>1 DEF CountExact
  <2> QED BY <2>2, <2>3, <1>2
<1> QED BY <1>4, <1>5, <1>7, <1>8 DEF BInv

LEMMA LockStep ==
    ASSUME BInv, NEW r \in Reader, Lock(r) PROVE BInv'
<1>0. TypeOK /\ Waits /\ RingExact /\ CountExact /\ RoomExact /\ MutexExact /\ LeftExact
  BY DEF BInv
<1>1. /\ UNCHANGED <<arr, head, tail, counts, left, got, panicked>>
      /\ pc[r] = "lock" /\ pc' = [pc EXCEPT ![r] = "take"] /\ Semaphores!Down(r, "mutex")
  BY DEF Lock, At, ring
<1> DEFINE s == "mutex"
<1>2. /\ count' \in [Sems -> Nat] /\ waiting' \in [Sems -> Seq(Reader)]
      /\ \A u \in Sems \ {s} : count'[u] = count[u] /\ waiting'[u] = waiting[u]
      /\ \A u \in Sems : r \notin Range(waiting[u])
      /\ \/ count[s] > 0 /\ count'[s] = count[s] - 1 /\ waiting'[s] = waiting[s]
         \/ count'[s] = count[s] /\ Range(waiting'[s]) = Range(waiting[s]) \cup {r}
      /\ \A u \in Sems : IsInjective(waiting'[u]) /\ (waiting'[u] # <<>> => count'[u] = 0)
  BY <1>0, <1>1, DownFacts
<1>3. /\ count'["nEmpty"] = count["nEmpty"] /\ waiting'["nEmpty"] = waiting["nEmpty"]
      /\ count'["nFull"] = count["nFull"] /\ waiting'["nFull"] = waiting["nFull"]
      /\ count["mutex"] \in Nat
      /\ r \notin Range(waiting["nFull"]) /\ r \notin Range(waiting["mutex"])
  BY <1>0, <1>2, Types DEF Sems
<1>4. TypeOK' /\ LeftExact'
  <2>1. pc' \in [Reader -> {"idle", "full", "lock", "take", "unlock", "signal"}]
    BY <1>0, <1>1 DEF TypeOK
  <2>2. Semaphores!SemTypeOK' BY <1>2 DEF Semaphores!SemTypeOK, Sems
  <2> QED BY <2>1, <2>2, <1>0, <1>1 DEF TypeOK, LeftExact
<1>5. Waits'
  BY <1>0, <1>1, <1>2, <1>3 DEF Waits, TypeOK
<1>6. Leaving' = Leaving /\ Owed' = Owed
  BY <1>0, <1>1, <1>3 DEF Leaving, Owed, TypeOK
<1>7. RingExact' /\ RoomExact' /\ CountExact'
  BY <1>0, <1>1, <1>3, <1>6 DEF RingExact, RoomExact, CountExact
<1>8. MutexExact'
  <2>1. Cardinality(Inside) \in Nat /\ Inside \in SUBSET Reader /\ r \notin Inside
    BY <1>1, Finite DEF Inside
  <2>2. CASE count["mutex"] > 0 /\ count'["mutex"] = count["mutex"] - 1 /\ waiting'["mutex"] = waiting["mutex"]
    <3>1. Inside' = Inside \cup {r} BY <2>2, <1>0, <1>1, <1>3 DEF Inside, TypeOK
    <3>2. Cardinality(Inside') = Cardinality(Inside) + 1 BY <3>1, <2>1, OneMore
    <3> QED BY <3>2, <2>1, <2>2, <1>0, <1>1, <1>3 DEF MutexExact
  <2>3. CASE count'["mutex"] = count["mutex"] /\ Range(waiting'["mutex"]) = Range(waiting["mutex"]) \cup {r}
    <3>1. Inside' = Inside BY <2>3, <1>0, <1>1, <1>3 DEF Inside, TypeOK
    <3> QED BY <3>1, <2>3, <1>0, <1>1 DEF MutexExact
  <2> QED BY <2>2, <2>3, <1>2
<1> QED BY <1>4, <1>5, <1>7, <1>8 DEF BInv

LEMMA TakeStep ==
    ASSUME BInv, NEW r \in Reader, Take(r) PROVE BInv'
<1>0. TypeOK /\ Waits /\ RingExact /\ CountExact /\ RoomExact /\ MutexExact /\ LeftExact
  BY DEF BInv
<1>1. /\ UNCHANGED <<arr, tail, count, waiting, left, panicked>>
      /\ pc[r] = "take" /\ pc' = [pc EXCEPT ![r] = "unlock"]
      /\ counts' = counts - 1 /\ head' = (head + 1) % Size
      /\ got' = [got EXCEPT ![r] = arr[head]]
      /\ \A u \in Sems : r \notin Range(waiting[u])
  BY AwakeFacts DEF Take, At, sems
<1>2. r \notin Range(waiting["nFull"]) /\ r \notin Range(waiting["mutex"])
  BY <1>1 DEF Sems
<1>3. /\ count["nFull"] \in Nat /\ count["nEmpty"] \in Nat /\ Size \in Nat \ {0}
      /\ counts \in Int /\ tail \in 0 .. Size - 1 /\ head \in 0 .. Size - 1
  BY <1>0, Types DEF Sems, TypeOK
<1>4. head' = (IF head + 1 = Size THEN 0 ELSE head + 1) /\ head' \in 0 .. Size - 1
  BY <1>1, <1>3, MoveOn
<1>5. /\ Owed' = Owed \ {r} /\ r \in Owed /\ Owed \in SUBSET Reader
      /\ Leaving' = Leaving \cup {r} /\ r \notin Leaving /\ Leaving \in SUBSET Reader
      /\ Inside' = Inside
  BY <1>0, <1>1, <1>2 DEF Owed, Leaving, Inside, TypeOK
<1>6. /\ Cardinality(Owed') = Cardinality(Owed) - 1 /\ Cardinality(Owed) > 0
      /\ Cardinality(Leaving') = Cardinality(Leaving) + 1
      /\ Cardinality(Owed) \in Nat /\ Cardinality(Leaving) \in Nat
  BY <1>5, OneLess, OneMore, Finite
<1>7. TypeOK'
  <2>1. pc' \in [Reader -> {"idle", "full", "lock", "take", "unlock", "signal"}]
        /\ got' \in [Reader -> Key \cup {Zero}]
    BY <1>0, <1>1 DEF TypeOK
  <2>2. Semaphores!SemTypeOK' BY <1>0, <1>1 DEF TypeOK, Semaphores!SemTypeOK
  <2> QED BY <2>1, <2>2, <1>0, <1>1, <1>3, <1>4 DEF TypeOK
<1>8. Waits'
  BY <1>0, <1>1, <1>2 DEF Waits, TypeOK
<1>9. LeftExact' BY <1>0, <1>1 DEF LeftExact, TypeOK
<1>10. CountExact' /\ RoomExact' /\ MutexExact'
  BY <1>0, <1>1, <1>3, <1>5, <1>6 DEF CountExact, RoomExact, MutexExact
\* There was a character: the slots between head and tail do not run out.
<1>11. RingExact'
  <2>1. counts > 0 /\ counts < Size + 1
    BY <1>0, <1>3, <1>6 DEF CountExact, RoomExact
  <2>2. tail - head - counts \in {0, -Size} BY <1>0 DEF RingExact
  <2>3. tail' = tail /\ counts' = counts - 1 BY <1>1
  <2> QED BY <2>1, <2>2, <2>3, <1>3, <1>4 DEF RingExact
<1> QED BY <1>7, <1>8, <1>9, <1>10, <1>11 DEF BInv

LEMMA UnlockStep ==
    ASSUME BInv, NEW r \in Reader, Unlock(r) PROVE BInv'
<1>0. TypeOK /\ Waits /\ RingExact /\ CountExact /\ RoomExact /\ MutexExact /\ LeftExact
  BY DEF BInv
<1>1. /\ UNCHANGED <<arr, head, tail, counts, left, got, panicked>>
      /\ pc[r] = "unlock" /\ pc' = [pc EXCEPT ![r] = "signal"] /\ Semaphores!Up("mutex")
      /\ \A u \in Sems : r \notin Range(waiting[u])
  BY AwakeFacts DEF Unlock, At, ring
<1> DEFINE s == "mutex"
<1>2. /\ count' \in [Sems -> Nat] /\ waiting' \in [Sems -> Seq(Reader)]
      /\ \A u \in Sems \ {s} : count'[u] = count[u] /\ waiting'[u] = waiting[u]
      /\ \/ /\ waiting[s] = <<>> /\ waiting'[s] = <<>>
            /\ count'[s] = count[s] + 1
         \/ /\ count'[s] = count[s]
            /\ \E h \in Reader : /\ Range(waiting[s]) = Range(waiting'[s]) \cup {h}
                                 /\ h \notin Range(waiting'[s])
      /\ \A u \in Sems : IsInjective(waiting'[u]) /\ (waiting'[u] # <<>> => count'[u] = 0)
  BY <1>0, <1>1, UpFacts
<1>3. /\ count'["nEmpty"] = count["nEmpty"] /\ waiting'["nEmpty"] = waiting["nEmpty"]
      /\ count'["nFull"] = count["nFull"] /\ waiting'["nFull"] = waiting["nFull"]
      /\ count["mutex"] \in Nat
      /\ r \notin Range(waiting["nFull"]) /\ r \notin Range(waiting["mutex"])
      /\ Range(waiting'["mutex"]) \subseteq Range(waiting["mutex"])
  BY <1>0, <1>1, <1>2, Types, EmptyFacts DEF Sems
<1>4. TypeOK' /\ LeftExact'
  <2>1. pc' \in [Reader -> {"idle", "full", "lock", "take", "unlock", "signal"}]
    BY <1>0, <1>1 DEF TypeOK
  <2>2. Semaphores!SemTypeOK' BY <1>2 DEF Semaphores!SemTypeOK, Sems
  <2> QED BY <2>1, <2>2, <1>0, <1>1 DEF TypeOK, LeftExact
<1>5. Waits'
  BY <1>0, <1>1, <1>2, <1>3 DEF Waits, TypeOK
<1>6. Leaving' = Leaving /\ Owed' = Owed
  BY <1>0, <1>1, <1>3 DEF Leaving, Owed, TypeOK
<1>7. RingExact' /\ RoomExact' /\ CountExact'
  BY <1>0, <1>1, <1>3, <1>6 DEF RingExact, RoomExact, CountExact
<1>8. MutexExact'
  <2>1. /\ Inside \in SUBSET Reader /\ r \in Inside /\ Inside \ {r} \in SUBSET Reader
    BY <1>1 DEF Inside
  <2>2. Cardinality(Inside \ {r}) = Cardinality(Inside) - 1 /\ Cardinality(Inside) \in Nat
    BY <2>1, OneLess, Finite
  <2>3. CASE waiting["mutex"] = <<>> /\ waiting'["mutex"] = <<>> /\ count'["mutex"] = count["mutex"] + 1
    <3>1. Inside' = Inside \ {r} BY <2>3, <1>0, <1>1, <1>3 DEF Inside, TypeOK
    <3> QED BY <3>1, <2>2, <2>3, <1>0, <1>3 DEF MutexExact
  <2>4. ASSUME count'["mutex"] = count["mutex"], NEW h \in Reader,
               Range(waiting["mutex"]) = Range(waiting'["mutex"]) \cup {h},
               h \notin Range(waiting'["mutex"])
        PROVE  MutexExact'
    <3>1. h \in Range(waiting["mutex"]) /\ pc[h] = "take" /\ h # r
      BY <2>4, <1>0, <1>1, <1>3 DEF Waits
    <3>2. Inside' = (Inside \ {r}) \cup {h} /\ h \notin Inside \ {r}
      BY <2>4, <3>1, <1>0, <1>1, <1>3 DEF Inside, TypeOK
    <3>3. Cardinality(Inside') = Cardinality(Inside \ {r}) + 1
      BY <3>2, <2>1, OneMore
    <3> QED BY <3>3, <2>2, <2>4, <1>0, <1>3 DEF MutexExact
  <2> QED BY <2>3, <2>4, <1>2
<1> QED BY <1>4, <1>5, <1>7, <1>8 DEF BInv

LEMMA SignalStep ==
    ASSUME BInv, NEW r \in Reader, Signal(r) PROVE BInv'
<1>0. TypeOK /\ Waits /\ RingExact /\ CountExact /\ RoomExact /\ MutexExact /\ LeftExact
  BY DEF BInv
<1>1. /\ UNCHANGED <<arr, head, tail, counts, got, panicked>>
      /\ pc[r] = "signal" /\ pc' = [pc EXCEPT ![r] = IF left[r] = 1 THEN "idle" ELSE "full"]
      /\ left' = [left EXCEPT ![r] = @ - 1] /\ Semaphores!Up("nEmpty")
      /\ \A u \in Sems : r \notin Range(waiting[u])
  BY AwakeFacts DEF Signal, At, ring
<1> DEFINE s == "nEmpty"
<1>2. /\ count' \in [Sems -> Nat] /\ waiting' \in [Sems -> Seq(Reader)]
      /\ \A u \in Sems \ {s} : count'[u] = count[u] /\ waiting'[u] = waiting[u]
      /\ \/ /\ waiting[s] = <<>> /\ waiting'[s] = <<>>
            /\ count'[s] = count[s] + 1
         \/ /\ count'[s] = count[s]
            /\ \E h \in Reader : /\ Range(waiting[s]) = Range(waiting'[s]) \cup {h}
                                 /\ h \notin Range(waiting'[s])
      /\ \A u \in Sems : IsInjective(waiting'[u]) /\ (waiting'[u] # <<>> => count'[u] = 0)
  BY <1>0, <1>1, UpFacts
<1>3. /\ count'["mutex"] = count["mutex"] /\ waiting'["mutex"] = waiting["mutex"]
      /\ count'["nFull"] = count["nFull"] /\ waiting'["nFull"] = waiting["nFull"]
      /\ count["nEmpty"] \in Nat /\ waiting["nEmpty"] = <<>>
      /\ r \notin Range(waiting["nFull"]) /\ r \notin Range(waiting["mutex"])
  BY <1>0, <1>1, <1>2, Types DEF Sems, Waits
\* Nobody waits for room: the handler, the only one that asks for it, panics.
<1>4. waiting'["nEmpty"] = <<>> /\ count'["nEmpty"] = count["nEmpty"] + 1
  BY <1>2, <1>3, EmptyFacts
<1>5. TypeOK' /\ LeftExact'
  <2>1. left[r] \in 1 .. MaxWant /\ MaxWant \in Nat /\ left[r] - 1 \in 0 .. MaxWant
    BY <1>0, <1>1, SizeAssumption DEF LeftExact, TypeOK
  <2>2. pc' \in [Reader -> {"idle", "full", "lock", "take", "unlock", "signal"}]
        /\ left' \in [Reader -> 0 .. MaxWant]
    BY <2>1, <1>0, <1>1 DEF TypeOK
  <2>3. Semaphores!SemTypeOK' BY <1>2 DEF Semaphores!SemTypeOK, Sems
  <2> QED BY <2>1, <2>2, <2>3, <1>0, <1>1 DEF TypeOK, LeftExact
<1>6. Waits'
  BY <1>0, <1>1, <1>2, <1>3, <1>4 DEF Waits, TypeOK, Sems
<1>7. /\ Owed' = Owed /\ Inside' = Inside
      /\ Leaving' = Leaving \ {r} /\ r \in Leaving /\ Leaving \in SUBSET Reader
  BY <1>0, <1>1, <1>3 DEF Leaving, Owed, Inside, TypeOK
<1>8. Cardinality(Leaving') = Cardinality(Leaving) - 1 /\ Cardinality(Leaving) \in Nat
  BY <1>7, OneLess, Finite
<1>9. RingExact' /\ CountExact' /\ MutexExact'
  BY <1>0, <1>1, <1>3, <1>7 DEF RingExact, CountExact, MutexExact
<1>10. RoomExact'
  BY <1>0, <1>1, <1>3, <1>4, <1>8, Types DEF RoomExact, TypeOK
<1> QED BY <1>5, <1>6, <1>9, <1>10 DEF BInv

-----------------------------------------------------------------------------

LEMMA NextBInv == BInv /\ [Next]_vars => BInv'
<1> SUFFICES ASSUME BInv, [Next]_vars PROVE BInv' OBVIOUS
<1>1. CASE Handler BY <1>1, PutStep DEF Handler
<1>2. ASSUME NEW r \in Reader, Get(r) PROVE BInv'
  BY <1>2, TakeFullStep, LockStep, TakeStep, UnlockStep, SignalStep DEF Get
<1>3. ASSUME NEW r \in Reader, NEW want \in 1 .. MaxWant, Ask(r, want) PROVE BInv'
  BY <1>3, AskStep
<1>4. CASE UNCHANGED vars
  <2>1. panicked' \in BOOLEAN BY <1>4 DEF BInv, TypeOK, vars
  <2> QED BY <2>1, <1>4, Stutter DEF vars, ring, sems
<1> QED BY <1>1, <1>2, <1>3, <1>4 DEF Next

\* The strengthened invariant holds of every behaviour.
THEOREM BufferInvariance == Spec => []BInv
BY InitBInv, NextBInv, PTL DEF Spec

\* The count that is read without a lock, the slots and the permits always
\* agree, whatever the handler interrupts (bb.h, kbd.cc, syscall.cc).
THEOREM SlotsExact == Spec => []SlotsAccounted
BY BufferInvariance, BInvImplies, PTL

-----------------------------------------------------------------------------
\* The buffer implements the queue of module Fifo.

\* The slot of the i-th character when the oldest is at h, and the characters
\* inside, oldest first: what Queue takes for its queue.
SlotOf(h, i) == (h + i - 1) % Size
Chars == [i \in 1 .. counts |-> arr[SlotOf(head, i)]]

\* An index goes round at most once.
LEMMA SlotFacts ==
    ASSUME NEW h \in 0 .. Size - 1, NEW i \in 1 .. Size
    PROVE  /\ SlotOf(h, i) = IF h + i - 1 < Size THEN h + i - 1 ELSE h + i - 1 - Size
           /\ SlotOf(h, i) \in 0 .. Size - 1
BY SizeAssumption DEF SlotOf

\* How many characters there are.
LEMMA CharsFacts ==
    BInv => /\ counts \in 0 .. Size
            /\ Chars \in Seq(Key \cup {Zero}) /\ Len(Chars) = counts
<1> SUFFICES ASSUME BInv
             PROVE  /\ counts \in 0 .. Size
                    /\ Chars \in Seq(Key \cup {Zero}) /\ Len(Chars) = counts
  OBVIOUS
<1>1. /\ count["nFull"] \in Nat /\ count["nEmpty"] \in Nat /\ Size \in Nat \ {0}
      /\ counts \in Int /\ head \in 0 .. Size - 1
  BY Types DEF BInv, Sems, TypeOK
<1>2. Cardinality(Owed) \in Nat /\ Cardinality(Leaving) \in Nat
  <2>1. Owed \in SUBSET Reader /\ Leaving \in SUBSET Reader BY DEF Owed, Leaving
  <2> QED BY <2>1, Finite
<1>3. counts \in 0 .. Size BY <1>1, <1>2 DEF BInv, CountExact, RoomExact
<1>4. ASSUME NEW i \in 1 .. counts PROVE arr[SlotOf(head, i)] \in Key \cup {Zero}
  <2>1. i \in 1 .. Size BY <1>3, <1>1
  <2>2. SlotOf(head, i) \in 0 .. Size - 1 BY <2>1, <1>1, SlotFacts
  <2> QED BY <2>2 DEF BInv, TypeOK
<1>5. Chars \in [1 .. counts -> Key \cup {Zero}] BY <1>4 DEF Chars
<1>6. Chars \in Seq(Key \cup {Zero}) /\ Len(Chars) = counts
  BY <1>3, <1>5, LenProperties
<1> QED BY <1>3, <1>6

\* The same elements in the same places make the same sequence.
LEMMA SameSeq ==
    ASSUME NEW S, NEW s \in Seq(S), NEW t \in Seq(S), Len(s) = Len(t),
           \A i \in 1 .. Len(s) : s[i] = t[i]
    PROVE  s = t
BY SeqEqual

\* The handler appends: the slot it writes is none of those that are filled.
LEMMA PutChars ==
    ASSUME BInv, BInv', NEW k \in Key,
           arr' = [arr EXCEPT ![tail] = k], counts' = counts + 1, head' = head
    PROVE  Len(Chars) < Size /\ Chars' = Append(Chars, k)
<1> DEFINE C == Key \cup {Zero}
<1>1. counts \in 0 .. Size /\ Chars \in Seq(C) /\ Len(Chars) = counts BY CharsFacts
<1>2. counts' \in 0 .. Size /\ Chars' \in Seq(C) /\ Len(Chars') = counts'
  <2>1. (BInv => /\ counts \in 0 .. Size
                 /\ Chars \in Seq(Key \cup {Zero}) /\ Len(Chars) = counts)'
    BY CharsFacts, PTL
  <2> QED BY <2>1
<1>3. /\ arr \in [0 .. Size - 1 -> C] /\ head \in 0 .. Size - 1 /\ tail \in 0 .. Size - 1
      /\ tail - head - counts \in {0, -Size} /\ Size \in Nat \ {0}
  BY SizeAssumption DEF BInv, TypeOK, RingExact
<1>4. counts < Size BY <1>1, <1>2, <1>3
<1>5. k \in C OBVIOUS
<1> HIDE DEF C
<1>6. /\ Append(Chars, k) \in Seq(C) /\ Len(Append(Chars, k)) = counts + 1
      /\ \A i \in 1 .. counts : Append(Chars, k)[i] = Chars[i]
      /\ Append(Chars, k)[counts + 1] = k
  BY <1>1, <1>5, AppendProperties
<1>7. ASSUME NEW i \in 1 .. counts PROVE Chars'[i] = Append(Chars, k)[i]
  <2> DEFINE n == SlotOf(head, i)
  <2>1. i \in 1 .. Size /\ i \in 1 .. counts' BY <1>1, <1>3
  <2>2. /\ n = IF head + i - 1 < Size THEN head + i - 1 ELSE head + i - 1 - Size
        /\ n \in 0 .. Size - 1
    BY <2>1, <1>3, SlotFacts
  <2>3. Chars'[i] = arr'[n] /\ Chars[i] = arr[n] BY <2>1, <1>3 DEF Chars
  <2> HIDE DEF n
  <2>4. n # tail BY <2>2, <1>1, <1>3, <1>4
  <2>5. arr'[n] = arr[n] BY <2>2, <2>4, <1>3
  <2> QED BY <2>3, <2>5, <1>6
<1>8. Chars'[counts + 1] = k
  <2> DEFINE n == SlotOf(head, counts + 1)
  <2>1. counts + 1 \in 1 .. Size /\ counts + 1 \in 1 .. counts' BY <1>1, <1>3, <1>4
  <2>2. n = IF head + (counts + 1) - 1 < Size THEN head + (counts + 1) - 1
            ELSE head + (counts + 1) - 1 - Size
    BY <2>1, <1>3, SlotFacts
  <2>3. Chars'[counts + 1] = arr'[n] BY <2>1, <1>3 DEF Chars
  <2> HIDE DEF n
  <2>4. n = tail BY <2>2, <1>1, <1>3, <1>4
  <2> QED BY <2>3, <2>4, <1>3
<1>9. \A i \in 1 .. Len(Chars') : Chars'[i] = Append(Chars, k)[i]
  BY <1>1, <1>2, <1>7, <1>8
<1>10. Chars' = Append(Chars, k) BY <1>1, <1>2, <1>6, <1>9, SameSeq
<1> QED BY <1>1, <1>4, <1>10

\* A reader takes the oldest.
LEMMA TakeChars ==
    ASSUME BInv, BInv', arr' = arr, counts' = counts - 1, head' = (head + 1) % Size
    PROVE  Chars # <<>> /\ arr[head] = Head(Chars) /\ Chars' = Tail(Chars)
<1> DEFINE C == Key \cup {Zero}
<1>1. counts \in 0 .. Size /\ Chars \in Seq(C) /\ Len(Chars) = counts BY CharsFacts
<1>2. counts' \in 0 .. Size /\ Chars' \in Seq(C) /\ Len(Chars') = counts'
  <2>1. (BInv => /\ counts \in 0 .. Size
                 /\ Chars \in Seq(Key \cup {Zero}) /\ Len(Chars) = counts)'
    BY CharsFacts, PTL
  <2> QED BY <2>1
<1>3. head \in 0 .. Size - 1 /\ Size \in Nat \ {0} BY SizeAssumption DEF BInv, TypeOK
<1>4. counts > 0 BY <1>1, <1>2
<1> HIDE DEF C
<1>5. /\ Chars # <<>> /\ Head(Chars) = Chars[1] /\ Tail(Chars) \in Seq(C)
      /\ Len(Tail(Chars)) = counts - 1
      /\ \A i \in 1 .. counts - 1 : Tail(Chars)[i] = Chars[i + 1]
  <2>1. Chars # <<>> BY <1>1, <1>4, EmptySeq
  <2> QED BY <2>1, <1>1, HeadTailProperties
<1>6. Head(Chars) = arr[head]
  <2>1. 1 \in 1 .. Size /\ 1 \in 1 .. counts BY <1>1, <1>3, <1>4
  <2>2. SlotOf(head, 1) = head BY <2>1, <1>3, SlotFacts
  <2>3. Chars[1] = arr[SlotOf(head, 1)] BY <2>1 DEF Chars
  <2> QED BY <2>2, <2>3, <1>5
<1>7. ASSUME NEW i \in 1 .. counts' PROVE Chars'[i] = Tail(Chars)[i]
  <2> DEFINE n == SlotOf(head', i)
             m == SlotOf(head, i + 1)
  <2>1. /\ i \in 1 .. Size /\ i + 1 \in 1 .. Size
        /\ i + 1 \in 1 .. counts /\ i \in 1 .. counts - 1
    BY <1>1, <1>2, <1>3
  <2>2. head' = (IF head + 1 = Size THEN 0 ELSE head + 1) /\ head' \in 0 .. Size - 1
    BY <1>3, MoveOn
  <2>3. n = IF head' + i - 1 < Size THEN head' + i - 1 ELSE head' + i - 1 - Size
    BY <2>1, <2>2, SlotFacts
  <2>4. m = IF head + (i + 1) - 1 < Size THEN head + (i + 1) - 1 ELSE head + (i + 1) - 1 - Size
    BY <2>1, <1>3, SlotFacts
  <2>5. Chars'[i] = arr'[n] /\ Chars[i + 1] = arr[m] BY <2>1 DEF Chars
  <2> HIDE DEF n, m
  <2>6. n = m BY <2>1, <2>2, <2>3, <2>4, <1>3
  <2> QED BY <2>1, <2>5, <2>6, <1>5
<1>8. Chars' = Tail(Chars) BY <1>1, <1>2, <1>5, <1>7, SameSeq
<1> QED BY <1>5, <1>6, <1>8

\* An empty buffer is an empty queue.
LEMMA InitFifo == Init => Queue!FifoInit
<1> SUFFICES ASSUME Init PROVE Queue!FifoInit OBVIOUS
<1>1. counts = 0 /\ got = [r \in Reader |-> Zero] BY DEF Init
<1>2. [i \in 1 .. counts |-> arr[(head + i - 1) % Size]] = <<>>
  BY <1>1
<1> QED BY <1>1, <1>2 DEF Queue!FifoInit

\* put() adds, get() removes at the line that reads the slot, and every other
\* step leaves the queue alone.
LEMMA NextFifo ==
    ASSUME BInv, BInv', [Next]_vars
    PROVE  [Queue!FifoNext]_<<Chars, got>>
<1>1. ASSUME NEW k \in Key, Put(k) PROVE [Queue!FifoNext]_<<Chars, got>>
  <2>1. CASE UNCHANGED ring
    BY <2>1, <1>1 DEF Put, ring, Chars
  <2>2. CASE /\ arr' = [arr EXCEPT ![tail] = k]
             /\ counts' = counts + 1 /\ UNCHANGED <<head, got>>
    <3>1. Len(Chars) < Size /\ Chars' = Append(Chars, k) BY <2>2, PutChars
    <3>2. Queue!Add(k) BY <3>1, <2>2 DEF Queue!Add, Chars, SlotOf
    <3> QED BY <3>2 DEF Queue!FifoNext
  <2> QED BY <1>1, <2>1, <2>2 DEF Put
<1>2. ASSUME NEW r \in Reader, Take(r) PROVE [Queue!FifoNext]_<<Chars, got>>
  <2>1. Chars # <<>> /\ arr[head] = Head(Chars) /\ Chars' = Tail(Chars)
    BY <1>2, TakeChars DEF Take
  <2>2. Queue!Remove(r) BY <2>1, <1>2 DEF Take, Queue!Remove, Chars, SlotOf
  <2> QED BY <2>2 DEF Queue!FifoNext
<1>3. CASE UNCHANGED <<ring, got>> BY <1>3 DEF ring, Chars
<1>4. ASSUME NEW r \in Reader, Get(r), ~Take(r) PROVE UNCHANGED <<ring, got>>
  BY <1>4 DEF Get, TakeFull, Lock, Unlock, Signal
<1>5. ASSUME NEW r \in Reader, NEW want \in 1 .. MaxWant, Ask(r, want)
      PROVE  UNCHANGED <<ring, got>>
  BY <1>5 DEF Ask
<1>6. CASE UNCHANGED vars BY <1>6, <1>3 DEF vars
<1> QED BY <1>1, <1>2, <1>3, <1>4, <1>5, <1>6 DEF Next, Handler

\* Characters reach the readers in the order in which they were typed, none
\* twice and none lost: bb.h, with its readers and the keyboard's handler,
\* implements the queue of module Fifo.
THEOREM FifoImplemented == Spec => ImplementsFifo
<1>1. BInv /\ BInv' /\ [Next]_vars => [Queue!FifoNext]_<<Chars, got>>
  BY NextFifo
<1>2. BInv /\ BInv' /\ [Next]_vars =>
        [Queue!FifoNext]_<<[i \in 1 .. counts |-> arr[(head + i - 1) % Size]], got>>
  BY <1>1 DEF Chars, SlotOf
<1> QED BY <1>2, InitFifo, BufferInvariance, PTL DEF Spec, ImplementsFifo, Queue!FifoSpec
-----------------------------------------------------------------------------
(***************************************************************************)
(* The clock.                                                              *)
(***************************************************************************)

\* The timers are in the order of their targets, no two for the same one, and
\* all still to come: so that it is enough to look at the first one, and for
\* equality.  No target is beyond the last one that a product can give.
TimersAhead ==
    /\ \A j, k \in DOMAIN timers : j < k => timers[j].target < timers[k].target
    /\ \A k \in DOMAIN timers : timers[k].target > jiffies /\ timers[k].target * Hz < Word

\* Who waits at a timer sleeps until its target, and who sleeps waits.
TimersHeld ==
    /\ \A k \in DOMAIN timers : \A p \in timers[k].waiting :
          stage[p] = "asleep" /\ timers[k].target = Target(second[p])
    /\ \A p \in Proc : stage[p] = "asleep" => \E k \in DOMAIN timers : p \in timers[k].waiting

\* The end of a sleep is never further away than what is left of it, unless
\* jiffies wrapped, and never nearer, unless a product did.
NotLate ==
    \A p \in Proc : stage[p] # "awake" /\ ~turned[p] => second[p] + elapsed[p] <= jiffies + asked[p]
NotEarly ==
    \A p \in Proc : stage[p] # "awake" /\ ~wrapped[p] =>
        /\ Target(second[p]) = second[p]
        /\ elapsed[p] >= asked[p] \/ second[p] + elapsed[p] = jiffies + asked[p]

ClockInv == ClockTypeOK /\ TimersAhead /\ TimersHeld /\ NotLate /\ NotEarly

-----------------------------------------------------------------------------

\* Milliseconds and targets lag behind what they stand for when a product
\* wraps, and only then.
LEMMA WrapFacts ==
    \A n \in Nat : Wrap(n) \in 0 .. Word - 1 /\ Wrap(n) <= n /\ (n < Word => Wrap(n) = n)
BY WordAssumption DEF Wrap

LEMMA MillisecondsFacts ==
    ASSUME jiffies \in 0 .. Word - 1
    PROVE  /\ milliseconds \in Nat /\ milliseconds <= jiffies
           /\ jiffies * PerSecond < Word => milliseconds = jiffies
<1> DEFINE product == jiffies * Hz
<1>1. Word \in Nat \ {0} /\ Hz \in Nat \ {0} /\ PerSecond = Hz /\ jiffies \in Nat
  BY WordAssumption, HzAssumption
<1>2. product \in Nat /\ product \div Hz = jiffies BY <1>1
<1>3. Wrap(product) \in Nat /\ Wrap(product) <= product /\ (product < Word => Wrap(product) = product)
  BY <1>1, <1>2, WrapFacts
<1>4. milliseconds = Wrap(product) \div Hz BY <1>1 DEF milliseconds
<1>5. Wrap(product) \div Hz \in Nat /\ Wrap(product) \div Hz <= jiffies
  <2> HIDE DEF product
  <2>1. \A n, h, j \in Nat : h # 0 /\ n <= j * h => n \div h \in Nat /\ n \div h <= j OBVIOUS
  <2>2. Wrap(product) <= jiffies * Hz BY <1>3 DEF product
  <2> QED BY <2>1, <2>2, <1>1, <1>3
<1> QED BY <1>1, <1>2, <1>3, <1>4, <1>5

LEMMA TargetFacts ==
    ASSUME NEW ms \in Nat
    PROVE  /\ Target(ms) \in 0 .. Word - 1 /\ Target(ms) <= ms /\ Target(ms) * Hz < Word
           /\ ms * Hz < Word => Target(ms) = ms
<1> DEFINE product == ms * Hz
           target == Wrap(product) \div Hz
<1>1. Word \in Nat \ {0} /\ Hz \in Nat \ {0} /\ PerSecond = Hz
  BY WordAssumption, HzAssumption
<1>2. product \in Nat /\ product \div Hz = ms BY <1>1
<1>3. Wrap(product) \in 0 .. Word - 1 /\ Wrap(product) <= product
      /\ (product < Word => Wrap(product) = product)
  BY <1>1, <1>2, WrapFacts
<1>4. Target(ms) = target BY <1>1 DEF Target
<1>5. target \in Nat /\ target <= ms /\ Hz * target <= Wrap(product)
  <2>1. \A n, h, m \in Nat : h # 0 /\ n <= m * h => n \div h \in Nat /\ n \div h <= m OBVIOUS
  <2>2. \A n, h \in Nat : h # 0 => h * (n \div h) <= n OBVIOUS
  <2>3. Wrap(product) <= ms * Hz BY <1>3
  <2> HIDE DEF product
  <2> QED BY <2>1, <2>2, <2>3, <1>1, <1>3
<1>6. target * Hz < Word /\ target <= target * Hz
  <2> HIDE DEF target, product
  <2>1. \A n, h \in Nat : h # 0 => n <= n * h /\ n * h = h * n OBVIOUS
  <2> QED BY <2>1, <1>1, <1>3, <1>5
<1> HIDE DEF target, product
<1>7. target \in 0 .. Word - 1 BY <1>1, <1>5, <1>6
<1> QED BY <1>2, <1>3, <1>4, <1>5, <1>6, <1>7 DEF product, target

-----------------------------------------------------------------------------

Timer == [target : 0 .. Word - 1, waiting : SUBSET Proc]

\* What putting an element at a place makes of a sequence.
LEMMA InsertAtFacts ==
    ASSUME NEW s \in Seq(Timer), NEW e \in Timer, NEW place \in 1 .. Len(s) + 1
    PROVE  /\ InsertAt(s, place, e) \in Seq(Timer)
           /\ Len(InsertAt(s, place, e)) = Len(s) + 1
           /\ \A k \in 1 .. Len(s) + 1 : /\ k < place => InsertAt(s, place, e)[k] = s[k]
                                         /\ k = place => InsertAt(s, place, e)[k] = e
                                         /\ k > place => InsertAt(s, place, e)[k] = s[k - 1]
<1> DEFINE front == SubSeq(s, 1, place - 1)
           back == SubSeq(s, place, Len(s))
<1>0. Len(s) \in Nat /\ place \in Nat BY LenProperties
<1>1. /\ front \in Seq(Timer) /\ Len(front) = place - 1
      /\ \A k \in 1 .. place - 1 : front[k] = s[k]
  BY <1>0
<1>2. /\ back \in Seq(Timer) /\ Len(back) = Len(s) + 1 - place
      /\ \A k \in 1 .. Len(s) + 1 - place : back[k] = s[place + k - 1]
  BY <1>0
<1>3. <<e>> \in Seq(Timer) /\ Len(<<e>>) = 1 /\ <<e>>[1] = e OBVIOUS
<1> HIDE DEF front, back
<1>4. /\ front \o <<e>> \in Seq(Timer) /\ Len(front \o <<e>>) = place
      /\ \A k \in 1 .. place : (front \o <<e>>)[k] = IF k < place THEN s[k] ELSE e
  BY <1>0, <1>1, <1>3, ConcatProperties
<1>5. /\ (front \o <<e>>) \o back \in Seq(Timer) /\ Len((front \o <<e>>) \o back) = Len(s) + 1
      /\ \A k \in 1 .. Len(s) + 1 :
            ((front \o <<e>>) \o back)[k] = IF k <= place THEN (front \o <<e>>)[k]
                                            ELSE back[k - place]
  BY <1>0, <1>2, <1>4, ConcatProperties
<1>6. \A k \in 1 .. Len(s) + 1 : k > place => back[k - place] = s[k - 1]
  BY <1>0, <1>2
<1>7. InsertAt(s, place, e) = (front \o <<e>>) \o back BY DEF InsertAt, front, back
<1> QED BY <1>0, <1>4, <1>5, <1>6, <1>7

\* The loop of sleepUntil stops somewhere, at the first timer that is not earlier.
LEMMA PlaceFacts ==
    ASSUME ClockTypeOK, NEW t \in Nat
    PROVE  /\ Place(t) \in 1 .. Len(timers) + 1
           /\ \A i \in 1 .. Place(t) - 1 : timers[i].target < t
           /\ Place(t) <= Len(timers) => timers[Place(t)].target >= t
<1> DEFINE P(k) == /\ \A i \in 1 .. k - 1 : timers[i].target < t
                   /\ k <= Len(timers) => timers[k].target >= t
           Late == {k \in 1 .. Len(timers) + 1 : k <= Len(timers) => timers[k].target >= t}
<1>1. timers \in Seq(Timer) /\ Len(timers) \in Nat BY LenProperties DEF ClockTypeOK, Timer
<1>2. \A k \in 1 .. Len(timers) : timers[k].target \in Nat
  <2>1. \A k \in 1 .. Len(timers) : timers[k] \in Timer BY <1>1, ElementOfSeq
  <2> QED BY <2>1, WordAssumption DEF Timer
<1>3. Len(timers) + 1 \in Late /\ Late \in SUBSET Nat BY <1>1
<1>4. PICK k \in Late : \A j \in Late : k <= j BY <1>3, LeastMember
<1>5. k \in 1 .. Len(timers) + 1 /\ P(k)
  <2>1. ASSUME NEW i \in 1 .. k - 1 PROVE timers[i].target < t
    <3>1. i \notin Late /\ i \in 1 .. Len(timers) BY <1>1, <1>4
    <3> QED BY <3>1, <1>2
  <2> QED BY <2>1, <1>4
<1> QED BY <1>5, Zenon DEF Place

\* The list of the timers after p was put at the one for t.
Joined(p, t, new) ==
    /\ new \in Seq(Timer)
    /\ \A j, k \in DOMAIN new : j < k => new[j].target < new[k].target
    /\ \A k \in DOMAIN new : new[k].target > jiffies /\ new[k].target * Hz < Word
    /\ \A k \in DOMAIN new : \A q \in new[k].waiting :
          \/ q = p /\ new[k].target = t
          \/ \E j \in DOMAIN timers : q \in timers[j].waiting /\ timers[j].target = new[k].target
    /\ \A j \in DOMAIN timers : \E k \in DOMAIN new : timers[j].waiting \subseteq new[k].waiting
    /\ \E k \in DOMAIN new : p \in new[k].waiting

LEMMA InsertedFacts ==
    ASSUME ClockTypeOK, TimersAhead, NEW p \in Proc,
           NEW t \in 0 .. Word - 1, t > jiffies, t * Hz < Word
    PROVE  Joined(p, t, Inserted(p, t))
<1> DEFINE place == Place(t)
           fresh == [target |-> t, waiting |-> {p}]
           more == [timers EXCEPT ![place].waiting = @ \cup {p}]
           longer == InsertAt(timers, place, fresh)
           n == Len(timers)
<1>0. Word \in Nat \ {0} /\ jiffies \in Nat /\ t \in Nat BY WordAssumption DEF ClockTypeOK
<1>1. timers \in Seq(Timer) /\ n \in Nat /\ DOMAIN timers = 1 .. n
  BY LenProperties DEF ClockTypeOK, Timer
<1>2. \A k \in 1 .. n : timers[k] \in Timer /\ timers[k].target \in Nat
  <2>1. \A k \in 1 .. n : timers[k] \in Timer BY <1>1, ElementOfSeq
  <2> QED BY <2>1, <1>0 DEF Timer
<1>3. /\ place \in 1 .. n + 1
      /\ \A i \in 1 .. place - 1 : timers[i].target < t
      /\ place <= n => timers[place].target >= t
  BY <1>0, PlaceFacts
<1>4. /\ \A j, k \in 1 .. n : j < k => timers[j].target < timers[k].target
      /\ \A k \in 1 .. n : timers[k].target > jiffies /\ timers[k].target * Hz < Word
  BY <1>1 DEF TimersAhead
<1> HIDE DEF place, n
<1>5. CASE place <= n /\ timers[place].target = t
  <2>1. Inserted(p, t) = more BY <1>5 DEF Inserted, place, n
  <2>2. place \in 1 .. n BY <1>3, <1>5, <1>1
  <2>3. /\ DOMAIN more = 1 .. n
        /\ \A k \in 1 .. n : k # place => more[k] = timers[k]
        /\ more[place] = [timers[place] EXCEPT !.waiting = @ \cup {p}]
    BY <1>1, <2>2
  <2>4. /\ more[place] \in Timer /\ more[place].target = t
        /\ more[place].waiting = timers[place].waiting \cup {p}
    BY <2>2, <2>3, <1>2, <1>5 DEF Timer
  <2>5. \A k \in 1 .. n : more[k] \in Timer /\ more[k].target = timers[k].target
                          /\ timers[k].waiting \subseteq more[k].waiting
    BY <2>3, <2>4, <1>2, <1>5
  <2>6. more \in Seq(Timer)
    <3>1. more = [k \in 1 .. n |-> more[k]] BY <1>1, <2>3
    <3> HIDE DEF more
    <3> QED BY <3>1, <2>5, <1>1
  <2> HIDE DEF more
  <2>7. \A k \in 1 .. n : \A q \in more[k].waiting :
          \/ q = p /\ more[k].target = t
          \/ \E j \in 1 .. n : q \in timers[j].waiting /\ timers[j].target = more[k].target
    BY <2>3, <2>4, <2>5
  <2>8. Joined(p, t, more) BY <2>2, <2>3, <2>4, <2>5, <2>6, <2>7, <1>1, <1>4 DEF Joined
  <2> QED BY <2>1, <2>8
<1>6. CASE ~(place <= n /\ timers[place].target = t)
  <2>1. Inserted(p, t) = longer BY <1>6 DEF Inserted, place, n
  <2>2. fresh \in Timer BY DEF Timer
  <2>3. /\ longer \in Seq(Timer) /\ Len(longer) = n + 1
        /\ \A k \in 1 .. n + 1 : /\ k < place => longer[k] = timers[k]
                                 /\ k = place => longer[k] = fresh
                                 /\ k > place => longer[k] = timers[k - 1]
    <3>1. PICK s \in Seq(Timer), e \in Timer, i \in 1 .. Len(timers) + 1 :
             s = timers /\ e = fresh /\ i = place
      <4> HIDE DEF fresh
      <4> QED BY <2>2, <1>1, <1>3 DEF n
    <3>2. i \in 1 .. Len(s) + 1 /\ n = Len(s) BY <3>1 DEF n
    <3>3. /\ InsertAt(s, i, e) \in Seq(Timer) /\ Len(InsertAt(s, i, e)) = Len(s) + 1
          /\ \A k \in 1 .. Len(s) + 1 : /\ k < i => InsertAt(s, i, e)[k] = s[k]
                                        /\ k = i => InsertAt(s, i, e)[k] = e
                                        /\ k > i => InsertAt(s, i, e)[k] = s[k - 1]
      BY <3>2, InsertAtFacts
    <3>4. longer = InsertAt(s, i, e) BY <3>1
    <3> HIDE DEF longer, fresh
    <3> QED BY <3>1, <3>2, <3>3, <3>4, <1>1
  <2>4. DOMAIN longer = 1 .. n + 1 BY <2>3, LenProperties
  <2>5. fresh.target = t /\ fresh.waiting = {p} OBVIOUS
  <2> HIDE DEF longer, fresh
  <2>6. \A k \in 1 .. n : k >= place => timers[k].target > t
    <3>1. place <= n => timers[place].target > t BY <1>0, <1>2, <1>3, <1>6
    <3> QED BY <3>1, <1>0, <1>1, <1>2, <1>3, <1>4
  <2>7. ASSUME NEW k \in 1 .. n + 1
        PROVE  \/ k < place /\ k \in 1 .. n /\ longer[k] = timers[k]
               \/ k = place /\ longer[k] = fresh
               \/ k > place /\ k - 1 \in 1 .. n /\ k - 1 >= place /\ longer[k] = timers[k - 1]
    BY <2>3, <1>1, <1>3
  <2>8. ASSUME NEW j \in 1 .. n + 1, NEW k \in 1 .. n + 1, j < k
        PROVE  longer[j].target < longer[k].target
    <3>1. CASE k < place BY <3>1, <2>8, <2>7, <1>1, <1>3, <1>4
    <3>2. CASE k = place BY <3>2, <2>8, <2>7, <2>5, <1>1, <1>3
    <3>3. CASE k > place
      <4>1. longer[k] = timers[k - 1] /\ k - 1 \in 1 .. n /\ k - 1 >= place
        BY <3>3, <2>7, <1>1, <1>3
      <4>2. CASE j < place BY <4>1, <4>2, <2>8, <2>7, <1>1, <1>3, <1>4
      <4>3. CASE j = place BY <4>1, <4>3, <2>6, <2>7, <2>5, <1>1, <1>3
      <4>4. CASE j > place BY <4>1, <4>4, <2>8, <2>7, <1>1, <1>3, <1>4
      <4> QED BY <4>2, <4>3, <4>4, <1>1, <1>3
    <3> QED BY <3>1, <3>2, <3>3, <1>1, <1>3
  <2>9. \A k \in 1 .. n + 1 : longer[k].target > jiffies /\ longer[k].target * Hz < Word
    BY <2>7, <2>5, <1>4
  <2>10. \A k \in 1 .. n + 1 : \A q \in longer[k].waiting :
          \/ q = p /\ longer[k].target = t
          \/ \E j \in 1 .. n : q \in timers[j].waiting /\ timers[j].target = longer[k].target
    BY <2>7, <2>5
  <2>11. ASSUME NEW j \in 1 .. n
         PROVE  \E k \in 1 .. n + 1 : timers[j].waiting \subseteq longer[k].waiting
    <3>1. CASE j < place
      <4>1. j \in 1 .. n + 1 /\ longer[j] = timers[j] BY <3>1, <2>3, <1>1, <1>3
      <4> QED BY <4>1
    <3>2. CASE j >= place
      <4>1. j + 1 \in 1 .. n + 1 /\ longer[j + 1] = timers[j] BY <3>2, <2>3, <1>1, <1>3
      <4> QED BY <4>1
    <3> QED BY <3>1, <3>2, <1>1, <1>3
  <2>12. place \in 1 .. n + 1 /\ p \in longer[place].waiting BY <2>3, <2>5, <1>1, <1>3
  <2>13. Joined(p, t, longer)
    BY <2>3, <2>4, <2>8, <2>9, <2>10, <2>11, <2>12, <1>1 DEF Joined
  <2> QED BY <2>1, <2>13
<1> QED BY <1>5, <1>6

-----------------------------------------------------------------------------

\* What the type of the clock's state says of its parts.
LEMMA ClockTypes ==
    ASSUME ClockTypeOK
    PROVE  /\ Word \in Nat \ {0} /\ Hz \in Nat \ {0} /\ PerSecond = Hz
           /\ MaxSleep \in Nat /\ MaxSleep < Word
           /\ jiffies \in Nat /\ jiffies < Word
           /\ timers \in Seq(Timer) /\ Len(timers) \in Nat /\ DOMAIN timers = 1 .. Len(timers)
           /\ \A k \in DOMAIN timers : timers[k] \in Timer /\ timers[k].target \in Nat
           /\ \A p \in Proc : /\ second[p] \in Nat /\ second[p] < Word
                              /\ asked[p] \in Nat /\ asked[p] <= MaxSleep
                              /\ elapsed[p] \in Nat /\ elapsed[p] <= MaxSleep + 1
<1>1. Word \in Nat \ {0} /\ Hz \in Nat \ {0} /\ PerSecond = Hz /\ MaxSleep \in Nat /\ MaxSleep < Word
  BY WordAssumption, HzAssumption
<1>2. jiffies \in Nat /\ jiffies < Word BY <1>1 DEF ClockTypeOK
<1>3. timers \in Seq(Timer) BY DEF ClockTypeOK, Timer
<1>4. Len(timers) \in Nat /\ DOMAIN timers = 1 .. Len(timers) BY <1>3, LenProperties
<1>5. ASSUME NEW k \in DOMAIN timers PROVE timers[k] \in Timer /\ timers[k].target \in Nat
  <2>1. timers[k] \in Timer BY <1>3, <1>4, ElementOfSeq
  <2> QED BY <2>1, <1>1 DEF Timer
<1>6. ASSUME NEW p \in Proc
      PROVE  /\ second[p] \in Nat /\ second[p] < Word
             /\ asked[p] \in Nat /\ asked[p] <= MaxSleep
             /\ elapsed[p] \in Nat /\ elapsed[p] <= MaxSleep + 1
  BY <1>1 DEF ClockTypeOK
<1> QED BY <1>1, <1>2, <1>3, <1>4, <1>5, <1>6

LEMMA InitClockInv == ClockInit => ClockInv
<1> SUFFICES ASSUME ClockInit PROVE ClockInv OBVIOUS
<1>1. ClockTypeOK BY WordAssumption DEF ClockInit, ClockTypeOK
<1>2. timers = <<>> /\ \A p \in Proc : stage[p] = "awake" BY DEF ClockInit
<1>3. DOMAIN timers = {} BY <1>2
<1> QED BY <1>1, <1>2, <1>3 DEF ClockInv, TimersAhead, TimersHeld, NotLate, NotEarly

\* The milliseconds are read: second is as far ahead as was asked, less what the
\* products lost.
LEMMA SleepForStep ==
    ASSUME ClockInv, NEW p \in Proc, NEW ms \in 0 .. MaxSleep, SleepFor(p, ms)
    PROVE  ClockInv'
<1> DEFINE sum == milliseconds + ms
<1>0. ClockTypeOK BY DEF ClockInv
<1>1. /\ Word \in Nat \ {0} /\ Hz \in Nat \ {0} /\ PerSecond = Hz
      /\ MaxSleep \in Nat /\ ms \in Nat /\ ms <= MaxSleep
      /\ jiffies \in Nat /\ jiffies < Word
  BY <1>0, ClockTypes
<1>2. milliseconds \in Nat /\ milliseconds <= jiffies
      /\ (jiffies * PerSecond < Word => milliseconds = jiffies)
  BY <1>0, MillisecondsFacts DEF ClockTypeOK
<1>3. sum \in Nat /\ sum <= jiffies + ms BY <1>1, <1>2
<1>4. Wrap(sum) \in 0 .. Word - 1 /\ Wrap(sum) <= sum /\ (sum < Word => Wrap(sum) = sum)
  BY <1>3, WrapFacts
<1>5. /\ stage' = [stage EXCEPT ![p] = "computed"]
      /\ second' = [second EXCEPT ![p] = Wrap(sum)]
      /\ asked' = [asked EXCEPT ![p] = ms] /\ elapsed' = [elapsed EXCEPT ![p] = 0]
      /\ turned' = [turned EXCEPT ![p] = FALSE]
      /\ wrapped' = [wrapped EXCEPT ![p] = \/ jiffies * PerSecond >= Word \/ sum * Hz >= Word]
      /\ jiffies' = jiffies /\ timers' = timers /\ stage[p] = "awake"
  BY DEF SleepFor
<1> HIDE DEF sum
<1>6. /\ second'[p] = Wrap(sum) /\ asked'[p] = ms /\ elapsed'[p] = 0
      /\ wrapped'[p] = (jiffies * PerSecond >= Word \/ sum * Hz >= Word)
      /\ stage'[p] = "computed"
  BY <1>0, <1>5 DEF ClockTypeOK
<1>7. \A q \in Proc : q # p =>
        /\ second'[q] = second[q] /\ asked'[q] = asked[q] /\ elapsed'[q] = elapsed[q]
        /\ wrapped'[q] = wrapped[q] /\ turned'[q] = turned[q] /\ stage'[q] = stage[q]
  BY <1>0, <1>5 DEF ClockTypeOK
<1>8. ClockTypeOK' BY <1>0, <1>1, <1>4, <1>5 DEF ClockTypeOK
<1>9. TimersAhead' BY <1>5 DEF ClockInv, TimersAhead
<1>10. TimersHeld'
  <2>1. \A k \in DOMAIN timers : \A q \in timers[k].waiting : q \in Proc /\ q # p
    BY <1>0, <1>5, ClockTypes DEF ClockInv, TimersHeld, Timer
  <2>2. \A k \in DOMAIN timers : \A q \in timers[k].waiting :
           stage'[q] = "asleep" /\ timers[k].target = Target(second'[q])
    BY <2>1, <1>7 DEF ClockInv, TimersHeld
  <2>3. \A q \in Proc : stage'[q] = "asleep" => \E k \in DOMAIN timers : q \in timers[k].waiting
    BY <1>6, <1>7 DEF ClockInv, TimersHeld
  <2> QED BY <2>2, <2>3, <1>5 DEF TimersHeld, Target, Wrap
<1>11. NotLate'
  <2>1. second'[p] + elapsed'[p] <= jiffies + asked'[p] BY <1>1, <1>3, <1>4, <1>6
  <2>2. ASSUME NEW q \in Proc, stage'[q] # "awake", ~turned'[q]
        PROVE  second'[q] + elapsed'[q] <= jiffies' + asked'[q]
    BY <2>1, <2>2, <1>5, <1>7 DEF ClockInv, NotLate
  <2> QED BY <2>2 DEF NotLate
<1>12. NotEarly'
  <2>1. ASSUME ~wrapped'[p]
        PROVE  /\ Target(second'[p]) = second'[p]
               /\ second'[p] + elapsed'[p] = jiffies + asked'[p]
    <3>1. jiffies * PerSecond < Word /\ sum * Hz < Word
      <4>1. ~(jiffies * PerSecond >= Word) /\ ~(sum * Hz >= Word) BY <2>1, <1>6
      <4>2. jiffies * PerSecond \in Nat /\ sum * Hz \in Nat BY <1>1, <1>3
      <4> QED BY <4>1, <4>2, <1>1
    <3>2. sum < Word
      <4>1. \A n, h \in Nat : h # 0 => n <= n * h OBVIOUS
      <4>2. sum <= sum * Hz BY <4>1, <1>1, <1>3
      <4>3. sum * Hz \in Nat BY <1>1, <1>3
      <4> QED BY <4>2, <4>3, <3>1, <1>1, <1>3
    <3>3. sum = jiffies + ms BY <3>1, <1>2 DEF sum
    <3>4. Wrap(sum) = sum BY <3>2, <1>4
    <3>5. Target(sum) = sum BY <3>1, <1>3, TargetFacts
    <3> QED BY <3>3, <3>4, <3>5, <1>1, <1>6
  <2>2. ASSUME NEW q \in Proc, stage'[q] # "awake", ~wrapped'[q]
        PROVE  /\ Target(second'[q]) = second'[q]
               /\ elapsed'[q] >= asked'[q] \/ second'[q] + elapsed'[q] = jiffies' + asked'[q]
    <3>1. CASE q = p BY <3>1, <2>1, <2>2, <1>5
    <3>2. CASE q # p BY <3>2, <2>2, <1>5, <1>7 DEF ClockInv, NotEarly
    <3> QED BY <3>1, <3>2
  <2>3. \A q \in Proc : Target(second[q])' = Target(second'[q]) BY DEF Target, Wrap
  <2> QED BY <2>2 DEF NotEarly, Target, Wrap
<1> QED BY <1>8, <1>9, <1>10, <1>11, <1>12 DEF ClockInv

\* A target still to come is put in its place; another one wakes nobody late.
LEMMA SleepUntilStep ==
    ASSUME ClockInv, NEW p \in Proc, SleepUntil(p)
    PROVE  ClockInv'
<1>0. ClockTypeOK /\ TimersAhead BY DEF ClockInv
<1>1. /\ stage[p] = "computed" /\ jiffies' = jiffies /\ second' = second /\ asked' = asked
      /\ elapsed' = elapsed /\ wrapped' = wrapped /\ turned' = turned
  BY DEF SleepUntil
<1>2. /\ stage' \in [Proc -> {"awake", "computed", "asleep"}]
      /\ \A q \in Proc : q # p => stage'[q] = stage[q]
      /\ \A q \in Proc : stage'[q] # "awake" => stage[q] # "awake"
      /\ stage'[p] = IF Target(second[p]) > jiffies THEN "asleep" ELSE "awake"
  BY <1>0, <1>1 DEF SleepUntil, ClockTypeOK
<1>3. NotLate' BY <1>1, <1>2 DEF ClockInv, NotLate
<1>4. NotEarly' BY <1>1, <1>2 DEF ClockInv, NotEarly, Target, Wrap
<1>5. CASE Target(second[p]) > jiffies
  <2>1. second[p] \in Nat BY <1>0, ClockTypes
  <2>2. PICK t \in 0 .. Word - 1 : t = Target(second[p]) /\ t * Hz < Word
    BY <2>1, TargetFacts
  <2>3. timers' = Inserted(p, t) BY <1>5, <2>2 DEF SleepUntil
  <2>4. Joined(p, t, timers') BY <2>2, <2>3, <1>0, <1>5, InsertedFacts
  <2>5. ClockTypeOK' BY <2>4, <1>0, <1>1, <1>2 DEF Joined, ClockTypeOK, Timer
  <2>6. TimersAhead' BY <2>4, <1>1 DEF Joined, TimersAhead
  <2>7. TimersHeld'
    <3>1. ASSUME NEW k \in DOMAIN timers', NEW q \in timers'[k].waiting
          PROVE  stage'[q] = "asleep" /\ timers'[k].target = Target(second[q])
      <4>1. CASE q = p /\ timers'[k].target = t BY <4>1, <2>2, <1>2, <1>5
      <4>2. ASSUME NEW j \in DOMAIN timers, q \in timers[j].waiting,
                   timers[j].target = timers'[k].target
            PROVE  stage'[q] = "asleep" /\ timers'[k].target = Target(second[q])
        <5>1. stage[q] = "asleep" /\ timers[j].target = Target(second[q])
          BY <4>2 DEF ClockInv, TimersHeld
        <5>2. q \in Proc /\ q # p BY <4>2, <5>1, <1>0, <1>1, ClockTypes DEF Timer
        <5> QED BY <4>2, <5>1, <5>2, <1>2
      <4> QED BY <4>1, <4>2, <2>4 DEF Joined
    <3>2. ASSUME NEW q \in Proc, stage'[q] = "asleep"
          PROVE  \E k \in DOMAIN timers' : q \in timers'[k].waiting
      <4>1. CASE q = p BY <4>1, <2>4 DEF Joined
      <4>2. CASE q # p
        <5>1. PICK j \in DOMAIN timers : q \in timers[j].waiting
          BY <4>2, <3>2, <1>2 DEF ClockInv, TimersHeld
        <5> QED BY <5>1, <2>4 DEF Joined
      <4> QED BY <4>1, <4>2
    <3> QED BY <3>1, <3>2, <1>1 DEF TimersHeld, Target, Wrap
  <2> QED BY <2>5, <2>6, <2>7, <1>3, <1>4 DEF ClockInv
<1>6. CASE ~(Target(second[p]) > jiffies)
  <2>1. timers' = timers BY <1>6 DEF SleepUntil
  <2>2. ClockTypeOK' BY <2>1, <1>0, <1>1, <1>2 DEF ClockTypeOK
  <2>3. TimersAhead' BY <2>1, <1>0, <1>1 DEF TimersAhead
  <2>4. TimersHeld'
    <3>1. \A k \in DOMAIN timers : \A q \in timers[k].waiting : q \in Proc /\ q # p
      BY <1>0, <1>1, ClockTypes DEF ClockInv, TimersHeld, Timer
    <3>2. \A k \in DOMAIN timers : \A q \in timers[k].waiting :
             stage'[q] = "asleep" /\ timers[k].target = Target(second[q])
      BY <3>1, <1>2 DEF ClockInv, TimersHeld
    <3>3. \A q \in Proc : stage'[q] = "asleep" => \E k \in DOMAIN timers : q \in timers[k].waiting
      BY <1>2, <1>6 DEF ClockInv, TimersHeld
    <3> QED BY <3>2, <3>3, <2>1, <1>1 DEF TimersHeld, Target, Wrap
  <2> QED BY <2>2, <2>3, <2>4, <1>3, <1>4 DEF ClockInv
<1> QED BY <1>5, <1>6

\* Before the last jiffy of a word there is no timer left, so that jiffies do not
\* wrap under a sleeper.
LEMMA WrapEmpty == ClockInv /\ jiffies * PerSecond >= Word => timers = <<>>
<1> SUFFICES ASSUME ClockInv, jiffies * PerSecond >= Word, timers # <<>> PROVE FALSE
  OBVIOUS
<1>0. ClockTypeOK BY DEF ClockInv
<1>1. 1 \in DOMAIN timers BY <1>0, ClockTypes, EmptySeq
<1>2. timers[1].target > jiffies /\ timers[1].target * Hz < Word
  BY <1>1 DEF ClockInv, TimersAhead
<1>3. \A n, m, h \in Nat : n <= m => n * h <= m * h OBVIOUS
<1>4. jiffies \in Nat /\ timers[1].target \in Nat /\ Hz \in Nat /\ PerSecond = Hz /\ Word \in Nat
  BY <1>0, <1>1, ClockTypes
<1>5. jiffies * Hz <= timers[1].target * Hz BY <1>2, <1>3, <1>4
<1>6. jiffies * Hz \in Nat /\ timers[1].target * Hz \in Nat BY <1>4
<1> QED BY <1>2, <1>4, <1>5, <1>6

LEMMA NoWrapAsleep == ClockInv /\ timers # <<>> => jiffies + 1 < Word /\ Wrap(jiffies + 1) = jiffies + 1
<1> SUFFICES ASSUME ClockInv, timers # <<>>
             PROVE  jiffies + 1 < Word /\ Wrap(jiffies + 1) = jiffies + 1
  OBVIOUS
<1>0. ClockTypeOK BY DEF ClockInv
<1>1. 1 \in DOMAIN timers BY <1>0, ClockTypes, EmptySeq
<1>2. timers[1].target > jiffies BY <1>1 DEF ClockInv, TimersAhead
<1>3. timers[1].target < Word BY <1>0, <1>1, ClockTypes DEF Timer
<1>4. jiffies \in Nat /\ timers[1].target \in Nat /\ Word \in Nat BY <1>0, <1>1, ClockTypes
<1>5. jiffies + 1 < Word BY <1>2, <1>3, <1>4
<1> QED BY <1>4, <1>5, WrapFacts

\* Only the first timer can be due, and it is the only one of those who wait at it.
LEMMA TickStep ==
    ASSUME ClockInv, Tick
    PROVE  ClockInv'
<1> DEFINE now == Wrap(jiffies + 1)
           due == timers # <<>> /\ Head(timers).target = now
<1>0. ClockTypeOK /\ TimersAhead /\ TimersHeld BY DEF ClockInv
<1>1. /\ jiffies' = now /\ timers' = IF due THEN Tail(timers) ELSE timers
      /\ stage' = [p \in Proc |-> IF due /\ p \in Head(timers).waiting THEN "awake" ELSE stage[p]]
      /\ elapsed' = [p \in Proc |-> IF stage[p] = "awake" \/ elapsed[p] > MaxSleep THEN elapsed[p]
                                    ELSE elapsed[p] + 1]
      /\ turned' = [p \in Proc |-> turned[p] \/ (now = 0 /\ stage[p] # "awake")]
      /\ second' = second /\ asked' = asked /\ wrapped' = wrapped
  BY DEF Tick
<1>2. /\ Word \in Nat \ {0} /\ MaxSleep \in Nat /\ MaxSleep < Word
      /\ jiffies \in Nat /\ jiffies < Word
  BY <1>0, ClockTypes
<1>3. now \in 0 .. Word - 1 /\ (now = jiffies + 1 \/ (now = 0 /\ jiffies = Word - 1))
  <2>1. CASE jiffies + 1 < Word BY <2>1, <1>2, WrapFacts
  <2>2. CASE jiffies + 1 = Word BY <2>2, <1>2 DEF Wrap
  <2> QED BY <2>1, <2>2, <1>2
<1>4. timers # <<>> => now = jiffies + 1 BY NoWrapAsleep
<1> HIDE DEF now
<1>5. ClockTypeOK'
  <2>1. timers # <<>> => Tail(timers) \in Seq(Timer) BY <1>0, HeadTailProperties, ClockTypes
  <2>2. timers' \in Seq(Timer) BY <2>1, <1>1, <1>0, ClockTypes
  <2>3. stage' \in [Proc -> {"awake", "computed", "asleep"}] BY <1>0, <1>1 DEF ClockTypeOK
  <2>4. elapsed' \in [Proc -> 0 .. MaxSleep + 1] BY <1>0, <1>1, <1>2 DEF ClockTypeOK
  <2>5. turned' \in [Proc -> BOOLEAN] BY <1>0, <1>1 DEF ClockTypeOK
  <2> QED BY <2>2, <2>3, <2>4, <2>5, <1>0, <1>1, <1>3 DEF ClockTypeOK, Timer
<1>6. \A p \in Proc : stage'[p] # "awake" => stage[p] # "awake" /\ stage'[p] = stage[p]
  BY <1>1
<1>7. NotLate'
  <2>1. ASSUME NEW p \in Proc, stage'[p] # "awake", ~turned'[p]
        PROVE  second'[p] + elapsed'[p] <= jiffies' + asked'[p]
    <3>1. stage[p] # "awake" /\ ~turned[p] /\ now = jiffies + 1
      BY <2>1, <1>1, <1>3, <1>6
    <3>2. second[p] + elapsed[p] <= jiffies + asked[p] BY <3>1 DEF ClockInv, NotLate
    <3>3. elapsed'[p] <= elapsed[p] + 1 /\ elapsed'[p] \in Nat
      BY <1>1, <1>0, ClockTypes
    <3> QED BY <3>1, <3>2, <3>3, <1>0, <1>1, ClockTypes
  <2> QED BY <2>1 DEF NotLate
<1>8. NotEarly'
  <2>1. ASSUME NEW p \in Proc, stage'[p] # "awake", ~wrapped'[p]
        PROVE  /\ Target(second'[p]) = second'[p]
               /\ elapsed'[p] >= asked'[p] \/ second'[p] + elapsed'[p] = jiffies' + asked'[p]
    <3>1. stage[p] # "awake" /\ ~wrapped[p] BY <2>1, <1>1, <1>6
    <3>2. /\ Target(second[p]) = second[p]
          /\ elapsed[p] >= asked[p] \/ second[p] + elapsed[p] = jiffies + asked[p]
      BY <3>1 DEF ClockInv, NotEarly
    <3>3. /\ second[p] \in Nat /\ second[p] < Word /\ asked[p] \in Nat /\ asked[p] <= MaxSleep
          /\ elapsed[p] \in Nat
      BY <1>0, ClockTypes
    <3>4. elapsed'[p] = IF elapsed[p] > MaxSleep THEN elapsed[p] ELSE elapsed[p] + 1
      BY <3>1, <1>1
    <3>5. CASE elapsed[p] >= asked[p] BY <3>5, <3>2, <3>3, <3>4, <1>1
    <3>6. CASE elapsed[p] < asked[p]
      <4>1. elapsed'[p] = elapsed[p] + 1 BY <3>3, <3>4, <3>6, <1>2
      <4>2. now = jiffies + 1 BY <3>2, <3>3, <3>6, <1>2, <1>3
      <4>3. second'[p] + elapsed'[p] = jiffies' + asked'[p]
        <5>1. second[p] + elapsed[p] = jiffies + asked[p] BY <3>2, <3>3, <3>6
        <5>2. second[p] + (elapsed[p] + 1) = (jiffies + 1) + asked[p]
          BY <5>1, <3>3, <1>2
        <5> QED BY <5>2, <4>1, <4>2, <1>1
      <4> QED BY <4>3, <3>2, <1>1
    <3> QED BY <3>5, <3>6, <3>3
  <2> QED BY <2>1 DEF NotEarly, Target, Wrap
<1>9. CASE ~due
  <2>1. timers' = timers BY <1>1, <1>9
  <2>2. \A p \in Proc : stage'[p] = stage[p] BY <1>1, <1>9
  <2>3. TimersAhead'
    <3>1. ASSUME timers # <<>> PROVE timers[1].target > now
      <4>1. 1 \in DOMAIN timers /\ Head(timers) = timers[1]
        BY <3>1, <1>0, ClockTypes, EmptySeq, HeadTailProperties
      <4>2. timers[1].target > jiffies /\ timers[1].target # now /\ timers[1].target \in Nat
        BY <4>1, <3>1, <1>0, <1>9, ClockTypes DEF TimersAhead
      <4> QED BY <4>2, <3>1, <1>2, <1>4
    <3>2. ASSUME NEW k \in DOMAIN timers PROVE timers[k].target > now
      <4>1. timers # <<>> /\ 1 \in DOMAIN timers /\ k \in 1 .. Len(timers)
        BY <1>0, ClockTypes
      <4>2. k = 1 \/ timers[1].target < timers[k].target BY <4>1, <1>0 DEF TimersAhead
      <4>3. timers[1].target \in Nat /\ timers[k].target \in Nat BY <4>1, <1>0, ClockTypes
      <4> QED BY <4>1, <4>2, <4>3, <3>1, <1>3, <1>2
    <3> QED BY <3>2, <2>1, <1>1, <1>0 DEF TimersAhead
  <2>4. TimersHeld'
    <3>1. \A k \in DOMAIN timers : \A q \in timers[k].waiting : q \in Proc
      BY <1>0, ClockTypes DEF Timer
    <3> QED BY <3>1, <2>1, <2>2, <1>0, <1>1 DEF TimersHeld, Target, Wrap
  <2> QED BY <2>3, <2>4, <1>5, <1>7, <1>8 DEF ClockInv
<1>10. CASE due
  <2>1. /\ timers # <<>> /\ timers' = Tail(timers) /\ now = jiffies + 1
        /\ Head(timers).target = now
    BY <1>1, <1>4, <1>10
  <2>2. /\ Len(timers) \in Nat /\ DOMAIN timers = 1 .. Len(timers) /\ Len(timers) # 0
        /\ timers \in Seq(Timer)
    BY <2>1, <1>0, ClockTypes, EmptySeq
  <2>3. /\ timers' \in Seq(Timer) /\ Len(timers') = Len(timers) - 1
        /\ \A k \in 1 .. Len(timers') : timers'[k] = timers[k + 1]
        /\ Head(timers) = timers[1]
    BY <2>1, <2>2, HeadTailProperties
  <2>4. DOMAIN timers' = 1 .. Len(timers) - 1
        /\ \A k \in DOMAIN timers' : timers'[k] = timers[k + 1] /\ k + 1 \in DOMAIN timers
    BY <2>2, <2>3, LenProperties
  <2>5. \A k \in DOMAIN timers : k # 1 => timers[k].target > now
    BY <2>1, <2>2, <2>3, <1>0 DEF TimersAhead
  <2>6. TimersAhead'
    <3>1. ASSUME NEW k \in DOMAIN timers'
          PROVE  timers'[k].target > jiffies' /\ timers'[k].target * Hz < Word
      <4>1. k + 1 \in DOMAIN timers /\ k + 1 # 1 /\ timers'[k] = timers[k + 1] BY <2>2, <2>4
      <4> QED BY <4>1, <2>5, <1>0, <1>1 DEF TimersAhead
    <3>2. ASSUME NEW j \in DOMAIN timers', NEW k \in DOMAIN timers', j < k
          PROVE  timers'[j].target < timers'[k].target
      <4>1. /\ j + 1 \in DOMAIN timers /\ timers'[j] = timers[j + 1]
            /\ k + 1 \in DOMAIN timers /\ timers'[k] = timers[k + 1]
            /\ j + 1 < k + 1
        BY <3>2, <2>2, <2>4
      <4> QED BY <4>1, <1>0 DEF TimersAhead
    <3> QED BY <3>1, <3>2 DEF TimersAhead
  <2>7. \A k \in DOMAIN timers : \A q \in timers[k].waiting :
          q \in Proc /\ (q \in timers[1].waiting => k = 1)
    <3>1. ASSUME NEW k \in DOMAIN timers, NEW q \in timers[k].waiting
          PROVE  q \in Proc /\ (q \in timers[1].waiting => k = 1)
      <4>1. q \in Proc BY <1>0, ClockTypes DEF Timer
      <4>2. 1 \in DOMAIN timers BY <2>2
      <4>3. q \in timers[1].waiting => timers[1].target = timers[k].target
        BY <4>2, <1>0 DEF TimersHeld
      <4>4. timers[1].target = now /\ timers[1].target \in Nat /\ timers[k].target \in Nat
        BY <4>2, <2>1, <2>3, <1>0, ClockTypes
      <4> QED BY <4>1, <4>3, <4>4, <2>5
    <3> QED BY <3>1
  <2>8. TimersHeld'
    <3>1. ASSUME NEW k \in DOMAIN timers', NEW q \in timers'[k].waiting
          PROVE  stage'[q] = "asleep" /\ timers'[k].target = Target(second[q])
      <4>1. k + 1 \in DOMAIN timers /\ k + 1 # 1 /\ timers'[k] = timers[k + 1] BY <2>2, <2>4
      <4>2. q \in Proc /\ q \notin Head(timers).waiting BY <4>1, <2>3, <2>7
      <4> QED BY <4>1, <4>2, <1>0, <1>1 DEF TimersHeld
    <3>2. ASSUME NEW q \in Proc, stage'[q] = "asleep"
          PROVE  \E k \in DOMAIN timers' : q \in timers'[k].waiting
      <4>1. stage[q] = "asleep" /\ q \notin timers[1].waiting BY <3>2, <2>3, <1>1, <1>10
      <4>2. PICK j \in DOMAIN timers : q \in timers[j].waiting BY <4>1, <1>0 DEF TimersHeld
      <4>3. j - 1 \in DOMAIN timers' /\ timers'[j - 1] = timers[j]
        BY <4>1, <4>2, <2>2, <2>4
      <4> QED BY <4>2, <4>3
    <3> QED BY <3>1, <3>2, <1>1 DEF TimersHeld, Target, Wrap
  <2> QED BY <2>6, <2>8, <1>5, <1>7, <1>8 DEF ClockInv
<1> QED BY <1>9, <1>10

LEMMA NextClockInv == ClockInv /\ [ClockNext]_clockVars => ClockInv'
<1> SUFFICES ASSUME ClockInv, [ClockNext]_clockVars PROVE ClockInv' OBVIOUS
<1>1. CASE Tick BY <1>1, TickStep
<1>2. ASSUME NEW p \in Proc, SleepUntil(p) PROVE ClockInv' BY <1>2, SleepUntilStep
<1>3. ASSUME NEW p \in Proc, NEW ms \in 0 .. MaxSleep, SleepFor(p, ms) PROVE ClockInv'
  BY <1>3, SleepForStep
<1>4. CASE UNCHANGED clockVars
  BY <1>4 DEF clockVars, sleeper, ClockInv, ClockTypeOK, TimersAhead, TimersHeld, NotLate,
              NotEarly, Target, Wrap
<1> QED BY <1>1, <1>2, <1>3, <1>4 DEF ClockNext

\* A process that sleeps still has something left to sleep, unless jiffies wrapped
\* within its call.
LEMMA ClockInvImplies == ClockInv => NobodyOversleeps
<1> SUFFICES ASSUME ClockInv PROVE NobodyOversleeps OBVIOUS
<1>0. ClockTypeOK BY DEF ClockInv
<1>1. ASSUME NEW p \in Proc
      PROVE  stage[p] = "asleep" <=> \E k \in DOMAIN timers : p \in timers[k].waiting
  BY DEF ClockInv, TimersHeld
<1>2. ASSUME NEW p \in Proc, stage[p] = "asleep", ~turned[p] PROVE elapsed[p] < asked[p]
  <2>1. PICK k \in DOMAIN timers : p \in timers[k].waiting BY <1>1, <1>2
  <2>2. Target(second[p]) > jiffies BY <2>1 DEF ClockInv, TimersHeld, TimersAhead
  <2>3. Target(second[p]) <= second[p] /\ Target(second[p]) \in Nat
    <3>1. second[p] \in Nat /\ Word \in Nat BY <1>0, ClockTypes
    <3> QED BY <3>1, TargetFacts
  <2>4. second[p] + elapsed[p] <= jiffies + asked[p] BY <1>2 DEF ClockInv, NotLate
  <2> QED BY <2>2, <2>3, <2>4, <1>0, ClockTypes
<1> QED BY <1>0, <1>1, <1>2 DEF NobodyOversleeps, ClockInv, TimersAhead

\* Whoever wakes has slept as long as it asked for, if no product wrapped.
LEMMA WakeStep ==
    ASSUME ClockInv, [ClockNext]_clockVars, NEW p \in Proc,
           stage[p] # "awake", stage'[p] = "awake", ~wrapped[p]
    PROVE  elapsed'[p] >= asked[p]
<1>0. ClockTypeOK BY DEF ClockInv
<1>1. /\ Target(second[p]) = second[p]
      /\ elapsed[p] >= asked[p] \/ second[p] + elapsed[p] = jiffies + asked[p]
  BY DEF ClockInv, NotEarly
<1>2. /\ second[p] \in Nat /\ asked[p] \in Nat /\ asked[p] <= MaxSleep /\ MaxSleep \in Nat
      /\ elapsed[p] \in Nat /\ jiffies \in Nat
  BY <1>0, ClockTypes
<1>3. CASE Tick
  <2>1. elapsed'[p] = IF elapsed[p] > MaxSleep THEN elapsed[p] ELSE elapsed[p] + 1
    BY <1>3 DEF Tick
  <2>2. CASE elapsed[p] >= asked[p] BY <2>1, <2>2, <1>2
  <2>3. CASE elapsed[p] < asked[p]
    <3>1. timers # <<>> /\ Head(timers).target = Wrap(jiffies + 1) /\ p \in Head(timers).waiting
      BY <1>3 DEF Tick
    <3>2. Wrap(jiffies + 1) = jiffies + 1 BY <3>1, NoWrapAsleep
    <3>3. 1 \in DOMAIN timers /\ Head(timers) = timers[1]
      BY <3>1, <1>0, ClockTypes, EmptySeq, HeadTailProperties
    <3>4. second[p] = jiffies + 1 BY <3>1, <3>2, <3>3, <1>1 DEF ClockInv, TimersHeld
    <3>5. elapsed'[p] = elapsed[p] + 1 BY <2>1, <2>3, <1>2
    <3> QED BY <3>4, <3>5, <2>3, <1>1, <1>2
  <2> QED BY <2>2, <2>3, <1>2
<1>4. ASSUME NEW q \in Proc, SleepUntil(q) PROVE elapsed'[p] >= asked[p]
  <2>1. stage'[q] = IF Target(second[q]) > jiffies THEN "asleep" ELSE "awake"
    BY <1>4, <1>0 DEF SleepUntil, ClockTypeOK
  <2>2. q # p => stage'[p] = stage[p] BY <1>4, <1>0 DEF SleepUntil, ClockTypeOK
  <2>3. q = p /\ ~(second[p] > jiffies) BY <2>1, <2>2, <1>1
  <2>4. elapsed' = elapsed BY <1>4 DEF SleepUntil
  <2> QED BY <2>3, <2>4, <1>1, <1>2
<1>5. ASSUME NEW q \in Proc, NEW ms \in 0 .. MaxSleep, SleepFor(q, ms) PROVE FALSE
  BY <1>5, <1>0 DEF SleepFor, ClockTypeOK
<1>6. CASE UNCHANGED clockVars BY <1>6 DEF clockVars, sleeper
<1> QED BY <1>3, <1>4, <1>5, <1>6 DEF ClockNext

-----------------------------------------------------------------------------

\* The order and the contents of the list of timers, and how far each sleeper's
\* end is away, always hold.
THEOREM ClockInvariance == ClockSpec => []ClockInv
<1>1. ClockInit => ClockInv BY InitClockInv
<1>2. ClockInv /\ [ClockNext]_clockVars => ClockInv' BY NextClockInv
<1> QED BY <1>1, <1>2, PTL DEF ClockSpec

\* sleepUntil and tick of process.cc: nobody sleeps longer than it asked for, unless
\* jiffies wrap between the two steps of its call, whatever the width of a word.
THEOREM SleepersWake == ClockSpec => []NobodyOversleeps
BY ClockInvariance, ClockInvImplies, PTL

\* milliseconds and sleepUntil: a sleep that ends early had a product that did not
\* fit a word, and once jiffies * 1000 do not fit nobody sleeps.
THEOREM EarlyExplained == ClockSpec => EarlyOnlyAfterWrap
<1>1. ClockInv /\ [ClockNext]_clockVars =>
        [\A p \in Proc : stage[p] # "awake" /\ stage'[p] = "awake" /\ elapsed'[p] < asked[p]
                           => wrapped[p]]_clockVars
  <2> SUFFICES ASSUME ClockInv, [ClockNext]_clockVars, NEW p \in Proc, stage[p] # "awake",
                      stage'[p] = "awake", elapsed'[p] < asked[p], ~wrapped[p]
               PROVE  UNCHANGED clockVars
    OBVIOUS
  <2>1. elapsed'[p] >= asked[p] BY WakeStep
  <2>2. ClockTypeOK /\ ClockTypeOK' BY NextClockInv DEF ClockInv
  <2>3. asked[p] \in Nat /\ elapsed'[p] \in Nat
    <3>1. MaxSleep \in Nat BY WordAssumption
    <3> QED BY <2>2, <3>1 DEF ClockTypeOK
  <2> QED BY <2>1, <2>3
<1>2. ClockInv => (jiffies * PerSecond >= Word => timers = <<>>) BY WrapEmpty
<1> QED BY <1>1, <1>2, ClockInvariance, PTL DEF ClockSpec, EarlyOnlyAfterWrap
-----------------------------------------------------------------------------
(***************************************************************************)
(* The keys of a program.                                                  *)
(***************************************************************************)

\* The accesses of an addition and of a removal that matter to each other.
BeforeLink == {"test", "load", "link"}
AfterLink == {"tail", "head", "first"}
Taking == {"advance", "check", "clear", "free"}
PastFirst == {"check", "clear", "free"}

\* Links lead to later keys, and nothing leads to a key that was not pressed.
LinksAhead ==
    LET key == manager.key
    IN  /\ first <= key /\ last <= key
        /\ \A n \in Node : next[n] # Null => n < next[n] /\ next[n] <= key
        /\ access[Manager] \in BeforeLink \cup {"tail"} => last < key
        /\ access[Manager] = "link" => manager.loaded \in 0 .. key - 1

\* Whatever overlapped, the node that is being removed is later than all that
\* were, or the next step finds out that it was given back.
RemovalAhead ==
    /\ freed = Range(taken)
    /\ \A j, k \in DOMAIN taken : j < k => taken[j] < taken[k]
    /\ \A n \in freed : n <= manager.key
    /\ access[Program] \in {"pop", "next", "advance"} => first # Null
    /\ access[Program] \in {"next", "advance"} => program.node = first
    /\ access[Manager] = "first" => first = Null
    /\ access[Program] = "advance" /\ program.after # Null =>
          program.after \in Node /\ program.node < program.after /\ program.after <= manager.key
    /\ access[Program] \in Taking /\ ~corrupted =>
          program.node \in Node /\ program.node <= manager.key /\ \A n \in freed : n < program.node
    /\ access[Program] \in PastFirst => first = Null \/ first \in freed \/ first >= program.node
    /\ access[Program] \notin Taking => first = Null \/ first \in freed \/ \A n \in freed : n < first

\* The keys that the links lead over: from the first one that was not removed
\* to the last one that was linked.
FrontKey == Len(taken) + (IF access[Program] \in PastFirst THEN 2 ELSE 1)
BackKey == IF \/ access[Manager] \in BeforeLink
              \/ (access[Manager] \in AfterLink /\ first = Null)
           THEN manager.key - 1 ELSE manager.key

\* Where last points: StoreLast comes after Link, ClearLast after Advance.
LastExact ==
    last = IF access[Manager] = "tail" THEN IF first = Null THEN Null ELSE manager.key - 1
           ELSE IF FrontKey <= BackKey \/ access[Program] \in {"check", "clear"} \/ access[Manager] \in {"head", "first"}
                THEN IF access[Manager] \in BeforeLink THEN manager.key - 1 ELSE manager.key
                ELSE Null

\* The size counts a key from its last access on, a removed one until then.
SizeExact ==
    /\ ~Miscount
    /\ size = manager.key - (IF access[Manager] \in BeforeLink \cup AfterLink \cup {"count", "unlock"}
                             THEN 1 ELSE 0)
              - Len(taken) + (IF access[Program] \in {"size", "store"} THEN 1 ELSE 0)
    /\ access[Manager] = "unlock" => manager.loaded = size
    /\ access[Program] = "store" => program.after = size

\* What holds at each access while no addition overlapped the removal of the
\* only node.
Undisturbed ==
    /\ ~Overlap
    /\ access[Manager] # "killed" /\ (corrupted => access[Program] = "gone")
    /\ Adding => manager.key >= 1
    /\ taken = [k \in 1 .. Len(taken) |-> k]
    /\ FrontKey <= BackKey + 1
    /\ first = IF FrontKey <= BackKey THEN FrontKey ELSE Null
    /\ LastExact
    /\ \A n \in Node : n >= FrontKey => next[n] = IF n < BackKey THEN n + 1 ELSE Null
    /\ access[Program] \in {"next"} \cup Taking => program.node = Len(taken) + 1
    /\ access[Program] = "advance" => program.after = IF FrontKey = BackKey THEN Null ELSE FrontKey + 1
    /\ access[Program] \in PastFirst => program.after = first
    /\ access[Program] = "clear" => first = Null
    /\ access[Manager] \in {"load", "link"} => first # Null
    /\ access[Manager] = "link" => manager.loaded = manager.key - 1
    /\ ~miscounted => SizeExact

KeysInv == KeysTypeOK /\ LinksAhead /\ RemovalAhead /\ (~raced => Undisturbed)

-----------------------------------------------------------------------------

LEMMA KeysTypes ==
    ASSUME KeysTypeOK
    PROVE  /\ Manager # Program /\ MaxKeys \in Nat /\ Node = 1 .. MaxKeys /\ Null = 0
           /\ manager.key \in Nat /\ manager.key <= MaxKeys
           /\ first \in Nat /\ first <= MaxKeys /\ last \in Nat /\ last <= MaxKeys /\ size \in Int
           /\ next \in [Node -> Nat] /\ \A n \in Node : next[n] \in Nat /\ next[n] <= MaxKeys
           /\ taken \in Seq(Node) /\ Len(taken) \in Nat /\ DOMAIN taken = 1 .. Len(taken)
           /\ freed \subseteq Node
           /\ program.node \in Nat /\ program.node <= MaxKeys
<1>1. Manager # Program /\ MaxKeys \in Nat /\ Node = 1 .. MaxKeys /\ Null = 0
  BY KeysAssumption DEF Node, Null
<1>2. manager.key \in 0 .. MaxKeys BY DEF KeysTypeOK
<1>3. /\ first \in Node \cup {Null} /\ last \in Node \cup {Null} /\ size \in Int
      /\ next \in [Node -> Node \cup {Null}] /\ freed \subseteq Node
      /\ program.node \in Node \cup {Null}
  BY DEF KeysTypeOK
<1>4. taken \in Seq(Node) /\ Len(taken) \in Nat /\ DOMAIN taken = 1 .. Len(taken)
  BY LenProperties DEF KeysTypeOK
<1>5. \A n \in Node : next[n] \in Nat /\ next[n] <= MaxKeys BY <1>1, <1>3
<1>6. next \in [Node -> Nat] BY <1>1, <1>3
<1> QED BY <1>1, <1>2, <1>3, <1>4, <1>5, <1>6

\* Where the processes are after one of them went on.
LEMMA GotoFacts ==
    ASSUME KeysTypeOK, NEW place \in Places
    PROVE  /\ GotoAccess(Manager, place) =>
                 /\ access' \in [{Manager, Program} -> Places]
                 /\ access'[Manager] = place /\ access'[Program] = access[Program]
           /\ GotoAccess(Program, place) =>
                 /\ access' \in [{Manager, Program} -> Places]
                 /\ access'[Program] = place /\ access'[Manager] = access[Manager]
BY KeysAssumption DEF KeysTypeOK, GotoAccess

\* What Note says of the states in which nothing overlapped.
LEMMA NoteFacts ==
    ASSUME KeysTypeOK, Note
    PROVE  /\ raced' \in BOOLEAN /\ miscounted' \in BOOLEAN
           /\ ~raced' => ~raced /\ ~Overlap'
           /\ ~miscounted' => ~miscounted /\ ~Miscount'
BY DEF KeysTypeOK, Note, Overlap, Miscount

LEMMA DownTypes ==
    ASSUME KeysTypeOK, NEW p \in {Manager, Program}, KeyMutex!Down(p, "keyMutex")
    PROVE  KeyMutex!SemTypeOK'
<1>1. /\ permits \in [{"keyMutex"} -> Nat] /\ sleepers \in [{"keyMutex"} -> Seq({Manager, Program})]
  BY DEF KeysTypeOK, KeyMutex!SemTypeOK
<1> QED BY <1>1 DEF KeyMutex!Down, KeyMutex!SemTypeOK

LEMMA UpTypes ==
    ASSUME KeysTypeOK, KeyMutex!Up("keyMutex")
    PROVE  KeyMutex!SemTypeOK'
<1>1. /\ permits \in [{"keyMutex"} -> Nat] /\ sleepers \in [{"keyMutex"} -> Seq({Manager, Program})]
  BY DEF KeysTypeOK, KeyMutex!SemTypeOK
<1>2. sleepers["keyMutex"] # <<>> => Tail(sleepers["keyMutex"]) \in Seq({Manager, Program})
  BY <1>1, TailFacts
<1>3. CASE sleepers["keyMutex"] = <<>> BY <1>1, <1>3 DEF KeyMutex!Up, KeyMutex!SemTypeOK
<1>4. CASE sleepers["keyMutex"] # <<>> BY <1>1, <1>2, <1>4 DEF KeyMutex!Up, KeyMutex!SemTypeOK
<1> QED BY <1>3, <1>4

-----------------------------------------------------------------------------

\* A key is pressed: it is the latest one, and nothing leads to it yet.
LEMMA QueueKeyPressStep ==
    ASSUME KeysInv, QueueKeyPress, Note
    PROVE  KeysInv'
<1>0. KeysTypeOK /\ LinksAhead /\ RemovalAhead BY DEF KeysInv
<1>1. /\ first' = first /\ last' = last /\ size' = size /\ next' = next /\ program' = program
      /\ freed' = freed /\ taken' = taken /\ access[Manager] = "idle"
  BY DEF QueueKeyPress, AtAccess, queue
<1>2. CASE access[Program] = "gone"
  <2>1. corrupted' = TRUE /\ access' = access /\ manager' = manager /\ UNCHANGED mutex
    BY <1>2 DEF QueueKeyPress
  <2>2. KeysTypeOK' BY <2>1, <1>0, <1>1, NoteFacts DEF KeysTypeOK, mutex, KeyMutex!SemTypeOK
  <2>3. LinksAhead' BY <2>1, <1>0, <1>1 DEF LinksAhead
  <2>4. RemovalAhead' BY <2>1, <1>0, <1>1 DEF RemovalAhead
  <2>5. ASSUME ~raced' PROVE Undisturbed'
    BY <2>1, <2>5, <1>0, <1>1, <1>2, NoteFacts
       DEF KeysInv, Undisturbed, LastExact, SizeExact, FrontKey, BackKey, Adding, Overlap, Miscount
  <2> QED BY <2>2, <2>3, <2>4, <2>5 DEF KeysInv
<1>3. CASE access[Program] # "gone"
  <2>1. /\ KeyMutex!Down(Manager, "keyMutex") /\ manager' = [manager EXCEPT !.key = @ + 1]
        /\ GotoAccess(Manager, "test") /\ corrupted' = corrupted /\ manager.key < MaxKeys
    BY <1>3 DEF QueueKeyPress, AtAccess
  <2>2. /\ access' \in [{Manager, Program} -> Places] /\ access'[Manager] = "test"
        /\ access'[Program] = access[Program]
    BY <2>1, <1>0, GotoFacts DEF Places
  <2>3. /\ manager'.key = manager.key + 1 /\ manager'.loaded = manager.loaded
        /\ manager' \in [key : 0 .. MaxKeys, loaded : Int]
    <3>1. manager \in [key : 0 .. MaxKeys, loaded : Int] BY <1>0 DEF KeysTypeOK
    <3>2. manager.key \in Nat /\ manager.key + 1 <= MaxKeys /\ MaxKeys \in Nat
      BY <2>1, <1>0, KeysTypes
    <3> QED BY <2>1, <3>1, <3>2
  <2>4. KeysTypeOK' BY <2>1, <2>2, <2>3, <1>0, <1>1, NoteFacts, DownTypes DEF KeysTypeOK
  <2>5. LinksAhead' BY <2>2, <2>3, <1>0, <1>1, KeysTypes DEF LinksAhead, BeforeLink
  <2>6. RemovalAhead' BY <2>1, <2>2, <2>3, <1>0, <1>1, KeysTypes DEF RemovalAhead
  <2>7. ASSUME ~raced' PROVE Undisturbed'
    <3>1. Undisturbed /\ ~Overlap' /\ (~miscounted' => ~miscounted) /\ ~corrupted
      BY <2>7, <1>0, <1>3, NoteFacts DEF KeysInv, Undisturbed
    <3>2. FrontKey' = FrontKey /\ BackKey' = BackKey
      BY <2>2, <2>3, <1>0, <1>1, KeysTypes DEF FrontKey, BackKey, BeforeLink, AfterLink
    <3>3. LastExact' BY <3>1, <3>2, <2>2, <2>3, <1>0, <1>1, KeysTypes
      DEF Undisturbed, LastExact, BeforeLink, BackKey, AfterLink
    <3>4. ~miscounted' => SizeExact' BY <3>1, <2>2, <2>3, <1>0, <1>1, KeysTypes
      DEF Undisturbed, SizeExact, Miscount, BeforeLink, AfterLink
    <3> QED
      BY <3>1, <3>2, <3>3, <3>4, <2>1, <2>2, <2>3, <1>0, <1>1, KeysTypes DEF Undisturbed, Adding
  <2> QED BY <2>4, <2>5, <2>6, <2>7 DEF KeysInv
<1> QED BY <1>2, <1>3

\* last is read: unless a removal of the only node is under way, it is null just
\* when the queue is empty.
LEMMA TestLastStep ==
    ASSUME KeysInv, TestLast, Note
    PROVE  KeysInv'
<1>0. KeysTypeOK /\ LinksAhead /\ RemovalAhead BY DEF KeysInv
<1>1. /\ first' = first /\ last' = last /\ size' = size /\ next' = next
      /\ program' = program
      /\ freed' = freed /\ corrupted' = corrupted
      /\ taken' = taken /\ UNCHANGED mutex
      /\ access[Manager] = "test" /\ ~corrupted
  BY DEF TestLast, AtAccess, queue, heap
<1>2. /\ access' \in [{Manager, Program} -> Places] /\ access'[Program] = access[Program]
      /\ access'[Manager] = IF last = Null THEN "tail" ELSE "load"
  BY <1>0, GotoFacts DEF TestLast, Places
<1>3. manager' = manager BY DEF TestLast
<1>4. KeysTypeOK'
  BY <1>1, <1>2, <1>3, <1>0, NoteFacts, KeysTypes
     DEF TestLast, KeysTypeOK, mutex, KeyMutex!SemTypeOK
<1>5. LinksAhead' BY <1>1, <1>2, <1>3, <1>0, KeysTypes DEF LinksAhead, BeforeLink
<1>6. RemovalAhead' BY <1>1, <1>2, <1>3, <1>0, KeysTypes DEF RemovalAhead
<1>7. ASSUME ~raced' PROVE Undisturbed'
  <2>0. Undisturbed /\ ~Overlap' /\ (~miscounted' => ~miscounted /\ ~Miscount')
    BY <1>7, <1>0, NoteFacts DEF KeysInv
  <2>1. FrontKey' = FrontKey /\ FrontKey \in Nat \ {0}
    BY <1>1, <1>2, <1>0, KeysTypes DEF FrontKey, PastFirst
  <2>2. (last = Null) = (first = Null)
    BY <2>0, <1>1, <1>2, <1>0, KeysTypes
       DEF Undisturbed, LastExact, Overlap, Taking, PastFirst, BackKey, BeforeLink, AfterLink, FrontKey, Adding
  <2>3. BackKey' = BackKey
    BY <2>0, <2>2, <1>1, <1>2, <1>3, <1>0, KeysTypes DEF BackKey, BeforeLink, AfterLink
  <2>4. LastExact'
    BY <2>0, <2>1, <2>3, <2>2, <1>1, <1>2, <1>3, <1>0, KeysTypes
       DEF Undisturbed, LastExact, BeforeLink, BackKey, AfterLink, Adding
  <2>5. ~miscounted' => SizeExact'
    BY <2>0, <2>2, <1>1, <1>2, <1>3, <1>0, KeysTypes
       DEF Undisturbed, SizeExact, Miscount, BeforeLink, AfterLink
  <2> QED
    BY <2>0, <2>1, <2>2, <2>3, <2>4, <2>5, <1>1, <1>2, <1>3, <1>0, KeysTypes
       DEF Undisturbed, Adding
<1> QED BY <1>4, <1>5, <1>6, <1>7 DEF KeysInv

\* last is loaded as the node that the new one will be linked to.
LEMMA LoadLastStep ==
    ASSUME KeysInv, LoadLast, Note
    PROVE  KeysInv'
<1>0. KeysTypeOK /\ LinksAhead /\ RemovalAhead BY DEF KeysInv
<1>1. /\ first' = first /\ last' = last /\ size' = size /\ next' = next
      /\ program' = program
      /\ freed' = freed /\ corrupted' = corrupted
      /\ taken' = taken /\ UNCHANGED mutex
      /\ access[Manager] = "load" /\ ~corrupted
  BY DEF LoadLast, AtAccess, queue, heap
<1>2. /\ access' \in [{Manager, Program} -> Places] /\ access'[Program] = access[Program]
      /\ access'[Manager] = "link"
  BY <1>0, GotoFacts DEF LoadLast, Places
<1>3. /\ manager'.key = manager.key /\ manager'.loaded = last
      /\ manager' \in [key : 0 .. MaxKeys, loaded : Int]
  <2>1. manager \in [key : 0 .. MaxKeys, loaded : Int] BY <1>0 DEF KeysTypeOK
  <2> QED BY <2>1, <1>0, KeysTypes DEF LoadLast
<1>4. KeysTypeOK'
  BY <1>1, <1>2, <1>3, <1>0, NoteFacts, KeysTypes
     DEF LoadLast, KeysTypeOK, mutex, KeyMutex!SemTypeOK
<1>5. LinksAhead' BY <1>1, <1>2, <1>3, <1>0, KeysTypes DEF LinksAhead, BeforeLink
<1>6. RemovalAhead' BY <1>1, <1>2, <1>3, <1>0, KeysTypes DEF RemovalAhead
<1>7. ASSUME ~raced' PROVE Undisturbed'
  <2>0. Undisturbed /\ ~Overlap' /\ (~miscounted' => ~miscounted /\ ~Miscount')
    BY <1>7, <1>0, NoteFacts DEF KeysInv
  <2>1. FrontKey' = FrontKey /\ FrontKey \in Nat \ {0}
    BY <1>1, <1>2, <1>0, KeysTypes DEF FrontKey, PastFirst
  <2>2. last = manager.key - 1
    BY <2>0, <1>1, <1>0, KeysTypes DEF Undisturbed, LastExact, BackKey, BeforeLink, Adding
  <2>3. BackKey' = BackKey
    BY <2>0, <2>2, <1>1, <1>2, <1>3, <1>0, KeysTypes DEF BackKey, BeforeLink, AfterLink
  <2>4. LastExact'
    BY <2>0, <2>1, <2>3, <2>2, <1>1, <1>2, <1>3, <1>0, KeysTypes
       DEF Undisturbed, LastExact, BeforeLink, BackKey, AfterLink, Adding
  <2>5. ~miscounted' => SizeExact'
    BY <2>0, <2>2, <1>1, <1>2, <1>3, <1>0, KeysTypes
       DEF Undisturbed, SizeExact, Miscount, BeforeLink, AfterLink
  <2> QED
    BY <2>0, <2>1, <2>2, <2>3, <2>4, <2>5, <1>1, <1>2, <1>3, <1>0, KeysTypes
       DEF Undisturbed, Adding
<1> QED BY <1>4, <1>5, <1>6, <1>7 DEF KeysInv

\* The last node is linked to the new one: it was not given back.
LEMMA LinkStep ==
    ASSUME KeysInv, Link, Note
    PROVE  KeysInv'
<1>0. KeysTypeOK /\ LinksAhead /\ RemovalAhead BY DEF KeysInv
<1>1. /\ first' = first /\ last' = last /\ size' = size
      /\ program' = program
      /\ taken' = taken /\ UNCHANGED mutex
      /\ freed' = freed /\ corrupted' = (manager.loaded \in freed)
      /\ access[Manager] = "link" /\ ~corrupted
  BY DEF Link, AtAccess, queue, heap
<1>2. /\ access' \in [{Manager, Program} -> Places] /\ access'[Program] = access[Program]
      /\ access'[Manager] = IF manager.loaded = Null THEN "killed" ELSE "tail"
  BY <1>0, GotoFacts DEF Link, Places
<1>3. /\ manager' = manager /\ manager.loaded \in 0 .. manager.key - 1
      /\ next' \in [Node -> Node \cup {Null}]
      /\ \A n \in Node : next'[n] = IF n = manager.loaded THEN manager.key ELSE next[n]
  <2>1. manager.loaded \in 0 .. manager.key - 1 BY <1>0, <1>1 DEF LinksAhead
  <2>2. manager.loaded # Null => manager.loaded \in Node /\ manager.key \in Node
    BY <2>1, <1>0, KeysTypes
  <2>3. next \in [Node -> Node \cup {Null}] BY <1>0 DEF KeysTypeOK
  <2>4. \A n \in Node : n # Null BY <1>0, KeysTypes
  <2> QED BY <2>1, <2>2, <2>3, <2>4 DEF Link
<1>4. KeysTypeOK'
  BY <1>1, <1>2, <1>3, <1>0, NoteFacts, KeysTypes
     DEF Link, KeysTypeOK, mutex, KeyMutex!SemTypeOK
<1>5. LinksAhead'
  <2>1. \A n \in Node : next'[n] # Null => n < next'[n] /\ next'[n] <= manager.key
    BY <1>1, <1>3, <1>0, KeysTypes DEF LinksAhead
  <2>2. last < manager.key BY <1>1, <1>0 DEF LinksAhead, BeforeLink
  <2> QED BY <2>1, <2>2, <1>1, <1>2, <1>3, <1>0 DEF LinksAhead, BeforeLink
<1>6. RemovalAhead' BY <1>1, <1>2, <1>3, <1>0, KeysTypes DEF RemovalAhead
<1>7. ASSUME ~raced' PROVE Undisturbed'
  <2>0. Undisturbed /\ ~Overlap' /\ (~miscounted' => ~miscounted /\ ~Miscount')
    BY <1>7, <1>0, NoteFacts DEF KeysInv
  <2>1. FrontKey' = FrontKey /\ FrontKey \in Nat \ {0}
    BY <1>1, <1>2, <1>0, KeysTypes DEF FrontKey, PastFirst
  <2>2. BackKey = manager.key - 1 BY <1>1 DEF BackKey, BeforeLink
  <2>3. manager.loaded = manager.key - 1 /\ first # Null BY <2>0, <1>1 DEF Undisturbed
  <2>4. access[Program] = "advance" => program.after = FrontKey + 1 /\ FrontKey < manager.key - 1
    BY <2>0, <2>1, <2>2, <2>3, <1>1, <1>0, KeysTypes DEF Undisturbed, Overlap, Taking, PastFirst
  <2>5. manager.loaded # Null /\ manager.loaded \notin freed
    <3>1. FrontKey <= manager.key - 1 /\ Len(taken) < FrontKey
      BY <2>0, <2>1, <2>2, <2>3, <1>1, <1>0, KeysTypes DEF Undisturbed, FrontKey
    <3>2. \A n \in freed : n <= Len(taken)
      BY <2>0, <1>0, KeysTypes DEF Undisturbed, RemovalAhead, Range
    <3> QED BY <3>1, <3>2, <2>1, <2>3, <1>0, KeysTypes
  <2>6. BackKey' = manager.key
    BY <2>0, <2>2, <2>3, <2>4, <2>5, <1>1, <1>2, <1>3, <1>0, KeysTypes
       DEF BackKey, BeforeLink, AfterLink, Undisturbed
  <2>7. LastExact'
    BY <2>0, <2>1, <2>6, <2>2, <2>3, <2>4, <2>5, <1>1, <1>2, <1>3, <1>0, KeysTypes
       DEF Undisturbed, LastExact, BeforeLink, BackKey, AfterLink, Adding
  <2>8. ~miscounted' => SizeExact'
    BY <2>0, <2>2, <2>3, <2>4, <2>5, <1>1, <1>2, <1>3, <1>0, KeysTypes
       DEF Undisturbed, SizeExact, Miscount, BeforeLink, AfterLink
  <2>9. \A n \in Node : n >= FrontKey' => next'[n] = IF n < BackKey' THEN n + 1 ELSE Null
    <3>1. \A n \in Node : n >= FrontKey => next[n] = IF n < manager.key - 1 THEN n + 1 ELSE Null
      BY <2>0, <2>2 DEF Undisturbed
    <3>2. \A n \in Node : n >= FrontKey => next'[n] = IF n < manager.key THEN n + 1 ELSE Null
      BY <3>1, <2>1, <2>3, <1>3, <1>0, KeysTypes
    <3> QED BY <3>2, <2>1, <2>6
  <2>10. FrontKey' <= BackKey' + 1 /\ first' = IF FrontKey' <= BackKey' THEN FrontKey' ELSE Null
    BY <2>0, <2>1, <2>2, <2>3, <2>6, <1>1, <1>3, <1>0, KeysTypes DEF Undisturbed
  <2>11. access'[Program] = "advance" => program'.after = IF FrontKey' = BackKey' THEN Null ELSE FrontKey' + 1
    BY <2>1, <2>4, <2>6, <1>1, <1>2, <1>3, <1>0, KeysTypes
  <2> QED
    BY <2>0, <2>1, <2>2, <2>3, <2>4, <2>5, <2>6, <2>7, <2>8, <2>9, <2>10, <2>11, <1>1, <1>2,
       <1>3, <1>0, KeysTypes DEF Undisturbed, Adding
<1> QED BY <1>4, <1>5, <1>6, <1>7 DEF KeysInv

\* last becomes the new node.
LEMMA StoreLastStep ==
    ASSUME KeysInv, StoreLast, Note
    PROVE  KeysInv'
<1>0. KeysTypeOK /\ LinksAhead /\ RemovalAhead BY DEF KeysInv
<1>1. /\ first' = first /\ size' = size /\ next' = next
      /\ program' = program
      /\ freed' = freed /\ corrupted' = corrupted
      /\ taken' = taken /\ UNCHANGED mutex
      /\ access[Manager] = "tail" /\ ~corrupted
  BY DEF StoreLast, AtAccess, queue, heap
<1>2. /\ access' \in [{Manager, Program} -> Places] /\ access'[Program] = access[Program]
      /\ access'[Manager] = "head"
  BY <1>0, GotoFacts DEF StoreLast, Places
<1>3. manager' = manager /\ last' = manager.key BY DEF StoreLast
<1>4. KeysTypeOK'
  BY <1>1, <1>2, <1>3, <1>0, NoteFacts, KeysTypes
     DEF StoreLast, KeysTypeOK, mutex, KeyMutex!SemTypeOK
<1>5. LinksAhead' BY <1>1, <1>2, <1>3, <1>0, KeysTypes DEF LinksAhead, BeforeLink
<1>6. RemovalAhead' BY <1>1, <1>2, <1>3, <1>0, KeysTypes DEF RemovalAhead
<1>7. ASSUME ~raced' PROVE Undisturbed'
  <2>0. Undisturbed /\ ~Overlap' /\ (~miscounted' => ~miscounted /\ ~Miscount')
    BY <1>7, <1>0, NoteFacts DEF KeysInv
  <2>1. FrontKey' = FrontKey /\ FrontKey \in Nat \ {0}
    BY <1>1, <1>2, <1>0, KeysTypes DEF FrontKey, PastFirst
  <2>2. BackKey' = BackKey
    BY <2>0, <1>1, <1>2, <1>3, <1>0, KeysTypes DEF BackKey, BeforeLink, AfterLink
  <2>3. LastExact'
    BY <2>0, <2>1, <2>2, <1>1, <1>2, <1>3, <1>0, KeysTypes
       DEF Undisturbed, LastExact, BeforeLink, BackKey, AfterLink, Adding
  <2>4. ~miscounted' => SizeExact'
    BY <2>0, <1>1, <1>2, <1>3, <1>0, KeysTypes
       DEF Undisturbed, SizeExact, Miscount, BeforeLink, AfterLink
  <2> QED
    BY <2>0, <2>1, <2>2, <2>3, <2>4, <1>1, <1>2, <1>3, <1>0, KeysTypes DEF Undisturbed, Adding
<1> QED BY <1>4, <1>5, <1>6, <1>7 DEF KeysInv

\* first is null just when the queue was empty.
LEMMA TestFirstStep ==
    ASSUME KeysInv, TestFirst, Note
    PROVE  KeysInv'
<1>0. KeysTypeOK /\ LinksAhead /\ RemovalAhead BY DEF KeysInv
<1>1. /\ first' = first /\ last' = last /\ size' = size /\ next' = next
      /\ program' = program
      /\ freed' = freed /\ corrupted' = corrupted
      /\ taken' = taken /\ UNCHANGED mutex
      /\ access[Manager] = "head" /\ ~corrupted
  BY DEF TestFirst, AtAccess, queue, heap
<1>2. /\ access' \in [{Manager, Program} -> Places] /\ access'[Program] = access[Program]
      /\ access'[Manager] = IF first = Null THEN "first" ELSE "count"
  BY <1>0, GotoFacts DEF TestFirst, Places
<1>3. manager' = manager BY DEF TestFirst
<1>4. KeysTypeOK'
  BY <1>1, <1>2, <1>3, <1>0, NoteFacts, KeysTypes
     DEF TestFirst, KeysTypeOK, mutex, KeyMutex!SemTypeOK
<1>5. LinksAhead' BY <1>1, <1>2, <1>3, <1>0, KeysTypes DEF LinksAhead, BeforeLink
<1>6. RemovalAhead' BY <1>1, <1>2, <1>3, <1>0, KeysTypes DEF RemovalAhead
<1>7. ASSUME ~raced' PROVE Undisturbed'
  <2>0. Undisturbed /\ ~Overlap' /\ (~miscounted' => ~miscounted /\ ~Miscount')
    BY <1>7, <1>0, NoteFacts DEF KeysInv
  <2>1. FrontKey' = FrontKey /\ FrontKey \in Nat \ {0}
    BY <1>1, <1>2, <1>0, KeysTypes DEF FrontKey, PastFirst
  <2>2. BackKey' = BackKey
    BY <2>0, <1>1, <1>2, <1>3, <1>0, KeysTypes DEF BackKey, BeforeLink, AfterLink
  <2>3. LastExact'
    BY <2>0, <2>1, <2>2, <1>1, <1>2, <1>3, <1>0, KeysTypes
       DEF Undisturbed, LastExact, BeforeLink, BackKey, AfterLink, Adding
  <2>4. ~miscounted' => SizeExact'
    BY <2>0, <1>1, <1>2, <1>3, <1>0, KeysTypes
       DEF Undisturbed, SizeExact, Miscount, BeforeLink, AfterLink
  <2> QED
    BY <2>0, <2>1, <2>2, <2>3, <2>4, <1>1, <1>2, <1>3, <1>0, KeysTypes DEF Undisturbed, Adding
<1> QED BY <1>4, <1>5, <1>6, <1>7 DEF KeysInv

\* The new node of an empty queue becomes the first one.
LEMMA StoreFirstStep ==
    ASSUME KeysInv, StoreFirst, Note
    PROVE  KeysInv'
<1>0. KeysTypeOK /\ LinksAhead /\ RemovalAhead BY DEF KeysInv
<1>1. /\ last' = last /\ size' = size /\ next' = next
      /\ program' = program
      /\ freed' = freed /\ corrupted' = corrupted
      /\ taken' = taken /\ UNCHANGED mutex
      /\ access[Manager] = "first" /\ ~corrupted
  BY DEF StoreFirst, AtAccess, queue, heap
<1>2. /\ access' \in [{Manager, Program} -> Places] /\ access'[Program] = access[Program]
      /\ access'[Manager] = "count"
  BY <1>0, GotoFacts DEF StoreFirst, Places
<1>3. manager' = manager /\ first' = manager.key BY DEF StoreFirst
<1>4. KeysTypeOK'
  BY <1>1, <1>2, <1>3, <1>0, NoteFacts, KeysTypes
     DEF StoreFirst, KeysTypeOK, mutex, KeyMutex!SemTypeOK
<1>5. LinksAhead' BY <1>1, <1>2, <1>3, <1>0, KeysTypes DEF LinksAhead, BeforeLink
<1>6. RemovalAhead'
  <2>1. first = Null /\ access[Program] \notin {"pop", "next", "advance"}
    BY <1>0, <1>1 DEF RemovalAhead
  <2>2. access[Program] \in PastFirst => manager.key >= program.node
    BY <1>0, <1>1, KeysTypes DEF RemovalAhead, PastFirst, Taking
  <2>3. manager.key \in freed \/ \A n \in freed : n < manager.key
    BY <1>0, KeysTypes DEF RemovalAhead
  <2> QED BY <2>1, <2>2, <2>3, <1>1, <1>2, <1>3, <1>0 DEF RemovalAhead
<1>7. ASSUME ~raced' PROVE Undisturbed'
  <2>0. Undisturbed /\ ~Overlap' /\ (~miscounted' => ~miscounted /\ ~Miscount')
    BY <1>7, <1>0, NoteFacts DEF KeysInv
  <2>1. FrontKey' = FrontKey /\ FrontKey \in Nat \ {0}
    BY <1>1, <1>2, <1>0, KeysTypes DEF FrontKey, PastFirst
  <2>2. access[Program] \notin Taking \cup {"next"}
    BY <2>0, <1>1, <1>0 DEF Undisturbed, Overlap, Taking, PastFirst, RemovalAhead
  <2>3. FrontKey = manager.key /\ BackKey = manager.key - 1
    BY <2>0, <2>1, <1>1, <1>0, KeysTypes
       DEF Undisturbed, BackKey, AfterLink, BeforeLink, RemovalAhead, Adding
  <2>4. BackKey' = manager.key
    BY <2>0, <2>2, <2>3, <1>1, <1>2, <1>3, <1>0, KeysTypes DEF BackKey, BeforeLink, AfterLink
  <2>5. LastExact'
    BY <2>0, <2>1, <2>4, <2>2, <2>3, <1>1, <1>2, <1>3, <1>0, KeysTypes
       DEF Undisturbed, LastExact, BeforeLink, BackKey, AfterLink, Adding
  <2>6. ~miscounted' => SizeExact'
    BY <2>0, <2>2, <2>3, <1>1, <1>2, <1>3, <1>0, KeysTypes
       DEF Undisturbed, SizeExact, Miscount, BeforeLink, AfterLink
  <2> QED
    BY <2>0, <2>1, <2>2, <2>3, <2>4, <2>5, <2>6, <1>1, <1>2, <1>3, <1>0, KeysTypes
       DEF Undisturbed, Adding, Taking, PastFirst
<1> QED BY <1>4, <1>5, <1>6, <1>7 DEF KeysInv

\* The size is loaded; it is stored in the next step.
LEMMA LoadSizeStep ==
    ASSUME KeysInv, LoadSize, Note
    PROVE  KeysInv'
<1>0. KeysTypeOK /\ LinksAhead /\ RemovalAhead BY DEF KeysInv
<1>1. /\ first' = first /\ last' = last /\ size' = size /\ next' = next
      /\ program' = program
      /\ freed' = freed /\ corrupted' = corrupted
      /\ taken' = taken /\ UNCHANGED mutex
      /\ access[Manager] = "count" /\ ~corrupted
  BY DEF LoadSize, AtAccess, queue, heap
<1>2. /\ access' \in [{Manager, Program} -> Places] /\ access'[Program] = access[Program]
      /\ access'[Manager] = "unlock"
  BY <1>0, GotoFacts DEF LoadSize, Places
<1>3. /\ manager'.key = manager.key /\ manager'.loaded = size
      /\ manager' \in [key : 0 .. MaxKeys, loaded : Int]
  <2>1. manager \in [key : 0 .. MaxKeys, loaded : Int] BY <1>0 DEF KeysTypeOK
  <2> QED BY <2>1, <1>0, KeysTypes DEF LoadSize
<1>4. KeysTypeOK'
  BY <1>1, <1>2, <1>3, <1>0, NoteFacts, KeysTypes
     DEF LoadSize, KeysTypeOK, mutex, KeyMutex!SemTypeOK
<1>5. LinksAhead' BY <1>1, <1>2, <1>3, <1>0, KeysTypes DEF LinksAhead, BeforeLink
<1>6. RemovalAhead' BY <1>1, <1>2, <1>3, <1>0, KeysTypes DEF RemovalAhead
<1>7. ASSUME ~raced' PROVE Undisturbed'
  <2>0. Undisturbed /\ ~Overlap' /\ (~miscounted' => ~miscounted /\ ~Miscount')
    BY <1>7, <1>0, NoteFacts DEF KeysInv
  <2>1. FrontKey' = FrontKey /\ FrontKey \in Nat \ {0}
    BY <1>1, <1>2, <1>0, KeysTypes DEF FrontKey, PastFirst
  <2>2. BackKey' = BackKey
    BY <2>0, <1>1, <1>2, <1>3, <1>0, KeysTypes DEF BackKey, BeforeLink, AfterLink
  <2>3. LastExact'
    BY <2>0, <2>1, <2>2, <1>1, <1>2, <1>3, <1>0, KeysTypes
       DEF Undisturbed, LastExact, BeforeLink, BackKey, AfterLink, Adding
  <2>4. ~miscounted' => SizeExact'
    BY <2>0, <1>1, <1>2, <1>3, <1>0, KeysTypes
       DEF Undisturbed, SizeExact, Miscount, BeforeLink, AfterLink
  <2> QED
    BY <2>0, <2>1, <2>2, <2>3, <2>4, <1>1, <1>2, <1>3, <1>0, KeysTypes DEF Undisturbed, Adding
<1> QED BY <1>4, <1>5, <1>6, <1>7 DEF KeysInv

\* The size counts the new node.
LEMMA StoreSizeStep ==
    ASSUME KeysInv, StoreSize, Note
    PROVE  KeysInv'
<1>0. KeysTypeOK /\ LinksAhead /\ RemovalAhead BY DEF KeysInv
<1>1. /\ first' = first /\ last' = last /\ next' = next
      /\ program' = program
      /\ freed' = freed /\ corrupted' = corrupted
      /\ taken' = taken
      /\ access[Manager] = "unlock" /\ ~corrupted
  BY DEF StoreSize, AtAccess, queue, heap
<1>2. /\ access' \in [{Manager, Program} -> Places] /\ access'[Program] = access[Program]
      /\ access'[Manager] = "idle"
  BY <1>0, GotoFacts DEF StoreSize, Places
<1>3. manager' = manager /\ size' = manager.loaded + 1 /\ manager.loaded \in Int
  BY <1>0 DEF StoreSize, KeysTypeOK
<1>4. KeysTypeOK'
  <2>1. KeyMutex!SemTypeOK' BY <1>0, UpTypes DEF StoreSize
  <2> QED BY <2>1, <1>1, <1>2, <1>3, <1>0, NoteFacts, KeysTypes DEF KeysTypeOK
<1>5. LinksAhead' BY <1>1, <1>2, <1>3, <1>0, KeysTypes DEF LinksAhead, BeforeLink
<1>6. RemovalAhead' BY <1>1, <1>2, <1>3, <1>0, KeysTypes DEF RemovalAhead
<1>7. ASSUME ~raced' PROVE Undisturbed'
  <2>0. Undisturbed /\ ~Overlap' /\ (~miscounted' => ~miscounted /\ ~Miscount')
    BY <1>7, <1>0, NoteFacts DEF KeysInv
  <2>1. FrontKey' = FrontKey /\ FrontKey \in Nat \ {0}
    BY <1>1, <1>2, <1>0, KeysTypes DEF FrontKey, PastFirst
  <2>2. BackKey' = BackKey
    BY <2>0, <1>1, <1>2, <1>3, <1>0, KeysTypes DEF BackKey, BeforeLink, AfterLink
  <2>3. LastExact'
    BY <2>0, <2>1, <2>2, <1>1, <1>2, <1>3, <1>0, KeysTypes
       DEF Undisturbed, LastExact, BeforeLink, BackKey, AfterLink, Adding
  <2>4. ~miscounted' => SizeExact'
    BY <2>0, <1>1, <1>2, <1>3, <1>0, KeysTypes
       DEF Undisturbed, SizeExact, Miscount, BeforeLink, AfterLink
  <2> QED
    BY <2>0, <2>1, <2>2, <2>3, <2>4, <1>1, <1>2, <1>3, <1>0, KeysTypes DEF Undisturbed, Adding
<1> QED BY <1>4, <1>5, <1>6, <1>7 DEF KeysInv

\* A program that ends leaves its queue as it is.
LEMMA ExitStep ==
    ASSUME KeysInv, Exit, Note
    PROVE  KeysInv'
<1>0. KeysTypeOK /\ LinksAhead /\ RemovalAhead BY DEF KeysInv
<1>1. /\ first' = first /\ last' = last /\ size' = size /\ next' = next
      /\ manager' = manager
      /\ freed' = freed /\ corrupted' = corrupted
      /\ taken' = taken /\ UNCHANGED mutex
      /\ access[Program] = "start" /\ ~corrupted
  BY DEF Exit, AtAccess, queue, heap
<1>2. /\ access' \in [{Manager, Program} -> Places] /\ access'[Manager] = access[Manager]
      /\ access'[Program] = "gone"
  BY <1>0, GotoFacts DEF Exit, Places
<1>3. program' = program BY DEF Exit
<1>4. KeysTypeOK'
  BY <1>1, <1>2, <1>3, <1>0, NoteFacts, KeysTypes
     DEF Exit, KeysTypeOK, mutex, KeyMutex!SemTypeOK
<1>5. LinksAhead' BY <1>1, <1>2, <1>3, <1>0, KeysTypes DEF LinksAhead, BeforeLink
<1>6. RemovalAhead' BY <1>1, <1>2, <1>3, <1>0, KeysTypes DEF RemovalAhead, Taking, PastFirst
<1>7. ASSUME ~raced' PROVE Undisturbed'
  <2>0. Undisturbed /\ ~Overlap' /\ (~miscounted' => ~miscounted /\ ~Miscount')
    BY <1>7, <1>0, NoteFacts DEF KeysInv
  <2>1. FrontKey' = FrontKey /\ FrontKey \in Nat \ {0}
    BY <1>1, <1>2, <1>0, KeysTypes DEF FrontKey, PastFirst
  <2>2. BackKey' = BackKey
    BY <2>0, <1>1, <1>2, <1>3, <1>0, KeysTypes DEF BackKey, BeforeLink, AfterLink
  <2>3. LastExact'
    BY <2>0, <2>1, <2>2, <1>1, <1>2, <1>3, <1>0, KeysTypes
       DEF Undisturbed, LastExact, BeforeLink, BackKey, AfterLink, Adding
  <2>4. ~miscounted' => SizeExact'
    BY <2>0, <1>1, <1>2, <1>3, <1>0, KeysTypes
       DEF Undisturbed, SizeExact, Miscount, BeforeLink, AfterLink
  <2> QED
    BY <2>0, <2>1, <2>2, <2>3, <2>4, <1>1, <1>2, <1>3, <1>0, KeysTypes
       DEF Undisturbed, Adding, Taking, PastFirst
<1> QED BY <1>4, <1>5, <1>6, <1>7 DEF KeysInv

\* The mutex is taken for getKeyPressCount.
LEMMA LockCountStep ==
    ASSUME KeysInv, LockCount, Note
    PROVE  KeysInv'
<1>0. KeysTypeOK /\ LinksAhead /\ RemovalAhead BY DEF KeysInv
<1>1. /\ first' = first /\ last' = last /\ size' = size /\ next' = next
      /\ manager' = manager
      /\ freed' = freed /\ corrupted' = corrupted
      /\ taken' = taken
      /\ access[Program] \in {"start", "idle"} /\ ~corrupted
  BY DEF LockCount, AtAccess, queue, heap
<1>2. /\ access' \in [{Manager, Program} -> Places] /\ access'[Manager] = access[Manager]
      /\ access'[Program] = "count"
  BY <1>0, GotoFacts DEF LockCount, Places
<1>3. program' = program BY DEF LockCount
<1>4. KeysTypeOK'
  <2>1. KeyMutex!SemTypeOK' BY <1>0, DownTypes DEF LockCount
  <2> QED BY <2>1, <1>1, <1>2, <1>3, <1>0, NoteFacts, KeysTypes DEF KeysTypeOK
<1>5. LinksAhead' BY <1>1, <1>2, <1>3, <1>0, KeysTypes DEF LinksAhead, BeforeLink
<1>6. RemovalAhead' BY <1>1, <1>2, <1>3, <1>0, KeysTypes DEF RemovalAhead, Taking, PastFirst
<1>7. ASSUME ~raced' PROVE Undisturbed'
  <2>0. Undisturbed /\ ~Overlap' /\ (~miscounted' => ~miscounted /\ ~Miscount')
    BY <1>7, <1>0, NoteFacts DEF KeysInv
  <2>1. FrontKey' = FrontKey /\ FrontKey \in Nat \ {0}
    BY <1>1, <1>2, <1>0, KeysTypes DEF FrontKey, PastFirst
  <2>2. BackKey' = BackKey
    BY <2>0, <1>1, <1>2, <1>3, <1>0, KeysTypes DEF BackKey, BeforeLink, AfterLink
  <2>3. LastExact'
    BY <2>0, <2>1, <2>2, <1>1, <1>2, <1>3, <1>0, KeysTypes
       DEF Undisturbed, LastExact, BeforeLink, BackKey, AfterLink, Adding
  <2>4. ~miscounted' => SizeExact'
    BY <2>0, <1>1, <1>2, <1>3, <1>0, KeysTypes
       DEF Undisturbed, SizeExact, Miscount, BeforeLink, AfterLink
  <2> QED
    BY <2>0, <2>1, <2>2, <2>3, <2>4, <1>1, <1>2, <1>3, <1>0, KeysTypes
       DEF Undisturbed, Adding, Taking, PastFirst
<1> QED BY <1>4, <1>5, <1>6, <1>7 DEF KeysInv

\* The count may be old when the loop begins.
LEMMA GetKeyPressCountStep ==
    ASSUME KeysInv, GetKeyPressCount, Note
    PROVE  KeysInv'
<1>0. KeysTypeOK /\ LinksAhead /\ RemovalAhead BY DEF KeysInv
<1>1. /\ first' = first /\ last' = last /\ size' = size /\ next' = next
      /\ manager' = manager
      /\ freed' = freed /\ corrupted' = corrupted
      /\ taken' = taken
      /\ access[Program] = "count" /\ ~corrupted
  BY DEF GetKeyPressCount, AtAccess, queue, heap
<1>2. /\ access' \in [{Manager, Program} -> Places] /\ access'[Manager] = access[Manager]
      /\ access'[Program] = IF size > 0 THEN "loop" ELSE "idle"
  BY <1>0, GotoFacts DEF GetKeyPressCount, Places
<1>3. /\ program' \in [node : Node \cup {Null}, after : Int, length : Int, found : Nat]
      /\ program'.node = program.node /\ program'.after = program.after
  <2>1. program \in [node : Node \cup {Null}, after : Int, length : Int, found : Nat]
    BY <1>0 DEF KeysTypeOK
  <2> QED BY <2>1, <1>0, KeysTypes DEF GetKeyPressCount
<1>4. KeysTypeOK'
  <2>1. KeyMutex!SemTypeOK' BY <1>0, UpTypes DEF GetKeyPressCount
  <2> QED BY <2>1, <1>1, <1>2, <1>3, <1>0, NoteFacts, KeysTypes DEF KeysTypeOK
<1>5. LinksAhead' BY <1>1, <1>2, <1>3, <1>0, KeysTypes DEF LinksAhead, BeforeLink
<1>6. RemovalAhead' BY <1>1, <1>2, <1>3, <1>0, KeysTypes DEF RemovalAhead, Taking, PastFirst
<1>7. ASSUME ~raced' PROVE Undisturbed'
  <2>0. Undisturbed /\ ~Overlap' /\ (~miscounted' => ~miscounted /\ ~Miscount')
    BY <1>7, <1>0, NoteFacts DEF KeysInv
  <2>1. FrontKey' = FrontKey /\ FrontKey \in Nat \ {0}
    BY <1>1, <1>2, <1>0, KeysTypes DEF FrontKey, PastFirst
  <2>2. BackKey' = BackKey
    BY <2>0, <1>1, <1>2, <1>3, <1>0, KeysTypes DEF BackKey, BeforeLink, AfterLink
  <2>3. LastExact'
    BY <2>0, <2>1, <2>2, <1>1, <1>2, <1>3, <1>0, KeysTypes
       DEF Undisturbed, LastExact, BeforeLink, BackKey, AfterLink, Adding
  <2>4. ~miscounted' => SizeExact'
    BY <2>0, <1>1, <1>2, <1>3, <1>0, KeysTypes
       DEF Undisturbed, SizeExact, Miscount, BeforeLink, AfterLink
  <2> QED
    BY <2>0, <2>1, <2>2, <2>3, <2>4, <1>1, <1>2, <1>3, <1>0, KeysTypes
       DEF Undisturbed, Adding, Taking, PastFirst
<1> QED BY <1>4, <1>5, <1>6, <1>7 DEF KeysInv

\* The program goes on only if there is a node.
LEMMA MoreStep ==
    ASSUME KeysInv, More, Note
    PROVE  KeysInv'
<1>0. KeysTypeOK /\ LinksAhead /\ RemovalAhead BY DEF KeysInv
<1>1. /\ first' = first /\ last' = last /\ size' = size /\ next' = next
      /\ manager' = manager
      /\ freed' = freed /\ corrupted' = corrupted
      /\ taken' = taken /\ UNCHANGED mutex
      /\ access[Program] = "loop" /\ ~corrupted
  BY DEF More, AtAccess, queue, heap
<1>2. /\ access' \in [{Manager, Program} -> Places] /\ access'[Manager] = access[Manager]
      /\ access'[Program] = IF program.found < program.length /\ first # Null THEN "pop" ELSE "idle"
  BY <1>0, GotoFacts DEF More, Places
<1>3. program' = program BY DEF More
<1>4. KeysTypeOK'
  BY <1>1, <1>2, <1>3, <1>0, NoteFacts, KeysTypes
     DEF More, KeysTypeOK, mutex, KeyMutex!SemTypeOK
<1>5. LinksAhead' BY <1>1, <1>2, <1>3, <1>0, KeysTypes DEF LinksAhead, BeforeLink
<1>6. RemovalAhead' BY <1>1, <1>2, <1>3, <1>0, KeysTypes DEF RemovalAhead, Taking, PastFirst
<1>7. ASSUME ~raced' PROVE Undisturbed'
  <2>0. Undisturbed /\ ~Overlap' /\ (~miscounted' => ~miscounted /\ ~Miscount')
    BY <1>7, <1>0, NoteFacts DEF KeysInv
  <2>1. FrontKey' = FrontKey /\ FrontKey \in Nat \ {0}
    BY <1>1, <1>2, <1>0, KeysTypes DEF FrontKey, PastFirst
  <2>2. BackKey' = BackKey
    BY <2>0, <1>1, <1>2, <1>3, <1>0, KeysTypes DEF BackKey, BeforeLink, AfterLink
  <2>3. LastExact'
    BY <2>0, <2>1, <2>2, <1>1, <1>2, <1>3, <1>0, KeysTypes
       DEF Undisturbed, LastExact, BeforeLink, BackKey, AfterLink, Adding
  <2>4. ~miscounted' => SizeExact'
    BY <2>0, <1>1, <1>2, <1>3, <1>0, KeysTypes
       DEF Undisturbed, SizeExact, Miscount, BeforeLink, AfterLink
  <2> QED
    BY <2>0, <2>1, <2>2, <2>3, <2>4, <1>1, <1>2, <1>3, <1>0, KeysTypes
       DEF Undisturbed, Adding, Taking, PastFirst
<1> QED BY <1>4, <1>5, <1>6, <1>7 DEF KeysInv

\* The first node is loaded: it is later than all that were removed, or given back.
LEMMA LoadFirstStep ==
    ASSUME KeysInv, LoadFirst, Note
    PROVE  KeysInv'
<1>0. KeysTypeOK /\ LinksAhead /\ RemovalAhead BY DEF KeysInv
<1>1. /\ first' = first /\ last' = last /\ size' = size /\ next' = next
      /\ manager' = manager
      /\ freed' = freed /\ corrupted' = corrupted
      /\ taken' = taken /\ UNCHANGED mutex
      /\ access[Program] = "pop" /\ ~corrupted
  BY DEF LoadFirst, AtAccess, queue, heap
<1>2. /\ access' \in [{Manager, Program} -> Places] /\ access'[Manager] = access[Manager]
      /\ access'[Program] = "next"
  BY <1>0, GotoFacts DEF LoadFirst, Places
<1>3. /\ program' \in [node : Node \cup {Null}, after : Int, length : Int, found : Nat]
      /\ program'.node = first /\ program'.after = program.after
  <2>1. program \in [node : Node \cup {Null}, after : Int, length : Int, found : Nat]
    BY <1>0 DEF KeysTypeOK
  <2> QED BY <2>1, <1>0, KeysTypes DEF LoadFirst
<1>4. KeysTypeOK'
  BY <1>1, <1>2, <1>3, <1>0, NoteFacts, KeysTypes
     DEF LoadFirst, KeysTypeOK, mutex, KeyMutex!SemTypeOK
<1>5. LinksAhead' BY <1>1, <1>2, <1>3, <1>0, KeysTypes DEF LinksAhead, BeforeLink
<1>6. RemovalAhead' BY <1>1, <1>2, <1>3, <1>0, KeysTypes DEF RemovalAhead, Taking, PastFirst
<1>7. ASSUME ~raced' PROVE Undisturbed'
  <2>0. Undisturbed /\ ~Overlap' /\ (~miscounted' => ~miscounted /\ ~Miscount')
    BY <1>7, <1>0, NoteFacts DEF KeysInv
  <2>1. FrontKey' = FrontKey /\ FrontKey \in Nat \ {0}
    BY <1>1, <1>2, <1>0, KeysTypes DEF FrontKey, PastFirst
  <2>2. first = Len(taken) + 1
    BY <2>0, <1>1, <1>0, KeysTypes DEF Undisturbed, FrontKey, PastFirst, RemovalAhead
  <2>3. BackKey' = BackKey
    BY <2>0, <2>2, <1>1, <1>2, <1>3, <1>0, KeysTypes DEF BackKey, BeforeLink, AfterLink
  <2>4. LastExact'
    BY <2>0, <2>1, <2>3, <2>2, <1>1, <1>2, <1>3, <1>0, KeysTypes
       DEF Undisturbed, LastExact, BeforeLink, BackKey, AfterLink, Adding
  <2>5. ~miscounted' => SizeExact'
    BY <2>0, <2>2, <1>1, <1>2, <1>3, <1>0, KeysTypes
       DEF Undisturbed, SizeExact, Miscount, BeforeLink, AfterLink
  <2> QED
    BY <2>0, <2>1, <2>2, <2>3, <2>4, <2>5, <1>1, <1>2, <1>3, <1>0, KeysTypes
       DEF Undisturbed, Adding, Taking, PastFirst
<1> QED BY <1>4, <1>5, <1>6, <1>7 DEF KeysInv

\* The next node is loaded: from a node that was not given back.
LEMMA LoadNextStep ==
    ASSUME KeysInv, LoadNext, Note
    PROVE  KeysInv'
<1>0. KeysTypeOK /\ LinksAhead /\ RemovalAhead BY DEF KeysInv
<1>1. /\ first' = first /\ last' = last /\ size' = size /\ next' = next
      /\ manager' = manager
      /\ taken' = taken /\ UNCHANGED mutex
      /\ freed' = freed /\ corrupted' = (program.node \in freed)
      /\ access[Program] = "next" /\ ~corrupted
  BY DEF LoadNext, AtAccess, queue, heap
<1>2. /\ access' \in [{Manager, Program} -> Places] /\ access'[Manager] = access[Manager]
      /\ access'[Program] = "advance"
  BY <1>0, GotoFacts DEF LoadNext, Places
<1>3. /\ program' \in [node : Node \cup {Null}, after : Int, length : Int, found : Nat]
      /\ program'.node = program.node /\ program'.after = next[program.node]
      /\ program.node \in Node /\ next[program.node] \in Node \cup {Null}
  <2>1. program \in [node : Node \cup {Null}, after : Int, length : Int, found : Nat]
    BY <1>0 DEF KeysTypeOK
  <2>2. program.node \in Node BY <1>0, <1>1 DEF RemovalAhead, KeysTypeOK
  <2>3. next[program.node] \in Node \cup {Null} BY <2>2, <1>0 DEF KeysTypeOK
  <2>4. next[program.node] \in Int BY <2>3, <1>0, KeysTypes
  <2> QED BY <2>1, <2>2, <2>3, <2>4 DEF LoadNext
<1>4. KeysTypeOK'
  <2>1. corrupted' \in BOOLEAN BY <1>1
  <2>2. KeyMutex!SemTypeOK' BY <1>0, <1>1 DEF KeysTypeOK, mutex, KeyMutex!SemTypeOK
  <2> QED BY <2>1, <2>2, <1>1, <1>2, <1>3, <1>0, NoteFacts, KeysTypes DEF KeysTypeOK
<1>5. LinksAhead' BY <1>1, <1>2, <1>3, <1>0, KeysTypes DEF LinksAhead, BeforeLink
<1>6. RemovalAhead'
  <2>2. program.node # Null /\ program.node = first /\ program.node <= manager.key
    BY <1>0, <1>1, <1>3, KeysTypes DEF RemovalAhead, LinksAhead
  <2>3. program.node \notin freed => \A n \in freed : n < program.node
    BY <2>2, <1>0, <1>1 DEF RemovalAhead, Taking
  <2>4. next[program.node] # Null =>
          program.node < next[program.node] /\ next[program.node] <= manager.key
    BY <1>3, <1>0 DEF LinksAhead
  <2> QED
    BY <2>2, <2>3, <2>4, <1>1, <1>2, <1>3, <1>0, KeysTypes DEF RemovalAhead, Taking, PastFirst
<1>7. ASSUME ~raced' PROVE Undisturbed'
  <2>0. Undisturbed /\ ~Overlap' /\ (~miscounted' => ~miscounted /\ ~Miscount')
    BY <1>7, <1>0, NoteFacts DEF KeysInv
  <2>1. FrontKey' = FrontKey /\ FrontKey \in Nat \ {0}
    BY <1>1, <1>2, <1>0, KeysTypes DEF FrontKey, PastFirst
  <2>2. program.node = FrontKey /\ FrontKey <= BackKey /\ FrontKey \in Node
    BY <2>0, <1>1, <1>0, KeysTypes DEF Undisturbed, RemovalAhead
  <2>3. next[program.node] = IF FrontKey = BackKey THEN Null ELSE FrontKey + 1
    BY <2>0, <2>1, <2>2, <1>0, KeysTypes DEF Undisturbed, BackKey
  <2>4. program.node \notin freed
    <3>1. \A n \in freed : n <= Len(taken)
      BY <2>0, <1>0, KeysTypes DEF Undisturbed, RemovalAhead, Range
    <3>2. Len(taken) < FrontKey BY <1>0, KeysTypes DEF FrontKey
    <3> QED BY <3>1, <3>2, <2>1, <2>2, <1>0, KeysTypes
  <2>5. program.node = Len(taken) + 1 BY <2>2, <1>1 DEF FrontKey, PastFirst
  <2>6. BackKey' = BackKey
    BY <2>0, <2>2, <2>3, <2>4, <2>5, <1>1, <1>2, <1>3, <1>0, KeysTypes
       DEF BackKey, BeforeLink, AfterLink
  <2>7. LastExact'
    BY <2>0, <2>1, <2>6, <2>2, <2>3, <2>4, <2>5, <1>1, <1>2, <1>3, <1>0, KeysTypes
       DEF Undisturbed, LastExact, BeforeLink, BackKey, AfterLink, Adding
  <2>8. ~miscounted' => SizeExact'
    BY <2>0, <2>2, <2>3, <2>4, <2>5, <1>1, <1>2, <1>3, <1>0, KeysTypes
       DEF Undisturbed, SizeExact, Miscount, BeforeLink, AfterLink
  <2> QED
    BY <2>0, <2>1, <2>2, <2>3, <2>4, <2>5, <2>6, <2>7, <2>8, <1>1, <1>2, <1>3, <1>0, KeysTypes
       DEF Undisturbed, Adding, Taking, PastFirst
<1> QED BY <1>4, <1>5, <1>6, <1>7 DEF KeysInv

\* first leads to the node after the one that is being removed.
LEMMA AdvanceStep ==
    ASSUME KeysInv, Advance, Note
    PROVE  KeysInv'
<1>0. KeysTypeOK /\ LinksAhead /\ RemovalAhead BY DEF KeysInv
<1>1. /\ last' = last /\ size' = size /\ next' = next
      /\ manager' = manager
      /\ freed' = freed /\ corrupted' = corrupted
      /\ taken' = taken /\ UNCHANGED mutex
      /\ access[Program] = "advance" /\ ~corrupted
  BY DEF Advance, AtAccess, queue, heap
<1>2. /\ access' \in [{Manager, Program} -> Places] /\ access'[Manager] = access[Manager]
      /\ access'[Program] = "check"
  BY <1>0, GotoFacts DEF Advance, Places
<1>3. /\ program' = program /\ first' = program.after
      /\ program.after \in Node \cup {Null} /\ program.after \in Nat /\ program.after <= manager.key
  <2>1. program.after = Null \/ (program.after \in Node /\ program.after <= manager.key)
    BY <1>0, <1>1 DEF RemovalAhead
  <2> QED BY <2>1, <1>0, KeysTypes DEF Advance
<1>4. KeysTypeOK'
  BY <1>1, <1>2, <1>3, <1>0, NoteFacts, KeysTypes
     DEF Advance, KeysTypeOK, mutex, KeyMutex!SemTypeOK
<1>5. LinksAhead' BY <1>1, <1>2, <1>3, <1>0, KeysTypes DEF LinksAhead, BeforeLink
<1>6. RemovalAhead' BY <1>1, <1>2, <1>3, <1>0, KeysTypes DEF RemovalAhead, Taking, PastFirst
<1>7. ASSUME ~raced' PROVE Undisturbed'
  <2>0. Undisturbed /\ ~Overlap' /\ (~miscounted' => ~miscounted /\ ~Miscount')
    BY <1>7, <1>0, NoteFacts DEF KeysInv
  <2>1. FrontKey' = FrontKey + 1 /\ FrontKey \in Nat \ {0}
    BY <1>1, <1>2, <1>3, <1>0, KeysTypes DEF FrontKey, PastFirst
  <2>2. FrontKey <= BackKey /\ first # Null
    BY <2>0, <2>1, <1>1, <1>0, KeysTypes DEF Undisturbed, RemovalAhead
  <2>3. first' = IF FrontKey' <= BackKey' THEN FrontKey' ELSE Null
    BY <2>0, <2>1, <2>2, <1>1, <1>2, <1>3, <1>0, KeysTypes
       DEF Undisturbed, BackKey, BeforeLink, AfterLink, Overlap, Taking, PastFirst
  <2>4. BackKey' = BackKey
    BY <2>0, <2>2, <2>3, <1>1, <1>2, <1>3, <1>0, KeysTypes
       DEF BackKey, BeforeLink, AfterLink, Undisturbed, Overlap, Taking, PastFirst
  <2>5. LastExact'
    BY <2>0, <2>1, <2>4, <2>2, <2>3, <1>1, <1>2, <1>3, <1>0, KeysTypes
       DEF Undisturbed, LastExact, BeforeLink, BackKey, AfterLink, Adding
  <2>6. ~miscounted' => SizeExact'
    BY <2>0, <2>2, <2>3, <1>1, <1>2, <1>3, <1>0, KeysTypes
       DEF Undisturbed, SizeExact, Miscount, BeforeLink, AfterLink
  <2>7. BackKey \in Int /\ BackKey' = BackKey BY <2>4, <1>0, KeysTypes DEF BackKey
  <2>8. \A n \in Node : n >= FrontKey' => next'[n] = IF n < BackKey' THEN n + 1 ELSE Null
    BY <2>0, <2>1, <2>7, <1>1, <1>0, KeysTypes DEF Undisturbed
  <2>9. FrontKey' <= BackKey' + 1 BY <2>1, <2>2, <2>7
  <2>10. access[Manager] \in {"load", "link"} => first' # Null
    BY <2>0, <1>1, <1>2, <1>3 DEF Overlap
  <2> QED
    BY <2>0, <2>1, <2>2, <2>3, <2>4, <2>5, <2>6, <2>7, <2>8, <2>9, <2>10, <1>1, <1>2, <1>3,
       <1>0, KeysTypes DEF Undisturbed, Adding, Taking, PastFirst
<1> QED BY <1>4, <1>5, <1>6, <1>7 DEF KeysInv

\* The queue is empty or not.
LEMMA CheckStep ==
    ASSUME KeysInv, Check, Note
    PROVE  KeysInv'
<1>0. KeysTypeOK /\ LinksAhead /\ RemovalAhead BY DEF KeysInv
<1>1. /\ first' = first /\ last' = last /\ size' = size /\ next' = next
      /\ manager' = manager
      /\ taken' = taken /\ UNCHANGED mutex
      /\ freed' = freed /\ corrupted' = (first \in freed)
      /\ access[Program] = "check" /\ ~corrupted
  BY DEF Check, AtAccess, queue, heap
<1>2. /\ access' \in [{Manager, Program} -> Places] /\ access'[Manager] = access[Manager]
      /\ access'[Program] = IF first = Null THEN "clear" ELSE "free"
  BY <1>0, GotoFacts DEF Check, Places
<1>3. program' = program BY DEF Check
<1>4. KeysTypeOK'
  BY <1>1, <1>2, <1>3, <1>0, NoteFacts, KeysTypes
     DEF Check, KeysTypeOK, mutex, KeyMutex!SemTypeOK
<1>5. LinksAhead' BY <1>1, <1>2, <1>3, <1>0, KeysTypes DEF LinksAhead, BeforeLink
<1>6. RemovalAhead' BY <1>1, <1>2, <1>3, <1>0, KeysTypes DEF RemovalAhead, Taking, PastFirst
<1>7. ASSUME ~raced' PROVE Undisturbed'
  <2>0. Undisturbed /\ ~Overlap' /\ (~miscounted' => ~miscounted /\ ~Miscount')
    BY <1>7, <1>0, NoteFacts DEF KeysInv
  <2>1. FrontKey' = FrontKey /\ FrontKey \in Nat \ {0}
    BY <1>1, <1>2, <1>0, KeysTypes DEF FrontKey, PastFirst
  <2>2. first \notin freed
    <3>1. \A n \in freed : n <= Len(taken)
      BY <2>0, <1>0, KeysTypes DEF Undisturbed, RemovalAhead, Range
    <3>2. Len(taken) < FrontKey BY <1>0, KeysTypes DEF FrontKey
    <3>3. first = Null \/ first = FrontKey BY <2>0 DEF Undisturbed
    <3> QED BY <3>1, <3>2, <3>3, <2>1, <1>0, KeysTypes
  <2>3. BackKey' = BackKey
    BY <2>0, <2>2, <1>1, <1>2, <1>3, <1>0, KeysTypes DEF BackKey, BeforeLink, AfterLink
  <2>4. LastExact'
    BY <2>0, <2>1, <2>3, <2>2, <1>1, <1>2, <1>3, <1>0, KeysTypes
       DEF Undisturbed, LastExact, BeforeLink, BackKey, AfterLink, Adding
  <2>5. ~miscounted' => SizeExact'
    BY <2>0, <2>2, <1>1, <1>2, <1>3, <1>0, KeysTypes
       DEF Undisturbed, SizeExact, Miscount, BeforeLink, AfterLink
  <2> QED
    BY <2>0, <2>1, <2>2, <2>3, <2>4, <2>5, <1>1, <1>2, <1>3, <1>0, KeysTypes
       DEF Undisturbed, Adding, Taking, PastFirst
<1> QED BY <1>4, <1>5, <1>6, <1>7 DEF KeysInv

\* last is null again when the queue is empty.
LEMMA ClearLastStep ==
    ASSUME KeysInv, ClearLast, Note
    PROVE  KeysInv'
<1>0. KeysTypeOK /\ LinksAhead /\ RemovalAhead BY DEF KeysInv
<1>1. /\ first' = first /\ size' = size /\ next' = next
      /\ manager' = manager
      /\ freed' = freed /\ corrupted' = corrupted
      /\ taken' = taken /\ UNCHANGED mutex
      /\ access[Program] = "clear" /\ ~corrupted
  BY DEF ClearLast, AtAccess, queue, heap
<1>2. /\ access' \in [{Manager, Program} -> Places] /\ access'[Manager] = access[Manager]
      /\ access'[Program] = "free"
  BY <1>0, GotoFacts DEF ClearLast, Places
<1>3. program' = program /\ last' = Null BY DEF ClearLast
<1>4. KeysTypeOK'
  BY <1>1, <1>2, <1>3, <1>0, NoteFacts, KeysTypes
     DEF ClearLast, KeysTypeOK, mutex, KeyMutex!SemTypeOK
<1>5. LinksAhead' BY <1>1, <1>2, <1>3, <1>0, KeysTypes DEF LinksAhead, BeforeLink
<1>6. RemovalAhead' BY <1>1, <1>2, <1>3, <1>0, KeysTypes DEF RemovalAhead, Taking, PastFirst
<1>7. ASSUME ~raced' PROVE Undisturbed'
  <2>0. Undisturbed /\ ~Overlap' /\ (~miscounted' => ~miscounted /\ ~Miscount')
    BY <1>7, <1>0, NoteFacts DEF KeysInv
  <2>1. FrontKey' = FrontKey /\ FrontKey \in Nat \ {0}
    BY <1>1, <1>2, <1>0, KeysTypes DEF FrontKey, PastFirst
  <2>2. first = Null /\ access[Manager] \notin {"load", "link"} \cup AfterLink
    BY <2>0, <1>1 DEF Undisturbed, Overlap, Taking, PastFirst, AfterLink
  <2>3. BackKey' = BackKey
    BY <2>0, <2>2, <1>1, <1>2, <1>3, <1>0, KeysTypes DEF BackKey, BeforeLink, AfterLink
  <2>4. LastExact'
    BY <2>0, <2>1, <2>3, <2>2, <1>1, <1>2, <1>3, <1>0, KeysTypes
       DEF Undisturbed, LastExact, BeforeLink, BackKey, AfterLink, Adding
  <2>5. ~miscounted' => SizeExact'
    BY <2>0, <2>2, <1>1, <1>2, <1>3, <1>0, KeysTypes
       DEF Undisturbed, SizeExact, Miscount, BeforeLink, AfterLink
  <2> QED
    BY <2>0, <2>1, <2>2, <2>3, <2>4, <2>5, <1>1, <1>2, <1>3, <1>0, KeysTypes
       DEF Undisturbed, Adding, Taking, PastFirst
<1> QED BY <1>4, <1>5, <1>6, <1>7 DEF KeysInv

\* The key reaches the program, and the node is given back.
LEMMA DeleteStep ==
    ASSUME KeysInv, Delete, Note
    PROVE  KeysInv'
<1>0. KeysTypeOK /\ LinksAhead /\ RemovalAhead BY DEF KeysInv
<1>1. /\ first' = first /\ last' = last /\ size' = size /\ next' = next
      /\ manager' = manager
      /\ corrupted' = corrupted /\ UNCHANGED mutex
      /\ access[Program] = "free" /\ ~corrupted
  BY DEF Delete, AtAccess, queue, heap
<1>2. /\ access' \in [{Manager, Program} -> Places] /\ access'[Manager] = access[Manager]
      /\ access'[Program] = "size"
  BY <1>0, GotoFacts DEF Delete, Places
<1>3. /\ program' = program /\ taken' = Append(taken, program.node) /\ freed' = freed \cup {program.node}
      /\ program.node \in Node /\ \A n \in freed : n < program.node
      /\ taken' \in Seq(Node) /\ Len(taken') = Len(taken) + 1
      /\ \A k \in 1 .. Len(taken) : taken'[k] = taken[k]
      /\ taken'[Len(taken) + 1] = program.node /\ Range(taken') = Range(taken) \cup {program.node}
  <2>1. program.node \in Node /\ \A n \in freed : n < program.node
    BY <1>0, <1>1 DEF RemovalAhead, Taking
  <2>2. taken \in Seq(Node) BY <1>0, KeysTypes
  <2>3. taken' = Append(taken, program.node) BY DEF Delete
  <2>4. Range(taken') = Range(taken) \cup {program.node} BY <2>1, <2>2, <2>3, AppendFacts
  <2> QED BY <2>1, <2>2, <2>3, <2>4 DEF Delete
<1>4. KeysTypeOK'
  <2>1. taken' \in Seq(Node) /\ freed' \subseteq Node BY <1>3, <1>0 DEF KeysTypeOK
  <2> QED BY <2>1, <1>1, <1>2, <1>3, <1>0, NoteFacts DEF KeysTypeOK, mutex, KeyMutex!SemTypeOK
<1>5. LinksAhead' BY <1>1, <1>2, <1>3, <1>0, KeysTypes DEF LinksAhead, BeforeLink
<1>6. RemovalAhead'
  <2>1. freed' = Range(taken') BY <1>3, <1>0 DEF RemovalAhead
  <2>2. \A n \in freed' : n <= program.node /\ n <= manager.key
    BY <1>3, <1>1, <1>0, KeysTypes DEF RemovalAhead, Taking
  <2>3. \A j, k \in DOMAIN taken' : j < k => taken'[j] < taken'[k]
    <3>1. \A j \in 1 .. Len(taken) : taken[j] < program.node
      BY <1>3, <1>0, KeysTypes DEF RemovalAhead, Range
    <3>2. DOMAIN taken' = 1 .. Len(taken) + 1 BY <1>3, <1>0, KeysTypes
    <3> QED BY <3>1, <3>2, <1>3, <1>0, KeysTypes DEF RemovalAhead
  <2>4. first = Null \/ first \in freed' \/ \A n \in freed' : n < first
    BY <2>2, <1>3, <1>1, <1>0, KeysTypes DEF RemovalAhead, PastFirst
  <2> QED
    BY <2>1, <2>2, <2>3, <2>4, <1>1, <1>2, <1>3, <1>0, KeysTypes
       DEF RemovalAhead, Taking, PastFirst
<1>7. ASSUME ~raced' PROVE Undisturbed'
  <2>0. Undisturbed /\ ~Overlap' /\ (~miscounted' => ~miscounted /\ ~Miscount')
    BY <1>7, <1>0, NoteFacts DEF KeysInv
  <2>1. FrontKey' = FrontKey /\ FrontKey \in Nat \ {0}
    BY <1>1, <1>2, <1>3, <1>0, KeysTypes DEF FrontKey, PastFirst
  <2>2. program.node = Len(taken) + 1 BY <2>0, <1>1 DEF Undisturbed, Taking
  <2>3. BackKey' = BackKey
    BY <2>0, <2>2, <1>1, <1>2, <1>3, <1>0, KeysTypes DEF BackKey, BeforeLink, AfterLink
  <2>4. LastExact'
    BY <2>0, <2>1, <2>3, <2>2, <1>1, <1>2, <1>3, <1>0, KeysTypes
       DEF Undisturbed, LastExact, BeforeLink, BackKey, AfterLink, Adding
  <2>5. ~miscounted' => SizeExact'
    BY <2>0, <2>2, <1>1, <1>2, <1>3, <1>0, KeysTypes
       DEF Undisturbed, SizeExact, Miscount, BeforeLink, AfterLink
  <2>6. taken' = [k \in 1 .. Len(taken') |-> k]
    BY <2>0, <2>2, <1>3, <1>0, KeysTypes DEF Undisturbed
  <2> QED
    BY <2>0, <2>1, <2>2, <2>3, <2>4, <2>5, <2>6, <1>1, <1>2, <1>3, <1>0, KeysTypes
       DEF Undisturbed, Adding, Taking, PastFirst
<1> QED BY <1>4, <1>5, <1>6, <1>7 DEF KeysInv

\* The size is loaded; it is stored in the next step.
LEMMA LoadSizeAgainStep ==
    ASSUME KeysInv, LoadSizeAgain, Note
    PROVE  KeysInv'
<1>0. KeysTypeOK /\ LinksAhead /\ RemovalAhead BY DEF KeysInv
<1>1. /\ first' = first /\ last' = last /\ size' = size /\ next' = next
      /\ manager' = manager
      /\ freed' = freed /\ corrupted' = corrupted
      /\ taken' = taken /\ UNCHANGED mutex
      /\ access[Program] = "size" /\ ~corrupted
  BY DEF LoadSizeAgain, AtAccess, queue, heap
<1>2. /\ access' \in [{Manager, Program} -> Places] /\ access'[Manager] = access[Manager]
      /\ access'[Program] = "store"
  BY <1>0, GotoFacts DEF LoadSizeAgain, Places
<1>3. /\ program' \in [node : Node \cup {Null}, after : Int, length : Int, found : Nat]
      /\ program'.node = program.node /\ program'.after = size
  <2>1. program \in [node : Node \cup {Null}, after : Int, length : Int, found : Nat]
    BY <1>0 DEF KeysTypeOK
  <2> QED BY <2>1, <1>0, KeysTypes DEF LoadSizeAgain
<1>4. KeysTypeOK'
  BY <1>1, <1>2, <1>3, <1>0, NoteFacts, KeysTypes
     DEF LoadSizeAgain, KeysTypeOK, mutex, KeyMutex!SemTypeOK
<1>5. LinksAhead' BY <1>1, <1>2, <1>3, <1>0, KeysTypes DEF LinksAhead, BeforeLink
<1>6. RemovalAhead' BY <1>1, <1>2, <1>3, <1>0, KeysTypes DEF RemovalAhead, Taking, PastFirst
<1>7. ASSUME ~raced' PROVE Undisturbed'
  <2>0. Undisturbed /\ ~Overlap' /\ (~miscounted' => ~miscounted /\ ~Miscount')
    BY <1>7, <1>0, NoteFacts DEF KeysInv
  <2>1. FrontKey' = FrontKey /\ FrontKey \in Nat \ {0}
    BY <1>1, <1>2, <1>0, KeysTypes DEF FrontKey, PastFirst
  <2>2. BackKey' = BackKey
    BY <2>0, <1>1, <1>2, <1>3, <1>0, KeysTypes DEF BackKey, BeforeLink, AfterLink
  <2>3. LastExact'
    BY <2>0, <2>1, <2>2, <1>1, <1>2, <1>3, <1>0, KeysTypes
       DEF Undisturbed, LastExact, BeforeLink, BackKey, AfterLink, Adding
  <2>4. ~miscounted' => SizeExact'
    BY <2>0, <1>1, <1>2, <1>3, <1>0, KeysTypes
       DEF Undisturbed, SizeExact, Miscount, BeforeLink, AfterLink
  <2> QED
    BY <2>0, <2>1, <2>2, <2>3, <2>4, <1>1, <1>2, <1>3, <1>0, KeysTypes
       DEF Undisturbed, Adding, Taking, PastFirst
<1> QED BY <1>4, <1>5, <1>6, <1>7 DEF KeysInv

\* The size no longer counts the node that was removed.
LEMMA DecrementStep ==
    ASSUME KeysInv, Decrement, Note
    PROVE  KeysInv'
<1>0. KeysTypeOK /\ LinksAhead /\ RemovalAhead BY DEF KeysInv
<1>1. /\ first' = first /\ last' = last /\ next' = next
      /\ manager' = manager
      /\ freed' = freed /\ corrupted' = corrupted
      /\ taken' = taken /\ UNCHANGED mutex
      /\ access[Program] = "store" /\ ~corrupted
  BY DEF Decrement, AtAccess, queue, heap
<1>2. /\ access' \in [{Manager, Program} -> Places] /\ access'[Manager] = access[Manager]
      /\ access'[Program] = "loop"
  BY <1>0, GotoFacts DEF Decrement, Places
<1>3. /\ size' = program.after - 1 /\ program.after \in Int
      /\ program' \in [node : Node \cup {Null}, after : Int, length : Int, found : Nat]
      /\ program'.node = program.node /\ program'.after = program.after
  <2>1. program \in [node : Node \cup {Null}, after : Int, length : Int, found : Nat]
    BY <1>0 DEF KeysTypeOK
  <2> QED BY <2>1 DEF Decrement
<1>4. KeysTypeOK'
  <2>1. size' \in Int BY <1>3
  <2>2. KeyMutex!SemTypeOK' BY <1>0, <1>1 DEF KeysTypeOK, mutex, KeyMutex!SemTypeOK
  <2> QED BY <2>1, <2>2, <1>1, <1>2, <1>3, <1>0, NoteFacts, KeysTypes DEF KeysTypeOK
<1>5. LinksAhead' BY <1>1, <1>2, <1>3, <1>0, KeysTypes DEF LinksAhead, BeforeLink
<1>6. RemovalAhead' BY <1>1, <1>2, <1>3, <1>0, KeysTypes DEF RemovalAhead, Taking, PastFirst
<1>7. ASSUME ~raced' PROVE Undisturbed'
  <2>0. Undisturbed /\ ~Overlap' /\ (~miscounted' => ~miscounted /\ ~Miscount')
    BY <1>7, <1>0, NoteFacts DEF KeysInv
  <2>1. FrontKey' = FrontKey /\ FrontKey \in Nat \ {0}
    BY <1>1, <1>2, <1>0, KeysTypes DEF FrontKey, PastFirst
  <2>2. BackKey' = BackKey
    BY <2>0, <1>1, <1>2, <1>3, <1>0, KeysTypes DEF BackKey, BeforeLink, AfterLink
  <2>3. LastExact'
    BY <2>0, <2>1, <2>2, <1>1, <1>2, <1>3, <1>0, KeysTypes
       DEF Undisturbed, LastExact, BeforeLink, BackKey, AfterLink, Adding
  <2>4. ~miscounted' => SizeExact'
    BY <2>0, <1>1, <1>2, <1>3, <1>0, KeysTypes
       DEF Undisturbed, SizeExact, Miscount, BeforeLink, AfterLink
  <2> QED
    BY <2>0, <2>1, <2>2, <2>3, <2>4, <1>1, <1>2, <1>3, <1>0, KeysTypes
       DEF Undisturbed, Adding, Taking, PastFirst
<1> QED BY <1>4, <1>5, <1>6, <1>7 DEF KeysInv

-----------------------------------------------------------------------------

LEMMA InitKeysInv == KeysInit => KeysInv
<1> SUFFICES ASSUME KeysInit PROVE KeysInv OBVIOUS
<1>1. /\ first = 0 /\ last = 0 /\ size = 0 /\ next = [n \in Node |-> 0]
      /\ taken = <<>> /\ freed = {} /\ corrupted = FALSE /\ raced = FALSE /\ miscounted = FALSE
      /\ manager = [key |-> 0, loaded |-> 0]
      /\ program = [node |-> 0, after |-> 0, length |-> 0, found |-> 0]
  BY DEF KeysInit, Null
<1>2. /\ access \in [{Manager, Program} -> Places]
      /\ access[Manager] = "idle" /\ access[Program] = "start"
  BY KeysAssumption DEF KeysInit, Places
<1>3. KeyMutex!SemTypeOK
  BY DEF KeysInit, KeyMutex!SemInit, KeyMutex!SemTypeOK
<1>4. MaxKeys \in Nat /\ Node = 1 .. MaxKeys /\ Null = 0 /\ 0 \in 0 .. MaxKeys
  BY KeysAssumption DEF Node, Null
<1>5. KeysTypeOK
  <2>1. /\ first \in Node \cup {Null} /\ last \in Node \cup {Null} /\ size \in Int
        /\ next \in [Node -> Node \cup {Null}] /\ freed \subseteq Node
    BY <1>1, <1>4
  <2>4. taken \in Seq(Node) BY <1>1
  <2>5. corrupted \in BOOLEAN /\ raced \in BOOLEAN /\ miscounted \in BOOLEAN BY <1>1
  <2>2. manager \in [key : 0 .. MaxKeys, loaded : Int] BY <1>1, <1>4
  <2>3. program \in [node : Node \cup {Null}, after : Int, length : Int, found : Nat]
    BY <1>1, <1>4
  <2> QED BY <2>1, <2>2, <2>3, <2>4, <2>5, <1>2, <1>3 DEF KeysTypeOK
<1>6. LinksAhead BY <1>1, <1>2, <1>4 DEF LinksAhead, BeforeLink
<1>7. RemovalAhead BY <1>1, <1>2, <1>4, EmptyFacts DEF RemovalAhead, Taking, PastFirst
<1>8. FrontKey = 1 /\ BackKey = 0
  BY <1>1, <1>2 DEF FrontKey, BackKey, PastFirst, BeforeLink, AfterLink
<1>9. LastExact BY <1>1, <1>2, <1>4, <1>8 DEF LastExact
<1>10. SizeExact BY <1>1, <1>2 DEF SizeExact, Miscount, BeforeLink, AfterLink
<1>11. ~Overlap BY <1>2 DEF Overlap
<1>12. taken = [k \in 1 .. Len(taken) |-> k] BY <1>1
<1>13. Undisturbed
  BY <1>1, <1>2, <1>4, <1>8, <1>9, <1>10, <1>11, <1>12
     DEF Undisturbed, Adding, Taking, PastFirst
<1> QED BY <1>5, <1>6, <1>7, <1>13 DEF KeysInv

LEMMA NextKeysInv == KeysInv /\ [KeysNext]_keyVars => KeysInv'
<1> SUFFICES ASSUME KeysInv, [KeysNext]_keyVars PROVE KeysInv' OBVIOUS
<1>1. ASSUME AddTail, Note PROVE KeysInv'
  BY <1>1, TestLastStep, LoadLastStep, LinkStep, StoreLastStep, TestFirstStep, StoreFirstStep,
     LoadSizeStep, StoreSizeStep DEF AddTail
<1>2. ASSUME Poll, Note PROVE KeysInv'
  BY <1>2, LockCountStep, GetKeyPressCountStep, MoreStep, LoadFirstStep, LoadNextStep,
     AdvanceStep,
     CheckStep, ClearLastStep, DeleteStep, LoadSizeAgainStep, DecrementStep DEF Poll
<1>3. CASE UNCHANGED keyVars
  <2>1. /\ UNCHANGED <<first, last, size, next>> /\ UNCHANGED <<access, manager, program>>
        /\ UNCHANGED <<permits, sleepers>> /\ UNCHANGED <<freed, corrupted>>
        /\ UNCHANGED <<taken, raced, miscounted>>
    BY <1>3 DEF keyVars, queue, mutex, heap
  <2>2. KeysTypeOK' = KeysTypeOK BY <2>1 DEF KeysTypeOK, KeyMutex!SemTypeOK
  <2>3. LinksAhead' = LinksAhead /\ RemovalAhead' = RemovalAhead
    BY <2>1 DEF LinksAhead, RemovalAhead
  <2>4. Undisturbed' = Undisturbed
    BY <2>1 DEF Undisturbed, LastExact, SizeExact, FrontKey, BackKey, Adding, Overlap, Miscount
  <2> QED BY <2>1, <2>2, <2>3, <2>4 DEF KeysInv
<1> QED BY <1>1, <1>2, <1>3, QueueKeyPressStep, ExitStep DEF KeysNext

\* The links lead over the keys that were not removed, in order.
LEMMA LinkedExact ==
    ASSUME KeysTypeOK, Undisturbed, ~Adding, ~Removing
    PROVE  Linked = [j \in 1 .. manager.key - Len(taken) |-> Len(taken) + j]
           /\ Len(taken) <= manager.key
<1> DEFINE m == Len(taken)
           s == [j \in 1 .. manager.key - m |-> m + j]
<1>1. FrontKey = m + 1 /\ BackKey = manager.key
  BY DEF FrontKey, BackKey, Adding, Removing, PastFirst, BeforeLink, AfterLink
<1>2. m \in Nat /\ manager.key \in Nat /\ m <= manager.key /\ manager.key <= MaxKeys /\ MaxKeys \in Nat
  BY <1>1, KeysTypes DEF Undisturbed
<1>3. s \in Seq(Node) /\ Len(s) = manager.key - m /\ DOMAIN s = 1 .. manager.key - m
      /\ \A k \in DOMAIN s : s[k] = m + k
  BY <1>2 DEF Node
<1>4. IsInjective(s) BY <1>2, <1>3 DEF IsInjective
<1>5. s = <<>> <=> m = manager.key BY <1>2, <1>3
<1>6. first = IF m + 1 <= manager.key THEN m + 1 ELSE Null BY <1>1 DEF Undisturbed
<1>7. \A n \in Node : n >= m + 1 => next[n] = IF n < manager.key THEN n + 1 ELSE Null
  BY <1>1 DEF Undisturbed
<1> HIDE DEF m, s
<1>8. Chain(next, Null, first, s)
  <2>1. first = IF s = <<>> THEN Null ELSE s[1] BY <1>2, <1>3, <1>5, <1>6
  <2>2. ASSUME NEW k \in DOMAIN s
        PROVE  next[s[k]] = IF k = Len(s) THEN Null ELSE s[k + 1]
    <3>1. k \in Nat /\ 1 <= k /\ k <= manager.key - m /\ s[k] = m + k BY <1>2, <1>3
    <3>2. m + k \in Node /\ m + k >= m + 1 BY <3>1, <1>2 DEF Node
    <3>3. next[m + k] = IF m + k < manager.key THEN m + k + 1 ELSE Null BY <3>2, <1>7
    <3>4. CASE k = manager.key - m BY <3>1, <3>3, <3>4, <1>2, <1>3
    <3>5. CASE k # manager.key - m
      <4>1. k + 1 \in DOMAIN s BY <3>1, <3>5, <1>2, <1>3
      <4>2. s[k + 1] = m + (k + 1) BY <4>1, <1>3
      <4> QED BY <4>2, <3>1, <3>3, <3>5, <1>2, <1>3
    <3> QED BY <3>4, <3>5
  <2> QED BY <2>1, <2>2 DEF Chain
<1>9. IsFiniteSet(Node) /\ Null \notin Node BY KeysAssumption, FS_Interval DEF Node, Null
<1>10. Met(Node, Null, next, first) = s
  <2>1. ASSUME NEW l, NEW f, Chain(l, Null, f, s) PROVE Met(Node, Null, l, f) = s
    BY <2>1, <1>3, <1>4, <1>9, WalkFacts
  <2>2. PICK l : l = next OBVIOUS
  <2>3. PICK f : f = first OBVIOUS
  <2> QED BY <2>1, <2>2, <2>3, <1>8
<1>11. Linked = Met(Node, Null, next, first)
  BY DEF Linked, Links!Walk, Met, Links!Cardinality, Cardinality
<1> QED BY <1>2, <1>10, <1>11 DEF m, s

LEMMA KeysInvImplies == KeysInv => KeysExact
<1> SUFFICES ASSUME KeysInv PROVE KeysExact OBVIOUS
<1>0. KeysTypeOK BY DEF KeysInv
<1>1. \A j, k \in DOMAIN taken : j < k => taken[j] < taken[k] BY DEF KeysInv, RemovalAhead
<1>2. corrupted \/ access[Manager] = "killed" => raced \/ access[Program] = "gone"
  BY DEF KeysInv, Undisturbed
<1>3. ASSUME ~raced, ~Adding, ~Removing
      PROVE  /\ taken \o Linked = [k \in 1 .. manager.key |-> k]
             /\ last = IF Linked = <<>> THEN Null ELSE Last(Linked)
             /\ ~miscounted => size = Len(Linked)
  <2>0. Undisturbed BY <1>3 DEF KeysInv
  <2>1. Linked = [j \in 1 .. manager.key - Len(taken) |-> Len(taken) + j] /\ Len(taken) <= manager.key
    BY <1>0, <1>3, <2>0, LinkedExact
  <2>2. Len(taken) \in Nat /\ manager.key \in Nat /\ taken = [k \in 1 .. Len(taken) |-> k]
    BY <1>0, <2>0, KeysTypes DEF Undisturbed
  <2>3. /\ Linked \in Seq(Nat) /\ Len(Linked) = manager.key - Len(taken)
        /\ \A j \in 1 .. Len(Linked) : Linked[j] = Len(taken) + j
        /\ Linked = <<>> <=> Len(taken) = manager.key
    <3> DEFINE m == Len(taken)
               n == manager.key
    <3>1. m \in Nat /\ n \in Nat /\ m <= n /\ Linked = [j \in 1 .. n - m |-> m + j]
      BY <2>1, <2>2
    <3> HIDE DEF m, n
    <3>2. /\ Linked \in Seq(Nat) /\ Len(Linked) = n - m
          /\ \A j \in 1 .. n - m : Linked[j] = m + j
      BY <3>1
    <3>3. Linked = <<>> <=> m = n BY <3>1, <3>2
    <3> QED BY <3>2, <3>3 DEF m, n
  <2>4. taken \o Linked = [k \in 1 .. manager.key |-> k]
    <3>1. taken \in Seq(Nat) BY <2>2
    <3>2. /\ taken \o Linked \in Seq(Nat) /\ Len(taken \o Linked) = manager.key
          /\ \A k \in 1 .. Len(taken) : (taken \o Linked)[k] = taken[k]
          /\ \A k \in 1 .. manager.key : k > Len(taken) => (taken \o Linked)[k] = Linked[k - Len(taken)]
      BY <2>2, <2>3, <3>1
    <3>3. \A k \in 1 .. manager.key : (taken \o Linked)[k] = k BY <3>2, <2>2, <2>3
    <3> DEFINE t == [k \in 1 .. manager.key |-> k]
    <3>5. t \in Seq(Nat) /\ Len(t) = manager.key /\ \A k \in 1 .. manager.key : t[k] = k BY <2>2
    <3> HIDE DEF t
    <3>6. taken \o Linked = t BY <3>2, <3>3, <3>5, SeqEqual
    <3> QED BY <3>6 DEF t
  <2>5. FrontKey = Len(taken) + 1 /\ BackKey = manager.key
    BY <1>3 DEF FrontKey, BackKey, Adding, Removing, PastFirst, BeforeLink, AfterLink
  <2>6. last = IF Linked = <<>> THEN Null ELSE Last(Linked)
    <3>1. last = IF Len(taken) + 1 <= manager.key THEN manager.key ELSE Null
      BY <1>3, <2>0, <2>5 DEF Undisturbed, LastExact, Adding, Removing, BeforeLink
    <3>2. Linked # <<>> => Last(Linked) = manager.key BY <2>2, <2>3 DEF Last
    <3> QED BY <3>1, <3>2, <2>1, <2>2, <2>3
  <2>7. ~miscounted => size = Len(Linked)
    BY <1>3, <2>0, <2>2, <2>3, <1>0, KeysTypes
       DEF Undisturbed, SizeExact, Adding, Removing, BeforeLink, AfterLink
  <2> QED BY <2>4, <2>6, <2>7
<1> QED BY <1>0, <1>1, <1>2, <1>3 DEF KeysExact

\* The queue of a program's keys, at every access of a process that adds a key
\* and one that takes them without the mutex, for any number of keys.
THEOREM KeysInvariance == KeysSpec => []KeysInv
<1>1. KeysInit => KeysInv BY InitKeysInv
<1>2. KeysInv /\ [KeysNext]_keyVars => KeysInv' BY NextKeysInv
<1> QED BY <1>1, <1>2, PTL DEF KeysSpec

\* KeysExact: the program gets its keys in order and none twice; none is lost and
\* no node is used again unless an addition overlapped the removal of the only
\* node, and the size is right unless both changed it at once.
THEOREM KeysInOrder == KeysSpec => []KeysExact
BY KeysInvariance, KeysInvImplies, PTL
=============================================================================
