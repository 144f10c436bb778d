--------------------------- MODULE ResourcesProofs ---------------------------
(***************************************************************************)
(* No object of the kernel is deleted while a table, a call or a process   *)
(* still points at it, and none is counted that nobody points at, for any  *)
(* number of processes, files, objects and slots.  And the memory that     *)
(* they all come from: the heap's blocks, its list and what it hands out,  *)
(* for any size of the heap and any requests.                              *)
(***************************************************************************)
EXTENDS Resources, Heap, CollectionFacts, FiniteSetTheorems, TLAPS

(***************************************************************************)
(* The inductive invariant.  First the parts of CountsExact, by name.      *)
(***************************************************************************)
FilesCounted ==
    \A o \in Obj : start[o] \in Starts =>
        count[o] = Places(FileOf(o)) + Opening(o) + lost[o] /\ count[o] > 0
SemaphoresCounted ==
    \A o \in Obj : start[o] = 0 =>
        count[o] = Places(SemaphoreOf(o)) /\ count[o] + lost[o] > 0
FreeUncounted == \A o \in Obj : start[o] = -1 => count[o] = 0
ProcessesCounted ==
    \A p \in Proc :
        count[p] = Places(ProcessOf(p)) + (IF status[p] \in {"live", "done", "dead"} THEN 1 ELSE 0)

Locking == {"open", "exec", "close", "clearClose", "exitClose"}
Closing == {"close", "clearClose", "exitClose"}
Pointing == {"install", "clear", "clearClose"}

\* A process is between openFilesMutex.lock() and unlock() exactly when it
\* holds the mutex.
MutexHeld == \A p \in Proc : pc[p] \in Locking <=> mutex = p

\* What a process that looked up its file knows stays true until it unlocks,
\* and who has an OpenFile in its hands is in one of the calls that count.
PtrExact ==
    \A p \in Proc :
        /\ pc[p] \in {"open", "exec"} => arg[p] \in Starts /\ ptr[p] = openFiles[arg[p]]
        /\ pc[p] \in Pointing => ptr[p] \in Obj
        /\ pc[p] \notin {"open", "exec"} \cup Pointing => ptr[p] = Null

\* The slot that a call works on still has what the call found there.
AtExact ==
    \A p \in Proc :
        /\ pc[p] \in Closing => at[p] \in Slot /\ table[p][at[p]].kind = "FILE"
        /\ pc[p] = "join" => at[p] \in Slot /\ table[p][at[p]].kind = "PROCESS"
        /\ pc[p] \notin Closing \cup {"join", "fork"} => at[p] = 0

\* Only live processes are in calls, and one that signalled its end has closed
\* everything.
LivesExact ==
    \A p \in Proc :
        /\ pc[p] # "idle" => status[p] = "live" \/ (status[p] = "done" /\ pc[p] = "exit")
        /\ status[p] = "done" => pc[p] = "exit" /\ Used(p) = {}
        /\ status[p] = "unborn" => Used(p) = {}

\* A child that is being made has one maker, and nothing yet in the slots that
\* the maker has not come to.
ForksExact ==
    \A p \in Proc : pc[p] = "fork" =>
        /\ arg[p] \in Proc /\ status[arg[p]] = "forming"
        /\ \A i \in Slot : i >= at[p] => table[arg[p]][i] = None
        /\ \A q \in Proc : pc[q] = "fork" /\ arg[q] = arg[p] => q = p

\* Nothing that can still be deleted is among what is lost.
LostExact ==
    \A o \in Obj : start[o] = -1 \/ (start[o] = 0 /\ count[o] > 0) => lost[o] = 0

IInv ==
    /\ TypeOK
    /\ FilesCounted /\ SemaphoresCounted /\ FreeUncounted /\ ProcessesCounted
    /\ NothingDangles /\ OneOpenFile
    /\ MutexHeld /\ PtrExact /\ AtExact /\ LivesExact /\ ForksExact /\ LostExact

-----------------------------------------------------------------------------
(***************************************************************************)
(* Entries of tables.                                                      *)
(***************************************************************************)

\* What an entry is, is told by its kind.
LEMMA EntryFacts ==
    /\ None \in Entries /\ None.kind = "NONE"
    /\ \A o \in Obj : FileOf(o) \in Entries /\ SemaphoreOf(o) \in Entries
    /\ \A q \in Proc : ProcessOf(q) \in Entries
    /\ \A o : FileOf(o) # None /\ FileOf(o).kind = "FILE" /\ FileOf(o).obj = o
    /\ \A o : SemaphoreOf(o) # None /\ SemaphoreOf(o).kind = "SEMAPHORE" /\ SemaphoreOf(o).obj = o
    /\ \A o : ProcessOf(o) # None /\ ProcessOf(o).kind = "PROCESS" /\ ProcessOf(o).obj = o
BY DEF Entries, None, FileOf, SemaphoreOf, ProcessOf

LEMMA KindFacts ==
    ASSUME NEW r \in Entries
    PROVE  /\ r.kind \in {"NONE", "FILE", "SEMAPHORE", "PROCESS"}
           /\ r.kind = "NONE" <=> r = None
           /\ r.kind = "FILE" => r.obj \in Obj /\ r = FileOf(r.obj)
           /\ r.kind = "SEMAPHORE" => r.obj \in Obj /\ r = SemaphoreOf(r.obj)
           /\ r.kind = "PROCESS" => r.obj \in Proc /\ r = ProcessOf(r.obj)
BY DEF Entries, None, FileOf, SemaphoreOf, ProcessOf

\* The least slot of a set of slots is one of them.
LEMMA LeastFacts ==
    ASSUME NEW S \in SUBSET Slot, S # {}
    PROVE  Least(S) \in S
<1>1. \E i \in S : \A j \in S : i <= j BY LeastMember DEF Slot
<1> QED BY <1>1 DEF Least

-----------------------------------------------------------------------------
(***************************************************************************)
(* Counting pointers.                                                      *)
(***************************************************************************)

LEMMA SlotsFinite == IsFiniteSet(Proc \X Slot)
<1>1. IsFiniteSet(Slot) BY ResourcesAssumption, FS_Interval DEF Slot
<1> QED BY <1>1, ResourcesAssumption, FS_Product

LEMMA PlacesFacts ==
    ASSUME NEW r
    PROVE  Places(r) \in Nat /\ (Places(r) = 0 <=> \A q \in Proc, i \in Slot : table[q][i] # r)
<1> PICK g : g = [e \in Proc \X Slot |-> table[e[1]][e[2]]] OBVIOUS
<1>1. Places(r) = Cardinality(Held(Proc \X Slot, g, r))
  <2>1. {e \in Proc \X Slot : table[e[1]][e[2]] = r} = Held(Proc \X Slot, g, r) BY DEF Held
  <2> QED BY <2>1 DEF Places
<1>2. (\A e \in Proc \X Slot : g[e] # r) <=> \A q \in Proc, i \in Slot : table[q][i] # r
  <2>1. \A q \in Proc, i \in Slot : <<q, i>> \in Proc \X Slot /\ g[<<q, i>>] = table[q][i] OBVIOUS
  <2>2. \A e \in Proc \X Slot : e[1] \in Proc /\ e[2] \in Slot /\ g[e] = table[e[1]][e[2]] OBVIOUS
  <2> QED BY <2>1, <2>2
<1> QED BY <1>1, <1>2, SlotsFinite, HeldFacts

\* A pointer moves into a slot, and what was there is gone.
LEMMA PlacesStep ==
    ASSUME TypeOK, NEW p \in Proc, NEW n \in Slot, NEW x, table' = TableWith(p, n, x), NEW r
    PROVE  /\ Places(r) \in Nat
           /\ Places(r)' = Places(r) + (IF x = r THEN 1 ELSE 0) - (IF table[p][n] = r THEN 1 ELSE 0)
<1> PICK g, h : /\ g = [e \in Proc \X Slot |-> table[e[1]][e[2]]]
                /\ h = [e \in Proc \X Slot |-> table'[e[1]][e[2]]]
  OBVIOUS
<1>1. /\ Places(r) = Cardinality(Held(Proc \X Slot, g, r))
      /\ Places(r)' = Cardinality(Held(Proc \X Slot, h, r))
  <2>1. /\ {e \in Proc \X Slot : table[e[1]][e[2]] = r} = Held(Proc \X Slot, g, r)
        /\ {e \in Proc \X Slot : table'[e[1]][e[2]] = r} = Held(Proc \X Slot, h, r)
    BY DEF Held
  <2> QED BY <2>1 DEF Places
<1>2. /\ <<p, n>> \in Proc \X Slot /\ g[<<p, n>>] = table[p][n] /\ h[<<p, n>>] = x
      /\ \A e \in (Proc \X Slot) \ {<<p, n>>} : h[e] = g[e]
  BY DEF TypeOK, TableWith
<1>3. Cardinality(Held(Proc \X Slot, h, r)) =
        Cardinality(Held(Proc \X Slot, g, r)) + (IF h[<<p, n>>] = r THEN 1 ELSE 0)
        - (IF g[<<p, n>>] = r THEN 1 ELSE 0)
  BY <1>2, SlotsFinite, HeldStep
<1> QED BY <1>1, <1>2, <1>3, PlacesFacts

\* A slot that has an entry is one of its places.
EntriesCounted == \A q \in Proc, i \in Slot : Places(table[q][i]) > 0
LEMMA PlacesPositive == EntriesCounted
BY PlacesFacts DEF EntriesCounted

\* What nobody may point at, nobody does.
LEMMA NoPlaces ==
    ASSUME NEW r, \A q \in Proc, i \in Slot : table[q][i] # r PROVE Places(r) = 0
BY PlacesFacts

\* A process begins or ends to have an OpenFile in its hands.
Has(p, o) == pc[p] \in Pointing /\ ptr[p] = o

LEMMA OpeningFacts ==
    ASSUME NEW o
    PROVE  Opening(o) \in Nat /\ (Opening(o) = 0 <=> \A q \in Proc : ~Has(q, o))
<1> PICK g : g = [q \in Proc |-> IF Has(q, o) THEN 1 ELSE 0] OBVIOUS
<1>1. {p \in Proc : pc[p] \in {"install", "clear", "clearClose"} /\ ptr[p] = o} = Held(Proc, g, 1)
  BY DEF Held, Has, Pointing
<1>2. Opening(o) = Cardinality(Held(Proc, g, 1)) BY <1>1 DEF Opening
<1>3. /\ Cardinality(Held(Proc, g, 1)) \in Nat
      /\ Cardinality(Held(Proc, g, 1)) = 0 <=> \A q \in Proc : g[q] # 1
  BY ResourcesAssumption, HeldFacts
<1>4. \A q \in Proc : g[q] = 1 <=> Has(q, o) OBVIOUS
<1> QED BY <1>2, <1>3, <1>4

LEMMA OpeningStep ==
    ASSUME TypeOK, NEW p \in Proc, \A q \in Proc \ {p} : pc'[q] = pc[q] /\ ptr'[q] = ptr[q], NEW o
    PROVE  /\ Opening(o) \in Nat
           /\ Opening(o)' = Opening(o) + (IF Has(p, o)' THEN 1 ELSE 0) - (IF Has(p, o) THEN 1 ELSE 0)
<1> PICK g, h : /\ g = [q \in Proc |-> IF Has(q, o) THEN 1 ELSE 0]
                /\ h = [q \in Proc |-> IF Has(q, o)' THEN 1 ELSE 0]
  OBVIOUS
<1>1. /\ {q \in Proc : pc[q] \in {"install", "clear", "clearClose"} /\ ptr[q] = o} = Held(Proc, g, 1)
      /\ {q \in Proc : pc'[q] \in {"install", "clear", "clearClose"} /\ ptr'[q] = o} = Held(Proc, h, 1)
  BY DEF Held, Has, Pointing
<1>2. Opening(o) = Cardinality(Held(Proc, g, 1)) /\ Opening(o)' = Cardinality(Held(Proc, h, 1))
  BY <1>1 DEF Opening
<1>3. \A q \in Proc \ {p} : h[q] = g[q] BY DEF Has
<1>4. Opening(o)' = Opening(o) + (IF h[p] = 1 THEN 1 ELSE 0) - (IF g[p] = 1 THEN 1 ELSE 0)
  <2>0. IsFiniteSet(Proc) BY ResourcesAssumption
  <2>1. Cardinality(Held(Proc, h, 1)) =
          Cardinality(Held(Proc, g, 1)) + (IF h[p] = 1 THEN 1 ELSE 0) - (IF g[p] = 1 THEN 1 ELSE 0)
    BY <1>3, <2>0, HeldStep
  <2> QED BY <2>1, <1>2
<1>5. (g[p] = 1 <=> Has(p, o)) /\ (h[p] = 1 <=> Has(p, o)') OBVIOUS
<1> QED BY <1>4, <1>5, OpeningFacts

HeldCounted == \A p \in Proc, o \in Obj : Has(p, o) => Opening(o) > 0
LEMMA OpeningPositive == HeldCounted
BY OpeningFacts DEF HeldCounted

\* How many there are, is a number.
LEMMA CountTypes == \A x : Places(x) \in Nat /\ Opening(x) \in Nat
BY PlacesFacts, OpeningFacts

-----------------------------------------------------------------------------

\* closeFile forgets the pointer, and deletes the OpenFile when it was the last.
LEMMA FileClosedStep ==
    ASSUME IInv, NEW p \in Proc, FileClosed(p) PROVE IInv'
<1>0. /\ TypeOK
      /\ FilesCounted /\ SemaphoresCounted /\ FreeUncounted /\ ProcessesCounted
      /\ NothingDangles /\ OneOpenFile
      /\ MutexHeld /\ PtrExact /\ AtExact /\ LivesExact /\ ForksExact /\ LostExact
  BY DEF IInv
<1>a. PICK n \in Slot : at[p] = n /\ table[p][n].kind = "FILE"
  BY <1>0 DEF AtExact, FileClosed, Closing
<1>b. PICK o \in Obj : table[p][n] = FileOf(o) /\ table[p][n].obj = o /\ start[o] \in Starts
  BY <1>0, <1>a, KindFacts DEF TypeOK, NothingDangles
<1>1. /\ pc[p] \in Closing
      /\ count' = [count EXCEPT ![o] = @ - 1]
      /\ start' = (IF count[o] = 1 THEN [start EXCEPT ![o] = -1] ELSE start)
      /\ openFiles' = [openFiles EXCEPT ![start[o]] = IF count[o] = 1 THEN Null ELSE o]
      /\ table' = TableWith(p, n, None)
      /\ mutex' = Null /\ at' = [at EXCEPT ![p] = 0]
      /\ \E place \in {"idle", "clear", "exit"} :
            pc' = [pc EXCEPT ![p] = place] /\ (place = "clear" <=> pc[p] = "clearClose")
      /\ UNCHANGED <<status, arg, ptr, lost>>
  BY <1>a, <1>b DEF FileClosed, Closing, Goto, Unref, Deleted
<1>2. /\ n \in Slot /\ o \in Obj /\ table[p][n] = FileOf(o) /\ table[p][n] \in Entries
      /\ start[o] \in Starts
  BY <1>a, <1>b, EntryFacts
<1>3. \A r : /\ Places(r) \in Nat
             /\ Places(r)' = Places(r) + (IF None = r THEN 1 ELSE 0) - (IF table[p][n] = r THEN 1 ELSE 0)
  BY <1>0, <1>1, <1>2, PlacesStep
<1>4. \A x : Opening(x)' = Opening(x) /\ Opening(x) \in Nat
  <2>1. \A q \in Proc \ {p} : pc'[q] = pc[q] /\ ptr'[q] = ptr[q] BY <1>0, <1>1 DEF TypeOK
  <2>2. \A x : Has(p, x)' <=> Has(p, x) BY <1>0, <1>1 DEF TypeOK, Has, Pointing, Closing
  <2> QED BY <2>1, <2>2, <1>0, OpeningStep
<1>5. /\ count[o] = Places(FileOf(o)) + Opening(o) + lost[o] /\ count[o] > 0 /\ count[o] \in Nat
      /\ Places(FileOf(o)) > 0 /\ lost[o] \in Nat
  BY <1>0, <1>2, PlacesPositive, ResourcesAssumption DEF FilesCounted, TypeOK, EntriesCounted
<1>6. /\ \A x : Places(SemaphoreOf(x))' = Places(SemaphoreOf(x)) /\ Places(ProcessOf(x))' = Places(ProcessOf(x))
      /\ \A x : x # o => Places(FileOf(x))' = Places(FileOf(x))
      /\ Places(FileOf(o))' = Places(FileOf(o)) - 1
  <2>1. \A x : Places(SemaphoreOf(x))' = Places(SemaphoreOf(x)) BY <1>2, <1>3, EntryFacts
  <2>2. \A x : Places(ProcessOf(x))' = Places(ProcessOf(x)) BY <1>2, <1>3, EntryFacts
  <2>3. \A x : x # o => Places(FileOf(x))' = Places(FileOf(x)) BY <1>2, <1>3, EntryFacts
  <2>4. Places(FileOf(o))' = Places(FileOf(o)) - 1 BY <1>2, <1>3, EntryFacts
  <2> QED BY <2>1, <2>2, <2>3, <2>4
<1>7. /\ \A x \in Obj \ {o} : start'[x] = start[x] /\ count'[x] = count[x]
      /\ \A q \in Proc : count'[q] = count[q]
      /\ count'[o] = count[o] - 1
      /\ start'[o] = IF count[o] = 1 THEN -1 ELSE start[o]
  BY <1>0, <1>1, <1>2, AddressAssumption DEF TypeOK
<1>8. mutex = p /\ \A q \in Proc \ {p} : pc[q] \notin Locking /\ pc'[q] = pc[q] /\ at'[q] = at[q]
  BY <1>0, <1>1 DEF MutexHeld, Locking, Closing, TypeOK
<1>9. TypeOK'
  <2>1. count' \in [Obj \cup Proc -> Nat] BY <1>0, <1>1, <1>2, <1>5 DEF TypeOK
  <2>2. table' \in [Proc -> [Slot -> Entries]] BY <1>0, <1>1, <1>2, EntryFacts DEF TypeOK, TableWith
  <2>3. start' \in [Obj -> Starts \cup {0, -1}] BY <1>0, <1>1, <1>2 DEF TypeOK
  <2>4. openFiles' \in [Starts -> Obj \cup {Null}] BY <1>0, <1>1, <1>2 DEF TypeOK
  <2>5. at' \in [Proc -> 0 .. Slots] BY <1>0, <1>1, ResourcesAssumption DEF TypeOK
  <2> QED BY <2>1, <2>2, <2>3, <2>4, <2>5, <1>0, <1>1 DEF TypeOK
<1>10. FilesCounted'
  <2> SUFFICES ASSUME NEW x \in Obj, start'[x] \in Starts
               PROVE  count'[x] = Places(FileOf(x))' + Opening(x)' + lost'[x] /\ count'[x] > 0
    BY DEF FilesCounted
  <2>1. CASE x = o
    <3>1. start'[o] # -1 BY <2>1, AddressAssumption
    <3> QED BY <3>1, <2>1, <1>1, <1>3, <1>4, <1>5, <1>6, <1>7
  <2>2. CASE x # o
    BY <2>2, <1>0, <1>1, <1>4, <1>6, <1>7 DEF FilesCounted
  <2> QED BY <2>1, <2>2
<1>11. SemaphoresCounted' /\ FreeUncounted' /\ ProcessesCounted' /\ LostExact'
  <2>1. SemaphoresCounted'
    BY <1>0, <1>1, <1>2, <1>6, <1>7, AddressAssumption DEF SemaphoresCounted
  <2>2. FreeUncounted'
    BY <1>0, <1>1, <1>2, <1>5, <1>7, AddressAssumption DEF FreeUncounted
  <2>3. ProcessesCounted'
    BY <1>0, <1>1, <1>6, <1>7 DEF ProcessesCounted
  <2>4. LostExact'
    <3>1. start'[o] = -1 => lost[o] = 0 BY <1>2, <1>3, <1>4, <1>5, <1>7, AddressAssumption
    <3>2. start'[o] # 0 BY <1>2, <1>7, AddressAssumption
    <3> QED BY <3>1, <3>2, <1>0, <1>1, <1>7 DEF LostExact
  <2> QED BY <2>1, <2>2, <2>3, <2>4
<1>12. NothingDangles'
  <2>0. EntriesCounted' BY PlacesPositive, PTL
  <2>1. ASSUME NEW q \in Proc, NEW i \in Slot
        PROVE  LET r == table'[q][i] IN
                 /\ r.kind = "FILE" => start'[r.obj] \in Starts
                 /\ r.kind = "SEMAPHORE" => start'[r.obj] = 0
                 /\ r.kind = "PROCESS" => status'[r.obj] \notin {"unborn", "forming"} /\ count'[r.obj] > 0
    <3> PICK r : r = table'[q][i] OBVIOUS
    <3>1. r = None \/ r = table[q][i] BY <1>0, <1>1 DEF TypeOK, TableWith
    <3>2. r = FileOf(o) => count[o] # 1
      <4>1. Places(r)' > 0 BY <2>0 DEF EntriesCounted
      <4> QED BY <4>1, <1>3, <1>4, <1>5, <1>6
    <3> QED BY <3>1, <3>2, <1>0, <1>1, <1>2, <1>7, <1>9, KindFacts, EntryFacts, AddressAssumption
        DEF NothingDangles, TypeOK
  <2>2. ASSUME NEW q \in Proc, ptr'[q] # Null PROVE start'[ptr'[q]] \in Starts
    <3>1. CASE ptr[q] = o
      <4>1. Has(q, o) BY <3>1, <2>2, <1>0, <1>1, <1>8 DEF Has, PtrExact, Locking, Closing, Pointing
      <4>2. count[o] # 1 BY <4>1, <1>4, <1>5, <1>3, OpeningPositive DEF HeldCounted
      <4> QED BY <4>2, <3>1, <1>1, <1>2, <1>7
    <3>2. CASE ptr[q] # o BY <3>2, <2>2, <1>0, <1>1, <1>7 DEF NothingDangles, TypeOK
    <3> QED BY <3>1, <3>2
  <2> QED BY <2>1, <2>2 DEF NothingDangles
<1>13. OneOpenFile'
  BY <1>0, <1>1, <1>2, <1>7, AddressAssumption DEF OneOpenFile, TypeOK, Null
<1>14. MutexHeld' BY <1>0, <1>1, <1>8, AddressAssumption DEF MutexHeld, Locking, Null, TypeOK
<1>15. PtrExact' BY <1>0, <1>1, <1>8 DEF PtrExact, Locking, Pointing, Closing, TypeOK
<1>16. AtExact' BY <1>0, <1>1, <1>8 DEF AtExact, Locking, Closing, TypeOK, TableWith
<1>17. LivesExact' BY <1>0, <1>1, <1>8 DEF LivesExact, Closing, TypeOK, TableWith, Used
<1>18. ForksExact' BY <1>0, <1>1, <1>8 DEF ForksExact, LivesExact, Closing, TypeOK, TableWith
<1> QED BY <1>9, <1>10, <1>11, <1>12, <1>13, <1>14, <1>15, <1>16, <1>17, <1>18 DEF IInv

-----------------------------------------------------------------------------
(***************************************************************************)
(* Steps that move no pointer.                                             *)
(***************************************************************************)

Counted(p) == status[p] \in {"live", "done", "dead"}

LEMMA QuietStep ==
    ASSUME IInv, TypeOK', UNCHANGED <<table, count, start, openFiles, lost>>,
           \A p \in Proc, o \in Obj : Has(p, o)' <=> Has(p, o),
           \A p \in Proc : Counted(p)' <=> Counted(p),
           \A p \in Proc : status[p] \notin {"unborn", "forming"} => status'[p] \notin {"unborn", "forming"},
           \A p \in Proc : ptr'[p] \in {Null, ptr[p]} \/ start[ptr'[p]] \in Starts
    PROVE  /\ FilesCounted' /\ SemaphoresCounted' /\ FreeUncounted' /\ ProcessesCounted'
           /\ NothingDangles' /\ OneOpenFile' /\ LostExact'
<1>0. /\ TypeOK
      /\ FilesCounted /\ SemaphoresCounted /\ FreeUncounted /\ ProcessesCounted
      /\ NothingDangles /\ OneOpenFile /\ LostExact
  BY DEF IInv
<1>1. \A o \in Obj : Opening(o)' = Opening(o)
  <2> TAKE o \in Obj
  <2> DEFINE Here == {q \in Proc : Has(q, o)}
  <2>1. Here' = Here OBVIOUS
  <2>2. Opening(o) = Cardinality(Here) /\ Opening(o)' = Cardinality(Here')
    BY DEF Opening, Has, Pointing
  <2> HIDE DEF Here
  <2> QED BY <2>1, <2>2
<1>2. \A r : Places(r)' = Places(r) BY DEF Places
<1>3. FilesCounted' BY <1>0, <1>1, <1>2 DEF FilesCounted
<1>4. SemaphoresCounted' /\ FreeUncounted' /\ LostExact' /\ OneOpenFile'
  BY <1>0, <1>2 DEF SemaphoresCounted, FreeUncounted, LostExact, OneOpenFile
<1>5. ProcessesCounted' BY <1>0, <1>2 DEF ProcessesCounted, Counted
<1>6. NothingDangles'
  <2>1. \A p \in Proc, n \in Slot : table[p][n].kind = "PROCESS" => table[p][n].obj \in Proc
    BY <1>0, KindFacts DEF TypeOK
  <2> QED BY <2>1, <1>0 DEF NothingDangles
<1> QED BY <1>3, <1>4, <1>5, <1>6

\* openFile locks the mutex and looks the file up.
LEMMA OpenStep ==
    ASSUME IInv, NEW p \in Proc, NEW s \in Starts, Open(p, s) PROVE IInv'
<1>0. /\ TypeOK /\ NothingDangles /\ OneOpenFile
      /\ MutexHeld /\ PtrExact /\ AtExact /\ LivesExact /\ ForksExact
  BY DEF IInv
<1>1. /\ mutex = Null /\ mutex' = p
      /\ pc[p] \in {"idle", "retry"} /\ status[p] = "live"
      /\ \E place \in {"open", "exec"} : pc' = [pc EXCEPT ![p] = place]
      /\ arg' = [arg EXCEPT ![p] = s] /\ ptr' = [ptr EXCEPT ![p] = openFiles[s]]
      /\ UNCHANGED <<table, status, count, start, openFiles, at, lost>>
  BY <1>0 DEF Open, Idle, Goto, LivesExact
<1>2. \A q \in Proc \ {p} : pc[q] \notin Locking /\ pc'[q] = pc[q] /\ ptr'[q] = ptr[q] /\ arg'[q] = arg[q]
  BY <1>0, <1>1, AddressAssumption DEF MutexHeld, TypeOK, Null
<1>3. ptr'[p] = openFiles[s] /\ openFiles[s] \in Obj \cup {Null}
      /\ (openFiles[s] # Null => start[openFiles[s]] = s)
  BY <1>0, <1>1 DEF TypeOK, OneOpenFile
<1>4. TypeOK' BY <1>0, <1>1, <1>3 DEF TypeOK
<1>5. \A q \in Proc, o \in Obj : Has(q, o)' <=> Has(q, o)
  BY <1>0, <1>1, <1>2 DEF Has, Pointing, TypeOK
<1>6. /\ FilesCounted' /\ SemaphoresCounted' /\ FreeUncounted' /\ ProcessesCounted'
      /\ NothingDangles' /\ OneOpenFile' /\ LostExact'
  BY <1>1, <1>2, <1>3, <1>4, <1>5, QuietStep DEF Counted
<1>7. MutexHeld' BY <1>0, <1>1, <1>2 DEF MutexHeld, Locking, TypeOK
<1>8. PtrExact' BY <1>0, <1>1, <1>2, <1>3 DEF PtrExact, Locking, Pointing, TypeOK
<1>9. AtExact' BY <1>0, <1>1, <1>2 DEF AtExact, Closing, TypeOK
<1>10. LivesExact' BY <1>0, <1>1, <1>2 DEF LivesExact, TypeOK, Used
<1>11. ForksExact' BY <1>0, <1>1, <1>2 DEF ForksExact, TypeOK
<1> QED BY <1>4, <1>6, <1>7, <1>8, <1>9, <1>10, <1>11 DEF IInv

\* A slot with a File is about to be closed: its destructor takes the mutex.
LEMMA CloseFileStep ==
    ASSUME IInv, NEW p \in Proc, NEW n \in Slot, CloseFile(p, n) PROVE IInv'
<1>0. /\ TypeOK /\ MutexHeld /\ PtrExact /\ AtExact /\ LivesExact /\ ForksExact
  BY DEF IInv
<1>1. /\ mutex = Null /\ mutex' = p
      /\ pc[p] \in {"idle", "clear", "exit"} /\ n \in Used(p) /\ table[p][n].kind = "FILE"
      /\ pc' = [pc EXCEPT ![p] = CASE pc[p] = "idle" -> "close" [] pc[p] = "clear" -> "clearClose"
                                   [] pc[p] = "exit" -> "exitClose"]
      /\ at' = [at EXCEPT ![p] = n]
      /\ UNCHANGED <<table, status, count, start, openFiles, arg, ptr, lost>>
  BY DEF CloseFile, MayClose, Idle, Goto
<1>2. /\ \A q \in Proc \ {p} : pc[q] \notin Locking /\ pc'[q] = pc[q] /\ at'[q] = at[q]
      /\ pc'[p] \in Closing /\ (pc'[p] = "clearClose" <=> pc[p] = "clear") /\ at'[p] = n
      /\ status[p] = "live"
  BY <1>0, <1>1, AddressAssumption DEF MutexHeld, TypeOK, Null, Closing, LivesExact, CloseFile, MayClose, Idle
<1>3. pc' \in [Proc -> {"close", "clearClose", "exitClose"} \cup
                       {"idle", "open", "exec", "retry", "install", "clear", "exit", "fork", "join"}]
  BY <1>0, <1>1, <1>2 DEF TypeOK, Closing
<1>4. TypeOK' BY <1>0, <1>1, <1>3, ResourcesAssumption DEF TypeOK, Slot
<1>5. \A q \in Proc, o \in Obj : Has(q, o)' <=> Has(q, o)
  BY <1>0, <1>1, <1>2 DEF Has, Pointing, Closing, TypeOK
<1>6. /\ FilesCounted' /\ SemaphoresCounted' /\ FreeUncounted' /\ ProcessesCounted'
      /\ NothingDangles' /\ OneOpenFile' /\ LostExact'
  BY <1>1, <1>4, <1>5, QuietStep DEF Counted
<1>7. MutexHeld' BY <1>0, <1>1, <1>2 DEF MutexHeld, Locking, Closing, TypeOK
<1>8. PtrExact' BY <1>0, <1>1, <1>2 DEF PtrExact, Closing, Pointing, TypeOK
<1>9. AtExact' BY <1>0, <1>1, <1>2 DEF AtExact, Closing, TypeOK
<1>10. LivesExact' BY <1>0, <1>1, <1>2 DEF LivesExact, TypeOK, Used
<1>11. ForksExact' BY <1>0, <1>1, <1>2 DEF ForksExact, TypeOK, Closing
<1> QED BY <1>4, <1>6, <1>7, <1>8, <1>9, <1>10, <1>11 DEF IInv

\* A child begins to be made.
LEMMA ForkStep ==
    ASSUME IInv, NEW p \in Proc, NEW c \in Proc, Fork(p, c) PROVE IInv'
<1>0. /\ TypeOK /\ MutexHeld /\ PtrExact /\ AtExact /\ LivesExact /\ ForksExact
  BY DEF IInv
<1>1. /\ status[p] = "live" /\ pc[p] = "idle" /\ status[c] = "unborn" /\ c # p
      /\ status' = [status EXCEPT ![c] = "forming"]
      /\ pc' = [pc EXCEPT ![p] = "fork"] /\ arg' = [arg EXCEPT ![p] = c]
      /\ UNCHANGED <<table, count, start, openFiles, mutex, at, ptr, lost>>
  BY DEF Fork, Idle, Goto
<1>4. TypeOK' BY <1>0, <1>1 DEF TypeOK
<1>5. \A q \in Proc, o \in Obj : Has(q, o)' <=> Has(q, o)
  BY <1>0, <1>1 DEF Has, Pointing, TypeOK
<1>6. /\ FilesCounted' /\ SemaphoresCounted' /\ FreeUncounted' /\ ProcessesCounted'
      /\ NothingDangles' /\ OneOpenFile' /\ LostExact'
  <2>1. \A q \in Proc : /\ Counted(q)' <=> Counted(q)
                        /\ status[q] \notin {"unborn", "forming"} => status'[q] \notin {"unborn", "forming"}
    BY <1>0, <1>1 DEF Counted, TypeOK
  <2> QED BY <1>1, <1>4, <1>5, <2>1, QuietStep
<1>7. MutexHeld' BY <1>0, <1>1 DEF MutexHeld, Locking, TypeOK
<1>8. PtrExact' BY <1>0, <1>1 DEF PtrExact, Pointing, TypeOK
<1>9. AtExact' BY <1>0, <1>1 DEF AtExact, Closing, TypeOK
<1>10. LivesExact' BY <1>0, <1>1 DEF LivesExact, TypeOK, Used
<1>11. ForksExact' BY <1>0, <1>1 DEF ForksExact, LivesExact, TypeOK, Used
<1> QED BY <1>4, <1>6, <1>7, <1>8, <1>9, <1>10, <1>11 DEF IInv

\* join begins; exit begins; exit signals; the process is queued for the reaper.
LEMMA LifeStep ==
    ASSUME IInv, NEW p \in Proc,
           (\E n \in Slot : Join(p, n)) \/ Exit(p) \/ ExitSignal(p) \/ Terminate(p)
    PROVE  IInv'
<1>0. /\ TypeOK /\ MutexHeld /\ PtrExact /\ AtExact /\ LivesExact /\ ForksExact
  BY DEF IInv
<1>1. /\ UNCHANGED <<table, count, start, openFiles, mutex, arg, ptr, lost>>
      /\ \/ /\ status[p] = "live" /\ pc[p] = "idle" /\ pc' = [pc EXCEPT ![p] = "join"]
            /\ \E n \in Slot : table[p][n].kind = "PROCESS" /\ at' = [at EXCEPT ![p] = n]
            /\ UNCHANGED status
         \/ /\ status[p] = "live" /\ pc[p] = "idle" /\ pc' = [pc EXCEPT ![p] = "exit"]
            /\ UNCHANGED <<status, at>>
         \/ /\ status[p] = "live" /\ pc[p] = "exit" /\ Used(p) = {}
            /\ status' = [status EXCEPT ![p] = "done"]
            /\ UNCHANGED <<pc, at>>
         \/ /\ status[p] = "done" /\ status' = [status EXCEPT ![p] = "dead"]
            /\ pc' = [pc EXCEPT ![p] = "idle"]
            /\ UNCHANGED at
  BY DEF Join, Exit, ExitSignal, Terminate, Idle, Goto
<1>2. status[p] = "done" => pc[p] = "exit" BY <1>0 DEF LivesExact
<1>4. TypeOK'
  <2>1. at' \in [Proc -> 0 .. Slots]
    <3>1. \A n \in Slot : n \in 0 .. Slots BY ResourcesAssumption DEF Slot
    <3>2. at' = at \/ \E n \in 0 .. Slots : at' = [at EXCEPT ![p] = n] BY <1>1, <3>1
    <3> QED BY <3>2, <1>0 DEF TypeOK
  <2>2. pc' \in [Proc -> {"idle", "open", "exec", "retry", "install", "clear", "close",
                          "clearClose", "exit", "exitClose", "fork", "join"}]
    BY <1>0, <1>1 DEF TypeOK
  <2>3. status' \in [Proc -> {"unborn", "forming", "live", "done", "dead", "reaped"}]
    BY <1>0, <1>1 DEF TypeOK
  <2> QED BY <1>0, <1>1, <2>1, <2>2, <2>3 DEF TypeOK
<1>5. \A q \in Proc, o \in Obj : Has(q, o)' <=> Has(q, o)
  BY <1>0, <1>1, <1>2 DEF Has, Pointing, TypeOK
<1>6. /\ FilesCounted' /\ SemaphoresCounted' /\ FreeUncounted' /\ ProcessesCounted'
      /\ NothingDangles' /\ OneOpenFile' /\ LostExact'
  <2>1. \A q \in Proc : /\ Counted(q)' <=> Counted(q)
                        /\ status[q] \notin {"unborn", "forming"} => status'[q] \notin {"unborn", "forming"}
    BY <1>0, <1>1 DEF Counted, TypeOK
  <2> QED BY <1>1, <1>4, <1>5, <2>1, QuietStep
<1>7. MutexHeld' BY <1>0, <1>1, <1>2 DEF MutexHeld, Locking, TypeOK
<1>8. PtrExact' BY <1>0, <1>1, <1>2 DEF PtrExact, Pointing, TypeOK
<1>9. AtExact' BY <1>0, <1>1, <1>2 DEF AtExact, Closing, TypeOK
<1>10. LivesExact' BY <1>0, <1>1, <1>2 DEF LivesExact, TypeOK, Used
<1>11. ForksExact' BY <1>0, <1>1, <1>2 DEF ForksExact, LivesExact, TypeOK
<1> QED BY <1>4, <1>6, <1>7, <1>8, <1>9, <1>10, <1>11 DEF IInv

-----------------------------------------------------------------------------
(***************************************************************************)
(* Steps that make a pointer, or move one.                                 *)
(***************************************************************************)

LEMMA FreeFacts ==
    ASSUME IInv, NEW o \in Obj, start[o] = -1
    PROVE  /\ Places(FileOf(o)) = 0 /\ Places(SemaphoreOf(o)) = 0 /\ Opening(o) = 0
           /\ count[o] = 0 /\ lost[o] = 0 /\ \A q \in Proc : ptr[q] # o
           /\ \A q \in Proc, i \in Slot : table[q][i] # FileOf(o) /\ table[q][i] # SemaphoreOf(o)
<1>0. -1 \notin Starts BY AddressAssumption
<1>1. \A q \in Proc, i \in Slot : table[q][i] # FileOf(o) /\ table[q][i] # SemaphoreOf(o)
  BY <1>0, EntryFacts DEF IInv, NothingDangles
<1>2. \A q \in Proc : ptr[q] # o BY <1>0, AddressAssumption DEF IInv, NothingDangles, Null
<1>3. {p \in Proc : pc[p] \in {"install", "clear", "clearClose"} /\ ptr[p] = o} = {} BY <1>2
<1>4. Opening(o) = 0 BY <1>3, FS_EmptySet DEF Opening
<1> QED BY <1>1, <1>2, <1>4, NoPlaces DEF IInv, FreeUncounted, LostExact

LEMMA UnbornFacts ==
    ASSUME IInv, NEW c \in Proc, status[c] \in {"unborn", "forming"}
    PROVE  Places(ProcessOf(c)) = 0 /\ count[c] = 0
<1>1. \A q \in Proc, i \in Slot : table[q][i] # ProcessOf(c)
  BY EntryFacts DEF IInv, NothingDangles
<1> QED BY <1>1, NoPlaces DEF IInv, ProcessesCounted

\* openFile counts the File that is to come, for the OpenFile that it found or
\* for a new one.
LEMMA OpenFileStep ==
    ASSUME IInv, NEW p \in Proc, OpenFile(p) PROVE IInv'
<1>0. /\ TypeOK
      /\ FilesCounted /\ SemaphoresCounted /\ FreeUncounted /\ ProcessesCounted
      /\ NothingDangles /\ OneOpenFile
      /\ MutexHeld /\ PtrExact /\ AtExact /\ LivesExact /\ ForksExact /\ LostExact
  BY DEF IInv
<1>a. PICK s \in Starts : s = arg[p] /\ ptr[p] = openFiles[s]
  BY <1>0 DEF PtrExact, OpenFile
<1>b. FreeObj # {} => NewObj \in FreeObj BY DEF NewObj
<1>c. PICK o \in Obj :
        /\ \/ start[o] = s /\ openFiles[s] = o
           \/ start[o] = -1 /\ openFiles[s] = Null
        /\ count' = [count EXCEPT ![o] = count[o] + 1]
        /\ start' = [start EXCEPT ![o] = s]
        /\ openFiles' = [openFiles EXCEPT ![s] = o]
        /\ ptr' = [ptr EXCEPT ![p] = o]
  <2>1. CASE ptr[p] = Null
    <3>1. NewObj \in Obj /\ start[NewObj] = -1 BY <2>1, <1>b DEF OpenFile, FreeObj
    <3>2. count[NewObj] = 0 BY <3>1, <1>0 DEF FreeUncounted
    <3> QED BY <2>1, <3>1, <3>2, <1>a DEF OpenFile
  <2>2. CASE ptr[p] # Null
    <3>1. ptr[p] \in Obj /\ start[ptr[p]] = s BY <2>2, <1>0, <1>a DEF OneOpenFile, TypeOK
    <3> QED BY <2>2, <3>1, <1>0, <1>a DEF OpenFile, Ref, TypeOK
  <2> QED BY <2>1, <2>2
<1>1. /\ pc[p] \in {"open", "exec"}
      /\ \E place \in {"install", "clear"} : pc' = [pc EXCEPT ![p] = place]
      /\ mutex' = Null
      /\ UNCHANGED <<table, status, arg, at, lost>>
  BY DEF OpenFile, Goto
<1>2. s # -1 /\ s # 0 /\ o # Null BY AddressAssumption DEF Null
<1>3. \A r : Places(r)' = Places(r) BY <1>1 DEF Places
<1>4. /\ \A x : x # o => Opening(x)' = Opening(x)
      /\ Opening(o)' = Opening(o) + 1
      /\ \A x : Places(x) \in Nat /\ Opening(x) \in Nat
  <2>1. \A q \in Proc \ {p} : pc'[q] = pc[q] /\ ptr'[q] = ptr[q] BY <1>0, <1>1, <1>c DEF TypeOK
  <2>2. ~Has(p, o) /\ Has(p, o)' /\ \A x : x # o => ~Has(p, x) /\ ~Has(p, x)'
    BY <1>0, <1>1, <1>c DEF TypeOK, Has, Pointing
  <2>3. \A x : Opening(x) \in Nat
        /\ Opening(x)' = Opening(x) + (IF Has(p, x)' THEN 1 ELSE 0) - (IF Has(p, x) THEN 1 ELSE 0)
    BY <2>1, <1>0, OpeningStep
  <2> QED BY <2>2, <2>3, CountTypes
<1>5. /\ count[o] = Places(FileOf(o)) + Opening(o) + lost[o]
      /\ count[o] \in Nat /\ lost[o] \in Nat
      /\ start[o] = -1 => lost[o] = 0 /\ \A q \in Proc : ptr[q] # o
      /\ start[o] = -1 => \A q \in Proc, i \in Slot : table[q][i] # FileOf(o) /\ table[q][i] # SemaphoreOf(o)
  <2>1. CASE start[o] = s BY <2>1, <1>0, <1>2, ResourcesAssumption DEF FilesCounted, TypeOK
  <2>2. CASE start[o] = -1
    <3>1. count[o] = 0 /\ lost[o] = 0 /\ Places(FileOf(o)) = 0 /\ Opening(o) = 0
      BY <2>2, FreeFacts
    <3>2. /\ \A q \in Proc : ptr[q] # o
          /\ \A q \in Proc, i \in Slot : table[q][i] # FileOf(o) /\ table[q][i] # SemaphoreOf(o)
      BY <2>2, FreeFacts
    <3> QED BY <3>1, <3>2
  <2> QED BY <2>1, <2>2, <1>c
<1>6. /\ \A x \in Obj \ {o} : start'[x] = start[x] /\ count'[x] = count[x]
      /\ \A q \in Proc : count'[q] = count[q]
      /\ count'[o] = count[o] + 1 /\ start'[o] = s
  BY <1>0, <1>c, AddressAssumption DEF TypeOK
<1>7. mutex = p /\ \A q \in Proc \ {p} : pc[q] \notin Locking /\ pc'[q] = pc[q] /\ ptr'[q] = ptr[q]
  BY <1>0, <1>1, <1>c DEF MutexHeld, Locking, TypeOK
<1>8. TypeOK'
  <2>1. count' \in [Obj \cup Proc -> Nat] BY <1>0, <1>c, <1>5 DEF TypeOK
  <2>2. start' \in [Obj -> Starts \cup {0, -1}] BY <1>0, <1>c DEF TypeOK
  <2>3. openFiles' \in [Starts -> Obj \cup {Null}] BY <1>0, <1>c DEF TypeOK
  <2>4. ptr' \in [Proc -> Obj \cup {Null}] BY <1>0, <1>c DEF TypeOK
  <2> QED BY <2>1, <2>2, <2>3, <2>4, <1>0, <1>1 DEF TypeOK
<1>9. FilesCounted'
  <2> SUFFICES ASSUME NEW x \in Obj, start'[x] \in Starts
               PROVE  count'[x] = Places(FileOf(x))' + Opening(x)' + lost'[x] /\ count'[x] > 0
    BY DEF FilesCounted
  <2>1. CASE x = o
    <3>1. Places(FileOf(o)) \in Nat /\ Opening(o) \in Nat BY <1>4
    <3>2. Places(FileOf(o))' = Places(FileOf(o)) /\ lost'[o] = lost[o] BY <1>1, <1>3
    <3> QED BY <3>1, <3>2, <2>1, <1>4, <1>5, <1>6
  <2>2. CASE x # o BY <2>2, <1>0, <1>1, <1>3, <1>4, <1>6 DEF FilesCounted
  <2> QED BY <2>1, <2>2
<1>10. SemaphoresCounted' BY <1>0, <1>1, <1>2, <1>3, <1>6 DEF SemaphoresCounted
<1>11. FreeUncounted' /\ LostExact' BY <1>0, <1>1, <1>2, <1>6 DEF FreeUncounted, LostExact
<1>12. ProcessesCounted' BY <1>0, <1>1, <1>3, <1>6 DEF ProcessesCounted
<1>13. NothingDangles'
  <2>1. ASSUME NEW q \in Proc, NEW i \in Slot
        PROVE  LET r == table'[q][i] IN
                 /\ r.kind = "FILE" => start'[r.obj] \in Starts
                 /\ r.kind = "SEMAPHORE" => start'[r.obj] = 0
                 /\ r.kind = "PROCESS" => status'[r.obj] \notin {"unborn", "forming"} /\ count'[r.obj] > 0
    <3> PICK r : r = table[q][i] OBVIOUS
    <3>1. r \in Entries /\ table'[q][i] = r BY <1>0, <1>1 DEF TypeOK
    <3>2. r.kind = "FILE" => start'[r.obj] \in Starts
      BY <3>1, <1>0, <1>6, KindFacts DEF NothingDangles
    <3>3. r.kind = "SEMAPHORE" => r.obj \in Obj \ {o}
      <4>1. r.kind = "SEMAPHORE" => r.obj \in Obj /\ r = SemaphoreOf(r.obj) /\ start[r.obj] = 0
        BY <3>1, <1>0, KindFacts DEF NothingDangles
      <4>2. start[o] = -1 \/ start[o] = s BY <1>c
      <4> QED BY <4>1, <4>2, <1>2
    <3>4. r.kind = "SEMAPHORE" => start'[r.obj] = 0 BY <3>1, <3>3, <1>0, <1>6 DEF NothingDangles
    <3>5. r.kind = "PROCESS" => status'[r.obj] \notin {"unborn", "forming"} /\ count'[r.obj] > 0
      <4>1. r.kind = "PROCESS" => r.obj \in Proc BY <3>1, KindFacts
      <4> QED BY <4>1, <3>1, <1>0, <1>1, <1>6 DEF NothingDangles
    <3> QED BY <3>1, <3>2, <3>4, <3>5
  <2>2. ASSUME NEW q \in Proc, ptr'[q] # Null PROVE start'[ptr'[q]] \in Starts
    BY <2>2, <1>0, <1>c, <1>6 DEF NothingDangles, TypeOK
  <2> QED BY <2>1, <2>2 DEF NothingDangles
<1>14. OneOpenFile'
  <2> SUFFICES ASSUME NEW z \in Starts, NEW x \in Obj PROVE openFiles'[z] = x <=> start'[x] = z
    BY DEF OneOpenFile
  <2>1. openFiles'[z] = (IF z = s THEN o ELSE openFiles[z]) /\ start'[x] = (IF x = o THEN s ELSE start[x])
    BY <1>0, <1>c DEF TypeOK
  <2>2. (openFiles[z] = x <=> start[x] = z) /\ (openFiles[z] = o <=> start[o] = z)
        /\ (openFiles[s] = x <=> start[x] = s)
    BY <1>0 DEF OneOpenFile
  <2>3. z # -1 /\ x # Null BY AddressAssumption DEF Null
  <2> QED BY <2>1, <2>2, <2>3, <1>2, <1>c
<1>15. MutexHeld' BY <1>0, <1>1, <1>7, AddressAssumption DEF MutexHeld, Locking, TypeOK, Null
<1>16. PtrExact' BY <1>0, <1>1, <1>7, <1>c DEF PtrExact, Locking, Pointing, TypeOK
<1>17. AtExact' BY <1>0, <1>1 DEF AtExact, Closing, TypeOK
<1>18. LivesExact' BY <1>0, <1>1 DEF LivesExact, TypeOK, Used
<1>19. ForksExact' BY <1>0, <1>1 DEF ForksExact, TypeOK
<1> QED BY <1>8, <1>9, <1>10, <1>11, <1>12, <1>13, <1>14, <1>15, <1>16, <1>17, <1>18, <1>19 DEF IInv

\* The File gets its slot, or is lost.
LEMMA KeepStep ==
    ASSUME IInv, NEW p \in Proc, Install(p) \/ Exec(p) PROVE IInv'
<1>0. /\ TypeOK
      /\ FilesCounted /\ SemaphoresCounted /\ FreeUncounted /\ ProcessesCounted
      /\ NothingDangles /\ OneOpenFile
      /\ MutexHeld /\ PtrExact /\ AtExact /\ LivesExact /\ ForksExact /\ LostExact
  BY DEF IInv
<1>a. PICK o \in Obj : o = ptr[p] /\ start[o] \in Starts
  BY <1>0, AddressAssumption DEF PtrExact, Pointing, Install, Exec, NothingDangles, Null
<1>b. FreeSlots(p) # {} => Least(FreeSlots(p)) \in FreeSlots(p)
  BY LeastFacts DEF FreeSlots
<1>1. /\ pc[p] \in {"install", "clear"} /\ status[p] = "live"
      /\ pc' = [pc EXCEPT ![p] = "idle"] /\ arg' = [arg EXCEPT ![p] = Null]
      /\ ptr' = [ptr EXCEPT ![p] = Null]
      /\ UNCHANGED <<status, count, start, openFiles, mutex, at>>
      /\ \/ table' = table /\ lost[o] < MaxLost /\ lost' = [lost EXCEPT ![o] = lost[o] + 1]
         \/ /\ \E n \in Slot : table[p][n] = None /\ table' = TableWith(p, n, FileOf(o))
            /\ lost' = lost
  <2>1. pc[p] \in {"install", "clear"} /\ status[p] = "live"
    BY <1>0 DEF Install, Exec, LivesExact
  <2>2. /\ pc' = [pc EXCEPT ![p] = "idle"] /\ arg' = [arg EXCEPT ![p] = Null]
        /\ ptr' = [ptr EXCEPT ![p] = Null]
        /\ UNCHANGED <<status, count, start, openFiles, mutex, at>>
    BY DEF Install, Exec, Return, Goto
  <2>3. \/ table' = table /\ lost[o] < MaxLost /\ lost' = [lost EXCEPT ![o] = lost[o] + 1]
        \/ /\ \E n \in Slot : table[p][n] = None /\ table' = TableWith(p, n, FileOf(o))
           /\ lost' = lost
    <3>1. CASE Install(p) BY <3>1, <1>a, <1>b DEF Install, Lose, FreeSlots
    <3>2. CASE Exec(p) BY <3>2, <1>a DEF Exec, Lose
    <3> QED BY <3>1, <3>2
  <2> QED BY <2>1, <2>2, <2>3
<1>2. start[o] # -1 /\ start[o] # 0 /\ o # Null BY <1>a, AddressAssumption DEF Null
<1>3. /\ \A r : Places(r) \in Nat /\ (r # FileOf(o) /\ r # None => Places(r)' = Places(r))
      /\ Places(FileOf(o))' \in Nat
      /\ Places(FileOf(o))' + lost'[o] = Places(FileOf(o)) + lost[o] + 1
      /\ \A x \in Obj \ {o} : lost'[x] = lost[x]
      /\ lost[o] \in Nat /\ lost'[o] \in Nat
  <2>0. Places(FileOf(o)) \in Nat /\ lost[o] \in Nat BY <1>0, CountTypes, ResourcesAssumption DEF TypeOK
  <2>1. CASE table' = table /\ lost[o] < MaxLost /\ lost' = [lost EXCEPT ![o] = lost[o] + 1]
    <3>1. \A r : Places(r)' = Places(r) BY <2>1 DEF Places
    <3>2. lost'[o] = lost[o] + 1 /\ \A x \in Obj \ {o} : lost'[x] = lost[x] BY <1>0, <2>1 DEF TypeOK
    <3> QED BY <3>1, <3>2, <2>0, CountTypes
  <2>2. ASSUME NEW n \in Slot, table[p][n] = None, table' = TableWith(p, n, FileOf(o)), lost' = lost
        PROVE <1>3!:
    <3>1. \A r : /\ Places(r) \in Nat
                 /\ Places(r)' = Places(r) + (IF FileOf(o) = r THEN 1 ELSE 0) - (IF None = r THEN 1 ELSE 0)
      BY <1>0, <2>2, PlacesStep
    <3>2. Places(FileOf(o))' = Places(FileOf(o)) + 1 BY <3>1, EntryFacts
    <3>3. \A r : r # FileOf(o) /\ r # None => Places(r)' = Places(r) BY <3>1
    <3> QED BY <3>1, <3>2, <3>3, <2>0, <2>2
  <2> QED BY <2>1, <2>2, <1>1
<1>4. \A q \in Proc, i \in Slot : \/ table'[q][i] = table[q][i]
                                  \/ table'[q][i] = FileOf(o) /\ table[q][i] = None /\ q = p
  BY <1>0, <1>1 DEF TypeOK, TableWith
<1>5. /\ \A x : x # o => Opening(x)' = Opening(x)
      /\ Opening(o)' = Opening(o) - 1 /\ \A x : Opening(x) \in Nat
  <2>1. \A q \in Proc \ {p} : pc'[q] = pc[q] /\ ptr'[q] = ptr[q] BY <1>0, <1>1 DEF TypeOK
  <2>2. Has(p, o) /\ ~Has(p, o)' /\ \A x : x # o => ~Has(p, x) /\ ~Has(p, x)'
    BY <1>0, <1>1, <1>a, <1>2 DEF TypeOK, Has, Pointing
  <2>3. \A x : Opening(x) \in Nat
        /\ Opening(x)' = Opening(x) + (IF Has(p, x)' THEN 1 ELSE 0) - (IF Has(p, x) THEN 1 ELSE 0)
    BY <2>1, <1>0, OpeningStep
  <2> QED BY <2>2, <2>3
<1>6. TypeOK'
  <2>1. lost' \in [Obj -> 0 .. MaxLost] BY <1>0, <1>1, ResourcesAssumption DEF TypeOK
  <2>2. table' \in [Proc -> [Slot -> Entries]]
    <3>1. ASSUME NEW n \in Slot, table' = TableWith(p, n, FileOf(o)) PROVE <2>2!:
      BY <3>1, <1>0, EntryFacts DEF TypeOK, TableWith
    <3> QED BY <3>1, <1>0, <1>1 DEF TypeOK
  <2> QED BY <2>1, <2>2, <1>0, <1>1 DEF TypeOK
<1>7. FilesCounted'
  <2> SUFFICES ASSUME NEW x \in Obj, start[x] \in Starts
               PROVE  count[x] = Places(FileOf(x))' + Opening(x)' + lost'[x] /\ count[x] > 0
    BY <1>1 DEF FilesCounted
  <2>0. count[x] = Places(FileOf(x)) + Opening(x) + lost[x] /\ count[x] > 0 BY <1>0 DEF FilesCounted
  <2>1. CASE x = o
    <3>1. Places(FileOf(o)) \in Nat /\ Opening(o) \in Nat BY <1>3, <1>5
    <3> QED BY <3>1, <2>0, <2>1, <1>3, <1>5
  <2>2. CASE x # o
    <3>1. FileOf(x) # FileOf(o) /\ FileOf(x) # None BY <2>2, EntryFacts
    <3> QED BY <3>1, <2>0, <2>2, <1>3, <1>5
  <2> QED BY <2>1, <2>2
<1>8. /\ \A x : Places(SemaphoreOf(x))' = Places(SemaphoreOf(x))
      /\ \A x : Places(ProcessOf(x))' = Places(ProcessOf(x))
  <2>1. \A x : /\ SemaphoreOf(x) # FileOf(o) /\ SemaphoreOf(x) # None
               /\ ProcessOf(x) # FileOf(o) /\ ProcessOf(x) # None
    BY EntryFacts DEF FileOf, SemaphoreOf, ProcessOf
  <2> QED BY <2>1, <1>3
<1>9. SemaphoresCounted'
  BY <1>0, <1>1, <1>2, <1>3, <1>8 DEF SemaphoresCounted
<1>10. FreeUncounted' /\ LostExact' BY <1>0, <1>1, <1>2, <1>3 DEF FreeUncounted, LostExact
<1>11. ProcessesCounted' BY <1>0, <1>1, <1>8 DEF ProcessesCounted
<1>12. NothingDangles'
  <2>1. ASSUME NEW q \in Proc, NEW i \in Slot
        PROVE  LET r == table'[q][i] IN
                 /\ r.kind = "FILE" => start'[r.obj] \in Starts
                 /\ r.kind = "SEMAPHORE" => start'[r.obj] = 0
                 /\ r.kind = "PROCESS" => status'[r.obj] \notin {"unborn", "forming"} /\ count'[r.obj] > 0
    <3>1. CASE table'[q][i] = table[q][i] BY <3>1, <1>0, <1>1 DEF NothingDangles
    <3>2. CASE table'[q][i] = FileOf(o) BY <3>2, <1>1, <1>a, EntryFacts
    <3> QED BY <3>1, <3>2, <1>4
  <2>2. ASSUME NEW q \in Proc, ptr'[q] # Null PROVE start'[ptr'[q]] \in Starts
    BY <2>2, <1>0, <1>1 DEF NothingDangles, TypeOK
  <2> QED BY <2>1, <2>2 DEF NothingDangles
<1>13. OneOpenFile' BY <1>0, <1>1 DEF OneOpenFile
<1>14. MutexHeld' BY <1>0, <1>1 DEF MutexHeld, Locking, TypeOK
<1>15. PtrExact' BY <1>0, <1>1 DEF PtrExact, Pointing, TypeOK
<1>16. AtExact'
  <2>1. \A q \in Proc \ {p} : pc'[q] = pc[q] BY <1>0, <1>1 DEF TypeOK
  <2>2. pc'[p] = "idle" /\ pc[p] \notin Closing \cup {"join", "fork"} BY <1>0, <1>1 DEF TypeOK, Closing
  <2>3. \A q \in Proc \ {p}, i \in Slot : table'[q][i] = table[q][i] BY <1>4
  <2> QED BY <2>1, <2>2, <2>3, <1>0, <1>1 DEF AtExact, Closing
<1>17. LivesExact'
  <2>1. \A q \in Proc : q # p => Used(q)' = Used(q) BY <1>4 DEF Used
  <2> QED BY <2>1, <1>0, <1>1 DEF LivesExact, TypeOK
<1>18. ForksExact' BY <1>0, <1>1, <1>4 DEF ForksExact, TypeOK
<1> QED BY <1>6, <1>7, <1>9, <1>10, <1>11, <1>12, <1>13, <1>14, <1>15, <1>16, <1>17, <1>18 DEF IInv

\* execv gives the File of something that is no program back.
LEMMA NotElfStep ==
    ASSUME IInv, NEW p \in Proc, NotElf(p) PROVE IInv'
<1>0. /\ TypeOK
      /\ FilesCounted /\ SemaphoresCounted /\ FreeUncounted /\ ProcessesCounted
      /\ NothingDangles /\ OneOpenFile
      /\ MutexHeld /\ PtrExact /\ AtExact /\ LivesExact /\ ForksExact /\ LostExact
  BY DEF IInv
<1>a. PICK o \in Obj : ptr[p] = o /\ start[o] \in Starts
  BY <1>0, AddressAssumption DEF PtrExact, Pointing, NotElf, NothingDangles, Null
<1>1. /\ pc[p] = "clear" /\ mutex = Null
      /\ count' = [count EXCEPT ![o] = @ - 1]
      /\ start' = (IF count[o] = 1 THEN [start EXCEPT ![o] = -1] ELSE start)
      /\ openFiles' = [openFiles EXCEPT ![start[o]] = IF count[o] = 1 THEN Null ELSE o]
      /\ pc' = [pc EXCEPT ![p] = "retry"] /\ ptr' = [ptr EXCEPT ![p] = Null]
      /\ UNCHANGED <<table, status, mutex, arg, at, lost>>
  BY <1>a DEF NotElf, Goto, Unref, Deleted
<1>2. status[p] = "live" /\ o # Null BY <1>0, <1>1, AddressAssumption DEF LivesExact, Null
<1>3. \A r : Places(r)' = Places(r) /\ Places(r) \in Nat BY <1>1, CountTypes DEF Places
<1>4. /\ \A x : x # o => Opening(x)' = Opening(x)
      /\ Opening(o)' = Opening(o) - 1 /\ \A x : Opening(x) \in Nat
      /\ Opening(o)' \in Nat
  <2>1. \A q \in Proc \ {p} : pc'[q] = pc[q] /\ ptr'[q] = ptr[q] BY <1>0, <1>1 DEF TypeOK
  <2>2. Has(p, o) /\ ~Has(p, o)' /\ \A x : x # o => ~Has(p, x) /\ ~Has(p, x)'
    BY <1>0, <1>1, <1>a, <1>2 DEF TypeOK, Has, Pointing
  <2>3. \A x : Opening(x) \in Nat
        /\ Opening(x)' = Opening(x) + (IF Has(p, x)' THEN 1 ELSE 0) - (IF Has(p, x) THEN 1 ELSE 0)
    BY <2>1, <1>0, OpeningStep
  <2>4. Opening(o) > 0 BY <2>2, OpeningPositive DEF HeldCounted
  <2>5. Opening(o)' = Opening(o) - 1 BY <2>2, <2>3
  <2> QED BY <2>2, <2>3, <2>4, <2>5
<1>5. /\ count[o] = Places(FileOf(o)) + Opening(o) + lost[o] /\ count[o] > 0 /\ count[o] \in Nat
      /\ lost[o] \in Nat
  BY <1>0, <1>a, ResourcesAssumption DEF FilesCounted, TypeOK
<1>7. /\ \A x \in Obj \ {o} : start'[x] = start[x] /\ count'[x] = count[x]
      /\ \A q \in Proc : count'[q] = count[q]
      /\ count'[o] = count[o] - 1
      /\ start'[o] = IF count[o] = 1 THEN -1 ELSE start[o]
  BY <1>0, <1>1, AddressAssumption DEF TypeOK
<1>8. /\ \A q \in Proc : pc[q] \notin Locking
      /\ \A q \in Proc \ {p} : pc'[q] = pc[q] /\ ptr'[q] = ptr[q]
  BY <1>0, <1>1, AddressAssumption DEF MutexHeld, TypeOK, Null
<1>9. TypeOK'
  <2>1. count' \in [Obj \cup Proc -> Nat] BY <1>0, <1>1, <1>5 DEF TypeOK
  <2>3. start' \in [Obj -> Starts \cup {0, -1}] BY <1>0, <1>1 DEF TypeOK
  <2>4. openFiles' \in [Starts -> Obj \cup {Null}] BY <1>0, <1>1, <1>a DEF TypeOK
  <2> QED BY <2>1, <2>3, <2>4, <1>0, <1>1 DEF TypeOK
<1>10. FilesCounted'
  <2> SUFFICES ASSUME NEW x \in Obj, start'[x] \in Starts
               PROVE  count'[x] = Places(FileOf(x))' + Opening(x)' + lost'[x] /\ count'[x] > 0
    BY DEF FilesCounted
  <2>1. CASE x = o
    <3>1. start'[o] # -1 BY <2>1, AddressAssumption
    <3>2. Places(FileOf(o)) \in Nat /\ Opening(o) \in Nat BY <1>3, <1>4
    <3>3. Places(FileOf(o))' = Places(FileOf(o)) /\ lost'[o] = lost[o] BY <1>1, <1>3
    <3> QED BY <3>1, <3>2, <3>3, <2>1, <1>4, <1>5, <1>7
  <2>2. CASE x # o
    BY <2>2, <1>0, <1>1, <1>3, <1>4, <1>7 DEF FilesCounted
  <2> QED BY <2>1, <2>2
<1>11. SemaphoresCounted'
  BY <1>0, <1>1, <1>a, <1>3, <1>7, AddressAssumption DEF SemaphoresCounted
<1>12. FreeUncounted'
  BY <1>0, <1>a, <1>5, <1>7, AddressAssumption DEF FreeUncounted
<1>13. ProcessesCounted' BY <1>0, <1>1, <1>3, <1>7 DEF ProcessesCounted
<1>14. start'[o] = -1 => lost[o] = 0 /\ Places(FileOf(o)) = 0 /\ Opening(o)' = 0
  <2>1. start'[o] = -1 => count[o] = 1 BY <1>7, <1>a, AddressAssumption
  <2>2. Places(FileOf(o)) \in Nat /\ Opening(o) \in Nat BY <1>3, <1>4
  <2> QED BY <2>1, <2>2, <1>4, <1>5
<1>15. LostExact'
  <2>2. start'[o] # 0 BY <1>a, <1>7, AddressAssumption
  <2> QED BY <1>14, <2>2, <1>0, <1>1, <1>7 DEF LostExact
<1>16. NothingDangles'
  <2>1. ASSUME NEW q \in Proc, NEW i \in Slot
        PROVE  LET r == table'[q][i] IN
                 /\ r.kind = "FILE" => start'[r.obj] \in Starts
                 /\ r.kind = "SEMAPHORE" => start'[r.obj] = 0
                 /\ r.kind = "PROCESS" => status'[r.obj] \notin {"unborn", "forming"} /\ count'[r.obj] > 0
    <3> PICK r \in Entries : r = table[q][i] /\ r = table'[q][i] BY <1>0, <1>1 DEF TypeOK
    <3>2. r = FileOf(o) => count[o] # 1
      <4>1. Places(r) > 0 BY <1>0, PlacesPositive DEF EntriesCounted
      <4> QED BY <4>1, <1>7, <1>14
    <3> QED BY <3>2, <1>0, <1>1, <1>a, <1>7, KindFacts, EntryFacts, AddressAssumption
        DEF NothingDangles
  <2>2. ASSUME NEW q \in Proc, ptr'[q] # Null PROVE start'[ptr'[q]] \in Starts
    <3>0. q # p /\ ptr'[q] = ptr[q] /\ ptr[q] \in Obj BY <2>2, <1>0, <1>1 DEF TypeOK
    <3>1. CASE ptr[q] = o
      <4>1. Has(q, o) BY <3>1, <1>0, <1>2, <1>8 DEF Has, PtrExact, Locking, Pointing
      <4>2. Has(q, o)' BY <3>0, <4>1, <1>8 DEF Has
      <4>3. HeldCounted' BY OpeningPositive, PTL
      <4>4. count[o] # 1 BY <4>2, <4>3, <1>7, <1>14 DEF HeldCounted
      <4> QED BY <4>4, <3>0, <3>1, <1>a, <1>7
    <3>2. CASE ptr[q] # o BY <3>2, <3>0, <2>2, <1>0, <1>7 DEF NothingDangles
    <3> QED BY <3>1, <3>2
  <2> QED BY <2>1, <2>2 DEF NothingDangles
<1>17. OneOpenFile'
  BY <1>0, <1>1, <1>a, <1>7, AddressAssumption DEF OneOpenFile, TypeOK, Null
<1>18. MutexHeld' BY <1>0, <1>1, <1>8 DEF MutexHeld, Locking, TypeOK
<1>19. PtrExact' BY <1>0, <1>1, <1>8 DEF PtrExact, Locking, Pointing, TypeOK
<1>20. AtExact' BY <1>0, <1>1 DEF AtExact, Closing, TypeOK
<1>21. LivesExact' BY <1>0, <1>1, <1>2 DEF LivesExact, TypeOK, Used
<1>22. ForksExact' BY <1>0, <1>1 DEF ForksExact, TypeOK
<1> QED BY <1>9, <1>10, <1>11, <1>12, <1>13, <1>15, <1>16, <1>17, <1>18, <1>19, <1>20, <1>21, <1>22 DEF IInv

\* A new semaphore has one pointer, in the table or lost.
LEMMA NewSemaphoreStep ==
    ASSUME IInv, NEW p \in Proc, NewSemaphore(p) PROVE IInv'
<1>0. /\ TypeOK
      /\ FilesCounted /\ SemaphoresCounted /\ FreeUncounted /\ ProcessesCounted
      /\ NothingDangles /\ OneOpenFile
      /\ MutexHeld /\ PtrExact /\ AtExact /\ LivesExact /\ ForksExact /\ LostExact
  BY DEF IInv
<1>a. PICK o \in Obj : o = NewObj /\ start[o] = -1
  BY DEF NewSemaphore, FreeObj, NewObj
<1>b. FreeSlots(p) # {} => Least(FreeSlots(p)) \in FreeSlots(p)
  BY LeastFacts DEF FreeSlots
<1>1. /\ pc[p] = "idle" /\ status[p] = "live"
      /\ start' = [start EXCEPT ![o] = 0]
      /\ UNCHANGED <<status, openFiles, mutex, pc, arg, at, ptr>>
      /\ \/ table' = table /\ count' = count /\ lost[o] < MaxLost /\ lost' = [lost EXCEPT ![o] = lost[o] + 1]
         \/ /\ \E n \in Slot : table[p][n] = None /\ table' = TableWith(p, n, SemaphoreOf(o))
            /\ count' = [count EXCEPT ![o] = count[o] + 1] /\ lost' = lost
  <2>1. \/ table' = table /\ count' = count /\ lost[o] < MaxLost /\ lost' = [lost EXCEPT ![o] = lost[o] + 1]
        \/ /\ \E n \in Slot : table[p][n] = None /\ table' = TableWith(p, n, SemaphoreOf(o))
           /\ count' = [count EXCEPT ![o] = count[o] + 1] /\ lost' = lost
    BY <1>a, <1>b DEF NewSemaphore, Lose, FreeSlots, Ref
  <2> QED BY <2>1, <1>a DEF NewSemaphore, Idle
<1>2. /\ Places(FileOf(o)) = 0 /\ Places(SemaphoreOf(o)) = 0 /\ count[o] = 0 /\ lost[o] = 0
      /\ \A q \in Proc : ptr[q] # o
      /\ \A q \in Proc, i \in Slot : table[q][i] # FileOf(o) /\ table[q][i] # SemaphoreOf(o)
  BY <1>a, FreeFacts
<1>3. \A q \in Proc, i \in Slot : \/ table'[q][i] = table[q][i]
                                  \/ /\ table'[q][i] = SemaphoreOf(o) /\ table[q][i] = None /\ q = p
                                     /\ count'[o] = 1
  BY <1>0, <1>1, <1>2 DEF TypeOK, TableWith
<1>4. /\ \A x \in Obj \ {o} : start'[x] = start[x] /\ count'[x] = count[x] /\ lost'[x] = lost[x]
      /\ \A q \in Proc : count'[q] = count[q]
      /\ start'[o] = 0
  BY <1>0, <1>1, AddressAssumption DEF TypeOK
<1>5. /\ \A x : x \in Obj => Places(FileOf(x))' = Places(FileOf(x))
      /\ \A x : x # o => Places(SemaphoreOf(x))' = Places(SemaphoreOf(x))
      /\ \A x : Places(ProcessOf(x))' = Places(ProcessOf(x))
      /\ count'[o] = Places(SemaphoreOf(o))' /\ count'[o] \in Nat /\ lost'[o] \in Nat
      /\ count'[o] + lost'[o] > 0 /\ (count'[o] > 0 => lost'[o] = 0)
  <2>1. CASE table' = table /\ count' = count /\ lost' = [lost EXCEPT ![o] = lost[o] + 1]
    <3>1. \A r : Places(r)' = Places(r) BY <2>1 DEF Places
    <3>2. count'[o] = 0 /\ lost'[o] = 1 BY <1>0, <1>2, <2>1 DEF TypeOK
    <3> QED BY <3>1, <3>2, <1>2
  <2>2. ASSUME NEW n \in Slot, table[p][n] = None, table' = TableWith(p, n, SemaphoreOf(o)),
               count' = [count EXCEPT ![o] = count[o] + 1], lost' = lost
        PROVE <1>5!:
    <3>1. \A r : /\ Places(r) \in Nat
                 /\ Places(r)' = Places(r) + (IF SemaphoreOf(o) = r THEN 1 ELSE 0) - (IF None = r THEN 1 ELSE 0)
      BY <1>0, <2>2, PlacesStep
    <3>2. Places(SemaphoreOf(o))' = 1 BY <3>1, <1>2, EntryFacts
    <3>3. \A r : r # SemaphoreOf(o) /\ r # None => Places(r)' = Places(r) BY <3>1
    <3>4. count'[o] = 1 /\ lost'[o] = 0 BY <1>0, <1>2, <2>2 DEF TypeOK
    <3>5. \A x : /\ FileOf(x) # SemaphoreOf(o) /\ FileOf(x) # None
                 /\ ProcessOf(x) # SemaphoreOf(o) /\ ProcessOf(x) # None
                 /\ x # o => SemaphoreOf(x) # SemaphoreOf(o) /\ SemaphoreOf(x) # None
      BY EntryFacts DEF FileOf, SemaphoreOf, ProcessOf
    <3> QED BY <3>2, <3>3, <3>4, <3>5
  <2> QED BY <2>1, <2>2, <1>1
<1>6. \A x : Opening(x)' = Opening(x) BY <1>1 DEF Opening
<1>7. TypeOK'
  <2>1. lost' \in [Obj -> 0 .. MaxLost] BY <1>0, <1>1, ResourcesAssumption DEF TypeOK
  <2>2. table' \in [Proc -> [Slot -> Entries]]
    <3>1. ASSUME NEW n \in Slot, table' = TableWith(p, n, SemaphoreOf(o)) PROVE <2>2!:
      BY <3>1, <1>0, EntryFacts DEF TypeOK, TableWith
    <3> QED BY <3>1, <1>0, <1>1 DEF TypeOK
  <2>3. count' \in [Obj \cup Proc -> Nat] BY <1>0, <1>1 DEF TypeOK
  <2>4. start' \in [Obj -> Starts \cup {0, -1}] BY <1>0, <1>1 DEF TypeOK
  <2> QED BY <2>1, <2>2, <2>3, <2>4, <1>0, <1>1 DEF TypeOK
<1>8. FilesCounted' BY <1>0, <1>4, <1>5, <1>6, AddressAssumption DEF FilesCounted
<1>9. SemaphoresCounted' BY <1>0, <1>4, <1>5 DEF SemaphoresCounted
<1>10. FreeUncounted' /\ LostExact' BY <1>0, <1>4, <1>5 DEF FreeUncounted, LostExact
<1>11. ProcessesCounted' BY <1>0, <1>1, <1>4, <1>5 DEF ProcessesCounted
<1>12. NothingDangles'
  <2>1. ASSUME NEW q \in Proc, NEW i \in Slot
        PROVE  LET r == table'[q][i] IN
                 /\ r.kind = "FILE" => start'[r.obj] \in Starts
                 /\ r.kind = "SEMAPHORE" => start'[r.obj] = 0
                 /\ r.kind = "PROCESS" => status'[r.obj] \notin {"unborn", "forming"} /\ count'[r.obj] > 0
    <3>1. CASE table'[q][i] = table[q][i]
      <4> PICK r \in Entries : r = table[q][i] BY <1>0 DEF TypeOK
      <4>1. r # FileOf(o) /\ r # SemaphoreOf(o) BY <1>2
      <4> QED BY <4>1, <3>1, <1>0, <1>1, <1>4, KindFacts DEF NothingDangles
    <3>2. CASE table'[q][i] = SemaphoreOf(o) BY <3>2, <1>4, EntryFacts
    <3> QED BY <3>1, <3>2, <1>3
  <2>2. ASSUME NEW q \in Proc, ptr'[q] # Null PROVE start'[ptr'[q]] \in Starts
    BY <2>2, <1>0, <1>1, <1>2, <1>4 DEF NothingDangles, TypeOK
  <2> QED BY <2>1, <2>2 DEF NothingDangles
<1>13. OneOpenFile' BY <1>0, <1>1, <1>a, <1>4, AddressAssumption DEF OneOpenFile
<1>14. MutexHeld' /\ PtrExact' BY <1>0, <1>1 DEF MutexHeld, PtrExact
<1>15. AtExact' BY <1>0, <1>1, <1>3 DEF AtExact, Closing
<1>16. LivesExact'
  <2>1. \A q \in Proc : q # p => Used(q)' = Used(q) BY <1>3 DEF Used
  <2> QED BY <2>1, <1>0, <1>1 DEF LivesExact
<1>17. ForksExact' BY <1>0, <1>1, <1>3 DEF ForksExact
<1> QED BY <1>7, <1>8, <1>9, <1>10, <1>11, <1>12, <1>13, <1>14, <1>15, <1>16, <1>17 DEF IInv

\* close() of a semaphore or of a child, and join().
LEMMA ReleaseStep ==
    ASSUME IInv, NEW p \in Proc, NEW n \in Slot, CloseShared(p, n) \/ (Joined(p) /\ n = at[p])
    PROVE  IInv'
<1>0. /\ TypeOK
      /\ FilesCounted /\ SemaphoresCounted /\ FreeUncounted /\ ProcessesCounted
      /\ NothingDangles /\ OneOpenFile
      /\ MutexHeld /\ PtrExact /\ AtExact /\ LivesExact /\ ForksExact /\ LostExact
  BY DEF IInv
<1>a. PICK r \in Entries : r = table[p][n] BY <1>0 DEF TypeOK
<1>b. r.kind \in {"SEMAPHORE", "PROCESS"} BY <1>0, <1>a DEF CloseShared, Joined, AtExact
<1>c. PICK o \in Obj \cup Proc : o = r.obj BY <1>b, KindFacts
<1>1. /\ count' = [count EXCEPT ![o] = count[o] - 1]
      /\ start' = IF r = SemaphoreOf(o) /\ count[o] = 1 THEN [start EXCEPT ![o] = -1] ELSE start
      /\ table' = TableWith(p, n, None)
      /\ UNCHANGED <<status, openFiles, mutex, arg, ptr, lost>>
      /\ \/ pc' = pc /\ at' = at /\ pc[p] \in {"idle", "clear", "exit"}
         \/ /\ pc[p] = "join"
            /\ pc' = [pc EXCEPT ![p] = "idle"] /\ at' = [at EXCEPT ![p] = 0]
  <2>1. Release(p, n) /\ UNCHANGED <<status, openFiles, mutex, arg, ptr, lost>>
    BY DEF CloseShared, Joined
  <2>2. \/ pc' = pc /\ at' = at /\ pc[p] \in {"idle", "clear", "exit"}
        \/ /\ pc[p] = "join"
           /\ pc' = [pc EXCEPT ![p] = "idle"] /\ at' = [at EXCEPT ![p] = 0]
    BY DEF CloseShared, Joined, Goto, MayClose, Idle
  <2> QED BY <2>1, <2>2, <1>a, <1>c DEF Release, Unref, Deleted
<1>2. \A x : /\ Places(x) \in Nat
             /\ Places(x)' = Places(x) + (IF None = x THEN 1 ELSE 0) - (IF r = x THEN 1 ELSE 0)
  BY <1>0, <1>1, <1>a, PlacesStep
<1>3. /\ \A x \in (Obj \cup Proc) \ {o} : count'[x] = count[x]
      /\ count'[o] = count[o] - 1 /\ count[o] \in Nat /\ count[o] >= Places(r) /\ Places(r) > 0
      /\ r # None /\ r \in Entries /\ Places(r)' = Places(r) - 1
  <2>1. Places(r) > 0 /\ Places(r) \in Nat BY <1>0, <1>a, <1>2, PlacesPositive DEF EntriesCounted
  <2>2. r.kind = "SEMAPHORE" => count[o] >= Places(r)
    <3> HAVE r.kind = "SEMAPHORE"
    <3>1. o \in Obj /\ r = SemaphoreOf(o) /\ start[o] = 0
      BY <1>0, <1>a, <1>c, KindFacts DEF NothingDangles
    <3>2. count[o] = Places(r) BY <3>1, <1>0 DEF SemaphoresCounted
    <3> QED BY <2>1, <3>2
  <2>3. r.kind = "PROCESS" => count[o] >= Places(r)
    <3> HAVE r.kind = "PROCESS"
    <3>1. o \in Proc /\ r = ProcessOf(o) BY <1>c, KindFacts
    <3>2. count[o] = Places(r) + (IF status[o] \in {"live", "done", "dead"} THEN 1 ELSE 0)
      BY <3>1, <1>0 DEF ProcessesCounted
    <3> QED BY <2>1, <3>2
  <2>4. count[o] >= Places(r) BY <2>1, <2>2, <2>3, <1>b
  <2>5. r # None BY <1>b, EntryFacts
  <2> QED BY <2>1, <2>4, <2>5, <1>0, <1>1, <1>2 DEF TypeOK
<1>4. \A q \in Proc, i \in Slot : table'[q][i] = IF q = p /\ i = n THEN None ELSE table[q][i]
  <2>1. table' = [table EXCEPT ![p][n] = None] BY <1>1 DEF TableWith
  <2> QED BY <2>1, <1>0 DEF TypeOK
<1>5. \A x : x # r /\ x # None => Places(x)' = Places(x) BY <1>2
<1>6. \A x : Opening(x)' = Opening(x)
  <2>1. CASE pc' = pc BY <2>1, <1>1 DEF Opening
  <2>2. CASE pc[p] = "join" /\ pc' = [pc EXCEPT ![p] = "idle"]
    <3> TAKE x
    <3>1. \A q \in Proc \ {p} : pc'[q] = pc[q] /\ ptr'[q] = ptr[q] BY <2>2, <1>0, <1>1 DEF TypeOK
    <3>2. ~Has(p, x) /\ ~Has(p, x)' BY <2>2, <1>0 DEF TypeOK, Has, Pointing
    <3> QED BY <3>1, <3>2, <1>0, OpeningStep
  <2> QED BY <2>1, <2>2, <1>1
<1>7. /\ \A x \in Obj : start'[x] = start[x] \/ (start'[x] = -1 /\ x = o /\ r = SemaphoreOf(o) /\ count[o] = 1)
      /\ o \in Obj => r = SemaphoreOf(o) /\ start[o] = 0 /\ (start'[o] = 0 => count[o] # 1)
      /\ o \in Proc => r = ProcessOf(o) /\ start' = start
  <2>1. o \in Obj => r = SemaphoreOf(o) BY <1>b, <1>c, KindFacts, AddressAssumption
  <2>2. o \in Proc => r = ProcessOf(o) BY <1>b, <1>c, KindFacts, AddressAssumption
  <2>3. o \in Obj => start[o] = 0 BY <2>1, <1>0, <1>a, EntryFacts DEF NothingDangles
  <2>4. \A x \in Obj : start'[x] = start[x] \/ (start'[x] = -1 /\ x = o /\ r = SemaphoreOf(o) /\ count[o] = 1)
    BY <1>0, <1>1 DEF TypeOK
  <2>5. o \in Obj /\ start'[o] = 0 => count[o] # 1 BY <2>1, <1>0, <1>1 DEF TypeOK
  <2>6. o \in Proc => start' = start BY <2>2, <1>1, EntryFacts
  <2> QED BY <2>1, <2>2, <2>3, <2>4, <2>5, <2>6
<1>8. \A x : FileOf(x) # r /\ FileOf(x) # None /\ SemaphoreOf(x) # None /\ ProcessOf(x) # None
             /\ (SemaphoreOf(x) = r => x = o) /\ (ProcessOf(x) = r => x = o)
  BY <1>b, <1>c, EntryFacts
<1>9. TypeOK'
  <2>1. count' \in [Obj \cup Proc -> Nat]
    <3>1. count[o] - 1 \in Nat BY <1>2, <1>3
    <3> QED BY <3>1, <1>0, <1>1 DEF TypeOK
  <2>2. start' \in [Obj -> Starts \cup {0, -1}] BY <1>0, <1>1 DEF TypeOK
  <2>3. table' \in [Proc -> [Slot -> Entries]] BY <1>0, <1>1, EntryFacts DEF TypeOK, TableWith
  <2>4. at' \in [Proc -> 0 .. Slots] BY <1>0, <1>1, ResourcesAssumption DEF TypeOK
  <2>5. pc' \in [Proc -> {"idle", "open", "exec", "retry", "install", "clear", "close",
                          "clearClose", "exit", "exitClose", "fork", "join"}]
    BY <1>0, <1>1 DEF TypeOK
  <2> QED BY <2>1, <2>2, <2>3, <2>4, <2>5, <1>0, <1>1 DEF TypeOK
<1>10. FilesCounted'
  <2> SUFFICES ASSUME NEW x \in Obj, start'[x] \in Starts
               PROVE  count'[x] = Places(FileOf(x))' + Opening(x)' + lost'[x] /\ count'[x] > 0
    BY DEF FilesCounted
  <2>1. start[x] \in Starts /\ x # o BY <1>7, AddressAssumption
  <2>2. Places(FileOf(x))' = Places(FileOf(x)) BY <1>5, <1>8
  <2> QED BY <2>1, <2>2, <1>0, <1>1, <1>3, <1>6 DEF FilesCounted
<1>11. SemaphoresCounted'
  <2> SUFFICES ASSUME NEW x \in Obj, start'[x] = 0
               PROVE  count'[x] = Places(SemaphoreOf(x))' /\ count'[x] + lost'[x] > 0
    BY DEF SemaphoresCounted
  <2>1. CASE x = o
    <3>1. r = SemaphoreOf(o) /\ start[o] = 0 /\ count[o] # 1 BY <2>1, <1>7
    <3>2. count[o] = Places(r) /\ lost[o] \in Nat
      BY <3>1, <2>1, <1>0, ResourcesAssumption DEF SemaphoresCounted, TypeOK
    <3>3. count'[o] = Places(r)' /\ count'[o] > 0 BY <3>1, <3>2, <1>3
    <3> QED BY <3>1, <3>2, <3>3, <2>1, <1>1, <1>3
  <2>2. CASE x # o
    <3>1. start[x] = 0 /\ count'[x] = count[x] /\ lost'[x] = lost[x] BY <2>2, <1>1, <1>3, <1>7
    <3>2. Places(SemaphoreOf(x))' = Places(SemaphoreOf(x)) BY <2>2, <1>5, <1>8
    <3> QED BY <3>1, <3>2, <1>0 DEF SemaphoresCounted
  <2> QED BY <2>1, <2>2
<1>12. FreeUncounted'
  <2> SUFFICES ASSUME NEW x \in Obj, start'[x] = -1 PROVE count'[x] = 0 BY DEF FreeUncounted
  <2>1. CASE x = o BY <2>1, <1>3, <1>7
  <2>2. CASE x # o BY <2>2, <1>0, <1>3, <1>7 DEF FreeUncounted
  <2> QED BY <2>1, <2>2
<1>13. LostExact'
  <2> SUFFICES ASSUME NEW x \in Obj, start'[x] = -1 \/ (start'[x] = 0 /\ count'[x] > 0)
               PROVE  lost[x] = 0
    BY <1>1 DEF LostExact
  <2>1. CASE x = o
    <3>1. start[o] = 0 /\ count[o] > 0 BY <2>1, <1>2, <1>3, <1>7
    <3> QED BY <3>1, <2>1, <1>0 DEF LostExact
  <2>2. CASE x # o BY <2>2, <1>0, <1>3, <1>7 DEF LostExact
  <2> QED BY <2>1, <2>2
<1>14. ProcessesCounted'
  <2> SUFFICES ASSUME NEW x \in Proc
               PROVE  count'[x] = Places(ProcessOf(x))'
                        + (IF status'[x] \in {"live", "done", "dead"} THEN 1 ELSE 0)
    BY DEF ProcessesCounted
  <2>0. count[x] = Places(ProcessOf(x)) + (IF status[x] \in {"live", "done", "dead"} THEN 1 ELSE 0)
    BY <1>0 DEF ProcessesCounted
  <2>1. CASE x = o
    <3>1. r = ProcessOf(o) BY <2>1, <1>7
    <3> QED BY <3>1, <2>0, <2>1, <1>1, <1>2, <1>3
  <2>2. CASE x # o
    <3>1. Places(ProcessOf(x))' = Places(ProcessOf(x)) BY <2>2, <1>5, <1>8
    <3> QED BY <3>1, <2>0, <2>2, <1>1, <1>3
  <2> QED BY <2>1, <2>2
<1>15. NothingDangles'
  <2>0. EntriesCounted' BY PlacesPositive, PTL
  <2>1. ASSUME NEW q \in Proc, NEW i \in Slot
        PROVE  LET x == table'[q][i] IN
                 /\ x.kind = "FILE" => start'[x.obj] \in Starts
                 /\ x.kind = "SEMAPHORE" => start'[x.obj] = 0
                 /\ x.kind = "PROCESS" => status'[x.obj] \notin {"unborn", "forming"} /\ count'[x.obj] > 0
    <3>1. CASE table'[q][i] = None BY <3>1, EntryFacts
    <3>2. CASE table'[q][i] = table[q][i]
      <4> PICK x \in Entries : x = table[q][i] /\ x = table'[q][i] BY <3>2, <1>0 DEF TypeOK
      <4>1. x = r => count[o] # 1 /\ count[o] > 1
        <5>1. Places(x)' > 0 BY <2>0 DEF EntriesCounted
        <5> QED BY <5>1, <1>2, <1>3
      <4>2. x.kind = "FILE" => start'[x.obj] \in Starts
        <5> HAVE x.kind = "FILE"
        <5>1. x.obj \in Obj /\ start[x.obj] \in Starts BY <1>0, KindFacts DEF NothingDangles
        <5>2. x.obj = o => start[x.obj] = 0 BY <5>1, <1>7
        <5> QED BY <5>1, <5>2, <1>7, AddressAssumption
      <4>3. x.kind = "SEMAPHORE" => start'[x.obj] = 0
        <5> HAVE x.kind = "SEMAPHORE"
        <5>1. x.obj \in Obj /\ x = SemaphoreOf(x.obj) /\ start[x.obj] = 0
          BY <1>0, KindFacts DEF NothingDangles
        <5> QED BY <5>1, <4>1, <1>7
      <4>4. x.kind = "PROCESS" => status'[x.obj] \notin {"unborn", "forming"} /\ count'[x.obj] > 0
        <5> HAVE x.kind = "PROCESS"
        <5>1. /\ x.obj \in Proc /\ x = ProcessOf(x.obj) /\ status[x.obj] \notin {"unborn", "forming"}
              /\ count[x.obj] > 0
          BY <1>0, KindFacts DEF NothingDangles
        <5>2. CASE x.obj = o
          <6>1. x = r BY <5>1, <5>2, <1>7
          <6>2. count'[o] > 0 BY <6>1, <4>1, <1>3
          <6> QED BY <5>1, <5>2, <6>2, <1>1
        <5>3. CASE x.obj # o BY <5>1, <5>3, <1>1, <1>3
        <5> QED BY <5>2, <5>3
      <4> QED BY <4>2, <4>3, <4>4
    <3> QED BY <3>1, <3>2, <1>4
  <2>2. ASSUME NEW q \in Proc, ptr'[q] # Null PROVE start'[ptr'[q]] \in Starts
    <3>1. ptr[q] \in Obj /\ start[ptr[q]] \in Starts BY <2>2, <1>0, <1>1 DEF NothingDangles, TypeOK
    <3>2. start'[ptr[q]] = start[ptr[q]] BY <3>1, <1>7, AddressAssumption
    <3> QED BY <3>1, <3>2, <1>1
  <2> QED BY <2>1, <2>2 DEF NothingDangles
<1>16. OneOpenFile'
  BY <1>0, <1>1, <1>7, AddressAssumption DEF OneOpenFile
<1>17. \A q \in Proc \ {p} : pc'[q] = pc[q] /\ at'[q] = at[q] BY <1>0, <1>1 DEF TypeOK
<1>18. \/ pc'[p] = pc[p] /\ at'[p] = at[p] /\ pc[p] \in {"idle", "clear", "exit"}
       \/ pc[p] = "join" /\ pc'[p] = "idle" /\ at'[p] = 0
  BY <1>0, <1>1 DEF TypeOK
<1>19. MutexHeld' /\ PtrExact' BY <1>0, <1>1, <1>17, <1>18 DEF MutexHeld, PtrExact, Locking, Pointing
<1>20. AtExact' BY <1>0, <1>4, <1>17, <1>18 DEF AtExact, Closing
<1>21. LivesExact'
  <2>1. \A q \in Proc : Used(q)' \subseteq Used(q) BY <1>4 DEF Used
  <2> QED BY <2>1, <1>0, <1>1, <1>17, <1>18 DEF LivesExact
<1>22. ForksExact' BY <1>0, <1>1, <1>4, <1>17, <1>18 DEF ForksExact
<1> QED BY <1>9, <1>10, <1>11, <1>12, <1>13, <1>14, <1>15, <1>16, <1>19, <1>20, <1>21, <1>22 DEF IInv

\* Table::forkMe copies what is in a slot for the child.
LEMMA ForkSlotStep ==
    ASSUME IInv, NEW p \in Proc, ForkSlot(p) PROVE IInv'
<1>0. /\ TypeOK
      /\ FilesCounted /\ SemaphoresCounted /\ FreeUncounted /\ ProcessesCounted
      /\ NothingDangles /\ OneOpenFile
      /\ MutexHeld /\ PtrExact /\ AtExact /\ LivesExact /\ ForksExact /\ LostExact
  BY DEF IInv
<1>a. PICK c \in Proc, i \in Slot : c = arg[p] /\ i = at[p]
  <2>1. arg[p] \in Proc BY <1>0 DEF ForkSlot, ForksExact
  <2>2. at[p] \in Slot BY <1>0, ResourcesAssumption DEF ForkSlot, TypeOK, Slot
  <2> QED BY <2>1, <2>2
<1>b. PICK r \in Entries : r = Inherited(table[p][i])
  BY <1>0, EntryFacts DEF Inherited, TypeOK
<1>1. /\ pc[p] = "fork" /\ table[c][i] = None /\ i + 1 \in 0 .. Slots
      /\ table' = TableWith(c, i, r)
      /\ count' = IF r = None THEN count ELSE [count EXCEPT ![r.obj] = count[r.obj] + 1]
      /\ at' = [at EXCEPT ![p] = i + 1]
      /\ UNCHANGED <<status, start, openFiles, mutex, pc, arg, ptr, lost>>
  <2>1. i >= at[p] /\ i + 1 \in 0 .. Slots BY <1>a, ResourcesAssumption DEF Slot
  <2> QED BY <2>1, <1>0, <1>a, <1>b DEF ForkSlot, ForksExact, Ref
<1>2. /\ status[p] = "live" /\ status[c] = "forming" /\ pc[c] = "idle" /\ c # p
  BY <1>0, <1>1, <1>a DEF LivesExact, ForksExact, TypeOK
<1>3. \/ r = None
      \/ r \in {FileOf(r.obj), SemaphoreOf(r.obj)} /\ r.obj \in Obj /\ r = table[p][i]
  BY <1>0, <1>b, KindFacts DEF TypeOK, Inherited
<1>4. /\ \A x : Places(x) \in Nat
      /\ \A x : x # r => Places(x)' = Places(x) \/ x = None
      /\ r # None => Places(r)' = Places(r) + 1 /\ Places(r) > 0
  <2>1. \A x : /\ Places(x) \in Nat
               /\ Places(x)' = Places(x) + (IF r = x THEN 1 ELSE 0) - (IF None = x THEN 1 ELSE 0)
    BY <1>0, <1>1, PlacesStep
  <2>2. r # None => Places(r) > 0 BY <1>0, <1>3, PlacesPositive DEF EntriesCounted
  <2> QED BY <2>1, <2>2
<1>5. /\ \A q \in Proc, j \in Slot : table'[q][j] = table[q][j] \/ table'[q][j] = r
      /\ \A q \in Proc, j \in Slot : q # c \/ j # i => table'[q][j] = table[q][j]
  <2>1. table' = [table EXCEPT ![c][i] = r] BY <1>1 DEF TableWith
  <2> QED BY <2>1, <1>0 DEF TypeOK
<1>6. \A x : Opening(x)' = Opening(x) BY <1>1 DEF Opening
<1>7. /\ \A x \in Obj : count'[x] = count[x] + (IF r \in {FileOf(x), SemaphoreOf(x)} THEN 1 ELSE 0)
      /\ \A q \in Proc : count'[q] = count[q]
  <2>1. CASE r = None BY <2>1, <1>0, <1>1, EntryFacts DEF TypeOK
  <2>2. CASE r # None
    <3>1. r.obj \in Obj /\ r \in {FileOf(r.obj), SemaphoreOf(r.obj)} BY <2>2, <1>3
    <3>2. \A x \in Obj : r \in {FileOf(x), SemaphoreOf(x)} => x = r.obj BY EntryFacts
    <3> QED BY <2>2, <3>1, <3>2, <1>0, <1>1, AddressAssumption DEF TypeOK
  <2> QED BY <2>1, <2>2
<1>8. TypeOK'
  <2>1. table' \in [Proc -> [Slot -> Entries]] BY <1>0, <1>1 DEF TypeOK, TableWith
  <2>2. count' \in [Obj \cup Proc -> Nat] BY <1>0, <1>1, <1>3 DEF TypeOK
  <2>3. at' \in [Proc -> 0 .. Slots] BY <1>0, <1>1 DEF TypeOK
  <2> QED BY <2>1, <2>2, <2>3, <1>0, <1>1 DEF TypeOK
<1>9. \A x \in Obj : /\ r = FileOf(x) => start[x] \in Starts
                     /\ r = SemaphoreOf(x) => start[x] = 0 /\ count[x] > 0
  <2> TAKE x \in Obj
  <2>1. r = FileOf(x) => start[x] \in Starts BY <1>0, <1>3, EntryFacts DEF NothingDangles
  <2>2. r = SemaphoreOf(x) => start[x] = 0 /\ Places(r) > 0 BY <1>0, <1>3, <1>4, EntryFacts DEF NothingDangles
  <2> QED BY <2>1, <2>2, <1>0 DEF SemaphoresCounted
<1>10. FilesCounted'
  <2> SUFFICES ASSUME NEW x \in Obj, start[x] \in Starts
               PROVE  count'[x] = Places(FileOf(x))' + Opening(x)' + lost'[x] /\ count'[x] > 0
    BY <1>1 DEF FilesCounted
  <2>1. count[x] = Places(FileOf(x)) + Opening(x) + lost[x] /\ count[x] > 0 BY <1>0 DEF FilesCounted
  <2>2. /\ Places(FileOf(x)) \in Nat /\ Opening(x) \in Nat /\ lost[x] \in Nat /\ lost'[x] = lost[x]
        /\ Opening(x)' = Opening(x) /\ FileOf(x) # None
    BY <1>0, <1>1, <1>6, CountTypes, EntryFacts, ResourcesAssumption DEF TypeOK
  <2>3. r # SemaphoreOf(x) BY <1>9, AddressAssumption
  <2>4. CASE r = FileOf(x) BY <2>1, <2>2, <2>4, <1>4, <1>7
  <2>5. CASE r # FileOf(x)
    <3>1. count'[x] = count[x] BY <2>1, <2>2, <2>3, <2>5, <1>7
    <3> QED BY <3>1, <2>1, <2>2, <2>5, <1>4
  <2> QED BY <2>4, <2>5
<1>11. SemaphoresCounted'
  <2> SUFFICES ASSUME NEW x \in Obj, start[x] = 0
               PROVE  count'[x] = Places(SemaphoreOf(x))' /\ count'[x] + lost'[x] > 0
    BY <1>1 DEF SemaphoresCounted
  <2>1. count[x] = Places(SemaphoreOf(x)) /\ count[x] + lost[x] > 0 BY <1>0 DEF SemaphoresCounted
  <2>2. Places(SemaphoreOf(x)) \in Nat /\ lost[x] \in Nat /\ lost'[x] = lost[x] /\ SemaphoreOf(x) # None
    BY <1>0, <1>1, CountTypes, EntryFacts, ResourcesAssumption DEF TypeOK
  <2>3. r # FileOf(x) BY <1>9, AddressAssumption
  <2>4. CASE r = SemaphoreOf(x) BY <2>1, <2>2, <2>4, <1>4, <1>7
  <2>5. CASE r # SemaphoreOf(x)
    <3>1. count'[x] = count[x] BY <2>1, <2>2, <2>3, <2>5, <1>7
    <3> QED BY <3>1, <2>1, <2>2, <2>5, <1>4
  <2> QED BY <2>4, <2>5
<1>12. FreeUncounted'
  <2> SUFFICES ASSUME NEW x \in Obj, start[x] = -1 PROVE count'[x] = 0 BY <1>1 DEF FreeUncounted
  <2>1. r # FileOf(x) /\ r # SemaphoreOf(x) BY <1>9, AddressAssumption
  <2> QED BY <2>1, <1>0, <1>7 DEF FreeUncounted
<1>13. LostExact'
  <2> SUFFICES ASSUME NEW x \in Obj, start[x] = -1 \/ (start[x] = 0 /\ count'[x] > 0)
               PROVE  lost[x] = 0
    BY <1>1 DEF LostExact
  <2>1. r # FileOf(x) BY <1>9, AddressAssumption
  <2>2. count[x] \in Nat BY <1>0 DEF TypeOK
  <2> QED BY <2>1, <2>2, <1>0, <1>7, <1>9 DEF LostExact
<1>14. ProcessesCounted'
  <2>1. \A q \in Proc : ProcessOf(q) # r /\ ProcessOf(q) # None
    BY <1>3, EntryFacts DEF FileOf, SemaphoreOf, ProcessOf
  <2>2. \A q \in Proc : Places(ProcessOf(q))' = Places(ProcessOf(q)) BY <2>1, <1>4
  <2> QED BY <2>2, <1>0, <1>1, <1>7 DEF ProcessesCounted
<1>15. NothingDangles'
  <2>1. ASSUME NEW q \in Proc, NEW j \in Slot
        PROVE  LET x == table'[q][j] IN
                 /\ x.kind = "FILE" => start'[x.obj] \in Starts
                 /\ x.kind = "SEMAPHORE" => start'[x.obj] = 0
                 /\ x.kind = "PROCESS" => status'[x.obj] \notin {"unborn", "forming"} /\ count'[x.obj] > 0
    <3>1. CASE table'[q][j] = table[q][j]
      <4> PICK x \in Entries : x = table[q][j] BY <1>0 DEF TypeOK
      <4> QED BY <3>1, <1>0, <1>1, <1>7, KindFacts DEF NothingDangles
    <3>2. CASE table'[q][j] = r BY <3>2, <1>1, <1>3, <1>9, EntryFacts
    <3> QED BY <3>1, <3>2, <1>5
  <2>2. ASSUME NEW q \in Proc, ptr'[q] # Null PROVE start'[ptr'[q]] \in Starts
    BY <2>2, <1>0, <1>1 DEF NothingDangles
  <2> QED BY <2>1, <2>2 DEF NothingDangles
<1>16. OneOpenFile' /\ MutexHeld' /\ PtrExact' BY <1>0, <1>1 DEF OneOpenFile, MutexHeld, PtrExact
<1>17. \A q \in Proc \ {p} : at'[q] = at[q] BY <1>0, <1>1 DEF TypeOK
<1>18. AtExact'
  <2>1. \A q \in Proc : pc[q] \in Closing \cup {"join"} => q # c /\ q # p BY <1>1, <1>2 DEF Closing
  <2>2. pc[p] = "fork" BY <1>1
  <2> QED BY <2>1, <2>2, <1>0, <1>1, <1>5, <1>17 DEF AtExact, Closing
<1>19. LivesExact'
  <2>1. \A q \in Proc : q # c => Used(q)' = Used(q) BY <1>5 DEF Used
  <2> QED BY <2>1, <1>0, <1>1, <1>2 DEF LivesExact
<1>20. ForksExact'
  <2> SUFFICES ASSUME NEW q \in Proc, pc[q] = "fork"
               PROVE  /\ arg[q] \in Proc /\ status[arg[q]] = "forming"
                      /\ \A j \in Slot : j >= at'[q] => table'[arg[q]][j] = None
                      /\ \A z \in Proc : pc[z] = "fork" /\ arg[z] = arg[q] => z = q
    BY <1>1 DEF ForksExact
  <2>1. /\ arg[q] \in Proc /\ status[arg[q]] = "forming"
        /\ \A j \in Slot : j >= at[q] => table[arg[q]][j] = None
        /\ \A z \in Proc : pc[z] = "fork" /\ arg[z] = arg[q] => z = q
    BY <1>0 DEF ForksExact
  <2>2. CASE q = p
    <3>1. at'[p] = i + 1 /\ at[p] = i BY <1>0, <1>1, <1>a DEF TypeOK
    <3>2. \A j \in Slot : j >= i + 1 => j >= i /\ j # i BY DEF Slot
    <3> QED BY <2>1, <2>2, <3>1, <3>2, <1>5
  <2>3. CASE q # p
    <3>1. arg[q] # c BY <2>1, <2>3, <1>1, <1>a
    <3> QED BY <2>1, <2>3, <3>1, <1>5, <1>17
  <2> QED BY <2>2, <2>3
<1> QED BY <1>8, <1>10, <1>11, <1>12, <1>13, <1>14, <1>15, <1>16, <1>18, <1>19, <1>20 DEF IInv

\* The child is complete: it counts for itself, and for its parent's slot.
LEMMA ForkedStep ==
    ASSUME IInv, NEW p \in Proc, Forked(p) PROVE IInv'
<1>0. /\ TypeOK
      /\ FilesCounted /\ SemaphoresCounted /\ FreeUncounted /\ ProcessesCounted
      /\ NothingDangles /\ OneOpenFile
      /\ MutexHeld /\ PtrExact /\ AtExact /\ LivesExact /\ ForksExact /\ LostExact
  BY DEF IInv
<1>a. PICK c \in Proc : c = arg[p] BY <1>0 DEF Forked, ForksExact
<1>b. FreeSlots(p) # {} => Least(FreeSlots(p)) \in FreeSlots(p)
  BY LeastFacts DEF FreeSlots
<1>1. /\ pc[p] = "fork" /\ status[p] = "live" /\ status[c] = "forming" /\ c # p /\ pc[c] = "idle"
      /\ pc' = [pc EXCEPT ![p] = "idle"] /\ arg' = [arg EXCEPT ![p] = Null]
      /\ ptr' = [ptr EXCEPT ![p] = Null] /\ at' = [at EXCEPT ![p] = 0]
      /\ status' = [status EXCEPT ![c] = "live"]
      /\ UNCHANGED <<start, openFiles, mutex, lost>>
      /\ \/ table' = table /\ count' = [count EXCEPT ![c] = 1]
         \/ /\ count' = [count EXCEPT ![c] = 2]
            /\ \E n \in Slot : table[p][n] = None /\ table' = TableWith(p, n, ProcessOf(c))
  <2>1. pc[p] = "fork" /\ status[p] = "live" /\ status[c] = "forming"
    BY <1>0, <1>a DEF Forked, LivesExact, ForksExact
  <2>2. c # p /\ pc[c] = "idle" BY <2>1, <1>0 DEF LivesExact
  <2>3. \/ table' = table /\ count' = [count EXCEPT ![c] = 1]
        \/ /\ count' = [count EXCEPT ![c] = 2]
           /\ \E n \in Slot : table[p][n] = None /\ table' = TableWith(p, n, ProcessOf(c))
    BY <1>a, <1>b DEF Forked, FreeSlots
  <2> QED BY <2>1, <2>2, <2>3, <1>a DEF Forked, Return, Goto
<1>2. Places(ProcessOf(c)) = 0 BY <1>1, UnbornFacts
<1>3. /\ \A x \in Obj : Places(FileOf(x))' = Places(FileOf(x))
      /\ \A x \in Obj : Places(SemaphoreOf(x))' = Places(SemaphoreOf(x))
      /\ \A x : x # c => Places(ProcessOf(x))' = Places(ProcessOf(x))
      /\ count'[c] = Places(ProcessOf(c))' + 1 /\ count'[c] > 0
  <2>1. CASE table' = table /\ count' = [count EXCEPT ![c] = 1]
    <3>1. \A r : Places(r)' = Places(r) BY <2>1 DEF Places
    <3> QED BY <3>1, <2>1, <1>0, <1>2 DEF TypeOK
  <2>2. ASSUME NEW n \in Slot, table[p][n] = None, table' = TableWith(p, n, ProcessOf(c)),
               count' = [count EXCEPT ![c] = 2]
        PROVE <1>3!:
    <3>1. \A r : /\ Places(r) \in Nat
                 /\ Places(r)' = Places(r) + (IF ProcessOf(c) = r THEN 1 ELSE 0) - (IF None = r THEN 1 ELSE 0)
      BY <1>0, <2>2, PlacesStep
    <3>2. Places(ProcessOf(c))' = 1 BY <3>1, <1>2, EntryFacts
    <3>3. \A r : r # ProcessOf(c) /\ r # None => Places(r)' = Places(r) BY <3>1
    <3>4. count'[c] = 2 BY <1>0, <2>2 DEF TypeOK
    <3>5. \A x : /\ FileOf(x) # ProcessOf(c) /\ FileOf(x) # None
                 /\ SemaphoreOf(x) # ProcessOf(c) /\ SemaphoreOf(x) # None
                 /\ x # c => ProcessOf(x) # ProcessOf(c) /\ ProcessOf(x) # None
      BY EntryFacts DEF FileOf, SemaphoreOf, ProcessOf
    <3> QED BY <3>2, <3>3, <3>4, <3>5
  <2> QED BY <2>1, <2>2, <1>1
<1>4. /\ \A x \in Obj \cup Proc : x # c => count'[x] = count[x]
      /\ \A x \in Obj : count'[x] = count[x]
      /\ \A q \in Proc : q # c => status'[q] = status[q]
      /\ status'[c] = "live"
  BY <1>0, <1>1, AddressAssumption DEF TypeOK
<1>5. \A q \in Proc, i \in Slot : \/ table'[q][i] = table[q][i]
                                  \/ table'[q][i] = ProcessOf(c) /\ table[q][i] = None /\ q = p
  BY <1>0, <1>1 DEF TypeOK, TableWith
<1>6. \A x : Opening(x)' = Opening(x)
  <2> TAKE x
  <2>1. \A q \in Proc \ {p} : pc'[q] = pc[q] /\ ptr'[q] = ptr[q] BY <1>0, <1>1 DEF TypeOK
  <2>2. ~Has(p, x) /\ ~Has(p, x)' BY <1>0, <1>1 DEF TypeOK, Has, Pointing
  <2> QED BY <2>1, <2>2, <1>0, OpeningStep
<1>7. TypeOK'
  <2>1. table' \in [Proc -> [Slot -> Entries]]
    <3>1. ASSUME NEW n \in Slot, table' = TableWith(p, n, ProcessOf(c)) PROVE <2>1!:
      BY <3>1, <1>0, EntryFacts DEF TypeOK, TableWith
    <3> QED BY <3>1, <1>0, <1>1 DEF TypeOK
  <2>2. count' \in [Obj \cup Proc -> Nat]
    <3>1. \E k \in Nat : count' = [count EXCEPT ![c] = k] BY <1>1
    <3> QED BY <3>1, <1>0 DEF TypeOK
  <2>3. at' \in [Proc -> 0 .. Slots] BY <1>0, <1>1, ResourcesAssumption DEF TypeOK
  <2> QED BY <2>1, <2>2, <2>3, <1>0, <1>1 DEF TypeOK
<1>8. FilesCounted' /\ SemaphoresCounted'
  BY <1>0, <1>1, <1>3, <1>4, <1>6 DEF FilesCounted, SemaphoresCounted
<1>9. FreeUncounted' /\ LostExact' /\ OneOpenFile'
  BY <1>0, <1>1, <1>4 DEF FreeUncounted, LostExact, OneOpenFile
<1>10. ProcessesCounted'
  BY <1>0, <1>3, <1>4 DEF ProcessesCounted
<1>11. NothingDangles'
  <2>1. ASSUME NEW q \in Proc, NEW i \in Slot
        PROVE  LET r == table'[q][i] IN
                 /\ r.kind = "FILE" => start'[r.obj] \in Starts
                 /\ r.kind = "SEMAPHORE" => start'[r.obj] = 0
                 /\ r.kind = "PROCESS" => status'[r.obj] \notin {"unborn", "forming"} /\ count'[r.obj] > 0
    <3>1. CASE table'[q][i] = table[q][i]
      <4> PICK r \in Entries : r = table[q][i] BY <1>0 DEF TypeOK
      <4>1. r.kind = "PROCESS" => r.obj # c BY <1>0, <1>1 DEF NothingDangles
      <4> QED BY <4>1, <3>1, <1>0, <1>1, <1>4, KindFacts DEF NothingDangles
    <3>2. CASE table'[q][i] = ProcessOf(c) BY <3>2, <1>3, <1>4, EntryFacts
    <3> QED BY <3>1, <3>2, <1>5
  <2>2. ASSUME NEW q \in Proc, ptr'[q] # Null PROVE start'[ptr'[q]] \in Starts
    BY <2>2, <1>0, <1>1 DEF NothingDangles, TypeOK
  <2> QED BY <2>1, <2>2 DEF NothingDangles
<1>12. MutexHeld' BY <1>0, <1>1 DEF MutexHeld, Locking, TypeOK
<1>13. PtrExact' BY <1>0, <1>1 DEF PtrExact, Pointing, TypeOK
<1>14. \A q \in Proc \ {p} : pc'[q] = pc[q] /\ at'[q] = at[q] /\ arg'[q] = arg[q] BY <1>0, <1>1 DEF TypeOK
<1>15. pc'[p] = "idle" /\ at'[p] = 0 BY <1>0, <1>1 DEF TypeOK
<1>16. AtExact' BY <1>0, <1>5, <1>14, <1>15 DEF AtExact, Closing
<1>17. LivesExact'
  <2>1. \A q \in Proc : q # p => Used(q)' = Used(q) BY <1>5 DEF Used
  <2> QED BY <2>1, <1>0, <1>1, <1>4, <1>14, <1>15 DEF LivesExact
<1>18. ForksExact'
  <2>1. \A q \in Proc : pc'[q] = "fork" => q # p /\ pc[q] = "fork" /\ arg'[q] = arg[q] /\ arg[q] # c
    BY <1>0, <1>1, <1>a, <1>14, <1>15 DEF ForksExact
  <2>2. \A q \in Proc : status[q] = "forming" => q # p BY <1>1
  <2> QED BY <2>1, <2>2, <1>0, <1>4, <1>5, <1>14 DEF ForksExact
<1> QED BY <1>7, <1>8, <1>9, <1>10, <1>11, <1>12, <1>13, <1>16, <1>17, <1>18 DEF IInv

\* The reaper gives the process's own reference back.
LEMMA ReapStep ==
    ASSUME IInv, NEW p \in Proc, Reap(p) PROVE IInv'
<1>0. /\ TypeOK
      /\ FilesCounted /\ SemaphoresCounted /\ FreeUncounted /\ ProcessesCounted
      /\ NothingDangles /\ OneOpenFile
      /\ MutexHeld /\ PtrExact /\ AtExact /\ LivesExact /\ ForksExact /\ LostExact
  BY DEF IInv
<1>1. /\ status[p] = "dead" /\ status' = [status EXCEPT ![p] = "reaped"]
      /\ count' = [count EXCEPT ![p] = @ - 1]
      /\ UNCHANGED <<table, start, openFiles, mutex, pc, arg, at, ptr, lost>>
  BY DEF Reap, Unref
<1>2. \A r : Places(r)' = Places(r) /\ Places(r) \in Nat BY <1>1, CountTypes DEF Places
<1>3. \A x : Opening(x)' = Opening(x) BY <1>1 DEF Opening
<1>4. /\ \A x \in Obj : count'[x] = count[x]
      /\ \A q \in Proc : q # p => count'[q] = count[q] /\ status'[q] = status[q]
      /\ count[p] = Places(ProcessOf(p)) + 1 /\ count'[p] = Places(ProcessOf(p)) /\ status'[p] = "reaped"
  <2>1. count[p] = Places(ProcessOf(p)) + 1 BY <1>0, <1>1 DEF ProcessesCounted
  <2>2. count'[p] = Places(ProcessOf(p)) BY <2>1, <1>0, <1>1, <1>2 DEF TypeOK
  <2> QED BY <2>1, <2>2, <1>0, <1>1, AddressAssumption DEF TypeOK
<1>5. TypeOK'
  <2>1. count' \in [Obj \cup Proc -> Nat]
    <3>1. count[p] - 1 \in Nat BY <1>2, <1>4
    <3> QED BY <3>1, <1>0, <1>1 DEF TypeOK
  <2> QED BY <2>1, <1>0, <1>1 DEF TypeOK
<1>6. FilesCounted' /\ SemaphoresCounted'
  BY <1>0, <1>1, <1>2, <1>3, <1>4 DEF FilesCounted, SemaphoresCounted
<1>7. FreeUncounted' /\ LostExact' /\ OneOpenFile'
  BY <1>0, <1>1, <1>4 DEF FreeUncounted, LostExact, OneOpenFile
<1>8. ProcessesCounted' BY <1>0, <1>2, <1>4 DEF ProcessesCounted
<1>9. NothingDangles'
  <2>1. ASSUME NEW q \in Proc, NEW i \in Slot
        PROVE  LET r == table'[q][i] IN
                 /\ r.kind = "FILE" => start'[r.obj] \in Starts
                 /\ r.kind = "SEMAPHORE" => start'[r.obj] = 0
                 /\ r.kind = "PROCESS" => status'[r.obj] \notin {"unborn", "forming"} /\ count'[r.obj] > 0
    <3> PICK r \in Entries : r = table[q][i] /\ r = table'[q][i] BY <1>0, <1>1 DEF TypeOK
    <3>1. Places(r) > 0 BY <1>0, PlacesPositive DEF EntriesCounted
    <3>2. r.kind = "PROCESS" => r.obj \in Proc /\ r = ProcessOf(r.obj) BY KindFacts
    <3> QED BY <3>1, <3>2, <1>0, <1>1, <1>4 DEF NothingDangles
  <2>2. ASSUME NEW q \in Proc, ptr'[q] # Null PROVE start'[ptr'[q]] \in Starts
    BY <2>2, <1>0, <1>1 DEF NothingDangles
  <2> QED BY <2>1, <2>2 DEF NothingDangles
<1>10. MutexHeld' /\ PtrExact' /\ AtExact' BY <1>0, <1>1 DEF MutexHeld, PtrExact, AtExact
<1>11. LivesExact' BY <1>0, <1>1, <1>4 DEF LivesExact, Used
<1>12. ForksExact' BY <1>0, <1>1, <1>4 DEF ForksExact
<1> QED BY <1>5, <1>6, <1>7, <1>8, <1>9, <1>10, <1>11, <1>12 DEF IInv

-----------------------------------------------------------------------------

LEMMA InitIInv == Init => IInv
<1> SUFFICES ASSUME Init PROVE IInv OBVIOUS
<1>1. \A p \in Proc, i \in Slot : table[p][i] = None BY DEF Init
<1>2. TypeOK
  <2>1. Boot \in Proc /\ 0 \in 0 .. Slots /\ 0 \in 0 .. MaxLost /\ 0 \in Nat BY ResourcesAssumption
  <2> QED BY <2>1, EntryFacts DEF Init, TypeOK
<1>3. \A p \in Proc : Places(ProcessOf(p)) = 0 BY <1>1, NoPlaces, EntryFacts
<1>4. FilesCounted /\ SemaphoresCounted /\ OneOpenFile
  BY AddressAssumption DEF Init, FilesCounted, SemaphoresCounted, OneOpenFile, Null
<1>5. FreeUncounted /\ LostExact BY ResourcesAssumption, AddressAssumption DEF Init, FreeUncounted, LostExact
<1>6. ProcessesCounted BY <1>3 DEF Init, ProcessesCounted
<1>7. NothingDangles BY <1>1, EntryFacts DEF Init, NothingDangles
<1>8. MutexHeld BY AddressAssumption DEF Init, MutexHeld, Locking, Null
<1>9. PtrExact /\ AtExact BY DEF Init, PtrExact, AtExact, Pointing, Closing
<1>10. LivesExact /\ ForksExact BY <1>1 DEF Init, LivesExact, ForksExact, Used
<1> QED BY <1>2, <1>4, <1>5, <1>6, <1>7, <1>8, <1>9, <1>10 DEF IInv

LEMMA NextIInv == IInv /\ [Next]_vars => IInv'
<1> SUFFICES ASSUME IInv, [Next]_vars PROVE IInv' OBVIOUS
<1>1. CASE UNCHANGED vars
  <2>1. \A r : Places(r)' = Places(r) /\ Opening(r)' = Opening(r)
    BY <1>1 DEF vars, Places, Opening
  <2>2. TypeOK' BY <1>1 DEF vars, IInv, TypeOK
  <2>3. FilesCounted' /\ SemaphoresCounted'
    BY <1>1, <2>1 DEF vars, IInv, FilesCounted, SemaphoresCounted
  <2>4. FreeUncounted' /\ LostExact' BY <1>1 DEF vars, IInv, FreeUncounted, LostExact
  <2>5. ProcessesCounted' BY <1>1, <2>1 DEF vars, IInv, ProcessesCounted
  <2>6. NothingDangles' /\ OneOpenFile' BY <1>1 DEF vars, IInv, NothingDangles, OneOpenFile
  <2>7. MutexHeld' /\ PtrExact' /\ AtExact' BY <1>1 DEF vars, IInv, MutexHeld, PtrExact, AtExact
  <2>8. LivesExact' /\ ForksExact' BY <1>1 DEF vars, IInv, LivesExact, ForksExact, Used
  <2> QED BY <2>2, <2>3, <2>4, <2>5, <2>6, <2>7, <2>8 DEF IInv
<1>2. ASSUME NEW p \in Proc, NEW s \in Starts, Open(p, s) PROVE IInv' BY <1>2, OpenStep
<1>3. ASSUME NEW p \in Proc, OpenFile(p) PROVE IInv' BY <1>3, OpenFileStep
<1>4. ASSUME NEW p \in Proc, Install(p) \/ Exec(p) PROVE IInv' BY <1>4, KeepStep
<1>5. ASSUME NEW p \in Proc, NotElf(p) PROVE IInv' BY <1>5, NotElfStep
<1>6. ASSUME NEW p \in Proc, NewSemaphore(p) PROVE IInv' BY <1>6, NewSemaphoreStep
<1>7. ASSUME NEW p \in Proc, NEW n \in Slot, CloseShared(p, n) PROVE IInv' BY <1>7, ReleaseStep
<1>8. ASSUME NEW p \in Proc, Joined(p) PROVE IInv'
  <2>1. at[p] \in Slot BY <1>8 DEF Joined, IInv, AtExact
  <2> QED BY <1>8, <2>1, ReleaseStep
<1>9. ASSUME NEW p \in Proc, NEW n \in Slot, CloseFile(p, n) PROVE IInv' BY <1>9, CloseFileStep
<1>10. ASSUME NEW p \in Proc, FileClosed(p) PROVE IInv' BY <1>10, FileClosedStep
<1>11. ASSUME NEW p \in Proc, NEW c \in Proc, Fork(p, c) PROVE IInv' BY <1>11, ForkStep
<1>12. ASSUME NEW p \in Proc, ForkSlot(p) PROVE IInv' BY <1>12, ForkSlotStep
<1>13. ASSUME NEW p \in Proc, Forked(p) PROVE IInv' BY <1>13, ForkedStep
<1>14. ASSUME NEW p \in Proc, (\E n \in Slot : Join(p, n)) \/ Exit(p) \/ ExitSignal(p) \/ Terminate(p)
       PROVE IInv'
  BY <1>14, LifeStep
<1>15. ASSUME NEW p \in Proc, Reap(p) PROVE IInv' BY <1>15, ReapStep
<1> QED BY <1>1, <1>2, <1>3, <1>4, <1>5, <1>6, <1>7, <1>8, <1>9, <1>10, <1>11, <1>12, <1>13, <1>14,
           <1>15 DEF Next

\* Every state of the tables, counts and calls satisfies the invariant.
THEOREM ResourceInvariance == Spec => []IInv
BY InitIInv, NextIInv, PTL DEF Spec

\* ref and unref keep every count equal to the number of pointers: those in
\* tables, those of calls that have not come to an end, and the lost ones.
THEOREM CountsCorrect == Spec => []CountsExact
<1>1. IInv => CountsExact
  BY DEF IInv, CountsExact, FilesCounted, SemaphoresCounted, FreeUncounted, ProcessesCounted
<1> QED BY <1>1, ResourceInvariance, PTL

\* Whatever a table or a call points at has not been deleted.
THEOREM DanglesNever == Spec => []NothingDangles
<1>1. IInv => NothingDangles BY DEF IInv
<1> QED BY <1>1, ResourceInvariance, PTL

\* openFile and closeFile keep one OpenFile per file, the one that openFiles has.
THEOREM OpenFilesUnique == Spec => []OneOpenFile
<1>1. IInv => OneOpenFile BY DEF IInv
<1> QED BY <1>1, ResourceInvariance, PTL

\* Only the reaper's unref, or a later one, deletes a process.
THEOREM StackKept == Spec => StackOutlives
<1>1. IInv /\ IInv' /\ [Next]_vars =>
        [\A p \in Proc : (count[p] > 0 /\ count'[p] = 0) => status'[p] = "reaped"]_vars
  <2> SUFFICES ASSUME IInv, IInv', [Next]_vars, NEW p \in Proc, count[p] > 0, count'[p] = 0
               PROVE  status'[p] = "reaped"
    OBVIOUS
  <2>1. status'[p] \notin {"live", "done", "dead"}
    <3>1. ProcessesCounted' /\ Places(ProcessOf(p))' \in Nat
      <4>1. (\A x : Places(x) \in Nat /\ Opening(x) \in Nat)' BY CountTypes, PTL
      <4> QED BY <4>1 DEF IInv
    <3> QED BY <3>1 DEF ProcessesCounted
  <2>2. status[p] \notin {"unborn", "forming"} BY UnbornFacts
  <2>3. status'[p] \notin {"unborn", "forming"}
    <3>1. \A c \in Proc : pc[c] = "fork" => arg[c] \in Proc BY DEF IInv, ForksExact
    <3>2. status' = status \/ \E c \in Proc : \E new \in {"forming", "live", "done", "dead", "reaped"} :
            status' = [status EXCEPT ![c] = new] /\ (new = "forming" => status[c] = "unborn")
      BY <3>1 DEF Next, vars, Open, OpenFile, Install, Exec, NotElf, NewSemaphore, CloseShared, CloseFile,
                  Join, FileClosed, Fork, ForkSlot, Forked, Joined, Exit, ExitSignal, Terminate, Reap
    <3> QED BY <3>2, <2>2 DEF IInv, TypeOK
  <2> QED BY <2>1, <2>3 DEF IInv, TypeOK
<1> QED BY <1>1, ResourceInvariance, PTL DEF Spec, StackOutlives

-----------------------------------------------------------------------------
(***************************************************************************)
(* The heap.                                                               *)
(***************************************************************************)

Words == [Index -> -Len0 .. Len0]
Guards == {0, Len0 - 2}

\* The blocks of T are taken, those of F are free, and they tile the words
\* from one to another.
Tiles(a, T, F, from, upto) ==
    /\ \A i \in T \cup F : /\ i \in Index /\ from <= i /\ Footer(a, i) <= upto
                           /\ BlockSize(a, i) >= 2 /\ (i \notin Guards => BlockSize(a, i) >= 4)
                           /\ a[Footer(a, i)] = a[i]
    /\ (\A i \in T : a[i] < 0) /\ (\A i \in F : a[i] > 0)
    /\ \A i, j \in T \cup F : i < j => Footer(a, i) < j
    /\ \A w \in from .. upto : \E i \in T \cup F : i <= w /\ w <= Footer(a, i)

Whole(a, T, F) ==
    a \in Words /\ Guards \subseteq T /\ a[0] = -2 /\ a[Len0 - 2] = -2 /\ Tiles(a, T, F, 0, Len0 - 1)

\* The links lead from the head over the blocks of the list, and back.
Listed(a, head, list) ==
    /\ list \in Seq(Index) /\ IsInjective(list)
    /\ head = IF list = <<>> THEN 0 ELSE list[1]
    /\ \A k \in DOMAIN list : /\ NextOf(a, list[k]) = IF k = Len(list) THEN 0 ELSE list[k + 1]
                              /\ PrevOf(a, list[k]) = IF k = 1 THEN 0 ELSE list[k - 1]

\* No two free blocks are neighbours.
Apart(a, F) == \A i, j \in F : j # Footer(a, i) + 1

Shape(a, head, T, list) ==
    Whole(a, T, Range(list)) /\ Listed(a, head, list) /\ Apart(a, Range(list))

HeapInv ==
    /\ HeapTypeOK /\ held \cap Guards = {}
    /\ Shape(array, avail, Guards \cup held, FreeList)

-----------------------------------------------------------------------------

\* The words of the heap and its two guards.
LEMMA HeapTypes ==
    /\ Len0 \in Nat /\ Len0 >= 8 /\ Index = 0 .. Len0 - 1
    /\ Guards = {0, Len0 - 2} /\ Guards \subseteq Index
BY HeapAssumption DEF Index, Guards

\* Where the words of a block are, and those of another.
LEMMA BlockFacts ==
    ASSUME NEW a, NEW T, NEW F, Whole(a, T, F), NEW i \in T \cup F
    PROVE  /\ i \in Nat /\ i < Len0 /\ Footer(a, i) \in Nat /\ Footer(a, i) < Len0
           /\ a[i] \in Int /\ BlockSize(a, i) \in Nat /\ Footer(a, i) = i + BlockSize(a, i) - 1
           /\ i < Footer(a, i) /\ (i \notin Guards => i + 3 <= Footer(a, i))
           /\ i \in F => i \notin T
           /\ i \notin Guards => 2 <= i /\ Footer(a, i) < Len0 - 2
           /\ \A j \in T \cup F : j < i => Footer(a, j) < i
           /\ \A j \in T \cup F : i < j => Footer(a, i) < j
           /\ Footer(a, 0) = 1 /\ Footer(a, Len0 - 2) = Len0 - 1
<1>1. a \in Words /\ i \in Index /\ Tiles(a, T, F, 0, Len0 - 1) /\ Guards \subseteq T
      /\ a[0] = -2 /\ a[Len0 - 2] = -2
  BY DEF Whole, Tiles
<1>2. a[i] \in Int /\ BlockSize(a, i) \in Nat /\ Footer(a, i) = i + BlockSize(a, i) - 1
  BY <1>1, HeapTypes DEF Words, BlockSize, Footer
<1>3. /\ 0 <= i /\ Footer(a, i) <= Len0 - 1 /\ BlockSize(a, i) >= 2
      /\ i \notin Guards => BlockSize(a, i) >= 4
  BY <1>1 DEF Tiles
<1>4. \A j, k \in T \cup F : j < k => Footer(a, j) < k BY <1>1 DEF Tiles
<1>5. Footer(a, 0) = 1 /\ Footer(a, Len0 - 2) = Len0 - 1
  <2>0. -2 = 0 - 2 OBVIOUS
  <2>1. \A x \in Int : x < 0 => (IF x < 0 THEN -x ELSE x) = 0 - x OBVIOUS
  <2>2. a[0] = 0 - 2 /\ a[Len0 - 2] = 0 - 2 BY <2>0, <1>1
  <2>6. a[0] \in Int /\ a[0] < 0 /\ a[Len0 - 2] \in Int /\ a[Len0 - 2] < 0 BY <2>2
  <2>3. BlockSize(a, 0) = 0 - a[0] /\ BlockSize(a, Len0 - 2) = 0 - a[Len0 - 2]
    BY <2>1, <2>6 DEF BlockSize
  <2>4. BlockSize(a, 0) = 2 /\ BlockSize(a, Len0 - 2) = 2 BY <2>2, <2>3
  <2> QED BY <2>4, HeapTypes DEF Footer
<1>6. i \in F => i \notin T BY <1>1, <1>2 DEF Tiles
<1>7. i \notin Guards => 2 <= i /\ Footer(a, i) < Len0 - 2
  <2>1. SUFFICES ASSUME i \notin Guards PROVE 2 <= i /\ Footer(a, i) < Len0 - 2 OBVIOUS
  <2>2. 0 \in T \cup F /\ Len0 - 2 \in T \cup F BY <1>1, HeapTypes
  <2>3. i # 0 /\ i # Len0 - 2 /\ i \in Nat BY <2>1, <1>1, HeapTypes
  <2>4. 1 < i BY <2>2, <2>3, <1>4, <1>5
  <2>5. i < Len0 - 2
    <3>1. SUFFICES ASSUME Len0 - 2 < i PROVE FALSE BY <2>3, HeapTypes
    <3>2. Len0 - 1 < i BY <3>1, <2>2, <1>4, <1>5
    <3> QED BY <3>2, <1>1, HeapTypes
  <2>6. Footer(a, i) < Len0 - 2 BY <2>2, <2>5, <1>4
  <2> QED BY <2>3, <2>4, <2>6
<1> QED BY <1>1, <1>2, <1>3, <1>4, <1>5, <1>6, <1>7, HeapTypes

\* The links of a free block are inside it: no tag, and no link of another one.
LEMMA LinkFacts ==
    ASSUME NEW a, NEW T, NEW F, Whole(a, T, F), NEW i \in F
    PROVE  /\ i + 1 \in Index /\ i + 2 \in Index /\ i \in Index /\ i # 0
           /\ i \in 1 .. Len0 - 2
           /\ \A j \in T \cup F : j \notin {i + 1, i + 2} /\ Footer(a, j) \notin {i + 1, i + 2}
           /\ \A j \in F : j # i => {i + 1, i + 2} \cap {j + 1, j + 2} = {}
<1>1. i \notin Guards BY BlockFacts DEF Whole
<1>2. /\ i \in Nat /\ 2 <= i /\ i + 3 <= Footer(a, i) /\ Footer(a, i) < Len0 - 2 /\ Footer(a, i) \in Nat
  BY <1>1, BlockFacts
<1>3. ASSUME NEW j \in T \cup F, j # i
      PROVE  /\ j \in Nat /\ Footer(a, j) \in Nat /\ j < Footer(a, j)
             /\ Footer(a, j) < i \/ Footer(a, i) < j
  BY <1>2, <1>3, BlockFacts
<1>4. ASSUME NEW j \in T \cup F PROVE j \notin {i + 1, i + 2} /\ Footer(a, j) \notin {i + 1, i + 2}
  <2>1. CASE j = i BY <2>1, <1>2
  <2>2. CASE j # i BY <2>2, <1>2, <1>3
  <2> QED BY <2>1, <2>2
<1>5. ASSUME NEW j \in F, j # i PROVE {i + 1, i + 2} \cap {j + 1, j + 2} = {}
  <2>1. j \notin Guards BY BlockFacts DEF Whole
  <2>2. j + 3 <= Footer(a, j) BY <2>1, BlockFacts
  <2> QED BY <2>2, <1>2, <1>3, <1>5
<1> QED BY <1>2, <1>4, <1>5, HeapTypes

\* The blocks on the two sides of one.
LEMMA NeighbourFacts ==
    ASSUME NEW a, NEW T, NEW F, Whole(a, T, F), NEW i \in T \cup F, i \notin Guards
    PROVE  /\ RightOf(a, i) \in T \cup F /\ RightOf(a, i) = Footer(a, i) + 1
           /\ LeftOf(a, i) \in T \cup F /\ Footer(a, LeftOf(a, i)) = i - 1 /\ LeftOf(a, i) < i
           /\ a[i - 1] = a[LeftOf(a, i)]
<1>1. /\ i \in Nat /\ 2 <= i /\ i < Footer(a, i) /\ Footer(a, i) < Len0 - 2 /\ Footer(a, i) \in Nat
      /\ Footer(a, i) = i + BlockSize(a, i) - 1 /\ BlockSize(a, i) \in Nat
  BY BlockFacts
<1>2. \A w \in 0 .. Len0 - 1 : \E j \in T \cup F : j <= w /\ w <= Footer(a, j)
  BY DEF Whole, Tiles
<1>3. RightOf(a, i) = Footer(a, i) + 1 BY <1>1 DEF RightOf
<1>4. PICK r \in T \cup F : r <= Footer(a, i) + 1 /\ Footer(a, i) + 1 <= Footer(a, r)
  BY <1>1, <1>2, HeapTypes
<1>5. r \in Nat /\ Footer(a, r) \in Nat BY BlockFacts
<1>6. r = Footer(a, i) + 1
  <2>1. i # r BY <1>1, <1>4
  <2>2. ~(r < i) BY <1>1, <1>4, <1>5, BlockFacts
  <2>3. Footer(a, i) < r BY <1>1, <1>5, <2>1, <2>2, BlockFacts
  <2> QED BY <2>3, <1>1, <1>4, <1>5
<1>7. PICK l \in T \cup F : l <= i - 1 /\ i - 1 <= Footer(a, l) BY <1>1, <1>2, HeapTypes
<1>8. l \in Nat /\ Footer(a, l) \in Nat /\ Footer(a, l) = l + BlockSize(a, l) - 1 /\ BlockSize(a, l) \in Nat
  BY BlockFacts
<1>9. Footer(a, l) = i - 1
  <2>1. l < i BY <1>1, <1>7, <1>8
  <2>2. Footer(a, l) < i BY <2>1, BlockFacts
  <2> QED BY <2>2, <1>1, <1>7, <1>8
<1>10. a[i - 1] = a[l] BY <1>9 DEF Whole, Tiles
<1>11. LeftOf(a, i) = l
  <2>1. BlockSize(a, i - 1) = BlockSize(a, l) BY <1>10 DEF BlockSize
  <2> QED BY <2>1, <1>1, <1>8, <1>9 DEF LeftOf
<1> QED BY <1>1, <1>3, <1>4, <1>6, <1>7, <1>8, <1>9, <1>10, <1>11

-----------------------------------------------------------------------------
(***************************************************************************)
(* What the operations write, word by word.                                *)
(***************************************************************************)

\* The two tags of a block.
LEMMA TaggedFacts ==
    ASSUME NEW a \in Words, NEW i \in Index, NEW n \in Nat, i + n - 1 \in Index,
           NEW tag \in -Len0 .. Len0
    PROVE  /\ Tagged(a, i, n, tag) \in Words
           /\ \A w \in Index : Tagged(a, i, n, tag)[w] = IF w = i \/ w = i + n - 1 THEN tag ELSE a[w]
BY DEF Tagged, Words

\* makeTaken() writes the tags.
LEMMA MakeTakenFacts ==
    ASSUME NEW a \in Words, NEW head, NEW i \in Index, NEW n \in Nat, i + n - 1 \in Index, n <= Len0,
           NEW m, m = MakeTaken([array |-> a, avail |-> head], i, n)
    PROVE  /\ m = [array |-> m.array, avail |-> head]
           /\ m.array \in Words
           /\ \A w \in Index : m.array[w] = IF w = i \/ w = i + n - 1 THEN -n ELSE a[w]
<1>1. m = [array |-> Tagged(a, i, n, -n), avail |-> head] BY DEF MakeTaken
<1>2. -n \in -Len0 .. Len0 BY HeapTypes
<1> QED BY <1>1, <1>2, TaggedFacts

\* makeAvail() writes the tags, the links of the block, and the back link of the first one.
LEMMA MakeAvailFacts ==
    ASSUME NEW a \in Words, NEW head \in Index, head # 0 => head + 2 \in Index,
           NEW i \in Index, NEW n \in Nat, n >= 4, i + n - 1 \in Index,
           NEW m, m = MakeAvail([array |-> a, avail |-> head], i, n)
    PROVE  /\ m = [array |-> m.array, avail |-> i]
           /\ m.array \in Words
           /\ \A w \in Index : m.array[w] = IF head # 0 /\ w = head + 2 THEN i
                                            ELSE IF w = i + 2 THEN 0
                                            ELSE IF w = i + 1 THEN head
                                            ELSE IF w = i \/ w = i + n - 1 THEN n ELSE a[w]
<1> DEFINE t == Tagged(a, i, n, n)
           s == [t EXCEPT ![i + 1] = head, ![i + 2] = 0]
<1>0. Len0 \in Nat /\ Index = 0 .. Len0 - 1 /\ i + 1 \in Index /\ i + 2 \in Index BY HeapTypes
<1>1. n \in -Len0 .. Len0 BY HeapTypes
<1>2. t \in Words /\ \A w \in Index : t[w] = IF w = i \/ w = i + n - 1 THEN n ELSE a[w]
  BY <1>1, TaggedFacts
<1>3. head \in -Len0 .. Len0 /\ 0 \in -Len0 .. Len0 /\ i \in -Len0 .. Len0 BY <1>0
<1> HIDE DEF t
<1>4. s \in Words /\ \A w \in Index : s[w] = IF w = i + 2 THEN 0 ELSE IF w = i + 1 THEN head ELSE t[w]
  BY <1>0, <1>2, <1>3 DEF Words
<1>5. m = [array |-> IF head = 0 THEN s ELSE [s EXCEPT ![head + 2] = i], avail |-> i]
  BY DEF MakeAvail, t
<1> HIDE DEF s
<1>6. CASE head = 0 BY <1>2, <1>4, <1>5, <1>6
<1>7. CASE head # 0
  <2> DEFINE x == [s EXCEPT ![head + 2] = i]
  <2>1. x \in Words /\ \A w \in Index : x[w] = IF w = head + 2 THEN i ELSE s[w]
    BY <1>3, <1>4, <1>7 DEF Words
  <2>2. m = [array |-> x, avail |-> i] BY <1>5, <1>7
  <2> HIDE DEF x
  <2> QED BY <2>1, <2>2, <1>2, <1>4, <1>7
<1> QED BY <1>6, <1>7

\* remove() writes the link of the block before and the back link of the one after.
LEMMA UnlinkFacts ==
    ASSUME NEW a \in Words, NEW head, NEW i, NEW p \in Index, NEW n \in Index,
           p = PrevOf(a, i), n = NextOf(a, i),
           p # 0 => p + 1 \in Index, n # 0 => n + 2 \in Index,
           NEW u, u = Unlink([array |-> a, avail |-> head], i)
    PROVE  /\ u = [array |-> u.array, avail |-> IF p = 0 THEN n ELSE head]
           /\ u.array \in Words
           /\ \A w \in Index : u.array[w] = IF n # 0 /\ w = n + 2 THEN p
                                            ELSE IF p # 0 /\ w = p + 1 THEN n ELSE a[w]
<1> DEFINE b == IF p = 0 THEN a ELSE [a EXCEPT ![p + 1] = n]
<1>0. p \in -Len0 .. Len0 /\ n \in -Len0 .. Len0 BY HeapTypes
<1>1. b \in Words /\ \A w \in Index : b[w] = IF p # 0 /\ w = p + 1 THEN n ELSE a[w]
  BY <1>0 DEF Words
<1>2. u = [array |-> IF n = 0 THEN b ELSE [b EXCEPT ![n + 2] = p], avail |-> IF p = 0 THEN n ELSE head]
  BY DEF Unlink
<1> HIDE DEF b
<1>3. CASE n = 0 BY <1>1, <1>2, <1>3
<1>4. CASE n # 0
  <2> DEFINE x == [b EXCEPT ![n + 2] = p]
  <2>1. x \in Words /\ \A w \in Index : x[w] = IF w = n + 2 THEN p ELSE b[w]
    BY <1>0, <1>1, <1>4 DEF Words
  <2>2. u = [array |-> x, avail |-> IF p = 0 THEN n ELSE head] BY <1>2, <1>4
  <2> HIDE DEF x
  <2> QED BY <2>1, <2>2, <1>1, <1>4
<1> QED BY <1>3, <1>4

-----------------------------------------------------------------------------

\* The tags are all that says where the blocks are.
LEMMA TagsKept ==
    ASSUME NEW a, NEW T, NEW F, Whole(a, T, F), NEW b \in Words,
           \A j \in T \cup F : b[j] = a[j] /\ b[Footer(a, j)] = a[Footer(a, j)]
    PROVE  Whole(b, T, F) /\ \A j \in T \cup F : Footer(b, j) = Footer(a, j)
<1>1. \A j \in T \cup F : Footer(b, j) = Footer(a, j) /\ BlockSize(b, j) = BlockSize(a, j)
  BY DEF Footer, BlockSize
<1>2. Tiles(b, T, F, 0, Len0 - 1) BY <1>1 DEF Whole, Tiles
<1>3. b[0] = -2 /\ b[Len0 - 2] = -2 BY HeapTypes DEF Whole
<1> QED BY <1>1, <1>2, <1>3 DEF Whole

\* The blocks of M, none of them a guard, are those between two words.
Region(a, T, F, M, from, upto) ==
    /\ M \subseteq T \cup F /\ M \cap Guards = {} /\ from \in Nat /\ upto \in Nat /\ from <= upto
    /\ \A j \in M : from <= j /\ Footer(a, j) <= upto
    /\ \A j \in (T \cup F) \ M : Footer(a, j) < from \/ upto < j

\* They give way to others that tile the same words.
Replaced(a, T, F, M, b, from, upto) ==
    /\ Region(a, T, F, M, from, upto)
    /\ b \in Words
    /\ \A j \in (T \cup F) \ M : b[j] = a[j] /\ b[Footer(a, j)] = a[Footer(a, j)]

\* The heap is tiled again.
LEMMA Retile ==
    ASSUME NEW a, NEW T, NEW F, Whole(a, T, F), NEW M, NEW b, NEW from, NEW upto,
           Replaced(a, T, F, M, b, from, upto), NEW S, NEW G, Tiles(b, S, G, from, upto),
           upto < Len0
    PROVE  Whole(b, (T \ M) \cup S, (F \ M) \cup G)
<1> DEFINE old == (T \cup F) \ M
           new == S \cup G
<1>1. \A j \in old : Footer(b, j) = Footer(a, j) /\ BlockSize(b, j) = BlockSize(a, j)
  BY DEF Replaced, Footer, BlockSize
<1>2. \A j \in old : /\ j \in Nat /\ Footer(a, j) \in Nat /\ j < Footer(a, j)
                     /\ Footer(a, j) < from \/ upto < j
  BY BlockFacts DEF Replaced, Region
<1>3. \A j \in new : /\ j \in Index /\ from <= j /\ Footer(b, j) <= upto
                     /\ BlockSize(b, j) >= 2 /\ (j \notin Guards => BlockSize(b, j) >= 4)
                     /\ b[Footer(b, j)] = b[j]
  BY DEF Tiles
<1>4. \A j \in new : j \in Nat /\ Footer(b, j) \in Int /\ j < Footer(b, j)
  <2>1. \A j \in new : j \in Nat /\ b[j] \in Int BY <1>3, HeapTypes DEF Replaced, Words
  <2>2. \A j \in new : BlockSize(b, j) \in Int BY <2>1 DEF BlockSize
  <2> QED BY <2>1, <2>2, <1>3 DEF Footer
<1>5. from \in Nat /\ upto \in Nat /\ upto <= Len0 - 1 BY HeapTypes DEF Replaced, Region
<1>6. \A j \in old : /\ j \in Index /\ 0 <= j /\ Footer(b, j) <= Len0 - 1
                     /\ BlockSize(b, j) >= 2 /\ (j \notin Guards => BlockSize(b, j) >= 4)
                     /\ b[Footer(b, j)] = b[j]
  BY <1>1 DEF Whole, Tiles, Replaced
<1>7. \A i, j \in old \cup new : i < j => Footer(b, i) < j
  <2>1. \A i, j \in old : i < j => Footer(b, i) < j BY <1>1 DEF Whole, Tiles
  <2>2. \A i, j \in new : i < j => Footer(b, i) < j BY DEF Tiles
  <2>3. \A i \in old, j \in new : i < j => Footer(b, i) < j BY <1>1, <1>2, <1>3, <1>4, <1>5
  <2>4. \A i \in new, j \in old : i < j => Footer(b, i) < j BY <1>1, <1>2, <1>3, <1>4, <1>5
  <2> QED BY <2>1, <2>2, <2>3, <2>4
<1>8. ASSUME NEW w \in 0 .. Len0 - 1
      PROVE  \E i \in old \cup new : i <= w /\ w <= Footer(b, i)
  <2>1. CASE w \in from .. upto BY <2>1 DEF Tiles
  <2>2. CASE w \notin from .. upto
    <3>1. PICK i \in T \cup F : i <= w /\ w <= Footer(a, i) BY DEF Whole, Tiles
    <3>2. i \in Nat /\ Footer(a, i) \in Nat /\ w \in Nat BY BlockFacts, HeapTypes
    <3>3. i \notin M BY <3>1, <3>2, <2>2, <1>5 DEF Replaced, Region
    <3> QED BY <3>1, <3>3, <1>1
  <2> QED BY <2>1, <2>2
<1>9. Guards \subseteq (T \ M) \cup S /\ b[0] = -2 /\ b[Len0 - 2] = -2
  <2>1. 0 \in T \ M /\ Len0 - 2 \in T \ M /\ Guards = {0, Len0 - 2}
    BY HeapTypes DEF Whole, Replaced, Region
  <2> QED BY <2>1 DEF Whole, Replaced
<1>10. (\A j \in (T \ M) \cup S : b[j] < 0) /\ (\A j \in (F \ M) \cup G : b[j] > 0)
  <2>1. (\A j \in T \ M : b[j] < 0) /\ (\A j \in F \ M : b[j] > 0) BY DEF Whole, Tiles, Replaced
  <2>2. (\A j \in S : b[j] < 0) /\ (\A j \in G : b[j] > 0) BY DEF Tiles
  <2> QED BY <2>1, <2>2
<1>11. \A i \in old \cup new : /\ i \in Index /\ 0 <= i /\ Footer(b, i) <= Len0 - 1
                              /\ BlockSize(b, i) >= 2 /\ (i \notin Guards => BlockSize(b, i) >= 4)
                              /\ b[Footer(b, i)] = b[i]
  BY <1>3, <1>4, <1>5, <1>6, HeapTypes
<1>12. ((T \ M) \cup S) \cup ((F \ M) \cup G) = old \cup new OBVIOUS
<1> HIDE DEF old, new
<1>13. Tiles(b, (T \ M) \cup S, (F \ M) \cup G, 0, Len0 - 1)
  BY <1>7, <1>8, <1>10, <1>11, <1>12 DEF Tiles
<1> QED BY <1>9, <1>13 DEF Whole, Replaced

-----------------------------------------------------------------------------

\* The members of a list are words of the heap, and its head is one of them or 0.
LEMMA ListedTypes ==
    ASSUME NEW a, NEW head, NEW list, Listed(a, head, list)
    PROVE  /\ Len(list) \in Nat /\ DOMAIN list = 1 .. Len(list) /\ Range(list) \subseteq Index
           /\ \A k \in 1 .. Len(list) : list[k] \in Range(list)
           /\ \A x \in Range(list) : \E k \in 1 .. Len(list) : x = list[k]
           /\ head \in Index /\ (head # 0 => head \in Range(list))
<1>1. Len(list) \in Nat /\ DOMAIN list = 1 .. Len(list) BY LenProperties DEF Listed
<1>2. \A k \in 1 .. Len(list) : list[k] \in Range(list) /\ list[k] \in Index
  BY <1>1 DEF Range, Listed
<1>3. \A x \in Range(list) : \E k \in 1 .. Len(list) : x = list[k] BY <1>1 DEF Range
<1>4. head = 0 \/ (1 \in 1 .. Len(list) /\ head = list[1])
  <2>1. list # <<>> => 1 \in 1 .. Len(list) BY <1>1, EmptySeq DEF Listed
  <2> QED BY <2>1 DEF Listed
<1> QED BY <1>1, <1>2, <1>3, <1>4, HeapTypes

\* The list stays while the links of its blocks do.
LEMMA ListedKept ==
    ASSUME NEW a, NEW head, NEW list, Listed(a, head, list), NEW b,
           \A j \in Range(list) : b[j + 1] = a[j + 1] /\ b[j + 2] = a[j + 2]
    PROVE  Listed(b, head, list)
<1>1. \A k \in DOMAIN list : list[k] \in Range(list) BY ListedTypes
<1>2. \A k \in DOMAIN list : NextOf(b, list[k]) = NextOf(a, list[k]) /\ PrevOf(b, list[k]) = PrevOf(a, list[k])
  BY <1>1 DEF NextOf, PrevOf
<1> QED BY <1>2 DEF Listed

\* A new first block.
LEMMA ListedPush ==
    ASSUME NEW a, NEW head, NEW list, Listed(a, head, list), NEW i \in Index, i \notin Range(list),
           NEW b, b[i + 1] = head, b[i + 2] = 0, 0 \notin Range(list),
           \A j \in Range(list) : /\ b[j + 1] = a[j + 1]
                                  /\ b[j + 2] = IF j = head THEN i ELSE a[j + 2]
    PROVE  \E more : Listed(b, i, more) /\ Range(more) = Range(list) \cup {i}
<1> DEFINE n == Len(list)
           more == [k \in 1 .. n + 1 |-> IF k = 1 THEN i ELSE list[k - 1]]
<1>1. n \in Nat /\ DOMAIN list = 1 .. n /\ list \in Seq(Index) /\ (list = <<>> <=> n = 0)
  BY ListedTypes, EmptySeq DEF Listed
<1>2. \A k \in 1 .. n : list[k] \in Range(list) /\ list[k] \in Index BY <1>1, ListedTypes
<1>3. \A x \in Range(list) : \E k \in 1 .. n : x = list[k] BY ListedTypes
<1>4. /\ more \in Seq(Index) /\ Len(more) = n + 1 /\ DOMAIN more = 1 .. n + 1 /\ more[1] = i
      /\ \A k \in 1 .. n : more[k + 1] = list[k]
      /\ \A k \in 1 .. n + 1 : more[k] = IF k = 1 THEN i ELSE list[k - 1]
  <2>1. \A k \in 1 .. n + 1 : more[k] = IF k = 1 THEN i ELSE list[k - 1] OBVIOUS
  <2>2. \A k \in 1 .. n + 1 : more[k] \in Index BY <1>1, <1>2
  <2>3. more \in Seq(Index) /\ Len(more) = n + 1 BY <1>1, <2>2
  <2> QED BY <2>1, <2>3, <1>1
<1> HIDE DEF n, more
<1>5. more # <<>> BY <1>1, <1>4
<1>6. Range(more) = Range(list) \cup {i}
  <2>1. \A x \in Range(more) : x \in Range(list) \cup {i} BY <1>1, <1>2, <1>4 DEF Range
  <2>2. \A x \in Range(list) : x \in Range(more)
    <3>1. ASSUME NEW k \in 1 .. n PROVE list[k] \in Range(more)
      <4>1. k + 1 \in DOMAIN more BY <1>1, <1>4
      <4> QED BY <4>1, <1>4 DEF Range
    <3> QED BY <3>1, <1>3
  <2>3. i \in Range(more)
    <3>1. 1 \in DOMAIN more BY <1>1, <1>4
    <3> QED BY <3>1, <1>4 DEF Range
  <2> QED BY <2>1, <2>2, <2>3
<1>7. IsInjective(more)
  <2>1. \A j, k \in 1 .. n : list[j] = list[k] => j = k BY <1>1 DEF Listed, IsInjective
  <2>2. \A k \in 1 .. n : list[k] # i BY <1>2
  <2>3. ASSUME NEW j \in 1 .. n + 1, NEW k \in 1 .. n + 1, more[j] = more[k] PROVE j = k
    <3>1. CASE j = 1 /\ k # 1
      <4>1. k - 1 \in 1 .. n BY <3>1, <1>1
      <4> QED BY <4>1, <3>1, <2>2, <2>3, <1>4
    <3>2. CASE j # 1 /\ k = 1
      <4>1. j - 1 \in 1 .. n BY <3>2, <1>1
      <4> QED BY <4>1, <3>2, <2>2, <2>3, <1>4
    <3>3. CASE j # 1 /\ k # 1
      <4>1. j - 1 \in 1 .. n /\ k - 1 \in 1 .. n BY <3>3, <1>1
      <4>2. list[j - 1] = list[k - 1] BY <3>3, <2>3, <1>4
      <4>3. j - 1 = k - 1 BY <4>1, <4>2, <2>1
      <4> QED BY <4>3, <1>1
    <3> QED BY <3>1, <3>2, <3>3
  <2> QED BY <2>3, <1>4 DEF IsInjective
<1>8. ASSUME NEW k \in 1 .. n + 1
      PROVE  /\ NextOf(b, more[k]) = IF k = n + 1 THEN 0 ELSE more[k + 1]
             /\ PrevOf(b, more[k]) = IF k = 1 THEN 0 ELSE more[k - 1]
  <2>1. CASE k = 1
    <3>1. NextOf(b, more[k]) = head /\ PrevOf(b, more[k]) = 0 BY <2>1, <1>4 DEF NextOf, PrevOf
    <3>2. head = IF n = 0 THEN 0 ELSE list[1] BY <1>1 DEF Listed
    <3>3. n # 0 => more[2] = list[1]
      <4>1. n # 0 => 1 \in 1 .. n BY <1>1
      <4> QED BY <4>1, <1>4
    <3> QED BY <3>1, <3>2, <3>3, <2>1, <1>1
  <2>2. CASE k # 1
    <3>1. k - 1 \in 1 .. n /\ more[k] = list[k - 1] BY <2>2, <1>1, <1>4
    <3>2. /\ NextOf(a, list[k - 1]) = IF k - 1 = n THEN 0 ELSE list[(k - 1) + 1]
          /\ PrevOf(a, list[k - 1]) = IF k - 1 = 1 THEN 0 ELSE list[(k - 1) - 1]
      BY <3>1, <1>1 DEF Listed, n
    <3>3. NextOf(b, more[k]) = NextOf(a, list[k - 1]) BY <3>1, <1>2 DEF NextOf
    <3>4. k # n + 1 => more[k + 1] = list[k] /\ (k - 1) + 1 = k BY <1>1, <1>4
    <3>5. PrevOf(b, more[k]) = IF list[k - 1] = head THEN i ELSE PrevOf(a, list[k - 1])
      BY <3>1, <1>2 DEF PrevOf
    <3>6. list[k - 1] = head <=> k - 1 = 1
      <4>1. 1 \in 1 .. n /\ n # 0 BY <3>1, <1>1
      <4>2. head = list[1] BY <4>1, <1>1 DEF Listed
      <4> QED BY <4>1, <4>2, <3>1, <1>1 DEF Listed, IsInjective
    <3>7. k = 2 => more[k - 1] = i BY <1>4
    <3>8. k # 2 => more[k - 1] = list[k - 2] /\ (k - 1) - 1 = k - 2
      <4>1. k # 2 => k - 1 \in 1 .. n + 1 /\ k - 1 # 1 /\ (k - 1) - 1 = k - 2 BY <2>2, <1>1
      <4> QED BY <4>1, <1>4
    <3> QED BY <3>1, <3>2, <3>3, <3>4, <3>5, <3>6, <3>7, <3>8, <2>2, <1>1
  <2> QED BY <2>1, <2>2
<1>9. Listed(b, i, more) BY <1>4, <1>5, <1>7, <1>8 DEF Listed
<1> QED BY <1>6, <1>9

\* A block leaves the list, and the ones before and after it are linked.
LEMMA ListedDrop ==
    ASSUME NEW a, NEW head, NEW list, Listed(a, head, list), NEW i \in Range(list),
           0 \notin Range(list), NEW p, p = PrevOf(a, i), NEW n, n = NextOf(a, i), NEW b,
           \A j \in Range(list) : /\ b[j + 1] = IF j = p THEN n ELSE a[j + 1]
                                  /\ b[j + 2] = IF j = n THEN p ELSE a[j + 2]
    PROVE  \E less : Listed(b, IF p = 0 THEN n ELSE head, less) /\ Range(less) = Range(list) \ {i}
<1> DEFINE len == Len(list)
<1>1. len \in Nat /\ DOMAIN list = 1 .. len /\ list \in Seq(Index) /\ (list = <<>> <=> len = 0)
  BY ListedTypes, EmptySeq DEF Listed
<1>2. \A k \in 1 .. len : list[k] \in Range(list) /\ list[k] \in Index /\ list[k] # 0
  BY <1>1, ListedTypes
<1>3. \A j, k \in 1 .. len : list[j] = list[k] => j = k BY <1>1 DEF Listed, IsInjective
<1>4. PICK m \in 1 .. len : i = list[m] BY ListedTypes
<1> DEFINE pos(k) == IF k < m THEN k ELSE k + 1
           less == [k \in 1 .. len - 1 |-> list[pos(k)]]
<1>5. m \in Nat /\ 1 <= m /\ m <= len /\ len # 0 BY <1>1, <1>4
<1>6. \A k \in 1 .. len - 1 : pos(k) \in 1 .. len /\ pos(k) # m BY <1>1, <1>5
<1>7. \A j \in 1 .. len : j # m => \E k \in 1 .. len - 1 : j = pos(k)
  <2>1. ASSUME NEW j \in 1 .. len, j # m PROVE \E k \in 1 .. len - 1 : j = pos(k)
    <3>1. CASE j < m
      <4>1. j \in 1 .. len - 1 /\ pos(j) = j BY <3>1, <1>1, <1>5
      <4> QED BY <4>1
    <3>2. CASE ~(j < m)
      <4>1. j - 1 \in 1 .. len - 1 /\ pos(j - 1) = j BY <3>2, <2>1, <1>1, <1>5
      <4> QED BY <4>1
    <3> QED BY <3>1, <3>2
  <2> QED BY <2>1
<1>8. \A j, k \in 1 .. len - 1 : pos(j) = pos(k) => j = k BY <1>1, <1>5
<1>9. \A k \in 1 .. len - 1 : pos(k) \in Nat /\ k \in Nat /\ pos(k) = IF k < m THEN k ELSE k + 1
  BY <1>1, <1>5
<1> HIDE DEF pos, len
<1>10. /\ less \in Seq(Index) /\ Len(less) = len - 1 /\ DOMAIN less = 1 .. len - 1
       /\ \A k \in 1 .. len - 1 : less[k] = list[pos(k)]
  <2>1. \A k \in 1 .. len - 1 : list[pos(k)] \in Index BY <1>2, <1>6
  <2> QED BY <2>1, <1>1, <1>5
<1> HIDE DEF less
<1>11. Range(less) = Range(list) \ {i}
  <2>1. \A x \in Range(less) : x \in Range(list) \ {i}
    <3>1. \A k \in 1 .. len - 1 : list[pos(k)] \in Range(list) /\ list[pos(k)] # i
      BY <1>2, <1>3, <1>4, <1>6
    <3> QED BY <3>1, <1>10 DEF Range
  <2>2. \A x \in Range(list) \ {i} : x \in Range(less)
    <3>1. ASSUME NEW j \in 1 .. len, list[j] # i PROVE list[j] \in Range(less)
      <4>1. PICK k \in 1 .. len - 1 : j = pos(k) BY <3>1, <1>4, <1>7
      <4> QED BY <4>1, <1>10 DEF Range
    <3> QED BY <3>1, <1>1 DEF Range
  <2> QED BY <2>1, <2>2
<1>12. IsInjective(less)
  <2>1. ASSUME NEW j \in 1 .. len - 1, NEW k \in 1 .. len - 1, less[j] = less[k] PROVE j = k
    BY <2>1, <1>3, <1>6, <1>8, <1>10
  <2> QED BY <2>1, <1>10 DEF IsInjective
<1>13. /\ p = IF m = 1 THEN 0 ELSE list[m - 1]
       /\ n = IF m = len THEN 0 ELSE list[m + 1]
       /\ head = list[1]
  BY <1>1, <1>4, <1>5 DEF Listed, len
<1>14. ASSUME NEW k \in 1 .. len
       PROVE  /\ NextOf(a, list[k]) = IF k = len THEN 0 ELSE list[k + 1]
              /\ PrevOf(a, list[k]) = IF k = 1 THEN 0 ELSE list[k - 1]
              /\ list[k] = p <=> k = m - 1
              /\ list[k] = n <=> k = m + 1
  <2>1. /\ NextOf(a, list[k]) = IF k = len THEN 0 ELSE list[k + 1]
        /\ PrevOf(a, list[k]) = IF k = 1 THEN 0 ELSE list[k - 1]
    BY <1>1 DEF Listed, len
  <2>2. list[k] = p <=> k = m - 1
    <3>1. m # 1 => m - 1 \in 1 .. len BY <1>1, <1>5
    <3> QED BY <3>1, <1>1, <1>2, <1>3, <1>5, <1>13
  <2>3. list[k] = n <=> k = m + 1
    <3>1. m # len => m + 1 \in 1 .. len BY <1>1, <1>5
    <3> QED BY <3>1, <1>1, <1>2, <1>3, <1>5, <1>13
  <2> QED BY <2>1, <2>2, <2>3
<1>15. ASSUME NEW k \in 1 .. len - 1
       PROVE  /\ NextOf(b, less[k]) = IF k = len - 1 THEN 0 ELSE less[k + 1]
              /\ PrevOf(b, less[k]) = IF k = 1 THEN 0 ELSE less[k - 1]
  <2>1. /\ less[k] = list[pos(k)] /\ pos(k) \in 1 .. len /\ list[pos(k)] \in Range(list)
        /\ k \in Nat /\ 1 <= k /\ k <= len - 1
    BY <1>1, <1>2, <1>6, <1>10
  <2>2. /\ NextOf(b, less[k]) = IF pos(k) = m - 1 THEN n
                                ELSE IF pos(k) = len THEN 0 ELSE list[pos(k) + 1]
        /\ PrevOf(b, less[k]) = IF pos(k) = m + 1 THEN p
                                ELSE IF pos(k) = 1 THEN 0 ELSE list[pos(k) - 1]
    BY <2>1, <1>14 DEF NextOf, PrevOf
  <2>3. k # len - 1 => k + 1 \in 1 .. len - 1 /\ less[k + 1] = list[pos(k + 1)]
    BY <2>1, <1>1, <1>10
  <2>4. k # 1 => k - 1 \in 1 .. len - 1 /\ less[k - 1] = list[pos(k - 1)]
    BY <2>1, <1>1, <1>10
  <2>5. pos(k) = IF k < m THEN k ELSE k + 1 BY <1>9
  <2>6. k # len - 1 => pos(k + 1) = IF k + 1 < m THEN k + 1 ELSE k + 2 BY <2>1, <2>3, <1>9
  <2>7. k # 1 => pos(k - 1) = IF k - 1 < m THEN k - 1 ELSE k BY <2>1, <2>4, <1>9
  <2>8. NextOf(b, less[k]) = IF k = len - 1 THEN 0 ELSE less[k + 1]
    <3>1. CASE k < m - 1
      <4>1. pos(k) = k /\ k # len - 1 /\ pos(k + 1) = k + 1 /\ k # len /\ k # m - 1
        BY <3>1, <2>1, <2>5, <2>6, <1>1, <1>5
      <4> QED BY <4>1, <2>2, <2>3
    <3>2. CASE k = m - 1
      <4>1. pos(k) = m - 1 BY <3>2, <2>1, <2>5, <1>5
      <4>2. k # len - 1 => pos(k + 1) = m + 1 BY <3>2, <2>6, <1>5
      <4>3. k = len - 1 <=> m = len BY <3>2, <1>1, <1>5
      <4> QED BY <4>1, <4>2, <4>3, <2>2, <2>3, <1>13
    <3>3. CASE k > m - 1
      <4>1. pos(k) = k + 1 /\ k + 1 # m - 1 BY <3>3, <2>1, <2>5, <1>5
      <4>2. k # len - 1 => pos(k + 1) = k + 2 /\ k + 2 = (k + 1) + 1 BY <3>3, <2>1, <2>6, <1>5
      <4>3. k = len - 1 <=> k + 1 = len BY <2>1, <1>1
      <4> QED BY <4>1, <4>2, <4>3, <2>2, <2>3
    <3> QED BY <3>1, <3>2, <3>3, <2>1, <1>5
  <2>9. PrevOf(b, less[k]) = IF k = 1 THEN 0 ELSE less[k - 1]
    <3>1. CASE k < m
      <4>1. pos(k) = k /\ k # m + 1 BY <3>1, <2>1, <2>5, <1>5
      <4>2. k # 1 => pos(k - 1) = k - 1 BY <3>1, <2>1, <2>7, <1>5
      <4> QED BY <4>1, <4>2, <2>2, <2>4
    <3>2. CASE k = m
      <4>1. pos(k) = m + 1 BY <3>2, <2>5, <1>5
      <4>2. k # 1 => pos(k - 1) = m - 1 BY <3>2, <2>1, <2>7, <1>5
      <4> QED BY <4>1, <4>2, <3>2, <2>2, <2>4, <1>13
    <3>3. CASE k > m
      <4>1. pos(k) = k + 1 /\ k + 1 # m + 1 /\ k + 1 # 1 /\ k # 1 /\ (k + 1) - 1 = k
        BY <3>3, <2>1, <2>5, <1>5
      <4>2. pos(k - 1) = k BY <3>3, <4>1, <2>1, <2>7, <1>5
      <4> QED BY <4>1, <4>2, <2>2, <2>4
    <3> QED BY <3>1, <3>2, <3>3, <2>1, <1>5
  <2> QED BY <2>8, <2>9
<1>16. (IF p = 0 THEN n ELSE head) = IF less = <<>> THEN 0 ELSE less[1]
  <2>1. less = <<>> <=> len = 1 BY <1>1, <1>5, <1>10, EmptySeq
  <2>2. p = 0 <=> m = 1
    <3>1. m # 1 => m - 1 \in 1 .. len BY <1>1, <1>5
    <3> QED BY <3>1, <1>2, <1>13
  <2>3. CASE len = 1 BY <2>1, <2>2, <2>3, <1>5, <1>13
  <2>4. CASE len # 1
    <3>1. 1 \in 1 .. len - 1 /\ pos(1) = IF 1 < m THEN 1 ELSE 2 BY <2>4, <1>1, <1>5, <1>9
    <3> QED BY <3>1, <2>1, <2>2, <2>4, <1>5, <1>10, <1>13
  <2> QED BY <2>3, <2>4
<1>17. Listed(b, IF p = 0 THEN n ELSE head, less)
  BY <1>10, <1>12, <1>15, <1>16 DEF Listed
<1> QED BY <1>11, <1>17

-----------------------------------------------------------------------------
(***************************************************************************)
(* What the operations make of the blocks and of the list.                 *)
(***************************************************************************)

\* remove(): the list loses a block, and no tag changes.
LEMMA UnlinkStep ==
    ASSUME NEW a, NEW head, NEW T, NEW F, NEW list, Whole(a, T, F), Listed(a, head, list),
           Range(list) \subseteq F, NEW i \in Range(list),
           NEW u, u = Unlink([array |-> a, avail |-> head], i)
    PROVE  /\ u = [array |-> u.array, avail |-> u.avail] /\ Whole(u.array, T, F)
           /\ \A j \in T \cup F : u.array[j] = a[j] /\ Footer(u.array, j) = Footer(a, j)
           /\ \E less : Listed(u.array, u.avail, less) /\ Range(less) = Range(list) \ {i}
<1>1. PICK p, n : p = PrevOf(a, i) /\ n = NextOf(a, i) OBVIOUS
<1>2. (p = 0 \/ p \in Range(list)) /\ (n = 0 \/ n \in Range(list))
  <2>1. PICK k \in 1 .. Len(list) : i = list[k] BY ListedTypes
  <2>2. /\ n = IF k = Len(list) THEN 0 ELSE list[k + 1]
        /\ p = IF k = 1 THEN 0 ELSE list[k - 1]
    BY <1>1, <2>1, ListedTypes DEF Listed
  <2>3. (k # Len(list) => k + 1 \in 1 .. Len(list)) /\ (k # 1 => k - 1 \in 1 .. Len(list))
    BY <2>1, ListedTypes
  <2> QED BY <2>2, <2>3, ListedTypes
<1>3. a \in Words BY DEF Whole
<1>4. \A j \in F : /\ j + 1 \in Index /\ j + 2 \in Index /\ j \in Index /\ j # 0 /\ j \in Nat
                   /\ \A k \in T \cup F : k \notin {j + 1, j + 2} /\ Footer(a, k) \notin {j + 1, j + 2}
                   /\ \A k \in F : k # j => {j + 1, j + 2} \cap {k + 1, k + 2} = {}
  BY LinkFacts, HeapTypes
<1>5. p \in Index /\ n \in Index /\ (p # 0 => p + 1 \in Index) /\ (n # 0 => n + 2 \in Index)
  BY <1>2, <1>4, HeapTypes
<1>6. /\ u = [array |-> u.array, avail |-> IF p = 0 THEN n ELSE head]
      /\ u.array \in Words
      /\ \A w \in Index : u.array[w] = IF n # 0 /\ w = n + 2 THEN p
                                       ELSE IF p # 0 /\ w = p + 1 THEN n ELSE a[w]
  BY <1>1, <1>3, <1>5, UnlinkFacts
<1>7. ASSUME NEW j \in T \cup F PROVE u.array[j] = a[j] /\ u.array[Footer(a, j)] = a[Footer(a, j)]
  <2>1. j \in Index /\ Footer(a, j) \in Index BY BlockFacts, HeapTypes
  <2> QED BY <2>1, <1>2, <1>4, <1>6
<1>8. Whole(u.array, T, F) /\ \A j \in T \cup F : Footer(u.array, j) = Footer(a, j)
  BY <1>6, <1>7, TagsKept
<1>9. ASSUME NEW j \in Range(list)
      PROVE  /\ u.array[j + 1] = IF j = p THEN n ELSE a[j + 1]
             /\ u.array[j + 2] = IF j = n THEN p ELSE a[j + 2]
  <2>1. j + 1 \in Index /\ j + 2 \in Index /\ j # 0 /\ j \in Nat BY <1>4
  <2>2. p \in Nat /\ n \in Nat BY <1>5, HeapTypes
  <2>3. n # 0 => j + 1 # n + 2
    <3>1. CASE j = n BY <3>1, <2>1
    <3>2. CASE j # n BY <3>2, <1>2, <1>4
    <3> QED BY <3>1, <3>2
  <2>4. p # 0 => j + 2 # p + 1
    <3>1. CASE j = p BY <3>1, <2>1
    <3>2. CASE j # p BY <3>2, <1>2, <1>4
    <3> QED BY <3>1, <3>2
  <2>5. u.array[j + 1] = IF p # 0 /\ j + 1 = p + 1 THEN n ELSE a[j + 1] BY <2>1, <2>3, <1>6
  <2>6. u.array[j + 2] = IF n # 0 /\ j + 2 = n + 2 THEN p ELSE a[j + 2] BY <2>1, <2>4, <1>6
  <2> QED BY <2>1, <2>2, <2>5, <2>6
<1>10. 0 \notin Range(list) BY <1>4
<1>11. \E less : Listed(u.array, IF p = 0 THEN n ELSE head, less) /\ Range(less) = Range(list) \ {i}
  BY <1>1, <1>9, <1>10, ListedDrop
<1>12. u.avail = IF p = 0 THEN n ELSE head
  <2>1. PICK h : h = IF p = 0 THEN n ELSE head OBVIOUS
  <2>2. PICK b : b = u.array OBVIOUS
  <2>3. u = [array |-> b, avail |-> h] BY <2>1, <2>2, <1>6
  <2> QED BY <2>1, <2>3
<1> QED BY <1>6, <1>7, <1>8, <1>11, <1>12

\* A region of blocks begins at none of the others, and keeps clear of their words.
LEMMA RegionFacts ==
    ASSUME NEW a, NEW T, NEW F, Whole(a, T, F), NEW M, NEW from, NEW upto,
           Region(a, T, F, M, from, upto)
    PROVE  \A j \in (T \cup F) \ M :
              /\ j \in Nat /\ Footer(a, j) \in Nat /\ j \in Index /\ Footer(a, j) \in Index
              /\ \A w \in from .. upto : j # w /\ Footer(a, j) # w
              /\ j \in F => \A w \in from .. upto : j + 1 # w /\ j + 2 # w
<1> SUFFICES ASSUME NEW j \in (T \cup F) \ M
             PROVE  /\ j \in Nat /\ Footer(a, j) \in Nat /\ j \in Index /\ Footer(a, j) \in Index
                    /\ \A w \in from .. upto : j # w /\ Footer(a, j) # w
                    /\ j \in F => \A w \in from .. upto : j + 1 # w /\ j + 2 # w
  OBVIOUS
<1>1. /\ j \in Nat /\ Footer(a, j) \in Nat /\ j < Footer(a, j) /\ j < Len0 /\ Footer(a, j) < Len0
      /\ j \notin Guards => j + 3 <= Footer(a, j)
  BY BlockFacts
<1>2. /\ from \in Nat /\ upto \in Nat /\ from <= upto
      /\ Footer(a, j) < from \/ upto < j
  BY DEF Region
<1>3. j \in F => j \notin Guards BY BlockFacts DEF Whole
<1> QED BY <1>1, <1>2, <1>3, HeapTypes

\* A region that is to be written, of blocks that are not on the list.
Ready(a, head, T, F, list, M, i, upto) ==
    /\ Whole(a, T, F) /\ Listed(a, head, list) /\ Range(list) \subseteq F /\ M \cap Range(list) = {}
    /\ i \in Index /\ i \notin Guards /\ upto < Len0 /\ Region(a, T, F, M, i, upto)

Freed(a, T, F, list, M, i, upto, m) ==
    /\ m = [array |-> m.array, avail |-> i] /\ Whole(m.array, T \ M, (F \ M) \cup {i})
    /\ Footer(m.array, i) = upto
    /\ \A j \in (T \cup F) \ M : Footer(m.array, j) = Footer(a, j) /\ m.array[j] = a[j]
    /\ \E more : Listed(m.array, i, more) /\ Range(more) = Range(list) \cup {i}

\* makeAvail() of a region: one free block in its place, the first of the list.
LEMMA AvailStep ==
    ASSUME NEW a, NEW head, NEW T, NEW F, NEW list, NEW M, NEW i, NEW upto,
           Ready(a, head, T, F, list, M, i, upto), NEW n \in Nat, n >= 4, upto = i + n - 1,
           NEW m, m = MakeAvail([array |-> a, avail |-> head], i, n)
    PROVE  Freed(a, T, F, list, M, i, upto, m)
<1>r. /\ Whole(a, T, F) /\ Listed(a, head, list) /\ Range(list) \subseteq F /\ M \cap Range(list) = {}
      /\ i \in Index /\ i \notin Guards /\ i + n - 1 < Len0 /\ Region(a, T, F, M, i, i + n - 1)
  BY DEF Ready
<1> USE <1>r
<1> DEFINE inside == i .. upto
<1>0. /\ i \in Nat /\ upto \in Nat /\ upto \in Index /\ i \in inside /\ upto \in inside
      /\ i + 1 \in inside /\ i + 2 \in inside /\ i + 1 \in Index /\ i + 2 \in Index
      /\ i + 2 < upto
  BY HeapTypes
<1>1. \A j \in (T \cup F) \ M :
         /\ j \in Nat /\ Footer(a, j) \in Nat /\ j \in Index /\ Footer(a, j) \in Index
         /\ \A w \in inside : j # w /\ Footer(a, j) # w
         /\ j \in F => \A w \in inside : j + 1 # w /\ j + 2 # w
  BY RegionFacts
<1>2. \A j \in F : /\ j + 1 \in Index /\ j + 2 \in Index /\ j \in Index /\ j # 0 /\ j \in Nat
                   /\ \A k \in T \cup F : k \notin {j + 1, j + 2} /\ Footer(a, k) \notin {j + 1, j + 2}
                   /\ \A k \in F : k # j => {j + 1, j + 2} \cap {k + 1, k + 2} = {}
  BY LinkFacts, HeapTypes
<1>3. head \in Index /\ (head # 0 => head \in Range(list) /\ head \in F \ M /\ head + 2 \in Index)
  BY <1>2, ListedTypes
<1>4. a \in Words BY DEF Whole
<1> HIDE DEF inside
<1>5. /\ m = [array |-> m.array, avail |-> i] /\ m.array \in Words
      /\ \A w \in Index : m.array[w] = IF head # 0 /\ w = head + 2 THEN i
                                       ELSE IF w = i + 2 THEN 0
                                       ELSE IF w = i + 1 THEN head
                                       ELSE IF w = i \/ w = upto THEN n ELSE a[w]
  BY <1>0, <1>3, <1>4, MakeAvailFacts
<1>6. head # 0 => \A w \in inside : w # head + 2 BY <1>1, <1>3
<1>7. m.array[i] = n /\ m.array[upto] = n /\ m.array[i + 1] = head /\ m.array[i + 2] = 0
  BY <1>0, <1>5, <1>6
<1>8. Footer(m.array, i) = upto /\ BlockSize(m.array, i) = n BY <1>7 DEF Footer, BlockSize
<1>9. ASSUME NEW j \in (T \cup F) \ M
      PROVE  m.array[j] = a[j] /\ m.array[Footer(a, j)] = a[Footer(a, j)]
  <2>1. /\ j \in Index /\ Footer(a, j) \in Index
        /\ j \notin {i, i + 1, i + 2, upto} /\ Footer(a, j) \notin {i, i + 1, i + 2, upto}
    BY <1>0, <1>1
  <2>2. head # 0 => j # head + 2 /\ Footer(a, j) # head + 2 BY <1>2, <1>3
  <2> QED BY <2>1, <2>2, <1>5
<1>10. Tiles(m.array, {}, {i}, i, upto)
  <2>1. i <= upto /\ n >= 2 /\ n >= 4 /\ n > 0 /\ n \in Nat BY <1>0
  <2> QED BY <2>1, <1>0, <1>7, <1>8 DEF Tiles
<1>11. Region(a, T, F, M, i, upto) OBVIOUS
<1>12. Replaced(a, T, F, M, m.array, i, upto) BY <1>5, <1>9, <1>11 DEF Replaced
<1>13. /\ Whole(m.array, (T \ M) \cup {}, (F \ M) \cup {i})
       /\ \A j \in (T \cup F) \ M : Footer(m.array, j) = Footer(a, j)
  <2>1. PICK b : b = m.array OBVIOUS
  <2>2. upto < Len0 OBVIOUS
  <2>3. Replaced(a, T, F, M, b, i, upto) /\ Tiles(b, {}, {i}, i, upto) BY <2>1, <1>10, <1>12
  <2>4. Whole(b, (T \ M) \cup {}, (F \ M) \cup {i}) BY <2>2, <2>3, Retile
  <2>5. \A j \in (T \cup F) \ M : Footer(b, j) = Footer(a, j)
    BY <2>1, <1>9 DEF Footer, BlockSize
  <2> QED BY <2>1, <2>4, <2>5
<1>14. (T \ M) \cup {} = T \ M OBVIOUS
<1>15. \A j \in Range(list) : j \in F \ M /\ j \in (T \cup F) \ M /\ j # 0 BY <1>2
<1>16. i \notin Range(list) /\ 0 \notin Range(list) BY <1>0, <1>1, <1>15
<1>17. ASSUME NEW j \in Range(list)
       PROVE  /\ m.array[j + 1] = a[j + 1]
              /\ m.array[j + 2] = IF j = head THEN i ELSE a[j + 2]
  <2>1. /\ j + 1 \in Index /\ j + 2 \in Index /\ j \in F /\ j \in Nat
        /\ {j + 1, j + 2} \cap {i, i + 1, i + 2, upto} = {}
    BY <1>0, <1>1, <1>2, <1>15
  <2>2. head # 0 => j + 1 # head + 2
    <3>1. CASE j = head BY <3>1, <2>1
    <3>2. CASE j # head BY <3>2, <2>1, <1>2, <1>3
    <3> QED BY <3>1, <3>2
  <2>3. head # 0 /\ j + 2 = head + 2 <=> j = head
    <3>1. head \in Nat /\ j # 0 BY <1>3, <1>15, HeapTypes
    <3> QED BY <3>1, <2>1
  <2> QED BY <2>1, <2>2, <2>3, <1>5
<1>18. \E more : Listed(m.array, i, more) /\ Range(more) = Range(list) \cup {i}
  BY <1>7, <1>16, <1>17, ListedPush
<1> QED BY <1>5, <1>8, <1>9, <1>13, <1>14, <1>18 DEF Freed

Taken(a, head, T, F, list, M, i, upto, m) ==
    /\ m = [array |-> m.array, avail |-> head] /\ Whole(m.array, (T \ M) \cup {i}, F \ M)
    /\ Footer(m.array, i) = upto
    /\ \A j \in (T \cup F) \ M : Footer(m.array, j) = Footer(a, j) /\ m.array[j] = a[j]
    /\ Listed(m.array, head, list)

\* makeTaken() of a whole region: one taken block in its place.
LEMMA TakenStep ==
    ASSUME NEW a, NEW head, NEW T, NEW F, NEW list, NEW M, NEW i, NEW upto,
           Ready(a, head, T, F, list, M, i, upto), NEW n \in Nat, n >= 4, upto = i + n - 1,
           NEW m, m = MakeTaken([array |-> a, avail |-> head], i, n)
    PROVE  Taken(a, head, T, F, list, M, i, upto, m)
<1>r. /\ Whole(a, T, F) /\ Listed(a, head, list) /\ Range(list) \subseteq F /\ M \cap Range(list) = {}
      /\ i \in Index /\ i \notin Guards /\ i + n - 1 < Len0 /\ Region(a, T, F, M, i, i + n - 1)
  BY DEF Ready
<1> USE <1>r
<1> DEFINE inside == i .. upto
<1>0. i \in Nat /\ upto \in Nat /\ upto \in Index /\ i \in inside /\ upto \in inside /\ n <= Len0
  BY HeapTypes
<1>1. \A j \in (T \cup F) \ M :
         /\ j \in Nat /\ Footer(a, j) \in Nat /\ j \in Index /\ Footer(a, j) \in Index
         /\ \A w \in inside : j # w /\ Footer(a, j) # w
         /\ j \in F => \A w \in inside : j + 1 # w /\ j + 2 # w
  BY RegionFacts
<1>2. \A j \in F : j + 1 \in Index /\ j + 2 \in Index BY LinkFacts
<1>4. a \in Words BY DEF Whole
<1> HIDE DEF inside
<1>5. /\ m = [array |-> m.array, avail |-> head] /\ m.array \in Words
      /\ \A w \in Index : m.array[w] = IF w = i \/ w = upto THEN -n ELSE a[w]
  BY <1>0, <1>4, MakeTakenFacts
<1>11. Region(a, T, F, M, i, upto) OBVIOUS
<1>7. m.array[i] = -n /\ m.array[upto] = -n BY <1>0, <1>5
<1>8. Footer(m.array, i) = upto /\ BlockSize(m.array, i) = n /\ m.array[i] < 0
  <2>1. -n < 0 /\ -(-n) = n OBVIOUS
  <2>2. m.array[i] < 0 BY <1>7, <2>1
  <2>3. BlockSize(m.array, i) = n BY <1>7, <2>1 DEF BlockSize
  <2> QED BY <2>2, <2>3 DEF Footer
<1>9. ASSUME NEW j \in (T \cup F) \ M
      PROVE  m.array[j] = a[j] /\ m.array[Footer(a, j)] = a[Footer(a, j)]
  BY <1>0, <1>1, <1>5
<1>10. Tiles(m.array, {i}, {}, i, upto)
  <2>1. i <= upto /\ n >= 2 /\ n >= 4 /\ n \in Nat BY <1>0
  <2> QED BY <2>1, <1>0, <1>7, <1>8 DEF Tiles
<1>12. Replaced(a, T, F, M, m.array, i, upto) BY <1>5, <1>9, <1>11 DEF Replaced
<1>13. Whole(m.array, (T \ M) \cup {i}, (F \ M) \cup {})
  <2>1. PICK b : b = m.array OBVIOUS
  <2>2. upto < Len0 OBVIOUS
  <2>3. Replaced(a, T, F, M, b, i, upto) /\ Tiles(b, {i}, {}, i, upto) BY <2>1, <1>10, <1>12
  <2>4. Whole(b, (T \ M) \cup {i}, (F \ M) \cup {}) BY <2>2, <2>3, Retile
  <2> QED BY <2>1, <2>4
<1>14. (F \ M) \cup {} = F \ M OBVIOUS
<1>15. \A j \in (T \cup F) \ M : Footer(m.array, j) = Footer(a, j)
  BY <1>9 DEF Footer, BlockSize
<1>16. ASSUME NEW j \in Range(list) PROVE m.array[j + 1] = a[j + 1] /\ m.array[j + 2] = a[j + 2]
  <2>1. j \in F /\ j \in (T \cup F) \ M OBVIOUS
  <2> QED BY <2>1, <1>0, <1>1, <1>2, <1>5
<1>17. Listed(m.array, head, list) BY <1>16, ListedKept
<1> QED BY <1>5, <1>8, <1>9, <1>13, <1>14, <1>15, <1>17 DEF Taken

Cut(a, T, F, list, M, i, c, upto, m) ==
    /\ m = [array |-> m.array, avail |-> c]
    /\ Whole(m.array, (T \ M) \cup {i}, (F \ M) \cup {c})
    /\ Footer(m.array, i) = c - 1 /\ Footer(m.array, c) = upto
    /\ \A j \in (T \cup F) \ M : Footer(m.array, j) = Footer(a, j) /\ m.array[j] = a[j]
    /\ \E more : Listed(m.array, c, more) /\ Range(more) = Range(list) \cup {c}

\* malloc() of a part of a region: a taken block and a free one.
LEMMA CutStep ==
    ASSUME NEW a, NEW head, NEW T, NEW F, NEW list, NEW M, NEW i, NEW upto,
           Ready(a, head, T, F, list, M, i, upto), NEW k \in Nat, NEW n \in Nat, k >= 4, n >= 4,
           NEW c, c = i + k, upto = c + n - 1, c \notin Guards,
           NEW m, m = MakeAvail(MakeTaken([array |-> a, avail |-> head], i, k), c, n)
    PROVE  Cut(a, T, F, list, M, i, c, upto, m)
<1>r. /\ Whole(a, T, F) /\ Listed(a, head, list) /\ Range(list) \subseteq F /\ M \cap Range(list) = {}
      /\ i \in Index /\ i \notin Guards /\ upto < Len0 /\ Region(a, T, F, M, i, upto)
  BY DEF Ready
<1> USE <1>r
<1> DEFINE inside == i .. upto
           written == {i, c - 1, c, c + 1, c + 2, upto}
<1>0. /\ i \in Nat /\ upto \in Nat /\ upto \in Index /\ c \in Nat /\ c \in Index
      /\ written \subseteq inside /\ written \subseteq Index
      /\ i < c - 1 /\ c + 2 < upto /\ c + n - 1 = upto /\ k <= Len0 /\ c - 1 \in Index /\ i + k - 1 = c - 1
  BY HeapTypes
<1>1. \A j \in (T \cup F) \ M :
         /\ j \in Nat /\ Footer(a, j) \in Nat /\ j \in Index /\ Footer(a, j) \in Index
         /\ \A w \in inside : j # w /\ Footer(a, j) # w
         /\ j \in F => \A w \in inside : j + 1 # w /\ j + 2 # w
  BY RegionFacts
<1>2. \A j \in F : /\ j + 1 \in Index /\ j + 2 \in Index /\ j \in Index /\ j # 0 /\ j \in Nat
                   /\ \A e \in T \cup F : e \notin {j + 1, j + 2} /\ Footer(a, e) \notin {j + 1, j + 2}
                   /\ \A e \in F : e # j => {j + 1, j + 2} \cap {e + 1, e + 2} = {}
  BY LinkFacts, HeapTypes
<1>3. head \in Index /\ (head # 0 => head \in Range(list) /\ head \in F \ M /\ head + 2 \in Index)
  BY <1>2, ListedTypes
<1>4. a \in Words BY DEF Whole
<1>5. PICK t : t = MakeTaken([array |-> a, avail |-> head], i, k) OBVIOUS
<1>6. /\ t = [array |-> t.array, avail |-> head] /\ t.array \in Words
      /\ \A w \in Index : t.array[w] = IF w = i \/ w = c - 1 THEN -k ELSE a[w]
  BY <1>0, <1>4, <1>5, MakeTakenFacts
<1>7. m = MakeAvail([array |-> t.array, avail |-> head], c, n) BY <1>5, <1>6
<1>8. Region(a, T, F, M, i, upto) /\ c \notin Guards OBVIOUS
<1> HIDE DEF inside, written
<1>9. /\ m = [array |-> m.array, avail |-> c] /\ m.array \in Words
      /\ \A w \in Index : m.array[w] = IF head # 0 /\ w = head + 2 THEN c
                                       ELSE IF w = c + 2 THEN 0
                                       ELSE IF w = c + 1 THEN head
                                       ELSE IF w = c \/ w = c + n - 1 THEN n ELSE t.array[w]
  <2>1. PICK b : b = t.array OBVIOUS
  <2>2. b \in Words /\ m = MakeAvail([array |-> b, avail |-> head], c, n) BY <2>1, <1>6, <1>7
  <2>3. c + n - 1 \in Index BY <1>0
  <2> QED BY <2>1, <2>2, <2>3, <1>0, <1>3, MakeAvailFacts
<1>10. \A w \in Index : m.array[w] = IF head # 0 /\ w = head + 2 THEN c
                                     ELSE IF w = c + 2 THEN 0
                                     ELSE IF w = c + 1 THEN head
                                     ELSE IF w = c \/ w = upto THEN n
                                     ELSE IF w = i \/ w = c - 1 THEN -k ELSE a[w]
  BY <1>0, <1>6, <1>9
<1>11. head # 0 => \A w \in inside : w # head + 2 BY <1>1, <1>3
<1>12. /\ m.array[i] = -k /\ m.array[c - 1] = -k /\ m.array[c] = n /\ m.array[upto] = n
       /\ m.array[c + 1] = head /\ m.array[c + 2] = 0
  <2>1. i \in inside /\ c - 1 \in inside /\ c \in inside /\ upto \in inside /\ c + 1 \in inside /\ c + 2 \in inside
    BY <1>0 DEF written
  <2>2. i \in Index /\ c - 1 \in Index /\ c \in Index /\ upto \in Index /\ c + 1 \in Index /\ c + 2 \in Index
    BY <1>0 DEF written
  <2> QED BY <2>1, <2>2, <1>0, <1>10, <1>11
<1>13. /\ Footer(m.array, i) = c - 1 /\ BlockSize(m.array, i) = k /\ m.array[i] < 0
       /\ Footer(m.array, c) = upto /\ BlockSize(m.array, c) = n /\ m.array[c] > 0
  <2>1. -k < 0 /\ -(-k) = k OBVIOUS
  <2>2. m.array[i] < 0 BY <1>12, <2>1
  <2>3. BlockSize(m.array, i) = k BY <1>12, <2>1 DEF BlockSize
  <2>4. m.array[c] > 0 /\ BlockSize(m.array, c) = n BY <1>12 DEF BlockSize
  <2> QED BY <2>2, <2>3, <2>4, <1>0 DEF Footer
<1>14. ASSUME NEW j \in (T \cup F) \ M
       PROVE  m.array[j] = a[j] /\ m.array[Footer(a, j)] = a[Footer(a, j)]
  <2>1. /\ j \in Index /\ Footer(a, j) \in Index /\ j \notin written /\ Footer(a, j) \notin written
    BY <1>0, <1>1
  <2>2. head # 0 => j # head + 2 /\ Footer(a, j) # head + 2 BY <1>2, <1>3
  <2> QED BY <2>1, <2>2, <1>10 DEF written
<1>15. Tiles(m.array, {i}, {c}, i, upto)
  <2>1. /\ i <= c /\ c <= upto /\ c - 1 <= upto /\ i < c /\ ~(c < i) /\ c - 1 < c /\ k >= 2 /\ n >= 2
        /\ i <= i /\ upto <= upto
    BY <1>0
  <2>2. \A j \in {i} \cup {c} : /\ j \in Index /\ i <= j /\ Footer(m.array, j) <= upto
                                /\ BlockSize(m.array, j) >= 2 /\ (j \notin Guards => BlockSize(m.array, j) >= 4)
                                /\ m.array[Footer(m.array, j)] = m.array[j]
    BY <2>1, <1>0, <1>12, <1>13
  <2>3. \A j, l \in {i} \cup {c} : j < l => Footer(m.array, j) < l BY <2>1, <1>0, <1>13
  <2>4. \A w \in i .. upto : \E j \in {i} \cup {c} : j <= w /\ w <= Footer(m.array, j)
    BY <1>0, <1>13
  <2> QED BY <2>2, <2>3, <2>4, <1>13 DEF Tiles
<1>16. Replaced(a, T, F, M, m.array, i, upto) BY <1>8, <1>9, <1>14 DEF Replaced
<1>17. Whole(m.array, (T \ M) \cup {i}, (F \ M) \cup {c})
  <2>1. PICK b : b = m.array OBVIOUS
  <2>2. upto < Len0 OBVIOUS
  <2>3. Replaced(a, T, F, M, b, i, upto) /\ Tiles(b, {i}, {c}, i, upto) BY <2>1, <1>15, <1>16
  <2>4. Whole(b, (T \ M) \cup {i}, (F \ M) \cup {c}) BY <2>2, <2>3, Retile
  <2> QED BY <2>1, <2>4
<1>18. \A j \in (T \cup F) \ M : Footer(m.array, j) = Footer(a, j)
  BY <1>14 DEF Footer, BlockSize
<1>19. \A j \in Range(list) : j \in F \ M /\ j \in (T \cup F) \ M /\ j # 0 BY <1>2
<1>20. c \notin Range(list) /\ 0 \notin Range(list)
  <2>1. c \in inside BY <1>0 DEF written
  <2> QED BY <2>1, <1>1, <1>19
<1>21. ASSUME NEW j \in Range(list)
       PROVE  /\ m.array[j + 1] = a[j + 1]
              /\ m.array[j + 2] = IF j = head THEN c ELSE a[j + 2]
  <2>1. /\ j + 1 \in Index /\ j + 2 \in Index /\ j \in F /\ j \in Nat
        /\ {j + 1, j + 2} \cap written = {}
    BY <1>0, <1>1, <1>2, <1>19
  <2>2. head # 0 => j + 1 # head + 2
    <3>1. CASE j = head BY <3>1, <2>1
    <3>2. CASE j # head BY <3>2, <2>1, <1>2, <1>3
    <3> QED BY <3>1, <3>2
  <2>3. head # 0 /\ j + 2 = head + 2 <=> j = head
    <3>1. head \in Nat /\ j # 0 BY <1>3, <1>19, HeapTypes
    <3> QED BY <3>1, <2>1
  <2> QED BY <2>1, <2>2, <2>3, <1>10 DEF written
<1>22. \E more : Listed(m.array, c, more) /\ Range(more) = Range(list) \cup {c}
  BY <1>0, <1>12, <1>20, <1>21, ListedPush
<1> QED BY <1>0, <1>9, <1>13, <1>14, <1>17, <1>18, <1>22 DEF Cut

\* The search meets the blocks of the list, and stops at one that is large enough.
LEMMA WalkIsList ==
    ASSUME NEW a, NEW head, NEW T, NEW list, Shape(a, head, T, list)
    PROVE  Links!Walk([i \in 1 .. Len0 - 2 |-> NextOf(a, i)], head) = list
<1> DEFINE N == 1 .. Len0 - 2
           link == [i \in N |-> NextOf(a, i)]
<1>1. /\ Len(list) \in Nat /\ DOMAIN list = 1 .. Len(list) /\ list \in Seq(Index) /\ IsInjective(list)
      /\ \A k \in 1 .. Len(list) : list[k] \in N
  <2>1. \A i \in Range(list) : i \in N BY LinkFacts DEF Shape
  <2> QED BY <2>1, ListedTypes DEF Shape, Listed
<1>2. list \in Seq(N)
  <2>1. list \in [1 .. Len(list) -> N] BY <1>1
  <2>2. Seq(N) = UNION {[1 .. n -> N] : n \in Nat} BY SeqDef
  <2> QED BY <2>1, <2>2, <1>1
<1>3. IsFiniteSet(N) /\ 0 \notin N BY FS_Interval, HeapTypes
<1>4. Chain(link, 0, head, list)
  <2>1. \A k \in DOMAIN list : link[list[k]] = NextOf(a, list[k]) BY <1>1
  <2> HIDE DEF link, N
  <2> QED BY <2>1 DEF Shape, Listed, Chain
<1> HIDE DEF link, N
<1>5. Met(N, 0, link, head) = list BY <1>1, <1>2, <1>3, <1>4, WalkFacts
<1>6. Links!Walk(link, head) = Met(N, 0, link, head)
  BY DEF Links!Walk, Met, Links!Cardinality, Cardinality, N
<1> QED BY <1>5, <1>6 DEF link, N

\* Where a search of a list stops.
Stop(a, list, ints) ==
    LET stops == {k \in DOMAIN list : \/ ~Sane(a, list[k]) \/ ~IsAvail(a, list[k])
                                      \/ BlockSize(a, list[k]) >= ints}
    IN  IF stops = {} THEN 0 ELSE list[Min(stops)]

\* It stops at the end only when no block of the list is large enough, and never at a broken one.
LEMMA FoundFacts ==
    ASSUME NEW a, NEW head, NEW T, NEW list, Shape(a, head, T, list), NEW ints, NEW p,
           p = Stop(a, list, ints)
    PROVE  /\ p = 0 => \A i \in Range(list) : ~(BlockSize(a, i) >= ints)
           /\ p # 0 => p \in Range(list) /\ BlockSize(a, p) >= ints /\ Sane(a, p) /\ IsAvail(a, p)
<1> DEFINE stops == {k \in DOMAIN list : \/ ~Sane(a, list[k]) \/ ~IsAvail(a, list[k])
                                         \/ BlockSize(a, list[k]) >= ints}
<1>1. /\ Len(list) \in Nat /\ DOMAIN list = 1 .. Len(list)
      /\ \A k \in 1 .. Len(list) : list[k] \in Range(list)
      /\ \A x \in Range(list) : \E k \in 1 .. Len(list) : x = list[k]
  BY ListedTypes DEF Shape
<1>2. \A i \in Range(list) : Sane(a, i) /\ IsAvail(a, i) /\ i # 0
  <2>1. ASSUME NEW i \in Range(list) PROVE Sane(a, i) /\ IsAvail(a, i) /\ i # 0
    <3>1. i \in Index /\ Footer(a, i) \in Index /\ i # 0
      BY BlockFacts, LinkFacts, HeapTypes DEF Shape
    <3>2. a[Footer(a, i)] = a[i] /\ a[i] > 0 BY DEF Shape, Whole, Tiles
    <3> QED BY <3>1, <3>2 DEF Sane, IsAvail
  <2> QED BY <2>1
<1>3. p = IF stops = {} THEN 0 ELSE list[Min(stops)] BY DEF Stop
<1>4. stops = {k \in DOMAIN list : BlockSize(a, list[k]) >= ints} BY <1>1, <1>2
<1> HIDE DEF stops
<1>5. CASE stops = {}
  <2>1. p = 0 BY <1>3, <1>5
  <2>2. \A i \in Range(list) : ~(BlockSize(a, i) >= ints) BY <1>1, <1>4, <1>5
  <2> QED BY <2>1, <2>2
<1>6. CASE stops # {}
  <2>1. stops \in SUBSET Nat BY <1>1, <1>4
  <2>2. PICK k \in stops : \A j \in stops : k <= j BY <2>1, <1>6, LeastMember
  <2>3. Min(stops) \in stops BY <2>2 DEF Min
  <2>4. p = list[Min(stops)] BY <1>3, <1>6
  <2>5. p \in Range(list) /\ BlockSize(a, p) >= ints BY <2>3, <2>4, <1>1, <1>4
  <2> QED BY <2>5, <1>2
<1> QED BY <1>5, <1>6

\* One block is a region.
LEMMA BlockRegion ==
    ASSUME NEW a, NEW T, NEW F, Whole(a, T, F), NEW i \in T \cup F, i \notin Guards
    PROVE  Region(a, T, F, {i}, i, Footer(a, i))
<1>1. i \in Nat /\ Footer(a, i) \in Nat /\ i < Footer(a, i) BY BlockFacts
<1>2. \A j \in (T \cup F) \ {i} : Footer(a, j) < i \/ Footer(a, i) < j
  <2>1. \A j \in T \cup F : (j < i => Footer(a, j) < i) /\ (i < j => Footer(a, i) < j)
    BY BlockFacts
  <2>2. \A j \in T \cup F : j \in Nat BY BlockFacts
  <2> QED BY <2>1, <2>2, <1>1
<1> QED BY <1>1, <1>2 DEF Region

\* malloc() of a block of the list.
LEMMA MallocStep ==
    ASSUME NEW a, NEW head, NEW T, NEW list, Shape(a, head, T, list),
           NEW ints \in Nat, ints >= 4, NEW p \in Range(list), BlockSize(a, p) >= ints,
           NEW extra, extra = BlockSize(a, p) - ints,
           NEW u, u = Unlink([array |-> a, avail |-> head], p),
           NEW m, m = IF extra >= 4 THEN MakeAvail(MakeTaken(u, p, ints), p + ints, extra)
                      ELSE MakeTaken(u, p, ints + extra)
    PROVE  /\ p \notin T /\ \A j \in T : Footer(m.array, j) = Footer(a, j)
           /\ ints <= BlockSize(m.array, p) /\ BlockSize(m.array, p) <= ints + 3
           /\ Footer(m.array, p) <= Footer(a, p)
           /\ \E more : Shape(m.array, m.avail, T \cup {p}, more)
<1> DEFINE F == Range(list)
           size == BlockSize(a, p)
<1>1. Whole(a, T, F) /\ Listed(a, head, list) /\ Apart(a, F) BY DEF Shape
<1>2. /\ p \in Nat /\ p \in Index /\ p \notin Guards /\ p \notin T /\ size \in Nat
      /\ Footer(a, p) = p + size - 1 /\ Footer(a, p) < Len0 - 2 /\ 2 <= p /\ p < Footer(a, p)
  <2>1. p \notin Guards BY <1>1, BlockFacts DEF Whole
  <2> QED BY <2>1, <1>1, BlockFacts, HeapTypes
<1>3. Region(a, T, F, {p}, p, Footer(a, p)) BY <1>1, <1>2, BlockRegion
<1>4. /\ u = [array |-> u.array, avail |-> u.avail] /\ Whole(u.array, T, F)
      /\ \A j \in T \cup F : u.array[j] = a[j] /\ Footer(u.array, j) = Footer(a, j)
      /\ \E less : Listed(u.array, u.avail, less) /\ Range(less) = F \ {p}
  BY <1>1, UnlinkStep
<1>5. PICK b, v, less : /\ u = [array |-> b, avail |-> v] /\ b = u.array
                        /\ Listed(b, v, less) /\ Range(less) = F \ {p}
  BY <1>4
<1>6. Whole(b, T, F) /\ \A j \in T \cup F : Footer(b, j) = Footer(a, j) BY <1>4, <1>5
<1>7. Region(b, T, F, {p}, p, Footer(a, p)) BY <1>3, <1>6 DEF Region
<1>8. Range(less) \subseteq F /\ {p} \cap Range(less) = {} BY <1>5
<1>9. (T \ {p}) \cup {p} = T \cup {p} /\ T \subseteq (T \cup F) \ {p} BY <1>2
<1> HIDE DEF F, size
<1>10. extra = size - ints /\ size >= ints /\ extra \in Nat /\ p \in F /\ p + ints + extra - 1 = Footer(a, p)
  BY <1>2 DEF size, F
<1>11. \A j \in F \ {p} : /\ Footer(a, j) \in Nat /\ j \in Nat
                          /\ Footer(a, j) < p \/ Footer(a, p) < Footer(a, j)
  <2>1. \A j \in F \ {p} : j \in Nat /\ Footer(a, j) \in Nat /\ j < Footer(a, j)
    BY <1>1, BlockFacts
  <2>2. \A j \in F \ {p} : Footer(a, j) < p \/ Footer(a, p) < j BY <1>3 DEF Region
  <2> QED BY <2>1, <2>2, <1>2
<1>12. CASE extra >= 4
  <2>0. PICK c : c = p + ints OBVIOUS
  <2>1. /\ c \notin Guards /\ c \in Nat /\ Footer(a, p) = c + extra - 1
        /\ p + 3 < c /\ c <= Footer(a, p) /\ c - 1 = p + ints - 1
    BY <2>0, <1>2, <1>10, <1>12, HeapTypes
  <2>2. m = MakeAvail(MakeTaken([array |-> b, avail |-> v], p, ints), c, extra)
    BY <2>0, <1>5, <1>12
  <2>4. /\ m = [array |-> m.array, avail |-> c]
        /\ Whole(m.array, (T \ {p}) \cup {p}, (F \ {p}) \cup {c})
        /\ Footer(m.array, p) = p + ints - 1 /\ Footer(m.array, c) = Footer(a, p)
        /\ \A j \in (T \cup F) \ {p} : Footer(m.array, j) = Footer(b, j) /\ m.array[j] = b[j]
        /\ \E more : Listed(m.array, c, more) /\ Range(more) = Range(less) \cup {c}
    <3>1. PICK M, w : M = {p} /\ w = Footer(a, p) OBVIOUS
    <3>2. Ready(b, v, T, F, less, M, p, w)
      BY <3>1, <1>2, <1>5, <1>6, <1>7, <1>8, HeapTypes DEF Ready
    <3>3. w = c + extra - 1 BY <3>1, <2>1
    <3>4. extra \in Nat /\ c \notin Guards BY <1>10, <2>1
    <3>5. Cut(b, T, F, less, M, p, c, w, m)
      BY <3>2, <3>3, <3>4, <2>0, <2>2, <1>12, CutStep, Zenon
    <3> QED BY <3>1, <3>5, <2>1 DEF Cut
  <2>5. PICK more : Listed(m.array, c, more) /\ Range(more) = (F \ {p}) \cup {c} BY <2>4, <1>5
  <2>6. m.avail = c
    <3>1. PICK x : x = m.array OBVIOUS
    <3>2. m = [array |-> x, avail |-> c] BY <3>1, <2>4
    <3> QED BY <3>2
  <2>7. Apart(m.array, (F \ {p}) \cup {c})
    <3>1. \A j \in F \ {p} : Footer(m.array, j) = Footer(a, j) BY <2>4, <1>6
    <3>2. Footer(m.array, c) = Footer(a, p) BY <2>4
    <3>3. \A i, j \in F : j # Footer(a, i) + 1 BY <1>1 DEF Apart
    <3>4. \A j \in F \ {p} : c # Footer(a, j) + 1 BY <1>2, <1>11, <2>1
    <3>5. c # Footer(a, p) + 1 BY <1>2, <2>1
    <3> QED BY <3>1, <3>2, <3>3, <3>4, <3>5, <1>10 DEF Apart
  <2>8. Shape(m.array, m.avail, T \cup {p}, more) BY <2>4, <2>5, <2>6, <2>7, <1>9 DEF Shape
  <2>9. BlockSize(m.array, p) = ints /\ Footer(m.array, p) <= Footer(a, p)
    <3>1. p \in T \cup {p} OBVIOUS
    <3>2. /\ Footer(m.array, p) = p + BlockSize(m.array, p) - 1 /\ BlockSize(m.array, p) \in Nat
      BY <3>1, <2>4, <1>9, BlockFacts
    <3> QED BY <3>2, <2>4, <1>2, <1>10, <1>12
  <2> QED BY <2>4, <2>8, <2>9, <1>2, <1>6, <1>9
<1>13. CASE ~(extra >= 4)
  <2>0. PICK n : n = ints + extra OBVIOUS
  <2>1. m = MakeTaken([array |-> b, avail |-> v], p, n) BY <2>0, <1>5, <1>13
  <2>2. n \in Nat /\ n >= 4 /\ Footer(a, p) = p + n - 1 /\ n <= ints + 3 /\ n >= ints
    BY <2>0, <1>2, <1>10, <1>13
  <2>3. /\ m = [array |-> m.array, avail |-> v]
        /\ Whole(m.array, (T \ {p}) \cup {p}, F \ {p})
        /\ Footer(m.array, p) = p + n - 1
        /\ \A j \in (T \cup F) \ {p} : Footer(m.array, j) = Footer(b, j) /\ m.array[j] = b[j]
        /\ Listed(m.array, v, less)
    <3>1. PICK M, w : M = {p} /\ w = Footer(a, p) OBVIOUS
    <3>2. Ready(b, v, T, F, less, M, p, w)
      BY <3>1, <1>2, <1>5, <1>6, <1>7, <1>8, HeapTypes DEF Ready
    <3>3. w = p + n - 1 BY <3>1, <2>2
    <3>4. n \in Nat BY <2>2
    <3>5. n >= 4 BY <2>2
    <3>6. Taken(b, v, T, F, less, M, p, w, m) BY <3>2, <3>3, <3>4, <3>5, <2>1, TakenStep, Zenon
    <3> QED BY <3>1, <3>3, <3>6 DEF Taken
  <2>4. m.avail = v
    <3>1. PICK x : x = m.array OBVIOUS
    <3>2. m = [array |-> x, avail |-> v] BY <3>1, <2>3
    <3> QED BY <3>2
  <2>5. Apart(m.array, F \ {p})
    <3>1. \A j \in F \ {p} : Footer(m.array, j) = Footer(a, j) BY <2>3, <1>6
    <3> QED BY <3>1, <1>1 DEF Apart
  <2>6. Shape(m.array, m.avail, T \cup {p}, less) BY <2>3, <2>4, <2>5, <1>5, <1>9 DEF Shape
  <2>7. /\ ints <= BlockSize(m.array, p) /\ BlockSize(m.array, p) <= ints + 3
        /\ Footer(m.array, p) <= Footer(a, p)
    <3>1. p \in T \cup {p} OBVIOUS
    <3>2. /\ Footer(m.array, p) = p + BlockSize(m.array, p) - 1 /\ BlockSize(m.array, p) \in Nat
      BY <3>1, <2>3, <1>9, BlockFacts
    <3> QED BY <3>2, <2>2, <2>3, <1>2, <1>10
  <2> QED BY <2>3, <2>6, <2>7, <1>2, <1>6, <1>9
<1> QED BY <1>12, <1>13

\* What free() joins with a block are the blocks on its two sides that are free.
Merging(F, idx, l, r) == {idx} \cup ({l, r} \cap F)

\* No block is broken, and its tag says whether it is free.
LEMMA SaneFacts ==
    ASSUME NEW a, NEW T, NEW F, Whole(a, T, F), NEW i \in T \cup F
    PROVE  Sane(a, i) /\ (IsAvail(a, i) <=> i \in F) /\ (IsTaken(a, i) <=> i \in T)
<1>1. i \in Index /\ Footer(a, i) \in Index /\ a[i] \in Int BY BlockFacts, HeapTypes
<1>2. a[Footer(a, i)] = a[i] /\ (i \in T => a[i] < 0) /\ (i \in F => a[i] > 0)
  BY DEF Whole, Tiles
<1> QED BY <1>1, <1>2 DEF Sane, IsAvail, IsTaken

\* free() of a taken block that is no guard.
LEMMA FreeStep ==
    ASSUME NEW a, NEW head, NEW T, NEW list, Shape(a, head, T, list), NEW idx \in T, idx \notin Guards,
           NEW m, m = Merged([array |-> a, avail |-> head], idx)
    PROVE  /\ Sane(a, idx) /\ IsTaken(a, idx) /\ Sane(a, LeftOf(a, idx)) /\ Sane(a, RightOf(a, idx))
           /\ \A j \in T \ {idx} : Footer(m.array, j) = Footer(a, j)
           /\ \E more : Shape(m.array, m.avail, T \ {idx}, more)
<1>1. PICK F, l, r : F = Range(list) /\ l = LeftOf(a, idx) /\ r = RightOf(a, idx) OBVIOUS
<1>2. Whole(a, T, F) /\ Listed(a, head, list) /\ Apart(a, F) /\ idx \in T \cup F
  BY <1>1 DEF Shape
<1>3. /\ r \in T \cup F /\ r = Footer(a, idx) + 1 /\ l \in T \cup F /\ Footer(a, l) = idx - 1 /\ l < idx
  BY <1>1, <1>2, NeighbourFacts
<1>4. \A i \in {l, idx, r} : Sane(a, i) /\ (IsAvail(a, i) <=> i \in F) /\ (IsTaken(a, i) <=> i \in T)
  BY <1>2, <1>3, SaneFacts
<1>5. /\ idx \in Nat /\ Footer(a, idx) \in Nat /\ idx < Footer(a, idx) /\ idx + 3 <= Footer(a, idx)
      /\ Footer(a, idx) < Len0 - 2 /\ l \in Nat /\ r \in Nat /\ Footer(a, r) \in Nat /\ r < Footer(a, r)
      /\ idx \in Index /\ l \in Index /\ idx \notin F /\ Len0 \in Nat
  <2>1. /\ idx \in Nat /\ Footer(a, idx) \in Nat /\ idx < Footer(a, idx) /\ idx + 3 <= Footer(a, idx)
        /\ Footer(a, idx) < Len0 - 2 /\ idx < Len0
    BY <1>2, BlockFacts
  <2>2. l \in Nat /\ l < Len0 BY <1>2, <1>3, BlockFacts
  <2>3. r \in Nat /\ Footer(a, r) \in Nat /\ r < Footer(a, r) BY <1>2, <1>3, BlockFacts
  <2>4. idx \notin F BY <1>2, BlockFacts
  <2> QED BY <2>1, <2>2, <2>3, <2>4, HeapTypes
<1>6. \A j \in F : j \notin Guards /\ j \notin T /\ Footer(a, j) < Len0 - 2
  BY <1>2, BlockFacts DEF Whole
<1>7. \A i, j \in T \cup F : i \in Nat /\ Footer(a, i) \in Nat /\ i < Footer(a, i) /\ (i < j => Footer(a, i) < j)
  BY <1>2, BlockFacts
<1>8. PICK h1 : h1 = IF l \in F THEN Unlink([array |-> a, avail |-> head], l) ELSE [array |-> a, avail |-> head]
  OBVIOUS
<1>9. \E b1, v1, list1 : /\ h1 = [array |-> b1, avail |-> v1] /\ Whole(b1, T, F)
                         /\ \A j \in T \cup F : b1[j] = a[j] /\ Footer(b1, j) = Footer(a, j)
                         /\ Listed(b1, v1, list1) /\ Range(list1) = F \ {l}
  <2>1. CASE l \in F
    <3>1. h1 = Unlink([array |-> a, avail |-> head], l) BY <2>1, <1>8
    <3>2. /\ h1 = [array |-> h1.array, avail |-> h1.avail] /\ Whole(h1.array, T, F)
          /\ \A j \in T \cup F : h1.array[j] = a[j] /\ Footer(h1.array, j) = Footer(a, j)
          /\ \E less : Listed(h1.array, h1.avail, less) /\ Range(less) = F \ {l}
      BY <3>1, <2>1, <1>1, <1>2, UnlinkStep
    <3> QED BY <3>2
  <2>2. CASE l \notin F
    <3>1. h1 = [array |-> a, avail |-> head] /\ F = F \ {l} BY <2>2, <1>8
    <3> QED BY <3>1, <1>1, <1>2
  <2> QED BY <2>1, <2>2
<1>10. PICK b1, v1, list1 : /\ h1 = [array |-> b1, avail |-> v1] /\ Whole(b1, T, F)
                            /\ \A j \in T \cup F : b1[j] = a[j] /\ Footer(b1, j) = Footer(a, j)
                            /\ Listed(b1, v1, list1) /\ Range(list1) = F \ {l}
  BY <1>9
<1>11. PICK h2 : h2 = IF r \in F THEN Unlink([array |-> b1, avail |-> v1], r) ELSE [array |-> b1, avail |-> v1]
  OBVIOUS
<1>12. \E b, v, less : /\ h2 = [array |-> b, avail |-> v] /\ Whole(b, T, F)
                       /\ \A j \in T \cup F : b[j] = a[j] /\ Footer(b, j) = Footer(a, j)
                       /\ Listed(b, v, less) /\ Range(less) = F \ {l, r}
  <2>0. r # l BY <1>3, <1>5
  <2>1. CASE r \in F
    <3>1. h2 = Unlink([array |-> b1, avail |-> v1], r) BY <2>1, <1>11
    <3>2. r \in Range(list1) /\ Range(list1) \subseteq F /\ (F \ {l}) \ {r} = F \ {l, r}
      BY <2>0, <2>1, <1>10
    <3>3. /\ h2 = [array |-> h2.array, avail |-> h2.avail] /\ Whole(h2.array, T, F)
          /\ \A j \in T \cup F : h2.array[j] = b1[j] /\ Footer(h2.array, j) = Footer(b1, j)
          /\ \E less : Listed(h2.array, h2.avail, less) /\ Range(less) = Range(list1) \ {r}
      BY <3>1, <3>2, <1>10, UnlinkStep
    <3> QED BY <3>2, <3>3, <1>10
  <2>2. CASE r \notin F
    <3>1. h2 = [array |-> b1, avail |-> v1] /\ F \ {l} = F \ {l, r} BY <2>2, <1>11
    <3> QED BY <3>1, <1>10
  <2> QED BY <2>1, <2>2
<1>13. PICK b, v, less : /\ h2 = [array |-> b, avail |-> v] /\ Whole(b, T, F)
                         /\ \A j \in T \cup F : b[j] = a[j] /\ Footer(b, j) = Footer(a, j)
                         /\ Listed(b, v, less) /\ Range(less) = F \ {l, r}
  BY <1>12
<1>14. PICK from, upto, M : /\ from = IF l \in F THEN l ELSE idx
                            /\ upto = IF r \in F THEN Footer(a, r) ELSE Footer(a, idx)
                            /\ M = Merging(F, idx, l, r)
  OBVIOUS
<1>15. /\ from \in Nat /\ upto \in Nat /\ from <= idx /\ Footer(a, idx) <= upto /\ upto < Len0
       /\ from \in Index /\ from \notin Guards
  BY <1>3, <1>5, <1>6, <1>14
<1>16. M \subseteq T \cup F /\ M \cap Guards = {} /\ M \cap Range(less) = {} /\ Range(less) \subseteq F
       /\ T \ M = T \ {idx} /\ Range(less) \cup {from} = (F \ M) \cup {from}
  BY <1>2, <1>3, <1>5, <1>6, <1>13, <1>14 DEF Merging
<1>17. \A j \in (T \cup F) \ M : Footer(a, j) < from \/ upto < j
  <2>1. SUFFICES ASSUME NEW j \in (T \cup F) \ M PROVE Footer(a, j) < from \/ upto < j OBVIOUS
  <2>2. /\ j # idx /\ (l \in F => j # l) /\ (r \in F => j # r) /\ j \in T \cup F
    BY <1>14 DEF Merging
  <2>3. j \in Nat /\ Footer(a, j) \in Nat /\ j < Footer(a, j) BY <1>7
  <2>4. /\ (j < idx => Footer(a, j) < idx) /\ (idx < j => Footer(a, idx) < j)
        /\ (j < l => Footer(a, j) < l) /\ (l < j => Footer(a, l) < j)
        /\ (j < r => Footer(a, j) < r) /\ (r < j => Footer(a, r) < j)
    BY <2>2, <1>2, <1>3, <1>7
  <2>5. CASE j < idx
    <3>1. CASE l \in F BY <3>1, <2>2, <2>3, <2>4, <2>5, <1>3, <1>5, <1>14
    <3>2. CASE l \notin F BY <3>2, <2>4, <2>5, <1>14
    <3> QED BY <3>1, <3>2
  <2>6. CASE idx < j
    <3>1. CASE r \in F BY <3>1, <2>2, <2>3, <2>4, <2>6, <1>3, <1>5, <1>14
    <3>2. CASE r \notin F BY <3>2, <2>4, <2>6, <1>14
    <3> QED BY <3>1, <3>2
  <2> QED BY <2>2, <2>3, <2>5, <2>6, <1>5
<1>18. \A j \in M : from <= j /\ Footer(a, j) <= upto
  BY <1>3, <1>5, <1>7, <1>14 DEF Merging
<1>19. Region(b, T, F, M, from, upto)
  <2>1. from <= upto BY <1>5, <1>15
  <2>2. \A j \in T \cup F : Footer(b, j) = Footer(a, j) BY <1>13
  <2> QED BY <2>1, <2>2, <1>15, <1>16, <1>17, <1>18 DEF Region
<1>20. PICK n : n = upto - from + 1 OBVIOUS
<1>21. n \in Nat /\ n >= 4 /\ upto = from + n - 1 BY <1>5, <1>15, <1>20
<1>22. m = MakeAvail([array |-> b, avail |-> v], from, n)
  <2>1. PICK h : h = [array |-> a, avail |-> head] OBVIOUS
  <2>2. h.array = a BY <2>1
  <2>3. m = Merged(h, idx) BY <2>1
  <2>4. m = MakeAvail(h2, from, upto - from + 1)
    <3>1. /\ (IsAvail(a, l) <=> l \in F) /\ (IsAvail(a, r) <=> r \in F) BY <1>4
    <3>2. h2 = IF r \in F THEN Unlink(h1, r) ELSE h1 BY <1>10, <1>11
    <3>3. h1 = IF l \in F THEN Unlink(h, l) ELSE h BY <2>1, <1>8
    <3> QED BY <3>1, <3>2, <3>3, <2>2, <2>3, <1>1, <1>14 DEF Merged
  <2> QED BY <2>4, <1>13, <1>20
<1>23. Ready(b, v, T, F, less, M, from, upto) BY <1>13, <1>15, <1>16, <1>19 DEF Ready
<1>24. Freed(b, T, F, less, M, from, upto, m)
  <2>1. n \in Nat BY <1>21
  <2>2. n >= 4 BY <1>21
  <2>3. upto = from + n - 1 BY <1>21
  <2> QED BY <2>1, <2>2, <2>3, <1>22, <1>23, AvailStep, Zenon
<1>25. PICK more : Listed(m.array, from, more) /\ Range(more) = (F \ M) \cup {from}
  BY <1>16, <1>24 DEF Freed
<1>26. m.avail = from
  <2>1. PICK x : x = m.array OBVIOUS
  <2>2. m = [array |-> x, avail |-> from] BY <2>1, <1>24 DEF Freed
  <2> QED BY <2>2
<1>27. /\ \A j \in (T \cup F) \ M : Footer(m.array, j) = Footer(a, j)
       /\ Footer(m.array, from) = upto /\ Whole(m.array, T \ {idx}, (F \ M) \cup {from})
  <2>1. \A j \in (T \cup F) \ M : Footer(m.array, j) = Footer(b, j) BY <1>24 DEF Freed
  <2> QED BY <2>1, <1>13, <1>16, <1>24 DEF Freed
<1>28. Apart(m.array, (F \ M) \cup {from})
  <2>1. \A i, j \in F : j # Footer(a, i) + 1 BY <1>2 DEF Apart
  <2>2. ASSUME NEW j \in F \ M PROVE j # upto + 1 /\ from # Footer(a, j) + 1
    <3>1. j # idx /\ (l \in F => j # l) /\ (r \in F => j # r) /\ j \in T \cup F /\ j \in F
      BY <1>14 DEF Merging
    <3>2. j # upto + 1
      <4>1. CASE r \in F BY <4>1, <3>1, <2>1, <1>14
      <4>2. CASE r \notin F BY <4>2, <3>1, <1>3, <1>14
      <4> QED BY <4>1, <4>2
    <3>3. from # Footer(a, j) + 1
      <4>1. CASE l \in F BY <4>1, <3>1, <2>1, <1>14
      <4>2. CASE l \notin F
        <5>1. SUFFICES ASSUME idx = Footer(a, j) + 1 PROVE FALSE BY <4>2, <1>14
        <5>2. j \in Nat /\ Footer(a, j) \in Nat /\ j < Footer(a, j) /\ Footer(a, j) = Footer(a, l)
          BY <5>1, <3>1, <1>3, <1>5, <1>7
        <5>3. (j < l => Footer(a, j) < l) /\ (l < j => Footer(a, l) < j) /\ l < Footer(a, l) /\ Footer(a, l) \in Nat
          BY <3>1, <1>3, <1>7
        <5>4. j # l BY <4>2, <3>1
        <5> QED BY <5>2, <5>3, <5>4, <1>5
      <4> QED BY <4>1, <4>2
    <3> QED BY <3>2, <3>3
  <2>3. from # upto + 1 BY <1>5, <1>15
  <2>4. \A j \in F \ M : Footer(m.array, j) = Footer(a, j) BY <1>27
  <2>5. Footer(m.array, from) = upto BY <1>27
  <2> QED BY <2>1, <2>2, <2>3, <2>4, <2>5 DEF Apart
<1>29. Shape(m.array, m.avail, T \ {idx}, more) BY <1>25, <1>26, <1>27, <1>28 DEF Shape
<1>30. \A j \in T \ {idx} : Footer(m.array, j) = Footer(a, j) BY <1>16, <1>27
<1>31. Sane(a, idx) /\ IsTaken(a, idx) /\ Sane(a, LeftOf(a, idx)) /\ Sane(a, RightOf(a, idx))
  BY <1>1, <1>4
<1> QED BY <1>29, <1>30, <1>31

-----------------------------------------------------------------------------
(***************************************************************************)
(* The heap's steps.                                                       *)
(***************************************************************************)

\* A block has room for its tags and links, whatever the sum of bytes and 3 wraps to.
LEMMA IntsFacts == \A bytes \in Requests : Ints(bytes) \in Nat /\ Ints(bytes) >= 4
<1> SUFFICES ASSUME NEW bytes \in Requests PROVE Ints(bytes) \in Nat /\ Ints(bytes) >= 4 OBVIOUS
<1>1. PICK rest : rest = (bytes + 3) % WordMod OBVIOUS
<1>2. bytes + 3 \in Nat /\ WordMod \in Nat \ {0} BY HeapAssumption
<1>3. rest \in Nat BY <1>1, <1>2
<1>4. rest \div 4 \in Nat BY <1>3
<1> QED BY <1>1, <1>4 DEF Ints

\* The heap that HeapInit builds: one free block between the guards.
LEMMA HeapInitInv == HeapInit => HeapInv
<1> SUFFICES ASSUME HeapInit PROVE HeapInv OBVIOUS
<1> DEFINE z == [i \in Index |-> 0]
<1>0. Len0 \in Nat /\ Len0 >= 8 /\ Index = 0 .. Len0 - 1 BY HeapTypes
<1>1. PICK h1, h2, h3 : /\ h1 = MakeTaken([array |-> z, avail |-> 0], 0, 2)
                        /\ h2 = MakeAvail(h1, 2, Len0 - 4)
                        /\ h3 = MakeTaken(h2, Len0 - 2, 2)
  OBVIOUS
<1>2. array = h3.array /\ avail = h3.avail /\ held = {} /\ panicked = FALSE BY <1>1 DEF HeapInit
<1>3. z \in Words /\ \A w \in Index : z[w] = 0 BY <1>0 DEF Words
<1> HIDE DEF z
<1>4. /\ h1 = [array |-> h1.array, avail |-> 0] /\ h1.array \in Words
      /\ \A w \in Index : h1.array[w] = IF w = 0 \/ w = 0 + 2 - 1 THEN -2 ELSE z[w]
  <2>1. 0 \in Index /\ 2 \in Nat /\ 0 + 2 - 1 \in Index /\ 2 <= Len0 BY <1>0
  <2> QED BY <2>1, <1>1, <1>3, MakeTakenFacts
<1>5. PICK b1 : b1 = h1.array OBVIOUS
<1>6. /\ h2 = [array |-> h2.array, avail |-> 2] /\ h2.array \in Words
      /\ \A w \in Index : h2.array[w] = IF w = 4 \/ w = 3 THEN 0
                                        ELSE IF w = 2 \/ w = Len0 - 3 THEN Len0 - 4 ELSE b1[w]
  <2>1. 0 \in Index /\ 2 \in Index /\ Len0 - 4 \in Nat /\ Len0 - 4 >= 4 /\ 2 + (Len0 - 4) - 1 = Len0 - 3
        /\ Len0 - 3 \in Index /\ 2 + 2 = 4 /\ 2 + 1 = 3
    BY <1>0
  <2>2. b1 \in Words /\ h2 = MakeAvail([array |-> b1, avail |-> 0], 2, Len0 - 4)
    BY <1>1, <1>4, <1>5
  <2>3. PICK n : n = Len0 - 4 OBVIOUS
  <2>4. /\ h2 = [array |-> h2.array, avail |-> 2] /\ h2.array \in Words
        /\ \A w \in Index : h2.array[w] = IF 0 # 0 /\ w = 0 + 2 THEN 2
                                          ELSE IF w = 2 + 2 THEN 0 ELSE IF w = 2 + 1 THEN 0
                                          ELSE IF w = 2 \/ w = 2 + n - 1 THEN n ELSE b1[w]
    BY <2>1, <2>2, <2>3, MakeAvailFacts
  <2> QED BY <2>1, <2>3, <2>4
<1>7. PICK b2 : b2 = h2.array OBVIOUS
<1>8. /\ h3 = [array |-> h3.array, avail |-> 2] /\ h3.array \in Words
      /\ \A w \in Index : h3.array[w] = IF w = Len0 - 2 \/ w = Len0 - 1 THEN -2 ELSE b2[w]
  <2>1. Len0 - 2 \in Index /\ 2 \in Nat /\ (Len0 - 2) + 2 - 1 = Len0 - 1 /\ Len0 - 1 \in Index /\ 2 <= Len0
    BY <1>0
  <2>2. b2 \in Words /\ h3 = MakeTaken([array |-> b2, avail |-> 2], Len0 - 2, 2)
    BY <1>1, <1>6, <1>7
  <2>3. PICK x : x = Len0 - 2 OBVIOUS
  <2>4. /\ h3 = [array |-> h3.array, avail |-> 2] /\ h3.array \in Words
        /\ \A w \in Index : h3.array[w] = IF w = x \/ w = x + 2 - 1 THEN -2 ELSE b2[w]
    BY <2>1, <2>2, <2>3, MakeTakenFacts
  <2> QED BY <2>1, <2>3, <2>4
<1>9. PICK a : a = array OBVIOUS
<1>10. a \in Words /\ avail = 2
  <2>1. PICK x : x = h3.array OBVIOUS
  <2>2. h3 = [array |-> x, avail |-> 2] BY <2>1, <1>8
  <2> QED BY <2>2, <1>2, <1>8, <1>9
<1>11. /\ a[0] = -2 /\ a[1] = -2 /\ a[2] = Len0 - 4 /\ a[Len0 - 3] = Len0 - 4 /\ a[3] = 0 /\ a[4] = 0
       /\ a[Len0 - 2] = -2 /\ a[Len0 - 1] = -2
  <2>1. \A w \in Index : a[w] = IF w = Len0 - 2 \/ w = Len0 - 1 THEN -2
                                ELSE IF w = 4 \/ w = 3 THEN 0
                                ELSE IF w = 2 \/ w = Len0 - 3 THEN Len0 - 4
                                ELSE IF w = 0 \/ w = 1 THEN -2 ELSE z[w]
    BY <1>2, <1>4, <1>5, <1>6, <1>7, <1>8, <1>9
  <2>2. /\ 0 \in Index /\ 1 \in Index /\ 2 \in Index /\ 3 \in Index /\ 4 \in Index
        /\ Len0 - 3 \in Index /\ Len0 - 2 \in Index /\ Len0 - 1 \in Index
    BY <1>0
  <2> QED BY <2>1, <2>2, <1>0
<1>12. /\ BlockSize(a, 0) = 2 /\ BlockSize(a, 2) = Len0 - 4 /\ BlockSize(a, Len0 - 2) = 2
       /\ Footer(a, 0) = 1 /\ Footer(a, 2) = Len0 - 3 /\ Footer(a, Len0 - 2) = Len0 - 1
  <2>1. \A x \in Int : x < 0 => (IF x < 0 THEN -x ELSE x) = 0 - x OBVIOUS
  <2>4. -2 = 0 - 2 OBVIOUS
  <2>5. a[0] = 0 - 2 /\ a[Len0 - 2] = 0 - 2 BY <2>4, <1>11
  <2>6. a[0] \in Int /\ a[0] < 0 /\ a[Len0 - 2] \in Int /\ a[Len0 - 2] < 0 BY <2>5
  <2>7. BlockSize(a, 0) = 0 - a[0] /\ BlockSize(a, Len0 - 2) = 0 - a[Len0 - 2]
    BY <2>1, <2>6 DEF BlockSize
  <2>2. BlockSize(a, 0) = 2 /\ BlockSize(a, Len0 - 2) = 2 BY <2>5, <2>7
  <2>3. BlockSize(a, 2) = Len0 - 4 BY <1>0, <1>11 DEF BlockSize
  <2> QED BY <2>2, <2>3, <1>0 DEF Footer
<1>13. Whole(a, Guards, {2})
  <2>1. Guards = {0, Len0 - 2} BY HeapTypes
  <2>2. \A i \in Guards \cup {2} : /\ i \in Index /\ 0 <= i /\ Footer(a, i) <= Len0 - 1
                                   /\ BlockSize(a, i) >= 2 /\ (i \notin Guards => BlockSize(a, i) >= 4)
                                   /\ a[Footer(a, i)] = a[i]
    BY <2>1, <1>0, <1>11, <1>12
  <2>3. (\A i \in Guards : a[i] < 0) /\ (\A i \in {2} : a[i] > 0)
    <3>1. -2 < 0 OBVIOUS
    <3> QED BY <3>1, <2>1, <1>0, <1>11
  <2>4. \A i, j \in Guards \cup {2} : i < j => Footer(a, i) < j BY <2>1, <1>0, <1>12
  <2>5. \A w \in 0 .. Len0 - 1 : \E i \in Guards \cup {2} : i <= w /\ w <= Footer(a, i)
    BY <2>1, <1>0, <1>12
  <2> QED BY <2>1, <2>2, <2>3, <2>4, <2>5, <1>10, <1>11 DEF Whole, Tiles
<1>14. PICK list : list = <<2>> OBVIOUS
<1>15. /\ list \in Seq(Index) /\ Range(list) = {2} /\ IsInjective(list) /\ list # <<>> /\ list[1] = 2
       /\ Len(list) = 1 /\ DOMAIN list = {1}
  <2>1. 2 \in Index BY <1>0
  <2> QED BY <2>1, <1>14, SingleFacts
<1>16. Listed(a, 2, list)
  <2>1. a[2 + 1] = 0 /\ a[2 + 2] = 0 BY <1>11
  <2> QED BY <2>1, <1>15 DEF Listed, NextOf, PrevOf
<1>17. Apart(a, Range(list)) BY <1>0, <1>12, <1>15 DEF Apart
<1>18. Shape(a, 2, Guards, list) BY <1>13, <1>15, <1>16, <1>17 DEF Shape
<1>19. Links!Walk([i \in 1 .. Len0 - 2 |-> NextOf(a, i)], 2) = list BY <1>18, WalkIsList
<1>20. FreeList = list BY <1>9, <1>10, <1>19 DEF FreeList
<1>21. Guards \cup held = Guards BY <1>2
<1>22. HeapTypeOK
  <2>1. array \in [Index -> -Len0 .. Len0] BY <1>9, <1>10 DEF Words
  <2>2. avail \in Index /\ held \subseteq Index BY <1>0, <1>2, <1>10
  <2>3. panicked \in BOOLEAN BY <1>2
  <2> QED BY <2>1, <2>2, <2>3 DEF HeapTypeOK
<1> QED BY <1>2, <1>9, <1>10, <1>18, <1>20, <1>21, <1>22 DEF HeapInv

\* What the invariant makes of the next state's list.
LEMMA NextShape ==
    ASSUME NEW a, NEW v, NEW H, H \cap Guards = {}, NEW list, Shape(a, v, Guards \cup H, list)
    PROVE  /\ a \in [Index -> -Len0 .. Len0] /\ v \in Index /\ H \subseteq Index
           /\ Links!Walk([i \in 1 .. Len0 - 2 |-> NextOf(a, i)], v) = list
<1>1. a \in [Index -> -Len0 .. Len0] /\ H \subseteq Index BY DEF Shape, Whole, Tiles, Words
<1>2. v \in Index BY ListedTypes DEF Shape
<1> QED BY <1>1, <1>2, WalkIsList

\* A call of malloc that finds a block: which one, and what becomes of it.
LEMMA MallocCallFacts ==
    ASSUME HeapInv, NEW bytes \in Requests, Malloc(bytes)
    PROVE  \/ /\ panicked' = TRUE /\ UNCHANGED <<array, avail, held>>
              /\ \A i \in Range(FreeList) : ~(BlockSize(array, i) >= Ints(bytes))
           \/ \E p \in Index :
                 /\ p \notin Guards \cup held /\ held' = held \cup {p} /\ panicked' = FALSE
                 /\ \A j \in Guards \cup held : Footer(array', j) = Footer(array, j)
                 /\ Ints(bytes) <= BlockSize(array', p) /\ BlockSize(array', p) <= Ints(bytes) + 3
                 /\ \E more : Shape(array', avail', Guards \cup held', more)
<1>1. PICK a, v, H, list, ints, p : /\ a = array /\ v = avail /\ H = held /\ list = FreeList
                                    /\ ints = Ints(bytes) /\ p = Found(ints)
  OBVIOUS
<1>2. Shape(a, v, Guards \cup H, list) /\ ~panicked /\ panicked = FALSE
  BY <1>1 DEF HeapInv, HeapTypeOK, Malloc
<1>3. p = Stop(a, list, ints) BY <1>1 DEF Found, Stop
<1>4. PICK T : T = Guards \cup H OBVIOUS
<1>5. /\ p = 0 => \A i \in Range(list) : ~(BlockSize(a, i) >= ints)
      /\ p # 0 => p \in Range(list) /\ BlockSize(a, p) >= ints /\ Sane(a, p) /\ IsAvail(a, p)
  BY <1>2, <1>3, <1>4, FoundFacts
<1>6. PICK h : h = Split(p, ints) OBVIOUS
<1>7. IF p = 0 \/ ~Sane(a, p) \/ ~IsAvail(a, p)
      THEN panicked' = TRUE /\ UNCHANGED <<array, avail, held>>
      ELSE array' = h.array /\ avail' = h.avail /\ held' = held \cup {p} /\ UNCHANGED panicked
  BY <1>1, <1>6 DEF Malloc
<1>8. CASE p = 0 BY <1>1, <1>5, <1>7, <1>8
<1>9. CASE p # 0
  <2>1. array' = h.array /\ avail' = h.avail /\ held' = held \cup {p} /\ panicked' = FALSE
    BY <1>2, <1>5, <1>7, <1>9
  <2>2. PICK u, extra : u = Unlink([array |-> a, avail |-> v], p) /\ extra = BlockSize(a, p) - ints
    OBVIOUS
  <2>3. h = IF extra >= 4 THEN MakeAvail(MakeTaken(u, p, ints), p + ints, extra)
            ELSE MakeTaken(u, p, ints + extra)
    BY <2>2, <1>1, <1>6 DEF Split
  <2>4. ints \in Nat /\ ints >= 4 BY <1>1, IntsFacts
  <2>5. /\ p \notin T /\ \A j \in T : Footer(h.array, j) = Footer(a, j)
        /\ ints <= BlockSize(h.array, p) /\ BlockSize(h.array, p) <= ints + 3
        /\ Footer(h.array, p) <= Footer(a, p)
        /\ \E more : Shape(h.array, h.avail, T \cup {p}, more)
    BY <2>2, <2>3, <2>4, <1>2, <1>4, <1>5, <1>9, MallocStep
  <2>6. p \in Index BY <1>2, <1>5, <1>9, ListedTypes DEF Shape
  <2>7. T = Guards \cup held /\ T \cup {p} = Guards \cup held' BY <2>1, <1>1, <1>4
  <2> QED BY <2>1, <2>5, <2>6, <2>7, <1>1
<1> QED BY <1>8, <1>9

\* A call of free.
LEMMA FreeCallFacts ==
    ASSUME HeapInv, NEW idx \in held, Free(idx)
    PROVE  /\ held' = held \ {idx} /\ UNCHANGED panicked
           /\ \A j \in (Guards \cup held) \ {idx} : Footer(array', j) = Footer(array, j)
           /\ \E more : Shape(array', avail', Guards \cup held', more)
<1>1. PICK a, v, list, T : a = array /\ v = avail /\ list = FreeList /\ T = Guards \cup held
  OBVIOUS
<1>2. Shape(a, v, T, list) /\ idx \in T /\ idx \notin Guards BY <1>1 DEF HeapInv
<1>3. PICK h : h = Merged([array |-> a, avail |-> v], idx) OBVIOUS
<1>4. /\ Sane(a, idx) /\ IsTaken(a, idx) /\ Sane(a, LeftOf(a, idx)) /\ Sane(a, RightOf(a, idx))
      /\ \A j \in T \ {idx} : Footer(h.array, j) = Footer(a, j)
      /\ \E more : Shape(h.array, h.avail, T \ {idx}, more)
  BY <1>2, <1>3, FreeStep
<1>5. array' = h.array /\ avail' = h.avail /\ held' = held \ {idx} /\ UNCHANGED panicked
  BY <1>1, <1>3, <1>4 DEF Free
<1>6. T \ {idx} = Guards \cup held' BY <1>1, <1>2, <1>5
<1> QED BY <1>1, <1>4, <1>5, <1>6

\* Every call of malloc and free keeps the invariant.
LEMMA NextHeapInv == HeapInv /\ [HeapNext]_heapVars => HeapInv'
<1> SUFFICES ASSUME HeapInv, [HeapNext]_heapVars PROVE HeapInv' OBVIOUS
<1>1. HeapTypeOK /\ held \cap Guards = {} /\ panicked \in BOOLEAN BY DEF HeapInv, HeapTypeOK
<1>2. ASSUME UNCHANGED <<array, avail, held>>, panicked' \in BOOLEAN PROVE HeapInv'
  <2>1. FreeList' = FreeList BY <1>2 DEF FreeList
  <2>2. HeapTypeOK' BY <1>1, <1>2 DEF HeapTypeOK
  <2> QED BY <2>1, <2>2, <1>2 DEF HeapInv
<1>3. ASSUME held' \cap Guards = {}, panicked' \in BOOLEAN, NEW more, Shape(array', avail', Guards \cup held', more)
      PROVE  HeapInv'
  <2>1. PICK a, v, H : a = array' /\ v = avail' /\ H = held' OBVIOUS
  <2>2. Shape(a, v, Guards \cup H, more) /\ H \cap Guards = {} BY <2>1, <1>3
  <2>3. /\ a \in [Index -> -Len0 .. Len0] /\ v \in Index /\ H \subseteq Index
        /\ Links!Walk([i \in 1 .. Len0 - 2 |-> NextOf(a, i)], v) = more
    BY <2>2, NextShape
  <2>4. FreeList' = more BY <2>1, <2>3 DEF FreeList
  <2>5. HeapTypeOK' BY <2>1, <2>3, <1>3 DEF HeapTypeOK
  <2> QED BY <2>4, <2>5, <1>3 DEF HeapInv
<1>4. ASSUME NEW bytes \in Requests, Malloc(bytes) PROVE HeapInv'
  <2>1. CASE panicked' = TRUE /\ UNCHANGED <<array, avail, held>> BY <2>1, <1>2
  <2>2. CASE \E p \in Index : /\ p \notin Guards \cup held /\ held' = held \cup {p} /\ panicked' = FALSE
                              /\ \E more : Shape(array', avail', Guards \cup held', more)
    <3>1. held' \cap Guards = {} /\ panicked' \in BOOLEAN BY <2>2, <1>1
    <3> QED BY <3>1, <2>2, <1>3
  <2> QED BY <2>1, <2>2, <1>4, MallocCallFacts
<1>5. ASSUME NEW idx \in held, Free(idx) PROVE HeapInv'
  <2>1. /\ held' = held \ {idx} /\ UNCHANGED panicked
        /\ \E more : Shape(array', avail', Guards \cup held', more)
    BY <1>5, FreeCallFacts
  <2>2. held' \cap Guards = {} /\ panicked' \in BOOLEAN BY <2>1, <1>1
  <2> QED BY <2>1, <2>2, <1>3
<1>6. CASE UNCHANGED heapVars
  <2>1. UNCHANGED <<array, avail, held>> /\ panicked' \in BOOLEAN BY <1>1, <1>6 DEF heapVars
  <2> QED BY <2>1, <1>2
<1> QED BY <1>4, <1>5, <1>6 DEF HeapNext

\* The blocks tile the heap, the links stand for the free ones among them, and no two
\* of those are neighbours.
THEOREM HeapInvariance == HeapSpec => []HeapInv
BY HeapInitInv, NextHeapInv, PTL DEF HeapSpec

\* FreeListExact: the blocks tile the heap, and the list is that of the free ones.
LEMMA InvFreeListExact == HeapInv => FreeListExact
<1> SUFFICES ASSUME HeapInv PROVE FreeListExact OBVIOUS
<1>1. PICK a, list, T, F : a = array /\ list = FreeList /\ T = Guards \cup held /\ F = Range(list)
  OBVIOUS
<1>2. /\ HeapTypeOK /\ Whole(a, T, F) /\ Listed(a, avail, list) /\ Apart(a, F)
  BY <1>1 DEF HeapInv, Shape
<1>3. Blocks = T \cup F BY <1>1, HeapTypes DEF Blocks, ToSet, Range
<1>4. \A i, j \in T \cup F :
         /\ i \in Nat /\ Footer(a, i) \in Nat /\ i < Footer(a, i) /\ Footer(a, i) < Len0
         /\ i < j => Footer(a, i) < j
  BY <1>2, BlockFacts
<1>5. Tiled
  <2>1. \A i \in Blocks : Sane(array, i) BY <1>1, <1>2, <1>3, SaneFacts
  <2>2. \A i, j \in Blocks : i # j => Extent(i) \cap Extent(j) = {}
    <3>1. SUFFICES ASSUME NEW i \in T \cup F, NEW j \in T \cup F, i # j
                   PROVE  (i .. Footer(a, i)) \cap (j .. Footer(a, j)) = {}
      BY <1>1, <1>3 DEF Extent
    <3> QED BY <3>1, <1>4
  <2>3. UNION {Extent(i) : i \in Blocks} = Index
    <3>1. \A w \in Index : \E i \in T \cup F : w \in i .. Footer(a, i)
      <4>1. \A w \in 0 .. Len0 - 1 : \E i \in T \cup F : i <= w /\ w <= Footer(a, i)
        BY <1>2 DEF Whole, Tiles
      <4>2. \A w \in Index : w \in Int /\ w \in 0 .. Len0 - 1 BY HeapTypes
      <4> QED BY <4>1, <4>2, <1>4
    <3>2. \A i \in T \cup F : i .. Footer(a, i) \subseteq Index BY <1>4, HeapTypes
    <3> QED BY <3>1, <3>2, <1>1, <1>3 DEF Extent
  <2> QED BY <2>1, <2>2, <2>3, <1>2 DEF Tiled
<1>6. /\ DOMAIN list = 1 .. Len(list) /\ \A k \in DOMAIN list : list[k] \in F
  BY <1>1, <1>2, ListedTypes
<1>7. \A i, j \in DOMAIN list : i # j => list[i] # list[j] BY <1>2 DEF Listed, IsInjective
<1>8. ASSUME NEW k \in DOMAIN list
      PROVE  /\ IsAvail(a, list[k])
             /\ PrevOf(a, list[k]) = (IF k = 1 THEN 0 ELSE list[k - 1])
             /\ IsTaken(a, list[k] - 1) /\ IsTaken(a, RightOf(a, list[k]))
  <2>1. PICK i : i = list[k] OBVIOUS
  <2>2. i \in F /\ i \in T \cup F BY <2>1, <1>6
  <2>3. i \notin Guards BY <2>2, <1>2, BlockFacts DEF Whole
  <2>4. PICK l, r : l = LeftOf(a, i) /\ r = RightOf(a, i) OBVIOUS
  <2>5. /\ r \in T \cup F /\ r = Footer(a, i) + 1 /\ l \in T \cup F /\ Footer(a, l) = i - 1
        /\ a[i - 1] = a[l]
    BY <2>2, <2>3, <2>4, <1>2, NeighbourFacts
  <2>6. r \notin F BY <2>2, <2>5, <1>2 DEF Apart
  <2>7. l \notin F
    <3>1. i = Footer(a, l) + 1 BY <2>2, <2>5, <1>4
    <3> QED BY <3>1, <2>2, <1>2 DEF Apart
  <2>8. IsTaken(a, r) /\ IsTaken(a, l) /\ IsAvail(a, i)
    BY <2>2, <2>5, <2>6, <2>7, <1>2, SaneFacts
  <2>9. IsTaken(a, i - 1) BY <2>5, <2>8 DEF IsTaken
  <2>10. PrevOf(a, list[k]) = (IF k = 1 THEN 0 ELSE list[k - 1]) BY <1>2 DEF Listed
  <2> QED BY <2>1, <2>4, <2>8, <2>9, <2>10
<1>9. \A i \in held : IsTaken(array, i) BY <1>1, <1>2, SaneFacts
<1> QED BY <1>1, <1>5, <1>7, <1>8, <1>9 DEF FreeListExact

\* FreeListExact, for any size of the heap.
THEOREM FreeListSound == HeapSpec => []FreeListExact
BY HeapInvariance, InvFreeListExact, PTL

-----------------------------------------------------------------------------

\* A run of words outside the guards that no taken block has a part of lies in one free block.
LEMMA RunInBlock ==
    ASSUME NEW a, NEW v, NEW H, NEW list, Shape(a, v, Guards \cup H, list), NEW i \in Nat, NEW n \in Nat,
           n >= 1, 2 <= i, i + n - 1 < Len0 - 2,
           \A j \in H : (i .. i + n - 1) \cap (j .. Footer(a, j)) = {}
    PROVE  \E x \in Range(list) : BlockSize(a, x) >= n
<1>1. PICK T, F : T = Guards \cup H /\ F = Range(list) OBVIOUS
<1>2. Whole(a, T, F) /\ Apart(a, F) BY <1>1 DEF Shape
<1>3. \A x \in T \cup F :
         /\ x \in Nat /\ Footer(a, x) \in Nat /\ x < Footer(a, x) /\ Footer(a, x) < Len0
         /\ BlockSize(a, x) \in Nat /\ Footer(a, x) = x + BlockSize(a, x) - 1
  BY <1>2, BlockFacts
<1>4. Footer(a, 0) = 1 /\ Footer(a, Len0 - 2) = Len0 - 1 /\ 0 \in T \cup F
  <2>1. 0 \in T \cup F BY <1>1, HeapTypes
  <2> QED BY <2>1, <1>2, BlockFacts
<1>5. ASSUME NEW w \in Nat, i <= w, w <= i + n - 1, NEW x \in T \cup F, x <= w, w <= Footer(a, x)
      PROVE  x \in F /\ x \notin Guards
  <2>1. x \notin Guards BY <1>3, <1>4, <1>5, HeapTypes
  <2>2. w \in i .. i + n - 1 /\ w \in x .. Footer(a, x) BY <1>3, <1>5
  <2>3. x \notin H BY <2>2
  <2> QED BY <2>1, <2>3, <1>1
<1>6. \A w \in 0 .. Len0 - 1 : \E x \in T \cup F : x <= w /\ w <= Footer(a, x)
  BY <1>2 DEF Whole, Tiles
<1>7. PICK x \in T \cup F : x <= i /\ i <= Footer(a, x) BY <1>6, HeapTypes
<1>8. x \in F /\ x \notin Guards BY <1>5, <1>7
<1>9. Footer(a, x) >= i + n - 1
  <2>1. SUFFICES ASSUME Footer(a, x) < i + n - 1 PROVE FALSE BY <1>3
  <2>2. PICK r : r = RightOf(a, x) OBVIOUS
  <2>3. r \in T \cup F /\ r = Footer(a, x) + 1 BY <2>2, <1>2, <1>8, NeighbourFacts
  <2>4. r \in Nat /\ i <= r /\ r <= i + n - 1 /\ r <= r /\ r <= Footer(a, r)
    BY <2>1, <2>3, <1>3, <1>7
  <2>5. r \in F BY <2>3, <2>4, <1>5
  <2> QED BY <2>3, <2>5, <1>2, <1>8 DEF Apart
<1>10. BlockSize(a, x) >= n BY <1>3, <1>7, <1>9
<1> QED BY <1>1, <1>8, <1>10

\* FullMeansFull: malloc gives up only when no run of free words is long enough.
LEMMA NextFull ==
    HeapInv /\ [HeapNext]_heapVars =>
      [\A bytes \in Requests :
          Malloc(bytes) /\ panicked' =>
            ~\E i \in 2 .. Len0 - 2 - Ints(bytes) :
                \A j \in held : (i .. i + Ints(bytes) - 1) \cap Extent(j) = {}]_heapVars
<1> SUFFICES ASSUME HeapInv, NEW bytes \in Requests, Malloc(bytes), panicked',
                    NEW i \in 2 .. Len0 - 2 - Ints(bytes),
                    \A j \in held : (i .. i + Ints(bytes) - 1) \cap Extent(j) = {}
             PROVE  FALSE
  OBVIOUS
<1>1. PICK a, v, H, list, n : a = array /\ v = avail /\ H = held /\ list = FreeList /\ n = Ints(bytes)
  OBVIOUS
<1>2. \A x \in Range(list) : ~(BlockSize(a, x) >= n) BY <1>1, MallocCallFacts
<1>3. Shape(a, v, Guards \cup H, list) BY <1>1 DEF HeapInv
<1>4. n \in Nat /\ n >= 1 BY <1>1, IntsFacts
<1>5. i \in Nat /\ 2 <= i /\ i + n - 1 < Len0 - 2 BY <1>1, <1>4, HeapTypes
<1>6. \A j \in H : (i .. i + n - 1) \cap (j .. Footer(a, j)) = {} BY <1>1 DEF Extent
<1>7. \E x \in Range(list) : BlockSize(a, x) >= n BY <1>3, <1>4, <1>5, <1>6, RunInBlock
<1> QED BY <1>2, <1>7

\* FullMeansFull, for any size of the heap.
THEOREM FullIsFull == HeapSpec => FullMeansFull
<1>1. HeapInv /\ [HeapNext]_heapVars =>
        [\A bytes \in Requests :
            Malloc(bytes) /\ panicked' =>
              ~\E i \in 2 .. Len0 - 2 - Ints(bytes) :
                  \A j \in held : (i .. i + Ints(bytes) - 1) \cap Extent(j) = {}]_heapVars
  BY NextFull
<1> QED BY <1>1, HeapInvariance, PTL DEF HeapSpec, FullMeansFull

-----------------------------------------------------------------------------

\* The words between the tags of a block.
Inside(a, i) == (i + 1) .. (Footer(a, i) - 1)

\* They are an area of at least two words of the heap, and none is another block's.
LEMMA InsideFacts ==
    ASSUME NEW a, NEW T, NEW F, Whole(a, T, F), NEW i \in T \cup F, i \notin Guards
    PROVE  /\ Inside(a, i) = Areas!Area(i + 1, BlockSize(a, i) - 2) /\ i + 1 \in Inside(a, i)
           /\ BlockSize(a, i) - 2 \in Index /\ BlockSize(a, i) - 2 > 0 /\ i + 1 \in Index
           /\ Inside(a, i) \subseteq Index
           /\ \A j \in T \cup F : j # i => Inside(a, j) \cap Inside(a, i) = {}
<1>1. /\ i \in Nat /\ Footer(a, i) \in Nat /\ i + 3 <= Footer(a, i) /\ Footer(a, i) < Len0
      /\ BlockSize(a, i) \in Nat /\ Footer(a, i) = i + BlockSize(a, i) - 1
  BY BlockFacts
<1>2. Inside(a, i) = Areas!Area(i + 1, BlockSize(a, i) - 2)
  <2>1. (i + 1) + (BlockSize(a, i) - 2) - 1 = Footer(a, i) - 1 BY <1>1
  <2> QED BY <2>1 DEF Inside, Areas!Area
<1>3. ASSUME NEW j \in T \cup F, j # i PROVE Inside(a, j) \cap Inside(a, i) = {}
  <2>1. j \in Nat /\ Footer(a, j) \in Nat /\ (j < i => Footer(a, j) < i) /\ (i < j => Footer(a, i) < j)
    BY BlockFacts
  <2> QED BY <2>1, <1>1, <1>3 DEF Inside
<1>4. /\ BlockSize(a, i) - 2 \in 0 .. Len0 - 1 /\ BlockSize(a, i) - 2 > 0 /\ i + 1 \in 0 .. Len0 - 1
      /\ i + 1 \in (i + 1) .. (Footer(a, i) - 1) /\ (i + 1) .. (Footer(a, i) - 1) \subseteq 0 .. Len0 - 1
  BY <1>1, HeapTypes
<1> QED BY <1>2, <1>3, <1>4, HeapTypes DEF Inside

\* What is handed out.
HeapAreas == {(i + 1) .. (Footer(array, i) - 1) : i \in held}

\* malloc hands out an area that nobody has, and free takes one back.
LEMMA StepAreas ==
    HeapInv /\ [HeapNext]_heapVars => [Areas!AllocNext]_HeapAreas
<1> SUFFICES ASSUME HeapInv, [HeapNext]_heapVars PROVE Areas!AllocNext \/ UNCHANGED HeapAreas
  OBVIOUS
<1>1. PICK a, H, list : a = array /\ H = held /\ list = FreeList OBVIOUS
<1>2. Whole(a, Guards \cup H, Range(list)) /\ H \cap Guards = {} BY <1>1 DEF HeapInv, Shape
<1>3. HeapAreas = {Inside(a, i) : i \in H} BY <1>1 DEF HeapAreas, Inside
<1>4. PICK b, K : b = array' /\ K = held' OBVIOUS
<1>5. HeapAreas' = {Inside(b, i) : i \in K} BY <1>4 DEF HeapAreas, Inside
<1>6. ASSUME UNCHANGED <<array, held>> PROVE UNCHANGED HeapAreas BY <1>6 DEF HeapAreas
<1>7. ASSUME NEW bytes \in Requests, Malloc(bytes) PROVE Areas!AllocNext \/ UNCHANGED HeapAreas
  <2>1. CASE UNCHANGED <<array, held>> BY <2>1, <1>6
  <2>2. CASE \E p \in Index :
                 /\ p \notin Guards \cup held /\ held' = held \cup {p}
                 /\ \A j \in Guards \cup held : Footer(array', j) = Footer(array, j)
                 /\ \E more : Shape(array', avail', Guards \cup held', more)
    <3>1. PICK p : /\ p \notin Guards \cup H /\ K = H \cup {p}
                   /\ \A j \in Guards \cup H : Footer(b, j) = Footer(a, j)
                   /\ \E more : Shape(b, avail', Guards \cup K, more)
      BY <2>2, <1>1, <1>4
    <3>2. PICK G : Whole(b, Guards \cup K, G)
      <4>1. PICK more : Shape(b, avail', Guards \cup K, more) BY <3>1
      <4> QED BY <4>1 DEF Shape
    <3>3. p \in (Guards \cup K) \cup G /\ p \notin Guards BY <3>1
    <3>4. PICK n, x : n = BlockSize(b, p) - 2 /\ x = Inside(b, p) OBVIOUS
    <3>5. /\ x = Areas!Area(p + 1, n) /\ n \in Index /\ n > 0 /\ p + 1 \in Index /\ x \subseteq Index
          /\ \A j \in H : Inside(b, j) \cap x = {}
      <4>1. \A j \in H : j \in (Guards \cup K) \cup G /\ j # p BY <3>1
      <4>2. /\ x = Areas!Area(p + 1, n) /\ n \in Index /\ n > 0 /\ p + 1 \in Index /\ x \subseteq Index
            /\ \A j \in (Guards \cup K) \cup G : j # p => Inside(b, j) \cap x = {}
        BY <3>2, <3>3, <3>4, InsideFacts
      <4> QED BY <4>1, <4>2
    <3>6. \A j \in H : Inside(b, j) = Inside(a, j) BY <3>1 DEF Inside
    <3>7. HeapAreas' = HeapAreas \cup {x}
      <4>1. {Inside(b, i) : i \in K} = {Inside(a, i) : i \in H} \cup {x} BY <3>1, <3>4, <3>6
      <4> QED BY <4>1, <1>3, <1>5
    <3>8. \A y \in HeapAreas : y \cap x = {} BY <3>5, <3>6, <1>3
    <3>9. n \in 1 .. 2 * n + 5 /\ n >= n BY <3>5, HeapTypes
    <3>10. Areas!Give(n)
      <4>1. PICK from : from = p + 1 OBVIOUS
      <4>2. /\ from \in Index /\ n \in 1 .. 2 * n + 5 /\ n >= n /\ Areas!Area(from, n) \subseteq Index
            /\ \A y \in HeapAreas : y \cap Areas!Area(from, n) = {}
            /\ HeapAreas' = HeapAreas \cup {Areas!Area(from, n)}
        BY <4>1, <3>5, <3>7, <3>8, <3>9
      <4> QED BY <4>2 DEF Areas!Give, HeapAreas
    <3> QED BY <3>5, <3>10 DEF Areas!AllocNext
  <2> QED BY <2>1, <2>2, <1>7, MallocCallFacts
<1>8. ASSUME NEW idx \in held, Free(idx) PROVE Areas!AllocNext
  <2>1. /\ K = H \ {idx} /\ idx \in H
        /\ \A j \in (Guards \cup H) \ {idx} : Footer(b, j) = Footer(a, j)
    BY <1>1, <1>4, <1>8, FreeCallFacts
  <2>2. \A j \in K : Inside(b, j) = Inside(a, j) BY <2>1 DEF Inside
  <2>3. \A j \in K : Inside(a, j) # Inside(a, idx)
    <3>1. idx \in (Guards \cup H) \cup Range(list) /\ idx \notin Guards BY <2>1, <1>2
    <3>2. /\ idx + 1 \in Inside(a, idx)
          /\ \A j \in (Guards \cup H) \cup Range(list) : j # idx => Inside(a, j) \cap Inside(a, idx) = {}
      BY <3>1, <1>2, InsideFacts
    <3>3. \A j \in K : j \in (Guards \cup H) \cup Range(list) /\ j # idx BY <2>1
    <3> QED BY <3>2, <3>3
  <2>4. {Inside(b, i) : i \in K} = {Inside(a, i) : i \in H} \ {Inside(a, idx)}
    BY <2>1, <2>2, <2>3
  <2>5. HeapAreas' = HeapAreas \ {Inside(a, idx)} /\ Inside(a, idx) \in HeapAreas
    BY <2>1, <2>4, <1>3, <1>5
  <2> QED BY <2>5 DEF Areas!AllocNext, Areas!TakeBack, HeapAreas
<1>9. CASE UNCHANGED heapVars BY <1>6, <1>9 DEF heapVars
<1> QED BY <1>7, <1>8, <1>9 DEF HeapNext

\* What malloc hands out never overlaps, whatever is asked for.
THEOREM AreasApart == HeapSpec => Areas!AllocSpec
<1>1. HeapInit => Areas!AllocInit BY DEF HeapInit, Areas!AllocInit
<1>2. HeapInv /\ [HeapNext]_heapVars => [Areas!AllocNext]_HeapAreas BY StepAreas
<1> QED BY <1>1, <1>2, HeapInvariance, PTL DEF HeapSpec, Areas!AllocSpec, HeapAreas

\* An area holds the bytes that were asked for, unless bytes + 3 leaves the word.
LEMMA NextBytes ==
    ASSUME \A bytes \in Requests : bytes + 3 < WordMod
    PROVE  HeapInv /\ [HeapNext]_heapVars =>
             [\A bytes \in Requests : Malloc(bytes) =>
                 \A i \in held' \ held : 4 * (-array'[i] - 2) >= bytes]_heapVars
<1> SUFFICES ASSUME HeapInv, NEW bytes \in Requests, Malloc(bytes), NEW i \in held' \ held
             PROVE  4 * (-array'[i] - 2) >= bytes
  OBVIOUS
<1>1. /\ Ints(bytes) <= BlockSize(array', i) /\ \E more : Shape(array', avail', Guards \cup held', more)
  <2>1. \E p \in Index : /\ held' = held \cup {p} /\ Ints(bytes) <= BlockSize(array', p)
                         /\ \E more : Shape(array', avail', Guards \cup held', more)
    <3>1. ~(UNCHANGED <<array, avail, held>>) OBVIOUS
    <3> QED BY <3>1, MallocCallFacts
  <2>2. PICK p \in Index : held' = held \cup {p} /\ Ints(bytes) <= BlockSize(array', p)
    BY <2>1
  <2>3. i = p BY <2>2
  <2> QED BY <2>1, <2>2, <2>3
<1>2. PICK b, v, K, n : b = array' /\ v = avail' /\ K = held' /\ n = Ints(bytes) OBVIOUS
<1>3. PICK more : Shape(b, v, Guards \cup K, more) BY <1>1, <1>2
<1>4. i \in Guards \cup K /\ n <= BlockSize(b, i) BY <1>1, <1>2
<1>5. b[i] \in Int /\ b[i] < 0
  <2>1. b[i] < 0 BY <1>3, <1>4 DEF Shape, Whole, Tiles
  <2>2. b[i] \in Int BY <1>3, <1>4, BlockFacts DEF Shape
  <2> QED BY <2>1, <2>2
<1>6. BlockSize(b, i) = -b[i] BY <1>5 DEF BlockSize
<1>7. n \in Nat /\ 4 * (n - 2) >= bytes
  <2>1. bytes \in Nat /\ WordMod \in Nat /\ bytes + 3 < WordMod BY HeapAssumption
  <2>2. (bytes + 3) % WordMod = bytes + 3 BY <2>1
  <2>3. PICK q : q = (bytes + 3) \div 4 OBVIOUS
  <2>4. q \in Nat /\ 4 * q >= bytes BY <2>1, <2>3
  <2>5. n = IF q + 2 < 4 THEN 4 ELSE q + 2 BY <2>2, <2>3, <1>2 DEF Ints
  <2> QED BY <2>1, <2>4, <2>5
<1>8. 4 * (-b[i] - 2) >= bytes
  <2>1. PICK s : s = -b[i] OBVIOUS
  <2>2. s \in Int /\ n <= s BY <2>1, <1>4, <1>5, <1>6
  <2>3. bytes \in Nat BY HeapAssumption
  <2>4. 4 * (s - 2) >= bytes BY <2>2, <2>3, <1>7
  <2> QED BY <2>1, <2>4
<1> QED BY <1>2, <1>8

\* ImplementsAllocator: areas that do not overlap, each with the bytes that were asked for.
THEOREM AllocatorImplemented ==
    ASSUME \A bytes \in Requests : bytes + 3 < WordMod
    PROVE  HeapSpec => ImplementsAllocator
<1>1. HeapInv /\ [HeapNext]_heapVars =>
        [\A bytes \in Requests : Malloc(bytes) =>
            \A i \in held' \ held : 4 * (-array'[i] - 2) >= bytes]_heapVars
  BY NextBytes
<1> QED BY <1>1, AreasApart, HeapInvariance, PTL DEF HeapSpec, ImplementsAllocator

\* free() of what malloc returned never panics, in whatever order the blocks come back.
THEOREM FreeSucceeds == HeapSpec => [][\A idx \in held : Free(idx) => ~panicked']_heapVars
<1>1. HeapInv /\ [HeapNext]_heapVars => [\A idx \in held : Free(idx) => ~panicked']_heapVars
  <2> SUFFICES ASSUME HeapInv, NEW idx \in held, Free(idx) PROVE ~panicked'
    OBVIOUS
  <2>1. UNCHANGED panicked BY FreeCallFacts
  <2> QED BY <2>1 DEF Free
<1> QED BY <1>1, HeapInvariance, PTL DEF HeapSpec
=============================================================================
