---------------------------- MODULE MemoryProofs ----------------------------
(***************************************************************************)
(* Every frame is in one place, and what one process writes no other one   *)
(* sees, for any number of processes, frames, tables and pages.            *)
(***************************************************************************)
EXTENDS Memory, CollectionFacts, TLAPS

(***************************************************************************)
(* The inductive invariant.                                                *)
(***************************************************************************)

\* What a process finds at an address: of a page that is not present, what
\* the page fault will give it.
Seen(p, va) == IF page[p][va] # 0 THEN content[page[p][va]] ELSE Zero

\* A frame that alloc returned is in the hands of the process until pmap.
HandsExact == \A p \in Proc : hand[p] # 0 <=> pc[p] \in {"map", "copy"}

\* The page that a call works on stays as the call found it.
CallsExact ==
    \A p \in Proc :
        /\ pc[p] # "idle" => status[p] = "live"
        /\ pc[p] \in {"fault", "map"} => at[p] \in Pages /\ page[p][at[p]] = 0
        /\ pc[p] = "copy" => at[p] \in Pages /\ page[p][at[p]] # 0

\* A process has an address space from its fork to the end of the destructor.
LivesExact ==
    \A p \in Proc :
        /\ status[p] = "none" => pd[p] = 0 /\ pt[p] = NoTables /\ page[p] = NoPages
        /\ status[p] \in {"live", "dead"} => pd[p] # 0

Forking == {"directory", "identity", "fork", "copy"}

\* A child has one maker, what the constructor has not come to is empty, and
\* the pages that fork has come to are like the parent's.
ForksExact ==
    \A p, c \in Proc : pc[p] \in Forking /\ child[p] = c =>
        /\ status[c] = "forming"
        /\ \A q \in Proc : pc[q] \in Forking /\ child[q] = c => q = p
        /\ pc[p] = "directory" <=> pd[c] = 0
        /\ pc[p] \in {"directory", "identity"} => pt[c] = NoTables /\ page[c] = NoPages
        /\ pc[p] \in {"fork", "copy"} =>
              \A va \in Pages : IF va < at[p] THEN Seen(c, va) = Seen(p, va) ELSE page[c][va] = 0

\* A page that is present is in a table that is.
TablesBuilt == \A p \in Proc, va \in Pages : page[p][va] # 0 => pt[p][TableOf(va)] # 0

IInv == FramesOnce /\ HandsExact /\ CallsExact /\ LivesExact /\ ForksExact /\ TablesBuilt

-----------------------------------------------------------------------------

\* The least of a set of pages or of tables is one of them.
LEMMA MinFacts ==
    ASSUME NEW S \in SUBSET Nat, S # {}
    PROVE  Min(S) \in S
BY LeastMember DEF Min

\* Table 0 is the kernel's: the pages of programs are in the others.
LEMMA TableFacts ==
    /\ Pages \subseteq Nat /\ Table \subseteq Nat /\ 0 \in Table
    /\ \A va \in Pages : TableOf(va) \in Table /\ TableOf(va) # 0
<1>1. Pages \subseteq Nat /\ Table \subseteq Nat /\ 0 \in Table
  BY MemoryAssumption DEF Pages, Table
<1>2. ASSUME NEW va \in Pages PROVE TableOf(va) \in Table /\ TableOf(va) # 0
  <2>1. /\ va \in Nat /\ PerTable \in Nat /\ PerTable > 0 /\ Tables \in Nat
        /\ va < Tables * PerTable
    BY MemoryAssumption DEF Pages
  <2>2. /\ va \div PerTable \in Nat
        /\ (va \div PerTable) * PerTable <= va
    BY <2>1
  <2>3. PICK k \in Nat : k = va \div PerTable BY <2>2
  <2>4. k * PerTable < Tables * PerTable
    <3>1. k * PerTable <= va BY <2>2, <2>3
    <3>2. k * PerTable \in Nat /\ Tables * PerTable \in Nat BY <2>1
    <3> QED BY <3>1, <3>2, <2>1
  <2>5. k < Tables
    <3> SUFFICES ASSUME k >= Tables PROVE FALSE BY <2>1
    <3>1. PICK d \in Nat : k = Tables + d BY <2>1
    <3>2. k * PerTable = Tables * PerTable + d * PerTable BY <3>1, <2>1
    <3>3. d * PerTable >= 0 BY <2>1
    <3> QED BY <3>2, <3>3, <2>4, <2>1
  <2> QED BY <2>1, <2>3, <2>5 DEF TableOf, Table
<1> QED BY <1>1, <1>2

LEMMA PlacesFinite == IsFiniteSet(Proc) /\ IsFiniteSet(Proc \X Table) /\ IsFiniteSet(Proc \X Pages)
<1>1. IsFiniteSet(Proc) /\ 0 \in Int /\ Tables \in Int /\ Tables * PerTable - 1 \in Int
  BY MemoryAssumption
<1>2. IsFiniteSet(Table) /\ IsFiniteSet(Pages)
  BY <1>1, FS_Interval DEF Table, Pages
<1> QED BY <1>1, <1>2, FS_Product

-----------------------------------------------------------------------------
(***************************************************************************)
(* Counting the places of a frame.                                         *)
(***************************************************************************)

\* How often a frame is somewhere else than in the list, and how often it
\* should be.
Elsewhere(f) == InDirectories(f) + InTables(f) + InPages(f) + InHands(f)
InUse(f) == (IF f < avail THEN 1 ELSE 0) - InList(f)

CountTypes ==
    \A f : /\ InDirectories(f) \in Nat /\ InTables(f) \in Nat /\ InPages(f) \in Nat
           /\ InHands(f) \in Nat /\ InList(f) \in {0, 1}
LEMMA CountsAreNumbers == CountTypes
<1> SUFFICES ASSUME NEW f
             PROVE  /\ InDirectories(f) \in Nat /\ InTables(f) \in Nat /\ InPages(f) \in Nat
                    /\ InHands(f) \in Nat /\ InList(f) \in {0, 1}
  BY DEF CountTypes
<1>1. /\ IsFiniteSet({p \in Proc : pd[p] = f}) /\ IsFiniteSet({p \in Proc : hand[p] = f})
      /\ IsFiniteSet({e \in Proc \X Table : pt[e[1]][e[2]] = f})
      /\ IsFiniteSet({e \in Proc \X Pages : page[e[1]][e[2]] = f})
  BY PlacesFinite, FS_Subset
<1> QED BY <1>1, FS_CardinalityType DEF InDirectories, InTables, InPages, InHands, InList

LEMMA Balance ==
    FramesOnce <=> TypeOK /\ IsInjective(firstFree) /\ \A f \in Frame : Elsewhere(f) = InUse(f)
<1>1. ASSUME TypeOK, NEW f \in Frame
      PROVE  Uses(f) = (IF f < avail THEN 1 ELSE 0) <=> Elsewhere(f) = InUse(f)
  <2>1. /\ InDirectories(f) \in Nat /\ InTables(f) \in Nat /\ InPages(f) \in Nat
        /\ InHands(f) \in Nat /\ InList(f) \in {0, 1}
    BY CountsAreNumbers DEF CountTypes
  <2> QED BY <2>1 DEF Uses, Elsewhere, InUse
<1> QED BY <1>1 DEF FramesOnce

LEMMA DirectoryStep ==
    ASSUME NEW p \in Proc, \A q \in Proc \ {p} : pd'[q] = pd[q]
    PROVE  \A f : InDirectories(f)' = InDirectories(f) + (IF pd'[p] = f THEN 1 ELSE 0) - (IF pd[p] = f THEN 1 ELSE 0)
<1> TAKE f
<1> PICK g, h : g = pd /\ h = pd' OBVIOUS
<1>1. InDirectories(f) = Cardinality(Held(Proc, g, f)) /\ InDirectories(f)' = Cardinality(Held(Proc, h, f))
  BY DEF InDirectories, Held
<1>2. Cardinality(Held(Proc, h, f)) =
        Cardinality(Held(Proc, g, f)) + (IF h[p] = f THEN 1 ELSE 0) - (IF g[p] = f THEN 1 ELSE 0)
  <2>1. IsFiniteSet(Proc) BY PlacesFinite
  <2>2. \A e \in Proc \ {p} : h[e] = g[e] OBVIOUS
  <2> QED BY <2>1, <2>2, HeldStep
<1> QED BY <1>1, <1>2

LEMMA HandStep ==
    ASSUME NEW p \in Proc, \A q \in Proc \ {p} : hand'[q] = hand[q]
    PROVE  \A f : InHands(f)' = InHands(f) + (IF hand'[p] = f THEN 1 ELSE 0) - (IF hand[p] = f THEN 1 ELSE 0)
<1> TAKE f
<1> PICK g, h : g = hand /\ h = hand' OBVIOUS
<1>1. InHands(f) = Cardinality(Held(Proc, g, f)) /\ InHands(f)' = Cardinality(Held(Proc, h, f))
  BY DEF InHands, Held
<1>2. Cardinality(Held(Proc, h, f)) =
        Cardinality(Held(Proc, g, f)) + (IF h[p] = f THEN 1 ELSE 0) - (IF g[p] = f THEN 1 ELSE 0)
  <2>1. IsFiniteSet(Proc) BY PlacesFinite
  <2>2. \A e \in Proc \ {p} : h[e] = g[e] OBVIOUS
  <2> QED BY <2>1, <2>2, HeldStep
<1> QED BY <1>1, <1>2

LEMMA TableStep ==
    ASSUME NEW p \in Proc, NEW t \in Table,
           \A q \in Proc, u \in Table : q # p \/ u # t => pt'[q][u] = pt[q][u]
    PROVE  \A f : InTables(f)' = InTables(f) + (IF pt'[p][t] = f THEN 1 ELSE 0)
                                     - (IF pt[p][t] = f THEN 1 ELSE 0)
<1> TAKE f
<1>0. PICK P, g, h : /\ P = Proc \X Table /\ IsFiniteSet(P)
                   /\ g = [e \in P |-> pt[e[1]][e[2]]] /\ h = [e \in P |-> pt'[e[1]][e[2]]]
  BY PlacesFinite
<1>1. /\ {e \in Proc \X Table : pt[e[1]][e[2]] = f} = Held(P, g, f)
      /\ {e \in Proc \X Table : pt'[e[1]][e[2]] = f} = Held(P, h, f)
  BY <1>0 DEF Held
<1>2. PICK e \in P : e = <<p, t>> BY <1>0
<1>3. \A d \in P \ {e} : h[d] = g[d] BY <1>0, <1>2
<1>4. Cardinality(Held(P, h, f)) =
        Cardinality(Held(P, g, f)) + (IF h[e] = f THEN 1 ELSE 0) - (IF g[e] = f THEN 1 ELSE 0)
  <2>1. IsFiniteSet(P) BY <1>0
  <2> QED BY <2>1, <1>3, HeldStep
<1>5. g[e] = pt[p][t] /\ h[e] = pt'[p][t] BY <1>0, <1>2
<1> QED BY <1>1, <1>4, <1>5 DEF InTables

LEMMA PageStep ==
    ASSUME NEW p \in Proc, NEW va \in Pages,
           \A q \in Proc, vb \in Pages : q # p \/ vb # va => page'[q][vb] = page[q][vb]
    PROVE  \A f : InPages(f)' = InPages(f) + (IF page'[p][va] = f THEN 1 ELSE 0)
                                     - (IF page[p][va] = f THEN 1 ELSE 0)
<1> TAKE f
<1>0. PICK P, g, h : /\ P = Proc \X Pages /\ IsFiniteSet(P)
                   /\ g = [e \in P |-> page[e[1]][e[2]]] /\ h = [e \in P |-> page'[e[1]][e[2]]]
  BY PlacesFinite
<1>1. /\ {e \in Proc \X Pages : page[e[1]][e[2]] = f} = Held(P, g, f)
      /\ {e \in Proc \X Pages : page'[e[1]][e[2]] = f} = Held(P, h, f)
  BY <1>0 DEF Held
<1>2. PICK e \in P : e = <<p, va>> BY <1>0
<1>3. \A d \in P \ {e} : h[d] = g[d] BY <1>0, <1>2
<1>4. Cardinality(Held(P, h, f)) =
        Cardinality(Held(P, g, f)) + (IF h[e] = f THEN 1 ELSE 0) - (IF g[e] = f THEN 1 ELSE 0)
  <2>1. IsFiniteSet(P) BY <1>0
  <2> QED BY <2>1, <1>3, HeldStep
<1>5. g[e] = page[p][va] /\ h[e] = page'[p][va] BY <1>0, <1>2
<1> QED BY <1>1, <1>4, <1>5 DEF InPages

\* Where a frame can be found, it is counted.
LEMMA PlacesCounted ==
    ASSUME NEW f
    PROVE  /\ \A p \in Proc : pd[p] = f => InDirectories(f) > 0
           /\ \A p \in Proc : hand[p] = f => InHands(f) > 0
           /\ \A p \in Proc, t \in Table : pt[p][t] = f => InTables(f) > 0
           /\ \A p \in Proc, va \in Pages : page[p][va] = f => InPages(f) > 0
           /\ InPages(f) <= 1 => \A p, q \in Proc, va, vb \in Pages :
                                   page[p][va] = f /\ page[q][vb] = f => p = q /\ va = vb
<1> PICK g, h : /\ g = [e \in Proc \X Table |-> pt[e[1]][e[2]]]
                /\ h = [e \in Proc \X Pages |-> page[e[1]][e[2]]]
  OBVIOUS
<1>1. /\ InDirectories(f) = Cardinality(Held(Proc, pd, f))
      /\ InHands(f) = Cardinality(Held(Proc, hand, f))
  BY DEF InDirectories, InHands, Held
<1>2. InTables(f) = Cardinality(Held(Proc \X Table, g, f))
  <2>1. {e \in Proc \X Table : pt[e[1]][e[2]] = f} = Held(Proc \X Table, g, f) BY DEF Held
  <2> QED BY <2>1 DEF InTables
<1>3. InPages(f) = Cardinality(Held(Proc \X Pages, h, f))
  <2>1. {e \in Proc \X Pages : page[e[1]][e[2]] = f} = Held(Proc \X Pages, h, f) BY DEF Held
  <2> QED BY <2>1 DEF InPages
<1>4. \A p \in Proc : pd[p] = f => InDirectories(f) > 0 BY <1>1, PlacesFinite, HeldFacts
<1>5. \A p \in Proc : hand[p] = f => InHands(f) > 0 BY <1>1, PlacesFinite, HeldFacts
<1>6. \A p \in Proc, t \in Table : <<p, t>> \in Proc \X Table /\ g[<<p, t>>] = pt[p][t] OBVIOUS
<1>7. \A p \in Proc, va \in Pages : <<p, va>> \in Proc \X Pages /\ h[<<p, va>>] = page[p][va] OBVIOUS
<1>8. \A p \in Proc, t \in Table : pt[p][t] = f => InTables(f) > 0
  <2>1. /\ Cardinality(Held(Proc \X Table, g, f)) \in Nat
        /\ Cardinality(Held(Proc \X Table, g, f)) = 0 <=> \A e \in Proc \X Table : g[e] # f
    BY PlacesFinite, HeldFacts
  <2>2. ASSUME NEW p \in Proc, NEW t \in Table, pt[p][t] = f PROVE InTables(f) > 0
    <3>1. <<p, t>> \in Proc \X Table /\ g[<<p, t>>] = f BY <2>2, <1>6
    <3>2. Cardinality(Held(Proc \X Table, g, f)) # 0 BY <3>1, <2>1
    <3> QED BY <3>2, <2>1, <1>2
  <2> QED BY <2>2
<1>9. \A p \in Proc, va \in Pages : page[p][va] = f => InPages(f) > 0
  <2>1. /\ Cardinality(Held(Proc \X Pages, h, f)) \in Nat
        /\ Cardinality(Held(Proc \X Pages, h, f)) = 0 <=> \A e \in Proc \X Pages : h[e] # f
    BY PlacesFinite, HeldFacts
  <2>2. ASSUME NEW p \in Proc, NEW va \in Pages, page[p][va] = f PROVE InPages(f) > 0
    <3>1. <<p, va>> \in Proc \X Pages /\ h[<<p, va>>] = f BY <2>2, <1>7
    <3>2. Cardinality(Held(Proc \X Pages, h, f)) # 0 BY <3>1, <2>1
    <3> QED BY <3>2, <2>1, <1>3
  <2> QED BY <2>2
<1>10. ASSUME InPages(f) <= 1, NEW p \in Proc, NEW q \in Proc, NEW va \in Pages, NEW vb \in Pages,
              page[p][va] = f, page[q][vb] = f
       PROVE  p = q /\ va = vb
  <2>1. /\ <<p, va>> \in Proc \X Pages /\ h[<<p, va>>] = f
        /\ <<q, vb>> \in Proc \X Pages /\ h[<<q, vb>>] = f
    BY <1>7, <1>10
  <2>2. IsFiniteSet(Proc \X Pages) /\ Cardinality(Held(Proc \X Pages, h, f)) <= 1
    BY <1>3, <1>10, PlacesFinite
  <2>3. <<p, va>> = <<q, vb>> BY <2>1, <2>2, HeldOnce
  <2> QED BY <2>3
<1> QED BY <1>4, <1>5, <1>8, <1>9, <1>10

\* A frame that is a page of a process is nothing else, nor anybody else's.
LEMMA PageFacts ==
    ASSUME FramesOnce, NEW p \in Proc, NEW va \in Pages, page[p][va] # 0
    PROVE  /\ page[p][va] \in Frame /\ page[p][va] \notin Range(firstFree) /\ page[p][va] < avail
           /\ \A q \in Proc, vb \in Pages : page[q][vb] = page[p][va] => q = p /\ vb = va
           /\ \A q \in Proc : hand[q] # page[p][va] /\ pd[q] # page[p][va]
           /\ \A q \in Proc, t \in Table : pt[q][t] # page[p][va]
<1> PICK f \in Frame : f = page[p][va] BY DEF FramesOnce, TypeOK, Frame
<1>1. Elsewhere(f) = InUse(f) BY Balance
<1>2. /\ InDirectories(f) \in Nat /\ InTables(f) \in Nat /\ InPages(f) \in Nat
      /\ InHands(f) \in Nat /\ InList(f) \in {0, 1}
  BY CountsAreNumbers DEF CountTypes
<1>3. InPages(f) > 0 BY PlacesCounted
<1>4. /\ InList(f) = 0 /\ f < avail /\ InPages(f) <= 1
      /\ InHands(f) = 0 /\ InTables(f) = 0 /\ InDirectories(f) = 0
  BY <1>1, <1>2, <1>3 DEF Elsewhere, InUse
<1>5. f \notin Range(firstFree) BY <1>4 DEF InList
<1>6. \A q \in Proc, vb \in Pages : page[q][vb] = f => q = p /\ vb = va BY <1>4, PlacesCounted
<1>7. \A q \in Proc : hand[q] # f /\ pd[q] # f BY <1>4, PlacesCounted
<1>8. \A q \in Proc, t \in Table : pt[q][t] # f BY <1>4, PlacesCounted
<1> QED BY <1>4, <1>5, <1>6, <1>7, <1>8

\* A frame that is a directory, a table or in a hand is not in the list.
LEMMA OtherFacts ==
    ASSUME FramesOnce, NEW f \in Frame,
           \/ \E p \in Proc : pd[p] = f \/ hand[p] = f
           \/ \E p \in Proc, t \in Table : pt[p][t] = f
    PROVE  f \notin Range(firstFree) /\ f < avail /\ \A q \in Proc, va \in Pages : page[q][va] # f
<1>1. Elsewhere(f) = InUse(f) BY Balance
<1>2. /\ InDirectories(f) \in Nat /\ InTables(f) \in Nat /\ InPages(f) \in Nat
      /\ InHands(f) \in Nat /\ InList(f) \in {0, 1}
  BY CountsAreNumbers DEF CountTypes
<1>3. InDirectories(f) > 0 \/ InHands(f) > 0 \/ InTables(f) > 0 BY PlacesCounted
<1>4. InList(f) = 0 /\ InPages(f) = 0 /\ f < avail BY <1>1, <1>2, <1>3 DEF Elsewhere, InUse
<1> QED BY <1>4, PlacesCounted DEF InList

\* alloc returns a frame that is nowhere else.
LEMMA AllocStep ==
    ASSUME FramesOnce, Alloc
    PROVE  /\ Top \in Frame /\ firstFree' \in Seq(Frame) /\ avail' \in 1 .. Frames + 1
           /\ IsInjective(firstFree')
           /\ \A f \in Frame : InUse(f)' = InUse(f) + (IF f = Top THEN 1 ELSE 0)
           /\ \A p \in Proc : pd[p] # Top /\ hand[p] # Top
           /\ \A p \in Proc, t \in Table : pt[p][t] # Top
           /\ \A p \in Proc, va \in Pages : page[p][va] # Top
<1>0. firstFree \in Seq(Frame) /\ avail \in 1 .. Frames + 1 /\ IsInjective(firstFree) /\ Frames \in Nat
  BY MemoryAssumption DEF FramesOnce, TypeOK
<1>1. ASSUME NEW f \in Frame
      PROVE  /\ Elsewhere(f) = InUse(f) /\ Elsewhere(f) \in Nat /\ InList(f) \in {0, 1}
             /\ Elsewhere(f) = 0 => InDirectories(f) = 0 /\ InTables(f) = 0 /\ InPages(f) = 0 /\ InHands(f) = 0
  <2>1. Elsewhere(f) = InUse(f) BY Balance
  <2>2. /\ InDirectories(f) \in Nat /\ InTables(f) \in Nat /\ InPages(f) \in Nat
        /\ InHands(f) \in Nat /\ InList(f) \in {0, 1}
    BY CountsAreNumbers DEF CountTypes
  <2>3. /\ Elsewhere(f) \in Nat
        /\ Elsewhere(f) = 0 => InDirectories(f) = 0 /\ InTables(f) = 0 /\ InPages(f) = 0 /\ InHands(f) = 0
    BY <2>2 DEF Elsewhere
  <2> QED BY <2>1, <2>2, <2>3
<1>2. /\ Top \in Frame /\ firstFree' \in Seq(Frame) /\ avail' \in 1 .. Frames + 1
      /\ IsInjective(firstFree')
      /\ \A f \in Frame : InUse(f)' = InUse(f) + (IF f = Top THEN 1 ELSE 0)
      /\ InUse(Top) = 0
  <2>1. CASE firstFree # <<>>
    <3>1. /\ firstFree' = Tail(firstFree) /\ avail' = avail /\ Top = Head(firstFree)
      BY <2>1 DEF Alloc, Top
    <3>2. /\ Tail(firstFree) \in Seq(Frame) /\ Head(firstFree) \in Frame
          /\ Range(firstFree) = Range(Tail(firstFree)) \cup {Head(firstFree)}
          /\ IsInjective(Tail(firstFree)) /\ Head(firstFree) \notin Range(Tail(firstFree))
      BY <2>1, <1>0, TailFacts
    <3>3. \A f \in Frame : InUse(f)' = InUse(f) + (IF f = Top THEN 1 ELSE 0)
      BY <3>1, <3>2, <1>0 DEF InUse, InList
    <3>4. InList(Top) = 1 /\ Top \in Frame BY <3>1, <3>2 DEF InList
    <3>5. InUse(Top) = 0 BY <3>4, <1>1 DEF InUse
    <3> QED BY <3>1, <3>2, <3>3, <3>5, <1>0
  <2>2. CASE firstFree = <<>>
    <3>1. /\ firstFree' = firstFree /\ avail' = avail + 1 /\ Top = avail /\ avail <= Frames
      BY <2>2, <1>0 DEF Alloc, Top, NoFrame
    <3>2. Range(firstFree) = {} BY <2>2, EmptyFacts
    <3>3. \A f \in Frame : InUse(f)' = InUse(f) + (IF f = Top THEN 1 ELSE 0)
      BY <3>1, <3>2, <1>0 DEF InUse, InList, Frame
    <3>4. InUse(Top) = 0 BY <3>1, <3>2, <1>0 DEF InUse, InList
    <3>5. Top \in Frame /\ avail' \in 1 .. Frames + 1 BY <3>1, <1>0 DEF Frame
    <3> QED BY <3>1, <3>3, <3>4, <3>5, <1>0
  <2> QED BY <2>1, <2>2
<1>3. InDirectories(Top) = 0 /\ InTables(Top) = 0 /\ InPages(Top) = 0 /\ InHands(Top) = 0
  BY <1>1, <1>2
<1> QED BY <1>2, <1>3, PlacesCounted

\* free takes a frame that is not in the list.
LEMMA FreeStep ==
    ASSUME FramesOnce, NEW f \in Frame, f \notin Range(firstFree), f < avail, Free(f)
    PROVE  /\ firstFree' \in Seq(Frame) /\ avail' = avail /\ IsInjective(firstFree')
           /\ \A g \in Frame : InUse(g)' = InUse(g) - (IF g = f THEN 1 ELSE 0)
<1>0. firstFree \in Seq(Frame) /\ IsInjective(firstFree) BY DEF FramesOnce, TypeOK
<1>1. PICK s : s \in Seq(Frame) /\ s = <<f>> /\ Range(s) = {f} /\ IsInjective(s) BY SingleFacts
<1>2. firstFree' = s \o firstFree /\ avail' = avail BY <1>1 DEF Free
<1>3. /\ firstFree' \in Seq(Frame) /\ Range(firstFree') = {f} \cup Range(firstFree)
      /\ IsInjective(firstFree')
  <2>1. Range(s) \cap Range(firstFree) = {} BY <1>1
  <2>2. IsInjective(s) /\ s \in Seq(Frame) BY <1>1
  <2>3. /\ s \o firstFree \in Seq(Frame) /\ Range(s \o firstFree) = Range(s) \cup Range(firstFree)
        /\ IsInjective(s \o firstFree)
    BY <1>0, <2>1, <2>2, ConcatFacts
  <2> QED BY <1>1, <1>2, <2>3
<1>4. \A g \in Frame : InUse(g)' = InUse(g) - (IF g = f THEN 1 ELSE 0)
  BY <1>2, <1>3 DEF InUse, InList
<1> QED BY <1>2, <1>3, <1>4

-----------------------------------------------------------------------------
(***************************************************************************)
(* Steps that move no frame.                                               *)
(***************************************************************************)

LEMMA FramesKept ==
    ASSUME IInv, TypeOK', UNCHANGED <<firstFree, avail, pd, pt, page, hand>>
    PROVE  FramesOnce' /\ TablesBuilt'
<1>1. \A f \in Frame : Uses(f)' = Uses(f)
  BY DEF Uses, InList, InDirectories, InTables, InPages, InHands
<1>2. FramesOnce' BY <1>1 DEF IInv, FramesOnce
<1> QED BY <1>2 DEF IInv, TablesBuilt

\* What a step does that is none of the calls of fork leaves those as they are.
LEMMA ForksKept ==
    ASSUME IInv,
           \A q \in Proc : pc'[q] \in Forking => pc'[q] = pc[q] /\ child'[q] = child[q] /\ at'[q] = at[q],
           \A c \in Proc : status[c] = "forming" =>
                status'[c] = "forming" /\ pd'[c] = pd[c] /\ pt'[c] = pt[c] /\ page'[c] = page[c],
           \A q \in Proc, va \in Pages : status[q] = "forming" \/ pc[q] \in Forking =>
                Seen(q, va)' = Seen(q, va)
    PROVE  ForksExact'
<1> SUFFICES ASSUME NEW q \in Proc, NEW c \in Proc, pc'[q] \in Forking, child'[q] = c
             PROVE  /\ status'[c] = "forming"
                    /\ \A r \in Proc : pc'[r] \in Forking /\ child'[r] = c => r = q
                    /\ pc'[q] = "directory" <=> pd'[c] = 0
                    /\ pc'[q] \in {"directory", "identity"} => pt'[c] = NoTables /\ page'[c] = NoPages
                    /\ pc'[q] \in {"fork", "copy"} =>
                          \A va \in Pages : IF va < at'[q] THEN Seen(c, va)' = Seen(q, va)'
                                            ELSE page'[c][va] = 0
  BY DEF ForksExact, NoTables, NoPages
<1>1. /\ pc'[q] = pc[q] /\ child[q] = c /\ at'[q] = at[q] /\ status[c] = "forming"
      /\ \A r \in Proc : pc[r] \in Forking /\ child[r] = c => r = q
      /\ pc[q] = "directory" <=> pd[c] = 0
      /\ pc[q] \in {"directory", "identity"} => pt[c] = NoTables /\ page[c] = NoPages
      /\ pc[q] \in {"fork", "copy"} =>
            \A va \in Pages : IF va < at[q] THEN Seen(c, va) = Seen(q, va) ELSE page[c][va] = 0
  BY DEF IInv, ForksExact
<1>2. \A va \in Pages : Seen(c, va)' = Seen(c, va) /\ Seen(q, va)' = Seen(q, va) BY <1>1
<1>3. \A r \in Proc : pc'[r] \in Forking /\ child'[r] = c => r = q BY <1>1
<1> QED BY <1>1, <1>2, <1>3

\* A page that is written is seen by the process whose it is.
LEMMA WriteStep ==
    ASSUME IInv, NEW p \in Proc, NEW va \in Pages, NEW v \in Value, Write(p, va, v)
    PROVE  /\ IInv'
           /\ Seen(p, va)' = v
           /\ \A q \in Proc, vb \in Pages : q # p \/ vb # va => Seen(q, vb)' = Seen(q, vb)
<1>0. TypeOK /\ FramesOnce /\ HandsExact /\ CallsExact /\ LivesExact /\ ForksExact BY DEF IInv, FramesOnce
<1>1. /\ status[p] = "live" /\ pc[p] = "idle" /\ page[p][va] # 0
      /\ content' = [content EXCEPT ![page[p][va]] = v]
      /\ UNCHANGED <<firstFree, avail, pd, pt, page, status, pc, at, hand, child, panicked>>
  BY DEF Write, At, frames
<1>2. /\ page[p][va] \in Frame
      /\ \A q \in Proc, vb \in Pages : page[q][vb] = page[p][va] => q = p /\ vb = va
  BY <1>0, <1>1, PageFacts
<1>3. TypeOK' BY <1>0, <1>1 DEF TypeOK
<1>4. Seen(p, va)' = v BY <1>0, <1>1, <1>2 DEF Seen, TypeOK
<1>5. \A q \in Proc, vb \in Pages : q # p \/ vb # va => Seen(q, vb)' = Seen(q, vb)
  BY <1>0, <1>1, <1>2 DEF Seen, TypeOK, Frame
<1>6. \A q \in Proc : status[q] = "forming" \/ pc[q] \in Forking => q # p BY <1>1 DEF Forking
<1>7. ForksExact' BY <1>1, <1>5, <1>6, ForksKept
<1>8. HandsExact' /\ CallsExact' /\ LivesExact' BY <1>0, <1>1 DEF HandsExact, CallsExact, LivesExact, NoPages, NoTables
<1> QED BY <1>1, <1>3, <1>4, <1>5, <1>7, <1>8, FramesKept DEF IInv

\* A page fault begins, execv begins, a process exits, or alloc panics.
LEMMA BeginStep ==
    ASSUME IInv, NEW p \in Proc,
           (\E va \in Pages : PageFault(p, va)) \/ Exec(p) \/ Exit(p) \/ OutOfFrames(p)
    PROVE  /\ IInv'
           /\ \A q \in Proc, vb \in Pages : Seen(q, vb)' = Seen(q, vb)
<1>0. TypeOK /\ FramesOnce /\ HandsExact /\ CallsExact /\ LivesExact /\ ForksExact BY DEF IInv, FramesOnce
<1>1. /\ UNCHANGED <<firstFree, avail, pd, pt, page, content, hand, child>>
      /\ \/ /\ status[p] = "live" /\ pc[p] = "idle"
            /\ UNCHANGED status
            /\ \/ \E va \in Pages : /\ page[p][va] = 0 /\ pc' = [pc EXCEPT ![p] = "fault"]
                                    /\ at' = [at EXCEPT ![p] = va]
               \/ pc' = [pc EXCEPT ![p] = "exec"] /\ at' = at
         \/ /\ status[p] = "live" /\ pc[p] = "idle"
            /\ status' = [status EXCEPT ![p] = "dead"] /\ UNCHANGED <<pc, at>>
         \/ UNCHANGED <<status, pc, at>>
      /\ panicked' \in BOOLEAN
  BY <1>0 DEF PageFault, Exec, Exit, OutOfFrames, At, Goto, frames, TypeOK
<1>2. \A q \in Proc, vb \in Pages : Seen(q, vb)' = Seen(q, vb) BY <1>1 DEF Seen
<1>3. TypeOK'
  <2>1. at' \in [Proc -> 0 .. Tables * PerTable]
    <3>1. \A va \in Pages : va \in 0 .. Tables * PerTable BY MemoryAssumption DEF Pages
    <3>2. at' = at \/ \E va \in 0 .. Tables * PerTable : at' = [at EXCEPT ![p] = va] BY <1>1, <3>1
    <3> QED BY <3>2, <1>0 DEF TypeOK
  <2>2. pc' \in [Proc -> {"idle", "fault", "map", "directory", "identity", "fork", "copy", "exec"}]
    BY <1>0, <1>1 DEF TypeOK
  <2>3. status' \in [Proc -> {"none", "forming", "live", "dead"}] BY <1>0, <1>1 DEF TypeOK
  <2> QED BY <2>1, <2>2, <2>3, <1>0, <1>1 DEF TypeOK
<1>4. ForksExact'
  <2>1. \A q \in Proc : pc'[q] \in Forking => pc'[q] = pc[q] /\ child'[q] = child[q] /\ at'[q] = at[q]
    BY <1>0, <1>1 DEF TypeOK, Forking
  <2>2. \A c \in Proc : status[c] = "forming" => status'[c] = "forming" BY <1>0, <1>1 DEF TypeOK
  <2> QED BY <2>1, <2>2, <1>1, <1>2, ForksKept
<1>5. HandsExact' BY <1>0, <1>1 DEF HandsExact, TypeOK
<1>6. CallsExact' BY <1>0, <1>1 DEF CallsExact, TypeOK
<1>7. LivesExact' BY <1>0, <1>1 DEF LivesExact, TypeOK, NoPages, NoTables
<1> QED BY <1>1, <1>2, <1>3, <1>4, <1>5, <1>6, <1>7, FramesKept DEF IInv

\* A child gets its process, and becomes one when it has its pages.
LEMMA ForkStep ==
    ASSUME IInv, NEW p \in Proc, NEW c \in Proc, Fork(p, c)
    PROVE  /\ IInv'
           /\ \A q \in Proc, vb \in Pages : Seen(q, vb)' = Seen(q, vb)
<1>0. TypeOK /\ FramesOnce /\ HandsExact /\ CallsExact /\ LivesExact /\ ForksExact BY DEF IInv, FramesOnce
<1>1. /\ status[p] = "live" /\ pc[p] = "idle" /\ status[c] = "none" /\ c # p
      /\ status' = [status EXCEPT ![c] = "forming"]
      /\ child' = [child EXCEPT ![p] = c]
      /\ pc' = [pc EXCEPT ![p] = "directory"]
      /\ UNCHANGED <<firstFree, avail, pd, pt, page, content, at, hand, panicked>>
  BY DEF Fork, At, Goto, frames
<1>2. \A q \in Proc, vb \in Pages : Seen(q, vb)' = Seen(q, vb) BY <1>1 DEF Seen
<1>3. TypeOK' BY <1>0, <1>1 DEF TypeOK
<1>4. /\ pc'[p] = "directory" /\ child'[p] = c /\ status'[c] = "forming"
      /\ \A q \in Proc \ {p} : pc'[q] = pc[q] /\ child'[q] = child[q]
      /\ \A q \in Proc \ {c} : status'[q] = status[q]
      /\ \A q \in Proc : child[q] \in Proc
  BY <1>0, <1>1 DEF TypeOK
<1>5. HandsExact' BY <1>0, <1>1, <1>4 DEF HandsExact
<1>6. CallsExact'
  <2>1. pc[c] = "idle" BY <1>0, <1>1 DEF CallsExact
  <2> QED BY <2>1, <1>0, <1>1, <1>4 DEF CallsExact
<1>7. LivesExact' BY <1>0, <1>1, <1>4 DEF LivesExact, NoPages, NoTables
<1>8. ForksExact'
  <2>1. \A r \in Proc \ {p} : pc[r] \in Forking => child[r] # c BY <1>0, <1>1 DEF ForksExact
  <2> SUFFICES ASSUME NEW q \in Proc, NEW d \in Proc, pc'[q] \in Forking, child'[q] = d
               PROVE  /\ status'[d] = "forming"
                      /\ \A r \in Proc : pc'[r] \in Forking /\ child'[r] = d => r = q
                      /\ pc'[q] = "directory" <=> pd[d] = 0
                      /\ pc'[q] \in {"directory", "identity"} => pt[d] = NoTables /\ page[d] = NoPages
                      /\ pc'[q] \in {"fork", "copy"} =>
                            \A va \in Pages : IF va < at[q] THEN Seen(d, va)' = Seen(q, va)'
                                              ELSE page[d][va] = 0
    BY <1>1 DEF ForksExact, NoTables, NoPages
  <2>2. CASE q = p
    <3>1. pd[c] = 0 /\ pt[c] = NoTables /\ page[c] = NoPages BY <1>0, <1>1 DEF LivesExact
    <3> QED BY <2>1, <2>2, <3>1, <1>4
  <2>3. CASE q # p
    <3>1. pc[q] \in Forking /\ pc'[q] = pc[q] /\ child[q] = d /\ d # c
      BY <2>1, <2>3, <1>4
    <3>2. /\ status[d] = "forming"
          /\ \A r \in Proc : pc[r] \in Forking /\ child[r] = d => r = q
          /\ pc[q] = "directory" <=> pd[d] = 0
          /\ pc[q] \in {"directory", "identity"} => pt[d] = NoTables /\ page[d] = NoPages
          /\ pc[q] \in {"fork", "copy"} =>
               \A va \in Pages : IF va < at[q] THEN Seen(d, va) = Seen(q, va) ELSE page[d][va] = 0
      BY <3>1, <1>0 DEF ForksExact
    <3>3. \A r \in Proc : pc'[r] \in Forking /\ child'[r] = d => r = q BY <3>1, <3>2, <1>4
    <3> QED BY <3>1, <3>2, <3>3, <1>2, <1>4
  <2> QED BY <2>2, <2>3
<1> QED BY <1>1, <1>2, <1>3, <1>5, <1>6, <1>7, <1>8, FramesKept DEF IInv

LEMMA ForkedStep ==
    ASSUME IInv, NEW p \in Proc, Forked(p)
    PROVE  /\ IInv'
           /\ \A q \in Proc, vb \in Pages : Seen(q, vb)' = Seen(q, vb)
           /\ child[p] \in Proc /\ status[child[p]] = "forming" /\ status[p] = "live"
           /\ \A vb \in Pages : Seen(child[p], vb) = Seen(p, vb)
<1>0. TypeOK /\ FramesOnce /\ HandsExact /\ CallsExact /\ LivesExact /\ ForksExact BY DEF IInv, FramesOnce
<1>a. PICK c \in Proc : c = child[p] BY <1>0 DEF TypeOK
<1>1. /\ status[p] = "live" /\ pc[p] = "fork" /\ at[p] \notin Pages
      /\ status' = [status EXCEPT ![c] = "live"]
      /\ child' = [child EXCEPT ![p] = p] /\ at' = [at EXCEPT ![p] = 0]
      /\ pc' = [pc EXCEPT ![p] = "idle"]
      /\ UNCHANGED <<firstFree, avail, pd, pt, page, content, hand, panicked>>
  BY <1>a DEF Forked, At, Goto, frames
<1>2. \A q \in Proc, vb \in Pages : Seen(q, vb)' = Seen(q, vb) BY <1>1 DEF Seen
<1>3. TypeOK'
  <2>1. 0 \in 0 .. Tables * PerTable BY MemoryAssumption
  <2> QED BY <2>1, <1>0, <1>1 DEF TypeOK
<1>4. /\ status[c] = "forming" /\ pd[c] # 0 /\ c # p
      /\ \A r \in Proc : pc[r] \in Forking /\ child[r] = c => r = p
      /\ \A va \in Pages : IF va < at[p] THEN Seen(c, va) = Seen(p, va) ELSE page[c][va] = 0
  BY <1>0, <1>1, <1>a DEF ForksExact, Forking
<1>5. \A va \in Pages : Seen(c, va) = Seen(p, va)
  <2>1. \A va \in Pages : va < at[p]
    BY <1>0, <1>1, MemoryAssumption DEF TypeOK, Pages
  <2> QED BY <2>1, <1>4
<1>6. /\ pc'[p] = "idle" /\ status'[c] = "live"
      /\ \A q \in Proc \ {p} : pc'[q] = pc[q] /\ child'[q] = child[q] /\ at'[q] = at[q]
      /\ \A q \in Proc \ {c} : status'[q] = status[q]
      /\ \A q \in Proc : child[q] \in Proc
  BY <1>0, <1>1 DEF TypeOK
<1>7. HandsExact' BY <1>0, <1>1, <1>6 DEF HandsExact
<1>8. CallsExact'
  <2>1. pc[c] = "idle" BY <1>0, <1>4 DEF CallsExact
  <2> QED BY <2>1, <1>0, <1>1, <1>6 DEF CallsExact
<1>9. LivesExact' BY <1>0, <1>1, <1>4, <1>6 DEF LivesExact, NoPages, NoTables
<1>10. ForksExact'
  <2> SUFFICES ASSUME NEW q \in Proc, NEW d \in Proc, pc'[q] \in Forking, child'[q] = d
               PROVE  /\ status'[d] = "forming"
                      /\ \A r \in Proc : pc'[r] \in Forking /\ child'[r] = d => r = q
                      /\ pc'[q] = "directory" <=> pd[d] = 0
                      /\ pc'[q] \in {"directory", "identity"} => pt[d] = NoTables /\ page[d] = NoPages
                      /\ pc'[q] \in {"fork", "copy"} =>
                            \A va \in Pages : IF va < at'[q] THEN Seen(d, va)' = Seen(q, va)'
                                              ELSE page[d][va] = 0
    BY <1>1 DEF ForksExact, NoTables, NoPages
  <2>1. q # p /\ pc'[q] = pc[q] /\ child[q] = d /\ at'[q] = at[q] /\ d # c
    BY <1>4, <1>6 DEF Forking
  <2>2. /\ status[d] = "forming"
        /\ \A r \in Proc : pc[r] \in Forking /\ child[r] = d => r = q
        /\ pc[q] = "directory" <=> pd[d] = 0
        /\ pc[q] \in {"directory", "identity"} => pt[d] = NoTables /\ page[d] = NoPages
        /\ pc[q] \in {"fork", "copy"} =>
             \A va \in Pages : IF va < at[q] THEN Seen(d, va) = Seen(q, va) ELSE page[d][va] = 0
    BY <2>1, <1>0 DEF ForksExact
  <2>3. \A r \in Proc : pc'[r] \in Forking /\ child'[r] = d => r = q
    BY <2>1, <2>2, <1>6 DEF Forking
  <2> QED BY <2>1, <2>2, <2>3, <1>2, <1>6
<1> QED BY <1>a, <1>1, <1>2, <1>3, <1>4, <1>5, <1>7, <1>8, <1>9, <1>10, FramesKept DEF IInv

-----------------------------------------------------------------------------
(***************************************************************************)
(* alloc.                                                                  *)
(***************************************************************************)

\* How often a frame is somewhere changes as it should.
LEMMA FramesMoved ==
    ASSUME FramesOnce, TypeOK', IsInjective(firstFree'),
           \A f \in Frame : \E d, e \in Int :
              Elsewhere(f)' = Elsewhere(f) + d /\ InUse(f)' = InUse(f) + e /\ d = e
    PROVE  FramesOnce'
<1>1. \A f \in Frame : Elsewhere(f) = InUse(f) BY Balance
<1>2. \A f \in Frame : Elsewhere(f)' = InUse(f)' BY <1>1
<1>3. (FramesOnce <=> TypeOK /\ IsInjective(firstFree) /\ \A f \in Frame : Elsewhere(f) = InUse(f))'
  BY Balance, PTL
<1> QED BY <1>2, <1>3

\* The new frame is in the hands of p.
LEMMA HandAlloc ==
    ASSUME IInv, TypeOK', NEW p \in Proc, hand[p] = 0, Alloc, hand' = [hand EXCEPT ![p] = Top],
           UNCHANGED <<pd, pt, page>>
    PROVE  FramesOnce' /\ TablesBuilt'
<1>0. FramesOnce /\ TypeOK BY DEF IInv, FramesOnce
<1>1. PICK t \in Frame : t = Top BY <1>0, AllocStep
<1>2. IsInjective(firstFree') /\ \A f \in Frame : InUse(f)' = InUse(f) + (IF f = t THEN 1 ELSE 0)
  BY <1>0, <1>1, AllocStep
<1>3. \A f : InHands(f)' = InHands(f) + (IF t = f THEN 1 ELSE 0) - (IF hand[p] = f THEN 1 ELSE 0)
  <2>1. hand'[p] = t /\ \A q \in Proc \ {p} : hand'[q] = hand[q] BY <1>0, <1>1 DEF TypeOK
  <2>2. \A f : InHands(f)' = InHands(f) + (IF hand'[p] = f THEN 1 ELSE 0) - (IF hand[p] = f THEN 1 ELSE 0)
    BY <2>1, HandStep
  <2> QED BY <2>1, <2>2
<1>4. \A f : InDirectories(f)' = InDirectories(f) /\ InTables(f)' = InTables(f) /\ InPages(f)' = InPages(f)
  BY DEF InDirectories, InTables, InPages
<1>5. ASSUME NEW f \in Frame
      PROVE  \E d, e \in Int : Elsewhere(f)' = Elsewhere(f) + d /\ InUse(f)' = InUse(f) + e /\ d = e
  <2>1. /\ InDirectories(f) \in Nat /\ InTables(f) \in Nat /\ InPages(f) \in Nat /\ InHands(f) \in Nat
    BY CountsAreNumbers DEF CountTypes
  <2>2. f # 0 BY DEF Frame
  <2>3. Elsewhere(f)' = Elsewhere(f) + (IF f = t THEN 1 ELSE 0)
    BY <2>1, <2>2, <1>3, <1>4 DEF Elsewhere
  <2> QED BY <2>3, <1>2
<1> QED BY <1>0, <1>2, <1>5, FramesMoved DEF IInv, TablesBuilt

LEMMA FaultAllocStep ==
    ASSUME IInv, NEW p \in Proc, FaultAlloc(p)
    PROVE  /\ IInv'
           /\ \A q \in Proc, vb \in Pages : Seen(q, vb)' = Seen(q, vb)
<1>0. TypeOK /\ FramesOnce /\ HandsExact /\ CallsExact /\ LivesExact /\ ForksExact BY DEF IInv, FramesOnce
<1>1. /\ status[p] = "live" /\ pc[p] = "fault" /\ Alloc
      /\ hand' = [hand EXCEPT ![p] = Top]
      /\ pc' = [pc EXCEPT ![p] = "map"]
      /\ UNCHANGED <<pd, pt, page, content, status, at, child, panicked>>
  BY DEF FaultAlloc, At, Goto
<1>2. \A q \in Proc, vb \in Pages : Seen(q, vb)' = Seen(q, vb) BY <1>1 DEF Seen
<1>3. PICK t \in Frame : /\ t = Top /\ firstFree' \in Seq(Frame) /\ avail' \in 1 .. Frames + 1
  BY <1>0, <1>1, AllocStep
<1>4. t # 0 /\ t \in 0 .. Frames BY DEF Frame
<1>5. TypeOK' BY <1>0, <1>1, <1>3, <1>4 DEF TypeOK
<1>6. hand[p] = 0 BY <1>0, <1>1 DEF HandsExact
<1>7. FramesOnce' /\ TablesBuilt' BY <1>1, <1>5, <1>6, HandAlloc
<1>8. HandsExact' BY <1>0, <1>1, <1>3, <1>4 DEF HandsExact, TypeOK
<1>9. CallsExact' BY <1>0, <1>1 DEF CallsExact, TypeOK
<1>10. LivesExact' BY <1>0, <1>1 DEF LivesExact, NoPages, NoTables
<1>11. ForksExact'
  <2>1. \A q \in Proc : pc'[q] \in Forking => pc'[q] = pc[q] BY <1>0, <1>1 DEF TypeOK, Forking
  <2> QED BY <2>1, <1>1, <1>2, ForksKept
<1> QED BY <1>2, <1>7, <1>8, <1>9, <1>10, <1>11 DEF IInv

\* What fork does to its own child, and leaves to the other ones.
LEMMA ForkGoesOn ==
    ASSUME IInv, NEW p \in Proc, NEW c \in Proc, pc[p] \in Forking, child[p] = c, pc'[p] \in Forking,
           \A q \in Proc \ {p} : pc'[q] = pc[q] /\ at'[q] = at[q],
           status' = status, child' = child,
           \A q \in Proc \ {c} : pd'[q] = pd[q] /\ pt'[q] = pt[q] /\ page'[q] = page[q],
           \A q \in Proc \ {c}, va \in Pages : Seen(q, va)' = Seen(q, va),
           pc'[p] = "directory" <=> pd'[c] = 0,
           pc'[p] \in {"directory", "identity"} => pt'[c] = NoTables /\ page'[c] = NoPages,
           pc'[p] \in {"fork", "copy"} =>
              \A va \in Pages : IF va < at'[p] THEN Seen(c, va)' = Seen(p, va) ELSE page'[c][va] = 0
    PROVE  ForksExact'
<1>0. ForksExact /\ CallsExact BY DEF IInv
<1>1. /\ status[c] = "forming" /\ status[p] = "live" /\ c # p
      /\ \A r \in Proc : pc[r] \in Forking /\ child[r] = c => r = p
  BY <1>0 DEF ForksExact, CallsExact, Forking
<1>2. \A va \in Pages : Seen(p, va)' = Seen(p, va) BY <1>1
<1> SUFFICES ASSUME NEW q \in Proc, NEW d \in Proc, pc'[q] \in Forking, child[q] = d
             PROVE  /\ status[d] = "forming"
                    /\ \A r \in Proc : pc'[r] \in Forking /\ child[r] = d => r = q
                    /\ pc'[q] = "directory" <=> pd'[d] = 0
                    /\ pc'[q] \in {"directory", "identity"} => pt'[d] = NoTables /\ page'[d] = NoPages
                    /\ pc'[q] \in {"fork", "copy"} =>
                          \A va \in Pages : IF va < at'[q] THEN Seen(d, va)' = Seen(q, va)'
                                            ELSE page'[d][va] = 0
  BY DEF ForksExact, NoTables, NoPages
<1>3. \A r \in Proc : pc'[r] \in Forking => pc[r] \in Forking OBVIOUS
<1>4. CASE q = p BY <1>1, <1>2, <1>3, <1>4
<1>5. CASE q # p
  <2>1. pc'[q] = pc[q] /\ at'[q] = at[q] /\ d # c BY <1>1, <1>5
  <2>2. /\ status[d] = "forming"
        /\ \A r \in Proc : pc[r] \in Forking /\ child[r] = d => r = q
        /\ pc[q] = "directory" <=> pd[d] = 0
        /\ pc[q] \in {"directory", "identity"} => pt[d] = NoTables /\ page[d] = NoPages
        /\ pc[q] \in {"fork", "copy"} =>
             \A va \in Pages : IF va < at[q] THEN Seen(d, va) = Seen(q, va) ELSE page[d][va] = 0
    BY <2>1, <1>0 DEF ForksExact
  <2>3. q # c BY <2>1, <1>0, <1>1 DEF CallsExact, Forking
  <2> QED BY <2>1, <2>2, <2>3, <1>3
<1> QED BY <1>4, <1>5

LEMMA ForkAllocStep ==
    ASSUME IInv, NEW p \in Proc, ForkAlloc(p)
    PROVE  /\ IInv'
           /\ \A q \in Proc, vb \in Pages : Seen(q, vb)' = Seen(q, vb)
<1>0. TypeOK /\ FramesOnce /\ HandsExact /\ CallsExact /\ LivesExact /\ ForksExact BY DEF IInv, FramesOnce
<1>a. PICK c \in Proc, n \in Pages : c = child[p] /\ n = at[p] BY <1>0 DEF TypeOK, ForkAlloc
<1>1. /\ status[p] = "live" /\ pc[p] = "fork"
      /\ UNCHANGED <<pd, pt, page, content, status, child, panicked>>
  BY DEF ForkAlloc, At
<1>2. \A q \in Proc, vb \in Pages : Seen(q, vb)' = Seen(q, vb) BY <1>1 DEF Seen
<1>3. /\ pd[c] # 0 /\ \A va \in Pages : IF va < n THEN Seen(c, va) = Seen(p, va) ELSE page[c][va] = 0
  BY <1>0, <1>1, <1>a DEF ForksExact, Forking
<1>4. CASE page[p][n] = 0
  <2>1. /\ at' = [at EXCEPT ![p] = n + 1] /\ UNCHANGED <<firstFree, avail, hand, pc>>
    BY <1>4, <1>a DEF ForkAlloc, frames
  <2>2. n \in Nat /\ n + 1 \in 0 .. Tables * PerTable BY MemoryAssumption DEF Pages
  <2>3. TypeOK' BY <1>0, <1>1, <2>1, <2>2 DEF TypeOK
  <2>4. FramesOnce' /\ TablesBuilt' BY <1>1, <2>1, <2>3, FramesKept
  <2>5. HandsExact' /\ LivesExact' BY <1>0, <1>1, <2>1 DEF HandsExact, LivesExact, NoPages, NoTables
  <2>6. CallsExact' BY <1>0, <1>1, <2>1 DEF CallsExact, TypeOK
  <2>7. ForksExact'
    <3>1. /\ at'[p] = n + 1 /\ \A q \in Proc \ {p} : at'[q] = at[q] BY <1>0, <2>1 DEF TypeOK
    <3>2. ASSUME NEW va \in Pages
          PROVE  IF va < n + 1 THEN Seen(c, va)' = Seen(p, va) ELSE page'[c][va] = 0
      <4>1. va \in Nat BY TableFacts
      <4>2. CASE va = n
        <5>1. page[c][n] = 0 BY <2>2, <1>3
        <5>2. Seen(c, n) = Zero /\ Seen(p, n) = Zero BY <5>1, <1>4 DEF Seen
        <5> QED BY <5>2, <4>2, <2>2, <1>2
      <4>3. CASE va # n BY <4>1, <4>3, <2>2, <1>1, <1>2, <1>3
      <4> QED BY <4>2, <4>3
    <3> QED BY <3>1, <3>2, <2>1, <1>1, <1>2, <1>3, <1>a, ForkGoesOn DEF Forking
  <2> QED BY <1>2, <2>4, <2>5, <2>6, <2>7 DEF IInv
<1>5. CASE page[p][n] # 0
  <2>1. /\ Alloc /\ hand' = [hand EXCEPT ![p] = Top] /\ pc' = [pc EXCEPT ![p] = "copy"] /\ at' = at
    BY <1>5, <1>a DEF ForkAlloc, Goto
  <2>2. PICK t \in Frame : /\ t = Top /\ firstFree' \in Seq(Frame) /\ avail' \in 1 .. Frames + 1
    BY <1>0, <2>1, AllocStep
  <2>3. t # 0 /\ t \in 0 .. Frames BY DEF Frame
  <2>4. TypeOK' BY <1>0, <1>1, <2>1, <2>2, <2>3 DEF TypeOK
  <2>5. hand[p] = 0 BY <1>0, <1>1 DEF HandsExact
  <2>6. FramesOnce' /\ TablesBuilt' BY <1>1, <2>1, <2>4, <2>5, HandAlloc
  <2>7. HandsExact' BY <1>0, <1>1, <2>1, <2>2, <2>3 DEF HandsExact, TypeOK
  <2>8. CallsExact' BY <1>0, <1>1, <1>5, <1>a, <2>1 DEF CallsExact, TypeOK
  <2>9. LivesExact' BY <1>0, <1>1 DEF LivesExact, NoPages, NoTables
  <2>10. ForksExact'
    <3>1. pc'[p] = "copy" /\ \A q \in Proc \ {p} : pc'[q] = pc[q] BY <1>0, <2>1 DEF TypeOK
    <3> QED BY <3>1, <2>1, <1>1, <1>2, <1>3, <1>a, ForkGoesOn DEF Forking
  <2> QED BY <1>2, <2>6, <2>7, <2>8, <2>9, <2>10 DEF IInv
<1> QED BY <1>4, <1>5

\* The constructor of the child's address space.
LEMMA ConstructStep ==
    ASSUME IInv, NEW p \in Proc, NewDirectory(p) \/ NewIdentity(p)
    PROVE  /\ IInv'
           /\ \A q \in Proc, vb \in Pages : Seen(q, vb)' = Seen(q, vb)
<1>0. TypeOK /\ FramesOnce /\ HandsExact /\ CallsExact /\ LivesExact /\ ForksExact BY DEF IInv, FramesOnce
<1>a. PICK c \in Proc : c = child[p] BY <1>0 DEF TypeOK
<1>b. Alloc BY DEF NewDirectory, NewIdentity
<1>c. PICK t \in Frame : /\ t = Top /\ firstFree' \in Seq(Frame) /\ avail' \in 1 .. Frames + 1
                         /\ IsInjective(firstFree')
                         /\ \A f \in Frame : InUse(f)' = InUse(f) + (IF f = t THEN 1 ELSE 0)
                         /\ \A q \in Proc, va \in Pages : page[q][va] # t
  BY <1>0, <1>b, AllocStep
<1>1. /\ status[p] = "live" /\ pc[p] \in {"directory", "identity"}
      /\ UNCHANGED <<page, status, hand, child, panicked>>
      /\ content' = [content EXCEPT ![t] = Zero]
      /\ \/ /\ pc[p] = "directory" /\ pc' = [pc EXCEPT ![p] = "identity"]
            /\ pd' = [pd EXCEPT ![c] = t] /\ UNCHANGED <<pt, at>>
         \/ /\ pc[p] = "identity" /\ pc' = [pc EXCEPT ![p] = "fork"]
            /\ pt' = [pt EXCEPT ![c][0] = t] /\ UNCHANGED pd
            /\ at' = [at EXCEPT ![p] = 0]
  BY <1>a, <1>c DEF NewDirectory, NewIdentity, At, Goto
<1>2. /\ pc[p] = "directory" <=> pd[c] = 0
      /\ pt[c] = NoTables /\ page[c] = NoPages /\ status[c] = "forming" /\ c # p
  BY <1>0, <1>1, <1>a DEF ForksExact, Forking, CallsExact
<1>3. t # 0 /\ t \in 0 .. Frames /\ 0 \in Table BY TableFacts DEF Frame
<1>4. \A q \in Proc, vb \in Pages : Seen(q, vb)' = Seen(q, vb)
  <2>1. \A q \in Proc, vb \in Pages : page[q][vb] # 0 => page[q][vb] \in Frame /\ page[q][vb] # t
    BY <1>0, <1>c, PageFacts
  <2> QED BY <2>1, <1>0, <1>1 DEF Seen, TypeOK
<1>5. TypeOK'
  <2>1. content' \in [Frame -> Value \cup {Zero, Link}] BY <1>0, <1>1 DEF TypeOK
  <2>2. at' \in [Proc -> 0 .. Tables * PerTable]
    <3>1. at' = at \/ at' = [at EXCEPT ![p] = 0] BY <1>1
    <3>2. 0 \in 0 .. Tables * PerTable BY MemoryAssumption
    <3> QED BY <3>1, <3>2, <1>0 DEF TypeOK
  <2>3. pd' \in [Proc -> 0 .. Frames] BY <1>0, <1>1, <1>3 DEF TypeOK
  <2>4. pt' \in [Proc -> [Table -> 0 .. Frames]]
    <3>1. pt' = pt \/ pt' = [pt EXCEPT ![c][0] = t] BY <1>1
    <3>2. [pt[c] EXCEPT ![0] = t] \in [Table -> 0 .. Frames] BY <1>0, <1>3 DEF TypeOK
    <3>3. CASE pt' = [pt EXCEPT ![c] = [pt[c] EXCEPT ![0] = t]] BY <3>2, <3>3, <1>0 DEF TypeOK
    <3>4. CASE pt' = pt BY <3>4, <1>0 DEF TypeOK
    <3> QED BY <3>1, <3>3, <3>4
  <2>5. pc' \in [Proc -> {"idle", "fault", "map", "directory", "identity", "fork", "copy", "exec"}]
    BY <1>0, <1>1 DEF TypeOK
  <2> QED BY <2>1, <2>2, <2>3, <2>4, <2>5, <1>0, <1>1, <1>c DEF TypeOK
<1>6. FramesOnce'
  <2>1. ASSUME NEW f \in Frame
        PROVE  \E d, e \in Int : Elsewhere(f)' = Elsewhere(f) + d /\ InUse(f)' = InUse(f) + e /\ d = e
    <3>1. /\ InDirectories(f) \in Nat /\ InTables(f) \in Nat /\ InPages(f) \in Nat /\ InHands(f) \in Nat
      BY CountsAreNumbers DEF CountTypes
    <3>2. f # 0 BY DEF Frame
    <3>3. InHands(f)' = InHands(f) /\ InPages(f)' = InPages(f) BY <1>1 DEF InHands, InPages
    <3>4. Elsewhere(f)' = Elsewhere(f) + (IF f = t THEN 1 ELSE 0)
      <4>1. CASE pc[p] = "directory"
        <5>1. /\ pd'[c] = t /\ pd[c] = 0 /\ pt' = pt
              /\ \A q \in Proc \ {c} : pd'[q] = pd[q]
          BY <4>1, <1>0, <1>1, <1>2 DEF TypeOK
        <5>2. \A x : InDirectories(x)' = InDirectories(x) + (IF pd'[c] = x THEN 1 ELSE 0)
                                                         - (IF pd[c] = x THEN 1 ELSE 0)
          BY <5>1, DirectoryStep
        <5>3. InTables(f)' = InTables(f) BY <5>1 DEF InTables
        <5> QED BY <5>1, <5>2, <5>3, <3>1, <3>2, <3>3 DEF Elsewhere
      <4>2. CASE pc[p] = "identity"
        <5>1. /\ pt'[c][0] = t /\ pt[c][0] = 0 /\ pd' = pd
              /\ \A q \in Proc, u \in Table : q # c \/ u # 0 => pt'[q][u] = pt[q][u]
          BY <4>2, <1>0, <1>1, <1>2, <1>3 DEF NoTables, TypeOK
        <5>2. \A x : InTables(x)' = InTables(x) + (IF pt'[c][0] = x THEN 1 ELSE 0)
                                               - (IF pt[c][0] = x THEN 1 ELSE 0)
          <6>1. 0 \in Table BY <1>3
          <6> QED BY <5>1, <6>1, TableStep
        <5>3. InDirectories(f)' = InDirectories(f) BY <5>1 DEF InDirectories
        <5> QED BY <5>1, <5>2, <5>3, <3>1, <3>2, <3>3 DEF Elsewhere
      <4> QED BY <4>1, <4>2, <1>1
    <3> QED BY <3>4, <1>c
  <2> QED BY <2>1, <1>0, <1>5, <1>c, FramesMoved
<1>7. /\ pc'[p] \in {"identity", "fork"} /\ (pc'[p] = "fork" => at'[p] = 0)
      /\ (pc'[p] = "identity" => pt'[c] = NoTables)
      /\ pd'[c] # 0
      /\ \A q \in Proc \ {p} : pc'[q] = pc[q] /\ at'[q] = at[q]
      /\ \A q \in Proc \ {c} : pd'[q] = pd[q] /\ pt'[q] = pt[q]
  BY <1>0, <1>1, <1>2, <1>3 DEF TypeOK
<1>8. HandsExact' BY <1>0, <1>1, <1>7 DEF HandsExact
<1>9. CallsExact' BY <1>0, <1>1, <1>7 DEF CallsExact
<1>10. LivesExact' BY <1>0, <1>1, <1>2, <1>7 DEF LivesExact, NoPages, NoTables
<1>11. TablesBuilt'
  <2>1. \A va \in Pages : page[c][va] = 0 BY <1>2 DEF NoPages
  <2> QED BY <2>1, <1>1, <1>7 DEF IInv, TablesBuilt, TableOf
<1>12. ForksExact'
  <2>1. ASSUME NEW va \in Pages, pc'[p] = "fork"
        PROVE  IF va < at'[p] THEN Seen(c, va)' = Seen(p, va) ELSE page'[c][va] = 0
    BY <2>1, <1>1, <1>2, <1>7, TableFacts DEF NoPages
  <2> QED BY <2>1, <1>1, <1>2, <1>4, <1>7, <1>a, ForkGoesOn DEF Forking
<1> QED BY <1>4, <1>6, <1>8, <1>9, <1>10, <1>11, <1>12 DEF IInv

-----------------------------------------------------------------------------
(***************************************************************************)
(* pmap.                                                                   *)
(***************************************************************************)

\* The frame in the hands of p becomes a page of q, in a table that there was
\* or in a new one; new says which frame that is.
LEMMA MapStep ==
    ASSUME IInv, NEW p \in Proc, NEW q \in Proc, NEW va \in Pages, NEW f \in Frame,
           hand[p] = f, page[q][va] = 0, Mapped(q, va, f),
           hand' = [hand EXCEPT ![p] = 0], pd' = pd
    PROVE  /\ TypeOK' => FramesOnce'
           /\ firstFree' \in Seq(Frame) /\ avail' \in 1 .. Frames + 1
           /\ TablesBuilt'
<1>0. TypeOK /\ FramesOnce /\ TablesBuilt BY DEF IInv, FramesOnce
<1>1. page' = [page EXCEPT ![q][va] = f] BY DEF Mapped
<1>2. PICK t \in Table : t = TableOf(va) BY TableFacts
<1>3. \A g : /\ InDirectories(g) \in Nat /\ InTables(g) \in Nat /\ InPages(g) \in Nat /\ InHands(g) \in Nat
             /\ InDirectories(g)' = InDirectories(g)
             /\ InPages(g)' = InPages(g) + (IF f = g THEN 1 ELSE 0) - (IF page[q][va] = g THEN 1 ELSE 0)
             /\ InHands(g)' = InHands(g) + (IF 0 = g THEN 1 ELSE 0) - (IF hand[p] = g THEN 1 ELSE 0)
  <2> TAKE g
  <2>1. InDirectories(g) \in Nat /\ InTables(g) \in Nat /\ InPages(g) \in Nat /\ InHands(g) \in Nat
    BY CountsAreNumbers DEF CountTypes
  <2>2. InDirectories(g)' = InDirectories(g) BY DEF InDirectories
  <2>3. InPages(g)' = InPages(g) + (IF f = g THEN 1 ELSE 0) - (IF page[q][va] = g THEN 1 ELSE 0)
    <3>1. /\ page'[q][va] = f
          /\ \A r \in Proc, vb \in Pages : r # q \/ vb # va => page'[r][vb] = page[r][vb]
      BY <1>0, <1>1 DEF TypeOK
    <3>2. \A x : InPages(x)' = InPages(x) + (IF page'[q][va] = x THEN 1 ELSE 0)
                                          - (IF page[q][va] = x THEN 1 ELSE 0)
      BY <3>1, PageStep
    <3> QED BY <3>1, <3>2
  <2>4. InHands(g)' = InHands(g) + (IF 0 = g THEN 1 ELSE 0) - (IF hand[p] = g THEN 1 ELSE 0)
    <3>1. hand'[p] = 0 /\ \A r \in Proc \ {p} : hand'[r] = hand[r] BY <1>0 DEF TypeOK
    <3>2. \A x : InHands(x)' = InHands(x) + (IF hand'[p] = x THEN 1 ELSE 0)
                                          - (IF hand[p] = x THEN 1 ELSE 0)
      BY <3>1, HandStep
    <3> QED BY <3>1, <3>2
  <2> QED BY <2>1, <2>2, <2>3, <2>4
<1>4. \A g \in Frame : g # 0 BY DEF Frame
<1>5. CASE pt[q][t] # 0
  <2>1. UNCHANGED <<firstFree, avail, pt>> BY <1>2, <1>5 DEF Mapped, frames
  <2>2. ASSUME NEW g \in Frame
        PROVE  \E d, e \in Int : Elsewhere(g)' = Elsewhere(g) + d /\ InUse(g)' = InUse(g) + e /\ d = e
    <3>1. InTables(g)' = InTables(g) /\ InUse(g)' = InUse(g) BY <2>1 DEF InTables, InUse, InList
    <3>2. Elsewhere(g)' = Elsewhere(g) BY <3>1, <1>3, <1>4 DEF Elsewhere
    <3>3. InUse(g) \in Int /\ Elsewhere(g) \in Int
      BY <1>3, CountsAreNumbers DEF CountTypes, InUse, Elsewhere
    <3> QED BY <3>1, <3>2, <3>3
  <2>3. TypeOK' => FramesOnce' BY <2>1, <2>2, <1>0, FramesMoved DEF FramesOnce
  <2>4. TablesBuilt' BY <2>1, <1>0, <1>1, <1>2, <1>5 DEF TablesBuilt, TableOf, TypeOK
  <2> QED BY <2>1, <2>3, <2>4, <1>0, <1>1, <1>2, <1>5 DEF TypeOK
<1>6. CASE pt[q][t] = 0
  <2>1. Alloc /\ pt' = [pt EXCEPT ![q][t] = Top] BY <1>2, <1>6 DEF Mapped
  <2>2. PICK new \in Frame : /\ new = Top /\ firstFree' \in Seq(Frame) /\ avail' \in 1 .. Frames + 1
                             /\ IsInjective(firstFree')
                             /\ \A g \in Frame : InUse(g)' = InUse(g) + (IF g = new THEN 1 ELSE 0)
                             /\ \A r \in Proc, vb \in Pages : page[r][vb] # new
                             /\ \A r \in Proc : hand[r] # new
    BY <1>0, <2>1, AllocStep
  <2>3. pt' = [pt EXCEPT ![q][t] = new] /\ new # f /\ new # 0 BY <2>1, <2>2, <1>4
  <2>4. ASSUME NEW g \in Frame
        PROVE  \E d, e \in Int : Elsewhere(g)' = Elsewhere(g) + d /\ InUse(g)' = InUse(g) + e /\ d = e
    <3>1. InTables(g)' = InTables(g) + (IF new = g THEN 1 ELSE 0) - (IF pt[q][t] = g THEN 1 ELSE 0)
      <4>1. /\ pt'[q][t] = new
            /\ \A r \in Proc, u \in Table : r # q \/ u # t => pt'[r][u] = pt[r][u]
        BY <2>3, <1>0 DEF TypeOK
      <4>2. \A x : InTables(x)' = InTables(x) + (IF pt'[q][t] = x THEN 1 ELSE 0)
                                             - (IF pt[q][t] = x THEN 1 ELSE 0)
        BY <4>1, TableStep
      <4> QED BY <4>1, <4>2
    <3>2. Elsewhere(g)' = Elsewhere(g) + (IF g = new THEN 1 ELSE 0)
      BY <3>1, <1>3, <1>4, <1>6 DEF Elsewhere
    <3> QED BY <3>2, <2>2
  <2>5. TypeOK' => FramesOnce' BY <2>2, <2>4, <1>0, FramesMoved
  <2>6. TablesBuilt' BY <2>3, <1>0, <1>1, <1>2 DEF TablesBuilt, TableOf, TypeOK
  <2> QED BY <2>2, <2>3, <2>5, <2>6, <1>1, <1>2, <1>6
<1> QED BY <1>5, <1>6

\* The frame that is mapped has the value that it was given.
LEMMA FillStep ==
    ASSUME IInv, NEW p \in Proc, NEW q \in Proc, NEW va \in Pages, NEW f \in Frame,
           NEW v \in Value \cup {Zero, Link},
           hand[p] = f, page[q][va] = 0, Mapped(q, va, f),
           content' = Cleared([content EXCEPT ![f] = v], q, va),
           hand' = [hand EXCEPT ![p] = 0], pd' = pd
    PROVE  /\ TypeOK' => FramesOnce'
           /\ firstFree' \in Seq(Frame) /\ avail' \in 1 .. Frames + 1
           /\ pt' \in [Proc -> [Table -> 0 .. Frames]]
           /\ page' \in [Proc -> [Pages -> 0 .. Frames]]
           /\ content' \in [Frame -> Value \cup {Zero, Link}]
           /\ TablesBuilt'
           /\ Seen(q, va)' = v
           /\ \A r \in Proc, vb \in Pages : r # q \/ vb # va =>
                page'[r][vb] = page[r][vb] /\ Seen(r, vb)' = Seen(r, vb)
           /\ \A r \in Proc \ {q} : pt'[r] = pt[r] /\ page'[r] = page[r]
<1>0. TypeOK /\ FramesOnce BY DEF IInv, FramesOnce
<1>1. /\ TypeOK' => FramesOnce'
      /\ firstFree' \in Seq(Frame) /\ avail' \in 1 .. Frames + 1
      /\ TablesBuilt'
  BY MapStep
<1>2. f # 0 /\ f \in 0 .. Frames BY DEF Frame
<1>3. \A r \in Proc, vb \in Pages : page[r][vb] # f BY <1>0, OtherFacts
<1>4. /\ page' \in [Proc -> [Pages -> 0 .. Frames]]
      /\ page'[q][va] = f
      /\ \A r \in Proc, vb \in Pages : r # q \/ vb # va => page'[r][vb] = page[r][vb]
      /\ \A r \in Proc \ {q} : page'[r] = page[r]
  <2>1. [page[q] EXCEPT ![va] = f] \in [Pages -> 0 .. Frames] BY <1>0, <1>2 DEF TypeOK
  <2>2. page' = [page EXCEPT ![q] = [page[q] EXCEPT ![va] = f]] BY DEF Mapped
  <2> QED BY <2>1, <2>2, <1>0 DEF TypeOK
<1>5. /\ pt' \in [Proc -> [Table -> 0 .. Frames]]
      /\ content' \in [Frame -> Value \cup {Zero, Link}]
      /\ content'[f] = v
      /\ \A g \in Frame : (\E r \in Proc, vb \in Pages : page[r][vb] = g) => content'[g] = content[g]
      /\ \A r \in Proc \ {q} : pt'[r] = pt[r]
  <2>1. CASE pt[q][TableOf(va)] # 0
    <3>1. content' = [content EXCEPT ![f] = v] /\ pt' = pt BY <2>1 DEF Cleared, Mapped
    <3> QED BY <3>1, <1>0, <1>3 DEF TypeOK
  <2>2. CASE pt[q][TableOf(va)] = 0
    <3>1. Alloc /\ pt' = [pt EXCEPT ![q][TableOf(va)] = Top] BY <2>2 DEF Mapped
    <3>2. PICK new \in Frame : /\ new = Top /\ new # f
                               /\ \A r \in Proc, vb \in Pages : page[r][vb] # new
      BY <1>0, <3>1, AllocStep
    <3>3. PICK t \in Table : t = TableOf(va) BY TableFacts
    <3>4. new \in 0 .. Frames BY DEF Frame
    <3>5. [pt[q] EXCEPT ![t] = new] \in [Table -> 0 .. Frames] BY <1>0, <3>4 DEF TypeOK
    <3>6. pt' = [pt EXCEPT ![q] = [pt[q] EXCEPT ![t] = new]] BY <3>1, <3>2, <3>3
    <3>7. pt' \in [Proc -> [Table -> 0 .. Frames]] BY <3>5, <3>6, <1>0 DEF TypeOK
    <3>8. \A r \in Proc \ {q} : pt'[r] = pt[r] BY <3>6, <1>0 DEF TypeOK
    <3>9. content' = [[content EXCEPT ![f] = v] EXCEPT ![new] = Zero] BY <2>2, <3>2 DEF Cleared
    <3>10. content \in [Frame -> Value \cup {Zero, Link}] /\ new # f BY <1>0, <3>2 DEF TypeOK
    <3>11. content' \in [Frame -> Value \cup {Zero, Link}] BY <3>9, <3>10
    <3>12. content'[f] = v BY <3>9, <3>10
    <3>13. \A g \in Frame : g # f /\ g # new => content'[g] = content[g] BY <3>9, <3>10
    <3>14. \A g \in Frame : (\E r \in Proc, vb \in Pages : page[r][vb] = g) => content'[g] = content[g]
      BY <3>2, <3>13, <1>3
    <3> QED BY <3>7, <3>8, <3>11, <3>12, <3>14
  <2> QED BY <2>1, <2>2
<1>6. Seen(q, va)' = v BY <1>2, <1>4, <1>5 DEF Seen
<1>7. \A r \in Proc, vb \in Pages : r # q \/ vb # va => Seen(r, vb)' = Seen(r, vb)
  <2>1. \A r \in Proc, vb \in Pages : page[r][vb] # 0 => page[r][vb] \in Frame
    BY <1>0 DEF TypeOK, Frame
  <2> QED BY <2>1, <1>4, <1>5 DEF Seen
<1> QED BY <1>1, <1>4, <1>5, <1>6, <1>7

LEMMA FaultMapStep ==
    ASSUME IInv, NEW p \in Proc, FaultMap(p)
    PROVE  /\ IInv'
           /\ \A q \in Proc, vb \in Pages : Seen(q, vb)' = Seen(q, vb)
<1>0. TypeOK /\ FramesOnce /\ HandsExact /\ CallsExact /\ LivesExact /\ ForksExact BY DEF IInv, FramesOnce
<1>a. PICK n \in Pages, f \in Frame : n = at[p] /\ f = hand[p] /\ page[p][n] = 0
  BY <1>0 DEF FaultMap, At, CallsExact, HandsExact, TypeOK, Frame
<1>1. /\ status[p] = "live" /\ pc[p] = "map" /\ Mapped(p, n, f)
      /\ hand' = [hand EXCEPT ![p] = 0] /\ at' = [at EXCEPT ![p] = 0] /\ pc' = [pc EXCEPT ![p] = "idle"]
      /\ UNCHANGED <<pd, status, child, panicked>>
  BY <1>a DEF FaultMap, At, Goto
<1>2. content' = Cleared([content EXCEPT ![f] = Zero], p, n) BY <1>a DEF FaultMap
<1>3. /\ TypeOK' => FramesOnce'
      /\ firstFree' \in Seq(Frame) /\ avail' \in 1 .. Frames + 1
      /\ pt' \in [Proc -> [Table -> 0 .. Frames]]
      /\ page' \in [Proc -> [Pages -> 0 .. Frames]]
      /\ content' \in [Frame -> Value \cup {Zero, Link}]
      /\ TablesBuilt'
      /\ Seen(p, n)' = Zero
      /\ \A r \in Proc, vb \in Pages : r # p \/ vb # n =>
           page'[r][vb] = page[r][vb] /\ Seen(r, vb)' = Seen(r, vb)
      /\ \A r \in Proc \ {p} : pt'[r] = pt[r] /\ page'[r] = page[r]
  <2>1. Zero \in Value \cup {Zero, Link} /\ hand[p] = f /\ page[p][n] = 0 BY <1>a
  <2>2. hand' = [hand EXCEPT ![p] = 0] /\ pd' = pd /\ Mapped(p, n, f) BY <1>1
  <2> QED BY <2>1, <2>2, <1>2, FillStep
<1>4. \A q \in Proc, vb \in Pages : Seen(q, vb)' = Seen(q, vb)
  <2>1. Seen(p, n) = Zero BY <1>a DEF Seen
  <2> QED BY <2>1, <1>3
<1>5. 0 \in 0 .. Tables * PerTable /\ 0 \in 0 .. Frames BY MemoryAssumption
<1>6. TypeOK' BY <1>0, <1>1, <1>3, <1>5 DEF TypeOK
<1>7. /\ pc'[p] = "idle" /\ hand'[p] = 0
      /\ \A q \in Proc \ {p} : pc'[q] = pc[q] /\ at'[q] = at[q] /\ hand'[q] = hand[q]
  BY <1>0, <1>1 DEF TypeOK
<1>8. HandsExact' BY <1>0, <1>7 DEF HandsExact
<1>9. CallsExact' BY <1>0, <1>1, <1>3, <1>7 DEF CallsExact
<1>10. LivesExact' BY <1>0, <1>1, <1>3 DEF LivesExact, NoPages, NoTables
<1>11. ForksExact'
  <2>1. \A q \in Proc : pc'[q] \in Forking => pc'[q] = pc[q] /\ child'[q] = child[q] /\ at'[q] = at[q]
    BY <1>1, <1>7 DEF Forking
  <2>2. \A c \in Proc : status[c] = "forming" =>
          status'[c] = "forming" /\ pd'[c] = pd[c] /\ pt'[c] = pt[c] /\ page'[c] = page[c]
    BY <1>1, <1>3
  <2> QED BY <2>1, <2>2, <1>4, ForksKept
<1> QED BY <1>3, <1>4, <1>6, <1>8, <1>9, <1>10, <1>11 DEF IInv

\* The page of the child is like the parent's.
LEMMA ForkCopyStep ==
    ASSUME IInv, NEW p \in Proc, ForkCopy(p)
    PROVE  /\ IInv'
           /\ child[p] \in Proc /\ status[child[p]] = "forming"
           /\ \A q \in Proc \ {child[p]}, vb \in Pages : Seen(q, vb)' = Seen(q, vb)
<1>0. TypeOK /\ FramesOnce /\ HandsExact /\ CallsExact /\ LivesExact /\ ForksExact BY DEF IInv, FramesOnce
<1>1. status[p] = "live" /\ pc[p] = "copy" BY DEF ForkCopy, At
<1>a. PICK c \in Proc, n \in Pages, f \in Frame :
        c = child[p] /\ n = at[p] /\ f = hand[p] /\ page[p][n] # 0
  BY <1>0, <1>1 DEF CallsExact, HandsExact, TypeOK, Frame
<1>b. PICK v \in Value \cup {Zero, Link} : v = content[page[p][n]]
  BY <1>0, <1>a DEF TypeOK, Frame
<1>2. /\ Mapped(c, n, f) /\ content' = Cleared([content EXCEPT ![f] = v], c, n)
      /\ hand' = [hand EXCEPT ![p] = 0] /\ at' = [at EXCEPT ![p] = n + 1]
      /\ pc' = [pc EXCEPT ![p] = "fork"]
      /\ UNCHANGED <<pd, status, child, panicked>>
  BY <1>a, <1>b DEF ForkCopy, Goto
<1>3. /\ status[c] = "forming" /\ pd[c] # 0 /\ c # p
      /\ \A va \in Pages : IF va < n THEN Seen(c, va) = Seen(p, va) ELSE page[c][va] = 0
  BY <1>0, <1>1, <1>a DEF ForksExact, Forking
<1>4. n \in Nat /\ n + 1 \in 0 .. Tables * PerTable BY MemoryAssumption DEF Pages
<1>5. /\ TypeOK' => FramesOnce'
      /\ firstFree' \in Seq(Frame) /\ avail' \in 1 .. Frames + 1
      /\ pt' \in [Proc -> [Table -> 0 .. Frames]]
      /\ page' \in [Proc -> [Pages -> 0 .. Frames]]
      /\ content' \in [Frame -> Value \cup {Zero, Link}]
      /\ TablesBuilt'
      /\ Seen(c, n)' = v
      /\ \A r \in Proc, vb \in Pages : r # c \/ vb # n =>
           page'[r][vb] = page[r][vb] /\ Seen(r, vb)' = Seen(r, vb)
      /\ \A r \in Proc \ {c} : pt'[r] = pt[r] /\ page'[r] = page[r]
  <2>1. hand[p] = f /\ page[c][n] = 0 BY <1>a, <1>3, <1>4
  <2>2. /\ hand' = [hand EXCEPT ![p] = 0] /\ pd' = pd /\ Mapped(c, n, f)
    BY <1>2
  <2>3. content' = Cleared([content EXCEPT ![f] = v], c, n) BY <1>2
  <2> QED BY <2>1, <2>2, <2>3, FillStep
<1>6. \A q \in Proc \ {c}, vb \in Pages : Seen(q, vb)' = Seen(q, vb) BY <1>5
<1>7. v = Seen(p, n) BY <1>a, <1>b DEF Seen
<1>8. TypeOK'
  <2>1. at' \in [Proc -> 0 .. Tables * PerTable] BY <1>0, <1>2, <1>4 DEF TypeOK
  <2>2. hand' \in [Proc -> 0 .. Frames]
    <3>1. 0 \in 0 .. Frames BY MemoryAssumption
    <3> QED BY <3>1, <1>0, <1>2 DEF TypeOK
  <2> QED BY <2>1, <2>2, <1>0, <1>2, <1>5 DEF TypeOK
<1>9. /\ pc'[p] = "fork" /\ hand'[p] = 0 /\ at'[p] = n + 1
      /\ \A q \in Proc \ {p} : pc'[q] = pc[q] /\ at'[q] = at[q] /\ hand'[q] = hand[q]
  BY <1>0, <1>2 DEF TypeOK
<1>10. HandsExact' BY <1>0, <1>9 DEF HandsExact
<1>11. CallsExact'
  <2>1. pc[c] = "idle" BY <1>0, <1>3 DEF CallsExact
  <2> QED BY <2>1, <1>0, <1>1, <1>2, <1>3, <1>5, <1>9 DEF CallsExact
<1>12. LivesExact' BY <1>0, <1>2, <1>3, <1>5 DEF LivesExact, NoPages, NoTables
<1>13. ForksExact'
  <2>1. ASSUME NEW va \in Pages
        PROVE  IF va < n + 1 THEN Seen(c, va)' = Seen(p, va) ELSE page'[c][va] = 0
    <3>1. va \in Nat BY TableFacts
    <3>2. CASE va = n BY <3>2, <1>4, <1>5, <1>7
    <3>3. CASE va # n
      <4>1. page'[c][va] = page[c][va] /\ Seen(c, va)' = Seen(c, va) BY <3>3, <1>5
      <4> QED BY <4>1, <3>1, <3>3, <1>3, <1>4
    <3> QED BY <3>2, <3>3
  <2>2. /\ pc[p] \in Forking /\ child[p] = c /\ pc'[p] \in Forking
        /\ status' = status /\ child' = child
        /\ pc'[p] = "directory" <=> pd'[c] = 0
    BY <1>1, <1>2, <1>3, <1>9, <1>a DEF Forking
  <2>3. \A q \in Proc \ {c} : pd'[q] = pd[q] /\ pt'[q] = pt[q] /\ page'[q] = page[q] BY <1>2, <1>5
  <2>4. \A q \in Proc \ {p} : pc'[q] = pc[q] /\ at'[q] = at[q] BY <1>9
  <2>5. pc'[p] \in {"fork", "copy"} =>
          \A va \in Pages : IF va < at'[p] THEN Seen(c, va)' = Seen(p, va) ELSE page'[c][va] = 0
    BY <2>1, <1>9
  <2>6. pc'[p] \notin {"directory", "identity"} BY <1>9
  <2> QED BY <2>2, <2>3, <2>4, <2>5, <2>6, <1>6, ForkGoesOn
<1> QED BY <1>a, <1>3, <1>5, <1>6, <1>8, <1>10, <1>11, <1>12, <1>13 DEF IInv

-----------------------------------------------------------------------------
(***************************************************************************)
(* free: execv and the destructor.                                         *)
(***************************************************************************)

\* A frame that is no page any more.
LEMMA FreeFrame ==
    ASSUME FramesOnce, NEW f \in Frame, f \notin Range(firstFree), f < avail, Free(f),
           \A g \in Frame : Elsewhere(g)' = Elsewhere(g) - (IF g = f THEN 1 ELSE 0)
    PROVE  /\ firstFree' \in Seq(Frame) /\ avail' = avail
           /\ TypeOK' => FramesOnce'
<1>1. /\ firstFree' \in Seq(Frame) /\ avail' = avail /\ IsInjective(firstFree')
      /\ \A g \in Frame : InUse(g)' = InUse(g) - (IF g = f THEN 1 ELSE 0)
  BY FreeStep
<1>2. ASSUME NEW g \in Frame
      PROVE  \E d, e \in Int : Elsewhere(g)' = Elsewhere(g) + d /\ InUse(g)' = InUse(g) + e /\ d = e
  <2>1. Elsewhere(g) \in Int /\ InUse(g) \in Int
    BY CountsAreNumbers DEF CountTypes, Elsewhere, InUse
  <2>2. CASE g = f
    <3>1. Elsewhere(g)' = Elsewhere(g) + (-1) /\ InUse(g)' = InUse(g) + (-1) BY <1>1, <2>1, <2>2
    <3> QED BY <3>1
  <2>3. CASE g # f
    <3>1. Elsewhere(g)' = Elsewhere(g) + 0 /\ InUse(g)' = InUse(g) + 0 BY <1>1, <2>1, <2>3
    <3> QED BY <3>1
  <2> QED BY <2>2, <2>3
<1>3. TypeOK' => FramesOnce' BY <1>1, <1>2, FramesMoved
<1> QED BY <1>1, <1>3

LEMMA FreePageStep ==
    ASSUME IInv, NEW p \in Proc, NEW va \in Pages, page[p][va] # 0, FreePage(p, va),
           UNCHANGED <<pd, pt, hand>>
    PROVE  /\ TypeOK' => FramesOnce'
           /\ firstFree' \in Seq(Frame) /\ avail' = avail
           /\ page' \in [Proc -> [Pages -> 0 .. Frames]]
           /\ content' \in [Frame -> Value \cup {Zero, Link}]
           /\ TablesBuilt'
           /\ Seen(p, va)' = Zero
           /\ \A r \in Proc, vb \in Pages : r # p \/ vb # va => Seen(r, vb)' = Seen(r, vb)
           /\ \A r \in Proc \ {p} : page'[r] = page[r]
<1>0. TypeOK /\ FramesOnce /\ TablesBuilt BY DEF IInv, FramesOnce
<1>1. PICK f \in Frame : f = page[p][va] BY <1>0, PageFacts
<1>2. /\ f \notin Range(firstFree) /\ f < avail
      /\ \A q \in Proc, vb \in Pages : page[q][vb] = f => q = p /\ vb = va
  BY <1>0, <1>1, PageFacts
<1>3. /\ page' = [page EXCEPT ![p] = [page[p] EXCEPT ![va] = 0]]
      /\ Free(f) /\ content' = [content EXCEPT ![f] = Link]
  BY <1>1 DEF FreePage
<1>4. /\ page' \in [Proc -> [Pages -> 0 .. Frames]]
      /\ page'[p][va] = 0
      /\ \A r \in Proc, vb \in Pages : r # p \/ vb # va => page'[r][vb] = page[r][vb]
      /\ \A r \in Proc \ {p} : page'[r] = page[r]
  <2>1. 0 \in 0 .. Frames BY MemoryAssumption
  <2>2. [page[p] EXCEPT ![va] = 0] \in [Pages -> 0 .. Frames] BY <1>0, <2>1 DEF TypeOK
  <2> QED BY <2>2, <1>0, <1>3 DEF TypeOK
<1>5. ASSUME NEW g \in Frame PROVE Elsewhere(g)' = Elsewhere(g) - (IF g = f THEN 1 ELSE 0)
  <2>1. \A x : InPages(x)' = InPages(x) + (IF page'[p][va] = x THEN 1 ELSE 0)
                                        - (IF page[p][va] = x THEN 1 ELSE 0)
    BY <1>4, PageStep
  <2>2. /\ InDirectories(g)' = InDirectories(g) /\ InTables(g)' = InTables(g) /\ InHands(g)' = InHands(g)
    BY DEF InDirectories, InTables, InHands
  <2>3. InDirectories(g) \in Nat /\ InTables(g) \in Nat /\ InPages(g) \in Nat /\ InHands(g) \in Nat
    BY CountsAreNumbers DEF CountTypes
  <2>4. g # 0 BY DEF Frame
  <2> QED BY <2>1, <2>2, <2>3, <2>4, <1>1, <1>4 DEF Elsewhere
<1>6. /\ firstFree' \in Seq(Frame) /\ avail' = avail
      /\ TypeOK' => FramesOnce'
  BY <1>0, <1>2, <1>3, <1>5, FreeFrame
<1>7. content' \in [Frame -> Value \cup {Zero, Link}] BY <1>0, <1>3 DEF TypeOK
<1>8. TablesBuilt' BY <1>0, <1>4 DEF TablesBuilt, TableOf
<1>9. Seen(p, va)' = Zero BY <1>4 DEF Seen
<1>10. \A r \in Proc, vb \in Pages : r # p \/ vb # va => Seen(r, vb)' = Seen(r, vb)
  <2>1. \A g \in Frame : g # f => content'[g] = content[g] BY <1>0, <1>3 DEF TypeOK
  <2>2. \A r \in Proc, vb \in Pages : page[r][vb] # 0 => page[r][vb] \in Frame
    BY <1>0 DEF TypeOK, Frame
  <2> QED BY <2>1, <2>2, <1>2, <1>4 DEF Seen
<1> QED BY <1>4, <1>6, <1>7, <1>8, <1>9, <1>10

LEMMA ExecPageStep ==
    ASSUME IInv, NEW p \in Proc, ExecPage(p)
    PROVE  /\ IInv'
           /\ \/ \A q \in Proc, vb \in Pages : Seen(q, vb)' = Seen(q, vb)
              \/ \E va \in Pages :
                    /\ Seen(p, va)' = Zero
                    /\ \A q \in Proc, vb \in Pages : q # p \/ vb # va => Seen(q, vb)' = Seen(q, vb)
<1>0. TypeOK /\ FramesOnce /\ HandsExact /\ CallsExact /\ LivesExact /\ ForksExact BY DEF IInv, FramesOnce
<1>1. status[p] = "live" /\ pc[p] = "exec" /\ UNCHANGED <<pd, pt, status, at, hand, child, panicked>>
  BY DEF ExecPage, At
<1>2. CASE Present(p) = {}
  <2>1. pc' = [pc EXCEPT ![p] = "idle"] /\ UNCHANGED <<firstFree, avail, page, content>>
    BY <1>2 DEF ExecPage, Goto, frames
  <2>2. TypeOK' BY <1>0, <1>1, <2>1 DEF TypeOK
  <2>3. \A q \in Proc, vb \in Pages : Seen(q, vb)' = Seen(q, vb) BY <2>1 DEF Seen
  <2>4. FramesOnce' /\ TablesBuilt' BY <1>1, <2>1, <2>2, FramesKept
  <2>5. HandsExact' BY <1>0, <1>1, <2>1 DEF HandsExact, TypeOK
  <2>6. CallsExact' BY <1>0, <1>1, <2>1 DEF CallsExact, TypeOK
  <2>7. LivesExact' BY <1>0, <1>1, <2>1 DEF LivesExact, NoPages, NoTables
  <2>8. ForksExact'
    <3>1. \A q \in Proc : pc'[q] \in Forking => pc'[q] = pc[q] BY <1>0, <2>1 DEF TypeOK, Forking
    <3> QED BY <3>1, <1>1, <2>1, <2>3, ForksKept
  <2> QED BY <2>3, <2>4, <2>5, <2>6, <2>7, <2>8 DEF IInv
<1>3. CASE Present(p) # {}
  <2>1. Present(p) \in SUBSET Nat /\ Min(Present(p)) \in Present(p)
    BY <1>3, TableFacts, MinFacts DEF Present
  <2>2. PICK va \in Pages : va = Min(Present(p)) /\ page[p][va] # 0 BY <2>1 DEF Present
  <2>3. FreePage(p, va) /\ UNCHANGED pc BY <1>3, <2>2 DEF ExecPage
  <2>4. /\ TypeOK' => FramesOnce'
        /\ firstFree' \in Seq(Frame) /\ avail' = avail
        /\ page' \in [Proc -> [Pages -> 0 .. Frames]]
        /\ content' \in [Frame -> Value \cup {Zero, Link}]
        /\ TablesBuilt'
        /\ Seen(p, va)' = Zero
        /\ \A r \in Proc, vb \in Pages : r # p \/ vb # va => Seen(r, vb)' = Seen(r, vb)
        /\ \A r \in Proc \ {p} : page'[r] = page[r]
    <3>1. page[p][va] # 0 /\ FreePage(p, va) BY <2>2, <2>3
    <3>2. UNCHANGED <<pd, pt, hand>> BY <1>1
    <3> QED BY <3>1, <3>2, FreePageStep
  <2>5. TypeOK' BY <1>0, <1>1, <2>3, <2>4 DEF TypeOK
  <2>6. HandsExact' BY <1>0, <1>1, <2>3 DEF HandsExact
  <2>7. CallsExact' BY <1>0, <1>1, <2>3, <2>4 DEF CallsExact
  <2>8. LivesExact' BY <1>0, <1>1, <2>4 DEF LivesExact, NoPages, NoTables
  <2>9. ForksExact'
    <3>1. \A c \in Proc : status[c] = "forming" => page'[c] = page[c] BY <1>1, <2>4
    <3>2. \A q \in Proc, vb \in Pages : status[q] = "forming" \/ pc[q] \in Forking =>
            Seen(q, vb)' = Seen(q, vb)
      BY <1>1, <2>4 DEF Forking
    <3> QED BY <3>1, <3>2, <1>1, <2>3, ForksKept
  <2> QED BY <2>4, <2>5, <2>6, <2>7, <2>8, <2>9 DEF IInv
<1> QED BY <1>2, <1>3

\* What the destructor does to p disturbs no call: p makes none.
LEMMA DestroyKeeps ==
    ASSUME IInv, NEW p \in Proc, status[p] = "dead", UNCHANGED <<pc, at, hand, child>>,
           \A q \in Proc \ {p} : /\ status'[q] = status[q] /\ pd'[q] = pd[q]
                                 /\ pt'[q] = pt[q] /\ page'[q] = page[q],
           \A q \in Proc \ {p}, vb \in Pages : Seen(q, vb)' = Seen(q, vb)
    PROVE  HandsExact' /\ CallsExact' /\ ForksExact'
<1>0. HandsExact /\ CallsExact BY DEF IInv
<1>1. pc[p] = "idle" BY <1>0 DEF CallsExact
<1>2. HandsExact' BY <1>0 DEF HandsExact
<1>3. CallsExact' BY <1>0, <1>1 DEF CallsExact
<1>4. ForksExact'
  <2>1. \A c \in Proc : status[c] = "forming" =>
          status'[c] = "forming" /\ pd'[c] = pd[c] /\ pt'[c] = pt[c] /\ page'[c] = page[c]
    OBVIOUS
  <2>2. \A q \in Proc, vb \in Pages : status[q] = "forming" \/ pc[q] \in Forking =>
          Seen(q, vb)' = Seen(q, vb)
    BY <1>1 DEF Forking
  <2>3. \A q \in Proc : pc'[q] \in Forking => pc'[q] = pc[q] /\ child'[q] = child[q] /\ at'[q] = at[q]
    OBVIOUS
  <2> QED BY <2>1, <2>2, <2>3, ForksKept
<1> QED BY <1>2, <1>3, <1>4

LEMMA DestroyPageStep ==
    ASSUME IInv, NEW p \in Proc, DestroyPage(p)
    PROVE  IInv' /\ \A q \in Proc \ {p}, vb \in Pages : Seen(q, vb)' = Seen(q, vb)
<1>0. TypeOK /\ LivesExact BY DEF IInv, FramesOnce
<1>1. status[p] = "dead" /\ UNCHANGED <<pd, pt, status, pc, at, hand, child, panicked>>
  BY DEF DestroyPage
<1>2. PICK here \in SUBSET Present(p) : here # {} /\ FreePage(p, Min(here))
  <2>1. {va \in Present(p) : TableOf(va) = Min(Built(p))} \in SUBSET Present(p) OBVIOUS
  <2> QED BY <2>1 DEF DestroyPage
<1>3. here \in SUBSET Nat BY TableFacts DEF Present
<1>4. Min(here) \in here BY <1>2, <1>3, MinFacts
<1>5. PICK va \in Pages : va = Min(here) /\ page[p][va] # 0 BY <1>4 DEF Present
<1>6. /\ TypeOK' => FramesOnce'
      /\ firstFree' \in Seq(Frame) /\ avail' = avail
      /\ page' \in [Proc -> [Pages -> 0 .. Frames]]
      /\ content' \in [Frame -> Value \cup {Zero, Link}]
      /\ TablesBuilt'
      /\ \A r \in Proc, vb \in Pages : r # p \/ vb # va => Seen(r, vb)' = Seen(r, vb)
      /\ \A r \in Proc \ {p} : page'[r] = page[r]
  <2>1. page[p][va] # 0 /\ FreePage(p, va) BY <1>2, <1>5
  <2>2. UNCHANGED <<pd, pt, hand>> BY <1>1
  <2> QED BY <2>1, <2>2, FreePageStep
<1>7. TypeOK' BY <1>0, <1>1, <1>6 DEF TypeOK
<1>8. LivesExact' BY <1>0, <1>1, <1>6 DEF LivesExact, NoPages, NoTables
<1>9. \A q \in Proc \ {p}, vb \in Pages : Seen(q, vb)' = Seen(q, vb) BY <1>6
<1>10. HandsExact' /\ CallsExact' /\ ForksExact' BY <1>1, <1>6, <1>9, DestroyKeeps
<1> QED BY <1>6, <1>7, <1>8, <1>9, <1>10 DEF IInv

LEMMA DestroyTableStep ==
    ASSUME IInv, NEW p \in Proc, DestroyTable(p)
    PROVE  IInv' /\ \A q \in Proc, vb \in Pages : Seen(q, vb)' = Seen(q, vb)
<1>0. TypeOK /\ FramesOnce /\ TablesBuilt /\ LivesExact BY DEF IInv, FramesOnce
<1>1. Built(p) \in SUBSET Nat /\ Built(p) # {} BY TableFacts DEF DestroyTable, Built
<1>2. Min(Built(p)) \in Built(p) BY <1>1, MinFacts
<1>3. PICK t \in Table : t = Min(Built(p)) /\ pt[p][t] # 0 BY <1>2 DEF Built
<1>4. PICK f \in Frame : f = pt[p][t] BY <1>0, <1>3 DEF TypeOK, Frame
<1>5. /\ status[p] = "dead" /\ Free(f) /\ content' = [content EXCEPT ![f] = Link]
      /\ pt' = [pt EXCEPT ![p] = [pt[p] EXCEPT ![t] = 0]]
      /\ UNCHANGED <<pd, page, status, pc, at, hand, child, panicked>>
      /\ \A va \in Present(p) : TableOf(va) # t
  BY <1>3, <1>4 DEF DestroyTable
<1>6. f \notin Range(firstFree) /\ f < avail /\ \A q \in Proc, va \in Pages : page[q][va] # f
  BY <1>0, <1>4, OtherFacts
<1>7. /\ pt' \in [Proc -> [Table -> 0 .. Frames]]
      /\ pt'[p][t] = 0
      /\ \A q \in Proc, u \in Table : q # p \/ u # t => pt'[q][u] = pt[q][u]
      /\ \A q \in Proc \ {p} : pt'[q] = pt[q]
  <2>1. 0 \in 0 .. Frames BY MemoryAssumption
  <2>2. [pt[p] EXCEPT ![t] = 0] \in [Table -> 0 .. Frames] BY <1>0, <2>1 DEF TypeOK
  <2> QED BY <2>2, <1>0, <1>5 DEF TypeOK
<1>8. ASSUME NEW g \in Frame PROVE Elsewhere(g)' = Elsewhere(g) - (IF g = f THEN 1 ELSE 0)
  <2>1. \A x : InTables(x)' = InTables(x) + (IF pt'[p][t] = x THEN 1 ELSE 0)
                                          - (IF pt[p][t] = x THEN 1 ELSE 0)
    BY <1>7, TableStep
  <2>2. /\ InDirectories(g)' = InDirectories(g) /\ InPages(g)' = InPages(g) /\ InHands(g)' = InHands(g)
    BY <1>5 DEF InDirectories, InPages, InHands
  <2>3. InDirectories(g) \in Nat /\ InTables(g) \in Nat /\ InPages(g) \in Nat /\ InHands(g) \in Nat
    BY CountsAreNumbers DEF CountTypes
  <2>4. g # 0 BY DEF Frame
  <2> QED BY <2>1, <2>2, <2>3, <2>4, <1>4, <1>7 DEF Elsewhere
<1>9. /\ firstFree' \in Seq(Frame) /\ avail' = avail
      /\ TypeOK' => FramesOnce'
  BY <1>0, <1>5, <1>6, <1>8, FreeFrame
<1>10. content' \in [Frame -> Value \cup {Zero, Link}] BY <1>0, <1>5 DEF TypeOK
<1>11. TypeOK' BY <1>0, <1>5, <1>7, <1>9, <1>10 DEF TypeOK
<1>12. \A q \in Proc, vb \in Pages : Seen(q, vb)' = Seen(q, vb)
  <2>1. \A g \in Frame : g # f => content'[g] = content[g] BY <1>0, <1>5 DEF TypeOK
  <2>2. \A r \in Proc, vb \in Pages : page[r][vb] # 0 => page[r][vb] \in Frame
    BY <1>0 DEF TypeOK, Frame
  <2> QED BY <2>1, <2>2, <1>5, <1>6 DEF Seen
<1>13. TablesBuilt'
  <2>1. \A va \in Pages : page[p][va] # 0 => TableOf(va) # t BY <1>5 DEF Present
  <2> QED BY <2>1, <1>0, <1>5, <1>7, TableFacts DEF TablesBuilt, TableOf
<1>14. LivesExact' BY <1>0, <1>5, <1>7 DEF LivesExact, NoPages, NoTables
<1>15. HandsExact' /\ CallsExact' /\ ForksExact' BY <1>5, <1>7, <1>12, DestroyKeeps
<1> QED BY <1>9, <1>11, <1>12, <1>13, <1>14, <1>15 DEF IInv

\* The directory is the last frame of its process.
LEMMA DestroyDirectoryStep ==
    ASSUME IInv, NEW p \in Proc, DestroyDirectory(p)
    PROVE  IInv' /\ \A q \in Proc, vb \in Pages : Seen(q, vb)' = Seen(q, vb)
<1>0. TypeOK /\ FramesOnce /\ TablesBuilt /\ LivesExact BY DEF IInv, FramesOnce
<1>1. PICK f \in Frame : f = pd[p]
  BY <1>0 DEF DestroyDirectory, LivesExact, TypeOK, Frame
<1>2. /\ status[p] = "dead" /\ Free(f) /\ content' = [content EXCEPT ![f] = Link]
      /\ pd' = [pd EXCEPT ![p] = 0] /\ status' = [status EXCEPT ![p] = "none"]
      /\ UNCHANGED <<pt, page, pc, at, hand, child, panicked>>
      /\ Built(p) = {}
  BY <1>1 DEF DestroyDirectory
<1>3. pt[p] = NoTables BY <1>0, <1>2 DEF Built, NoTables, TypeOK
<1>4. page[p] = NoPages
  <2>1. \A va \in Pages : page[p][va] = 0 BY <1>0, <1>3, TableFacts DEF TablesBuilt, NoTables
  <2> QED BY <2>1, <1>0 DEF NoPages, TypeOK
<1>5. f \notin Range(firstFree) /\ f < avail /\ \A q \in Proc, va \in Pages : page[q][va] # f
  BY <1>0, <1>1, OtherFacts
<1>6. /\ pd'[p] = 0 /\ status'[p] = "none"
      /\ \A q \in Proc \ {p} : pd'[q] = pd[q] /\ status'[q] = status[q]
  BY <1>0, <1>2 DEF TypeOK
<1>7. ASSUME NEW g \in Frame PROVE Elsewhere(g)' = Elsewhere(g) - (IF g = f THEN 1 ELSE 0)
  <2>1. \A x : InDirectories(x)' = InDirectories(x) + (IF pd'[p] = x THEN 1 ELSE 0)
                                                   - (IF pd[p] = x THEN 1 ELSE 0)
    BY <1>6, DirectoryStep
  <2>2. /\ InTables(g)' = InTables(g) /\ InPages(g)' = InPages(g) /\ InHands(g)' = InHands(g)
    BY <1>2 DEF InTables, InPages, InHands
  <2>3. InDirectories(g) \in Nat /\ InTables(g) \in Nat /\ InPages(g) \in Nat /\ InHands(g) \in Nat
    BY CountsAreNumbers DEF CountTypes
  <2>4. g # 0 BY DEF Frame
  <2> QED BY <2>1, <2>2, <2>3, <2>4, <1>1, <1>6 DEF Elsewhere
<1>8. /\ firstFree' \in Seq(Frame) /\ avail' = avail
      /\ TypeOK' => FramesOnce'
  BY <1>0, <1>2, <1>5, <1>7, FreeFrame
<1>9. TypeOK'
  <2>1. 0 \in 0 .. Frames BY MemoryAssumption
  <2>2. pd' \in [Proc -> 0 .. Frames] BY <2>1, <1>0, <1>2 DEF TypeOK
  <2>3. content' \in [Frame -> Value \cup {Zero, Link}] BY <1>0, <1>2 DEF TypeOK
  <2>4. status' \in [Proc -> {"none", "forming", "live", "dead"}] BY <1>0, <1>2 DEF TypeOK
  <2> QED BY <2>2, <2>3, <2>4, <1>0, <1>2, <1>8 DEF TypeOK
<1>10. \A q \in Proc, vb \in Pages : Seen(q, vb)' = Seen(q, vb)
  <2>1. \A g \in Frame : g # f => content'[g] = content[g] BY <1>0, <1>2 DEF TypeOK
  <2>2. \A r \in Proc, vb \in Pages : page[r][vb] # 0 => page[r][vb] \in Frame
    BY <1>0 DEF TypeOK, Frame
  <2> QED BY <2>1, <2>2, <1>2, <1>5 DEF Seen
<1>11. TablesBuilt' BY <1>0, <1>2 DEF TablesBuilt, TableOf
<1>12. LivesExact' BY <1>0, <1>2, <1>3, <1>4, <1>6 DEF LivesExact, NoPages, NoTables
<1>13. HandsExact' /\ CallsExact' /\ ForksExact' BY <1>2, <1>6, <1>10, DestroyKeeps
<1> QED BY <1>8, <1>9, <1>10, <1>11, <1>12, <1>13 DEF IInv

-----------------------------------------------------------------------------

\* At first there are the directory and the identity table of one process.
LEMMA InitIInv == Init => IInv
<1> SUFFICES ASSUME Init PROVE IInv OBVIOUS
<1>0. /\ firstFree = <<>> /\ avail = 3 /\ Boot \in Proc /\ Frames \in Nat /\ Frames >= 2
      /\ pd = [p \in Proc |-> IF p = Boot THEN 1 ELSE 0]
      /\ pt = [p \in Proc |-> IF p = Boot THEN [NoTables EXCEPT ![0] = 2] ELSE NoTables]
      /\ page = [p \in Proc |-> NoPages]
      /\ content = [f \in Frame |-> Zero]
      /\ status = [p \in Proc |-> IF p = Boot THEN "live" ELSE "none"]
      /\ pc = [p \in Proc |-> "idle"]
      /\ at = [p \in Proc |-> 0] /\ hand = [p \in Proc |-> 0] /\ child = [p \in Proc |-> p]
      /\ panicked = FALSE
  BY MemoryAssumption DEF Init
<1>1. TypeOK
  <2>1. firstFree \in Seq(Frame) /\ avail \in 1 .. Frames + 1 BY <1>0
  <2>2. 0 \in 0 .. Frames /\ 1 \in 0 .. Frames /\ 2 \in 0 .. Frames /\ 0 \in 0 .. Tables * PerTable
    BY MemoryAssumption
  <2>3. pd \in [Proc -> 0 .. Frames] /\ hand \in [Proc -> 0 .. Frames] BY <1>0, <2>2
  <2>4. pt \in [Proc -> [Table -> 0 .. Frames]] BY <1>0, <2>2 DEF NoTables
  <2>5. page \in [Proc -> [Pages -> 0 .. Frames]] BY <1>0, <2>2 DEF NoPages
  <2>6. at \in [Proc -> 0 .. Tables * PerTable] BY <1>0, <2>2
  <2> QED BY <2>1, <2>3, <2>4, <2>5, <2>6, <1>0 DEF TypeOK
<1>2. \A t \in Table : NoTables[t] = 0 /\ [NoTables EXCEPT ![0] = 2][t] = (IF t = 0 THEN 2 ELSE 0)
  BY TableFacts DEF NoTables
<1>3. \A va \in Pages : NoPages[va] = 0 BY DEF NoPages
<1>4. FramesOnce
  <2>1. Range(firstFree) = {} /\ IsInjective(firstFree) BY <1>0, EmptyFacts
  <2>2. ASSUME NEW f \in Frame PROVE Uses(f) = (IF f < avail THEN 1 ELSE 0)
    <3>0. f \in Nat /\ f # 0 BY DEF Frame
    <3>1. InList(f) = 0 BY <2>1 DEF InList
    <3>2. InDirectories(f) = (IF f = 1 THEN 1 ELSE 0)
      <4>1. {p \in Proc : pd[p] = f} = IF f = 1 THEN {Boot} ELSE {} BY <1>0, <3>0
      <4> QED BY <4>1, FS_Singleton, FS_EmptySet DEF InDirectories
    <3>3. InTables(f) = (IF f = 2 THEN 1 ELSE 0)
      <4>1. ASSUME NEW e \in Proc \X Table
            PROVE  pt[e[1]][e[2]] = f <=> f = 2 /\ e = <<Boot, 0>>
        <5>1. e[1] \in Proc /\ e[2] \in Table /\ e = <<e[1], e[2]>> OBVIOUS
        <5> QED BY <5>1, <1>0, <1>2, <3>0
      <4>2. <<Boot, 0>> \in Proc \X Table BY <1>0, TableFacts
      <4>3. {e \in Proc \X Table : pt[e[1]][e[2]] = f} = IF f = 2 THEN {<<Boot, 0>>} ELSE {}
        BY <4>1, <4>2
      <4> QED BY <4>3, FS_Singleton, FS_EmptySet DEF InTables
    <3>4. InPages(f) = 0
      <4>1. ASSUME NEW e \in Proc \X Pages PROVE page[e[1]][e[2]] # f
        <5>1. e[1] \in Proc /\ e[2] \in Pages OBVIOUS
        <5> QED BY <5>1, <1>0, <1>3, <3>0
      <4>2. {e \in Proc \X Pages : page[e[1]][e[2]] = f} = {} BY <4>1
      <4> QED BY <4>2, FS_EmptySet DEF InPages
    <3>5. InHands(f) = 0
      <4>1. {p \in Proc : hand[p] = f} = {} BY <1>0, <3>0
      <4> QED BY <4>1, FS_EmptySet DEF InHands
    <3> QED BY <3>0, <3>1, <3>2, <3>3, <3>4, <3>5, <1>0 DEF Uses
  <2> QED BY <1>1, <2>1, <2>2 DEF FramesOnce
<1>5. HandsExact /\ CallsExact BY <1>0 DEF HandsExact, CallsExact
<1>6. LivesExact BY <1>0 DEF LivesExact
<1>7. ForksExact BY <1>0 DEF ForksExact, Forking
<1>8. TablesBuilt BY <1>0, <1>3 DEF TablesBuilt
<1> QED BY <1>4, <1>5, <1>6, <1>7, <1>8 DEF IInv

LEMMA NextIInv == IInv /\ [Next]_vars => IInv'
<1> SUFFICES ASSUME IInv, [Next]_vars PROVE IInv' OBVIOUS
<1>1. ASSUME NEW p \in Proc,
             (\E va \in Pages : PageFault(p, va)) \/ Exec(p) \/ Exit(p) \/ OutOfFrames(p)
      PROVE  IInv'
  BY <1>1, BeginStep
<1>2. ASSUME NEW p \in Proc, NEW va \in Pages, NEW v \in Value, Write(p, va, v) PROVE IInv'
  BY <1>2, WriteStep
<1>3. ASSUME NEW p \in Proc, FaultAlloc(p) PROVE IInv' BY <1>3, FaultAllocStep
<1>4. ASSUME NEW p \in Proc, FaultMap(p) PROVE IInv' BY <1>4, FaultMapStep
<1>5. ASSUME NEW p \in Proc, NEW c \in Proc, Fork(p, c) PROVE IInv' BY <1>5, ForkStep
<1>6. ASSUME NEW p \in Proc, NewDirectory(p) \/ NewIdentity(p) PROVE IInv' BY <1>6, ConstructStep
<1>7. ASSUME NEW p \in Proc, ForkAlloc(p) PROVE IInv' BY <1>7, ForkAllocStep
<1>8. ASSUME NEW p \in Proc, ForkCopy(p) PROVE IInv' BY <1>8, ForkCopyStep
<1>9. ASSUME NEW p \in Proc, Forked(p) PROVE IInv' BY <1>9, ForkedStep
<1>10. ASSUME NEW p \in Proc, ExecPage(p) PROVE IInv' BY <1>10, ExecPageStep
<1>11. ASSUME NEW p \in Proc, DestroyPage(p) PROVE IInv' BY <1>11, DestroyPageStep
<1>12. ASSUME NEW p \in Proc, DestroyTable(p) PROVE IInv' BY <1>12, DestroyTableStep
<1>13. ASSUME NEW p \in Proc, DestroyDirectory(p) PROVE IInv' BY <1>13, DestroyDirectoryStep
<1>14. CASE UNCHANGED vars
  <2>1. UNCHANGED <<firstFree, avail, pd, pt, page, content, status, pc, at, hand, child, panicked>>
    BY <1>14 DEF vars, frames
  <2>2. \A q \in Proc, vb \in Pages : Seen(q, vb)' = Seen(q, vb) BY <2>1 DEF Seen
  <2>3. TypeOK' BY <2>1 DEF IInv, FramesOnce, TypeOK
  <2>4. FramesOnce' /\ TablesBuilt' BY <2>1, <2>3, FramesKept
  <2>5. ForksExact' BY <2>1, <2>2, ForksKept
  <2>6. HandsExact' /\ CallsExact' /\ LivesExact'
    BY <2>1 DEF IInv, HandsExact, CallsExact, LivesExact, NoPages, NoTables
  <2> QED BY <2>4, <2>5, <2>6 DEF IInv
<1> QED
  BY <1>1, <1>2, <1>3, <1>4, <1>5, <1>6, <1>7, <1>8, <1>9, <1>10, <1>11, <1>12, <1>13, <1>14 DEF Next

\* The strengthened invariant holds in every state: frames, the hands of the
\* calls of vmm.cc, and what a fork has done so far.
THEOREM MemoryInvariance == Spec => []IInv
BY InitIInv, NextIInv, PTL DEF Spec

\* Every frame that PhysMem::alloc ever returned is in one place: no two
\* address spaces share one, none is free and in use, and none is lost.
THEOREM FramesInOnePlace == Spec => []FramesOnce
<1>1. IInv => FramesOnce BY DEF IInv
<1> QED BY <1>1, MemoryInvariance, PTL

-----------------------------------------------------------------------------
(***************************************************************************)
(* The refinement: what the processes see is module PrivateMemory.         *)
(***************************************************************************)

Alive == {p \in Proc : status[p] = "live"}
Mem == [p \in Proc |-> [va \in Pages |->
          IF status[p] = "live" /\ page[p][va] # 0 THEN content[page[p][va]] ELSE Zero]]

LEMMA MemFacts ==
    \A p \in Proc, va \in Pages : Mem[p][va] = IF status[p] = "live" THEN Seen(p, va) ELSE Zero
BY DEF Mem, Seen

\* A memory is known by what is at each address.
LEMMA MemIs ==
    ASSUME NEW m, m = [p \in Proc |-> [va \in Pages |-> m[p][va]]],
           \A p \in Proc, va \in Pages : m[p][va] = IF status'[p] = "live" THEN Seen(p, va)' ELSE Zero
    PROVE  Mem' = m
<1>1. Mem' = [p \in Proc |-> [va \in Pages |-> IF status'[p] = "live" THEN Seen(p, va)' ELSE Zero]]
  BY DEF Mem, Seen
<1>2. m = [p \in Proc |-> [va \in Pages |-> IF status'[p] = "live" THEN Seen(p, va)' ELSE Zero]]
  OBVIOUS
<1> QED BY <1>1, <1>2

\* What no live process sees is a stutter.
LEMMA Unseen ==
    ASSUME \A p \in Proc : status'[p] = "live" <=> status[p] = "live",
           \A p \in Proc, va \in Pages : status[p] = "live" => Seen(p, va)' = Seen(p, va)
    PROVE  UNCHANGED <<Alive, Mem>>
<1>1. Alive' = Alive BY DEF Alive
<1>2. PICK m : m = Mem OBVIOUS
<1>3. m = [p \in Proc |-> [va \in Pages |-> m[p][va]]] BY <1>2 DEF Mem
<1>4. \A p \in Proc, va \in Pages : m[p][va] = IF status'[p] = "live" THEN Seen(p, va)' ELSE Zero
  BY <1>2, MemFacts
<1>5. Mem' = m BY <1>3, <1>4, MemIs
<1> QED BY <1>1, <1>2, <1>5

\* One address of one process changes: Write of PrivateMemory.
LEMMA SeenWrite ==
    ASSUME NEW p \in Proc, NEW va \in Pages, NEW v \in Value \cup {Zero},
           status[p] = "live", status' = status, Seen(p, va)' = v,
           \A q \in Proc, vb \in Pages : q # p \/ vb # va => Seen(q, vb)' = Seen(q, vb)
    PROVE  Private!Write(p, va, v)
<1>1. Alive' = Alive /\ p \in Alive BY DEF Alive
<1>2. PICK m : m = [Mem EXCEPT ![p][va] = v] OBVIOUS
<1>3. m = [q \in Proc |-> [vb \in Pages |-> m[q][vb]]] BY <1>2 DEF Mem
<1>4. \A q \in Proc, vb \in Pages : m[q][vb] = IF q = p /\ vb = va THEN v ELSE Mem[q][vb]
  BY <1>2 DEF Mem
<1>5. \A q \in Proc, vb \in Pages : m[q][vb] = IF status'[q] = "live" THEN Seen(q, vb)' ELSE Zero
  BY <1>4, MemFacts
<1>6. Mem' = [Mem EXCEPT ![p][va] = v] BY <1>2, <1>3, <1>5, MemIs
<1> QED BY <1>1, <1>6 DEF Private!Write, Alive, Mem

LEMMA SeenFork ==
    ASSUME IInv, NEW p \in Proc, Forked(p)
    PROVE  \E c \in Proc : Private!Fork(p, c)
<1>1. /\ \A q \in Proc, vb \in Pages : Seen(q, vb)' = Seen(q, vb)
      /\ child[p] \in Proc /\ status[child[p]] = "forming" /\ status[p] = "live"
      /\ \A vb \in Pages : Seen(child[p], vb) = Seen(p, vb)
  BY ForkedStep
<1>2. PICK c \in Proc : /\ c = child[p] /\ status[c] = "forming"
                        /\ \A vb \in Pages : Seen(c, vb) = Seen(p, vb)
  BY <1>1
<1>3. status' = [status EXCEPT ![c] = "live"] /\ status \in [Proc -> {"none", "forming", "live", "dead"}]
  BY <1>2 DEF Forked, IInv, FramesOnce, TypeOK
<1>4. /\ status'[c] = "live" /\ status[c] # "live" /\ status[p] = "live"
      /\ \A q \in Proc \ {c} : status'[q] = status[q]
  BY <1>1, <1>2, <1>3
<1>5. Alive' = Alive \cup {c} /\ p \in Alive /\ c \notin Alive BY <1>4 DEF Alive
<1>6. PICK m : m = [Mem EXCEPT ![c] = Mem[p]] OBVIOUS
<1>7. m = [q \in Proc |-> [vb \in Pages |-> m[q][vb]]] BY <1>6 DEF Mem
<1>8. \A q \in Proc, vb \in Pages : m[q][vb] = IF q = c THEN Mem[p][vb] ELSE Mem[q][vb]
  BY <1>6 DEF Mem
<1>9. \A q \in Proc, vb \in Pages : m[q][vb] = IF status'[q] = "live" THEN Seen(q, vb)' ELSE Zero
  <2> TAKE q \in Proc, vb \in Pages
  <2>1. CASE q = c
    <3>1. Mem[p][vb] = Seen(p, vb) BY <1>4, MemFacts
    <3> QED BY <2>1, <3>1, <1>1, <1>2, <1>4, <1>8
  <2>2. CASE q # c BY <2>2, <1>1, <1>4, <1>8, MemFacts
  <2> QED BY <2>1, <2>2
<1>10. Mem' = [Mem EXCEPT ![c] = Mem[p]] BY <1>6, <1>7, <1>9, MemIs
<1>11. Private!Fork(p, c) BY <1>5, <1>10 DEF Private!Fork, Alive, Mem
<1> QED BY <1>11

LEMMA SeenDie ==
    ASSUME IInv, NEW p \in Proc, Exit(p)
    PROVE  Private!Die(p)
<1>1. \A q \in Proc, vb \in Pages : Seen(q, vb)' = Seen(q, vb) BY BeginStep
<1>2. /\ status'[p] # "live" /\ \A q \in Proc \ {p} : status'[q] = status[q]
  BY DEF Exit, IInv, FramesOnce, TypeOK
<1>3. Alive' = Alive \ {p} BY <1>2 DEF Alive
<1>4. PICK m : m = [Mem EXCEPT ![p] = [va \in Pages |-> Zero]] OBVIOUS
<1>5. m = [q \in Proc |-> [vb \in Pages |-> m[q][vb]]] BY <1>4 DEF Mem
<1>6. \A q \in Proc, vb \in Pages : m[q][vb] = IF q = p THEN Zero ELSE Mem[q][vb]
  BY <1>4 DEF Mem
<1>7. \A q \in Proc, vb \in Pages : m[q][vb] = IF status'[q] = "live" THEN Seen(q, vb)' ELSE Zero
  BY <1>1, <1>2, <1>6, MemFacts
<1>8. Mem' = [Mem EXCEPT ![p] = [va \in Pages |-> Zero]] BY <1>4, <1>5, <1>7, MemIs
<1> QED BY <1>3, <1>8 DEF Private!Die, Private!Blank, Alive, Mem

LEMMA InitMemory == Init => Private!MemoryInit
<1> SUFFICES ASSUME Init PROVE Private!MemoryInit OBVIOUS
<1>1. page = [p \in Proc |-> NoPages] BY DEF Init
<1>2. Mem = [p \in Proc |-> [va \in Pages |-> Zero]] BY <1>1 DEF Mem, NoPages
<1>3. Alive \subseteq Proc BY DEF Alive
<1> QED BY <1>2, <1>3 DEF Private!MemoryInit, Private!Blank, Alive, Mem

LEMMA NextMemory ==
    ASSUME IInv, [Next]_vars
    PROVE  [Private!MemoryNext]_<<Alive, Mem>>
<1>0. status \in [Proc -> {"none", "forming", "live", "dead"}] BY DEF IInv, FramesOnce, TypeOK
<1>1. ASSUME NEW p \in Proc, (\E va \in Pages : PageFault(p, va)) \/ Exec(p) \/ OutOfFrames(p)
      PROVE  UNCHANGED <<Alive, Mem>>
  <2>1. \A q \in Proc, vb \in Pages : Seen(q, vb)' = Seen(q, vb) BY <1>1, BeginStep
  <2>2. status' = status BY <1>1 DEF PageFault, Exec, OutOfFrames
  <2> QED BY <2>1, <2>2, Unseen
<1>2. ASSUME NEW p \in Proc, NEW va \in Pages, NEW v \in Value, Write(p, va, v)
      PROVE  Private!MemoryNext
  <2>1. /\ Seen(p, va)' = v
        /\ \A q \in Proc, vb \in Pages : q # p \/ vb # va => Seen(q, vb)' = Seen(q, vb)
    BY <1>2, WriteStep
  <2>2. status[p] = "live" /\ status' = status BY <1>2 DEF Write, At
  <2>3. v \in Value \cup {Zero} OBVIOUS
  <2>4. Private!Write(p, va, v) BY <2>1, <2>2, <2>3, SeenWrite
  <2> QED BY <2>3, <2>4 DEF Private!MemoryNext
<1>3. ASSUME NEW p \in Proc, FaultAlloc(p) \/ FaultMap(p) \/ NewDirectory(p) \/ NewIdentity(p) \/ ForkAlloc(p)
      PROVE  UNCHANGED <<Alive, Mem>>
  <2>1. \A q \in Proc, vb \in Pages : Seen(q, vb)' = Seen(q, vb)
    BY <1>3, FaultAllocStep, FaultMapStep, ConstructStep, ForkAllocStep
  <2>2. status' = status BY <1>3 DEF FaultAlloc, FaultMap, NewDirectory, NewIdentity, ForkAlloc
  <2> QED BY <2>1, <2>2, Unseen
<1>4. ASSUME NEW p \in Proc, NEW c \in Proc, Fork(p, c) PROVE UNCHANGED <<Alive, Mem>>
  <2>1. \A q \in Proc, vb \in Pages : Seen(q, vb)' = Seen(q, vb) BY <1>4, ForkStep
  <2>2. status[c] = "none" /\ status' = [status EXCEPT ![c] = "forming"] BY <1>4 DEF Fork
  <2>3. \A q \in Proc : status'[q] = "live" <=> status[q] = "live" BY <1>0, <2>2
  <2> QED BY <2>1, <2>3, Unseen
<1>5. ASSUME NEW p \in Proc, ForkCopy(p) PROVE UNCHANGED <<Alive, Mem>>
  <2>1. /\ child[p] \in Proc /\ status[child[p]] = "forming"
        /\ \A q \in Proc \ {child[p]}, vb \in Pages : Seen(q, vb)' = Seen(q, vb)
    BY <1>5, ForkCopyStep
  <2>2. status' = status BY <1>5 DEF ForkCopy
  <2>3. \A q \in Proc, vb \in Pages : status[q] = "live" => Seen(q, vb)' = Seen(q, vb) BY <2>1
  <2> QED BY <2>2, <2>3, Unseen
<1>6. ASSUME NEW p \in Proc, Forked(p) PROVE Private!MemoryNext
  BY <1>6, SeenFork DEF Private!MemoryNext
<1>7. ASSUME NEW p \in Proc, ExecPage(p) PROVE [Private!MemoryNext]_<<Alive, Mem>>
  <2>0. status[p] = "live" /\ status' = status BY <1>7 DEF ExecPage, At
  <2>1. \/ \A q \in Proc, vb \in Pages : Seen(q, vb)' = Seen(q, vb)
        \/ \E va \in Pages :
              /\ Seen(p, va)' = Zero
              /\ \A q \in Proc, vb \in Pages : q # p \/ vb # va => Seen(q, vb)' = Seen(q, vb)
    BY <1>7, ExecPageStep
  <2>2. CASE \A q \in Proc, vb \in Pages : Seen(q, vb)' = Seen(q, vb)
    <3>1. UNCHANGED <<Alive, Mem>> BY <2>0, <2>2, Unseen
    <3> QED BY <3>1
  <2>3. ASSUME NEW va \in Pages, Seen(p, va)' = Zero,
               \A q \in Proc, vb \in Pages : q # p \/ vb # va => Seen(q, vb)' = Seen(q, vb)
        PROVE  Private!MemoryNext
    <3>1. Zero \in Value \cup {Zero} OBVIOUS
    <3>2. Private!Write(p, va, Zero) BY <2>0, <2>3, <3>1, SeenWrite
    <3> QED BY <3>1, <3>2 DEF Private!MemoryNext
  <2> QED BY <2>1, <2>2, <2>3
<1>8. ASSUME NEW p \in Proc, Exit(p) PROVE Private!MemoryNext
  BY <1>8, SeenDie DEF Private!MemoryNext
<1>9. ASSUME NEW p \in Proc, DestroyPage(p) \/ DestroyTable(p) \/ DestroyDirectory(p)
      PROVE  UNCHANGED <<Alive, Mem>>
  <2>1. \A q \in Proc \ {p}, vb \in Pages : Seen(q, vb)' = Seen(q, vb)
    BY <1>9, DestroyPageStep, DestroyTableStep, DestroyDirectoryStep
  <2>2. /\ status[p] = "dead"
        /\ status' = status \/ status' = [status EXCEPT ![p] = "none"]
    BY <1>9 DEF DestroyPage, DestroyTable, DestroyDirectory
  <2>3. \A q \in Proc : status'[q] = "live" <=> status[q] = "live" BY <1>0, <2>2
  <2>4. \A q \in Proc, vb \in Pages : status[q] = "live" => Seen(q, vb)' = Seen(q, vb) BY <2>1, <2>2
  <2> QED BY <2>3, <2>4, Unseen
<1>10. CASE UNCHANGED vars
  <2>1. UNCHANGED <<Alive, Mem>> BY <1>10 DEF vars, Alive, Mem
  <2> QED BY <2>1
<1> QED BY <1>1, <1>2, <1>3, <1>4, <1>5, <1>6, <1>7, <1>8, <1>9, <1>10 DEF Next

\* What one process writes no other one sees, a child sees what its parent had
\* written, and a page is zero when it is first seen: vmm.cc implements the
\* memories of module PrivateMemory.
THEOREM PrivateMemoryImplemented == Spec => ImplementsPrivateMemory
<1>1. IInv /\ [Next]_vars => [Private!MemoryNext]_<<Alive, Mem>> BY NextMemory
<1>2. IInv /\ [Next]_vars =>
        [Private!MemoryNext]_<<{p \in Proc : status[p] = "live"},
                               [p \in Proc |-> [va \in Pages |->
                                  IF status[p] = "live" /\ page[p][va] # 0
                                  THEN content[page[p][va]] ELSE Zero]]>>
  BY <1>1 DEF Alive, Mem
<1> QED
  BY <1>2, InitMemory, MemoryInvariance, PTL
     DEF Spec, ImplementsPrivateMemory, Private!MemorySpec, Private!memoryVars
=============================================================================
