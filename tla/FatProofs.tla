------------------------------ MODULE FatProofs ------------------------------
(***************************************************************************)
(* Proofs about the files, for every size of disk, block and directory and *)
(* whatever files the host has: the blocks of the image that mkfs makes    *)
(* are in chains, each in one; the kernel finds the names in it; and what  *)
(* a process reads is the host's file, to its last byte.                   *)
(*                                                                         *)
(* The loops of the code (the FAT is followed, a read is repeated until    *)
(* all is there) are recursive functions, of which CollectionFacts has     *)
(* LoopIs and LoopReads: what holds before the first turn and is kept by   *)
(* each holds after the last.                                              *)
(***************************************************************************)
EXTENDS Fat439, CollectionFacts, TLAPS

\* Quotient and remainder.
LEMMA DivisionFacts ==
    ASSUME NEW B \in Nat, B > 0, NEW a \in Nat
    PROVE  /\ a \div B \in Nat /\ a % B \in 0 .. B - 1
           /\ a = (a \div B) * B + (a % B)
<1>0. B \in Int /\ a \in Int /\ 0 < B OBVIOUS
<1>1. a % B \in 0 .. B - 1 BY <1>0
<1>2. a \div B \in Int BY <1>0
<1>3. a = B * (a \div B) + (a % B) BY <1>0
<1>4. a \div B >= 0 BY <1>0
<1>5. a \div B \in Nat BY <1>2, <1>4
<1>6. \A q \in Nat : B * q = q * B BY <1>0
<1>7. B * (a \div B) = (a \div B) * B BY <1>5, <1>6, Zenon
<1>8. a = (a \div B) * B + (a % B) BY <1>3, <1>7, Zenon
<1> QED BY <1>1, <1>5, <1>8, Zenon

\* The end of one block is not behind the start of a later one.
LEMMA ProductOrder ==
    ASSUME NEW B \in Nat, B > 0, NEW p \in Int, NEW q \in Int, p < q
    PROVE  p * B \in Int /\ q * B \in Int /\ p * B + B <= q * B
<1>1. PICK d \in Nat : q = p + 1 + d
  <2>1. q - p - 1 \in Nat /\ q = p + 1 + (q - p - 1) OBVIOUS
  <2> QED BY <2>1
<1>2. q * B = p * B + B + d * B BY <1>1
<1>3. d * B >= 0 OBVIOUS
<1>4. p * B \in Int /\ d * B \in Int /\ q * B \in Int OBVIOUS
<1> QED BY <1>2, <1>3, <1>4

\* Quotient and remainder are the only ones.
LEMMA QuotientUnique ==
    ASSUME NEW B \in Nat, B > 0, NEW p \in Int, NEW q \in Int,
           NEW r \in 0 .. B - 1, NEW s \in 0 .. B - 1, p * B + r = q * B + s
    PROVE  p = q /\ r = s
<1>1. CASE p < q BY <1>1, ProductOrder
<1>2. CASE q < p BY <1>2, ProductOrder
<1>3. CASE p = q
  <2>1. p * B \in Int OBVIOUS
  <2> QED BY <1>3, <2>1
<1> QED BY <1>1, <1>2, <1>3

-----------------------------------------------------------------------------
(***************************************************************************)
(* Where things are on the disk.                                           *)
(***************************************************************************)

RootBlock == NBlocks - 1
DataBlock == FatBlocks + 1 .. RootBlock
Address == 0 .. NBlocks * BlockSize - 1
Within == 0 .. BlockSize - 1

\* Cell o of block b; cell k of the entry of file f, in the root block.
Cell(b, o) == b * BlockSize + o
EntryCell(f, k) == Header + (f - 1) * EntrySize + k - 1

\* What the sizes are.
LEMMA Geometry ==
    /\ BlockSize \in Nat /\ BlockSize >= 4 /\ NBlocks \in Nat /\ NameCells \in Nat
    /\ FatBlocks \in Nat /\ FatBlocks >= 1 /\ FatBlocks + 1 < NBlocks
    /\ NBlocks <= FatBlocks * BlockSize
    /\ Len(NameLen) \in Nat /\ Len(NameLen) >= 1 /\ EntrySize = NameCells + 1 /\ Header = 2
    /\ Files = 1 .. Len(NameLen) /\ \A f \in Files : NameLen[f] \in Nat /\ NameLen[f] >= 1
    /\ Sizes \subseteq Nat
    /\ NBlocks * BlockSize \in Nat /\ FatBlocks * BlockSize \in Nat
<1>1. /\ BlockSize \in Nat /\ BlockSize >= 4 /\ NBlocks \in Nat /\ NameCells \in Nat
      /\ NBlocks > FatBlocks + 1 /\ Sizes \subseteq Nat
      /\ NameLen \in Seq(Nat \ {0}) /\ NameLen # <<>>
  BY MkfsAssumption
<1>2. /\ Len(NameLen) \in Nat /\ Len(NameLen) # 0
      /\ \A f \in 1 .. Len(NameLen) : NameLen[f] \in Nat \ {0}
  BY <1>1, LenProperties, EmptySeq, ElementOfSeq
<1>3. PICK a \in Nat : a = NBlocks + BlockSize - 1 BY <1>1
<1>4. FatBlocks = a \div BlockSize BY <1>3 DEF FatBlocks
<1>5. FatBlocks \in Nat /\ a % BlockSize \in 0 .. BlockSize - 1
      /\ a = FatBlocks * BlockSize + (a % BlockSize)
  BY <1>1, <1>4, DivisionFacts
<1>6. FatBlocks * BlockSize \in Nat /\ NBlocks * BlockSize \in Nat BY <1>1, <1>5
<1>7. NBlocks <= FatBlocks * BlockSize BY <1>1, <1>3, <1>5, <1>6
<1>8. FatBlocks >= 1
  <2> SUFFICES ASSUME FatBlocks = 0 PROVE FALSE BY <1>5
  <2>1. FatBlocks * BlockSize = 0 BY <1>1
  <2> QED BY <2>1, <1>1, <1>3, <1>5
<1> QED BY <1>1, <1>2, <1>5, <1>6, <1>7, <1>8 DEF EntrySize, Header, Files

\* Different cells have different addresses.
LEMMA CellFacts ==
    ASSUME NEW b \in Int, NEW o \in Within
    PROVE  /\ Cell(b, o) \in Int
           /\ \A c \in Int, p \in Within : Cell(b, o) = Cell(c, p) => b = c /\ o = p
           /\ b \in 0 .. RootBlock => Cell(b, o) \in Address
           /\ b >= FatBlocks + 1 => Cell(b, o) >= (FatBlocks + 1) * BlockSize
<1>1. o \in 0 .. BlockSize - 1 /\ BlockSize \in Nat /\ BlockSize > 0 /\ b * BlockSize \in Int
  BY Geometry DEF Within
<1>2. \A c \in Int, p \in Within : Cell(b, o) = Cell(c, p) => b = c /\ o = p
  BY <1>1, QuotientUnique DEF Within, Cell
<1>3. ASSUME b \in 0 .. RootBlock PROVE Cell(b, o) \in Address
  <2>1. b < NBlocks /\ NBlocks \in Int /\ b >= 0 BY <1>3, Geometry DEF RootBlock
  <2>2. b * BlockSize + BlockSize <= NBlocks * BlockSize BY <2>1, <1>1, ProductOrder
  <2>3. b * BlockSize >= 0 BY <2>1, <1>1
  <2> QED BY <2>2, <2>3, <1>1, Geometry DEF Cell, Address
<1>4. ASSUME b >= FatBlocks + 1 PROVE Cell(b, o) >= (FatBlocks + 1) * BlockSize
  <2>1. FatBlocks + 1 \in Int BY Geometry
  <2>2. CASE b = FatBlocks + 1 BY <1>1, <2>2 DEF Cell
  <2>3. CASE FatBlocks + 1 < b
    <3>1. (FatBlocks + 1) * BlockSize + BlockSize <= b * BlockSize
          /\ (FatBlocks + 1) * BlockSize \in Int
      BY <2>1, <2>3, <1>1, ProductOrder
    <3> QED BY <3>1, <1>1 DEF Cell
  <2> QED BY <2>1, <2>2, <2>3, <1>4
<1> QED BY <1>1, <1>2, <1>3, <1>4 DEF Cell

\* The FAT lies between the super block and the data.
LEMMA FatCellFacts ==
    ASSUME NEW b \in 0 .. RootBlock
    PROVE  /\ FatAt(b) \in Address /\ FatAt(b) > RootAt /\ FatAt(b) > AvailAt
           /\ FatAt(b) < (FatBlocks + 1) * BlockSize
           /\ \A c \in Int : FatAt(b) = FatAt(c) => b = c
<1>1. b \in Nat /\ b < NBlocks BY Geometry DEF RootBlock
<1>2. (FatBlocks + 1) * BlockSize = FatBlocks * BlockSize + BlockSize BY Geometry
<1>3. FatAt(b) < (FatBlocks + 1) * BlockSize BY <1>1, <1>2, Geometry DEF FatAt
<1>4. FatBlocks + 1 < NBlocks /\ FatBlocks + 1 \in Int /\ NBlocks \in Int /\ BlockSize > 0
  BY Geometry
<1>5. (FatBlocks + 1) * BlockSize + BlockSize <= NBlocks * BlockSize
  BY <1>4, Geometry, ProductOrder
<1>6. FatAt(b) < NBlocks * BlockSize BY <1>2, <1>3, <1>5, Geometry, <1>1 DEF FatAt
<1> QED BY <1>1, <1>3, <1>6, Geometry DEF FatAt, RootAt, AvailAt, Address

\* The super block.
LEMMA SuperFacts ==
    /\ {0, 1, AvailAt, RootAt} \subseteq Address
    /\ AvailAt < (FatBlocks + 1) * BlockSize /\ RootAt < (FatBlocks + 1) * BlockSize
    /\ 4 <= (FatBlocks + 1) * BlockSize
<1>1. (FatBlocks + 1) * BlockSize = FatBlocks * BlockSize + BlockSize BY Geometry
<1>2. FatBlocks + 1 < NBlocks /\ FatBlocks + 1 \in Int /\ NBlocks \in Int /\ BlockSize > 0
  BY Geometry
<1>3. (FatBlocks + 1) * BlockSize + BlockSize <= NBlocks * BlockSize
  BY <1>2, Geometry, ProductOrder
<1> QED BY <1>1, <1>3, Geometry DEF AvailAt, RootAt, Address

\* The entries of the root directory are in its block, behind its header, and
\* apart.
LEMMA EntryFacts ==
    ASSUME NEW f \in Files, NEW k \in 1 .. EntrySize
    PROVE  /\ EntryCell(f, k) \in Within /\ EntryCell(f, k) > 1
           /\ \A g \in Int, j \in 1 .. EntrySize : EntryCell(f, k) = EntryCell(g, j) => f = g /\ k = j
<1>1. /\ EntrySize \in Nat /\ EntrySize > 0 /\ f \in Int /\ f >= 1 /\ f <= Len(NameLen) /\ Len(NameLen) \in Nat
      /\ k - 1 \in 0 .. EntrySize - 1
  BY Geometry
<1>2. (f - 1) * EntrySize \in Int /\ Len(NameLen) * EntrySize \in Int BY <1>1
<1>3. (f - 1) * EntrySize + EntrySize <= Len(NameLen) * EntrySize
  <2>1. f - 1 \in Int /\ Len(NameLen) \in Int /\ f - 1 < Len(NameLen) BY <1>1
  <2> QED BY <2>1, <1>1, ProductOrder
<1>4. (f - 1) * EntrySize >= 0 BY <1>1
<1>5. Header + Len(NameLen) * EntrySize <= BlockSize BY MkfsAssumption
<1>6. ASSUME NEW g \in Int, NEW j \in 1 .. EntrySize, EntryCell(f, k) = EntryCell(g, j) PROVE f = g /\ k = j
  <2>1. g - 1 \in Int /\ (g - 1) * EntrySize \in Int /\ j - 1 \in 0 .. EntrySize - 1 BY <1>1
  <2>2. (f - 1) * EntrySize + (k - 1) = (g - 1) * EntrySize + (j - 1)
    BY <1>1, <1>2, <1>6, <2>1 DEF EntryCell, Header
  <2>3. f - 1 = g - 1 /\ k - 1 = j - 1
    <3>1. f - 1 \in Int BY <1>1
    <3> QED BY <1>1, <2>1, <2>2, <3>1, QuotientUnique
  <2> QED BY <1>1, <2>3
<1> QED BY <1>1, <1>2, <1>3, <1>4, <1>5, <1>6, Geometry DEF EntryCell, Header, Within

-----------------------------------------------------------------------------
(***************************************************************************)
(* The inductive invariant.  mkfs takes blocks from the top, each one below *)
(* the one before, so that the image can be said block by block.           *)
(***************************************************************************)

\* The highest block available, or the one below the data.
Top == IF disk[AvailAt] = 0 THEN FatBlocks ELSE disk[AvailAt]

\* The files that were started, the last block of each, and how much of it is
\* in the image.
Begun == {f \in Files : f < i \/ (f = i /\ step = "copy")}
LastBlock(f) == IF f < i THEN FirstBlock(f) - ((sizes[f] + Header) \div BlockSize) ELSE current
Written(f) == IF f < i THEN sizes[f] ELSE total

\* Which cell of its file is in cell o of its block number d.
Nth(d, o) == d * BlockSize + o - Header

SuperExact ==
    /\ disk[0] = Magic /\ disk[1] = NBlocks /\ disk[RootAt] = RootBlock
    /\ disk[AvailAt] = 0 \/ disk[AvailAt] \in FatBlocks + 1 .. RootBlock - 1

RootExact ==
    /\ disk[Cell(RootBlock, 0)] = 2
    /\ disk[Cell(RootBlock, 1)] = Len(NameLen) * EntrySize
    /\ \A f \in Files : f < i => \A k \in 1 .. NameCells :
            disk[Cell(RootBlock, EntryCell(f, k))] = Name(f, k)

\* A block is linked to the one below it, unless it is the last of its chain.
LinksExact ==
    \A b \in 0 .. RootBlock :
        disk[FatAt(b)] = IF \/ b <= FatBlocks + 1 \/ b = RootBlock
                            \/ \E f \in Begun : b = LastBlock(f)
                         THEN 0 ELSE b - 1

\* Each file has a range of blocks, below that of the file before.
RangesExact ==
    /\ \A f \in Begun : /\ FirstBlock(f) \in Int /\ LastBlock(f) \in Int
                         /\ Top < LastBlock(f) /\ LastBlock(f) <= FirstBlock(f)
                         /\ FirstBlock(f) < RootBlock
    /\ \A f, g \in Begun : f < g => FirstBlock(g) < LastBlock(f)
    /\ \A b \in Top + 1 .. RootBlock - 1 : \E f \in Begun : LastBlock(f) <= b /\ b <= FirstBlock(f)

\* How far the copy is.
CopyExact ==
    /\ step \in {"next", "copy"} => i \in Files
    /\ step = "done" => i = Len(NameLen) + 1
    /\ step = "copy" => /\ current = Top + 1
                        /\ Nth(start - current, BlockSize - left) = total
                        /\ total <= sizes[i]

\* The headers of the files and what is in their blocks.
HeadersExact ==
    \A f \in Begun : /\ disk[Cell(FirstBlock(f), 0)] = 1
                     /\ f < i => disk[Cell(FirstBlock(f), 1)] = sizes[f]
DataExact ==
    \A f \in Begun : \A b \in LastBlock(f) .. FirstBlock(f), o \in Within :
        Nth(FirstBlock(f) - b, o) \in 0 .. Written(f) - 1 =>
            disk[Cell(b, o)] = Data(f, Nth(FirstBlock(f) - b, o))

ImageInv == SuperExact /\ RootExact /\ LinksExact /\ RangesExact /\ CopyExact
            /\ HeadersExact /\ DataExact

\* What the kernel knows of the image once it is mounted, and what is open.
RootFile == [start |-> RootBlock, type |-> 2, length |-> Len(NameLen) * EntrySize]
FileOf(f) == [start |-> FirstBlock(f), type |-> 1, length |-> sizes[f]]
Openable(of) == of = RootFile \/ \E f \in Files : of = FileOf(f)
KernelInv ==
    /\ fat # <<>> => /\ step = "done"
                     /\ fat = [b \in 0 .. RootBlock |-> disk[FatAt(b)]]
                     /\ dir = RootFile
    /\ file = Closed \/ (fat # <<>> /\ Openable(file))

FatInv == FatTypeOK /\ (step # "full" => ImageInv) /\ KernelInv

-----------------------------------------------------------------------------
(***************************************************************************)
(* What a write does to the super block, the FAT and the data.             *)
(***************************************************************************)

Disks == [Address -> Nat]

\* The cells of a data block are their own.
LEMMA DataCellFacts ==
    ASSUME NEW b \in DataBlock, NEW o \in Within
    PROVE  /\ Cell(b, o) \in Address
           /\ Cell(b, o) \notin {0, 1, AvailAt, RootAt}
           /\ \A c \in 0 .. RootBlock : Cell(b, o) # FatAt(c)
           /\ \A c \in DataBlock, p \in Within : Cell(b, o) = Cell(c, p) => b = c /\ o = p
<1>1. b \in Int /\ b \in 0 .. RootBlock /\ b >= FatBlocks + 1 /\ DataBlock \subseteq Int
  BY Geometry DEF DataBlock, RootBlock
<1>2. /\ Cell(b, o) \in Address /\ Cell(b, o) \in Int
      /\ Cell(b, o) >= (FatBlocks + 1) * BlockSize
      /\ \A c \in Int, p \in Within : Cell(b, o) = Cell(c, p) => b = c /\ o = p
  BY <1>1, CellFacts
<1>3. PICK base \in Int : base = (FatBlocks + 1) * BlockSize BY Geometry
<1>4. \A c \in 0 .. RootBlock : FatAt(c) < base /\ FatAt(c) \in Int
  BY <1>3, FatCellFacts, Geometry DEF FatAt
<1>5. AvailAt < base /\ RootAt < base /\ 4 <= base BY <1>3, SuperFacts
<1>6. Cell(b, o) \notin {0, 1, AvailAt, RootAt}
  BY <1>2, <1>3, <1>5 DEF AvailAt, RootAt
<1>7. \A c \in 0 .. RootBlock : Cell(b, o) # FatAt(c) BY <1>2, <1>3, <1>4
<1> QED BY <1>1, <1>2, <1>6, <1>7

\* getBlock() takes block s.
LEMMA GetBlockFacts ==
    ASSUME NEW d \in Disks, NEW s \in 0 .. RootBlock, d[AvailAt] = s
    PROVE  /\ GetBlock(d) \in Disks
           /\ \A a \in {0, 1, RootAt} : GetBlock(d)[a] = d[a]
           /\ GetBlock(d)[AvailAt] = d[FatAt(s)]
           /\ \A b \in 0 .. RootBlock : GetBlock(d)[FatAt(b)] = IF b = s THEN 0 ELSE d[FatAt(b)]
           /\ \A b \in DataBlock, o \in Within : GetBlock(d)[Cell(b, o)] = d[Cell(b, o)]
<1>1. /\ FatAt(s) \in Address /\ FatAt(s) \in Int
      /\ FatAt(s) > RootAt /\ FatAt(s) > AvailAt /\ AvailAt = 2 /\ RootAt = 3
      /\ {0, 1, AvailAt, RootAt} \subseteq Address
  BY FatCellFacts, SuperFacts, Geometry DEF FatAt, RootBlock, AvailAt, RootAt
<1>2. GetBlock(d) = [d EXCEPT ![AvailAt] = d[FatAt(s)], ![FatAt(s)] = 0]
  BY DEF GetBlock
<1>3. \A a \in Address : GetBlock(d)[a] = IF a = FatAt(s) THEN 0
                                         ELSE IF a = AvailAt THEN d[FatAt(s)] ELSE d[a]
  BY <1>1, <1>2 DEF Disks
<1>4. GetBlock(d) \in Disks
  <2>1. PICK v \in Nat : v = d[FatAt(s)] BY <1>1 DEF Disks
  <2>2. PICK h \in Disks : h = [d EXCEPT ![AvailAt] = v] BY <1>1 DEF Disks
  <2>3. [h EXCEPT ![FatAt(s)] = 0] \in Disks BY <1>1 DEF Disks
  <2> QED BY <1>2, <2>1, <2>2, <2>3
<1>5. ASSUME NEW b \in 0 .. RootBlock
      PROVE  GetBlock(d)[FatAt(b)] = IF b = s THEN 0 ELSE d[FatAt(b)]
  <2>1. b \in Int BY Geometry DEF RootBlock
  <2>2. FatAt(b) \in Address /\ FatAt(b) > AvailAt BY FatCellFacts
  <2>3. FatAt(s) = FatAt(b) => b = s BY <2>1, FatCellFacts
  <2>4. FatAt(b) # AvailAt BY <2>1, <2>2, Geometry DEF FatAt, AvailAt
  <2> QED BY <1>3, <2>2, <2>3, <2>4
<1>6. ASSUME NEW b \in DataBlock, NEW o \in Within PROVE GetBlock(d)[Cell(b, o)] = d[Cell(b, o)]
  BY <1>3, DataCellFacts
<1>7. \A a \in {0, 1, RootAt} : GetBlock(d)[a] = d[a] BY <1>1, <1>3
<1>8. GetBlock(d)[AvailAt] = d[FatAt(s)] BY <1>1, <1>3
<1> QED BY <1>4, <1>5, <1>6, <1>7, <1>8

\* Disk e is disk d but for cell p of data block c, which is v.
Put(d, e, c, p, v) ==
    /\ e \in Disks
    /\ \A a \in {0, 1, AvailAt, RootAt} : e[a] = d[a]
    /\ \A b \in 0 .. RootBlock : e[FatAt(b)] = d[FatAt(b)]
    /\ \A b \in DataBlock, o \in Within :
            e[Cell(b, o)] = IF b = c /\ o = p THEN v ELSE d[Cell(b, o)]

\* A write to a cell of a data block changes that cell only.
LEMMA PutFacts ==
    ASSUME NEW d \in Disks, NEW c \in DataBlock, NEW p \in Within, NEW v \in Nat
    PROVE  Put(d, [d EXCEPT ![Cell(c, p)] = v], c, p, v)
<1>0. PICK e : e = [d EXCEPT ![Cell(c, p)] = v] OBVIOUS
<1>1. /\ Cell(c, p) \in Address /\ Cell(c, p) \notin {0, 1, AvailAt, RootAt}
      /\ \A b \in 0 .. RootBlock : Cell(c, p) # FatAt(b)
      /\ \A b \in DataBlock, o \in Within : Cell(c, p) = Cell(b, o) => c = b /\ p = o
  BY DataCellFacts
<1>2. e \in Disks BY <1>0, <1>1 DEF Disks
<1>3. \A a \in Address : e[a] = IF a = Cell(c, p) THEN v ELSE d[a] BY <1>0, <1>1 DEF Disks
<1>4. {0, 1, AvailAt, RootAt} \subseteq Address BY SuperFacts
<1>5. \A b \in 0 .. RootBlock : FatAt(b) \in Address BY FatCellFacts
<1>6. \A b \in DataBlock, o \in Within : Cell(b, o) \in Address BY DataCellFacts
<1>7. \A a \in {0, 1, AvailAt, RootAt} : e[a] = d[a] BY <1>1, <1>3, <1>4
<1>8. \A b \in 0 .. RootBlock : e[FatAt(b)] = d[FatAt(b)] BY <1>1, <1>3, <1>5
<1>9. ASSUME NEW b \in DataBlock, NEW o \in Within
      PROVE  e[Cell(b, o)] = IF b = c /\ o = p THEN v ELSE d[Cell(b, o)]
  BY <1>1, <1>3, <1>6
<1> QED BY <1>0, <1>2, <1>7, <1>8, <1>9 DEF Put

\* Disk e is disk d but for the link of block c, which is v.
PutLink(d, e, c, v) ==
    /\ e \in Disks
    /\ \A a \in {0, 1, AvailAt, RootAt} : e[a] = d[a]
    /\ \A b \in 0 .. RootBlock : e[FatAt(b)] = IF b = c THEN v ELSE d[FatAt(b)]
    /\ \A b \in DataBlock, o \in Within : e[Cell(b, o)] = d[Cell(b, o)]

\* A write to the FAT changes that link only.
LEMMA PutLinkFacts ==
    ASSUME NEW d \in Disks, NEW c \in 0 .. RootBlock, NEW v \in Nat
    PROVE  PutLink(d, [d EXCEPT ![FatAt(c)] = v], c, v)
<1>0. PICK e : e = [d EXCEPT ![FatAt(c)] = v] OBVIOUS
<1>1. /\ FatAt(c) \in Address /\ FatAt(c) > RootAt /\ FatAt(c) > AvailAt /\ FatAt(c) \in Int
      /\ AvailAt = 2 /\ RootAt = 3 /\ {0, 1, AvailAt, RootAt} \subseteq Address
  <2>1. c \in Int BY Geometry DEF RootBlock
  <2>2. FatAt(c) \in Int BY <2>1, Geometry DEF FatAt
  <2> QED BY <2>2, FatCellFacts, SuperFacts DEF AvailAt, RootAt
<1>2. e \in Disks BY <1>0, <1>1 DEF Disks
<1>3. \A a \in Address : e[a] = IF a = FatAt(c) THEN v ELSE d[a] BY <1>0, <1>1 DEF Disks
<1>4. ASSUME NEW b \in 0 .. RootBlock PROVE e[FatAt(b)] = IF b = c THEN v ELSE d[FatAt(b)]
  <2>1. FatAt(b) \in Address BY FatCellFacts
  <2>2. b \in Int BY Geometry DEF RootBlock
  <2>3. FatAt(c) = FatAt(b) => c = b BY <2>2, FatCellFacts
  <2> QED BY <1>3, <2>1, <2>3
<1>5. \A b \in DataBlock, o \in Within : e[Cell(b, o)] = d[Cell(b, o)] BY <1>3, DataCellFacts
<1> QED BY <1>0, <1>1, <1>2, <1>3, <1>4, <1>5 DEF PutLink

-----------------------------------------------------------------------------
(***************************************************************************)
(* mkfs keeps the image exact.                                             *)
(***************************************************************************)

\* The type invariant in the words of the proofs.
LEMMA TypeFacts ==
    ASSUME FatTypeOK
    PROVE  /\ disk \in Disks /\ sizes \in [Files -> Sizes] /\ i \in Nat /\ i >= 1
           /\ start \in 0 .. RootBlock /\ current \in 0 .. RootBlock
           /\ left \in 0 .. BlockSize /\ total \in Nat
           /\ step \in {"next", "copy", "full", "done"}
           /\ \A f \in Files : f \in Nat /\ f >= 1 /\ sizes[f] \in Nat
           /\ RootBlock \in DataBlock /\ RootBlock \in Nat
<1>1. /\ disk \in Disks /\ sizes \in [Files -> Sizes]
      /\ left \in 0 .. BlockSize /\ total \in Nat
      /\ step \in {"next", "copy", "full", "done"}
  BY DEF FatTypeOK, Disks, Address
<1>2. start \in 0 .. RootBlock /\ current \in 0 .. RootBlock BY DEF FatTypeOK, RootBlock
<1>3. i \in Nat /\ i >= 1 BY Geometry DEF FatTypeOK
<1>4. \A f \in Files : f \in Nat /\ f >= 1 /\ sizes[f] \in Nat
  <2>1. Sizes \subseteq Nat /\ \A f \in Files : f \in Nat /\ f >= 1 BY Geometry
  <2>2. \A f \in Files : sizes[f] \in Sizes BY <1>1
  <2> QED BY <2>1, <2>2
<1>5. RootBlock \in DataBlock /\ RootBlock \in Nat BY Geometry DEF RootBlock, DataBlock
<1> QED BY <1>1, <1>2, <1>3, <1>4, <1>5

\* Where the directory says that a file begins.
LEMMA EntryAddress ==
    ASSUME SuperExact
    PROVE  \A f \in Files : /\ \A k \in 1 .. EntrySize : EntryAt(f) + k - 1 = Cell(RootBlock, EntryCell(f, k))
                            /\ EntryAt(f) + NameCells = Cell(RootBlock, EntryCell(f, EntrySize))
                            /\ EntrySize \in 1 .. EntrySize
<1> SUFFICES ASSUME NEW f \in Files
             PROVE  /\ \A k \in 1 .. EntrySize : EntryAt(f) + k - 1 = Cell(RootBlock, EntryCell(f, k))
                    /\ EntryAt(f) + NameCells = Cell(RootBlock, EntryCell(f, EntrySize))
                    /\ EntrySize \in 1 .. EntrySize
  OBVIOUS
<1>1. RootBlock * BlockSize \in Int BY Geometry DEF RootBlock
<1>2. f - 1 \in Int /\ EntrySize \in Int /\ EntrySize >= 1 /\ EntrySize = NameCells + 1 BY Geometry
<1>3. PICK m \in Int : m = (f - 1) * EntrySize BY <1>2
<1>4. EntryAt(f) = RootBlock * BlockSize + Header + m BY <1>3 DEF SuperExact, EntryAt
<1>5. \A k \in 1 .. EntrySize : Cell(RootBlock, EntryCell(f, k)) = RootBlock * BlockSize + (Header + m + k - 1)
  BY <1>3 DEF Cell, EntryCell
<1> QED BY <1>1, <1>2, <1>4, <1>5, Geometry

\* Where a file that is in the directory begins, before and after a step.
LEMMA DirectoryFacts ==
    ASSUME SuperExact
    PROVE  \A f \in Files : f < i => FirstBlock(f) = disk[Cell(RootBlock, EntryCell(f, EntrySize))]
<1> SUFFICES ASSUME NEW f \in Files, f < i
             PROVE  FirstBlock(f) = disk[Cell(RootBlock, EntryCell(f, EntrySize))]
  OBVIOUS
<1>1. f # i BY Geometry
<1> QED BY <1>1, EntryAddress DEF FirstBlock

LEMMA DirectoryNext ==
    ASSUME SuperExact, disk'[RootAt] = disk[RootAt], NEW f \in Files, f < i'
    PROVE  FirstBlock(f)' = disk'[Cell(RootBlock, EntryCell(f, EntrySize))]
<1>1. f # i' BY Geometry
<1>2. EntryAt(f)' = EntryAt(f) BY DEF EntryAt
<1>3. FirstBlock(f)' = disk'[EntryAt(f) + NameCells] BY <1>1, <1>2 DEF FirstBlock
<1> QED BY <1>3, EntryAddress

\* What getBlock() takes is the highest block available.
LEMMA TakeFacts ==
    ASSUME FatTypeOK, SuperExact, LinksExact, RangesExact, disk[AvailAt] # 0
    PROVE  /\ disk[AvailAt] = Top /\ Top \in FatBlocks + 1 .. RootBlock - 1
           /\ GetBlock(disk) \in Disks
           /\ \A a \in {0, 1, RootAt} : GetBlock(disk)[a] = disk[a]
           /\ GetBlock(disk)[AvailAt] = IF Top = FatBlocks + 1 THEN 0 ELSE Top - 1
           /\ \A b \in 0 .. RootBlock : GetBlock(disk)[FatAt(b)] = IF b = Top THEN 0 ELSE disk[FatAt(b)]
           /\ \A b \in DataBlock, o \in Within : GetBlock(disk)[Cell(b, o)] = disk[Cell(b, o)]
<1>1. disk[AvailAt] = Top /\ Top \in FatBlocks + 1 .. RootBlock - 1 BY DEF SuperExact, Top
<1>2. Top \in 0 .. RootBlock /\ Top # RootBlock /\ disk \in Disks BY <1>1, TypeFacts, Geometry
<1>3. disk[FatAt(Top)] = IF Top = FatBlocks + 1 THEN 0 ELSE Top - 1
  <2>1. \A f \in Begun : Top # LastBlock(f) BY <1>1, Geometry DEF RangesExact
  <2>2. Top <= FatBlocks + 1 <=> Top = FatBlocks + 1 BY <1>1, Geometry
  <2>3. disk[FatAt(Top)] = IF \/ Top <= FatBlocks + 1 \/ Top = RootBlock
                             \/ \E f \in Begun : Top = LastBlock(f)
                           THEN 0 ELSE Top - 1
    BY <1>2 DEF LinksExact
  <2> QED BY <1>2, <2>1, <2>2, <2>3
<1> QED BY <1>1, <1>2, <1>3, GetBlockFacts

\* A file is started.
LEMMA StartFileStep ==
    ASSUME FatTypeOK, ImageInv, StartFile, disk[AvailAt] # 0
    PROVE  disk' \in Disks /\ ImageInv'
<1> USE DEF ImageInv
<1> DEFINE s == Top
<1>0. PICK m : m = i OBVIOUS
<1>1. /\ step = "next" /\ i \in Files /\ step' = "copy" /\ i' = i /\ sizes' = sizes
      /\ start' = s /\ current' = s /\ total' = 0 /\ left' = BlockSize - Header
      /\ disk' = [GetBlock(disk) EXCEPT ![Cell(s, 0)] = 1]
  <2>1. disk[AvailAt] = Top /\ Top \in Int BY TakeFacts, Geometry
  <2>2. s * BlockSize = Cell(s, 0) BY <2>1, Geometry DEF Cell
  <2> QED BY <2>1, <2>2 DEF StartFile
<1>2. /\ s \in FatBlocks + 1 .. RootBlock - 1 /\ s \in DataBlock /\ s \in Int /\ 0 \in Within /\ 1 \in Within
      /\ s # RootBlock /\ RootBlock \in Int
  BY TakeFacts, Geometry DEF DataBlock, Within, RootBlock
<1>3. /\ disk' \in Disks
      /\ disk'[0] = disk[0] /\ disk'[1] = disk[1] /\ disk'[RootAt] = disk[RootAt]
      /\ disk'[AvailAt] = IF s = FatBlocks + 1 THEN 0 ELSE s - 1
      /\ \A b \in 0 .. RootBlock : disk'[FatAt(b)] = IF b = s THEN 0 ELSE disk[FatAt(b)]
      /\ \A b \in DataBlock, o \in Within :
            disk'[Cell(b, o)] = IF b = s /\ o = 0 THEN 1 ELSE disk[Cell(b, o)]
  <2>1. PICK d \in Disks : d = GetBlock(disk) BY TakeFacts
  <2>2. PICK e : e = disk' OBVIOUS
  <2>3. PICK c \in DataBlock : c = s BY <1>2
  <2>4. e = [d EXCEPT ![Cell(c, 0)] = 1] BY <1>1, <2>1, <2>2, <2>3
  <2>5. Put(d, e, c, 0, 1)
    <3>1. 0 \in Within /\ 1 \in Nat BY <1>2
    <3>2. Put(d, [d EXCEPT ![Cell(c, 0)] = 1], c, 0, 1) BY <3>1, PutFacts
    <3> QED BY <2>4, <3>2
  <2>6. /\ \A a \in {0, 1, RootAt} : d[a] = disk[a]
        /\ d[AvailAt] = IF s = FatBlocks + 1 THEN 0 ELSE s - 1
        /\ \A b \in 0 .. RootBlock : d[FatAt(b)] = IF b = s THEN 0 ELSE disk[FatAt(b)]
        /\ \A b \in DataBlock, o \in Within : d[Cell(b, o)] = disk[Cell(b, o)]
    BY <2>1, TakeFacts
  <2> QED BY <2>2, <2>3, <2>5, <2>6 DEF Put
<1>4. Top' = s - 1 BY <1>2, <1>3, Geometry DEF Top
<1>5. SuperExact' BY <1>2, <1>3, Geometry DEF SuperExact
<1>6. RootBlock \in DataBlock /\ \A f \in Files, k \in 1 .. EntrySize : EntryCell(f, k) \in Within
  BY TypeFacts, EntryFacts
<1>7. RootExact'
  <2>1. \A k \in 1 .. NameCells : k \in 1 .. EntrySize BY Geometry
  <2> QED BY <1>1, <1>2, <1>3, <1>6, <2>1 DEF RootExact
<1>8. Begun' = Begun \cup {m} /\ \A f \in Begun : f < i /\ f # i /\ f \in Files
  BY <1>0, <1>1, Geometry, TypeFacts DEF Begun
<1>9. ASSUME NEW f \in Begun
      PROVE  FirstBlock(f)' = FirstBlock(f) /\ LastBlock(f)' = LastBlock(f)
  <2>1. f < i /\ f # i /\ f \in Files /\ EntrySize \in 1 .. EntrySize BY <1>8, Geometry
  <2>2. FirstBlock(f) = disk[Cell(RootBlock, EntryCell(f, EntrySize))]
    BY <2>1, DirectoryFacts
  <2>3. FirstBlock(f)' = disk'[Cell(RootBlock, EntryCell(f, EntrySize))]
    BY <1>1, <1>3, <2>1, DirectoryNext
  <2>4. FirstBlock(f)' = FirstBlock(f) BY <1>2, <1>3, <1>6, <2>1, <2>2, <2>3
  <2> QED BY <1>1, <2>1, <2>4 DEF LastBlock
<1>10. FirstBlock(m)' = s /\ LastBlock(m)' = s BY <1>0, <1>1, TypeFacts DEF FirstBlock, LastBlock
<1>11. LinksExact'
  <2> SUFFICES ASSUME NEW b \in 0 .. RootBlock
               PROVE  disk'[FatAt(b)] = IF \/ b <= FatBlocks + 1 \/ b = RootBlock
                                           \/ \E f \in Begun' : b = LastBlock(f)'
                                        THEN 0 ELSE b - 1
    BY DEF LinksExact
  <2>1. (\E f \in Begun' : b = LastBlock(f)') <=> b = s \/ \E f \in Begun : b = LastBlock(f)
    BY <1>8, <1>9, <1>10
  <2> QED BY <1>3, <2>1 DEF LinksExact
<1>12. RangesExact'
  <2>1. ASSUME NEW f \in Begun' PROVE /\ FirstBlock(f)' \in Int /\ LastBlock(f)' \in Int
                                      /\ Top' < LastBlock(f)' /\ LastBlock(f)' <= FirstBlock(f)'
                                      /\ FirstBlock(f)' < RootBlock
    BY <1>2, <1>4, <1>8, <1>9, <1>10 DEF RangesExact
  <2>2. ASSUME NEW f \in Begun', NEW g \in Begun', f < g PROVE FirstBlock(g)' < LastBlock(f)'
    <3>1. f \in Begun
      <4>1. g <= m /\ g \in Nat /\ m \in Nat BY <1>0, <1>8, TypeFacts
      <4>2. f # m BY <2>2, <4>1
      <4> QED BY <1>8, <4>2
    <3>2. CASE g = m BY <1>2, <1>9, <1>10, <3>1, <3>2 DEF RangesExact
    <3>3. CASE g # m BY <1>8, <1>9, <2>2, <3>1, <3>3 DEF RangesExact
    <3> QED BY <3>2, <3>3
  <2>3. ASSUME NEW b \in Top' + 1 .. RootBlock - 1
        PROVE  \E f \in Begun' : LastBlock(f)' <= b /\ b <= FirstBlock(f)'
    <3>1. CASE b = s BY <1>2, <1>8, <1>10, <3>1
    <3>2. CASE b # s
      <4>1. b \in Top + 1 .. RootBlock - 1 BY <1>2, <1>4, <3>2
      <4>2. PICK f \in Begun : LastBlock(f) <= b /\ b <= FirstBlock(f) BY <4>1 DEF RangesExact
      <4> QED BY <1>8, <1>9, <4>2
    <3> QED BY <3>1, <3>2
  <2> QED BY <2>1, <2>2, <2>3 DEF RangesExact
<1>13. CopyExact'
  <2>1. Nth(s - s, BlockSize - (BlockSize - Header)) = 0 BY <1>2, Geometry DEF Nth
  <2>2. 0 <= sizes[i] BY <1>1, TypeFacts
  <2> QED BY <1>1, <1>2, <1>4, <2>1, <2>2 DEF CopyExact
<1>14. HeadersExact'
  <2>1. \A f \in Begun : FirstBlock(f) \in DataBlock /\ FirstBlock(f) # s
    BY <1>2, Geometry DEF RangesExact, DataBlock
  <2>2. ASSUME NEW f \in Begun
        PROVE  disk'[Cell(FirstBlock(f)', 0)] = 1 /\ disk'[Cell(FirstBlock(f)', 1)] = sizes[f]'
    <3>1. PICK b \in DataBlock : b = FirstBlock(f) /\ b # s BY <2>1
    <3>2. disk[Cell(b, 0)] = 1 /\ disk[Cell(b, 1)] = sizes[f] BY <1>8, <3>1 DEF HeadersExact
    <3>3. disk'[Cell(b, 0)] = disk[Cell(b, 0)] /\ disk'[Cell(b, 1)] = disk[Cell(b, 1)]
      BY <1>2, <1>3, <3>1
    <3> QED BY <1>1, <1>9, <3>1, <3>2, <3>3
  <2>3. disk'[Cell(s, 0)] = 1 /\ ~(m < i') BY <1>0, <1>1, <1>2, <1>3, TypeFacts
  <2> QED BY <1>8, <1>10, <2>2, <2>3 DEF HeadersExact
<1>15. DataExact'
  <2> SUFFICES ASSUME NEW f \in Begun', NEW b \in LastBlock(f)' .. FirstBlock(f)', NEW o \in Within,
                      Nth(FirstBlock(f)' - b, o) \in 0 .. Written(f)' - 1
               PROVE  disk'[Cell(b, o)] = Data(f, Nth(FirstBlock(f)' - b, o))
    BY DEF DataExact
  <2>1. f \in Begun
    <3>1. Written(m)' = 0 BY <1>0, <1>1, TypeFacts DEF Written
    <3> QED BY <1>8, <3>1
  <2>2. Written(f)' = Written(f) BY <1>1, <1>8, <2>1 DEF Written
  <2>3. b \in LastBlock(f) .. FirstBlock(f) /\ b \in DataBlock /\ b # s
    BY <1>2, <1>9, <2>1, Geometry DEF RangesExact, DataBlock
  <2> QED BY <1>3, <1>9, <2>1, <2>2, <2>3 DEF DataExact
<1> QED BY <1>3, <1>5, <1>7, <1>11, <1>12, <1>13, <1>14, <1>15

\* A file gets a further block.
LEMMA NewBlockStep ==
    ASSUME FatTypeOK, ImageInv, NewBlock, disk[AvailAt] # 0
    PROVE  disk' \in Disks /\ ImageInv'
<1> USE DEF ImageInv
<1> DEFINE s == Top
<1>0. PICK m, n : m = i /\ n = current OBVIOUS
<1>1. /\ step = "copy" /\ step' = "copy" /\ i' = i /\ sizes' = sizes /\ left = 0
      /\ start' = start /\ current' = s /\ total' = total /\ left' = BlockSize
      /\ disk' = [GetBlock(disk) EXCEPT ![FatAt(current)] = s]
  BY TakeFacts DEF NewBlock
<1>2. /\ s \in FatBlocks + 1 .. RootBlock - 1 /\ s \in DataBlock /\ s \in Int
      /\ s # RootBlock /\ RootBlock \in Int /\ s \in Nat
      /\ 0 \in Within /\ 1 \in Within
  BY TakeFacts, Geometry DEF DataBlock, Within, RootBlock
<1>3. Begun' = Begun /\ m \in Begun /\ m \in Files /\ \A f \in Begun : f \in Files /\ (f = m \/ (f < m /\ f # m))
  BY <1>0, <1>1, Geometry, TypeFacts DEF Begun, CopyExact
<1>4. /\ current = s + 1 /\ current \in 0 .. RootBlock /\ current # RootBlock
      /\ FirstBlock(m) = start /\ LastBlock(m) = current /\ current <= start /\ start < RootBlock
      /\ start \in Int /\ current \in Int
  <2>1. FirstBlock(m) = start /\ LastBlock(m) = current
    BY <1>0, TypeFacts DEF FirstBlock, LastBlock
  <2> QED BY <1>1, <1>2, <1>3, <2>1, TypeFacts DEF CopyExact, RangesExact
<1>5. /\ disk' \in Disks
      /\ disk'[0] = disk[0] /\ disk'[1] = disk[1] /\ disk'[RootAt] = disk[RootAt]
      /\ disk'[AvailAt] = IF s = FatBlocks + 1 THEN 0 ELSE s - 1
      /\ \A b \in 0 .. RootBlock :
            disk'[FatAt(b)] = IF b = n THEN s ELSE IF b = s THEN 0 ELSE disk[FatAt(b)]
      /\ \A b \in DataBlock, o \in Within : disk'[Cell(b, o)] = disk[Cell(b, o)]
  <2>1. PICK d \in Disks : d = GetBlock(disk) BY TakeFacts
  <2>2. PICK e : e = disk' OBVIOUS
  <2>3. PICK v \in Nat : v = s BY <1>2
  <2>4. e = [d EXCEPT ![FatAt(n)] = v] /\ n \in 0 .. RootBlock BY <1>0, <1>1, <1>4, <2>1, <2>2, <2>3
  <2>5. PutLink(d, e, n, v)
    <3>1. PutLink(d, [d EXCEPT ![FatAt(n)] = v], n, v) BY <2>4, PutLinkFacts
    <3> QED BY <2>4, <3>1
  <2>6. /\ \A a \in {0, 1, RootAt} : d[a] = disk[a]
        /\ d[AvailAt] = IF s = FatBlocks + 1 THEN 0 ELSE s - 1
        /\ \A b \in 0 .. RootBlock : d[FatAt(b)] = IF b = s THEN 0 ELSE disk[FatAt(b)]
        /\ \A b \in DataBlock, o \in Within : d[Cell(b, o)] = disk[Cell(b, o)]
    BY <2>1, TakeFacts
  <2> QED BY <2>2, <2>3, <2>5, <2>6 DEF PutLink
<1>6. Top' = s - 1 BY <1>2, <1>5, Geometry DEF Top
<1>7. SuperExact' BY <1>2, <1>5, Geometry DEF SuperExact
<1>8. RootBlock \in DataBlock /\ \A f \in Files, k \in 1 .. EntrySize : EntryCell(f, k) \in Within
  BY TypeFacts, EntryFacts
<1>9. RootExact'
  <2>1. \A k \in 1 .. NameCells : k \in 1 .. EntrySize BY Geometry
  <2> QED BY <1>1, <1>2, <1>5, <1>8, <2>1 DEF RootExact
<1>10. ASSUME NEW f \in Begun, f # m
       PROVE  FirstBlock(f)' = FirstBlock(f) /\ LastBlock(f)' = LastBlock(f)
  <2>1. f < i /\ f < i' /\ f \in Files /\ EntrySize \in 1 .. EntrySize BY <1>0, <1>1, <1>3, <1>10, Geometry
  <2>2. FirstBlock(f) = disk[Cell(RootBlock, EntryCell(f, EntrySize))] BY <2>1, DirectoryFacts
  <2>3. FirstBlock(f)' = disk'[Cell(RootBlock, EntryCell(f, EntrySize))] BY <1>5, <2>1, DirectoryNext
  <2>4. FirstBlock(f)' = FirstBlock(f) BY <1>5, <1>8, <2>1, <2>2, <2>3
  <2> QED BY <1>1, <2>1, <2>4 DEF LastBlock
<1>11. FirstBlock(m)' = start /\ LastBlock(m)' = s BY <1>0, <1>1, TypeFacts DEF FirstBlock, LastBlock
<1>12. LinksExact'
  <2> SUFFICES ASSUME NEW b \in 0 .. RootBlock
               PROVE  disk'[FatAt(b)] = IF \/ b <= FatBlocks + 1 \/ b = RootBlock
                                           \/ \E f \in Begun' : b = LastBlock(f)'
                                        THEN 0 ELSE b - 1
    BY DEF LinksExact
  <2>1. (\E f \in Begun' : b = LastBlock(f)') <=> b = s \/ \E f \in Begun : f # m /\ b = LastBlock(f)
    BY <1>3, <1>10, <1>11
  <2>2. (\E f \in Begun : b = LastBlock(f)) <=> b = n \/ \E f \in Begun : f # m /\ b = LastBlock(f)
    BY <1>0, <1>3, <1>4
  <2>3. \A f \in Begun : f # m => n # LastBlock(f)
    BY <1>0, <1>2, <1>3, <1>4 DEF RangesExact
  <2>4. CASE b = n
    <3>1. ~(b <= FatBlocks + 1) /\ b # RootBlock /\ b # s /\ b - 1 = s BY <1>0, <1>2, <1>4, <2>4, Geometry
    <3>2. ~ \E f \in Begun' : b = LastBlock(f)' BY <2>1, <2>3, <2>4, <3>1
    <3> QED BY <1>5, <2>4, <3>1, <3>2
  <2>5. CASE b = s BY <1>0, <1>4, <1>5, <2>1, <2>5
  <2>6. CASE b # s /\ b # n BY <1>5, <2>1, <2>2, <2>6 DEF LinksExact
  <2> QED BY <2>4, <2>5, <2>6
<1>13. RangesExact'
  <2>1. ASSUME NEW f \in Begun' PROVE /\ FirstBlock(f)' \in Int /\ LastBlock(f)' \in Int
                                      /\ Top' < LastBlock(f)' /\ LastBlock(f)' <= FirstBlock(f)'
                                      /\ FirstBlock(f)' < RootBlock
    <3>1. CASE f = m BY <1>2, <1>4, <1>6, <1>11, <3>1
    <3>2. CASE f # m
      <4>1. FirstBlock(f)' = FirstBlock(f) /\ LastBlock(f)' = LastBlock(f) /\ f \in Begun BY <1>3, <1>10, <3>2
      <4> QED BY <1>2, <1>6, <4>1 DEF RangesExact
    <3> QED BY <3>1, <3>2
  <2>2. ASSUME NEW f \in Begun', NEW g \in Begun', f < g PROVE FirstBlock(g)' < LastBlock(f)'
    <3>1. f \in Begun /\ f # m /\ g \in Begun
      <4>1. g <= m /\ g \in Nat /\ m \in Nat BY <1>0, <1>3, TypeFacts
      <4> QED BY <1>3, <2>2, <4>1
    <3>2. FirstBlock(g)' = FirstBlock(g) BY <1>4, <1>10, <1>11, <3>1
    <3> QED BY <1>10, <2>2, <3>1, <3>2 DEF RangesExact
  <2>3. ASSUME NEW b \in Top' + 1 .. RootBlock - 1
        PROVE  \E f \in Begun' : LastBlock(f)' <= b /\ b <= FirstBlock(f)'
    <3>1. CASE b = s BY <1>2, <1>3, <1>4, <1>11, <3>1
    <3>2. CASE b # s
      <4>1. b \in Top + 1 .. RootBlock - 1 BY <1>2, <1>6, <3>2
      <4>2. PICK f \in Begun : LastBlock(f) <= b /\ b <= FirstBlock(f) BY <4>1 DEF RangesExact
      <4>3. CASE f = m BY <1>2, <1>3, <1>4, <1>11, <4>1, <4>2, <4>3
      <4>4. CASE f # m BY <1>3, <1>10, <4>2, <4>4
      <4> QED BY <4>3, <4>4
    <3> QED BY <3>1, <3>2
  <2> QED BY <2>1, <2>2, <2>3 DEF RangesExact
<1>14. Nth(start - s, 0) = total
  <2>1. Nth(start - current, BlockSize) = total
    <3>1. BlockSize - left = BlockSize BY <1>1, Geometry
    <3> QED BY <1>1, <3>1 DEF CopyExact
  <2>2. PICK q \in Int : q = start - current BY <1>4
  <2>3. start - s = q + 1 BY <1>2, <1>4, <2>2
  <2>4. (q + 1) * BlockSize = q * BlockSize + BlockSize /\ q * BlockSize \in Int BY Geometry
  <2> QED BY <2>1, <2>2, <2>3, <2>4, Geometry DEF Nth
<1>15. CopyExact'
  <2>1. BlockSize - BlockSize = 0 /\ current' = Top' + 1 BY <1>1, <1>2, <1>6, Geometry
  <2> QED BY <1>1, <1>14, <2>1 DEF CopyExact
<1>16. HeadersExact'
  <2> SUFFICES ASSUME NEW f \in Begun
               PROVE  /\ disk'[Cell(FirstBlock(f)', 0)] = 1
                      /\ f < i => disk'[Cell(FirstBlock(f)', 1)] = sizes[f]
    BY <1>1, <1>3 DEF HeadersExact
  <2>1. FirstBlock(f)' = FirstBlock(f) BY <1>4, <1>10, <1>11
  <2>2. FirstBlock(f) \in DataBlock BY <1>2, Geometry DEF RangesExact, DataBlock
  <2> QED BY <1>2, <1>5, <2>1, <2>2 DEF HeadersExact
<1>17. DataExact'
  <2> SUFFICES ASSUME NEW f \in Begun', NEW b \in LastBlock(f)' .. FirstBlock(f)', NEW o \in Within,
                      Nth(FirstBlock(f)' - b, o) \in 0 .. Written(f)' - 1
               PROVE  disk'[Cell(b, o)] = Data(f, Nth(FirstBlock(f)' - b, o))
    BY DEF DataExact
  <2>1. Written(f)' = Written(f) /\ f \in Begun BY <1>1, <1>3 DEF Written
  <2>2. FirstBlock(f)' = FirstBlock(f) BY <1>4, <1>10, <1>11, <2>1
  <2>3. b \in LastBlock(f) .. FirstBlock(f)
    <3>1. CASE f # m BY <1>10, <2>1, <3>1
    <3>2. CASE f = m
      <4>1. b # s
        <5> SUFFICES ASSUME b = s PROVE FALSE OBVIOUS
        <5>1. Written(m) = total BY <1>0, TypeFacts DEF Written
        <5>2. Nth(start - s, o) = total + o
          <6>1. (start - s) * BlockSize \in Int /\ o \in Int BY <1>2, <1>4, Geometry DEF Within
          <6> QED BY <1>14, <6>1, Geometry DEF Nth
        <5>3. Nth(start - s, o) \in 0 .. total - 1 BY <1>11, <2>1, <3>2, <5>1
        <5> QED BY <5>2, <5>3, TypeFacts, Geometry DEF Within
      <4> QED BY <1>2, <1>4, <1>11, <3>2, <4>1
    <3> QED BY <3>1, <3>2
  <2>4. b \in DataBlock BY <1>2, <2>1, <2>3, Geometry DEF RangesExact, DataBlock
  <2> QED BY <1>5, <2>1, <2>2, <2>3, <2>4 DEF DataExact
<1> QED BY <1>5, <1>7, <1>9, <1>12, <1>13, <1>15, <1>16, <1>17

\* Where a file that is copied has come to.
LEMMA CopyFacts ==
    ASSUME FatTypeOK, ImageInv, step = "copy"
    PROVE  /\ i \in Files /\ i \in Begun /\ \A f \in Begun : f \in Files /\ (f = i \/ (f < i /\ f # i))
           /\ FirstBlock(i) = start /\ LastBlock(i) = current
           /\ current \in DataBlock /\ start \in DataBlock /\ current \in Int /\ start \in Int
           /\ current <= start /\ start < RootBlock /\ current # RootBlock /\ start # RootBlock
           /\ Nth(start - current, BlockSize - left) = total
           /\ total <= sizes[i]
<1>1. i \in Files BY DEF ImageInv, CopyExact
<1>2. i \in Begun /\ \A f \in Begun : f \in Files /\ (f = i \/ (f < i /\ f # i))
  BY <1>1, Geometry, TypeFacts DEF Begun
<1>3. FirstBlock(i) = start /\ LastBlock(i) = current BY <1>1, Geometry DEF FirstBlock, LastBlock
<1>4. /\ Top < current /\ current <= start /\ start < RootBlock /\ current \in Int /\ start \in Int
  BY <1>2, <1>3 DEF ImageInv, RangesExact
<1>5. Top \in Int /\ Top >= FatBlocks BY Geometry DEF ImageInv, SuperExact, Top
<1> QED BY <1>1, <1>2, <1>3, <1>4, <1>5, Geometry DEF ImageInv, CopyExact, DataBlock, RootBlock

\* Earlier files have other blocks.
LEMMA OtherBlocks ==
    ASSUME FatTypeOK, ImageInv, step = "copy", NEW f \in Begun, f # i,
           NEW b \in LastBlock(f) .. FirstBlock(f)
    PROVE  b > start /\ b < RootBlock /\ b \in DataBlock
<1>1. f < i /\ i \in Begun /\ FirstBlock(i) = start /\ start \in DataBlock BY CopyFacts
<1>2. start < LastBlock(f) /\ LastBlock(f) \in Int /\ FirstBlock(f) \in Int /\ FirstBlock(f) < RootBlock
  BY <1>1 DEF ImageInv, RangesExact
<1> QED BY <1>1, <1>2, Geometry DEF DataBlock, RootBlock

\* The host's file goes on.
LEMMA ReadSomeStep ==
    ASSUME FatTypeOK, ImageInv, NEW n \in 1 .. BlockSize, ReadSome(n)
    PROVE  disk' \in Disks /\ ImageInv'
<1> USE DEF ImageInv
<1>0. PICK m, first, cur, done, room :
         m = i /\ first = start /\ cur = current /\ done = total /\ room = BlockSize - left
  OBVIOUS
<1>1. /\ step = "copy" /\ step' = "copy" /\ i' = i /\ sizes' = sizes
      /\ start' = start /\ current' = current /\ total' = total + n /\ left' = left - n
      /\ n <= left /\ n <= sizes[i] - total
      /\ disk' = [a \in DOMAIN disk |->
                  LET k == a - (current + 1) * BlockSize + left
                  IN  IF k \in 0 .. n - 1 THEN Data(i, total + k) ELSE disk[a]]
  BY DEF ReadSome
<1>2. /\ m \in Files /\ m \in Begun /\ \A f \in Begun : f \in Files /\ (f = m \/ (f < m /\ f # m))
      /\ FirstBlock(m) = first /\ LastBlock(m) = cur
      /\ cur \in DataBlock /\ first \in DataBlock /\ cur \in Int /\ first \in Int
      /\ cur <= first /\ first < RootBlock /\ cur # RootBlock /\ first # RootBlock
      /\ Nth(first - cur, room) = done
      /\ done <= sizes[m] /\ sizes[m] \in Nat
  BY <1>0, <1>1, CopyFacts, TypeFacts
<1>3. /\ n \in Nat /\ n >= 1 /\ done \in Nat /\ room \in Int /\ room >= 0 /\ room + n <= BlockSize
      /\ BlockSize \in Nat /\ m \in Nat /\ 0 \in Within /\ 1 \in Within
  BY <1>0, <1>1, <1>2, TypeFacts, Geometry DEF Within
<1>4. disk' \in Disks /\ \A a \in Address : disk'[a] = LET k == a - cur * BlockSize - room
                                        IN  IF k \in 0 .. n - 1 THEN Data(m, done + k) ELSE disk[a]
  <2>1. DOMAIN disk = Address /\ \A a \in Address : disk[a] \in Nat BY TypeFacts DEF Disks
  <2>2. (cur + 1) * BlockSize = cur * BlockSize + BlockSize /\ cur * BlockSize \in Int BY <1>2, <1>3
  <2>3. \A a \in Address : a \in Int BY Geometry DEF Address
  <2>4. ASSUME NEW a \in Address
        PROVE  a - (cur + 1) * BlockSize + left = a - cur * BlockSize - room
    BY <1>0, <2>2, <2>3, TypeFacts, Geometry
  <2>5. \A a \in Address : disk'[a] = LET k == a - cur * BlockSize - room
                                     IN  IF k \in 0 .. n - 1 THEN Data(m, done + k) ELSE disk[a]
    BY <1>0, <1>1, <2>1, <2>4
  <2>6. \A k \in 0 .. n - 1 : Data(m, done + k) \in Nat BY <1>3 DEF Data
  <2>7. \A a \in Address : disk'[a] \in Nat BY <2>1, <2>5, <2>6
  <2>8. disk' = [a \in Address |-> disk'[a]] BY <1>1, <2>1
  <2> QED BY <2>5, <2>7, <2>8 DEF Disks
<1>5. ASSUME NEW a \in Address, a - cur * BlockSize - room \in 0 .. n - 1
      PROVE  a - cur * BlockSize \in Within /\ a = Cell(cur, a - cur * BlockSize)
  <2>1. a \in Int /\ cur * BlockSize \in Int BY <1>2, <1>3, Geometry DEF Address
  <2> QED BY <1>3, <1>5, <2>1 DEF Within, Cell
<1>6. ASSUME NEW a \in Address, \A p \in Within : a # Cell(cur, p) PROVE disk'[a] = disk[a]
  BY <1>4, <1>5, <1>6
<1>7. /\ disk'[0] = disk[0] /\ disk'[1] = disk[1] /\ disk'[RootAt] = disk[RootAt]
      /\ disk'[AvailAt] = disk[AvailAt]
  BY <1>2, <1>6, DataCellFacts, SuperFacts
<1>8. \A b \in 0 .. RootBlock : disk'[FatAt(b)] = disk[FatAt(b)]
  BY <1>2, <1>6, DataCellFacts, FatCellFacts
<1>9. \A b \in DataBlock, o \in Within : b # cur => disk'[Cell(b, o)] = disk[Cell(b, o)]
  BY <1>2, <1>6, DataCellFacts
<1>10. \A o \in Within : disk'[Cell(cur, o)] = IF o - room \in 0 .. n - 1
                                               THEN Data(m, done + (o - room)) ELSE disk[Cell(cur, o)]
  <2> SUFFICES ASSUME NEW o \in Within
               PROVE  disk'[Cell(cur, o)] = IF o - room \in 0 .. n - 1
                                            THEN Data(m, done + (o - room)) ELSE disk[Cell(cur, o)]
    OBVIOUS
  <2>1. Cell(cur, o) \in Address BY <1>2, DataCellFacts
  <2>2. Cell(cur, o) - cur * BlockSize - room = o - room
    BY <1>2, <1>3, Geometry DEF Cell, Within
  <2> QED BY <1>4, <2>1, <2>2
<1>11. SuperExact' BY <1>7 DEF SuperExact
<1>12. RootBlock \in DataBlock /\ \A f \in Files, k \in 1 .. EntrySize : EntryCell(f, k) \in Within
  BY TypeFacts, EntryFacts
<1>13. RootExact'
  <2>1. \A k \in 1 .. NameCells : k \in 1 .. EntrySize BY Geometry
  <2> QED BY <1>1, <1>2, <1>3, <1>9, <1>12, <2>1 DEF RootExact
<1>14. Begun' = Begun BY <1>1 DEF Begun
<1>15. ASSUME NEW f \in Begun
       PROVE  FirstBlock(f)' = FirstBlock(f) /\ LastBlock(f)' = LastBlock(f)
  <2>1. CASE f = m BY <1>0, <1>1, <1>2, <1>3, <2>1 DEF FirstBlock, LastBlock
  <2>2. CASE f # m
    <3>1. f < i /\ f < i' /\ f \in Files /\ EntrySize \in 1 .. EntrySize BY <1>0, <1>1, <1>2, <2>2, Geometry
    <3>2. FirstBlock(f) = disk[Cell(RootBlock, EntryCell(f, EntrySize))] BY <3>1, DirectoryFacts
    <3>3. FirstBlock(f)' = disk'[Cell(RootBlock, EntryCell(f, EntrySize))] BY <1>7, <3>1, DirectoryNext
    <3>4. FirstBlock(f)' = FirstBlock(f) BY <1>2, <1>9, <1>12, <3>1, <3>2, <3>3
    <3> QED BY <1>1, <3>1, <3>4 DEF LastBlock
  <2> QED BY <2>1, <2>2
<1>16. Top' = Top BY <1>7 DEF Top
<1>17. LinksExact' BY <1>8, <1>14, <1>15 DEF LinksExact
<1>18. RangesExact' BY <1>14, <1>15, <1>16 DEF RangesExact
<1>19. CopyExact'
  <2>1. BlockSize - (left - n) = room + n BY <1>0, <1>3, TypeFacts
  <2>2. (first - cur) * BlockSize \in Int BY <1>2, <1>3
  <2>3. Nth(first - cur, room + n) = done + n BY <1>2, <1>3, <2>2 DEF Nth, Header
  <2>4. total + n <= sizes[i] BY <1>0, <1>1, <1>2, <1>3
  <2> QED BY <1>0, <1>1, <1>16, <2>1, <2>3, <2>4 DEF CopyExact
<1>20. HeadersExact'
  <2> SUFFICES ASSUME NEW f \in Begun
               PROVE  /\ disk'[Cell(FirstBlock(f)', 0)] = 1
                      /\ f < i => disk'[Cell(FirstBlock(f)', 1)] = sizes[f]
    BY <1>1, <1>14 DEF HeadersExact
  <2>1. CASE f # m
    <3>1. FirstBlock(f) \in LastBlock(f) .. FirstBlock(f) BY DEF RangesExact
    <3>2. FirstBlock(f) \in DataBlock /\ FirstBlock(f) # cur
      BY <1>0, <1>1, <1>2, <2>1, <3>1, OtherBlocks
    <3> QED BY <1>3, <1>9, <1>15, <3>2 DEF HeadersExact
  <2>2. CASE f = m
    <3>1. CASE first # cur BY <1>0, <1>2, <1>3, <1>9, <1>15, <2>2, <3>1 DEF HeadersExact
    <3>2. CASE first = cur
      <4>1. ~(0 - room \in 0 .. n - 1)
        <5>1. (first - cur) * BlockSize = 0 BY <1>2, <1>3, <3>2
        <5> QED BY <1>2, <1>3, <5>1 DEF Nth, Header
      <4> QED BY <1>0, <1>2, <1>3, <1>10, <1>15, <2>2, <3>2, <4>1 DEF HeadersExact
    <3> QED BY <3>1, <3>2
  <2> QED BY <2>1, <2>2
<1>21. DataExact'
  <2> SUFFICES ASSUME NEW f \in Begun, NEW b \in LastBlock(f) .. FirstBlock(f), NEW o \in Within,
                      Nth(FirstBlock(f) - b, o) \in 0 .. Written(f)' - 1
               PROVE  disk'[Cell(b, o)] = Data(f, Nth(FirstBlock(f) - b, o))
    BY <1>14, <1>15 DEF DataExact
  <2>1. CASE f # m
    <3>1. Written(f)' = Written(f) BY <1>0, <1>1, <1>2, <2>1 DEF Written
    <3>2. b \in DataBlock /\ b # cur BY <1>0, <1>1, <1>2, <2>1, OtherBlocks
    <3> QED BY <1>9, <3>1, <3>2 DEF DataExact
  <2>2. CASE f = m
    <3>1. Written(f)' = done + n /\ Written(f) = done BY <1>0, <1>1, <1>3, <2>2 DEF Written
    <3>2. b \in cur .. first /\ FirstBlock(f) = first /\ b \in DataBlock
      BY <1>2, <2>2, Geometry DEF DataBlock, RootBlock
    <3>3. (first - cur) * BlockSize \in Int /\ (first - b) * BlockSize \in Int /\ o \in Int /\ o >= 0 /\ o < BlockSize
      BY <1>2, <1>3, <3>2 DEF Within
    <3>4. CASE b = cur
      <4>1. Nth(first - b, o) = done + (o - room) BY <1>2, <1>3, <3>3, <3>4 DEF Nth, Header
      <4>2. CASE o - room \in 0 .. n - 1 BY <1>10, <2>2, <3>2, <3>4, <4>1, <4>2
      <4>3. CASE o - room \notin 0 .. n - 1
        <5>1. Nth(first - b, o) \in 0 .. Written(f) - 1 BY <1>3, <3>1, <3>2, <3>3, <4>1, <4>3
        <5>2. disk[Cell(b, o)] = Data(f, Nth(FirstBlock(f) - b, o)) BY <3>2, <5>1 DEF DataExact
        <5> QED BY <1>10, <3>2, <3>4, <4>3, <5>2
      <4> QED BY <4>2, <4>3
    <3>5. CASE b # cur
      <4>1. (first - b) * BlockSize + BlockSize <= (first - cur) * BlockSize
        <5>1. first - b \in Int /\ first - cur \in Int /\ first - b < first - cur BY <1>2, <3>2, <3>5
        <5> QED BY <1>3, <5>1, ProductOrder
      <4>2. Nth(first - b, o) < done BY <1>2, <1>3, <3>3, <4>1 DEF Nth, Header
      <4>3. Nth(first - b, o) \in 0 .. Written(f) - 1 BY <1>3, <3>1, <3>2, <4>2
      <4> QED BY <1>9, <3>2, <3>5, <4>3 DEF DataExact
    <3> QED BY <3>4, <3>5
  <2> QED BY <2>1, <2>2
<1> QED BY <1>4, <1>11, <1>13, <1>17, <1>18, <1>19, <1>20, <1>21

\* The end of the host's file.
LEMMA EndOfFileStep ==
    ASSUME FatTypeOK, ImageInv, EndOfFile
    PROVE  disk' \in Disks /\ ImageInv'
<1> USE DEF ImageInv
<1>0. PICK m, first, cur, done :
         m = i /\ first = start /\ cur = current /\ done = total
  OBVIOUS
<1>1. /\ step = "copy" /\ step' = (IF i' \in Files THEN "next" ELSE "done")
      /\ i' = i + 1 /\ sizes' = sizes
      /\ start' = start /\ current' = current /\ total' = total /\ left' = left
      /\ left > 0 /\ total = sizes[i]
      /\ disk' = [a \in DOMAIN disk |->
                  LET k == a - EntryAt(i) + 1
                  IN  CASE a = start * BlockSize + 1 -> total
                        [] k \in 1 .. NameCells -> Name(i, k)
                        [] k = EntrySize -> start
                        [] OTHER -> disk[a]]
  BY DEF EndOfFile
<1>2. /\ m \in Files /\ m \in Begun /\ \A f \in Begun : f \in Files /\ (f = m \/ (f < m /\ f # m))
      /\ FirstBlock(m) = first /\ LastBlock(m) = cur
      /\ cur \in DataBlock /\ first \in DataBlock /\ cur \in Int /\ first \in Int
      /\ cur <= first /\ first < RootBlock /\ cur # RootBlock /\ first # RootBlock
      /\ Nth(first - cur, BlockSize - left) = done
      /\ done = sizes[m] /\ sizes[m] \in Nat /\ done \in Nat /\ first \in Nat
  BY <1>0, <1>1, CopyFacts, TypeFacts
<1>3. BlockSize \in Nat /\ m \in Nat /\ 0 \in Within /\ 1 \in Within /\ RootBlock \in DataBlock /\ RootBlock \in Int
      /\ EntrySize \in Nat /\ EntrySize = NameCells + 1 /\ EntrySize \in 1 .. EntrySize /\ NameCells \in Nat
  BY <1>2, TypeFacts, Geometry DEF Within
<1>4. PICK at \in Int : /\ at = EntryAt(m)
                        /\ \A k \in 1 .. EntrySize : at + k - 1 = Cell(RootBlock, EntryCell(m, k))
  <2>1. EntryAt(m) \in Int
    <3>1. RootBlock * BlockSize \in Int /\ (m - 1) * EntrySize \in Int BY <1>3
    <3> QED BY <3>1 DEF EntryAt, SuperExact, Header
  <2> QED BY <1>2, <2>1, EntryAddress
<1>5. Cell(first, 1) = first * BlockSize + 1 /\ Cell(first, 1) \in Address
  BY <1>2, <1>3, DataCellFacts DEF Cell
<1>6. \A k \in 1 .. EntrySize : EntryCell(m, k) \in Within /\ EntryCell(m, k) > 1
  BY <1>2, EntryFacts
<1>7. \A a \in Address : disk'[a] = IF a = Cell(first, 1) THEN done
                                    ELSE IF a - at + 1 \in 1 .. NameCells THEN Name(m, a - at + 1)
                                    ELSE IF a - at + 1 = EntrySize THEN first ELSE disk[a]
  <2> SUFFICES ASSUME NEW a \in Address
               PROVE  disk'[a] = IF a = Cell(first, 1) THEN done
                                 ELSE IF a - at + 1 \in 1 .. NameCells THEN Name(m, a - at + 1)
                                 ELSE IF a - at + 1 = EntrySize THEN first ELSE disk[a]
    OBVIOUS
  <2>1. DOMAIN disk = Address /\ a \in Int BY TypeFacts, Geometry DEF Disks, Address
  <2>2. disk'[a] = CASE a = Cell(first, 1) -> done
                     [] a - at + 1 \in 1 .. NameCells -> Name(m, a - at + 1)
                     [] a - at + 1 = EntrySize -> first
                     [] OTHER -> disk[a]
    BY <1>0, <1>1, <1>4, <1>5, <2>1
  <2>3. a = Cell(first, 1) => a - at + 1 \notin 1 .. EntrySize
    <3> SUFFICES ASSUME a = Cell(first, 1), a - at + 1 \in 1 .. EntrySize PROVE FALSE OBVIOUS
    <3>1. PICK k \in 1 .. EntrySize : k = a - at + 1 OBVIOUS
    <3>2. a = Cell(RootBlock, EntryCell(m, k)) BY <1>4, <2>1, <3>1
    <3> QED BY <1>2, <1>3, <1>6, <3>2, DataCellFacts
  <2>4. a - at + 1 \in 1 .. NameCells => a - at + 1 \in 1 .. EntrySize /\ a - at + 1 # EntrySize
    BY <1>3, <2>1
  <2>5. EntrySize \in 1 .. EntrySize BY <1>3
  <2> QED BY <2>2, <2>3, <2>4, <2>5
<1>8. disk' \in Disks
  <2>1. DOMAIN disk = Address /\ \A a \in Address : disk[a] \in Nat BY TypeFacts DEF Disks
  <2>2. \A k \in 1 .. NameCells : Name(m, k) \in Nat BY <1>3 DEF Name
  <2>3. \A a \in Address : disk'[a] \in Nat BY <1>2, <1>7, <2>1, <2>2
  <2>4. disk' = [a \in Address |-> disk'[a]] BY <1>1, <2>1
  <2> QED BY <2>3, <2>4 DEF Disks
<1>9. ASSUME NEW a \in Address, a # Cell(first, 1),
             \A k \in 1 .. EntrySize : a # Cell(RootBlock, EntryCell(m, k))
      PROVE  disk'[a] = disk[a]
  <2>1. a \in Int BY Geometry DEF Address
  <2>2. a - at + 1 \notin 1 .. EntrySize
    <3> SUFFICES ASSUME a - at + 1 \in 1 .. EntrySize PROVE FALSE OBVIOUS
    <3>1. PICK k \in 1 .. EntrySize : k = a - at + 1 OBVIOUS
    <3>2. a = at + k - 1 BY <2>1, <3>1
    <3> QED BY <1>4, <1>9, <3>2
  <2>3. a - at + 1 \notin 1 .. NameCells /\ a - at + 1 # EntrySize BY <1>3, <2>1, <2>2
  <2> QED BY <1>7, <1>9, <2>3
<1>10. /\ disk'[0] = disk[0] /\ disk'[1] = disk[1] /\ disk'[RootAt] = disk[RootAt]
       /\ disk'[AvailAt] = disk[AvailAt]
  BY <1>2, <1>3, <1>6, <1>9, DataCellFacts, SuperFacts
<1>11. \A b \in 0 .. RootBlock : disk'[FatAt(b)] = disk[FatAt(b)]
  BY <1>2, <1>3, <1>6, <1>9, DataCellFacts, FatCellFacts
<1>12. \A b \in DataBlock, o \in Within :
          b # RootBlock /\ ~(b = first /\ o = 1) => disk'[Cell(b, o)] = disk[Cell(b, o)]
  <2> SUFFICES ASSUME NEW b \in DataBlock, NEW o \in Within, b # RootBlock, ~(b = first /\ o = 1)
               PROVE  disk'[Cell(b, o)] = disk[Cell(b, o)]
    OBVIOUS
  <2>1. /\ Cell(b, o) \in Address
        /\ \A c \in DataBlock, p \in Within : Cell(b, o) = Cell(c, p) => b = c /\ o = p
    BY DataCellFacts
  <2>2. Cell(b, o) # Cell(first, 1) BY <1>2, <1>3, <2>1
  <2>3. \A k \in 1 .. EntrySize : Cell(b, o) # Cell(RootBlock, EntryCell(m, k))
    BY <1>3, <1>6, <2>1
  <2> QED BY <1>9, <2>1, <2>2, <2>3
<1>13. disk'[Cell(first, 1)] = done BY <1>5, <1>7
<1>14. \A o \in Within : (\A k \in 1 .. EntrySize : o # EntryCell(m, k)) =>
          disk'[Cell(RootBlock, o)] = disk[Cell(RootBlock, o)]
  <2> SUFFICES ASSUME NEW o \in Within, \A k \in 1 .. EntrySize : o # EntryCell(m, k)
               PROVE  disk'[Cell(RootBlock, o)] = disk[Cell(RootBlock, o)]
    OBVIOUS
  <2>1. /\ Cell(RootBlock, o) \in Address
        /\ \A c \in DataBlock, p \in Within : Cell(RootBlock, o) = Cell(c, p) => RootBlock = c /\ o = p
    BY <1>3, DataCellFacts
  <2>2. Cell(RootBlock, o) # Cell(first, 1) BY <1>2, <1>3, <2>1
  <2>3. \A k \in 1 .. EntrySize : Cell(RootBlock, o) # Cell(RootBlock, EntryCell(m, k))
    BY <1>3, <1>6, <2>1
  <2> QED BY <1>9, <2>1, <2>2, <2>3
<1>15. \A k \in 1 .. EntrySize : disk'[Cell(RootBlock, EntryCell(m, k))] =
                                    IF k = EntrySize THEN first ELSE Name(m, k)
  <2> SUFFICES ASSUME NEW k \in 1 .. EntrySize
               PROVE  disk'[Cell(RootBlock, EntryCell(m, k))] = IF k = EntrySize THEN first ELSE Name(m, k)
    OBVIOUS
  <2>1. PICK a \in Address : a = Cell(RootBlock, EntryCell(m, k)) BY <1>3, <1>6, DataCellFacts
  <2>2. a = at + k - 1 BY <1>4, <2>1
  <2>3. a - at + 1 = k BY <2>2
  <2>4. a # Cell(first, 1) BY <1>2, <1>3, <1>6, <2>1, DataCellFacts
  <2>5. k \in 1 .. NameCells <=> k # EntrySize BY <1>3
  <2> QED BY <1>7, <2>1, <2>3, <2>4, <2>5
<1>16. SuperExact' BY <1>10 DEF SuperExact
<1>17. \A f \in Files, k \in 1 .. EntrySize : f # m => disk'[Cell(RootBlock, EntryCell(f, k))] = disk[Cell(RootBlock, EntryCell(f, k))]
  <2> SUFFICES ASSUME NEW f \in Files, NEW k \in 1 .. EntrySize, f # m
               PROVE  disk'[Cell(RootBlock, EntryCell(f, k))] = disk[Cell(RootBlock, EntryCell(f, k))]
    OBVIOUS
  <2>1. EntryCell(f, k) \in Within /\ \A j \in 1 .. EntrySize : EntryCell(f, k) # EntryCell(m, j)
    BY <1>3, EntryFacts
  <2> QED BY <1>14, <2>1
<1>18. RootExact'
  <2>1. disk'[Cell(RootBlock, 0)] = disk[Cell(RootBlock, 0)] /\ disk'[Cell(RootBlock, 1)] = disk[Cell(RootBlock, 1)]
    BY <1>3, <1>6, <1>14
  <2>2. \A k \in 1 .. NameCells : k \in 1 .. EntrySize /\ k # EntrySize BY <1>3
  <2>3. \A f \in Files : f < i' => f = m \/ (f < i /\ f # m) BY <1>0, <1>1, TypeFacts
  <2>4. ASSUME NEW f \in Files, f < i', NEW k \in 1 .. NameCells
        PROVE  disk'[Cell(RootBlock, EntryCell(f, k))] = Name(f, k)
    <3>1. CASE f = m BY <1>15, <2>2, <3>1
    <3>2. CASE f # m BY <1>17, <2>2, <2>3, <2>4, <3>2 DEF RootExact
    <3> QED BY <3>1, <3>2
  <2> QED BY <2>1, <2>4 DEF RootExact
<1>19. Begun' = Begun
  <2>1. Begun' = {f \in Files : f < i'}
    <3>1. step' # "copy" BY <1>1
    <3> QED BY <3>1 DEF Begun
  <2>2. \A f \in Files : f < i' <=> f < i \/ f = i BY <1>1, TypeFacts
  <2> QED BY <1>1, <2>1, <2>2 DEF Begun
<1>20. FirstBlock(m)' = first
  <2>1. m < i' BY <1>0, <1>1, <1>3
  <2>2. FirstBlock(m)' = disk'[Cell(RootBlock, EntryCell(m, EntrySize))] BY <1>2, <1>10, <2>1, DirectoryNext
  <2> QED BY <1>3, <1>15, <2>2
<1>21. (sizes[m] + Header) \div BlockSize = first - cur
  <2>1. PICK a \in Nat : a = sizes[m] + Header BY <1>2 DEF Header
  <2>2. PICK q \in Nat : q = first - cur BY <1>2
  <2>3. PICK r \in 0 .. BlockSize - 1 : r = BlockSize - left BY <1>1, <1>3, TypeFacts
  <2>4. q * BlockSize \in Int BY <1>3
  <2>5. a = q * BlockSize + r BY <1>2, <2>1, <2>2, <2>3, <2>4 DEF Nth, Header
  <2>6. BlockSize > 0 BY Geometry
  <2>7. /\ a \div BlockSize \in Nat /\ a % BlockSize \in 0 .. BlockSize - 1
        /\ a = (a \div BlockSize) * BlockSize + (a % BlockSize)
    BY <1>3, <2>6, DivisionFacts
  <2>8. PICK p \in Int, t \in 0 .. BlockSize - 1 : p = a \div BlockSize /\ t = a % BlockSize BY <2>7
  <2>9. p * BlockSize + t = q * BlockSize + r BY <2>5, <2>7, <2>8
  <2>10. p = q BY <1>3, <2>6, <2>9, QuotientUnique
  <2> QED BY <2>1, <2>2, <2>8, <2>10
<1>22. ASSUME NEW f \in Begun
       PROVE  FirstBlock(f)' = FirstBlock(f) /\ LastBlock(f)' = LastBlock(f) /\ Written(f)' = Written(f)
  <2>1. CASE f = m
    <3>1. f < i' /\ ~(f < i) BY <1>0, <1>1, <1>3, <2>1
    <3>2. LastBlock(f)' = first - (first - cur) BY <1>1, <1>20, <1>21, <2>1, <3>1 DEF LastBlock
    <3> QED BY <1>0, <1>1, <1>2, <1>20, <2>1, <3>1, <3>2 DEF Written
  <2>2. CASE f # m
    <3>1. f < i /\ f < i' /\ f \in Files BY <1>0, <1>1, <1>2, <1>3, <2>2, TypeFacts
    <3>2. FirstBlock(f) = disk[Cell(RootBlock, EntryCell(f, EntrySize))] BY <3>1, DirectoryFacts
    <3>3. FirstBlock(f)' = disk'[Cell(RootBlock, EntryCell(f, EntrySize))] BY <1>10, <3>1, DirectoryNext
    <3>4. FirstBlock(f)' = FirstBlock(f) BY <1>3, <1>17, <2>2, <3>1, <3>2, <3>3
    <3> QED BY <1>1, <3>1, <3>4 DEF LastBlock, Written
  <2> QED BY <2>1, <2>2
<1>23. Top' = Top BY <1>10 DEF Top
<1>24. LinksExact' BY <1>11, <1>19, <1>22 DEF LinksExact
<1>25. RangesExact' BY <1>19, <1>22, <1>23 DEF RangesExact
<1>26. CopyExact'
  <2>1. i + 1 \in Files \/ i + 1 = Len(NameLen) + 1 BY <1>0, <1>2, Geometry
  <2> QED BY <1>1, <2>1 DEF CopyExact
<1>27. HeadersExact'
  <2> SUFFICES ASSUME NEW f \in Begun
               PROVE  disk'[Cell(FirstBlock(f), 0)] = 1 /\ disk'[Cell(FirstBlock(f), 1)] = sizes[f]
    BY <1>1, <1>19, <1>22 DEF HeadersExact
  <2>1. CASE f = m BY <1>2, <1>3, <1>12, <1>13, <2>1 DEF HeadersExact
  <2>2. CASE f # m
    <3>1. FirstBlock(f) \in LastBlock(f) .. FirstBlock(f) BY DEF RangesExact
    <3>2. FirstBlock(f) \in DataBlock /\ FirstBlock(f) # first /\ FirstBlock(f) # RootBlock
      BY <1>0, <1>1, <1>2, <1>3, <2>2, <3>1, OtherBlocks
    <3>3. f < i BY <1>0, <1>2, <2>2
    <3> QED BY <1>3, <1>12, <3>2, <3>3 DEF HeadersExact
  <2> QED BY <2>1, <2>2
<1>28. DataExact'
  <2> SUFFICES ASSUME NEW f \in Begun, NEW b \in LastBlock(f) .. FirstBlock(f), NEW o \in Within,
                      Nth(FirstBlock(f) - b, o) \in 0 .. Written(f) - 1
               PROVE  disk'[Cell(b, o)] = Data(f, Nth(FirstBlock(f) - b, o))
    BY <1>19, <1>22 DEF DataExact
  <2>1. disk[Cell(b, o)] = Data(f, Nth(FirstBlock(f) - b, o)) BY DEF DataExact
  <2>2. CASE f # m
    <3>1. b \in DataBlock /\ b # first /\ b # RootBlock
      BY <1>0, <1>1, <1>2, <1>3, <2>2, OtherBlocks
    <3> QED BY <1>12, <2>1, <3>1
  <2>3. CASE f = m
    <3>1. b \in DataBlock /\ b # RootBlock BY <1>2, <2>3, Geometry DEF DataBlock, RootBlock
    <3>2. ~(b = first /\ o = 1)
      <4> SUFFICES ASSUME b = first, o = 1 PROVE FALSE OBVIOUS
      <4>1. (first - first) * BlockSize = 0 BY <1>2, <1>3
      <4>2. Nth(first - first, 1) = 1 - 2 BY <1>2, <4>1 DEF Nth, Header
      <4> QED BY <1>2, <2>3, <4>2
    <3> QED BY <1>12, <2>1, <3>1, <3>2
  <2> QED BY <2>2, <2>3
<1> QED BY <1>8, <1>16, <1>18, <1>24, <1>25, <1>26, <1>27, <1>28

-----------------------------------------------------------------------------
(***************************************************************************)
(* What the loops of the kernel read.                                      *)
(***************************************************************************)

\* n cells from address a on.
Cells(a, n) == Piece(disk, a, n)

\* BlockDevice::read.
LEMMA DevReadFacts ==
    ASSUME NEW a \in Nat, NEW n \in Nat
    PROVE  /\ a % BlockSize \in Within
           /\ DevRead(a, n) = Cells(a, IF n < BlockSize - (a % BlockSize) THEN n ELSE BlockSize - (a % BlockSize))
<1>0. BlockSize \in Nat /\ BlockSize > 0 BY Geometry
<1>1. PICK q, r : q = a \div BlockSize /\ r = a % BlockSize OBVIOUS
<1>2. q \in Nat /\ r \in 0 .. BlockSize - 1 /\ a = q * BlockSize + r BY <1>0, <1>1, DivisionFacts
<1>3. PICK b \in Nat : b = q * BlockSize BY <1>0, <1>2
<1>4. PICK m : m = IF n < BlockSize - r THEN n ELSE BlockSize - r OBVIOUS
<1>5. m \in Nat /\ r + m <= BlockSize /\ r \in Nat BY <1>0, <1>2, <1>4
<1>6. DevRead(a, n) = PartOf(readBlock(q), r, m) BY <1>1, <1>4 DEF DevRead, PartOf
<1>7. readBlock(q) = Cells(b, BlockSize) BY <1>3 DEF readBlock, Cells, Piece
<1>8. PartOf(Cells(b, BlockSize), r, m) = Cells(b + r, m)
  <2>1. \A d, e \in Nat : d + e <= BlockSize => PartOf(Cells(b, BlockSize), d, e) = Cells(b + d, e)
    <3>1. PICK h : h = disk OBVIOUS
    <3>2. \A d, e \in Nat : d + e <= BlockSize => PartOf(Piece(h, b, BlockSize), d, e) = Piece(h, b + d, e)
      BY <1>0, PiecePart
    <3> QED BY <3>1, <3>2 DEF Cells
  <2> QED BY <1>5, <2>1
<1>9. b + r = a BY <1>2, <1>3
<1> QED BY <1>0, <1>1, <1>2, <1>4, <1>6, <1>7, <1>8, <1>9 DEF Within

\* BlockDevice::readFully.
LEMMA DevReadFullyFacts ==
    ASSUME NEW a \in Nat, NEW n \in Nat
    PROVE  DevReadFully(a, n) = Cells(a, n)
<1> DEFINE Turn(got) == got \o DevRead(a + Len(got), n - Len(got))
           Eq(f) == f = [k \in 0 .. n |-> IF k = 0 THEN <<>> ELSE Turn(f[k - 1])]
<1>1. PICK h : h = disk OBVIOUS
<1>3. ASSUME NEW m \in 0 .. n
      PROVE  \E j \in m .. n : Turn(Cells(a, m)) = Cells(a, j) /\ (m < n => j > m)
  <2>0. m \in Nat /\ n - m \in Nat OBVIOUS
  <2>1. Len(Cells(a, m)) = m /\ m \in Nat /\ n - m \in Nat BY <1>1, <2>0, PieceFacts DEF Cells, IsPiece
  <2>2. PICK b, e \in Nat : b = a + m /\ e = n - m BY <2>1
  <2>3. PICK room : room = BlockSize - (b % BlockSize) OBVIOUS
  <2>4. room \in Nat /\ room >= 1 /\ DevRead(b, e) = Cells(b, IF e < room THEN e ELSE room)
    <3>1. (b % BlockSize) \in Within BY <2>2, DevReadFacts
    <3>2. room \in Nat /\ room >= 1 BY <2>3, <3>1, Geometry DEF Within
    <3>3. DevRead(b, e) = Cells(b, IF e < BlockSize - (b % BlockSize) THEN e ELSE BlockSize - (b % BlockSize))
      BY <2>2, DevReadFacts
    <3> QED BY <2>3, <3>2, <3>3
  <2>5. PICK c \in Nat : c = IF e < room THEN e ELSE room BY <2>2, <2>4
  <2>6. PICK l \in Nat : l = m + c BY <2>1, <2>5
  <2>7. Turn(Cells(a, m)) = Cells(a, l)
    <3>1. Joins(h, a, m, b, c, l) BY <2>1, <2>2, <2>5, <2>6, PieceJoin
    <3>2. Turn(Cells(a, m)) = Cells(a, m) \o Cells(b, c) BY <2>1, <2>2, <2>4, <2>5
    <3> HIDE DEF Turn
    <3> QED BY <1>1, <3>1, <3>2 DEF Cells, Joins
  <2>8. l \in m .. n /\ (m < n => l > m) BY <2>1, <2>2, <2>4, <2>5, <2>6
  <2> QED BY <2>7, <2>8
<1>4. PICK turn : turn = [p \in Parts(disk, a, n) |-> Turn(p)] OBVIOUS
<1>6. Advances(disk, a, n, turn)
  <2> SUFFICES ASSUME NEW m \in 0 .. n
               PROVE  \E j \in m .. n : turn[Cells(a, m)] = Cells(a, j) /\ (m < n => j > m)
    BY DEF Advances, Cells
  <2>1. Cells(a, m) \in Parts(disk, a, n) BY DEF Parts, Cells
  <2> QED BY <1>3, <1>4, <2>1
<1>7. /\ \E f \in [0 .. n -> Parts(disk, a, n)] : Turns(n, f, <<>>, turn)
      /\ \A f : Reads(n, f, disk, a, n, turn) => f[n] = Cells(a, n)
  <2>1. n >= n OBVIOUS
  <2>2. Completes(n, h, a, n, turn) BY <1>1, <1>6, <2>1, LoopReads
  <2> QED BY <1>1, <2>2 DEF Cells, Completes
<1>8. PICK after : after = CHOOSE f : Eq(f) OBVIOUS
<1>9. \E f : Eq(f)
  <2>1. PICK f \in [0 .. n -> Parts(disk, a, n)] : Turns(n, f, <<>>, turn) BY <1>7
  <2>2. ASSUME NEW k \in 0 .. n PROVE f[k] = IF k = 0 THEN <<>> ELSE Turn(f[k - 1])
    <3>1. CASE k = 0 BY <2>1, <3>1 DEF Turns
    <3>2. CASE k # 0
      <4>1. k \in 1 .. n /\ k - 1 \in 0 .. n BY <3>2
      <4>2. f[k - 1] \in Parts(disk, a, n) /\ f[k] = turn[f[k - 1]] BY <2>1, <4>1 DEF Turns
      <4> QED BY <1>4, <3>2, <4>2
    <3> QED BY <3>1, <3>2
  <2>3. Eq(f)
    <3> HIDE DEF Turn
    <3> QED BY <2>2
  <2> QED BY <2>3
<1>10. Eq(after)
  <2> HIDE DEF Eq
  <2> QED BY <1>8, <1>9
<1>11. Reads(n, after, disk, a, n, turn)
  <2>1. \A k \in 0 .. n : after[k] = IF k = 0 THEN <<>> ELSE Turn(after[k - 1])
    <3> HIDE DEF Turn
    <3> QED BY <1>10
  <2>2. after[0] = <<>> BY <2>1
  <2>3. ASSUME NEW k \in 1 .. n, after[k - 1] \in Parts(disk, a, n) PROVE after[k] = turn[after[k - 1]]
    <3>1. after[k] = Turn(after[k - 1])
      <4> HIDE DEF Turn
      <4> QED BY <2>1
    <3> QED BY <1>4, <2>3, <3>1
  <2> QED BY <2>2, <2>3 DEF Reads
<1>12. DevReadFully(a, n) = after[n] BY <1>8, Zenon DEF DevReadFully, Repeated
<1> QED BY <1>7, <1>11, <1>12

\* Quotients grow with the dividend.
LEMMA QuotientOrder ==
    ASSUME NEW B \in Nat, B > 0, NEW a \in Nat, NEW b \in Nat, a <= b
    PROVE  a \div B <= b \div B
<1>1. PICK p, q \in Nat : p = a \div B /\ q = b \div B BY DivisionFacts
<1>2. PICK r, s \in 0 .. B - 1 : r = a % B /\ s = b % B BY DivisionFacts
<1>3. a = p * B + r /\ b = q * B + s BY <1>1, <1>2, DivisionFacts
<1>4. p * B \in Int /\ q * B \in Int OBVIOUS
<1>5. p <= q
  <2> SUFFICES ASSUME q < p PROVE FALSE BY <1>1
  <2>1. q * B + B <= p * B BY <1>1, ProductOrder
  <2> QED BY <1>2, <1>3, <1>4, <2>1
<1> QED BY <1>1, <1>5

\* The blocks of a file are linked downwards.
LEMMA LinkDown ==
    ASSUME FatTypeOK, ImageInv, NEW f \in Begun, NEW b \in LastBlock(f) + 1 .. FirstBlock(f)
    PROVE  b \in 0 .. RootBlock /\ disk[FatAt(b)] = b - 1
<1>1. /\ FirstBlock(f) \in Int /\ LastBlock(f) \in Int
      /\ Top < LastBlock(f) /\ LastBlock(f) <= FirstBlock(f) /\ FirstBlock(f) < RootBlock
  BY DEF ImageInv, RangesExact
<1>2. Top \in Int /\ Top >= FatBlocks /\ FatBlocks \in Nat /\ RootBlock \in Nat
  BY Geometry, TypeFacts DEF ImageInv, SuperExact, Top
<1>3. b \in 0 .. RootBlock /\ ~(b <= FatBlocks + 1) /\ b # RootBlock BY <1>1, <1>2
<1>4. ASSUME NEW g \in Begun PROVE b # LastBlock(g)
  <2>1. f \in Nat /\ g \in Nat BY TypeFacts DEF Begun
  <2>2. CASE f = g BY <1>1, <2>2
  <2>3. CASE f < g
    <3>1. FirstBlock(g) < LastBlock(f) /\ LastBlock(g) <= FirstBlock(g) /\ FirstBlock(g) \in Int /\ LastBlock(g) \in Int
      BY <2>3 DEF ImageInv, RangesExact
    <3> QED BY <1>1, <3>1
  <2>4. CASE g < f
    <3>1. FirstBlock(f) < LastBlock(g) BY <2>4 DEF ImageInv, RangesExact
    <3> QED BY <1>1, <3>1
  <2> QED BY <2>1, <2>2, <2>3, <2>4
<1> QED BY <1>3, <1>4 DEF ImageInv, LinksExact

\* The image when mkfs is done.
LEMMA DoneFacts ==
    ASSUME FatInv, step = "done"
    PROVE  /\ FatTypeOK /\ ImageInv /\ Begun = Files
           /\ \A f \in Files : /\ f < i /\ f # i
                               /\ FirstBlock(f) \in DataBlock /\ LastBlock(f) \in DataBlock
                               /\ FirstBlock(f) \in Int /\ LastBlock(f) \in Int
                               /\ LastBlock(f) <= FirstBlock(f)
                               /\ LastBlock(f) = FirstBlock(f) - ((sizes[f] + Header) \div BlockSize)
                               /\ FirstBlock(f) # RootBlock
           /\ \A f, g \in Files : FirstBlock(f) = FirstBlock(g) => f = g
<1>1. FatTypeOK /\ ImageInv BY DEF FatInv
<1>2. i = Len(NameLen) + 1 BY <1>1 DEF ImageInv, CopyExact
<1>3. \A f \in Files : f < i /\ f # i BY <1>2, Geometry
<1>4. Begun = Files BY <1>3 DEF Begun
<1>5. Top \in Int /\ Top >= FatBlocks /\ FatBlocks \in Nat /\ RootBlock \in Nat
  BY <1>1, Geometry, TypeFacts DEF ImageInv, SuperExact, Top
<1>6. ASSUME NEW f \in Files
      PROVE  /\ FirstBlock(f) \in DataBlock /\ LastBlock(f) \in DataBlock
             /\ FirstBlock(f) \in Int /\ LastBlock(f) \in Int
             /\ LastBlock(f) <= FirstBlock(f)
             /\ LastBlock(f) = FirstBlock(f) - ((sizes[f] + Header) \div BlockSize)
             /\ FirstBlock(f) # RootBlock
  <2>1. /\ FirstBlock(f) \in Int /\ LastBlock(f) \in Int
        /\ Top < LastBlock(f) /\ LastBlock(f) <= FirstBlock(f) /\ FirstBlock(f) < RootBlock
    BY <1>1, <1>4 DEF ImageInv, RangesExact
  <2>2. LastBlock(f) = FirstBlock(f) - ((sizes[f] + Header) \div BlockSize) BY <1>3 DEF LastBlock
  <2> QED BY <1>5, <2>1, <2>2 DEF DataBlock
<1>7. ASSUME NEW f \in Files, NEW g \in Files, FirstBlock(f) = FirstBlock(g) PROVE f = g
  <2>1. ~(f < g) /\ ~(g < f) BY <1>1, <1>4, <1>6, <1>7 DEF ImageInv, RangesExact
  <2> QED BY <1>1, <2>1, TypeFacts
<1> QED BY <1>1, <1>3, <1>4, <1>6, <1>7

\* The block of an offset is found in the chain of the file.
LEMMA BlockOfFacts ==
    ASSUME FatInv, fat # <<>>, NEW f \in Files, NEW o \in 0 .. sizes[f]
    PROVE  LET q == (o + Header) \div BlockSize
           IN  q \in 0 .. FirstBlock(f) - LastBlock(f) /\ BlockOf(FileOf(f), o) = FirstBlock(f) - q
<1>1. step = "done" /\ fat = [b \in 0 .. RootBlock |-> disk[FatAt(b)]] BY DEF FatInv, KernelInv
<1>2. FatTypeOK /\ ImageInv /\ f \in Begun BY <1>1, DoneFacts
<1>3. PICK first, last \in Int : first = FirstBlock(f) /\ last = LastBlock(f) BY <1>1, DoneFacts
<1>4. BlockSize \in Nat /\ BlockSize > 0 /\ o + Header \in Nat /\ sizes[f] + Header \in Nat
      /\ o + Header <= sizes[f] + Header
  BY <1>2, TypeFacts, Geometry
<1>5. PICK q, e \in Nat : q = (o + Header) \div BlockSize /\ e = (sizes[f] + Header) \div BlockSize
  BY <1>4, DivisionFacts
<1>6. q <= e /\ last = first - e
  <2>1. (o + Header) \div BlockSize <= (sizes[f] + Header) \div BlockSize BY <1>4, QuotientOrder
  <2>2. LastBlock(f) = FirstBlock(f) - ((sizes[f] + Header) \div BlockSize) BY <1>1, DoneFacts
  <2> QED BY <1>3, <1>5, <2>1, <2>2
<1>7. ASSUME NEW k \in 1 .. q PROVE fat[first - (k - 1)] = first - k
  <2>1. PICK b : b = first - (k - 1) OBVIOUS
  <2>2. b \in last + 1 .. first /\ b - 1 = first - k BY <1>3, <1>5, <1>6, <2>1
  <2>3. b \in 0 .. RootBlock /\ disk[FatAt(b)] = b - 1 BY <1>2, <1>3, <2>2, LinkDown
  <2> QED BY <1>1, <2>1, <2>2, <2>3
<1> DEFINE Eq(g) == g = [k \in 0 .. q |-> IF k = 0 THEN first ELSE fat[g[k - 1]]]
           path == [k \in 0 .. q |-> first - k]
<1>8. Eq(path)
  <2>1. ASSUME NEW k \in 0 .. q PROVE path[k] = IF k = 0 THEN first ELSE fat[path[k - 1]]
    <3>1. CASE k = 0 BY <1>3, <3>1
    <3>2. CASE k # 0
      <4>1. k \in 1 .. q /\ k - 1 \in 0 .. q BY <3>2
      <4> QED BY <1>7, <3>2, <4>1
    <3> QED BY <3>1, <3>2
  <2> QED BY <2>1
<1>9. PICK after : after = CHOOSE g : Eq(g) OBVIOUS
<1>10. Eq(after)
  <2>1. \E g : Eq(g) BY <1>8
  <2> HIDE DEF Eq
  <2> QED BY <1>9, <2>1
<1>11. after[q] = path[q]
  <2>1. 0 \in 0 .. q /\ after[0] = path[0] BY <1>3, <1>5, <1>10
  <2>2. ASSUME NEW k \in 1 .. q, after[k - 1] = path[k - 1] PROVE after[k] = path[k]
    <3>1. k \in 0 .. q /\ k # 0 OBVIOUS
    <3>2. after[k] = fat[after[k - 1]] BY <1>10, <3>1
    <3>3. path[k] = fat[path[k - 1]] BY <1>8, <3>1
    <3> QED BY <2>2, <3>2, <3>3
  <2> HIDE DEF path
  <2> QED BY <1>5, <2>1, <2>2, LoopIs
<1>12. BlockOf(FileOf(f), o) = after[q]
  <2>1. FileOf(f).start = first BY <1>3 DEF FileOf
  <2> QED BY <1>5, <1>9, <2>1 DEF BlockOf, Repeated
<1>13. path[q] = first - q BY <1>5
<1>14. q \in 0 .. first - last BY <1>3, <1>5, <1>6
<1> QED BY <1>3, <1>5, <1>11, <1>12, <1>13, <1>14

\* The cells of the host's file.
HostData(f) == [c \in Nat |-> Data(f, c)]

\* What a read returns: at most n of the cells h from o on, at least one if one is
\* wanted and there is one.
Gets(h, size, o, n, s) ==
    \E m \in Nat : /\ m <= n /\ m <= size - o
                   /\ m = 0 => n = 0 \/ o = size
                   /\ s = Piece(h, o, m)

\* All reads of an OpenFile return some of the cells h.
Readable(of, h) ==
    \A o \in 0 .. of.length, n \in Nat : Gets(h, of.length, o, n, OpenFileRead(of, o, n))

\* OpenFile::read finds them.
LEMMA FileReadFacts ==
    ASSUME FatInv, fat # <<>>, NEW f \in Files, NEW o \in 0 .. sizes[f], NEW n \in Nat
    PROVE  Gets(HostData(f), sizes[f], o, n, OpenFileRead(FileOf(f), o, n))
<1>1. step = "done" BY DEF FatInv, KernelInv
<1>2. FatTypeOK /\ ImageInv /\ f \in Begun /\ f < i BY <1>1, DoneFacts
<1>3. PICK first, last \in DataBlock : first = FirstBlock(f) /\ last = LastBlock(f) BY <1>1, DoneFacts
<1>4. PICK size \in Nat : size = sizes[f] BY <1>2, TypeFacts
<1>5. BlockSize \in Nat /\ BlockSize > 0 /\ o \in Nat /\ o + Header \in Nat /\ o <= size
      /\ first \in Nat /\ last \in Nat
  BY <1>3, <1>4, Geometry DEF DataBlock, RootBlock
<1>6. PICK q \in Nat, r \in 0 .. BlockSize - 1 : /\ q = (o + Header) \div BlockSize
                                                /\ r = (o + Header) % BlockSize
                                                /\ o + Header = q * BlockSize + r
  BY <1>5, DivisionFacts
<1>7. q \in 0 .. first - last /\ BlockOf(FileOf(f), o) = first - q BY <1>3, <1>6, BlockOfFacts
<1>8. PICK b \in DataBlock : b = first - q
  BY <1>3, <1>5, <1>7, Geometry DEF DataBlock, RootBlock
<1>9. b \in last .. first /\ b \in Nat /\ first - b = q BY <1>5, <1>7, <1>8
<1>10. PICK len \in Nat : len = IF n < size - o THEN n ELSE size - o BY <1>4, <1>5
<1>11. PICK a \in Nat : a = b * BlockSize + r BY <1>5, <1>9
<1>12. a % BlockSize = r
  <2>1. PICK p \in Nat, s \in 0 .. BlockSize - 1 : s = a % BlockSize /\ a = p * BlockSize + s
    <3>1. /\ a \div BlockSize \in Nat /\ a % BlockSize \in 0 .. BlockSize - 1
          /\ a = (a \div BlockSize) * BlockSize + (a % BlockSize)
      BY <1>5, DivisionFacts
    <3> QED BY <3>1
  <2>2. p \in Int /\ b \in Int /\ p * BlockSize + s = b * BlockSize + r BY <1>9, <1>11, <2>1
  <2>3. s = r BY <1>5, <2>2, QuotientUnique
  <2> QED BY <2>1, <2>3
<1>13. PICK m \in Nat : m = IF len < BlockSize - r THEN len ELSE BlockSize - r
  <2>1. PICK room \in Nat : room = BlockSize - r BY <1>5
  <2> QED BY <2>1
<1>14. OpenFileRead(FileOf(f), o, n) = DevRead(a, len)
  <2>1. FileOf(f).length = size BY <1>4 DEF FileOf
  <2>2. BlockOf(FileOf(f), o) * BlockSize + ((o + Header) % BlockSize) = a
    BY <1>6, <1>7, <1>8, <1>11
  <2> QED BY <1>10, <2>1, <2>2 DEF OpenFileRead
<1>15. DevRead(a, len) = Cells(a, m)
  <2>1. DevRead(a, len) = Cells(a, IF len < BlockSize - (a % BlockSize) THEN len ELSE BlockSize - (a % BlockSize))
    BY DevReadFacts
  <2> QED BY <1>12, <1>13, <2>1
<1>16. m <= n /\ m <= size - o /\ (m = 0 => n = 0 \/ o = size) BY <1>5, <1>10, <1>13
<1>17. Cells(a, m) = Piece(HostData(f), o, m)
  <2>1. ASSUME NEW k \in 1 .. m PROVE disk[a + k - 1] = HostData(f)[o + k - 1]
    <3>1. PICK p \in Within : p = r + k - 1 BY <1>5, <1>13 DEF Within
    <3>2. p \in Int /\ q * BlockSize \in Int /\ b * BlockSize \in Int BY <1>5, <1>9, <3>1
    <3>3. a + k - 1 = Cell(b, p) BY <1>11, <3>1, <3>2 DEF Cell
    <3>4. Nth(q, p) = o + k - 1 BY <1>5, <1>6, <3>1, <3>2 DEF Nth, Header
    <3>5. PICK c \in Nat : c = o + k - 1 BY <1>5
    <3>6. Written(f) = size /\ c \in 0 .. size - 1 BY <1>2, <1>4, <1>16, <3>5 DEF Written
    <3>7. Nth(FirstBlock(f) - b, p) = c BY <1>3, <1>9, <3>4, <3>5
    <3>8. disk[Cell(b, p)] = Data(f, c) BY <1>2, <1>3, <1>9, <3>6, <3>7 DEF ImageInv, DataExact
    <3> QED BY <3>3, <3>5, <3>8 DEF HostData
  <2> QED BY <2>1 DEF Cells, Piece
<1> QED BY <1>4, <1>14, <1>15, <1>16, <1>17 DEF Gets

\* The host's file is all of them.
LEMMA HostFacts ==
    ASSUME FatTypeOK, NEW f \in Files
    PROVE  /\ HostFile(f) = Piece(HostData(f), 0, sizes[f])
           /\ Values(HostData(f)) \subseteq Nat
<1>1. PICK h : h = HostData(f) OBVIOUS
<1>2. PICK size \in Nat : size = sizes[f] BY TypeFacts
<1>3. \A k \in 1 .. size : 0 + k - 1 \in Nat /\ h[0 + k - 1] = Data(f, k - 1) BY <1>1 DEF HostData
<1>4. HostFile(f) = Piece(h, 0, size) BY <1>2, <1>3 DEF HostFile, Piece
<1>5. Values(h) \subseteq Nat
  <2>1. f \in Nat BY Geometry
  <2>2. \A c \in Nat : h[c] \in Nat BY <1>1, <2>1 DEF HostData, Data
  <2> QED BY <2>2 DEF Values
<1> QED BY <1>1, <1>2, <1>4, <1>5

\* File::readFully finds all that is wanted and is there.
LEMMA FileReadFullyFacts ==
    ASSUME NEW h, Readable(file, h), file.length \in Nat, offset \in 0 .. file.length, NEW n \in Nat,
           NEW m \in Nat, m = IF n < file.length - offset THEN n ELSE file.length - offset
    PROVE  Repeated(LAMBDA got : got \o OpenFileRead(file, offset + Len(got), n - Len(got)), <<>>, n) =
              Piece(h, offset, m)
<1> DEFINE Turn(got) == got \o OpenFileRead(file, offset + Len(got), n - Len(got))
           Eq(g) == g = [k \in 0 .. n |-> IF k = 0 THEN <<>> ELSE Turn(g[k - 1])]
<1>1. PICK o, size \in Nat : o = offset /\ size = file.length OBVIOUS
<1>3. ASSUME NEW k \in 0 .. m
      PROVE  \E j \in k .. m : Turn(Piece(h, o, k)) = Piece(h, o, j) /\ (k < m => j > k)
  <2>1. k \in Nat /\ n - k \in Nat /\ o + k \in 0 .. size BY <1>1
  <2>2. PICK b, e \in Nat : b = o + k /\ e = n - k BY <2>1
  <2>3. Len(Piece(h, o, k)) = k BY <2>1, PieceFacts DEF IsPiece
  <2>4. b \in 0 .. file.length BY <1>1, <2>1, <2>2
  <2>5. Gets(h, file.length, b, e, OpenFileRead(file, b, e)) BY <2>4 DEF Readable
  <2>6. PICK c \in Nat : /\ c <= e /\ c <= size - b
                         /\ c = 0 => e = 0 \/ b = size
                         /\ OpenFileRead(file, b, e) = Piece(h, b, c)
    BY <1>1, <2>5 DEF Gets
  <2>7. PICK l \in Nat : l = k + c BY <2>1
  <2>8. Joins(h, o, k, b, c, l) BY <2>1, <2>2, <2>7, PieceJoin
  <2>9. Turn(Piece(h, o, k)) = Piece(h, o, k) \o Piece(h, b, c) BY <1>1, <2>2, <2>3, <2>6
  <2>10. Turn(Piece(h, o, k)) = Piece(h, o, l)
    <3> HIDE DEF Turn
    <3> QED BY <2>8, <2>9 DEF Joins
  <2>11. l \in k .. m /\ (k < m => l > k) BY <1>1, <2>1, <2>2, <2>6, <2>7
  <2> QED BY <2>10, <2>11
<1>4. PICK turn : turn = [p \in Parts(h, o, m) |-> Turn(p)] OBVIOUS
<1>5. Advances(h, o, m, turn)
  <2> SUFFICES ASSUME NEW k \in 0 .. m
               PROVE  \E j \in k .. m : turn[Piece(h, o, k)] = Piece(h, o, j) /\ (k < m => j > k)
    BY DEF Advances
  <2>1. Piece(h, o, k) \in Parts(h, o, m) BY DEF Parts
  <2> QED BY <1>3, <1>4, <2>1
<1>6. Completes(n, h, o, m, turn)
  <2>1. n >= m BY <1>1
  <2> QED BY <1>5, <2>1, LoopReads
<1>7. PICK after : after = CHOOSE g : Eq(g) OBVIOUS
<1>8. \E g : Eq(g)
  <2>1. PICK g \in [0 .. n -> Parts(h, o, m)] : Turns(n, g, <<>>, turn) BY <1>6 DEF Completes
  <2>2. ASSUME NEW k \in 0 .. n PROVE g[k] = IF k = 0 THEN <<>> ELSE Turn(g[k - 1])
    <3>1. CASE k = 0 BY <2>1, <3>1 DEF Turns
    <3>2. CASE k # 0
      <4>1. k \in 1 .. n /\ k - 1 \in 0 .. n BY <3>2
      <4>2. g[k - 1] \in Parts(h, o, m) /\ g[k] = turn[g[k - 1]] BY <2>1, <4>1 DEF Turns
      <4> QED BY <1>4, <3>2, <4>2
    <3> QED BY <3>1, <3>2
  <2>3. Eq(g)
    <3> HIDE DEF Turn
    <3> QED BY <2>2
  <2> QED BY <2>3
<1>9. Eq(after)
  <2> HIDE DEF Eq
  <2> QED BY <1>7, <1>8
<1>10. Reads(n, after, h, o, m, turn)
  <2>1. \A k \in 0 .. n : after[k] = IF k = 0 THEN <<>> ELSE Turn(after[k - 1])
    <3> HIDE DEF Turn
    <3> QED BY <1>9
  <2>2. after[0] = <<>> BY <2>1
  <2>3. ASSUME NEW k \in 1 .. n, after[k - 1] \in Parts(h, o, m) PROVE after[k] = turn[after[k - 1]]
    <3>1. after[k] = Turn(after[k - 1])
      <4> HIDE DEF Turn
      <4> QED BY <2>1
    <3> QED BY <1>4, <2>3, <3>1
  <2> QED BY <2>2, <2>3 DEF Reads
<1>11. Repeated(LAMBDA got : got \o OpenFileRead(file, offset + Len(got), n - Len(got)), <<>>, n) = after[n]
  BY <1>7, Zenon DEF Repeated
<1> QED BY <1>1, <1>6, <1>10, <1>11 DEF Completes

-----------------------------------------------------------------------------
(***************************************************************************)
(* The root directory.                                                     *)
(***************************************************************************)

\* An entry is read in one turn: it is in the first and only block.
LEMMA EntryRead ==
    ASSUME FatInv, fat # <<>>, NEW k \in Files
    PROVE  \A j \in 1 .. EntrySize : Entry(k)[j] = disk[Cell(RootBlock, EntryCell(k, j))]
<1>1. dir = RootFile BY DEF FatInv, KernelInv
<1>2. /\ EntrySize \in Nat /\ EntrySize >= 1 /\ BlockSize \in Nat /\ BlockSize > 0 /\ Len(NameLen) \in Nat
      /\ RootBlock \in Nat /\ k \in Nat /\ k - 1 \in Nat /\ k <= Len(NameLen)
  BY Geometry DEF RootBlock
<1>3. PICK o, all \in Nat : o = (k - 1) * EntrySize /\ all = Len(NameLen) * EntrySize
  <2>1. PICK c \in Nat : c = k - 1 BY <1>2
  <2>2. c * EntrySize \in Nat /\ Len(NameLen) * EntrySize \in Nat BY <1>2
  <2> QED BY <2>1, <2>2
<1>4. o + EntrySize <= all
  <2>1. k - 1 \in Int /\ Len(NameLen) \in Int /\ k - 1 < Len(NameLen) BY <1>2
  <2> QED BY <1>2, <1>3, <2>1, ProductOrder
<1>5. 2 + all <= BlockSize BY <1>3, MkfsAssumption DEF Header
<1>6. (o + 2) \div BlockSize = 0 /\ (o + 2) % BlockSize = o + 2
  <2>1. PICK b, p \in Nat : b = o + 2 /\ p = b \div BlockSize BY <1>2, DivisionFacts
  <2>2. PICK s \in 0 .. BlockSize - 1 : s = b % BlockSize
    <3>1. b % BlockSize \in 0 .. BlockSize - 1 BY <1>2, DivisionFacts
    <3> QED BY <3>1
  <2>3. b = p * BlockSize + s BY <1>2, <2>1, <2>2, DivisionFacts
  <2>4. b \in 0 .. BlockSize - 1 /\ 0 * BlockSize = 0 BY <1>2, <1>4, <1>5, <2>1
  <2>5. 0 * BlockSize + b = p * BlockSize + s /\ 0 \in Int /\ p \in Int BY <2>3, <2>4
  <2>6. 0 = p /\ b = s BY <1>2, <2>4, <2>5, QuotientUnique
  <2> QED BY <2>1, <2>2, <2>6
<1>7. BlockOf(dir, o) = RootBlock
  <2> DEFINE Eq(g) == g = [c \in 0 .. 0 |-> IF c = 0 THEN RootBlock ELSE fat[g[c - 1]]]
  <2>1. PICK after : after = CHOOSE g : Eq(g) OBVIOUS
  <2>2. Eq([c \in 0 .. 0 |-> RootBlock]) OBVIOUS
  <2>3. Eq(after)
    <3> HIDE DEF Eq
    <3> QED BY <2>1, <2>2
  <2>4. after[0] = RootBlock BY <2>3
  <2>5. BlockOf(dir, o) = after[0] BY <1>1, <1>6, <2>1 DEF BlockOf, Repeated, RootFile, Header
  <2> QED BY <2>4, <2>5
<1>8. PICK a \in Nat : a = RootBlock * BlockSize + (o + 2) BY <1>2
<1>9. ASSUME NEW n \in Nat, n <= EntrySize PROVE OpenFileRead(dir, o, n) = Cells(a, n)
  <2>1. dir.length = all BY <1>1, <1>3 DEF RootFile
  <2>2. (IF n < all - o THEN n ELSE all - o) = n BY <1>2, <1>4, <1>9
  <2>3. OpenFileRead(dir, o, n) = DevRead(a, n) BY <1>6, <1>7, <1>8, <2>1, <2>2 DEF OpenFileRead, Header
  <2>4. a % BlockSize = o + 2
    <3>1. PICK p \in Nat, s \in 0 .. BlockSize - 1 : s = a % BlockSize /\ a = p * BlockSize + s
      <4>1. /\ a \div BlockSize \in Nat /\ a % BlockSize \in 0 .. BlockSize - 1
            /\ a = (a \div BlockSize) * BlockSize + (a % BlockSize)
        BY <1>2, DivisionFacts
      <4> QED BY <4>1
    <3>2. PICK r \in 0 .. BlockSize - 1 : r = o + 2 BY <1>2, <1>4, <1>5
    <3>3. p \in Int /\ RootBlock \in Int /\ p * BlockSize + s = RootBlock * BlockSize + r
      BY <1>2, <1>8, <3>1, <3>2
    <3>4. s = r BY <1>2, <3>3, QuotientUnique
    <3> QED BY <3>1, <3>2, <3>4
  <2>5. DevRead(a, n) = Cells(a, IF n < BlockSize - (a % BlockSize) THEN n ELSE BlockSize - (a % BlockSize))
    BY DevReadFacts
  <2>6. (IF n < BlockSize - (o + 2) THEN n ELSE BlockSize - (o + 2)) = n BY <1>2, <1>4, <1>5, <1>9
  <2> QED BY <2>3, <2>4, <2>5, <2>6
<1> DEFINE Turn(got) == got \o OpenFileRead(dir, o, EntrySize - Len(got))
           Eq(g) == g = [c \in 0 .. EntrySize |-> IF c = 0 THEN <<>> ELSE Turn(g[c - 1])]
           path == [c \in 0 .. EntrySize |-> IF c = 0 THEN <<>> ELSE Cells(a, EntrySize)]
<1>10. PICK h : h = disk OBVIOUS
<1>11. Cells(a, 0) = <<>> /\ Len(Cells(a, EntrySize)) = EntrySize /\ Len(<<>>) = 0
  <2>1. Piece(h, a, 0) \in Seq(Values(h)) /\ IsPiece(Piece(h, a, 0), h, a, 0)
        /\ IsPiece(Piece(h, a, EntrySize), h, a, EntrySize)
    BY <1>2, PieceFacts
  <2> QED BY <1>10, <2>1, EmptySeq DEF Cells, IsPiece
<1>12. Turn(<<>>) = Cells(a, EntrySize)
  <2>1. Turn(<<>>) = Cells(a, 0) \o Cells(a, EntrySize)
    <3>1. OpenFileRead(dir, o, EntrySize) = Cells(a, EntrySize) BY <1>2, <1>9
    <3>2. EntrySize - Len(<<>>) = EntrySize BY <1>2, <1>11
    <3> QED BY <1>11, <3>1, <3>2
  <2>2. Joins(h, a, 0, a, EntrySize, EntrySize)
    <3>1. PICK z \in Nat : z = 0 OBVIOUS
    <3>2. a = a + z /\ EntrySize = z + EntrySize BY <1>2, <3>1
    <3>3. Joins(h, a, z, a, EntrySize, EntrySize) BY <1>2, <3>2, PieceJoin
    <3> QED BY <3>1, <3>3
  <2> HIDE DEF Turn
  <2> QED BY <1>10, <2>1, <2>2 DEF Cells, Joins
<1>13. Turn(Cells(a, EntrySize)) = Cells(a, EntrySize)
  <2>1. PICK b \in Nat : b = a + EntrySize BY <1>2
  <2>2. Turn(Cells(a, EntrySize)) = Cells(a, EntrySize) \o <<>>
    <3>1. OpenFileRead(dir, o, 0) = <<>> BY <1>2, <1>9, <1>11
    <3>2. EntrySize - EntrySize = 0 BY <1>2
    <3> QED BY <1>11, <3>1, <3>2
  <2>3. Piece(h, a, EntrySize) \in Seq(Values(h)) BY <1>2, PieceFacts
  <2>4. Cells(a, EntrySize) \o <<>> = Cells(a, EntrySize) BY <1>10, <2>3 DEF Cells
  <2> HIDE DEF Turn
  <2> QED BY <2>2, <2>4
<1>14. Eq(path)
  <2>1. ASSUME NEW c \in 0 .. EntrySize PROVE path[c] = IF c = 0 THEN <<>> ELSE Turn(path[c - 1])
    <3>1. CASE c = 0 BY <3>1
    <3>2. CASE c = 1
      <4>1. 0 \in 0 .. EntrySize /\ path[0] = <<>> /\ path[c] = Cells(a, EntrySize) BY <1>2, <3>2
      <4> HIDE DEF Turn, path
      <4> QED BY <1>12, <3>2, <4>1
    <3>3. CASE c # 0 /\ c # 1
      <4>1. c - 1 \in 0 .. EntrySize /\ c - 1 # 0 BY <1>2, <3>3
      <4>2. path[c - 1] = Cells(a, EntrySize) /\ path[c] = Cells(a, EntrySize) BY <3>3, <4>1
      <4> HIDE DEF Turn, path
      <4> QED BY <1>13, <3>3, <4>2
    <3> QED BY <3>1, <3>2, <3>3
  <2> HIDE DEF Turn
  <2> QED BY <2>1
<1>15. PICK after : after = CHOOSE g : Eq(g) OBVIOUS
<1>16. Eq(after)
  <2>1. \E g : Eq(g) BY <1>14
  <2> HIDE DEF Eq
  <2> QED BY <1>15, <2>1
<1>17. after[EntrySize] = path[EntrySize]
  <2> HIDE DEF Turn
  <2>1. 0 \in 0 .. EntrySize /\ after[0] = path[0] BY <1>2, <1>16
  <2>2. ASSUME NEW c \in 1 .. EntrySize, after[c - 1] = path[c - 1] PROVE after[c] = path[c]
    <3>1. c \in 0 .. EntrySize /\ c # 0 OBVIOUS
    <3>2. after[c] = Turn(after[c - 1]) BY <1>16, <3>1
    <3>3. path[c] = Turn(path[c - 1])
      <4> HIDE DEF path
      <4> QED BY <1>14, <3>1
    <3> QED BY <2>2, <3>2, <3>3
  <2> HIDE DEF path
  <2> QED BY <1>2, <2>1, <2>2, LoopIs
<1>18. Entry(k) = Cells(a, EntrySize)
  <2>1. Entry(k) = after[EntrySize] BY <1>3, <1>15, Zenon DEF Entry, OpenFileReadFully, Repeated
  <2>2. path[EntrySize] = Cells(a, EntrySize) BY <1>2
  <2> QED BY <1>17, <2>1, <2>2
<1>19. ASSUME NEW j \in 1 .. EntrySize PROVE Entry(k)[j] = disk[Cell(RootBlock, EntryCell(k, j))]
  <2>1. Entry(k)[j] = disk[a + j - 1] BY <1>18 DEF Cells, Piece
  <2>2. RootBlock * BlockSize \in Int BY <1>2
  <2>3. a + j - 1 = Cell(RootBlock, EntryCell(k, j)) BY <1>2, <1>3, <1>8, <2>2 DEF Cell, EntryCell, Header
  <2> QED BY <2>1, <2>3
<1> QED BY <1>19

\* The entries that lookup reads are the names and the starts of the files.
LEMMA EntryFound ==
    ASSUME FatInv, fat # <<>>
    PROVE  /\ dir.length \div EntrySize = Len(NameLen)
           /\ \A g \in Files : /\ \A j \in 1 .. NameCells : Entry(g)[j] = Name(g, j)
                               /\ Entry(g)[EntrySize] = FirstBlock(g)
<1>1. step = "done" /\ dir = RootFile BY DEF FatInv, KernelInv
<1>2. ImageInv /\ \A g \in Files : g < i BY <1>1, DoneFacts
<1>3. /\ EntrySize \in Nat /\ EntrySize >= 1 /\ EntrySize = NameCells + 1 /\ NameCells \in Nat
      /\ Len(NameLen) \in Nat
  BY Geometry
<1>4. dir.length \div EntrySize = Len(NameLen)
  <2>1. PICK a \in Nat : a = Len(NameLen) * EntrySize BY <1>3
  <2>2. /\ a \div EntrySize \in Nat /\ a % EntrySize \in 0 .. EntrySize - 1
        /\ a = (a \div EntrySize) * EntrySize + (a % EntrySize)
    BY <1>3, DivisionFacts
  <2>3. PICK p \in Int, s \in 0 .. EntrySize - 1 : p = a \div EntrySize /\ s = a % EntrySize BY <2>2
  <2>4. PICK z \in 0 .. EntrySize - 1 : z = 0 BY <1>3
  <2>5. Len(NameLen) * EntrySize + z = p * EntrySize + s /\ Len(NameLen) \in Int
    BY <1>3, <2>1, <2>2, <2>3, <2>4
  <2>6. Len(NameLen) = p BY <1>3, <2>5, QuotientUnique
  <2>7. dir.length = a BY <1>1, <2>1 DEF RootFile
  <2> QED BY <2>3, <2>6, <2>7
<1>5. ASSUME NEW g \in Files, NEW j \in 1 .. NameCells PROVE Entry(g)[j] = Name(g, j)
  <2>1. j \in 1 .. EntrySize BY <1>3
  <2>2. Entry(g)[j] = disk[Cell(RootBlock, EntryCell(g, j))] BY <2>1, EntryRead
  <2> QED BY <1>2, <2>2 DEF ImageInv, RootExact
<1>6. ASSUME NEW g \in Files PROVE Entry(g)[EntrySize] = FirstBlock(g)
  <2>1. EntrySize \in 1 .. EntrySize BY <1>3
  <2>2. Entry(g)[EntrySize] = disk[Cell(RootBlock, EntryCell(g, EntrySize))] BY <2>1, EntryRead
  <2>3. FirstBlock(g) = disk[Cell(RootBlock, EntryCell(g, EntrySize))] BY <1>2, DirectoryFacts DEF ImageInv
  <2> QED BY <2>2, <2>3
<1> QED BY <1>4, <1>5, <1>6

\* A name matches an entry when it is the entry's and leaves room for its 0.
LEMMA MatchFacts ==
    ASSUME FatInv, fat # <<>>, NEW g \in Files, NEW name \in Names
    PROVE  Matches(Entry(g), name) <=> NameOf(g) = name /\ NameLen[g] < NameCells
<1>1. PICK n \in Nat : n = NameLen[g] /\ n >= 1 BY Geometry
<1>2. NameCells \in Nat BY Geometry
<1>3. \A j \in 1 .. NameCells : Entry(g)[j] = IF j <= n THEN j ELSE 0
  BY <1>1, EntryFound DEF Name
<1>4. NameOf(g) = [j \in 1 .. n + 1 |-> IF j <= n THEN j ELSE 0] BY <1>1 DEF NameOf, Name
<1>5. ASSUME n < NameCells, NameOf(g) = name PROVE Matches(Entry(g), name)
  <2>1. n + 1 \in 1 .. NameCells /\ Entry(g)[n + 1] = 0 BY <1>1, <1>2, <1>3, <1>5
  <2>2. ASSUME NEW j \in 1 .. n + 1 PROVE j \in DOMAIN name /\ Entry(g)[j] = name[j]
    <3>1. j \in 1 .. NameCells BY <1>1, <1>2, <1>5
    <3> QED BY <1>3, <1>4, <1>5, <3>1
  <2> QED BY <2>1, <2>2 DEF Matches
<1>6. ASSUME Matches(Entry(g), name) PROVE n < NameCells /\ NameOf(g) = name
  <2>1. PICK c \in 1 .. NameCells :
           Entry(g)[c] = 0 /\ \A j \in 1 .. c : j \in DOMAIN name /\ Entry(g)[j] = name[j]
    BY <1>6 DEF Matches
  <2>2. c \in Nat /\ c >= 1 /\ c <= NameCells /\ c \in 1 .. c BY <1>2
  <2>3. c > n BY <1>1, <1>3, <2>1, <2>2
  <2>4. name \in Seq(Nat) /\ \A k \in DOMAIN name : name[k] = 0 <=> k = Len(name) BY FatAssumption
  <2>5. c = Len(name) BY <2>1, <2>2, <2>4
  <2>6. ASSUME NEW j \in 1 .. c PROVE Entry(g)[j] = name[j] /\ (j < c => j <= n)
    <3>1. j \in DOMAIN name /\ Entry(g)[j] = name[j] /\ j \in 1 .. NameCells BY <1>2, <2>1, <2>2
    <3>2. j < c => Entry(g)[j] # 0 BY <2>4, <2>5, <3>1
    <3> QED BY <1>1, <1>3, <3>1, <3>2
  <2>7. c = n + 1
    <3> SUFFICES ASSUME c > n + 1 PROVE FALSE BY <1>1, <2>2, <2>3
    <3>1. n + 1 \in 1 .. c /\ n + 1 < c BY <1>1, <2>2
    <3> QED BY <1>1, <2>6, <3>1
  <2>8. \A j \in 1 .. n + 1 : name[j] = IF j <= n THEN j ELSE 0
    <3> SUFFICES ASSUME NEW j \in 1 .. n + 1 PROVE name[j] = IF j <= n THEN j ELSE 0 OBVIOUS
    <3>1. j \in 1 .. c /\ j \in 1 .. NameCells BY <1>1, <1>2, <2>2, <2>7
    <3> QED BY <1>3, <2>6, <3>1
  <2>9. name = [j \in 1 .. n + 1 |-> name[j]]
    <3>1. name = [j \in 1 .. Len(name) |-> name[j]] BY <2>4
    <3>2. Len(name) = n + 1 BY <2>5, <2>7
    <3> QED BY <3>1, <3>2
  <2>10. NameOf(g) = name BY <1>4, <2>8, <2>9
  <2> QED BY <1>1, <1>2, <2>2, <2>7, <2>10
<1> QED BY <1>1, <1>5, <1>6

\* The least of a set of numbers.
LEMMA MinFacts ==
    ASSUME NEW S \in SUBSET Nat, S # {}
    PROVE  Min(S) \in S /\ \A x \in S : Min(S) <= x
<1>1. \E x \in S : \A y \in S : x <= y BY LeastMember
<1> QED BY <1>1 DEF Min

\* The first file of a name.
LEMMA NamedFacts ==
    ASSUME NEW name, Named(name) # {}
    PROVE  Min(Named(name)) \in Files
<1>1. Named(name) \subseteq Files /\ Files \subseteq Nat BY Geometry DEF Named
<1>2. PICK S \in SUBSET Nat : S = Named(name) BY <1>1
<1>3. Min(S) \in S BY <1>2, MinFacts
<1> QED BY <1>1, <1>2, <1>3

\* Fat439Directory::lookup finds the directory itself, the first file of a name
\* that leaves room for its 0, and nothing else.
LEMMA LookupFacts ==
    ASSUME FatInv, fat # <<>>, NEW name \in Names
    PROVE  Lookup(name) = IF name = Dot THEN RootBlock ELSE StartOf(name)
<1>1. 1 .. dir.length \div EntrySize = Files BY EntryFound, Geometry
<1>2. PICK found : found = {k \in 1 .. dir.length \div EntrySize : Matches(Entry(k), name)} OBVIOUS
<1>3. found = Named(name) BY <1>1, <1>2, MatchFacts DEF Named
<1>4. Lookup(name) = CASE name = Dot -> dir.start
                       [] name # Dot /\ found = {} -> 0
                       [] OTHER -> Entry(Min(found))[EntrySize]
  BY <1>2 DEF Lookup
<1>5. dir.start = RootBlock BY DEF FatInv, KernelInv, RootFile
<1>6. Named(name) # {} => Entry(Min(Named(name)))[EntrySize] = FirstBlock(Min(Named(name)))
  BY NamedFacts, EntryFound
<1> QED BY <1>3, <1>4, <1>5, <1>6 DEF StartOf

\* The cells of the directory are the names and the starts.
LEMMA DirectoryCells ==
    ASSUME FatInv, fat # <<>>, NEW c \in Nat, c < Len(NameLen) * EntrySize
    PROVE  /\ Directory[c + 1] = disk[Cell(RootBlock, Header + c)]
           /\ Directory[c + 1] \in Nat
<1>1. step = "done" BY DEF FatInv, KernelInv
<1>2. FatTypeOK /\ ImageInv /\ \A f \in Files : f < i BY <1>1, DoneFacts
<1>3. PICK len, n \in Nat : len = Len(NameLen) /\ n = EntrySize /\ n >= 1 /\ n = NameCells + 1
      /\ NameCells \in Nat
  BY Geometry
<1>4. PICK q \in Nat, p \in 0 .. n - 1 : q = c \div n /\ p = c % n /\ c = q * n + p
  <2>1. n > 0 BY <1>3
  <2>2. c \div n \in Nat /\ c % n \in 0 .. n - 1 /\ c = (c \div n) * n + (c % n) BY <2>1, DivisionFacts
  <2> QED BY <2>2
<1>5. q < len
  <2> SUFFICES ASSUME len <= q PROVE FALSE OBVIOUS
  <2>1. len * n \in Nat /\ q * n \in Nat /\ c < len * n BY <1>3
  <2>2. CASE len = q BY <1>4, <2>1, <2>2
  <2>3. CASE len < q
    <3>1. len * n + n <= q * n BY <1>3, <2>3, ProductOrder
    <3> QED BY <1>3, <1>4, <2>1, <3>1
  <2> QED BY <2>2, <2>3
<1>6. PICK f \in Files, k \in 1 .. n : f = 1 + q /\ k = 1 + p
  <2>1. 1 + q \in 1 .. len /\ 1 + p \in 1 .. n BY <1>3, <1>4, <1>5
  <2>2. 1 + q \in Files BY <1>3, <2>1 DEF Files
  <2> QED BY <2>1, <2>2
<1>7. Directory[c + 1] = IF k = n THEN FirstBlock(f) ELSE Name(f, k)
  <2>1. PICK a \in Nat : a = Len(NameLen) * EntrySize BY <1>3
  <2>2. c + 1 \in 1 .. a /\ (c + 1) - 1 = c BY <2>1
  <2>3. 1 + (c \div EntrySize) = f /\ 1 + (c % EntrySize) = k
    <3>1. n = EntrySize BY <1>3
    <3>2. c \div EntrySize = q /\ c % EntrySize = p BY <1>4, <3>1
    <3> QED BY <1>6, <3>2
  <2>4. Directory[c + 1] = LET g == 1 + (((c + 1) - 1) \div EntrySize)
                               j == 1 + (((c + 1) - 1) % EntrySize)
                           IN  IF j = EntrySize THEN FirstBlock(g) ELSE Name(g, j)
    BY <2>1, <2>2 DEF Directory
  <2> QED BY <1>3, <2>2, <2>3, <2>4
<1>8. EntryCell(f, k) = Header + c /\ k \in 1 .. EntrySize
  <2>1. PICK m \in Nat : m = q * n BY <1>3
  <2>2. f - 1 = q /\ k - 1 = p /\ c = m + p BY <1>4, <1>6, <2>1
  <2>3. EntryCell(f, k) = Header + m + k - 1 BY <1>3, <2>1, <2>2 DEF EntryCell
  <2> QED BY <1>3, <2>2, <2>3 DEF Header
<1>9. Directory[c + 1] = disk[Cell(RootBlock, EntryCell(f, k))]
  <2>1. CASE k = n
    <3>1. FirstBlock(f) = disk[Cell(RootBlock, EntryCell(f, EntrySize))]
      BY <1>2, DirectoryFacts DEF ImageInv
    <3> QED BY <1>3, <1>7, <2>1, <3>1
  <2>2. CASE k # n
    <3>1. k \in 1 .. NameCells BY <1>3, <2>2
    <3> QED BY <1>2, <1>7, <2>2, <3>1 DEF ImageInv, RootExact
  <2> QED BY <2>1, <2>2
<1>10. disk[Cell(RootBlock, EntryCell(f, k))] \in Nat
  <2>1. EntryCell(f, k) \in Within BY <1>8, EntryFacts
  <2>2. RootBlock \in Int /\ RootBlock \in 0 .. RootBlock BY Geometry DEF RootBlock
  <2>3. Cell(RootBlock, EntryCell(f, k)) \in Address BY <2>1, <2>2, CellFacts
  <2> QED BY <1>2, <2>3, TypeFacts DEF Disks
<1> QED BY <1>8, <1>9, <1>10

DirectoryData == [c \in Nat |-> IF c < Len(NameLen) * EntrySize THEN Directory[c + 1] ELSE 0]

\* The directory is all of them.
LEMMA DirectoryWhole ==
    ASSUME FatInv, fat # <<>>
    PROVE  /\ Directory = Piece(DirectoryData, 0, RootFile.length)
           /\ Values(DirectoryData) \subseteq Nat /\ RootFile.length \in Nat
<1>1. PICK all \in Nat : all = Len(NameLen) * EntrySize BY Geometry
<1>2. RootFile.length = all BY <1>1 DEF RootFile
<1>3. PICK h : h = DirectoryData OBVIOUS
<1>4. \A c \in Nat : h[c] = IF c < all THEN Directory[c + 1] ELSE 0 BY <1>1, <1>3 DEF DirectoryData
<1>5. Directory = [k \in 1 .. all |-> Directory[k]] BY <1>1 DEF Directory
<1>6. \A k \in 1 .. all : h[0 + k - 1] = Directory[k]
  <2> SUFFICES ASSUME NEW k \in 1 .. all PROVE h[0 + k - 1] = Directory[k] OBVIOUS
  <2>1. PICK c \in Nat : c = k - 1 /\ c < all /\ c + 1 = k /\ 0 + k - 1 = c OBVIOUS
  <2> QED BY <1>4, <2>1
<1>7. Directory = Piece(h, 0, all) BY <1>5, <1>6 DEF Piece
<1>8. Values(h) \subseteq Nat
  <2>1. \A c \in Nat : h[c] \in Nat BY <1>1, <1>4, DirectoryCells
  <2> QED BY <2>1 DEF Values
<1> QED BY <1>2, <1>3, <1>7, <1>8

\* The directory is read as a file is: its one block may be full, and then the
\* block of its end is none.
LEMMA DirectoryReadFacts ==
    ASSUME FatInv, fat # <<>>
    PROVE  Readable(RootFile, DirectoryData)
<1>1. /\ BlockSize \in Nat /\ BlockSize >= 4 /\ RootBlock \in Nat /\ Header = 2
      /\ fat = [b \in 0 .. RootBlock |-> disk[FatAt(b)]] /\ ImageInv /\ FatBlocks \in Nat
  BY Geometry, DoneFacts DEF RootBlock, FatInv, KernelInv
<1>2. PICK all \in Nat : all = Len(NameLen) * EntrySize BY Geometry
<1>3. RootFile.length = all /\ RootFile.start = RootBlock /\ all + 2 <= BlockSize
  BY <1>1, <1>2, MkfsAssumption DEF RootFile, Header
<1> SUFFICES ASSUME NEW o \in 0 .. all, NEW n \in Nat
             PROVE  Gets(DirectoryData, all, o, n, OpenFileRead(RootFile, o, n))
  BY <1>3 DEF Readable
<1>4. PICK q \in Nat, p \in 0 .. BlockSize - 1 : q = (o + 2) \div BlockSize /\ p = (o + 2) % BlockSize
                                                /\ o + 2 = q * BlockSize + p
  <2>1. PICK e \in Nat : e = o + 2 OBVIOUS
  <2>2. e \div BlockSize \in Nat /\ e % BlockSize \in 0 .. BlockSize - 1
        /\ e = (e \div BlockSize) * BlockSize + (e % BlockSize)
    BY <1>1, DivisionFacts
  <2> QED BY <2>1, <2>2
<1>5. PICK len \in Nat : len = IF n < all - o THEN n ELSE all - o
  <2>1. PICK rest \in Nat : rest = all - o OBVIOUS
  <2> QED BY <2>1
<1>6. OpenFileRead(RootFile, o, n) = DevRead(BlockOf(RootFile, o) * BlockSize + p, len)
  BY <1>1, <1>3, <1>4, <1>5 DEF OpenFileRead
<1> DEFINE Eq(g) == g = [c \in 0 .. q |-> IF c = 0 THEN RootBlock ELSE fat[g[c - 1]]]
<1>7. PICK after : after = CHOOSE g : Eq(g) OBVIOUS
<1>8. BlockOf(RootFile, o) = after[q] BY <1>1, <1>3, <1>4, <1>7 DEF BlockOf, Repeated
<1>9. CASE o + 2 < BlockSize
  <2>1. q = 0 /\ p = o + 2
    <3>1. PICK e \in 0 .. BlockSize - 1 : e = o + 2 BY <1>1, <1>9
    <3>2. 0 * BlockSize + e = q * BlockSize + p /\ 0 \in Int /\ q \in Int /\ BlockSize > 0
      BY <1>1, <1>4, <3>1
    <3>3. 0 = q /\ e = p BY <1>1, <3>2, QuotientUnique
    <3> QED BY <3>1, <3>3
  <2>2. after[q] = RootBlock
    <3>1. Eq([c \in 0 .. 0 |-> RootBlock]) BY <2>1
    <3>2. Eq(after)
      <4>1. \E g : Eq(g) BY <3>1
      <4> HIDE DEF Eq
      <4> QED BY <1>7, <4>1
    <3> QED BY <2>1, <3>2
  <2>3. PICK a \in Nat : a = RootBlock * BlockSize + (o + 2) BY <1>1
  <2>4. a % BlockSize = o + 2
    <3>1. PICK t \in Nat, z \in 0 .. BlockSize - 1 : z = a % BlockSize /\ a = t * BlockSize + z
      <4>1. /\ a \div BlockSize \in Nat /\ a % BlockSize \in 0 .. BlockSize - 1
            /\ a = (a \div BlockSize) * BlockSize + (a % BlockSize)
        BY <1>1, DivisionFacts
      <4> QED BY <4>1
    <3>2. t \in Int /\ RootBlock \in Int /\ t * BlockSize + z = RootBlock * BlockSize + p /\ BlockSize > 0
      BY <1>1, <2>1, <2>3, <3>1
    <3>3. z = p BY <1>1, <3>2, QuotientUnique
    <3> QED BY <2>1, <3>1, <3>3
  <2>5. OpenFileRead(RootFile, o, n) = Cells(a, len)
    <3>1. OpenFileRead(RootFile, o, n) = DevRead(a, len) BY <1>6, <1>8, <2>1, <2>2, <2>3
    <3>2. DevRead(a, len) = Cells(a, IF len < BlockSize - (a % BlockSize) THEN len ELSE BlockSize - (a % BlockSize))
      BY DevReadFacts
    <3>3. (IF len < BlockSize - (o + 2) THEN len ELSE BlockSize - (o + 2)) = len BY <1>1, <1>3, <1>5
    <3> QED BY <2>4, <3>1, <3>2, <3>3
  <2>6. Cells(a, len) = Piece(DirectoryData, o, len)
    <3>1. ASSUME NEW k \in 1 .. len PROVE disk[a + k - 1] = DirectoryData[o + k - 1]
      <4>1. PICK c \in Nat : c = o + k - 1 /\ c < all BY <1>5
      <4>2. DirectoryData[c] = disk[Cell(RootBlock, Header + c)] BY <1>2, <4>1, DirectoryCells DEF DirectoryData
      <4>3. RootBlock * BlockSize \in Nat BY <1>1
      <4>4. a + k - 1 = Cell(RootBlock, Header + c) BY <1>1, <2>3, <4>1, <4>3 DEF Cell
      <4> QED BY <4>1, <4>2, <4>4
    <3> QED BY <3>1 DEF Cells, Piece
  <2>7. len <= n /\ len <= all - o /\ (len = 0 => n = 0 \/ o = all) BY <1>5
  <2> QED BY <2>5, <2>6, <2>7 DEF Gets
<1>10. CASE ~(o + 2 < BlockSize)
  <2>1. o = all /\ o + 2 = BlockSize /\ len = 0 BY <1>1, <1>3, <1>5, <1>10
  <2>2. q = 1
    <3>1. 0 \in 0 .. BlockSize - 1 /\ 1 \in Int /\ 1 * BlockSize + 0 = BlockSize BY <1>1
    <3>2. 1 * BlockSize + 0 = q * BlockSize + p /\ q \in Int /\ BlockSize > 0 BY <1>1, <1>4, <2>1, <3>1
    <3> QED BY <1>1, <3>1, <3>2, QuotientUnique
  <2>3. RootBlock \in 0 .. RootBlock /\ fat[RootBlock] = 0
    BY <1>1 DEF ImageInv, LinksExact
  <2>4. after[q] = 0
    <3>1. Eq([c \in 0 .. 1 |-> IF c = 0 THEN RootBlock ELSE 0]) BY <2>2, <2>3
    <3>2. Eq(after)
      <4>1. \E g : Eq(g) BY <3>1
      <4> HIDE DEF Eq
      <4> QED BY <1>7, <4>1
    <3>3. after[0] = RootBlock /\ after[1] = fat[after[0]] BY <2>2, <3>2
    <3> QED BY <2>2, <2>3, <3>3
  <2>5. OpenFileRead(RootFile, o, n) = DevRead(p, 0)
    <3>1. 0 * BlockSize + p = p BY <1>1
    <3> QED BY <1>6, <1>8, <2>1, <2>4, <3>1
  <2>6. PICK d : d = disk OBVIOUS
  <2>7. PICK h : h = DirectoryData OBVIOUS
  <2>8. DevRead(p, 0) = Piece(d, p, 0)
    <3>1. PICK room \in Nat : room = BlockSize - (p % BlockSize)
      <4>1. p % BlockSize \in Within BY DevReadFacts
      <4> QED BY <1>1, <4>1 DEF Within
    <3>2. DevRead(p, 0) = Cells(p, IF 0 < room THEN 0 ELSE room) BY <3>1, DevReadFacts
    <3>3. (IF 0 < room THEN 0 ELSE room) = 0 BY <3>1
    <3> QED BY <2>6, <3>2, <3>3 DEF Cells
  <2>9. Piece(d, p, 0) = Piece(h, o, 0) BY DEF Piece
  <2>10. OpenFileRead(RootFile, o, n) = Piece(h, o, 0) BY <2>5, <2>8, <2>9
  <2>11. 0 <= n /\ 0 <= all - o /\ (0 = 0 => n = 0 \/ o = all) BY <2>1
  <2> QED BY <2>7, <2>10, <2>11 DEF Gets
<1> QED BY <1>9, <1>10

\* The constructor of OpenFile reads the header of the block.
LEMMA OpenFileFacts ==
    ASSUME NEW b \in Nat
    PROVE  OpenFile(b) = [start |-> b, type |-> disk[Cell(b, 0)], length |-> disk[Cell(b, 1)]]
<1>1. PICK a \in Nat : a = b * BlockSize BY Geometry
<1>2. DevReadFully(a, 2) = Cells(a, 2) BY DevReadFullyFacts
<1>3. Cells(a, 2)[1] = disk[a] /\ Cells(a, 2)[2] = disk[a + 1] BY DEF Cells, Piece
<1>4. Cell(b, 0) = a /\ Cell(b, 1) = a + 1 BY <1>1 DEF Cell
<1> QED BY <1>1, <1>2, <1>3, <1>4 DEF OpenFile, Header

-----------------------------------------------------------------------------
(***************************************************************************)
(* The invariant holds.                                                    *)
(***************************************************************************)

\* main() has written the root directory, with its length for all entries.
LEMMA ImageInit ==
    ASSUME MkfsInit
    PROVE  disk \in Disks /\ ImageInv
<1> DEFINE last == NBlocks - 1
           fresh == [a \in 0 .. NBlocks * BlockSize - 1 |->
                       CASE a = 0 -> Magic
                         [] a = 1 -> NBlocks
                         [] a = AvailAt -> last
                         [] a \in {FatAt(b) : b \in FatBlocks + 2 .. last} -> a - BlockSize - 1
                         [] OTHER -> 0]
<1>1. PICK d : d = fresh OBVIOUS
<1>2. /\ disk = [GetBlock(d) EXCEPT ![RootAt] = RootBlock, ![RootBlock * BlockSize] = 2,
                                    ![RootBlock * BlockSize + 1] = Len(NameLen) * EntrySize]
      /\ sizes \in [Files -> Sizes] /\ step = "next" /\ i = 1
  BY <1>1, Zenon DEF MkfsInit, RootBlock
<1>3. /\ BlockSize \in Nat /\ BlockSize >= 4 /\ NBlocks \in Nat /\ FatBlocks \in Nat /\ FatBlocks >= 1
      /\ RootBlock \in Nat /\ RootBlock = NBlocks - 1 /\ FatBlocks + 1 <= RootBlock
      /\ RootBlock \in DataBlock /\ 0 \in Within /\ 1 \in Within /\ RootBlock \in 0 .. RootBlock
  BY Geometry DEF RootBlock, DataBlock, Within
<1>4. PICK len \in Nat : len = Len(NameLen) * EntrySize BY Geometry
<1>5. ASSUME NEW b \in 0 .. RootBlock
      PROVE  d[FatAt(b)] = IF b >= FatBlocks + 2 THEN b - 1 ELSE 0
  <2>1. FatAt(b) \in Address /\ FatAt(b) = BlockSize + b /\ FatAt(b) \in Int /\ b \in Int
    BY <1>3, FatCellFacts DEF FatAt
  <2>2. FatAt(b) # 0 /\ FatAt(b) # 1 /\ FatAt(b) # AvailAt BY <1>3, <2>1 DEF AvailAt
  <2>3. FatAt(b) \in {FatAt(c) : c \in FatBlocks + 2 .. RootBlock} <=> b >= FatBlocks + 2
    <3>1. \A c \in FatBlocks + 2 .. RootBlock : FatAt(c) = FatAt(b) => c = b BY <1>3, <2>1 DEF FatAt
    <3> QED BY <1>3, <2>1, <3>1
  <2>4. d[FatAt(b)] = IF FatAt(b) \in {FatAt(c) : c \in FatBlocks + 2 .. RootBlock}
                      THEN FatAt(b) - BlockSize - 1 ELSE 0
    BY <1>1, <2>1, <2>2 DEF Address, RootBlock
  <2> QED BY <1>3, <2>1, <2>3, <2>4
<1>6. d \in Disks /\ d[0] = Magic /\ d[1] = NBlocks /\ d[AvailAt] = RootBlock
  <2>1. ASSUME NEW a \in Address PROVE d[a] \in Nat
    <3>1. CASE a \in {FatAt(b) : b \in FatBlocks + 2 .. RootBlock}
      <4>1. PICK b \in FatBlocks + 2 .. RootBlock : a = FatAt(b) BY <3>1
      <4>2. b \in 0 .. RootBlock BY <1>3
      <4> QED BY <1>3, <1>5, <4>1, <4>2
    <3>2. CASE a \notin {FatAt(b) : b \in FatBlocks + 2 .. RootBlock}
      <4>1. d[a] \in {Magic, NBlocks, RootBlock, 0} BY <1>1, <3>2 DEF Address, RootBlock
      <4> QED BY <1>3, <4>1 DEF Magic
    <3> QED BY <3>1, <3>2
  <2>2. d = [a \in Address |-> d[a]] BY <1>1 DEF Address
  <2>3. {0, 1, AvailAt} \subseteq Address BY SuperFacts
  <2>4. d[0] = Magic /\ d[1] = NBlocks /\ d[AvailAt] = RootBlock
    <3>1. \A a \in {0, 1, AvailAt} : a \notin {FatAt(b) : b \in FatBlocks + 2 .. RootBlock}
      BY <1>3 DEF FatAt, AvailAt
    <3> QED BY <1>1, <2>3, <3>1 DEF Address, RootBlock, AvailAt
  <2> QED BY <2>1, <2>2, <2>4 DEF Disks
<1>7. PICK g \in Disks : g = GetBlock(d) BY <1>3, <1>6, GetBlockFacts
<1>8. /\ g[0] = Magic /\ g[1] = NBlocks
      /\ g[AvailAt] = IF RootBlock >= FatBlocks + 2 THEN RootBlock - 1 ELSE 0
      /\ \A b \in 0 .. RootBlock : g[FatAt(b)] = IF b = RootBlock THEN 0 ELSE d[FatAt(b)]
  <2>1. /\ \A a \in {0, 1, RootAt} : g[a] = d[a]
        /\ g[AvailAt] = d[FatAt(RootBlock)]
        /\ \A b \in 0 .. RootBlock : g[FatAt(b)] = IF b = RootBlock THEN 0 ELSE d[FatAt(b)]
    BY <1>3, <1>6, <1>7, GetBlockFacts
  <2> QED BY <1>3, <1>5, <1>6, <2>1
<1>9. PICK r : r = [g EXCEPT ![RootAt] = RootBlock] OBVIOUS
<1>10. /\ r \in Disks /\ r[0] = Magic /\ r[1] = NBlocks /\ r[RootAt] = RootBlock
       /\ r[AvailAt] = g[AvailAt]
       /\ \A b \in 0 .. RootBlock : r[FatAt(b)] = g[FatAt(b)]
  <2>1. {0, 1, AvailAt, RootAt} \subseteq Address /\ RootAt = 3 /\ AvailAt = 2
    BY SuperFacts DEF RootAt, AvailAt
  <2>2. r \in Disks BY <1>3, <1>9, <2>1 DEF Disks
  <2>3. \A b \in 0 .. RootBlock : FatAt(b) \in Address /\ FatAt(b) # RootAt
    BY <1>3, FatCellFacts DEF FatAt, RootAt
  <2> QED BY <1>8, <1>9, <2>1, <2>2, <2>3 DEF Disks
<1>11. PICK t : t = [r EXCEPT ![Cell(RootBlock, 0)] = 2] OBVIOUS
<1>12. Put(r, t, RootBlock, 0, 2)
  <2>1. Put(r, [r EXCEPT ![Cell(RootBlock, 0)] = 2], RootBlock, 0, 2) BY <1>3, <1>10, PutFacts
  <2> QED BY <1>11, <2>1
<1>13. t \in Disks BY <1>12 DEF Put
<1>14. PICK u : u = [t EXCEPT ![Cell(RootBlock, 1)] = len] OBVIOUS
<1>15. Put(t, u, RootBlock, 1, len)
  <2>1. Put(t, [t EXCEPT ![Cell(RootBlock, 1)] = len], RootBlock, 1, len) BY <1>3, <1>13, PutFacts
  <2> QED BY <1>14, <2>1
<1>16. disk = u
  <2>1. Cell(RootBlock, 0) = RootBlock * BlockSize /\ Cell(RootBlock, 1) = RootBlock * BlockSize + 1
    BY <1>3 DEF Cell
  <2> QED BY <1>2, <1>4, <1>7, <1>9, <1>11, <1>14, <2>1
<1>17. /\ disk \in Disks /\ disk[0] = Magic /\ disk[1] = NBlocks /\ disk[RootAt] = RootBlock
       /\ disk[AvailAt] = IF RootBlock >= FatBlocks + 2 THEN RootBlock - 1 ELSE 0
       /\ \A b \in 0 .. RootBlock : disk[FatAt(b)] = g[FatAt(b)]
       /\ disk[Cell(RootBlock, 0)] = 2 /\ disk[Cell(RootBlock, 1)] = len
  BY <1>3, <1>8, <1>10, <1>12, <1>15, <1>16 DEF Put
<1>18. Begun = {} /\ \A f \in Files : ~(f < i) BY <1>2, Geometry DEF Begun
<1>19. Top = RootBlock - 1 BY <1>3, <1>17 DEF Top
<1>20. SuperExact BY <1>3, <1>17 DEF SuperExact
<1>21. RootExact BY <1>4, <1>17, <1>18 DEF RootExact
<1>22. LinksExact
  <2>1. ASSUME NEW b \in 0 .. RootBlock
        PROVE  disk[FatAt(b)] = IF b <= FatBlocks + 1 \/ b = RootBlock THEN 0 ELSE b - 1
    <3>1. b \in Int BY <1>3
    <3> QED BY <1>3, <1>5, <1>8, <1>17, <3>1
  <2> QED BY <1>18, <2>1 DEF LinksExact
<1>23. RangesExact BY <1>3, <1>18, <1>19 DEF RangesExact
<1>24. CopyExact BY <1>2, Geometry DEF CopyExact
<1>25. HeadersExact /\ DataExact BY <1>18 DEF HeadersExact, DataExact
<1> QED BY <1>17, <1>20, <1>21, <1>22, <1>23, <1>24, <1>25 DEF ImageInv

LEMMA FatInitOK == FatInit => FatInv
<1> SUFFICES ASSUME FatInit PROVE FatInv OBVIOUS
<1>1. MkfsInit /\ fat = <<>> /\ dir = Closed /\ file = Closed /\ offset = 0 /\ data = <<>> /\ err = FALSE
  BY DEF FatInit
<1>2. disk \in Disks /\ ImageInv BY <1>1, ImageInit
<1>3. /\ sizes \in [Files -> Sizes] /\ step = "next" /\ i = 1
      /\ start = 0 /\ current = 0 /\ left = 0 /\ total = 0
  BY <1>1 DEF MkfsInit
<1>4. FatTypeOK
  <2>1. NBlocks \in Nat /\ NBlocks >= 1 /\ BlockSize \in Nat /\ Len(NameLen) \in Nat BY Geometry
  <2>2. disk \in [0 .. NBlocks * BlockSize - 1 -> Nat] BY <1>2 DEF Disks, Address
  <2>3. i \in 1 .. Len(NameLen) + 1 BY <1>3, <2>1
  <2>4. {start, current} \subseteq 0 .. NBlocks - 1 /\ left \in 0 .. BlockSize BY <1>3, <2>1
  <2>5. {dir, file} \subseteq [start : 0 .. NBlocks - 1, type : {0, 1, 2}, length : Nat]
    BY <1>1, <2>1 DEF Closed
  <2>6. data \in Seq(Nat) /\ Len(data) <= MaxRead BY <1>1, FatAssumption
  <2>7. err \in BOOLEAN BY <1>1
  <2> QED BY <1>1, <1>3, <2>2, <2>3, <2>4, <2>5, <2>6, <2>7 DEF FatTypeOK
<1>5. KernelInv BY <1>1 DEF KernelInv
<1> QED BY <1>2, <1>4, <1>5 DEF FatInv

\* A step of mkfs.
LEMMA BuildStep ==
    ASSUME FatInv, Build
    PROVE  FatInv'
<1>1. FatTypeOK /\ KernelInv /\ fat = <<>> /\ MkfsNext /\ UNCHANGED kernelVars BY DEF FatInv, Build
<1>2. /\ disk \in Disks /\ sizes \in [Files -> Sizes] /\ i \in 1 .. Len(NameLen) + 1
      /\ start \in 0 .. RootBlock /\ current \in 0 .. RootBlock
      /\ left \in 0 .. BlockSize /\ total \in Nat
      /\ BlockSize \in Nat /\ BlockSize >= 4 /\ Len(NameLen) \in Nat /\ RootBlock \in Nat
      /\ FatBlocks \in Nat /\ Files = 1 .. Len(NameLen)
  <2>1. i \in 1 .. Len(NameLen) + 1 BY <1>1 DEF FatTypeOK
  <2> QED BY <1>1, <2>1, TypeFacts, Geometry
<1> DEFINE Good == /\ disk' \in Disks /\ (step' # "full" => ImageInv')
                   /\ sizes' = sizes /\ i' \in 1 .. Len(NameLen) + 1
                   /\ start' \in 0 .. RootBlock /\ current' \in 0 .. RootBlock
                   /\ left' \in 0 .. BlockSize /\ total' \in Nat
                   /\ step' \in {"next", "copy", "full", "done"}
<1>3. ASSUME StartFile PROVE Good
  <2>1. step = "next" /\ ImageInv BY <1>3 DEF StartFile, FatInv
  <2>2. CASE disk[AvailAt] = 0
    <3>1. /\ step' = "full" /\ disk' = disk /\ start' = start /\ current' = current
          /\ left' = left /\ total' = total /\ sizes' = sizes /\ i' = i
      BY <1>3, <2>2 DEF StartFile
    <3> QED BY <1>2, <3>1
  <2>3. CASE disk[AvailAt] # 0
    <3>1. /\ step' = "copy" /\ start' = disk[AvailAt] /\ current' = start'
          /\ left' = BlockSize - Header /\ total' = 0 /\ sizes' = sizes /\ i' = i
      BY <1>3, <2>3 DEF StartFile
    <3>2. disk' \in Disks /\ ImageInv' BY <1>1, <1>3, <2>1, <2>3, StartFileStep
    <3>3. disk[AvailAt] \in 0 .. RootBlock
      BY <1>2, <2>1, <2>3 DEF ImageInv, SuperExact
    <3>4. BlockSize - Header \in 0 .. BlockSize BY <1>2 DEF Header
    <3> QED BY <1>2, <3>1, <3>2, <3>3, <3>4
  <2> QED BY <2>2, <2>3
<1>4. ASSUME NewBlock PROVE Good
  <2>1. step = "copy" /\ ImageInv BY <1>4 DEF NewBlock, FatInv
  <2>2. CASE disk[AvailAt] = 0
    <3>1. /\ step' = "full" /\ disk' = disk /\ start' = start /\ current' = current
          /\ left' = left /\ total' = total /\ sizes' = sizes /\ i' = i
      BY <1>4, <2>2 DEF NewBlock
    <3> QED BY <1>2, <3>1
  <2>3. CASE disk[AvailAt] # 0
    <3>1. /\ step' = step /\ start' = start /\ current' = disk[AvailAt]
          /\ left' = BlockSize /\ total' = total /\ sizes' = sizes /\ i' = i
      BY <1>4, <2>3 DEF NewBlock
    <3>2. disk' \in Disks /\ ImageInv' BY <1>1, <1>4, <2>1, <2>3, NewBlockStep
    <3>3. disk[AvailAt] \in 0 .. RootBlock
      BY <1>2, <2>1, <2>3 DEF ImageInv, SuperExact
    <3> QED BY <1>2, <2>1, <3>1, <3>2, <3>3
  <2> QED BY <2>2, <2>3
<1>5. ASSUME NEW n \in 1 .. BlockSize, ReadSome(n) PROVE Good
  <2>1. step = "copy" /\ ImageInv BY <1>5 DEF ReadSome, FatInv
  <2>2. /\ step' = step /\ start' = start /\ current' = current /\ n <= left
        /\ left' = left - n /\ total' = total + n /\ sizes' = sizes /\ i' = i
    BY <1>5 DEF ReadSome
  <2>3. disk' \in Disks /\ ImageInv' BY <1>1, <1>5, <2>1, ReadSomeStep
  <2> QED BY <1>2, <2>1, <2>2, <2>3
<1>6. ASSUME EndOfFile PROVE Good
  <2>1. step = "copy" /\ ImageInv BY <1>6 DEF EndOfFile, FatInv
  <2>2. /\ step' = IF i' \in Files THEN "next" ELSE "done"
        /\ start' = start /\ current' = current
        /\ left' = left /\ total' = total /\ sizes' = sizes /\ i' = i + 1
    BY <1>6 DEF EndOfFile
  <2>3. disk' \in Disks /\ ImageInv' BY <1>1, <1>6, <2>1, EndOfFileStep
  <2>4. i \in Files BY <2>1 DEF ImageInv, CopyExact
  <2> QED BY <1>2, <2>1, <2>2, <2>3, <2>4
<1>7. Good
  <2> HIDE DEF Good
  <2> QED BY <1>1, <1>3, <1>4, <1>5, <1>6 DEF MkfsNext
<1>8. fat' = <<>> /\ dir' = dir /\ file' = file /\ offset' = offset /\ data' = data /\ err' = err
  BY <1>1 DEF kernelVars
<1>9. FatTypeOK'
  <2>1. NBlocks - 1 = RootBlock BY DEF RootBlock
  <2>2. disk' \in [0 .. NBlocks * BlockSize - 1 -> Nat] BY <1>7 DEF Disks, Address
  <2>3. sizes' \in [Files -> Sizes] BY <1>2, <1>7
  <2>4. {start', current'} \subseteq 0 .. NBlocks - 1 BY <1>7, <2>1
  <2>5. /\ offset' \in Nat /\ data' \in Seq(Nat) /\ Len(data') <= MaxRead /\ err' \in BOOLEAN
        /\ {dir', file'} \subseteq [start : 0 .. NBlocks - 1, type : {0, 1, 2}, length : Nat]
    BY <1>1, <1>8 DEF FatTypeOK
  <2> QED BY <1>7, <1>8, <2>2, <2>3, <2>4, <2>5 DEF FatTypeOK
<1>10. KernelInv' BY <1>1, <1>8 DEF KernelInv
<1> QED BY <1>7, <1>9, <1>10 DEF FatInv

\* The disk is done, and the kernel does not write it.
LEMMA ImageKept ==
    ASSUME UNCHANGED mkfsVars
    PROVE  /\ \A f \in Files : FirstBlock(f)' = FirstBlock(f) /\ FileOf(f)' = FileOf(f)
           /\ RootFile' = RootFile /\ Directory' = Directory
           /\ ImageInv => ImageInv'
<1>1. disk' = disk /\ sizes' = sizes /\ step' = step /\ i' = i /\ start' = start /\ current' = current
      /\ left' = left /\ total' = total
  BY DEF mkfsVars
<1>2. \A f \in Files : FirstBlock(f)' = FirstBlock(f) BY <1>1 DEF FirstBlock, EntryAt
<1>3. \A f \in Files : FileOf(f)' = FileOf(f) BY <1>1, <1>2 DEF FileOf
<1>4. RootFile' = RootFile /\ Directory' = Directory BY <1>1 DEF RootFile, Directory, FirstBlock, EntryAt
<1>5. Begun' = Begun /\ Top' = Top BY <1>1 DEF Begun, Top
<1>6. \A f \in Begun : FirstBlock(f)' = FirstBlock(f) /\ LastBlock(f)' = LastBlock(f) /\ Written(f)' = Written(f)
  BY <1>1, <1>2 DEF LastBlock, Written, Begun
<1>7. ASSUME ImageInv PROVE ImageInv'
  <2>1. SuperExact' BY <1>1, <1>7 DEF ImageInv, SuperExact
  <2>2. RootExact' BY <1>1, <1>7 DEF ImageInv, RootExact
  <2>3. LinksExact' BY <1>1, <1>5, <1>6, <1>7 DEF ImageInv, LinksExact
  <2>4. RangesExact' BY <1>1, <1>5, <1>6, <1>7 DEF ImageInv, RangesExact
  <2>5. CopyExact' BY <1>1, <1>5, <1>7 DEF ImageInv, CopyExact
  <2>6. HeadersExact' BY <1>1, <1>5, <1>6, <1>7 DEF ImageInv, HeadersExact
  <2>7. DataExact' BY <1>1, <1>5, <1>6, <1>7 DEF ImageInv, DataExact
  <2> QED BY <2>1, <2>2, <2>3, <2>4, <2>5, <2>6, <2>7 DEF ImageInv
<1> QED BY <1>2, <1>3, <1>4, <1>7

\* What an open file promises, seen from here, and its cells.
Content == CASE file = Closed -> <<>>
             [] file # Closed /\ file.type = 2 -> Directory
             [] OTHER -> HostFile(Opened)
Bytes == IF file.type = 2 THEN DirectoryData ELSE HostData(Opened)

\* What is read from them is a sequence of cells.
LEMMA PieceIsData ==
    ASSUME NEW h, Values(h) \subseteq Nat, NEW o \in Nat, NEW m \in Nat
    PROVE  Piece(h, o, m) \in Seq(Nat) /\ Len(Piece(h, o, m)) = m
<1>1. PICK s : s = Piece(h, o, m) OBVIOUS
<1>2. s \in Seq(Values(h)) /\ Len(s) = m BY <1>1, PieceFacts DEF IsPiece
<1> QED BY <1>1, <1>2

\* The open file is the directory or one of the host's.
LEMMA OpenFacts ==
    ASSUME FatInv, file # Closed
    PROVE  /\ fat # <<>> /\ file.length \in Nat /\ Readable(file, Bytes)
           /\ Values(Bytes) \subseteq Nat /\ Content = Piece(Bytes, 0, file.length)
<1>1. fat # <<>> /\ step = "done" /\ Openable(file) BY DEF FatInv, KernelInv
<1>2. CASE file = RootFile
  <2>1. file.type = 2 BY <1>2 DEF RootFile
  <2>2. Bytes = DirectoryData /\ Content = Directory BY <2>1 DEF Bytes, Content
  <2> QED BY <1>1, <1>2, <2>2, DirectoryWhole, DirectoryReadFacts
<1>3. CASE \E f \in Files : file = FileOf(f)
  <2>1. PICK f \in Files : file = FileOf(f) BY <1>3
  <2>2. file.start = FirstBlock(f) /\ file.type # 2 /\ file.length = sizes[f] BY <2>1 DEF FileOf
  <2>3. \A g \in Files : FirstBlock(g) = file.start => g = f BY <1>1, <2>2, DoneFacts
  <2>4. Opened = f BY <2>2, <2>3 DEF Opened
  <2>5. Bytes = HostData(f) /\ Content = HostFile(f) BY <2>2, <2>4 DEF Bytes, Content
  <2>6. sizes[f] \in Nat BY TypeFacts DEF FatInv
  <2>7. Readable(FileOf(f), HostData(f))
    <3>1. FileOf(f).length = sizes[f] BY DEF FileOf
    <3> QED BY <1>1, <3>1, FileReadFacts DEF Readable
  <2>8. HostFile(f) = Piece(HostData(f), 0, sizes[f]) /\ Values(HostData(f)) \subseteq Nat
    BY HostFacts DEF FatInv
  <2> QED BY <1>1, <2>1, <2>2, <2>5, <2>6, <2>7, <2>8
<1> QED BY <1>1, <1>2, <1>3 DEF Openable

\* A step of the kernel that leaves the mount.
LEMMA KernelKept ==
    ASSUME FatInv, UNCHANGED <<mkfsVars, fat, dir>>,
           file' = file \/ (fat # <<>> /\ Openable(file')),
           offset' \in Nat, data' \in Seq(Nat), Len(data') <= MaxRead, err' \in BOOLEAN
    PROVE  FatInv'
<1>1. FatTypeOK /\ KernelInv /\ (step # "full" => ImageInv) BY DEF FatInv
<1>2. /\ disk' = disk /\ sizes' = sizes /\ step' = step /\ i' = i /\ start' = start /\ current' = current
      /\ left' = left /\ total' = total /\ fat' = fat /\ dir' = dir
  BY DEF mkfsVars
<1>3. /\ \A f \in Files : FileOf(f)' = FileOf(f)
      /\ RootFile' = RootFile /\ (ImageInv => ImageInv')
  BY <1>2, ImageKept DEF mkfsVars
<1>4. file' = Closed \/ (fat # <<>> /\ Openable(file')) BY <1>1 DEF KernelInv
<1>5. KernelInv'
  <2>1. Closed' = Closed BY DEF Closed
  <2>2. Openable(file)' <=> Openable(file') BY <1>3 DEF Openable
  <2> QED BY <1>1, <1>2, <1>3, <1>4, <2>1, <2>2 DEF KernelInv
<1>6. {dir', file'} \subseteq [start : 0 .. NBlocks - 1, type : {0, 1, 2}, length : Nat]
  <2>1. {dir, file} \subseteq [start : 0 .. NBlocks - 1, type : {0, 1, 2}, length : Nat]
    BY <1>1 DEF FatTypeOK
  <2>2. ASSUME fat # <<>>, NEW f \in Files
        PROVE  FileOf(f) \in [start : 0 .. NBlocks - 1, type : {0, 1, 2}, length : Nat]
    <3>1. step = "done" BY <1>1, <2>2 DEF KernelInv
    <3>2. FirstBlock(f) \in DataBlock BY <3>1, DoneFacts
    <3>3. FirstBlock(f) \in 0 .. NBlocks - 1 BY <3>2, Geometry DEF DataBlock, RootBlock
    <3>4. sizes[f] \in Nat BY <1>1, TypeFacts
    <3> QED BY <3>3, <3>4 DEF FileOf
  <2>3. RootFile \in [start : 0 .. NBlocks - 1, type : {0, 1, 2}, length : Nat]
    <3>1. RootBlock \in 0 .. NBlocks - 1 /\ Len(NameLen) * EntrySize \in Nat BY Geometry DEF RootBlock
    <3> QED BY <3>1 DEF RootFile
  <2> QED BY <1>2, <2>1, <2>2, <2>3 DEF Openable
<1>7. FatTypeOK'
  <2>1. /\ disk' \in [0 .. NBlocks * BlockSize - 1 -> Nat] /\ sizes' \in [Files -> Sizes]
        /\ step' \in {"next", "copy", "full", "done"} /\ i' \in 1 .. Len(NameLen) + 1
        /\ {start', current'} \subseteq 0 .. NBlocks - 1
        /\ left' \in 0 .. BlockSize /\ total' \in Nat
        /\ fat' = <<>> \/ fat' \in [0 .. NBlocks - 1 -> 0 .. NBlocks - 1]
    BY <1>1, <1>2 DEF FatTypeOK
  <2> QED BY <1>6, <2>1 DEF FatTypeOK
<1> QED BY <1>1, <1>2, <1>3, <1>5, <1>7 DEF FatInv

\* File::seek.
LEMMA SeekStep ==
    ASSUME FatInv, NEW o \in 0 .. MaxOffset, Seek(o)
    PROVE  FatInv'
<1>1. /\ UNCHANGED <<mkfsVars, fat, dir>> /\ file' = file /\ offset' = o /\ data' = <<>> /\ err' = FALSE
  BY DEF Seek
<1>2. o \in Nat /\ <<>> \in Seq(Nat) /\ Len(<<>>) <= MaxRead BY FatAssumption
<1> QED BY <1>1, <1>2, KernelKept

\* The FAT and the root directory are those of the image.
LEMMA MountStep ==
    ASSUME FatInv, Mount
    PROVE  FatInv'
<1>1. FatTypeOK /\ ImageInv /\ KernelInv /\ step = "done" BY DEF FatInv, Mount
<1>2. disk \in Disks /\ RootBlock \in Nat BY <1>1, TypeFacts
<1>3. PICK super : super = DevReadFully(0, 4) OBVIOUS
<1>4. /\ fat' = [b \in 0 .. super[2] - 1 |-> DevReadFully(BlockSize, super[2])[b + 1]]
      /\ dir' = OpenFile(super[RootAt + 1])
      /\ UNCHANGED <<mkfsVars, file, offset, data, err>>
  BY <1>3 DEF Mount
<1>5. super[2] = NBlocks /\ super[RootAt + 1] = RootBlock
  <2>1. super = Cells(0, 4) BY <1>3, DevReadFullyFacts
  <2>2. super[2] = disk[1] /\ super[RootAt + 1] = disk[RootAt] BY <2>1 DEF Cells, Piece, RootAt
  <2> QED BY <1>1, <2>2 DEF ImageInv, SuperExact
<1>6. fat' = [b \in 0 .. RootBlock |-> disk[FatAt(b)]]
  <2>1. BlockSize \in Nat /\ NBlocks \in Nat BY Geometry
  <2>2. DevReadFully(BlockSize, NBlocks) = Cells(BlockSize, NBlocks) BY <2>1, DevReadFullyFacts
  <2>3. ASSUME NEW b \in 0 .. RootBlock PROVE Cells(BlockSize, NBlocks)[b + 1] = disk[FatAt(b)]
    <3>1. b + 1 \in 1 .. NBlocks /\ BlockSize + (b + 1) - 1 = FatAt(b)
      BY <2>1 DEF RootBlock, FatAt
    <3> QED BY <3>1 DEF Cells, Piece
  <2>4. super[2] - 1 = RootBlock BY <1>5 DEF RootBlock
  <2> QED BY <1>4, <1>5, <2>2, <2>3, <2>4
<1>7. dir' = RootFile
  <2>1. OpenFile(RootBlock) =
          [start |-> RootBlock, type |-> disk[Cell(RootBlock, 0)], length |-> disk[Cell(RootBlock, 1)]]
    BY <1>2, OpenFileFacts
  <2> QED BY <1>1, <1>4, <1>5, <2>1 DEF ImageInv, RootExact, RootFile
<1>8. /\ disk' = disk /\ sizes' = sizes /\ step' = step /\ i' = i /\ start' = start /\ current' = current
      /\ left' = left /\ total' = total /\ file' = file /\ offset' = offset /\ data' = data /\ err' = err
  BY <1>4 DEF mkfsVars
<1>9. ImageInv' /\ RootFile' = RootFile /\ \A f \in Files : FileOf(f)' = FileOf(f)
  BY <1>1, <1>4, ImageKept
<1>10. file = Closed BY <1>1 DEF KernelInv, Mount
<1>11. KernelInv'
  <2>1. file' = Closed' BY <1>8, <1>10 DEF Closed
  <2>2. [b \in 0 .. RootBlock |-> disk[FatAt(b)]]' = [b \in 0 .. RootBlock |-> disk[FatAt(b)]]
    BY <1>8
  <2> QED BY <1>1, <1>6, <1>7, <1>8, <1>9, <2>1, <2>2 DEF KernelInv
<1>12. fat' \in [0 .. NBlocks - 1 -> 0 .. NBlocks - 1]
  <2>1. ASSUME NEW b \in 0 .. RootBlock PROVE disk[FatAt(b)] \in 0 .. RootBlock
    <3>1. b \in Nat /\ b <= RootBlock /\ FatBlocks \in Nat BY <1>2, Geometry
    <3>2. disk[FatAt(b)] = 0 \/ (disk[FatAt(b)] = b - 1 /\ b > FatBlocks + 1)
      BY <1>1, <3>1 DEF ImageInv, LinksExact
    <3> QED BY <1>2, <3>1, <3>2
  <2> QED BY <1>6, <2>1 DEF RootBlock
<1>13. dir' \in [start : 0 .. NBlocks - 1, type : {0, 1, 2}, length : Nat]
  <2>1. RootBlock \in 0 .. NBlocks - 1 /\ Len(NameLen) * EntrySize \in Nat BY <1>2, Geometry DEF RootBlock
  <2> QED BY <1>7, <2>1 DEF RootFile
<1>14. FatTypeOK'
  <2>1. /\ disk' \in [0 .. NBlocks * BlockSize - 1 -> Nat] /\ sizes' \in [Files -> Sizes]
        /\ step' \in {"next", "copy", "full", "done"} /\ i' \in 1 .. Len(NameLen) + 1
        /\ {start', current'} \subseteq 0 .. NBlocks - 1
        /\ left' \in 0 .. BlockSize /\ total' \in Nat /\ offset' \in Nat
        /\ data' \in Seq(Nat) /\ Len(data') <= MaxRead /\ err' \in BOOLEAN
        /\ file' \in [start : 0 .. NBlocks - 1, type : {0, 1, 2}, length : Nat]
    BY <1>1, <1>8 DEF FatTypeOK
  <2> QED BY <1>12, <1>13, <2>1 DEF FatTypeOK
<1> QED BY <1>9, <1>11, <1>14 DEF FatInv

\* What a name opens: the directory, the first file of the name, or nothing.
Opens(name) ==
    \/ name = Dot /\ file' = RootFile /\ fat # <<>> /\ offset' = 0 /\ data' = <<>> /\ err' = FALSE
    \/ /\ name # Dot /\ Named(name) # {} /\ file' = FileOf(Min(Named(name))) /\ fat # <<>>
       /\ offset' = 0 /\ data' = <<>> /\ err' = FALSE
    \/ /\ name # Dot /\ Named(name) = {}
       /\ err' = TRUE /\ data' = <<>> /\ file' = file /\ offset' = offset

LEMMA OpenStep ==
    ASSUME FatInv, NEW name \in Names, Open(name)
    PROVE  FatInv' /\ Opens(name)
<1>1. fat # <<>> /\ UNCHANGED <<mkfsVars, fat, dir>> /\ data' = <<>> BY DEF Open
<1>2. FatTypeOK /\ ImageInv /\ step = "done" /\ Begun = Files BY <1>1, DoneFacts DEF FatInv, KernelInv
<1>3. offset \in Nat /\ <<>> \in Seq(Nat) /\ Len(<<>>) <= MaxRead BY <1>2, FatAssumption DEF FatTypeOK
<1>4. Lookup(name) = IF name = Dot THEN RootBlock ELSE StartOf(name) BY <1>1, LookupFacts
<1>5. RootBlock \in Nat /\ RootBlock # 0 BY Geometry DEF RootBlock
<1>6. CASE name = Dot
  <2>1. Lookup(name) = RootBlock BY <1>4, <1>6
  <2>2. err' = FALSE /\ file' = OpenFile(RootBlock) /\ offset' = 0 BY <1>5, <2>1 DEF Open
  <2>3. OpenFile(RootBlock) =
          [start |-> RootBlock, type |-> disk[Cell(RootBlock, 0)], length |-> disk[Cell(RootBlock, 1)]]
    BY <1>5, OpenFileFacts
  <2>4. file' = RootFile BY <1>2, <2>2, <2>3 DEF ImageInv, RootExact, RootFile
  <2>5. Openable(file') BY <2>4 DEF Openable
  <2>6. FatInv' BY <1>1, <1>3, <2>2, <2>5, KernelKept
  <2> QED BY <1>1, <1>6, <2>2, <2>4, <2>6 DEF Opens
<1>7. CASE name # Dot /\ Named(name) # {}
  <2>1. PICK g \in Files : g = Min(Named(name)) BY <1>7, NamedFacts
  <2>2. Lookup(name) = FirstBlock(g) BY <1>4, <1>7, <2>1 DEF StartOf
  <2>3. g < i /\ g \in Begun /\ FirstBlock(g) \in Nat /\ FirstBlock(g) # 0
    <3>1. g < i /\ FirstBlock(g) \in DataBlock BY <1>2, DoneFacts
    <3> QED BY <1>2, <3>1, Geometry DEF DataBlock, RootBlock
  <2>4. err' = FALSE /\ file' = OpenFile(FirstBlock(g)) /\ offset' = 0 BY <2>2, <2>3 DEF Open
  <2>5. disk[Cell(FirstBlock(g), 0)] = 1 /\ disk[Cell(FirstBlock(g), 1)] = sizes[g]
    BY <1>2, <2>3 DEF ImageInv, HeadersExact
  <2>6. OpenFile(FirstBlock(g)) = FileOf(g) BY <2>3, <2>5, OpenFileFacts DEF FileOf
  <2>7. file' = FileOf(g) BY <2>4, <2>6
  <2>8. Openable(file') BY <2>7 DEF Openable
  <2>9. FatInv' BY <1>1, <1>3, <2>4, <2>8, KernelKept
  <2> QED BY <1>1, <1>7, <2>1, <2>4, <2>7, <2>9 DEF Opens
<1>8. CASE name # Dot /\ Named(name) = {}
  <2>1. Lookup(name) = 0 BY <1>4, <1>8 DEF StartOf
  <2>2. err' = TRUE /\ file' = file /\ offset' = offset BY <2>1 DEF Open
  <2>3. FatInv' BY <1>1, <1>3, <2>2, KernelKept
  <2> QED BY <1>1, <1>8, <2>2, <2>3 DEF Opens
<1> QED BY <1>6, <1>7, <1>8

\* What is read is there, and the offset is behind it.
LEMMA ReadStep ==
    ASSUME FatInv, NEW n \in 1 .. MaxRead, Read(n)
    PROVE  /\ FatInv' /\ file # Closed /\ file' = file
           /\ \/ /\ offset <= file.length /\ Gets(Bytes, file.length, offset, n, data')
                 /\ offset' = offset + Len(data') /\ err' = FALSE
              \/ offset > file.length /\ err' = TRUE /\ data' = <<>> /\ offset' = offset
<1>1. file # Closed /\ UNCHANGED <<mkfsVars, fat, dir>> /\ file' = file BY DEF Read
<1>2. PICK h : h = Bytes OBVIOUS
<1>3. file.length \in Nat /\ Readable(file, h) /\ Values(h) \subseteq Nat BY <1>1, <1>2, OpenFacts
<1>4. offset \in Nat /\ MaxRead \in Nat BY FatAssumption DEF FatInv, FatTypeOK
<1>5. CASE offset > file.length
  <2>1. err' = TRUE /\ data' = <<>> /\ offset' = offset BY <1>5 DEF Read, TooLong
  <2>2. <<>> \in Seq(Nat) /\ Len(<<>>) <= MaxRead BY <1>4
  <2>3. FatInv' BY <1>1, <1>4, <2>1, <2>2, KernelKept
  <2> QED BY <1>1, <1>5, <2>1, <2>3
<1>6. CASE ~(offset > file.length)
  <2>1. /\ data' = OpenFileRead(file, offset, n) /\ offset' = offset + Len(data') /\ err' = FALSE
    BY <1>6 DEF Read
  <2>2. offset \in 0 .. file.length /\ n \in Nat BY <1>3, <1>4, <1>6
  <2>3. Gets(h, file.length, offset, n, data') BY <1>3, <2>1, <2>2 DEF Readable
  <2>4. PICK m \in Nat : m <= n /\ data' = Piece(h, offset, m) BY <2>3 DEF Gets
  <2>5. data' \in Seq(Nat) /\ Len(data') = m BY <1>3, <1>4, <2>4, PieceIsData
  <2>6. Len(data') <= MaxRead /\ offset' \in Nat BY <1>4, <2>1, <2>4, <2>5
  <2>7. FatInv' BY <1>1, <2>1, <2>5, <2>6, KernelKept
  <2> QED BY <1>1, <1>2, <2>1, <2>2, <2>3, <2>7
<1> QED BY <1>5, <1>6

\* All that is wanted and is there.
LEMMA ReadFullyStep ==
    ASSUME FatInv, NEW n \in 1 .. MaxRead, ReadFully(n)
    PROVE  /\ FatInv' /\ file # Closed /\ file' = file
           /\ \/ /\ offset <= file.length
                 /\ \E m \in Nat : /\ m = IF n < file.length - offset THEN n ELSE file.length - offset
                                   /\ data' = Piece(Bytes, offset, m)
                 /\ offset' = offset + Len(data') /\ err' = FALSE
              \/ offset > file.length /\ err' = TRUE /\ data' = <<>> /\ offset' = offset
<1>1. file # Closed /\ UNCHANGED <<mkfsVars, fat, dir>> /\ file' = file BY DEF ReadFully
<1>2. PICK h : h = Bytes OBVIOUS
<1>3. /\ file.length \in Nat /\ Readable(file, h) /\ Values(h) \subseteq Nat
      /\ offset \in Nat /\ MaxRead \in Nat
  BY <1>1, <1>2, OpenFacts, FatAssumption DEF FatInv, FatTypeOK
<1>4. CASE offset > file.length
  <2>1. err' = TRUE /\ data' = <<>> /\ offset' = offset BY <1>4 DEF ReadFully, TooLong
  <2>2. <<>> \in Seq(Nat) /\ Len(<<>>) <= MaxRead BY <1>3
  <2>3. FatInv' BY <1>1, <1>3, <2>1, <2>2, KernelKept
  <2> QED BY <1>1, <1>4, <2>1, <2>3
<1>5. CASE ~(offset > file.length)
  <2>1. /\ data' = Repeated(LAMBDA got : got \o OpenFileRead(file, offset + Len(got), n - Len(got)), <<>>, n)
        /\ offset' = offset + Len(data') /\ err' = FALSE
    BY <1>5, Zenon DEF ReadFully
  <2>2. offset \in 0 .. file.length /\ n \in Nat BY <1>3, <1>5
  <2>3. PICK m \in Nat : m = IF n < file.length - offset THEN n ELSE file.length - offset BY <1>3, <2>2
  <2>4. data' = Piece(h, offset, m)
    <3>1. Repeated(LAMBDA got : got \o OpenFileRead(file, offset + Len(got), n - Len(got)), <<>>, n) =
              Piece(h, offset, m)
      BY <1>3, <2>2, <2>3, FileReadFullyFacts
    <3> QED BY <2>1, <3>1, Zenon
  <2>5. data' \in Seq(Nat) /\ Len(data') = m BY <1>3, <2>4, PieceIsData
  <2>6. Len(data') <= MaxRead /\ offset' \in Nat
    <3>1. m <= n /\ n <= MaxRead BY <1>3, <2>2, <2>3
    <3>2. offset' = offset + Len(data') BY <2>1, Zenon
    <3> QED BY <1>3, <2>5, <3>1, <3>2
  <2>7. FatInv'
    <3>1. err' \in BOOLEAN BY <2>1
    <3> QED BY <1>1, <2>5, <2>6, <3>1, KernelKept
  <2>8. offset <= file.length BY <1>3, <2>2
  <2>9. \E k \in Nat : /\ k = IF n < file.length - offset THEN n ELSE file.length - offset
                       /\ data' = Piece(Bytes, offset, k)
    BY <1>2, <2>3, <2>4, Zenon
  <2> QED BY <1>1, <2>1, <2>7, <2>8, <2>9, Zenon
<1> QED BY <1>4, <1>5

\* Every step.
LEMMA FatStep ==
    ASSUME FatInv, [FatNext]_fatVars
    PROVE  FatInv'
<1>1. ASSUME UNCHANGED fatVars PROVE FatInv'
  <2>1. /\ UNCHANGED <<mkfsVars, fat, dir>> /\ file' = file /\ offset' = offset /\ data' = data /\ err' = err
    BY <1>1 DEF fatVars, kernelVars
  <2>2. offset \in Nat /\ data \in Seq(Nat) /\ Len(data) <= MaxRead /\ err \in BOOLEAN
    BY DEF FatInv, FatTypeOK
  <2> QED BY <2>1, <2>2, KernelKept
<1>2. ASSUME FatNext PROVE FatInv'
  <2>1. ASSUME Build PROVE FatInv' BY <2>1, BuildStep
  <2>2. ASSUME Mount PROVE FatInv' BY <2>2, MountStep
  <2>3. ASSUME NEW name \in Names, Open(name) PROVE FatInv'
    BY <2>3, OpenStep
  <2>4. ASSUME NEW o \in 0 .. MaxOffset, Seek(o) PROVE FatInv' BY <2>4, SeekStep
  <2>5. ASSUME NEW n \in 1 .. MaxRead, Read(n) PROVE FatInv' BY <2>5, ReadStep
  <2>6. ASSUME NEW n \in 1 .. MaxRead, ReadFully(n) PROVE FatInv' BY <2>6, ReadFullyStep
  <2> QED BY <1>2, <2>1, <2>2, <2>3, <2>4, <2>5, <2>6 DEF FatNext
<1> QED BY <1>1, <1>2

\* The image is as exact at every step, and what the kernel knows of it is true:
\* for every size of blocks, disk and directory, and all files of the host.
THEOREM FatInvariance == FatSpec => []FatInv
<1>1. FatInit => FatInv BY FatInitOK
<1>2. FatInv /\ [FatNext]_fatVars => FatInv' BY FatStep
<1> QED BY <1>1, <1>2, PTL DEF FatSpec

-----------------------------------------------------------------------------
(***************************************************************************)
(* The chains.                                                             *)
(***************************************************************************)

\* How many blocks a chain has; they go down from the first.
Length(c) == CASE c = -1 -> Top - FatBlocks
               [] c = 0 -> 1
               [] OTHER -> FirstBlock(c) - LastBlock(c) + 1

\* Where the links lead from a block.
Down(b, len) ==
    /\ len = 0 => b = 0
    /\ len > 0 => b \in DataBlock /\ b - len + 1 \in DataBlock /\ disk[FatAt(b - len + 1)] = 0
    /\ \A k \in 1 .. len - 1 : disk[FatAt(b - (k - 1))] = b - k

\* The chains by name.
LEMMA ChainsAre ==
    ASSUME FatTypeOK, ImageInv, step # "full"
    PROVE  /\ Chains = {-1, 0} \cup Begun /\ Begun \subseteq Files
           /\ First(-1) = disk[AvailAt] /\ Length(-1) = Top - FatBlocks
           /\ First(0) = RootBlock /\ Length(0) = 1
           /\ \A f \in Begun : First(f) = FirstBlock(f) /\ Length(f) = FirstBlock(f) - LastBlock(f) + 1
<1>1. i \in Nat /\ i >= 1 /\ i <= Len(NameLen) + 1 /\ Len(NameLen) \in Nat /\ Files = 1 .. Len(NameLen)
      /\ step \in {"next", "copy", "done"}
  BY Geometry DEF FatTypeOK
<1>2. Begun \subseteq Files BY DEF Begun
<1>3. Chains = {-1, 0} \cup Begun
  <2>1. CASE step = "copy"
    <3>1. i <= Len(NameLen) BY <1>1, <2>1 DEF ImageInv, CopyExact
    <3>2. Begun = 1 .. i BY <1>1, <2>1, <3>1 DEF Begun
    <3>3. Chains = -1 .. i BY <2>1 DEF Chains
    <3> QED BY <1>1, <3>2, <3>3
  <2>2. CASE step # "copy"
    <3>1. Begun = 1 .. i - 1 BY <1>1, <2>2 DEF Begun
    <3>2. Chains = -1 .. i - 1 BY <2>2 DEF Chains
    <3> QED BY <1>1, <3>1, <3>2
  <2> QED BY <2>1, <2>2
<1>4. First(-1) = disk[AvailAt] /\ Length(-1) = Top - FatBlocks BY DEF First, Length
<1>5. First(0) = RootBlock /\ Length(0) = 1 BY DEF First, Length, ImageInv, SuperExact
<1>6. \A f \in Begun : First(f) = FirstBlock(f) /\ Length(f) = FirstBlock(f) - LastBlock(f) + 1
  <2>1. \A f \in Begun : f # -1 /\ f # 0 BY <1>1, <1>2
  <2> QED BY <2>1 DEF First, Length
<1> QED BY <1>2, <1>3, <1>4, <1>5, <1>6

\* Each goes down block by block, and ends.
LEMMA ChainFacts ==
    ASSUME FatTypeOK, ImageInv, step # "full", NEW c \in Chains
    PROVE  First(c) \in 0 .. RootBlock /\ Length(c) \in Nat /\ Down(First(c), Length(c))
<1>1. /\ disk \in Disks /\ RootBlock \in Nat /\ RootBlock \in DataBlock /\ FatBlocks \in Nat
      /\ FatBlocks >= 1 /\ FatBlocks + 1 <= RootBlock
  BY TypeFacts, Geometry DEF RootBlock
<1>2. /\ Top \in Int /\ Top >= FatBlocks /\ Top < RootBlock
      /\ disk[AvailAt] = 0 \/ (disk[AvailAt] = Top /\ Top > FatBlocks)
      /\ disk[AvailAt] = 0 => Top = FatBlocks
  BY <1>1 DEF ImageInv, SuperExact, Top
<1>3. CASE c = -1
  <2>1. First(c) = disk[AvailAt] /\ Length(c) = Top - FatBlocks BY <1>3, ChainsAre
  <2>2. CASE disk[AvailAt] = 0 BY <1>1, <1>2, <2>1, <2>2 DEF Down
  <2>3. CASE disk[AvailAt] # 0
    <3>1. PICK len \in Nat : len = Top - FatBlocks BY <1>2, <1>1
    <3>2. First(c) = Top /\ Length(c) = len /\ len > 0 /\ Top \in DataBlock /\ Top \in 0 .. RootBlock
          /\ Top - len + 1 = FatBlocks + 1 /\ FatBlocks + 1 \in DataBlock
      BY <1>1, <1>2, <2>1, <2>3, <3>1 DEF DataBlock
    <3>3. disk[FatAt(FatBlocks + 1)] = 0 BY <1>1 DEF ImageInv, LinksExact
    <3>4. ASSUME NEW k \in 1 .. len - 1 PROVE disk[FatAt(Top - (k - 1))] = Top - k
      <4>1. PICK b \in Nat : b = Top - (k - 1) BY <1>1, <1>2, <3>1
      <4>2. b \in 0 .. RootBlock /\ b > FatBlocks + 1 /\ b # RootBlock /\ b <= Top /\ b - 1 = Top - k
        BY <1>1, <1>2, <3>1, <4>1
      <4>3. \A f \in Begun : b # LastBlock(f) BY <1>2, <4>2 DEF ImageInv, RangesExact
      <4>4. disk[FatAt(b)] = b - 1 BY <1>1, <4>2, <4>3 DEF ImageInv, LinksExact
      <4> QED BY <4>1, <4>2, <4>4
    <3> QED BY <3>2, <3>3, <3>4 DEF Down
  <2> QED BY <2>2, <2>3
<1>4. CASE c = 0
  <2>1. First(c) = RootBlock /\ Length(c) = 1 BY <1>4, ChainsAre
  <2>2. RootBlock - 1 + 1 = RootBlock BY <1>1
  <2>3. disk[FatAt(RootBlock)] = 0 BY <1>1 DEF ImageInv, LinksExact
  <2> QED BY <1>1, <2>1, <2>2, <2>3 DEF Down
<1>5. CASE c \in Begun
  <2>1. PICK first, last \in Int : first = FirstBlock(c) /\ last = LastBlock(c)
    BY <1>5 DEF ImageInv, RangesExact
  <2>2. Top < last /\ last <= first /\ first < RootBlock BY <1>5, <2>1 DEF ImageInv, RangesExact
  <2>3. PICK len \in Nat : len = first - last + 1 BY <2>2
  <2>4. First(c) = first /\ Length(c) = len /\ len > 0 /\ first - len + 1 = last
        /\ first \in DataBlock /\ last \in DataBlock /\ first \in 0 .. RootBlock /\ last \in 0 .. RootBlock
    <3>1. First(c) = first /\ Length(c) = len BY <1>5, <2>1, <2>3, ChainsAre
    <3> QED BY <1>1, <1>2, <2>2, <2>3, <3>1 DEF DataBlock
  <2>5. disk[FatAt(last)] = 0 BY <1>5, <2>1, <2>4 DEF ImageInv, LinksExact
  <2>6. ASSUME NEW k \in 1 .. len - 1 PROVE disk[FatAt(first - (k - 1))] = first - k
    <3>1. PICK b \in Int : b = first - (k - 1) OBVIOUS
    <3>2. b \in last + 1 .. first /\ b - 1 = first - k BY <2>3, <3>1
    <3>3. disk[FatAt(b)] = b - 1 BY <1>5, <2>1, <3>2, LinkDown
    <3> QED BY <3>1, <3>2, <3>3
  <2> QED BY <2>4, <2>5, <2>6 DEF Down
<1> QED BY <1>3, <1>4, <1>5, ChainsAre

\* The links lead over the blocks of the chain, and then to none.
LEMMA LinkedFacts ==
    ASSUME FatTypeOK, ImageInv, step # "full", NEW c \in Chains, NEW n \in Nat
    PROVE  Linked(c, n) = IF n < Length(c) THEN First(c) - n ELSE 0
<1>1. PICK first \in 0 .. RootBlock, len \in Nat : first = First(c) /\ len = Length(c)
  BY ChainFacts
<1>2. Down(first, len) BY <1>1, ChainFacts
<1>3. first \in Int /\ RootBlock \in Nat /\ FatBlocks \in Nat BY Geometry DEF RootBlock
<1>4. disk[FatAt(0)] = 0 BY <1>3 DEF ImageInv, LinksExact
<1> DEFINE Eq(g) == g = [k \in 0 .. n |-> IF k = 0 THEN first ELSE disk[FatAt(g[k - 1])]]
           path == [k \in 0 .. n |-> IF k < len THEN first - k ELSE 0]
<1>5. ASSUME NEW k \in 1 .. n PROVE disk[FatAt(path[k - 1])] = path[k]
  <2>1. k \in 0 .. n /\ k - 1 \in 0 .. n OBVIOUS
  <2>2. CASE k < len
    <3>1. path[k - 1] = first - (k - 1) /\ path[k] = first - k BY <1>3, <2>1, <2>2
    <3>2. k \in 1 .. len - 1 BY <2>2
    <3> QED BY <1>2, <3>1, <3>2 DEF Down
  <2>3. CASE k = len
    <3>1. path[k - 1] = first - len + 1 /\ path[k] = 0 BY <1>3, <2>1, <2>3
    <3> QED BY <1>2, <2>3, <3>1 DEF Down
  <2>4. CASE k > len
    <3>1. path[k - 1] = 0 /\ path[k] = 0 BY <2>1, <2>4
    <3> QED BY <1>4, <3>1
  <2> QED BY <2>2, <2>3, <2>4
<1>6. 0 \in 0 .. n /\ path[0] = first
  <2>1. len = 0 => first = 0 BY <1>2 DEF Down
  <2> QED BY <1>3, <2>1
<1>7. Eq(path)
  <2>1. ASSUME NEW k \in 0 .. n PROVE path[k] = IF k = 0 THEN first ELSE disk[FatAt(path[k - 1])]
    <3>1. CASE k = 0 BY <1>6, <3>1
    <3>2. CASE k # 0
      <4>1. k \in 1 .. n BY <3>2
      <4> HIDE DEF path
      <4> QED BY <1>5, <3>2, <4>1
    <3> QED BY <3>1, <3>2
  <2>2. path = [k \in 0 .. n |-> path[k]] OBVIOUS
  <2> HIDE DEF path
  <2> QED BY <2>1, <2>2
<1>8. PICK after : after = CHOOSE g : Eq(g) OBVIOUS
<1>9. Eq(after)
  <2>1. \E g : Eq(g) BY <1>7
  <2> HIDE DEF Eq
  <2> QED BY <1>8, <2>1
<1>10. after[n] = path[n]
  <2>1. after[0] = path[0] BY <1>6, <1>9
  <2>2. ASSUME NEW k \in 1 .. n, after[k - 1] = path[k - 1] PROVE after[k] = path[k]
    <3>1. k \in 0 .. n /\ k # 0 OBVIOUS
    <3>2. after[k] = disk[FatAt(after[k - 1])] BY <1>9, <3>1
    <3> HIDE DEF path
    <3> QED BY <1>5, <2>2, <3>2
  <2> HIDE DEF path
  <2> QED BY <2>1, <2>2, LoopIs
<1>11. Linked(c, n) = after[n] BY <1>1, <1>8 DEF Linked, Repeated
<1>12. path[n] = IF n < len THEN first - n ELSE 0 OBVIOUS
<1> QED BY <1>1, <1>10, <1>11, <1>12

\* A block is in one chain, at one place.
LEMMA ChainsApart ==
    ASSUME FatTypeOK, ImageInv, step # "full", NEW c \in Chains, NEW d \in Chains, NEW b \in Nat, b # 0,
           NEW k \in Nat, NEW l \in Nat, Linked(c, k) = b, Linked(d, l) = b
    PROVE  c = d /\ k = l
<1>1. RootBlock \in Nat /\ FatBlocks \in Nat BY Geometry DEF RootBlock
<1>2. PICK p \in 0 .. RootBlock, m \in Nat : p = First(c) /\ m = Length(c) BY ChainFacts
<1>3. PICK q \in 0 .. RootBlock, n \in Nat : q = First(d) /\ n = Length(d) BY ChainFacts
<1>4. k < m /\ b = p - k BY <1>2, LinkedFacts
<1>5. l < n /\ b = q - l BY <1>3, LinkedFacts
<1>6. p \in Int /\ q \in Int BY <1>1
<1>7. /\ Top \in Int /\ Top >= FatBlocks /\ Top < RootBlock
      /\ disk[AvailAt] # 0 => disk[AvailAt] = Top
      /\ disk[AvailAt] = 0 => Top = FatBlocks
  BY <1>1, Geometry DEF ImageInv, SuperExact, Top, RootBlock
<1> DEFINE At(e, x) == \/ e = -1 /\ x <= Top
                       \/ e = 0 /\ x = RootBlock
                       \/ e \in Begun /\ LastBlock(e) <= x /\ x <= FirstBlock(e)
<1>8. At(c, b)
  <2>1. CASE c = -1
    <3>1. p = disk[AvailAt] /\ m = Top - FatBlocks BY <1>2, <2>1, ChainsAre
    <3> QED BY <1>1, <1>4, <1>7, <2>1, <3>1
  <2>2. CASE c = 0
    <3>1. p = RootBlock /\ m = 1 BY <1>2, <2>2, ChainsAre
    <3> QED BY <1>1, <1>4, <2>2, <3>1
  <2>3. CASE c \in Begun
    <3>1. p = FirstBlock(c) /\ m = FirstBlock(c) - LastBlock(c) + 1 BY <1>2, <2>3, ChainsAre
    <3>2. FirstBlock(c) \in Int /\ LastBlock(c) \in Int BY <2>3 DEF ImageInv, RangesExact
    <3> QED BY <1>4, <2>3, <3>1, <3>2
  <2> QED BY <2>1, <2>2, <2>3, ChainsAre
<1>9. At(d, b)
  <2>1. CASE d = -1
    <3>1. q = disk[AvailAt] /\ n = Top - FatBlocks BY <1>3, <2>1, ChainsAre
    <3> QED BY <1>1, <1>5, <1>7, <2>1, <3>1
  <2>2. CASE d = 0
    <3>1. q = RootBlock /\ n = 1 BY <1>3, <2>2, ChainsAre
    <3> QED BY <1>1, <1>5, <2>2, <3>1
  <2>3. CASE d \in Begun
    <3>1. q = FirstBlock(d) /\ n = FirstBlock(d) - LastBlock(d) + 1 BY <1>3, <2>3, ChainsAre
    <3>2. FirstBlock(d) \in Int /\ LastBlock(d) \in Int BY <2>3 DEF ImageInv, RangesExact
    <3> QED BY <1>5, <2>3, <3>1, <3>2
  <2> QED BY <2>1, <2>2, <2>3, ChainsAre
<1>10. \A f \in Begun : /\ FirstBlock(f) \in Int /\ LastBlock(f) \in Int
                        /\ Top < LastBlock(f) /\ FirstBlock(f) < RootBlock /\ LastBlock(f) <= FirstBlock(f)
  BY DEF ImageInv, RangesExact
<1>11. \A f, g \in Begun : f < g => FirstBlock(g) < LastBlock(f) BY DEF ImageInv, RangesExact
<1>12. \A f \in Begun : f \in Int /\ f # -1 /\ f # 0 BY Geometry DEF Begun
<1>13. c = d
  <2>1. CASE c \in Begun /\ d \in Begun
    <3>1. LastBlock(c) <= b /\ b <= FirstBlock(c) BY <1>1, <1>7, <1>8, <1>10, <1>12, <2>1
    <3>2. LastBlock(d) <= b /\ b <= FirstBlock(d) BY <1>1, <1>7, <1>9, <1>10, <1>12, <2>1
    <3>3. ~(c < d) BY <1>10, <1>11, <2>1, <3>1, <3>2
    <3>4. ~(d < c) BY <1>10, <1>11, <2>1, <3>1, <3>2
    <3> QED BY <1>12, <2>1, <3>3, <3>4
  <2>2. CASE ~(c \in Begun /\ d \in Begun)
    <3> QED BY <1>1, <1>7, <1>8, <1>9, <1>10, <2>2
  <2> QED BY <2>1, <2>2
<1> QED BY <1>2, <1>3, <1>4, <1>5, <1>6, <1>13

\* Every block is in a chain.
LEMMA ChainsCover ==
    ASSUME FatTypeOK, ImageInv, step # "full", NEW b \in {0} \cup DataBlock
    PROVE  \E c \in Chains, k \in 0 .. RootBlock : Linked(c, k) = b
<1>1. /\ RootBlock \in Nat /\ FatBlocks \in Nat /\ FatBlocks >= 1 /\ FatBlocks + 1 <= RootBlock
  BY Geometry DEF RootBlock
<1>2. /\ Top \in Int /\ Top >= FatBlocks /\ Top < RootBlock
      /\ disk[AvailAt] # 0 => disk[AvailAt] = Top
      /\ disk[AvailAt] = 0 => Top = FatBlocks
  BY <1>1 DEF ImageInv, SuperExact, Top
<1>3. -1 \in Chains /\ 0 \in Chains /\ Begun \subseteq Chains BY ChainsAre
<1>4. CASE b = 0
  <2>1. Linked(0, 1) = 0
    <3>1. 1 \in Nat /\ ~(1 < Length(0)) BY ChainsAre
    <3> QED BY <1>3, <3>1, LinkedFacts
  <2>2. 1 \in 0 .. RootBlock BY <1>1
  <2> QED BY <1>3, <1>4, <2>1, <2>2
<1>5. CASE b = RootBlock
  <2>1. Linked(0, 0) = RootBlock
    <3>1. First(0) = RootBlock /\ Length(0) = 1 BY ChainsAre
    <3>2. RootBlock - 0 = RootBlock BY <1>1
    <3> QED BY <1>3, <3>1, <3>2, LinkedFacts
  <2>2. 0 \in 0 .. RootBlock BY <1>1
  <2> QED BY <1>3, <1>5, <2>1, <2>2
<1>6. CASE b \in DataBlock /\ b <= Top
  <2>1. b \in Int /\ b >= FatBlocks + 1 BY <1>1, <1>6 DEF DataBlock
  <2>2. PICK k \in Nat : k = Top - b BY <1>2, <1>6, <2>1
  <2>3. First(-1) = Top /\ Length(-1) = Top - FatBlocks
    <3>1. disk[AvailAt] # 0 BY <1>1, <1>2, <1>6, <2>1
    <3> QED BY <1>2, <3>1, ChainsAre
  <2>4. k < Top - FatBlocks /\ k \in 0 .. RootBlock /\ Top - k = b BY <1>1, <1>2, <2>1, <2>2
  <2>5. Linked(-1, k) = b BY <1>3, <2>3, <2>4, LinkedFacts
  <2> QED BY <1>3, <2>4, <2>5
<1>7. CASE b \in DataBlock /\ b > Top /\ b # RootBlock
  <2>1. b \in Top + 1 .. RootBlock - 1 /\ b \in Int BY <1>1, <1>2, <1>7 DEF DataBlock
  <2>2. PICK f \in Begun : LastBlock(f) <= b /\ b <= FirstBlock(f)
    BY <2>1 DEF ImageInv, RangesExact
  <2>3. PICK first, last \in Int : first = FirstBlock(f) /\ last = LastBlock(f)
    BY DEF ImageInv, RangesExact
  <2>4. first < RootBlock BY <2>3 DEF ImageInv, RangesExact
  <2>5. PICK k \in Nat : k = first - b BY <2>1, <2>2, <2>3
  <2>6. First(f) = first /\ Length(f) = first - last + 1 BY <2>3, ChainsAre
  <2>7. k < first - last + 1 /\ k \in 0 .. RootBlock /\ first - k = b BY <1>1, <1>2, <2>1, <2>2, <2>3, <2>4, <2>5
  <2>8. f \in Chains BY <1>3
  <2>9. Linked(f, k) = b BY <2>6, <2>7, <2>8, LinkedFacts
  <2> QED BY <2>7, <2>8, <2>9
<1> QED BY <1>1, <1>2, <1>4, <1>5, <1>6, <1>7 DEF DataBlock

\* So the blocks are partitioned.
LEMMA Partitioned == ASSUME FatInv PROVE BlocksPartitioned
<1>1. FatTypeOK BY DEF FatInv
<1> DEFINE D == Chains \X (0 .. NBlocks - 1)
           place == [p \in D |-> Linked(p[1], p[2])]
<1>2. ASSUME step # "full"
      PROVE  /\ \A p, q \in DOMAIN place : place[p] = place[q] /\ place[p] # 0 => p = q
             /\ Range(place) = {0} \cup (FatBlocks + 1 .. NBlocks - 1)
  <2>1. ImageInv BY <1>2 DEF FatInv
  <2>2. RootBlock = NBlocks - 1 /\ RootBlock \in Nat /\ FatBlocks \in Nat BY Geometry DEF RootBlock
  <2>3. DOMAIN place = D OBVIOUS
  <2>4. ASSUME NEW c \in Chains, NEW k \in 0 .. RootBlock
        PROVE  Linked(c, k) \in {0} \cup DataBlock
    <3>1. PICK first, len \in Nat : first = First(c) /\ len = Length(c)
      BY <1>1, <1>2, <2>1, <2>2, ChainFacts
    <3>2. k \in Nat BY <2>2
    <3>3. Linked(c, k) = IF k < len THEN first - k ELSE 0 BY <1>1, <1>2, <2>1, <3>1, <3>2, LinkedFacts
    <3>4. len > 0 => first \in DataBlock /\ first - len + 1 \in DataBlock
      BY <1>1, <1>2, <2>1, <3>1, ChainFacts DEF Down
    <3>5. k < len => first - k \in DataBlock BY <2>2, <3>1, <3>2, <3>4 DEF DataBlock
    <3> QED BY <3>3, <3>5
  <2>5. ASSUME NEW p \in D, NEW q \in D, place[p] = place[q], place[p] # 0 PROVE p = q
    <3>1. PICK c \in Chains, k \in 0 .. RootBlock : p = <<c, k>> BY <2>2
    <3>2. PICK d \in Chains, l \in 0 .. RootBlock : q = <<d, l>> BY <2>2
    <3>3. place[p] = Linked(c, k) /\ place[q] = Linked(d, l) BY <2>2, <3>1, <3>2
    <3>4. PICK b : b = Linked(c, k) OBVIOUS
    <3>5. Linked(c, k) = b /\ Linked(d, l) = b /\ b # 0 BY <2>5, <3>3, <3>4
    <3>6. b \in Nat /\ k \in Nat /\ l \in Nat BY <2>2, <2>4, <3>4 DEF DataBlock
    <3>7. c = d /\ k = l BY <1>1, <1>2, <2>1, <3>5, <3>6, ChainsApart
    <3> QED BY <3>1, <3>2, <3>7
  <2>6. Range(place) = {place[p] : p \in D} BY <2>3 DEF Range
  <2>7. Range(place) \subseteq {0} \cup DataBlock
    <3>1. ASSUME NEW p \in D PROVE place[p] \in {0} \cup DataBlock
      <4>1. PICK c \in Chains, k \in 0 .. RootBlock : p = <<c, k>> BY <2>2
      <4>2. place[p] = Linked(c, k) BY <2>2, <4>1
      <4> QED BY <2>4, <4>2
    <3> HIDE DEF place
    <3> QED BY <2>6, <3>1
  <2>8. ASSUME NEW b \in {0} \cup DataBlock PROVE b \in Range(place)
    <3>1. PICK c \in Chains, k \in 0 .. RootBlock : Linked(c, k) = b
      BY <1>1, <1>2, <2>1, ChainsCover
    <3>2. <<c, k>> \in D /\ place[<<c, k>>] = b BY <2>2, <3>1
    <3> HIDE DEF place
    <3> QED BY <2>6, <3>2
  <2>9. Range(place) = {0} \cup DataBlock BY <2>7, <2>8, Zenon
  <2> HIDE DEF place
  <2> QED BY <2>2, <2>3, <2>5, <2>9 DEF DataBlock
<1> QED BY <1>1, <1>2, Zenon DEF BlocksPartitioned

\* However the image grows, its blocks are in the chains, each in one of them and
\* once.  In the image mounted the name "." is found, with the directory itself, and
\* of all other names those of the files that leave room for their 0, with the first
\* file of the name: for every set of names that programs may look up.
THEOREM NamesAreFound == FatSpec => []NamesFound
<1>1. FatInv => NamesFound
  <2> SUFFICES ASSUME FatInv PROVE NamesFound OBVIOUS
  <2>1. BlocksPartitioned BY Partitioned
  <2>2. ASSUME fat # <<>>, NEW name \in Names
        PROVE  Lookup(name) = IF name = Dot THEN disk[RootAt] ELSE StartOf(name)
    <3>1. disk[RootAt] = RootBlock BY <2>2, DoneFacts DEF FatInv, KernelInv, ImageInv, SuperExact
    <3> QED BY <2>2, <3>1, LookupFacts
  <2> QED BY <2>1, <2>2 DEF NamesFound
<1> QED BY <1>1, FatInvariance, PTL

-----------------------------------------------------------------------------
(***************************************************************************)
(* What is read is the host's file.                                        *)
(***************************************************************************)

\* The content stays,
LEMMA ContentKept ==
    ASSUME UNCHANGED <<mkfsVars, file>>
    PROVE  Content' = Content
<1>1. disk' = disk /\ sizes' = sizes /\ i' = i /\ start' = start /\ file' = file BY DEF mkfsVars
<1>2. Directory' = Directory /\ \A f \in Files : FirstBlock(f)' = FirstBlock(f) BY ImageKept
<1>3. Opened' = Opened BY <1>1, <1>2 DEF Opened
<1>4. HostFile(Opened)' = HostFile(Opened) BY <1>1, <1>3 DEF HostFile
<1> QED BY <1>1, <1>2, <1>4 DEF Content, Closed

\* or it is that of the name that is opened.
LEMMA ContentOpened ==
    ASSUME FatInv, UNCHANGED mkfsVars, NEW name, Opens(name), name = Dot \/ Named(name) # {}
    PROVE  Content' = Promised(name)
<1>1. disk' = disk /\ sizes' = sizes /\ i' = i /\ start' = start BY DEF mkfsVars
<1>2. Directory' = Directory /\ \A f \in Files : FirstBlock(f)' = FirstBlock(f) BY ImageKept
<1>3. fat # <<>> /\ step = "done" BY DEF Opens, FatInv, KernelInv
<1>4. CASE name = Dot
  <2>1. file'.type = 2 /\ Closed.type = 0 /\ Closed' = Closed BY <1>4 DEF Opens, RootFile, Closed
  <2>2. file' # Closed' /\ file'.type = 2 BY <2>1
  <2> QED BY <1>2, <1>4, <2>2 DEF Content, Promised
<1>5. CASE name # Dot
  <2>1. PICK g \in Files : g = Min(Named(name)) BY <1>5, NamedFacts
  <2>2. file' = FileOf(g) BY <1>5, <2>1 DEF Opens
  <2>3. file'.type = 1 /\ file'.start = FirstBlock(g) /\ Closed.type = 0 /\ Closed' = Closed
    BY <2>2 DEF FileOf, Closed
  <2>4. file' # Closed' /\ file'.type # 2 BY <2>3
  <2>5. \A f \in Files : FirstBlock(f) = file'.start => f = g BY <1>3, <2>3, DoneFacts
  <2>6. Opened' = g BY <1>2, <2>3, <2>5 DEF Opened
  <2>7. HostFile(Opened)' = HostFile(g) BY <1>1, <2>6 DEF HostFile
  <2>8. Content' = HostFile(Opened)' BY <2>4 DEF Content
  <2> QED BY <1>5, <2>1, <2>7, <2>8 DEF Promised
<1> QED BY <1>4, <1>5

\* The cells of the content from an offset on.
LEMMA ContentPiece ==
    ASSUME FatInv, file # Closed
    PROVE  /\ Len(Content) = file.length /\ file.length \in Nat /\ offset \in Nat
           /\ \A m \in Nat : m <= file.length - offset =>
                PartOf(Content, offset, m) = Piece(Bytes, offset, m)
<1>1. PICK h : h = Bytes OBVIOUS
<1>2. PICK size \in Nat : size = file.length BY OpenFacts
<1>3. Content = Piece(h, 0, size) BY <1>1, <1>2, OpenFacts
<1>4. PICK o \in Nat : o = offset BY DEF FatInv, FatTypeOK
<1>5. Len(Piece(h, 0, size)) = size BY PieceFacts DEF IsPiece
<1>6. ASSUME NEW m \in Nat, m <= size - o PROVE PartOf(Piece(h, 0, size), o, m) = Piece(h, o, m)
  <2>1. o + m <= size /\ 0 + o = o BY <1>6
  <2>2. \A d, e \in Nat : d + e <= size => PartOf(Piece(h, 0, size), d, e) = Piece(h, 0 + d, e)
    BY PiecePart
  <2> QED BY <2>1, <2>2
<1> QED BY <1>1, <1>2, <1>3, <1>4, <1>5, <1>6

\* The steps of the abstract file in the variables of the kernel.
LEMMA PlainIs ==
    /\ Plain!PlainVars = <<Content, offset, data, err>>
    /\ Plain!PlainInit <=> Content = <<>> /\ offset = 0 /\ data = <<>> /\ err = FALSE
    /\ Plain!Rest = Len(Content) - offset
    /\ \A c : Plain!Open(c) <=> Content' = c /\ offset' = 0 /\ data' = <<>> /\ err' = FALSE
    /\ Plain!NotFound <=> err' = TRUE /\ data' = <<>> /\ Content' = Content /\ offset' = offset
    /\ Plain!Seek <=> offset' \in Nat /\ data' = <<>> /\ err' = FALSE /\ Content' = Content
    /\ \A m : Plain!Got(m) <=> /\ data' = PartOf(Content, offset, m)
                               /\ offset' = offset + m /\ err' = FALSE /\ Content' = Content
<1>1. Plain!PlainVars = <<Content, offset, data, err>> BY DEF Plain!PlainVars, Content
<1>2. Plain!PlainInit <=> Content = <<>> /\ offset = 0 /\ data = <<>> /\ err = FALSE
  BY Zenon DEF Plain!PlainInit, Content
<1>3. Plain!Rest = Len(Content) - offset BY DEF Plain!Rest, Content
<1>4. ASSUME NEW c PROVE Plain!Open(c) <=> Content' = c /\ offset' = 0 /\ data' = <<>> /\ err' = FALSE
  BY Zenon DEF Plain!Open, Content
<1>5. Plain!NotFound <=> err' = TRUE /\ data' = <<>> /\ Content' = Content /\ offset' = offset
  BY Zenon DEF Plain!NotFound, Content
<1>6. Plain!Seek <=> offset' \in Nat /\ data' = <<>> /\ err' = FALSE /\ Content' = Content
  BY Zenon DEF Plain!Seek, Content
<1>7. ASSUME NEW m PROVE Plain!Got(m) <=> /\ data' = PartOf(Content, offset, m)
                                          /\ offset' = offset + m /\ err' = FALSE /\ Content' = Content
  BY Zenon DEF Plain!Got, Content, PartOf
<1> QED BY <1>1, <1>2, <1>3, <1>4, <1>5, <1>6, <1>7, Zenon

\* The steps of the kernel are such steps.
LEMMA OpenPlain ==
    ASSUME FatInv, NEW name \in Names, Open(name)
    PROVE  PlainNext
<1>1. UNCHANGED mkfsVars BY DEF Open
<1>2. Opens(name) BY OpenStep
<1>3. CASE name = Dot \/ Named(name) # {}
  <2>1. Content' = Promised(name) BY <1>1, <1>2, <1>3, ContentOpened
  <2>2. offset' = 0 /\ data' = <<>> /\ err' = FALSE BY <1>2, <1>3 DEF Opens
  <2>3. Plain!Open(Promised(name)) BY <2>1, <2>2, PlainIs
  <2>4. ~(name # Dot /\ Named(name) = {}) BY <1>3
  <2> QED BY <2>3, <2>4, Zenon DEF PlainNext
<1>4. CASE name # Dot /\ Named(name) = {}
  <2>1. err' = TRUE /\ data' = <<>> /\ file' = file /\ offset' = offset BY <1>2, <1>4 DEF Opens
  <2>2. Content' = Content BY <1>1, <2>1, ContentKept
  <2>3. Plain!NotFound BY <2>1, <2>2, PlainIs
  <2> QED BY <1>4, <2>3, Zenon DEF PlainNext
<1> QED BY <1>3, <1>4

LEMMA ReadPlain ==
    ASSUME FatInv, NEW n \in 1 .. MaxRead, Read(n)
    PROVE  PlainNext
<1>1. UNCHANGED <<mkfsVars, file>> /\ file # Closed BY DEF Read
<1>2. Content' = Content BY <1>1, ContentKept
<1>3. PICK size, o \in Nat : size = file.length /\ o = offset /\ Len(Content) = size
  BY <1>1, ContentPiece
<1>4. PICK h : h = Bytes /\ Values(h) \subseteq Nat BY <1>1, OpenFacts
<1>5. n \in Nat /\ n >= 1 BY FatAssumption
<1>6. Plain!Rest = size - o BY <1>3, PlainIs
<1>7. CASE /\ offset <= file.length /\ Gets(Bytes, file.length, offset, n, data')
           /\ offset' = offset + Len(data') /\ err' = FALSE
  <2>1. PICK m \in Nat : /\ m <= n /\ m <= size - o
                         /\ m = 0 => n = 0 \/ o = size
                         /\ data' = Piece(h, o, m)
    BY <1>3, <1>4, <1>7 DEF Gets
  <2>2. data' = PartOf(Content, offset, m) BY <1>1, <1>3, <1>4, <2>1, ContentPiece
  <2>3. Len(data') = m BY <1>3, <1>4, <2>1, PieceIsData
  <2>4. Plain!Got(m)
    <3>1. offset' = offset + m BY <1>7, <2>3, Zenon
    <3> QED BY <1>2, <1>7, <2>2, <3>1, PlainIs, Zenon
  <2>5. m \in 0 .. n /\ size - o >= 0 /\ m <= size - o /\ (m = 0 => size - o = 0)
    BY <1>3, <1>5, <1>7, <2>1
  <2>6. Plain!Rest >= 0 /\ m <= Plain!Rest /\ (m = 0 => Plain!Rest = 0) BY <1>6, <2>5, Zenon
  <2>7. Plain!Read(n) BY <2>4, <2>5, <2>6, Zenon DEF Plain!Read
  <2> QED BY <2>7, Zenon DEF PlainNext
<1>8. CASE offset > file.length /\ err' = TRUE /\ data' = <<>> /\ offset' = offset
  <2>1. Plain!NotFound BY <1>2, <1>8, PlainIs, Zenon
  <2>2. Plain!Rest < 0
    <3>1. size - o < 0 BY <1>3, <1>8
    <3> QED BY <1>6, <3>1, Zenon
  <2>3. Plain!Read(n) BY <2>1, <2>2, Zenon DEF Plain!Read
  <2> QED BY <2>3, Zenon DEF PlainNext
<1> QED BY <1>7, <1>8, ReadStep

LEMMA ReadFullyPlain ==
    ASSUME FatInv, NEW n \in 1 .. MaxRead, ReadFully(n)
    PROVE  PlainNext
<1>1. UNCHANGED <<mkfsVars, file>> /\ file # Closed BY DEF ReadFully
<1>2. Content' = Content BY <1>1, ContentKept
<1>3. PICK size, o \in Nat : size = file.length /\ o = offset /\ Len(Content) = size
  BY <1>1, ContentPiece
<1>4. PICK h : h = Bytes /\ Values(h) \subseteq Nat BY <1>1, OpenFacts
<1>5. n \in Nat /\ n >= 1 BY FatAssumption
<1>6. Plain!Rest = size - o BY <1>3, PlainIs
<1>7. CASE /\ offset <= file.length
           /\ \E m \in Nat : /\ m = IF n < file.length - offset THEN n ELSE file.length - offset
                             /\ data' = Piece(Bytes, offset, m)
           /\ offset' = offset + Len(data') /\ err' = FALSE
  <2>1. PICK m \in Nat : /\ m = IF n < size - o THEN n ELSE size - o
                         /\ data' = Piece(h, o, m)
    BY <1>3, <1>4, <1>7
  <2>2. m <= size - o BY <1>3, <1>5, <2>1
  <2>3. data' = PartOf(Content, offset, m) BY <1>1, <1>3, <1>4, <2>1, <2>2, ContentPiece
  <2>4. Len(data') = m BY <1>3, <1>4, <2>1, PieceIsData
  <2>5. Plain!Got(m)
    <3>1. offset' = offset + m BY <1>7, <2>4, Zenon
    <3> QED BY <1>2, <1>7, <2>3, <3>1, PlainIs, Zenon
  <2>6. size - o >= 0 BY <1>3, <1>7
  <2>7. Plain!Rest >= 0 /\ m = IF n < Plain!Rest THEN n ELSE Plain!Rest BY <1>6, <2>1, <2>6, Zenon
  <2>8. Plain!ReadFully(n) BY <2>5, <2>7, Zenon DEF Plain!ReadFully
  <2> QED BY <2>8, Zenon DEF PlainNext
<1>8. CASE offset > file.length /\ err' = TRUE /\ data' = <<>> /\ offset' = offset
  <2>1. Plain!NotFound BY <1>2, <1>8, PlainIs, Zenon
  <2>2. Plain!Rest < 0
    <3>1. size - o < 0 BY <1>3, <1>8
    <3> QED BY <1>6, <3>1, Zenon
  <2>3. Plain!ReadFully(n) BY <2>1, <2>2, Zenon DEF Plain!ReadFully
  <2> QED BY <2>3, Zenon DEF PlainNext
<1> QED BY <1>7, <1>8, ReadFullyStep

LEMMA PlainStep ==
    ASSUME FatInv, [FatNext]_fatVars
    PROVE  [PlainNext]_Plain!PlainVars
<1>1. ASSUME UNCHANGED <<file, offset, data, err>>, UNCHANGED mkfsVars \/ file = Closed
      PROVE  UNCHANGED Plain!PlainVars
  <2>1. Content' = Content
    <3>1. CASE UNCHANGED <<mkfsVars, file>> BY <3>1, ContentKept
    <3>2. CASE file' = file /\ file = Closed BY <3>2 DEF Content, Closed
    <3> QED BY <1>1, <3>1, <3>2
  <2>2. Plain!PlainVars' = <<Content', offset', data', err'>> BY DEF Plain!PlainVars, Content
  <2>3. Plain!PlainVars = <<Content, offset, data, err>> BY PlainIs
  <2> QED BY <1>1, <2>1, <2>2, <2>3
<1>2. ASSUME UNCHANGED fatVars PROVE UNCHANGED Plain!PlainVars
  <2>1. UNCHANGED <<file, offset, data, err>> /\ UNCHANGED mkfsVars BY <1>2 DEF fatVars, kernelVars
  <2> QED BY <1>1, <2>1
<1>3. ASSUME Build PROVE UNCHANGED Plain!PlainVars
  <2>1. UNCHANGED <<file, offset, data, err>> /\ file = Closed
    BY <1>3 DEF Build, kernelVars, FatInv, KernelInv
  <2> QED BY <1>1, <2>1
<1>4. ASSUME Mount PROVE UNCHANGED Plain!PlainVars
  <2>1. UNCHANGED <<file, offset, data, err>> /\ UNCHANGED mkfsVars BY <1>4 DEF Mount
  <2> QED BY <1>1, <2>1
<1>5. ASSUME NEW name \in Names, Open(name) PROVE PlainNext
  BY <1>5, OpenPlain
<1>6. ASSUME NEW o \in 0 .. MaxOffset, Seek(o) PROVE PlainNext
  <2>1. UNCHANGED <<mkfsVars, file>> /\ offset' = o /\ data' = <<>> /\ err' = FALSE BY <1>6 DEF Seek
  <2>2. Content' = Content BY <2>1, ContentKept
  <2>3. o \in Nat BY FatAssumption
  <2>4. Plain!Seek BY <2>1, <2>2, <2>3, PlainIs
  <2> QED BY <1>6, <2>4, Zenon DEF PlainNext
<1>7. ASSUME NEW n \in 1 .. MaxRead, Read(n) PROVE PlainNext BY <1>7, ReadPlain
<1>8. ASSUME NEW n \in 1 .. MaxRead, ReadFully(n) PROVE PlainNext BY <1>8, ReadFullyPlain
<1>9. CASE FatNext
  <2>1. PlainNext \/ UNCHANGED Plain!PlainVars
    BY <1>9, <1>3, <1>4, <1>5, <1>6, <1>7, <1>8, Zenon DEF FatNext
  <2> QED BY <2>1
<1>10. CASE UNCHANGED fatVars BY <1>2, <1>10
<1> QED BY <1>9, <1>10

\* The open file is the host's, or the directory, for every image mkfs can make: its
\* bytes in their order at whatever offset, over any number of blocks, and its end.
THEOREM HostsFileIsRead == FatSpec => ReadsTheHostsFile
<1>1. FatInit => Plain!PlainInit
  <2> SUFFICES ASSUME FatInit PROVE Plain!PlainInit OBVIOUS
  <2>1. file = Closed /\ offset = 0 /\ data = <<>> /\ err = FALSE BY DEF FatInit
  <2>2. Content = <<>> BY <2>1 DEF Content
  <2> QED BY <2>1, <2>2, PlainIs
<1>2. FatInv /\ [FatNext]_fatVars => [PlainNext]_Plain!PlainVars BY PlainStep
<1> QED BY <1>1, <1>2, FatInvariance, PTL DEF FatSpec, ReadsTheHostsFile
=============================================================================
