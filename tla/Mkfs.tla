-------------------------------- MODULE Mkfs --------------------------------
(***************************************************************************)
(* The image builder (src/fat439/mkfs.c): it copies the files of the host  *)
(* into chains of blocks and lists them in the root directory.             *)
(*                                                                         *)
(* A disk is an array of cells; a cell is a 32-bit word, or one character  *)
(* of a name.  A block has BlockSize of them.  Block 0 holds the super     *)
(* block, the next ones the FAT.  A file begins with Header cells: its     *)
(* type and its length.                                                    *)
(***************************************************************************)
EXTENDS Integers, Sequences

CONSTANTS BlockSize, NBlocks,  \* 512 bytes; nBlocks
          NameCells,           \* the characters of a name in an entry, 12
          NameLen,             \* the lengths of the names of the files
          Sizes                \* the sizes that files may have

Header == 2
EntrySize == NameCells + 1
Files == 1 .. Len(NameLen)
FatBlocks == (NBlocks + BlockSize - 1) \div BlockSize

\* A block holds the super block; behind the FAT there is a block for the root
\* directory, with room for all entries; main() wants at least one file.
ASSUME MkfsAssumption ==
    /\ BlockSize \in Nat /\ BlockSize >= 4
    /\ NBlocks \in Nat /\ NBlocks > FatBlocks + 1
    /\ NameCells \in Nat
    /\ NameLen \in Seq(Nat \ {0}) /\ NameLen # <<>>
    /\ Header + Len(NameLen) * EntrySize <= BlockSize
    /\ Sizes \subseteq Nat

VARIABLES disk,     \* the image
          sizes,    \* the sizes of the host's files
          step,     \* where main() is
          i,        \* the file it copies
          start,    \* startBlock
          current,  \* currentBlock
          left,     \* leftInBlock
          total     \* totalSize

mkfsVars == <<disk, sizes, step, i, start, current, left, total>>

\* The cells of the super block, of the FAT, and of the root directory.
Magic == 439
AvailAt == 2
RootAt == 3
FatAt(b) == BlockSize + b
EntryAt(f) == disk[RootAt] * BlockSize + Header + (f - 1) * EntrySize

\* What the host has: cell k of file f, and character k of its name.  Names
\* are prefixes of each other; a character after the last one is 0.
Data(f, k) == 1000 * f + k
Name(f, k) == IF k <= NameLen[f] THEN k ELSE 0

-----------------------------------------------------------------------------

\* The disk when getBlock() has taken the first available block.
GetBlock(d) == [d EXCEPT ![AvailAt] = d[FatAt(d[AvailAt])], ![FatAt(d[AvailAt])] = 0]

MkfsInit ==
    LET last == NBlocks - 1
        empty == [a \in 0 .. NBlocks * BlockSize - 1 |->
                    CASE a = 0 -> Magic
                      [] a = 1 -> NBlocks
                      [] a = AvailAt -> last
                      [] a \in {FatAt(b) : b \in FatBlocks + 2 .. last} -> a - BlockSize - 1
                      [] OTHER -> 0]
    IN  /\ disk = [GetBlock(empty) EXCEPT ![RootAt] = last,
                                          ![last * BlockSize] = 2,
                                          ![last * BlockSize + 1] = Len(NameLen) * EntrySize]
        /\ sizes \in [Files -> Sizes]
        /\ step = "next"
        /\ i = 1
        /\ start = 0
        /\ current = 0
        /\ left = 0
        /\ total = 0

\* oneFile() takes the first block of file i.
StartFile ==
    /\ step = "next" /\ i \in Files
    /\ IF disk[AvailAt] = 0
       THEN step' = "full" /\ UNCHANGED <<disk, start, current, left, total>>
       ELSE /\ step' = "copy"
            /\ start' = disk[AvailAt]
            /\ current' = start'
            /\ disk' = [GetBlock(disk) EXCEPT ![start' * BlockSize] = 1]
            /\ left' = BlockSize - Header
            /\ total' = 0
    /\ UNCHANGED <<sizes, i>>

\* The block is full: a new one is linked to it, whether or not more follows.
NewBlock ==
    /\ step = "copy" /\ left = 0
    /\ IF disk[AvailAt] = 0
       THEN step' = "full" /\ UNCHANGED <<disk, current, left>>
       ELSE /\ current' = disk[AvailAt]
            /\ disk' = [GetBlock(disk) EXCEPT ![FatAt(current)] = current']
            /\ left' = BlockSize
            /\ UNCHANGED step
    /\ UNCHANGED <<sizes, i, start, total>>

\* The host's read() returns n cells of the file.
ReadSome(n) ==
    /\ step = "copy" /\ n <= left /\ n <= sizes[i] - total
    /\ disk' = [a \in DOMAIN disk |->
                  LET k == a - (current + 1) * BlockSize + left
                  IN  IF k \in 0 .. n - 1 THEN Data(i, total + k) ELSE disk[a]]
    /\ left' = left - n
    /\ total' = total + n
    /\ UNCHANGED <<sizes, step, i, start, current>>

\* The end of the file: its length and its name are written.
EndOfFile ==
    /\ step = "copy" /\ left > 0 /\ total = sizes[i]
    /\ disk' = [a \in DOMAIN disk |->
                  LET k == a - EntryAt(i) + 1
                  IN  CASE a = start * BlockSize + 1 -> total
                        [] k \in 1 .. NameCells -> Name(i, k)
                        [] k = EntrySize -> start
                        [] OTHER -> disk[a]]
    /\ i' = i + 1
    /\ step' = IF i' \in Files THEN "next" ELSE "done"
    /\ UNCHANGED <<sizes, start, current, left, total>>

MkfsNext == \/ StartFile
            \/ NewBlock
            \/ \E n \in 1 .. BlockSize : ReadSome(n)
            \/ EndOfFile
=============================================================================
