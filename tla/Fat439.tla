------------------------------- MODULE Fat439 -------------------------------
(***************************************************************************)
(* The kernel's file system (src/kernel/fs.cc, fs.h, block.cc) reading the *)
(* image that mkfs made: it mounts the image, looks a file up in the root  *)
(* directory, and reads it through one open File.  The blocks of a file    *)
(* may be anywhere; a read never crosses the end of a block.  The image is *)
(* never written, and each File has its own offset, so that other readers  *)
(* change nothing here.                                                    *)
(***************************************************************************)
EXTENDS Mkfs, SequencesExt

CONSTANTS MaxOffset, MaxRead,   \* bounds on the arguments of seek and read
          Names                 \* the names that are looked up

VARIABLES fat,      \* Fat439::fat, empty until the image is mounted
          dir,      \* rootdir: the OpenFile of the root directory
          file,     \* the open File: its OpenFile
          offset,   \* File::offset
          data,     \* what the last call returned: the bytes in the buffer,
          err       \* or a negative number

kernelVars == <<fat, dir, file, offset, data, err>>
fatVars == <<mkfsVars, kernelVars>>

\* A name is a sequence of characters and the 0 that ends it.
ASSUME FatAssumption ==
    /\ MaxOffset \in Nat /\ MaxRead \in Nat
    /\ \A name \in Names : /\ name \in Seq(Nat) /\ name # <<>>
                          /\ \A k \in DOMAIN name : name[k] = 0 <=> k = Len(name)

\* What n turns of a loop make of x.
Repeated(Turn(_), x, n) ==
    LET after[k \in 0 .. n] == IF k = 0 THEN x ELSE Turn(after[k - 1])
    IN  after[n]

\* No file: the OpenFile of nothing.
Closed == [start |-> 0, type |-> 0, length |-> 0]

-----------------------------------------------------------------------------

\* IDE::readBlock: the cells of block b.
readBlock(b) == [k \in 1 .. BlockSize |-> disk[b * BlockSize + k - 1]]

\* BlockDevice::read: up to n cells at address a, to the end of the block.
DevRead(a, n) ==
    LET first == a % BlockSize
        room == BlockSize - first
        block == readBlock(a \div BlockSize)
    IN  SubSeq(block, first + 1, first + (IF n < room THEN n ELSE room))

\* BlockDevice::readFully.
DevReadFully(a, n) ==
    Repeated(LAMBDA got : got \o DevRead(a + Len(got), n - Len(got)), <<>>, n)

\* The constructor of OpenFile.
OpenFile(b) ==
    LET metaData == DevReadFully(b * BlockSize, Header)
    IN  [start |-> b, type |-> metaData[1], length |-> metaData[2]]

\* Mutant: the header is not counted when the block is looked for.
BlockOfHeaderless(of, o) ==
    Repeated(LAMBDA b : fat[b], of.start, o \div BlockSize)

\* The block that holds offset o: the links of the FAT are followed.
BlockOf(of, o) ==
    Repeated(LAMBDA b : fat[b], of.start, (o + Header) \div BlockSize)

\* OpenFile::read when o is in the file: what is left of it, at most n cells,
\* and not beyond the block.
OpenFileRead(of, o, n) ==
    LET len == IF n < of.length - o THEN n ELSE of.length - o
    IN  DevRead(BlockOf(of, o) * BlockSize + ((o + Header) % BlockSize), len)

\* OpenFile::readFully: it does not advance its offset.
OpenFileReadFully(of, o, n) ==
    Repeated(LAMBDA got : got \o OpenFileRead(of, o, n - Len(got)), <<>>, n)

-----------------------------------------------------------------------------
(***************************************************************************)
(* The root directory.                                                     *)
(***************************************************************************)

NameOf(f) == [k \in 1 .. NameLen[f] + 1 |-> Name(f, k)]

\* The name that no file of the host has: a directory's name for itself.
Dot == <<46, 0>>

Entry(k) == OpenFileReadFully(dir, (k - 1) * EntrySize, EntrySize)

\* Mutant: a name matches when it begins the entry's.
MatchesPrefix(entry, name) ==
    \E k \in 1 .. NameCells : /\ k \in DOMAIN name /\ name[k] = 0
                              /\ \A j \in 1 .. k - 1 : entry[j] = name[j]

\* All characters agree up to the 0, which is one of the NameCells of the entry.
Matches(entry, name) ==
    \E k \in 1 .. NameCells : /\ entry[k] = 0
                              /\ \A j \in 1 .. k : j \in DOMAIN name /\ entry[j] = name[j]

\* Fat439Directory::lookup: the directory itself, the start of the first entry
\* of that name, or 0.
Lookup(name) ==
    LET found == {k \in 1 .. dir.length \div EntrySize : Matches(Entry(k), name)}
    IN  CASE name = Dot -> dir.start
          [] name # Dot /\ found = {} -> 0
          [] OTHER -> Entry(Min(found))[EntrySize]

-----------------------------------------------------------------------------

FatInit == /\ MkfsInit
           /\ fat = <<>>
           /\ dir = Closed /\ file = Closed
           /\ offset = 0
           /\ data = <<>>
           /\ err = FALSE

Build == fat = <<>> /\ MkfsNext /\ UNCHANGED kernelVars

\* The constructor of Fat439.  Another magic number panics.
Mount ==
    /\ step = "done" /\ fat = <<>>
    /\ LET super == DevReadFully(0, 4)
       IN  /\ super[1] = Magic
           /\ fat' = [b \in 0 .. super[2] - 1 |-> DevReadFully(BlockSize, super[2])[b + 1]]
           /\ dir' = OpenFile(super[RootAt + 1])
    /\ UNCHANGED <<mkfsVars, file, offset, data, err>>

\* lookupFile(name), and a new File if there is one.
Open(name) ==
    /\ fat # <<>>
    /\ data' = <<>>
    /\ IF Lookup(name) = 0
       THEN err' = TRUE /\ UNCHANGED <<file, offset>>
       ELSE err' = FALSE /\ file' = OpenFile(Lookup(name)) /\ offset' = 0
    /\ UNCHANGED <<mkfsVars, fat, dir>>

\* File::seek checks nothing.
Seek(o) ==
    /\ file # Closed
    /\ offset' = o
    /\ data' = <<>> /\ err' = FALSE
    /\ UNCHANGED <<mkfsVars, fat, dir, file>>

TooLong == err' = TRUE /\ data' = <<>> /\ UNCHANGED offset

\* Fat439File::read.
Read(n) ==
    /\ file # Closed
    /\ IF offset > file.length
       THEN TooLong
       ELSE /\ data' = OpenFileRead(file, offset, n)
            /\ offset' = offset + Len(data')
            /\ err' = FALSE
    /\ UNCHANGED <<mkfsVars, fat, dir, file>>

\* File::readFully: reads until nothing more comes.
ReadFully(n) ==
    /\ file # Closed
    /\ IF offset > file.length
       THEN TooLong
       ELSE /\ data' = Repeated(LAMBDA got :
                            got \o OpenFileRead(file, offset + Len(got), n - Len(got)), <<>>, n)
            /\ offset' = offset + Len(data')
            /\ err' = FALSE
    /\ UNCHANGED <<mkfsVars, fat, dir, file>>

FatNext == \/ Build
           \/ Mount
           \/ \E name \in Names : Open(name)
           \/ \E o \in 0 .. MaxOffset : Seek(o)
           \/ \E n \in 1 .. MaxRead : Read(n) \/ ReadFully(n)

FatSpec == FatInit /\ [][FatNext]_fatVars

-----------------------------------------------------------------------------

FatTypeOK ==
    /\ disk \in [0 .. NBlocks * BlockSize - 1 -> Nat]
    /\ sizes \in [Files -> Sizes]
    /\ step \in {"next", "copy", "full", "done"}
    /\ i \in 1 .. Len(NameLen) + 1
    /\ {start, current} \subseteq 0 .. NBlocks - 1
    /\ left \in 0 .. BlockSize
    /\ total \in Nat /\ offset \in Nat
    /\ data \in Seq(Nat) /\ Len(data) <= MaxRead
    /\ err \in BOOLEAN
    /\ {dir, file} \subseteq [start : 0 .. NBlocks - 1, type : {0, 1, 2}, length : Nat]
    /\ fat = <<>> \/ fat \in [0 .. NBlocks - 1 -> 0 .. NBlocks - 1]

FirstBlock(f) == IF f = i THEN start ELSE disk[EntryAt(f) + NameCells]

\* The chains: the blocks available (-1), the root directory (0), and the
\* files that were started; and where k links lead from the first block of one.
\* Block 0 is none, and leads to none.
Chains == -1 .. (IF step = "copy" THEN i ELSE i - 1)
First(c) == CASE c = -1 -> disk[AvailAt]
              [] c = 0 -> disk[RootAt]
              [] OTHER -> FirstBlock(c)
Linked(c, k) == Repeated(LAMBDA b : disk[FatAt(b)], First(c), k)

\* While the image grows, every data block is in one chain and met there once.
BlocksPartitioned ==
    LET place == [p \in Chains \X (0 .. NBlocks - 1) |-> Linked(p[1], p[2])]
    IN  /\ FatTypeOK
        /\ step # "full" =>
            /\ \A p, q \in DOMAIN place : place[p] = place[q] /\ place[p] # 0 => p = q
            /\ Range(place) = {0} \cup (FatBlocks + 1 .. NBlocks - 1)

\* The files of a name (mkfs drops the directories, so that two may have the
\* same) that leaves room for its 0 in an entry, and where the first one starts.
Named(name) == {f \in Files : NameOf(f) = name /\ NameLen[f] < NameCells}
StartOf(name) == IF Named(name) = {} THEN 0 ELSE FirstBlock(Min(Named(name)))

\* What can be opened: the host's files, with their bytes in their order, and the
\* directory, with the names and the starts of all files.
HostFile(f) == [k \in 1 .. sizes[f] |-> Data(f, k - 1)]
Directory == [k \in 1 .. Len(NameLen) * EntrySize |->
                LET f == 1 + ((k - 1) \div EntrySize)
                    c == 1 + ((k - 1) % EntrySize)
                IN  IF c = EntrySize THEN FirstBlock(f) ELSE Name(f, c)]
Promised(name) == IF name = Dot THEN Directory ELSE HostFile(Min(Named(name)))

\* The file that is open is the one of that name, at whatever offset, over any
\* number of blocks, and to its end.
Opened == CHOOSE f \in Files : FirstBlock(f) = file.start
Plain == INSTANCE PlainFile
    WITH content <- CASE file = Closed -> <<>>
                      [] file # Closed /\ file.type = 2 -> Directory
                      [] OTHER -> HostFile(Opened)
PlainNext ==
    \/ \E name \in Names : Open(name) /\ IF name # Dot /\ Named(name) = {}
                                        THEN Plain!NotFound
                                        ELSE Plain!Open(Promised(name))
    \/ \E o \in 0 .. MaxOffset : Seek(o) /\ Plain!Seek
    \/ \E n \in 1 .. MaxRead : \/ Read(n) /\ Plain!Read(n)
                               \/ ReadFully(n) /\ Plain!ReadFully(n)
ReadsTheHostsFile == Plain!PlainInit /\ [][PlainNext]_Plain!PlainVars

\* In an image whose blocks are partitioned, a name that leaves room for its 0
\* is found, and it is that of the first file of the name; the name "." is the
\* directory's own; and any other name is not found, be it empty, the beginning
\* of a file's name or longer than one.
NamesFound ==
    /\ BlocksPartitioned
    /\ fat # <<>> => \A name \in Names :
                        Lookup(name) = IF name = Dot THEN disk[RootAt] ELSE StartOf(name)

\* Every file that is put in the image can be opened by its name.
EveryFileFound == fat # <<>> => \A f \in Files : Lookup(NameOf(f)) # 0
=============================================================================
