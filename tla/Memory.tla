------------------------------- MODULE Memory -------------------------------
(***************************************************************************)
(* Physical frames and address spaces (src/kernel/vmm.cc): page faults of  *)
(* processes, fork, execv and the destructor, each frame by frame, while   *)
(* other processes do the same.  PhysMem::alloc, PhysMem::free and pmap    *)
(* run with interrupts off; a process may be interrupted between them.     *)
(*                                                                         *)
(* The kernel's identity mapping is one page table, that of table 0, and   *)
(* its entries are no frames of PhysMem; the pages of user programs are    *)
(* those of the other tables.  All of a page is one value.                 *)
(***************************************************************************)
EXTENDS Integers, FiniteSets, SequencesExt

CONSTANTS Proc, Boot,     \* the processes, and the one there is at first
          Frames,         \* how many frames there are between start and limit
          Tables,         \* the page tables that user pages need
          PerTable,       \* the entries of one, 1024
          Value           \* what programs write

Zero == 0
Link == -1                \* what PhysMem::free leaves in a frame

ASSUME MemoryAssumption == /\ Boot \in Proc /\ IsFiniteSet(Proc)
                           /\ Frames \in Nat /\ Frames >= 2
                           /\ Tables \in Nat /\ PerTable \in Nat \ {0}
                           /\ Value \subseteq Nat \ {Zero}

VARIABLES firstFree,   \* the list of free frames
          avail,       \* the first frame that was never used
          pd,          \* the page directory of each process
          pt,          \* its page tables, 0 if not present
          page,        \* its pages, by virtual page number; 0 if not present
          content,     \* of each frame
          status,      \* of each process
          pc,          \* what it does, or what is done to it when it is dead
          at,          \* the page or table it has come to
          hand,        \* the frame it got from alloc and has not mapped
          child,       \* the process it forks
          panicked

frames == <<firstFree, avail>>
vars == <<frames, pd, pt, page, content, status, pc, at, hand, child, panicked>>

Frame == 1 .. Frames
Pages == 0 .. Tables * PerTable - 1
Table == 0 .. Tables
TableOf(va) == va \div PerTable + 1
NoPages == [va \in Pages |-> 0]
NoTables == [t \in Table |-> 0]

Init ==
    /\ firstFree = <<>> /\ avail = 3
    /\ pd = [p \in Proc |-> IF p = Boot THEN 1 ELSE 0]
    /\ pt = [p \in Proc |-> IF p = Boot THEN [NoTables EXCEPT ![0] = 2] ELSE NoTables]
    /\ page = [p \in Proc |-> NoPages]
    /\ content = [f \in Frame |-> Zero]
    /\ status = [p \in Proc |-> IF p = Boot THEN "live" ELSE "none"]
    /\ pc = [p \in Proc |-> "idle"]
    /\ at = [p \in Proc |-> 0]
    /\ hand = [p \in Proc |-> 0]
    /\ child = [p \in Proc |-> p]
    /\ panicked = FALSE

-----------------------------------------------------------------------------

\* alloc finds no free frame below the limit.
NoFrame == firstFree = <<>> /\ avail > Frames
Top == IF firstFree # <<>> THEN Head(firstFree) ELSE avail

\* PhysMem::alloc takes the frame Top.
Alloc ==
    /\ ~NoFrame
    /\ IF firstFree # <<>>
       THEN firstFree' = Tail(firstFree) /\ UNCHANGED avail
       ELSE avail' = avail + 1 /\ UNCHANGED firstFree

\* PhysMem::free links the frame before the others.
Free(f) == firstFree' = <<f>> \o firstFree /\ UNCHANGED avail

At(p, place) == status[p] = "live" /\ pc[p] = place /\ ~panicked
Goto(p, place) == pc' = [pc EXCEPT ![p] = place]

\* alloc() finds no frame and panics.
OutOfFrames(p) ==
    /\ NoFrame /\ ~panicked
    /\ \/ pc[p] \in {"directory", "identity"}
       \/ pc[p] = "fault"
       \/ pc[p] \in {"map", "copy"} /\ pt[child[p]][TableOf(at[p])] = 0
       \/ pc[p] = "fork" /\ at[p] \in Pages /\ page[p][at[p]] # 0
    /\ panicked' = TRUE
    /\ UNCHANGED <<frames, pd, pt, page, content, status, pc, at, hand, child>>

\* pmap(va, f) in the address space of q, with a page table if there is none.
Mapped(q, va, f) ==
    /\ page' = [page EXCEPT ![q][va] = f]
    /\ IF pt[q][TableOf(va)] # 0
       THEN UNCHANGED <<frames, pt>>
       ELSE Alloc /\ pt' = [pt EXCEPT ![q][TableOf(va)] = Top]
\* alloc clears a new page table.
Cleared(c, q, va) == IF pt[q][TableOf(va)] # 0 THEN c ELSE [c EXCEPT ![Top] = Zero]

-----------------------------------------------------------------------------
(***************************************************************************)
(* A user program: it writes to a page, after a page fault if need be.     *)
(***************************************************************************)

Write(p, va, v) ==
    /\ At(p, "idle") /\ page[p][va] # 0
    /\ content' = [content EXCEPT ![page[p][va]] = v]
    /\ UNCHANGED <<frames, pd, pt, page, status, pc, at, hand, child, panicked>>

PageFault(p, va) ==
    /\ At(p, "idle") /\ page[p][va] = 0
    /\ Goto(p, "fault")
    /\ at' = [at EXCEPT ![p] = va]
    /\ UNCHANGED <<frames, pd, pt, page, content, status, hand, child, panicked>>

\* handlePageFault: the frame of the page.
FaultAlloc(p) ==
    /\ At(p, "fault")
    /\ Alloc
    /\ hand' = [hand EXCEPT ![p] = Top]
    /\ Goto(p, "map")
    /\ UNCHANGED <<pd, pt, page, content, status, at, child, panicked>>

\* Mutant: alloc does not clear the frame.
FaultMapUncleared(p) ==
    /\ At(p, "map")
    /\ Mapped(p, at[p], hand[p])
    /\ content' = Cleared(content, p, at[p])
    /\ hand' = [hand EXCEPT ![p] = 0]
    /\ at' = [at EXCEPT ![p] = 0]
    /\ Goto(p, "idle")
    /\ UNCHANGED <<pd, status, child, panicked>>

\* alloc clears the frame, and the page is mapped.
FaultMap(p) ==
    /\ At(p, "map")
    /\ Mapped(p, at[p], hand[p])
    /\ content' = Cleared([content EXCEPT ![hand[p]] = Zero], p, at[p])
    /\ hand' = [hand EXCEPT ![p] = 0]
    /\ at' = [at EXCEPT ![p] = 0]
    /\ Goto(p, "idle")
    /\ UNCHANGED <<pd, status, child, panicked>>

-----------------------------------------------------------------------------
(***************************************************************************)
(* fork: the constructor of the child's AddressSpace, and its pages.       *)
(***************************************************************************)

Fork(p, c) ==
    /\ At(p, "idle") /\ status[c] = "none"
    /\ status' = [status EXCEPT ![c] = "forming"]
    /\ child' = [child EXCEPT ![p] = c]
    /\ Goto(p, "directory")
    /\ UNCHANGED <<frames, pd, pt, page, content, at, hand, panicked>>

NewDirectory(p) ==
    /\ At(p, "directory")
    /\ Alloc
    /\ pd' = [pd EXCEPT ![child[p]] = Top]
    /\ content' = [content EXCEPT ![Top] = Zero]
    /\ Goto(p, "identity")
    /\ UNCHANGED <<pt, page, status, at, hand, child, panicked>>

NewIdentity(p) ==
    /\ At(p, "identity")
    /\ Alloc
    /\ pt' = [pt EXCEPT ![child[p]][0] = Top]
    /\ content' = [content EXCEPT ![Top] = Zero]
    /\ at' = [at EXCEPT ![p] = 0]
    /\ Goto(p, "fork")
    /\ UNCHANGED <<pd, page, status, hand, child, panicked>>

\* AddressSpace::fork, one page: a frame, if the parent has the page.
ForkAlloc(p) ==
    /\ At(p, "fork") /\ at[p] \in Pages
    /\ IF page[p][at[p]] = 0
       THEN at' = [at EXCEPT ![p] = @ + 1] /\ UNCHANGED <<frames, hand, pc>>
       ELSE /\ Alloc
            /\ hand' = [hand EXCEPT ![p] = Top]
            /\ Goto(p, "copy")
            /\ UNCHANGED at
    /\ UNCHANGED <<pd, pt, page, content, status, child, panicked>>

\* The page is copied, and mapped for the child.
ForkCopy(p) ==
    /\ At(p, "copy")
    /\ Mapped(child[p], at[p], hand[p])
    /\ content' = Cleared([content EXCEPT ![hand[p]] = content[page[p][at[p]]]], child[p], at[p])
    /\ hand' = [hand EXCEPT ![p] = 0]
    /\ at' = [at EXCEPT ![p] = @ + 1]
    /\ Goto(p, "fork")
    /\ UNCHANGED <<pd, status, child, panicked>>

Forked(p) ==
    /\ At(p, "fork") /\ at[p] \notin Pages
    /\ status' = [status EXCEPT ![child[p]] = "live"]
    /\ child' = [child EXCEPT ![p] = p]
    /\ at' = [at EXCEPT ![p] = 0]
    /\ Goto(p, "idle")
    /\ UNCHANGED <<frames, pd, pt, page, content, hand, panicked>>

-----------------------------------------------------------------------------
(***************************************************************************)
(* execv, exit, and the destructor that the reaper calls.                  *)
(***************************************************************************)

Present(p) == {va \in Pages : page[p][va] # 0}
\* A page leaves the address space, and its frame is free.
FreePage(p, va) ==
    /\ page' = [page EXCEPT ![p][va] = 0]
    /\ Free(page[p][va])
    /\ content' = [content EXCEPT ![page[p][va]] = Link]

Exec(p) == /\ At(p, "idle")
           /\ Goto(p, "exec")
           /\ UNCHANGED <<frames, pd, pt, page, content, status, at, hand, child, panicked>>

\* AddressSpace::exec keeps the page tables.
ExecPage(p) ==
    /\ At(p, "exec")
    /\ IF Present(p) = {}
       THEN Goto(p, "idle") /\ UNCHANGED <<frames, page, content>>
       ELSE FreePage(p, Min(Present(p))) /\ UNCHANGED pc
    /\ UNCHANGED <<pd, pt, status, at, hand, child, panicked>>

Exit(p) ==
    /\ At(p, "idle")
    /\ status' = [status EXCEPT ![p] = "dead"]
    /\ UNCHANGED <<frames, pd, pt, page, content, pc, at, hand, child, panicked>>

\* Mutant: the destructor forgets the page tables.
DestroyDirectoryOnly(p) ==
    /\ status[p] = "dead" /\ ~panicked /\ Present(p) = {}
    /\ Free(pd[p])
    /\ pd' = [pd EXCEPT ![p] = 0]
    /\ pt' = [pt EXCEPT ![p] = NoTables]
    /\ content' = [content EXCEPT ![pd[p]] = Link]
    /\ status' = [status EXCEPT ![p] = "none"]
    /\ UNCHANGED <<page, pc, at, hand, child, panicked>>

\* ~AddressSpace: the pages of a table, the table, and the directory at last.
\* The entries that it reads and leaves in a table it frees are not kept.
Built(p) == {t \in Table : pt[p][t] # 0}
DestroyPage(p) ==
    LET here == {va \in Present(p) : TableOf(va) = Min(Built(p))}
    IN  /\ status[p] = "dead" /\ ~panicked /\ Built(p) # {} /\ here # {}
        /\ FreePage(p, Min(here))
        /\ UNCHANGED <<pd, pt, status, pc, at, hand, child, panicked>>
DestroyTable(p) ==
    LET t == Min(Built(p))
    IN  /\ status[p] = "dead" /\ ~panicked /\ Built(p) # {}
        /\ \A va \in Present(p) : TableOf(va) # t
        /\ Free(pt[p][t])
        /\ content' = [content EXCEPT ![pt[p][t]] = Link]
        /\ pt' = [pt EXCEPT ![p][t] = 0]
        /\ UNCHANGED <<pd, page, status, pc, at, hand, child, panicked>>
DestroyDirectory(p) ==
    /\ status[p] = "dead" /\ ~panicked /\ Built(p) = {}
    /\ Free(pd[p])
    /\ pd' = [pd EXCEPT ![p] = 0]
    /\ content' = [content EXCEPT ![pd[p]] = Link]
    /\ status' = [status EXCEPT ![p] = "none"]
    /\ UNCHANGED <<pt, page, pc, at, hand, child, panicked>>

Next == \E p \in Proc :
    \/ \E va \in Pages : PageFault(p, va) \/ \E v \in Value : Write(p, va, v)
    \/ FaultAlloc(p) \/ FaultMap(p)
    \/ \E c \in Proc : Fork(p, c)
    \/ NewDirectory(p) \/ NewIdentity(p) \/ ForkAlloc(p) \/ ForkCopy(p) \/ Forked(p)
    \/ Exec(p) \/ ExecPage(p)
    \/ Exit(p) \/ DestroyPage(p) \/ DestroyTable(p) \/ DestroyDirectory(p)
    \/ OutOfFrames(p)

Spec == Init /\ [][Next]_vars

-----------------------------------------------------------------------------

TypeOK ==
    /\ firstFree \in Seq(Frame) /\ avail \in 1 .. Frames + 1
    /\ pd \in [Proc -> 0 .. Frames]
    /\ pt \in [Proc -> [Table -> 0 .. Frames]]
    /\ page \in [Proc -> [Pages -> 0 .. Frames]]
    /\ content \in [Frame -> Value \cup {Zero, Link}]
    /\ status \in [Proc -> {"none", "forming", "live", "dead"}]
    /\ pc \in [Proc -> {"idle", "fault", "map", "directory", "identity", "fork", "copy", "exec"}]
    /\ at \in [Proc -> 0 .. Tables * PerTable]
    /\ hand \in [Proc -> 0 .. Frames]
    /\ child \in [Proc -> Proc]
    /\ panicked \in BOOLEAN

\* The places that a frame can be in: the free list, a directory, a table, a
\* page, or the hands of a process that has not mapped it yet.
InList(f) == IF f \in Range(firstFree) THEN 1 ELSE 0
InDirectories(f) == Cardinality({p \in Proc : pd[p] = f})
InTables(f) == Cardinality({e \in Proc \X Table : pt[e[1]][e[2]] = f})
InPages(f) == Cardinality({e \in Proc \X Pages : page[e[1]][e[2]] = f})
InHands(f) == Cardinality({p \in Proc : hand[p] = f})
Uses(f) == InList(f) + InDirectories(f) + InTables(f) + InPages(f) + InHands(f)

\* Every frame that was ever used is in one place: never in two address spaces
\* or free and in use, and never lost, over forks, exec, exits and faults of
\* several processes.
FramesOnce ==
    /\ TypeOK
    /\ IsInjective(firstFree)
    /\ \A f \in Frame : Uses(f) = (IF f < avail THEN 1 ELSE 0)

\* What one process writes no other one sees, but a child what its parent had
\* written; a page is zero when it is first seen.
Private == INSTANCE PrivateMemory
    WITH Page <- Pages,
         alive <- {p \in Proc : status[p] = "live"},
         mem <- [p \in Proc |-> [va \in Pages |->
                   IF status[p] = "live" /\ page[p][va] # 0 THEN content[page[p][va]] ELSE Zero]]
ImplementsPrivateMemory == Private!MemorySpec
=============================================================================
