----------------------------- MODULE Resources ------------------------------
(***************************************************************************)
(* Who keeps an object of the kernel alive: the resource tables of the     *)
(* processes (table.cc), the reference counts (resource.h), the open files *)
(* (fs.cc), fork, execv, exit and the reaper (process.cc, syscall.cc).     *)
(*                                                                         *)
(* A table belongs to one process, and only that process calls its open,   *)
(* close, closeAll and forkMe, so that its mutex is never waited for.      *)
(* Counts and open files are shared: a process may be switched out between *)
(* any two uses of them.                                                   *)
(***************************************************************************)
EXTENDS Integers, FiniteSets

CONSTANTS Proc, Boot,    \* the processes, and the one that exists at first
          Starts,        \* the files of the disk, by their first block
          Obj,           \* the addresses of OpenFiles and Semaphores
          Slots,         \* n, the slots of a table
          MaxLost        \* bound on the references that are lost

ASSUME ResourcesAssumption == /\ Boot \in Proc /\ IsFiniteSet(Proc)
                              /\ Slots \in Nat \ {0}
                              /\ MaxLost \in Nat
\* No address is null or that of two objects, and no file begins in block 0.
ASSUME AddressAssumption == /\ 0 \notin Obj \cup Proc /\ Obj \cap Proc = {}
                            /\ Starts \subseteq Nat \ {0}

None == [kind |-> "NONE"]
FileOf(o) == [kind |-> "FILE", obj |-> o]
SemaphoreOf(o) == [kind |-> "SEMAPHORE", obj |-> o]
ProcessOf(q) == [kind |-> "PROCESS", obj |-> q]
Null == 0

VARIABLES table,      \* Table::array of each process
          status,     \* of each process
          count,      \* Resource::count of objects and processes
          start,      \* OpenFile::start; 0 of a semaphore, -1 of a free address
          openFiles,  \* Fat439::openFiles
          mutex,      \* who holds openFilesMutex
          pc,         \* the call in which a process is
          arg,        \* the file or the child of that call
          at,         \* its index in the table
          ptr,        \* its OpenFile
          lost        \* pointers to an object that nobody has any more

vars == <<table, status, count, start, openFiles, mutex, pc, arg, at, ptr, lost>>
Slot == 0 .. Slots - 1

FreeObj == {o \in Obj : start[o] = -1}
NewObj == CHOOSE o \in FreeObj : TRUE

\* A process that is ready to make a system call.
Idle(p) == status[p] = "live" /\ pc[p] = "idle"
Goto(p, place) == pc' = [pc EXCEPT ![p] = place]

Used(p) == {i \in Slot : table[p][i] # None}
FreeSlots(p) == {i \in Slot : i > 0 /\ table[p][i] = None}
Least(S) == CHOOSE i \in S : \A j \in S : i <= j
TableWith(p, i, r) == [table EXCEPT ![p][i] = r]

\* Resource::ref and Resource::unref of x: the object is deleted when the
\* count it had was 1.
Ref(c, x) == [c EXCEPT ![x] = @ + 1]
Unref(c, x) == [c EXCEPT ![x] = @ - 1]
Deleted(o) == IF count[o] = 1 THEN [start EXCEPT ![o] = -1] ELSE start

Init ==
    /\ table = [p \in Proc |-> [i \in Slot |-> None]]
    /\ status = [p \in Proc |-> IF p = Boot THEN "live" ELSE "unborn"]
    /\ count = [x \in Obj \cup Proc |-> IF x = Boot THEN 1 ELSE 0]
    /\ start = [o \in Obj |-> -1]
    /\ openFiles = [s \in Starts |-> Null]
    /\ mutex = Null
    /\ pc = [p \in Proc |-> "idle"]
    /\ arg = [p \in Proc |-> Null]
    /\ at = [p \in Proc |-> 0]
    /\ ptr = [p \in Proc |-> Null]
    /\ lost = [o \in Obj |-> 0]

-----------------------------------------------------------------------------
(***************************************************************************)
(* open() and execv(): Fat439::openFile, then a File in the table, or a    *)
(* File that execv forgets when the program starts.                        *)
(***************************************************************************)

\* Mutant: nobody locks openFilesMutex.
OpenUnlocked(p, s) ==
    /\ \/ Idle(p) /\ (Goto(p, "open") \/ Goto(p, "exec"))
       \/ pc[p] = "retry" /\ Goto(p, "exec")
    /\ arg' = [arg EXCEPT ![p] = s]
    /\ ptr' = [ptr EXCEPT ![p] = openFiles[s]]
    /\ UNCHANGED <<table, status, count, start, openFiles, mutex, at, lost>>

\* openFile: the lock, and the file if it is open.
Open(p, s) ==
    /\ mutex = Null
    /\ \/ Idle(p) /\ (Goto(p, "open") \/ Goto(p, "exec"))
       \/ pc[p] = "retry" /\ Goto(p, "exec")
    /\ mutex' = p
    /\ arg' = [arg EXCEPT ![p] = s]
    /\ ptr' = [ptr EXCEPT ![p] = openFiles[s]]
    /\ UNCHANGED <<table, status, count, start, openFiles, at, lost>>

\* Mutant: only the first one counts.
OpenFileOnce(p) ==
    /\ pc[p] \in {"open", "exec"}
    /\ IF ptr[p] = Null
       THEN /\ FreeObj # {}
            /\ ptr' = [ptr EXCEPT ![p] = NewObj]
            /\ start' = [start EXCEPT ![NewObj] = arg[p]]
            /\ openFiles' = [openFiles EXCEPT ![arg[p]] = NewObj]
            /\ count' = [count EXCEPT ![NewObj] = 1]
       ELSE UNCHANGED <<count, ptr, start, openFiles>>
    /\ mutex' = Null
    /\ Goto(p, IF pc[p] = "open" THEN "install" ELSE "clear")
    /\ UNCHANGED <<table, status, arg, at, lost>>

\* openFile: a file that was not open is read from the disk, which yields.
OpenFile(p) ==
    /\ pc[p] \in {"open", "exec"}
    /\ IF ptr[p] = Null
       THEN /\ FreeObj # {}
            /\ ptr' = [ptr EXCEPT ![p] = NewObj]
            /\ start' = [start EXCEPT ![NewObj] = arg[p]]
            /\ openFiles' = [openFiles EXCEPT ![arg[p]] = NewObj]
            /\ count' = [count EXCEPT ![NewObj] = 1]
       ELSE count' = Ref(count, ptr[p]) /\ UNCHANGED <<ptr, start, openFiles>>
    /\ mutex' = Null
    /\ Goto(p, IF pc[p] = "open" THEN "install" ELSE "clear")
    /\ UNCHANGED <<table, status, arg, at, lost>>

Lose(o) == lost[o] < MaxLost /\ lost' = [lost EXCEPT ![o] = @ + 1]
Return(p) == /\ Goto(p, "idle")
             /\ arg' = [arg EXCEPT ![p] = Null]
             /\ ptr' = [ptr EXCEPT ![p] = Null]

\* Table::open of the new File; when no slot is free the File is lost.
Install(p) ==
    /\ pc[p] = "install"
    /\ IF FreeSlots(p) = {}
       THEN Lose(ptr[p]) /\ UNCHANGED table
       ELSE table' = TableWith(p, Least(FreeSlots(p)), FileOf(ptr[p])) /\ UNCHANGED lost
    /\ Return(p)
    /\ UNCHANGED <<status, count, start, openFiles, mutex, at>>

\* execv switches to the new program and never closes its file.
Exec(p) ==
    /\ pc[p] = "clear" /\ Used(p) = {}
    /\ Lose(ptr[p])
    /\ Return(p)
    /\ UNCHANGED <<table, status, count, start, openFiles, mutex, at>>

\* The file is not a program: execv deletes its File and runs "cat" on it.
NotElf(p) ==
    LET o == ptr[p]
    IN  /\ pc[p] = "clear" /\ Used(p) = {} /\ mutex = Null
        /\ count' = Unref(count, o)
        /\ start' = Deleted(o)
        /\ openFiles' = [openFiles EXCEPT ![start[o]] = IF count[o] = 1 THEN Null ELSE o]
        /\ Goto(p, "retry")
        /\ ptr' = [ptr EXCEPT ![p] = Null]
        /\ UNCHANGED <<table, status, mutex, arg, at, lost>>

\* The semaphore system call; without a slot the new one is lost.
NewSemaphore(p) ==
    /\ Idle(p) /\ FreeObj # {}
    /\ start' = [start EXCEPT ![NewObj] = 0]
    /\ IF FreeSlots(p) = {}
       THEN Lose(NewObj) /\ UNCHANGED <<table, count>>
       ELSE /\ table' = TableWith(p, Least(FreeSlots(p)), SemaphoreOf(NewObj))
            /\ count' = Ref(count, NewObj)
            /\ UNCHANGED lost
    /\ UNCHANGED <<status, openFiles, mutex, pc, arg, at, ptr>>

-----------------------------------------------------------------------------
(***************************************************************************)
(* close(), and closeAll() in execv and exit.                              *)
(***************************************************************************)

\* A process may close one slot, or the next one of all.
MayClose(p, n) == \/ Idle(p) /\ n \in Used(p)
                  \/ /\ pc[p] \in {"clear", "exit"}
                     /\ n \in Used(p) /\ n = Least(Used(p))

\* The slot of a semaphore or of a process becomes free.  A semaphore whose
\* count was 1 is deleted; so is a process, of which nothing more is seen.
Release(p, n) ==
    LET o == table[p][n].obj
    IN  /\ count' = Unref(count, o)
        /\ start' = IF table[p][n] = SemaphoreOf(o) THEN Deleted(o) ELSE start
        /\ table' = TableWith(p, n, None)

CloseShared(p, n) ==
    /\ MayClose(p, n)
    /\ table[p][n].kind \in {"SEMAPHORE", "PROCESS"}
    /\ Release(p, n)
    /\ UNCHANGED <<status, openFiles, mutex, pc, arg, at, ptr, lost>>

\* The File in the slot is deleted, and its destructor calls closeFile.
CloseFile(p, n) ==
    /\ MayClose(p, n)
    /\ table[p][n].kind = "FILE"
    /\ mutex = Null
    /\ mutex' = p
    /\ at' = [at EXCEPT ![p] = n]
    /\ Goto(p, CASE pc[p] = "idle" -> "close" [] pc[p] = "clear" -> "clearClose"
                 [] pc[p] = "exit" -> "exitClose")
    /\ UNCHANGED <<table, status, count, start, openFiles, arg, ptr, lost>>

\* closeFile unrefs the open file and forgets it when it is deleted.
FileClosed(p) ==
    LET o == table[p][at[p]].obj
    IN  /\ pc[p] \in {"close", "clearClose", "exitClose"}
        /\ count' = Unref(count, o)
        /\ start' = Deleted(o)
        /\ openFiles' = [openFiles EXCEPT ![start[o]] = IF count[o] = 1 THEN Null ELSE o]
        /\ table' = TableWith(p, at[p], None)
        /\ mutex' = Null
        /\ Goto(p, CASE pc[p] = "close" -> "idle" [] pc[p] = "clearClose" -> "clear"
                     [] pc[p] = "exitClose" -> "exit")
        /\ at' = [at EXCEPT ![p] = 0]
        /\ UNCHANGED <<status, arg, ptr, lost>>

-----------------------------------------------------------------------------
(***************************************************************************)
(* Processes.                                                              *)
(***************************************************************************)

Fork(p, c) ==
    /\ Idle(p) /\ status[c] = "unborn"
    /\ status' = [status EXCEPT ![c] = "forming"]
    /\ Goto(p, "fork")
    /\ arg' = [arg EXCEPT ![p] = c]
    /\ UNCHANGED <<table, count, start, openFiles, mutex, at, ptr, lost>>

\* forkMe of what is in a slot: a process gives nothing to the child.
Inherited(r) == IF r.kind = "PROCESS" THEN None ELSE r

\* Mutant: the clone of a File does not count for its OpenFile.
ForkSlotBare(p) ==
    LET r == Inherited(table[p][at[p]])
    IN  /\ pc[p] = "fork" /\ at[p] < Slots
        /\ table' = TableWith(arg[p], at[p], r)
        /\ count' = IF r.kind = "SEMAPHORE" THEN Ref(count, r.obj) ELSE count
        /\ at' = [at EXCEPT ![p] = @ + 1]
        /\ UNCHANGED <<status, start, openFiles, mutex, pc, arg, ptr, lost>>

\* Table::forkMe, one slot: a File is cloned and refs its OpenFile, without
\* openFilesMutex; a semaphore is shared.
ForkSlot(p) ==
    LET r == Inherited(table[p][at[p]])
    IN  /\ pc[p] = "fork" /\ at[p] < Slots
        /\ table' = TableWith(arg[p], at[p], r)
        /\ count' = IF r = None THEN count ELSE Ref(count, r.obj)
        /\ at' = [at EXCEPT ![p] = @ + 1]
        /\ UNCHANGED <<status, start, openFiles, mutex, pc, arg, ptr, lost>>

\* Mutant: the child does not count for itself.
ForkedUncounted(p) ==
    LET c == arg[p]
    IN  /\ pc[p] = "fork" /\ at[p] = Slots /\ FreeSlots(p) # {}
        /\ count' = [count EXCEPT ![c] = 1]
        /\ table' = TableWith(p, Least(FreeSlots(p)), ProcessOf(c))
        /\ status' = [status EXCEPT ![c] = "live"]
        /\ at' = [at EXCEPT ![p] = 0]
        /\ Return(p)
        /\ UNCHANGED <<start, openFiles, mutex, lost>>

\* The child begins with a count of 1 and goes into the parent's table; it is
\* started even when that is full.
Forked(p) ==
    LET c == arg[p]
    IN  /\ pc[p] = "fork" /\ at[p] = Slots
        /\ IF FreeSlots(p) = {}
           THEN count' = [count EXCEPT ![c] = 1] /\ UNCHANGED table
           ELSE /\ count' = [count EXCEPT ![c] = 2]
                /\ table' = TableWith(p, Least(FreeSlots(p)), ProcessOf(c))
        /\ status' = [status EXCEPT ![c] = "live"]
        /\ at' = [at EXCEPT ![p] = 0]
        /\ Return(p)
        /\ UNCHANGED <<start, openFiles, mutex, lost>>

\* join: the process waits for its child and then closes the slot.
Join(p, n) ==
    /\ Idle(p) /\ table[p][n].kind = "PROCESS"
    /\ Goto(p, "join")
    /\ at' = [at EXCEPT ![p] = n]
    /\ UNCHANGED <<table, status, count, start, openFiles, mutex, arg, ptr, lost>>
Joined(p) ==
    /\ pc[p] = "join"
    /\ status[table[p][at[p]].obj] \in {"done", "dead", "reaped"}
    /\ Release(p, at[p])
    /\ at' = [at EXCEPT ![p] = 0]
    /\ Goto(p, "idle")
    /\ UNCHANGED <<status, openFiles, mutex, arg, ptr, lost>>

Exit(p) ==
    /\ Idle(p)
    /\ Goto(p, "exit")
    /\ UNCHANGED <<table, status, count, start, openFiles, mutex, arg, at, ptr, lost>>

\* exit: doneEvent.signal(), and then the reaper's queue.
ExitSignal(p) ==
    /\ pc[p] = "exit" /\ Used(p) = {} /\ status[p] = "live"
    /\ status' = [status EXCEPT ![p] = "done"]
    /\ UNCHANGED <<table, count, start, openFiles, mutex, pc, arg, at, ptr, lost>>
Terminate(p) ==
    /\ status[p] = "done"
    /\ status' = [status EXCEPT ![p] = "dead"]
    /\ Goto(p, "idle")
    /\ UNCHANGED <<table, count, start, openFiles, mutex, arg, at, ptr, lost>>

\* checkReaper of whoever runs.
Reap(p) ==
    /\ status[p] = "dead"
    /\ status' = [status EXCEPT ![p] = "reaped"]
    /\ count' = Unref(count, p)
    /\ UNCHANGED <<table, start, openFiles, mutex, pc, arg, at, ptr, lost>>

Next == \E p \in Proc :
    \/ \E s \in Starts : Open(p, s)
    \/ OpenFile(p) \/ Install(p) \/ Exec(p) \/ NotElf(p)
    \/ NewSemaphore(p)
    \/ \E n \in Slot : CloseShared(p, n) \/ CloseFile(p, n) \/ Join(p, n)
    \/ FileClosed(p)
    \/ \E c \in Proc : Fork(p, c)
    \/ ForkSlot(p) \/ Forked(p) \/ Joined(p)
    \/ Exit(p) \/ ExitSignal(p) \/ Terminate(p) \/ Reap(p)

Spec == Init /\ [][Next]_vars

-----------------------------------------------------------------------------

Entries == {None} \cup [kind : {"FILE", "SEMAPHORE"}, obj : Obj]
                  \cup [kind : {"PROCESS"}, obj : Proc]
TypeOK ==
    /\ table \in [Proc -> [Slot -> Entries]]
    /\ status \in [Proc -> {"unborn", "forming", "live", "done", "dead", "reaped"}]
    /\ count \in [Obj \cup Proc -> Nat]
    /\ start \in [Obj -> Starts \cup {0, -1}]
    /\ openFiles \in [Starts -> Obj \cup {Null}]
    /\ mutex \in Proc \cup {Null}
    /\ pc \in [Proc -> {"idle", "open", "exec", "retry", "install", "clear", "close", 
                        "clearClose", "exit", "exitClose", "fork", "join"}]
    /\ arg \in [Proc -> Starts \cup Proc \cup {Null}]
    /\ at \in [Proc -> 0 .. Slots]
    /\ ptr \in [Proc -> Obj \cup {Null}]
    /\ lost \in [Obj -> 0 .. MaxLost]

Places(r) == Cardinality({e \in Proc \X Slot : table[e[1]][e[2]] = r})
Opening(o) == Cardinality({p \in Proc : pc[p] \in {"install", "clear", "clearClose"} /\ ptr[p] = o})

\* A count is the number of pointers there are: in tables, in calls that have
\* not come to an end, or lost; whatever nobody points at is deleted, and a
\* process has one more until the reaper has seen it.
CountsExact ==
    /\ TypeOK
    /\ \A o \in Obj :
         /\ start[o] \in Starts =>
              count[o] = Places(FileOf(o)) + Opening(o) + lost[o] /\ count[o] > 0
         /\ start[o] = 0 => count[o] = Places(SemaphoreOf(o)) /\ count[o] + lost[o] > 0
         /\ start[o] = -1 => count[o] = 0
    /\ \A p \in Proc :
         count[p] = Places(ProcessOf(p))
                    + (IF status[p] \in {"live", "done", "dead"} THEN 1 ELSE 0)

\* No table points at an object that is deleted or is something else by now,
\* nor does a call between its steps.
NothingDangles ==
    /\ \A p \in Proc, n \in Slot : LET r == table[p][n] IN
         /\ r.kind = "FILE" => start[r.obj] \in Starts
         /\ r.kind = "SEMAPHORE" => start[r.obj] = 0
         /\ r.kind = "PROCESS" => status[r.obj] \notin {"unborn", "forming"} /\ count[r.obj] > 0
    /\ \A p \in Proc : ptr[p] # Null => start[ptr[p]] \in Starts

\* There is one OpenFile per file and system, and openFiles knows it.
OneOpenFile == \A s \in Starts, o \in Obj : openFiles[s] = o <=> start[o] = s

\* The object of a process, with its stack, outlives the process.
StackOutlives ==
    [][\A p \in Proc : (count[p] > 0 /\ count'[p] = 0) => status'[p] = "reaped"]_vars
=============================================================================
