-------------------------------- MODULE Keys ---------------------------------
(***************************************************************************)
(* The keys of a program: the window manager queues them (system call 26)  *)
(* while the program counts and takes them (27 and 28).  The queue is the  *)
(* SimpleQueue of src/kernel/queue.h; keyMutex of process.h is held while  *)
(* a key is added and while the keys are counted, but not while they are   *)
(* taken, and either process may be switched out between any two accesses  *)
(* to the queue.  The accesses are in the order of the source, as the      *)
(* build, which does not optimise, has them.                               *)
(***************************************************************************)
EXTENDS Integers, FiniteSets, Sequences, SequencesExt

CONSTANTS MaxKeys,             \* bound on the keys that are pressed
          Manager, Program     \* the two processes

ASSUME KeysAssumption == MaxKeys \in Nat /\ Manager # Program

\* A node is named by its key, a key by when it was pressed.
Node == 1 .. MaxKeys
Null == 0

VARIABLES
    first, last, size, next,   \* SimpleQueue and the links of its nodes
    access,                    \* which access of its call a process makes next
    manager,                   \* the manager's key and what it has loaded
    program,                   \* the program's node and what it has loaded, the
                               \* length of its buffer and how far it is filled
    permits, sleepers,         \* keyMutex
    freed, corrupted,          \* nodes given back; one of them was used again
    taken,                     \* the keys the program got, in order
    raced, miscounted          \* for the properties: see Overlap and Miscount

queue == <<first, last, size, next>>
mutex == <<permits, sleepers>>
heap == <<freed, corrupted>>
keyVars == <<queue, access, manager, program, mutex, heap, taken, raced, miscounted>>

KeyMutex == INSTANCE Semaphore
    WITH Proc <- {Manager, Program}, Sem <- {"keyMutex"},
         InitCount <- [s \in {"keyMutex"} |-> 1], count <- permits, waiting <- sleepers
Links == INSTANCE LinkedList

AtAccess(p, place) == access[p] = place /\ ~KeyMutex!Asleep(p) /\ ~corrupted
GotoAccess(p, place) == access' = [access EXCEPT ![p] = place]

\* Both are within the few accesses in which an addition and the removal of the
\* only node touch the same links, or both have loaded the size to change it.
Overlap == /\ access[Manager] \in {"load", "link", "tail", "head", "first"}
           /\ access[Program] \in {"advance", "check", "clear", "free"}
           /\ program.after = Null
Miscount == access[Manager] = "unlock" /\ access[Program] = "store"
Note == raced' = (raced \/ Overlap') /\ miscounted' = (miscounted \/ Miscount')

-----------------------------------------------------------------------------
\* The manager: queueKeyPress.

\* processList keeps a process that is gone: its mutex is memory given back.  (A
\* process that ended and is not yet deleted is one that does not poll.)
QueueKeyPress ==
    /\ AtAccess(Manager, "idle") /\ manager.key < MaxKeys
    /\ IF access[Program] = "gone"
       THEN corrupted' = TRUE /\ UNCHANGED <<access, manager, mutex>>
       ELSE /\ KeyMutex!Down(Manager, "keyMutex")
            /\ manager' = [manager EXCEPT !.key = @ + 1]
            /\ GotoAccess(Manager, "test")
            /\ UNCHANGED corrupted
    /\ UNCHANGED <<queue, program, freed, taken>>

\* addTail, one access after the other.
TestLast ==
    /\ AtAccess(Manager, "test")
    /\ GotoAccess(Manager, IF last = Null THEN "tail" ELSE "load")
    /\ UNCHANGED <<queue, manager, program, mutex, heap, taken>>
LoadLast ==
    /\ AtAccess(Manager, "load")
    /\ manager' = [manager EXCEPT !.loaded = last]
    /\ GotoAccess(Manager, "link")
    /\ UNCHANGED <<queue, program, mutex, heap, taken>>

\* last->next = n: if last is null by now the manager is killed for it and keeps
\* the mutex.
Link ==
    /\ AtAccess(Manager, "link")
    /\ corrupted' = (manager.loaded \in freed)
    /\ IF manager.loaded = Null
       THEN GotoAccess(Manager, "killed") /\ UNCHANGED next
       ELSE GotoAccess(Manager, "tail") /\ next' = [next EXCEPT ![manager.loaded] = manager.key]
    /\ UNCHANGED <<first, last, size, manager, program, mutex, freed, taken>>
StoreLast ==
    /\ AtAccess(Manager, "tail")
    /\ last' = manager.key
    /\ GotoAccess(Manager, "head")
    /\ UNCHANGED <<first, size, next, manager, program, mutex, heap, taken>>
TestFirst ==
    /\ AtAccess(Manager, "head")
    /\ GotoAccess(Manager, IF first = Null THEN "first" ELSE "count")
    /\ UNCHANGED <<queue, manager, program, mutex, heap, taken>>
StoreFirst ==
    /\ AtAccess(Manager, "first")
    /\ first' = manager.key
    /\ GotoAccess(Manager, "count")
    /\ UNCHANGED <<last, size, next, manager, program, mutex, heap, taken>>
LoadSize ==
    /\ AtAccess(Manager, "count")
    /\ manager' = [manager EXCEPT !.loaded = size]
    /\ GotoAccess(Manager, "unlock")
    /\ UNCHANGED <<queue, program, mutex, heap, taken>>
StoreSize ==
    /\ AtAccess(Manager, "unlock")
    /\ size' = manager.loaded + 1
    /\ KeyMutex!Up("keyMutex")
    /\ GotoAccess(Manager, "idle")
    /\ UNCHANGED <<first, last, next, manager, program, heap, taken>>

AddTail == TestLast \/ LoadLast \/ Link \/ StoreLast \/ TestFirst \/ StoreFirst
           \/ LoadSize \/ StoreSize

-----------------------------------------------------------------------------
\* The program: it may end while its window is there, or polls for keys.

Exit ==
    /\ AtAccess(Program, "start")
    /\ GotoAccess(Program, "gone")
    /\ UNCHANGED <<queue, manager, program, mutex, heap, taken>>

\* getKeyPressCount.
LockCount ==
    /\ AtAccess(Program, "start") \/ AtAccess(Program, "idle")
    /\ KeyMutex!Down(Program, "keyMutex")
    /\ GotoAccess(Program, "count")
    /\ UNCHANGED <<queue, manager, program, heap, taken>>
GetKeyPressCount ==
    /\ AtAccess(Program, "count")
    /\ program' = [program EXCEPT !.length = size, !.found = 0]
    /\ KeyMutex!Up("keyMutex")
    /\ GotoAccess(Program, IF size > 0 THEN "loop" ELSE "idle")
    /\ UNCHANGED <<queue, manager, heap, taken>>

\* Mutant: the loop stops before the last character of the buffer.
MoreButOne ==
    /\ AtAccess(Program, "loop")
    /\ GotoAccess(Program, IF program.found + 1 < program.length /\ first # Null THEN "pop" ELSE "idle")
    /\ UNCHANGED <<queue, manager, program, mutex, heap, taken>>

\* The loop of system call 28: isEmpty, and then removeHead.
More ==
    /\ AtAccess(Program, "loop")
    /\ GotoAccess(Program, IF program.found < program.length /\ first # Null THEN "pop" ELSE "idle")
    /\ UNCHANGED <<queue, manager, program, mutex, heap, taken>>
LoadFirst ==
    /\ AtAccess(Program, "pop")
    /\ program' = [program EXCEPT !.node = first]
    /\ GotoAccess(Program, "next")
    /\ UNCHANGED <<queue, manager, mutex, heap, taken>>
LoadNext ==
    /\ AtAccess(Program, "next")
    /\ program' = [program EXCEPT !.after = next[program.node]]
    /\ corrupted' = (program.node \in freed)
    /\ GotoAccess(Program, "advance")
    /\ UNCHANGED <<queue, manager, mutex, freed, taken>>
Advance ==
    /\ AtAccess(Program, "advance")
    /\ first' = program.after
    /\ GotoAccess(Program, "check")
    /\ UNCHANGED <<last, size, next, manager, program, mutex, heap, taken>>
\* first->prev = 0, unless there is none.
Check ==
    /\ AtAccess(Program, "check")
    /\ GotoAccess(Program, IF first = Null THEN "clear" ELSE "free")
    /\ corrupted' = (first \in freed)
    /\ UNCHANGED <<queue, manager, program, mutex, freed, taken>>
\* Mutant: removeHead leaves last where it was.
ClearNothing ==
    /\ AtAccess(Program, "clear")
    /\ GotoAccess(Program, "free")
    /\ UNCHANGED <<queue, manager, program, mutex, heap, taken>>
ClearLast ==
    /\ AtAccess(Program, "clear")
    /\ last' = Null
    /\ GotoAccess(Program, "free")
    /\ UNCHANGED <<first, size, next, manager, program, mutex, heap, taken>>
Delete ==
    /\ AtAccess(Program, "free")
    /\ taken' = Append(taken, program.node)
    /\ freed' = freed \cup {program.node}
    /\ GotoAccess(Program, "size")
    /\ UNCHANGED <<queue, manager, program, mutex, corrupted>>
LoadSizeAgain ==
    /\ AtAccess(Program, "size")
    /\ program' = [program EXCEPT !.after = size]
    /\ GotoAccess(Program, "store")
    /\ UNCHANGED <<queue, manager, mutex, heap, taken>>

\* The position moves by two for each key: every second character of the
\* program's buffer is never written, and the other half of the keys stays.
Decrement ==
    /\ AtAccess(Program, "store")
    /\ size' = program.after - 1
    /\ program' = [program EXCEPT !.found = @ + 2]
    /\ GotoAccess(Program, "loop")
    /\ UNCHANGED <<first, last, next, manager, mutex, heap, taken>>

Poll == LockCount \/ GetKeyPressCount \/ More \/ LoadFirst \/ LoadNext \/ Advance
        \/ Check \/ ClearLast \/ Delete \/ LoadSizeAgain \/ Decrement

KeysInit ==
    /\ first = Null /\ last = Null /\ size = 0 /\ next = [n \in Node |-> Null]
    /\ access = [p \in {Manager, Program} |-> IF p = Manager THEN "idle" ELSE "start"]
    /\ manager = [key |-> 0, loaded |-> 0]
    /\ program = [node |-> Null, after |-> 0, length |-> 0, found |-> 0]
    /\ KeyMutex!SemInit
    /\ freed = {} /\ corrupted = FALSE /\ taken = <<>>
    /\ raced = FALSE /\ miscounted = FALSE

KeysNext == (QueueKeyPress \/ AddTail \/ Exit \/ Poll) /\ Note

KeysSpec == KeysInit /\ [][KeysNext]_keyVars

\* Who is ready runs again; keys need not be pressed, and programs stay.
KeysFairSpec == KeysSpec /\ WF_keyVars(AddTail /\ Note) /\ WF_keyVars(Poll /\ Note)

-----------------------------------------------------------------------------

Places == {"idle", "test", "load", "link", "tail", "head", "first", "count", "unlock",
           "killed", "start", "gone", "loop", "pop", "next", "advance", "check", "clear",
           "free", "size", "store"}
KeysTypeOK ==
    /\ first \in Node \cup {Null} /\ last \in Node \cup {Null} /\ size \in Int
    /\ next \in [Node -> Node \cup {Null}]
    /\ access \in [{Manager, Program} -> Places]
    /\ manager \in [key : 0 .. MaxKeys, loaded : Int]
    /\ program \in [node : Node \cup {Null}, after : Int, length : Int, found : Nat]
    /\ KeyMutex!SemTypeOK
    /\ freed \subseteq Node /\ corrupted \in BOOLEAN /\ taken \in Seq(Node)
    /\ raced \in BOOLEAN /\ miscounted \in BOOLEAN

\* The nodes from the first one on.
Linked == Links!Walk(next, first)

Adding == access[Manager] \in {"test", "load", "link", "tail", "head", "first", "count", "unlock"}
Removing == access[Program] \in {"next", "advance", "check", "clear", "free", "size", "store"}

\* The program gets its keys in the order in which they were pressed and none
\* twice, whatever overlaps.  No key is lost, no node given back is used and
\* nobody dies unless the addition of a key overlapped the removal of the
\* only one in the queue (or the program is gone): an addition to a longer queue
\* and a removal do not disturb each other without the mutex.  The size is
\* right unless both changed it at once.
KeysExact ==
    /\ KeysTypeOK
    /\ \A j, k \in DOMAIN taken : j < k => taken[j] < taken[k]
    /\ corrupted \/ access[Manager] = "killed" => raced \/ access[Program] = "gone"
    /\ ~raced /\ ~Adding /\ ~Removing =>
        /\ taken \o Linked = [k \in 1 .. manager.key |-> k]
        /\ last = IF Linked = <<>> THEN Null ELSE Last(Linked)
        /\ ~miscounted => size = Len(Linked)

\* Though a call takes half of the keys it was told of, every key reaches the
\* program that polls, unless the queue was damaged; and the program polls on
\* unless the manager died with the mutex.
KeysArrive ==
    /\ \A k \in Node : manager.key = k
        ~> (k \in Range(taken) \/ raced \/ miscounted \/ access[Program] = "gone")
    /\ access[Program] = "count" ~> (access[Program] # "count" \/ access[Manager] = "killed" \/ corrupted)
=============================================================================
