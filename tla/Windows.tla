------------------------------ MODULE Windows -------------------------------
(***************************************************************************)
(* Screen buffers (src/kernel/screenbuffer.cc and .h, system calls 16 to   *)
(* 22 of syscall.cc), the window manager that owns the screen              *)
(* (src/user/DesktopWindowManager.cc) and the programs that draw           *)
(* (src/user/TestGame.cc, NetworkPixel.cc).                                *)
(*                                                                         *)
(* Each process has at most one screen buffer, which goes by its name, and *)
(* may be switched out between any two steps.  The mutexes of the buffers  *)
(* are the semaphores of module Semaphore, which Scheduler implements.  A  *)
(* picture is two cells, so that one may be copied when it is half drawn.  *)
(* "corrupted": the kernel touched freed memory, or the manager memory     *)
(* that is not its own.  What happens then is not defined and the          *)
(* behaviour ends.  What programs do to their own memory is not modelled.  *)
(***************************************************************************)
EXTENDS Integers, FiniteSets, SequencesExt

CONSTANTS Client,     \* the programs that ask for a window
          Manager,    \* the window manager
          Frame,      \* the pictures that a program draws
          Garbage,    \* what is in memory nobody wrote
          ScreenWidth, ScreenHeight,  \* of the screen, in pixels (320 and 200)
          Border,     \* defaultBorderWidth (3)
          FirstPosition, PositionStep,  \* of windows, in x and in y (30 and 15)
          Near        \* bound: the coordinates that keys move a window to

Process == Client \cup {Manager}
Nobody == "nobody"

ASSUME WindowsAssumption ==
    /\ IsFiniteSet(Client) /\ Manager \notin Client
    /\ Nobody \notin Process /\ Garbage \notin Frame
    /\ ScreenWidth \in Nat /\ ScreenHeight \in Nat /\ Border \in Nat
    /\ FirstPosition \in Nat /\ Border <= FirstPosition
    /\ PositionStep \in Nat /\ Near \subseteq Int

Cells == {1, 2}

VARIABLES globalBuffer,    \* whose buffer ScreenBuffer::globalBuffer is
          bufferRequests,  \* of each buffer, oldest first
          childBuffers,    \* of each buffer, latest first
          global,          \* the global buffer that GetScreenBuffer found
          deleted,         \* the processes whose buffer is deleted
          buffer,          \* the cells of a buffer
          count, waiting,  \* the mutexes of the buffers
          pc,              \* where a process is
          drawing,         \* the picture a program draws
          childWindows,    \* the manager's list of windows
          foreground,      \* DesktopWindowManager::foregroundWindow
          position,        \* xPosition and yPosition of a window
          defaultChild,    \* defaultChildX and defaultChildY, which are equal
          newProcessCount, \* what GetBufferRequestCount returned
          last,            \* the window that renderChildren is at
          copy,            \* the manager's copy of a window's cells, if any
          corrupted

lists   == <<globalBuffer, bufferRequests, childBuffers, global>>
locks   == <<count, waiting>>
places  == <<position, defaultChild>>
manager == <<childWindows, foreground, places, newProcessCount, last, copy>>
vars == <<lists, deleted, buffer, locks, pc, drawing, manager, corrupted>>

Mutexes == INSTANCE Semaphore
    WITH Proc <- Process, Sem <- Process, InitCount <- [p \in Process |-> 1]

\* The windows are in a list of the user's library, each named by its program.
List == INSTANCE LinkedList WITH Node <- Client, Null <- Nobody

Init ==
    /\ globalBuffer = Nobody
    /\ bufferRequests = [p \in Process |-> <<>>]
    /\ childBuffers = [p \in Process |-> <<>>]
    /\ global = [p \in Process |-> Nobody]
    /\ deleted = {}
    /\ buffer = [p \in Process |-> [c \in Cells |-> Garbage]]
    /\ Mutexes!SemInit
    /\ pc = [p \in Process |-> "start"]
    /\ drawing = [p \in Client |-> Garbage]
    /\ childWindows = List!EmptyList /\ foreground = Nobody
    /\ position = [c \in Client |-> <<FirstPosition, FirstPosition>>]
    /\ defaultChild = FirstPosition
    /\ newProcessCount = 0 /\ last = Nobody
    /\ copy = [c \in Cells |-> Garbage]
    /\ corrupted = FALSE

\* A process goes on at a place unless it waits for a mutex.
At(p, place) == pc[p] = place /\ ~Mutexes!Asleep(p) /\ ~corrupted
Goto(p, place) == pc' = [pc EXCEPT ![p] = place]

\* p, at a place, uses the buffer of b: freed memory when b has exited.
Dangling(p, place, b) ==
    /\ At(p, place) /\ b \in deleted
    /\ corrupted' = TRUE
    /\ UNCHANGED <<lists, deleted, buffer, locks, pc, drawing, manager>>

\* Lock() and Unlock() of the buffer of b, between two places of p.
Lock(p, from, b, to) ==
    /\ At(p, from)
    /\ corrupted' = (b \in deleted)
    /\ IF corrupted' THEN UNCHANGED <<locks, pc>> ELSE Mutexes!Down(p, b) /\ Goto(p, to)
    /\ UNCHANGED <<lists, deleted, buffer, drawing, manager>>
Unlock(p, from, b, to) ==
    /\ At(p, from)
    /\ corrupted' = (b \in deleted)
    /\ IF corrupted' THEN UNCHANGED <<locks, pc>> ELSE Mutexes!Up(b) /\ Goto(p, to)
    /\ UNCHANGED <<lists, deleted, buffer, drawing, manager>>

-----------------------------------------------------------------------------
(***************************************************************************)
(* GetScreenBuffer (system call 16), by the manager and by the programs.   *)
(***************************************************************************)

\* Does a process own the screen?
GetScreenBuffer(p) ==
    /\ At(p, "start")
    /\ global' = [global EXCEPT ![p] = globalBuffer]
    /\ Goto(p, IF globalBuffer = Nobody THEN "own" ELSE "lockGlobal")
    /\ UNCHANGED <<globalBuffer, bufferRequests, childBuffers, deleted, buffer,
                   locks, drawing, manager, corrupted>>

\* None did: p owns it from now on, even if another one does meanwhile.
OwnScreen(p) ==
    /\ At(p, "own")
    /\ globalBuffer' = p
    /\ Goto(p, "opened")
    /\ UNCHANGED <<bufferRequests, childBuffers, global, deleted, buffer, locks,
                   drawing, manager, corrupted>>

\* Mutant: the request is added without the lock.
LockForgotten(p) ==
    /\ At(p, "lockGlobal")
    /\ Goto(p, "request")
    /\ UNCHANGED <<lists, deleted, buffer, locks, drawing, manager, corrupted>>

LockGlobal(p) == Lock(p, "lockGlobal", global[p], "request")

\* The mutex of the global buffer protects its requests.
AddBufferRequest(p) ==
    \/ Dangling(p, "request", global[p])
    \/ /\ At(p, "request") /\ global[p] \notin deleted
       /\ bufferRequests' = [bufferRequests EXCEPT ![global[p]] = Append(@, p)]
       /\ Goto(p, "unlockGlobal")
       /\ UNCHANGED <<globalBuffer, childBuffers, global, deleted, buffer, locks,
                      drawing, manager, corrupted>>

\* Mutant: the requests stay locked.
UnlockForgotten(p) ==
    /\ At(p, "unlockGlobal")
    /\ Goto(p, "opened")
    /\ UNCHANGED <<lists, deleted, buffer, locks, drawing, manager, corrupted>>

UnlockGlobal(p) == Unlock(p, "unlockGlobal", global[p], "opened")

GetBuffer(p) == \/ GetScreenBuffer(p) \/ OwnScreen(p)
                \/ LockGlobal(p) \/ AddBufferRequest(p) \/ UnlockGlobal(p)

-----------------------------------------------------------------------------
(***************************************************************************)
(* The programs.                                                           *)
(***************************************************************************)

\* A program that cannot open its pictures ends, and one that draws may be killed
\* (for an access to memory it does not have): its table deletes its buffer.
Exit(c) ==
    /\ \E place \in {"opened", "loop"} : At(c, place)
    /\ deleted' = deleted \cup {c}
    /\ Goto(c, "gone")
    /\ UNCHANGED <<lists, buffer, locks, drawing, manager, corrupted>>

\* LockScreenBuffer, WriteScreenBuffer (a memcpy), UnlockScreenBuffer.
LockScreen(c) == Lock(c, "draw", c, "write 1")
Draw(c, frame) ==
    /\ \E place \in {"opened", "loop"} : At(c, place)
    /\ drawing' = [drawing EXCEPT ![c] = frame]
    /\ Goto(c, "draw")
    /\ UNCHANGED <<lists, deleted, buffer, locks, manager, corrupted>>
WriteScreen(c) ==
    \E cell \in Cells :
        /\ At(c, <<"write 1", "write 2">>[cell])
        /\ buffer' = [buffer EXCEPT ![c][cell] = drawing[c]]
        /\ Goto(c, <<"write 2", "unlock">>[cell])
        /\ UNCHANGED <<lists, deleted, locks, drawing, manager, corrupted>>
UnlockScreen(c) == Unlock(c, "unlock", c, "loop")

Program(c) == LockScreen(c) \/ WriteScreen(c) \/ UnlockScreen(c)

-----------------------------------------------------------------------------
(***************************************************************************)
(* DesktopWindowManager::Run.                                              *)
(***************************************************************************)

\* At the head of the loop the window in front becomes the foreground.
Run ==
    /\ \E place \in {"opened", "loop"} : At(Manager, place)
    /\ foreground' = IF foreground = Nobody THEN Nobody ELSE childWindows.first
    /\ Goto(Manager, "keys")
    /\ UNCHANGED <<lists, deleted, buffer, locks, drawing, childWindows,
                   places, newProcessCount, last, copy, corrupted>>

\* handleKeyInput for the key p: the window in front goes to the back.
MoveFrontToEnd ==
    /\ At(Manager, "keys") /\ foreground # Nobody
    /\ childWindows' = List!MoveFrontToEnd(childWindows)
    /\ UNCHANGED <<lists, deleted, buffer, locks, pc, drawing, foreground,
                   places, newProcessCount, last, copy, corrupted>>

\* handleKeyInput for the keys j, l, i and k: the foreground window moves by a
\* pixel to the left, to the right, up or down.  Nothing stops it at an edge.
MoveForeground ==
    /\ At(Manager, "keys") /\ foreground # Nobody
    /\ \E step \in {<<-1, 0>>, <<1, 0>>, <<0, -1>>, <<0, 1>>} :
        LET x == position[foreground][1] + step[1]
            y == position[foreground][2] + step[2]
        IN  /\ x \in Near /\ y \in Near
            /\ position' = [position EXCEPT ![foreground] = <<x, y>>]
    /\ UNCHANGED <<lists, deleted, buffer, locks, pc, drawing, childWindows, foreground,
                   defaultChild, newProcessCount, last, copy, corrupted>>

LockManager == Lock(Manager, "keys", Manager, "count")

\* GetBufferRequestCount, for the owner of the screen only.
GetBufferRequestCount ==
    \/ Dangling(Manager, "count", globalBuffer)
    \/ /\ At(Manager, "count") /\ globalBuffer \notin deleted
       /\ newProcessCount' = IF globalBuffer = Manager THEN Len(bufferRequests[Manager]) ELSE 0
       /\ Goto(Manager, IF newProcessCount' > 0 THEN "acquire" ELSE "renderAll")
       /\ UNCHANGED <<lists, deleted, buffer, locks, drawing, childWindows,
                      foreground, places, last, copy, corrupted>>

\* Request number a is written three by three: at nine times a.
Beyond(a) == 9 * a + 2 >= 3 * newProcessCount

\* The windows of new programs are placed one after the other down the diagonal.
Diagonal(requests, c) ==
    LET a == CHOOSE k \in DOMAIN requests : requests[k] = c
    IN  defaultChild + PositionStep * (a - 1)
InNewPlaces(requests) ==
    [c \in Client |-> IF c \in ToSet(requests)
                      THEN <<Diagonal(requests, c), Diagonal(requests, c)>>
                      ELSE position[c]]

\* Mutant: GetNextChildBuffer forgets to push the buffer.
AcquireForgotten ==
    /\ At(Manager, "acquire") /\ globalBuffer = Manager
    /\ LET requests == bufferRequests[Manager]
       IN  /\ \A a \in DOMAIN requests : ~Beyond(a - 1) /\ requests[a] \notin deleted
           /\ bufferRequests' = [bufferRequests EXCEPT ![Manager] = <<>>]
           /\ childWindows' = FoldLeft(List!Push, childWindows, requests)
           /\ foreground' = Last(requests)
    /\ Goto(Manager, "renderAll")
    /\ UNCHANGED <<globalBuffer, childBuffers, global, deleted, buffer, locks, drawing,
                   places, newProcessCount, last, copy, corrupted>>

\* GetNewWindowRequests and GetNextChildBuffer, and a window for each request.
\* The array is not written when somebody else owns the screen by now, and
\* written beyond its end when there are two requests.
AcquireNewChildProcesses ==
    /\ At(Manager, "acquire")
    /\ LET requests == bufferRequests[Manager]
       IN  IF \/ globalBuffer # Manager
              \/ \E a \in DOMAIN requests : Beyond(a - 1) \/ requests[a] \in deleted
           THEN /\ corrupted' = TRUE
                /\ UNCHANGED <<lists, pc, childWindows, foreground, places, newProcessCount>>
           ELSE /\ bufferRequests' = [bufferRequests EXCEPT ![Manager] = <<>>]
                /\ childBuffers' = [childBuffers EXCEPT ![Manager] = Reverse(requests) \o @]
                /\ childWindows' = FoldLeft(List!Push, childWindows, requests)
                /\ foreground' = Last(requests)
                /\ position' = InNewPlaces(requests)
                /\ defaultChild' = defaultChild + PositionStep * Len(requests)
                /\ newProcessCount' = 0
                /\ Goto(Manager, "renderAll")
                /\ UNCHANGED <<globalBuffer, global, corrupted>>
    /\ UNCHANGED <<deleted, buffer, locks, drawing, last, copy>>

\* renderChildren: from the last window to the one in front.
RenderChildren ==
    /\ At(Manager, "renderAll")
    /\ last' = childWindows.last
    /\ Goto(Manager, "render")
    /\ UNCHANGED <<lists, deleted, buffer, locks, drawing, childWindows,
                   foreground, places, newProcessCount, copy, corrupted>>

\* renderWindowBorder and the copying of pixels go to the width of the screen and
\* to its height, but not to zero: the lowest pixel of a window is the corner of
\* its border, and it is written before the buffer when its place is negative.
Outside(w) ==
    LET x == position[w][1] - Border
        y == position[w][2] - Border
    IN  x < ScreenWidth /\ y < ScreenHeight /\ x + ScreenWidth * y < 0

\* renderWindowBorder, and GetChildBuffer, which looks for the buffer of the window:
\* it reads the owners of those before it, and past the last one when it is not
\* there.  It returns -1 when somebody else owns the screen, which nobody looks at:
\* the new copy is shown as it was allocated.
GetChildBuffer ==
    LET list == childBuffers[Manager]
        Before(k) == \A j \in 1 .. k - 1 : list[j] # last
        place == IF globalBuffer # Manager THEN "unfilled"
                 ELSE IF last \in ToSet(list) THEN "lockChild" ELSE "killed"
    IN  /\ At(Manager, "render") /\ last # Nobody
        /\ copy' = [c \in Cells |-> Garbage]
        /\ corrupted' =
              \/ Outside(last) \/ globalBuffer \in deleted
              \/ /\ globalBuffer = Manager
                 /\ \E k \in DOMAIN list : Before(k) /\ list[k] \in deleted
        /\ Goto(Manager, place)
        /\ UNCHANGED <<lists, deleted, buffer, locks, drawing, childWindows,
                       foreground, places, newProcessCount, last>>

\* Mutant: the window is copied without its lock.
CopyUnlocked ==
    /\ last # Nobody /\ At(Manager, "lockChild")
    /\ Goto(Manager, "copy 1")
    /\ UNCHANGED <<lists, deleted, buffer, locks, drawing, manager, corrupted>>

LockChild == last # Nobody /\ Lock(Manager, "lockChild", last, "copy 1")

\* GetChildBuffer: the memcpy.
CopyChild ==
    LET child == last
    IN  \E cell \in Cells, place \in {"copy 1", "copy 2"} :
        /\ place = <<"copy 1", "copy 2">>[cell]
        /\ \/ Dangling(Manager, place, child)
           \/ /\ At(Manager, place) /\ child \notin deleted
              /\ copy' = [copy EXCEPT ![cell] = buffer[child][cell]]
              /\ Goto(Manager, <<"copy 2", "unlockChild">>[cell])
              /\ UNCHANGED <<lists, deleted, buffer, locks, drawing, childWindows,
                             foreground, places, newProcessCount, last, corrupted>>

UnlockChild == last # Nobody /\ Unlock(Manager, "unlockChild", last, "rendered")

\* What is in the copy is on the screen and the copy is deleted; on to the next.
Rendered ==
    /\ \E place \in {"rendered", "unfilled"} : At(Manager, place)
    /\ last' = childWindows.previous[last]
    /\ copy' = [c \in Cells |-> Garbage]
    /\ Goto(Manager, "render")
    /\ UNCHANGED <<lists, deleted, buffer, locks, drawing, childWindows,
                   foreground, places, newProcessCount, corrupted>>

\* sendBufferData writes to the manager's own buffer, and UnlockScreenBuffer.
UnlockManager == last = Nobody /\ Unlock(Manager, "render", Manager, "loop")

ManagerStep ==
    \/ Run \/ LockManager \/ GetBufferRequestCount \/ AcquireNewChildProcesses
    \/ RenderChildren \/ GetChildBuffer \/ LockChild \/ CopyChild \/ UnlockChild
    \/ Rendered \/ UnlockManager

-----------------------------------------------------------------------------

Next == \/ \E p \in Process : GetBuffer(p)
        \/ \E c \in Client :
             Exit(c) \/ Program(c) \/ \E frame \in Frame : Draw(c, frame)
        \/ ManagerStep \/ MoveFrontToEnd \/ MoveForeground

Spec == Init /\ [][Next]_vars

\* Processes are scheduled; a program may draw no more, or end.
FairSpec == /\ Spec
            /\ WF_vars(ManagerStep) /\ WF_vars(GetBuffer(Manager))
            /\ \A c \in Client : WF_vars(GetBuffer(c)) /\ WF_vars(Program(c))

-----------------------------------------------------------------------------

Places == {"start", "own", "lockGlobal", "request", "unlockGlobal", "opened", "gone",
           "draw", "write 1", "write 2", "unlock", "loop", "keys", "count", "acquire",
           "renderAll", "render", "lockChild", "copy 1", "copy 2", "unlockChild",
           "rendered", "unfilled", "killed"}

TypeOK ==
    /\ globalBuffer \in Process \cup {Nobody}
    /\ bufferRequests \in [Process -> Seq(Process)]
    /\ childBuffers \in [Process -> Seq(Client)]
    /\ global \in [Process -> Process \cup {Nobody}]
    /\ deleted \subseteq Client
    /\ buffer \in [Process -> [Cells -> Frame \cup {Garbage}]]
    /\ count \in [Process -> 0 .. 1] /\ waiting \in [Process -> Seq(Process)]
    /\ pc \in [Process -> Places]
    /\ drawing \in [Client -> Frame \cup {Garbage}]
    /\ childWindows \in List!ListType /\ foreground \in Client \cup {Nobody}
    /\ position \in [Client -> Int \X Int] /\ defaultChild \in Nat
    /\ newProcessCount \in Nat
    /\ last \in Client \cup {Nobody}
    /\ copy \in [Cells -> Frame \cup {Garbage}]
    /\ corrupted \in BOOLEAN

\* The manager's windows, in user space, and the kernel's list of the buffers
\* it has taken stay the same set through every interleaving; no program has
\* two windows or a window and a request, and so GetChildBuffer always finds
\* what the manager asks for (the search has no end, screenbuffer.cc:39).
WindowsMirror ==
    LET taken == childBuffers[Manager]
        shown == List!Backward(childWindows)
    IN  /\ TypeOK
        /\ IsInjective(shown) /\ IsInjective(taken)
        /\ ToSet(shown) = ToSet(taken)
        /\ IsInjective(bufferRequests[Manager])
        /\ ToSet(bufferRequests[Manager]) \cap ToSet(taken) = {}
        /\ pc[Manager] # "killed"

\* Of the memory of the kernel and of the manager, what is freed or not theirs is
\* touched for four reasons only: a program has ended whose window is still there,
\* two processes took the screen (GetScreenBuffer looks before it locks), two
\* requests came between two turns of the manager's loop, or the window that the
\* manager draws was moved by keys out of the screen at its top or left.  No order
\* of steps of manager, programs and system calls finds a fifth one.
CorruptionExplained ==
    corrupted => \/ deleted # {} \/ globalBuffer # Manager \/ newProcessCount > 1
                 \/ last # Nobody /\ Outside(last)

\* What the manager has copied of a window is a picture that its program drew (or
\* what was there before the first one), not one that is half drawn.
WholeFrames == pc[Manager] = "rendered" => copy[1] = copy[2]

\* A program that asked the manager for a window gets it: unless it ends first
\* or memory is corrupted, or somebody else has become the owner of the screen.
WindowAppears ==
    \A c \in Client :
        (c \in ToSet(bufferRequests[Manager]))
        ~> (\/ c \in ToSet(List!Backward(childWindows)) \/ c \in deleted
            \/ corrupted \/ globalBuffer # Manager)
=============================================================================
