# K439 in TLA+

K439 is a small teaching kernel for one 32-bit x86 CPU (`src/kernel`), with a
file system image builder (`src/fat439`) and user programs (`src/user`).  This
directory holds TLA+ models of it, the TLC configurations that check them on
small instances, and TLAPS proofs of what matters most.  Every definition is
read off the C++; `PROJECT.json` lists the lines each one stands for.

## 1. The system

| Component | State | Operations | Interacts with | Hard because |
|---|---|---|---|---|
| Scheduler (`process.cc`, `idle.cc`, `machine.S`) | ready queue, reaper queue, current process, per process: state, `disableCount`, `iDepth`, `isKilled`, saved context | `start`, `yield`, `yield(q)`, `dispatch`, `exit`, `kill`, `checkReaper`, `enable`/`disable`, `startIrq`/`endIrq`, `sleepUntil`, `tick` | everything | preemption at any point where interrupts are on; a process resumes in the middle of a call; kills leave calls behind |
| Semaphores (`semaphore.cc/.h`) | count, queue of waiters | `down`, `up`; mutex, event | scheduler, everything that locks | hand-off between processes; a signal may come before its waiter |
| Interrupts (`pic.cc`, `pit.cc`) | interrupt flag, IRQ in service, jiffies | `pic_irq`, `pic_eoi`, `Pit::handler` | scheduler, keyboard, network | the timer handler yields before the acknowledgement; the keyboard's calls `down` |
| Keyboard and bounded buffer (`kbd.cc`, `bb.h`) | ring of 128, two semaphores, a mutex, `counts` | `put` in interrupt context, `get` in processes | semaphores, `syscall.cc` 25 to 28 | a producer that may not block, a count read without the lock |
| Heap (`heap.cc`, `user/heap.c`) | an array with boundary tags, a free list | `malloc`, `free` | everything | coalescing, stale tags |
| Resources and tables (`resource.h`, `table.cc`, `child.cc`) | reference counts, slots | `open`, `close`, `closeAll`, `forkMe`, `get` | processes, files, semaphores | counts shared over fork, two locks |
| Files (`fs.cc`, `block.cc`, `ide.cc`) | FAT, open files, offsets | `openFile`, `closeFile`, `read`, `readFully`, `lookup` | tables, processes | reads over block boundaries, shared open files |
| Memory (`vmm.cc`, `mmu.cc`) | free pages, page directories and tables | `alloc`, `free`, `pmap`, `fork`, `exec`, page fault | processes | ownership of pages over fork and exec |
| Clock (`pit.cc`, `process.cc`) | 32-bit jiffies | `seconds`, `milliseconds`, `sleepFor` | scheduler | 32-bit overflow |
| Network (`network.cc`, `NetworkProcess.cc`, `socket.cc`) | receive ring, packet queue, port table, ARP cache | interrupt handler, send, bind, receive | processes, interrupts | handler and process share the queues |
| Screen buffers and window manager (`screenbuffer.cc`, `syscall.cc` 16 to 22, `DesktopWindowManager.cc`) | requests and children of the global buffer, the manager's own list of windows | ask for a buffer, take requests, copy a child, draw | semaphores, programs that draw | two lists, in kernel and user space, guarded by the mutex of one buffer |
| Queues of keys (`process.h`, `queue.h`, system calls 26 to 28) | linked nodes and their number, a mutex | queue, count, take | window manager, programs, heap | one side takes no lock |
| Containers (`queue.h`, `user/libcc.h`) | linked nodes, a binary tree | `addTail`, `removeHead`, `Map`, `Push`, `MoveFrontToEnd` | everything | links that are left over; order of keys |
| System calls (`syscall.cc`) | none of their own | 0 to 36 | everything | arguments and results of the parts above |
| Permissions, login (`permission.cc`, `user/login.cc`) | a table of users | lookup | shell | file format |
| Network game (`user/TestServer.cc`, `user/TestGame.cc`) | the server's ball, paddles, list of clients and connections; the face each window shows | connect, steer, one turn of the loop; receive, press | network, keys, windows | packets are lost, and who plays is recorded twice |
| Other user programs (`user/*`) | per program | shell, ping | system calls | |
| Boot, GDT/IDT/TSS, `snprintf`, ELF headers, MD5, image builder | | | | pure data or hardware set-up |

What makes each part correct:

* scheduler: no process is lost or runs twice; interrupts are on exactly when
  nobody disabled them; the reaper frees no stack in use; every ready process
  runs; a killed process exits;
* semaphores: permits go to waiters in order and are never lost or doubled;
* interrupts: no acknowledgement is forgotten, no timer is missed;
* heap: blocks never overlap, every word is in one block, free blocks are
  found and merged;
* bounded buffer: first in, first out, nothing lost, the handler never blocks;
* tables and files: an object lives exactly as long as somebody refers to it;
  a read returns the bytes of the file;
* memory: a page belongs to one address space at a time;
* network: a packet is delivered to the process bound to its port, once;
* windows: the manager and the kernel agree about the windows, a request becomes
  one, and no half-drawn picture is shown;
* keys: each reaches its program, once and in order;
* clock: nobody sleeps too short or too long;
* game: the two records of who plays agree, the ball stays in the picture,
  results arrive, and the next game starts.

`PROJECT.json` lists these components with their status, and the hazards of the
code, each at its line, with the properties that would catch it going wrong.

## 2. The modules

Each module is written so that it can be proved about as well as checked: no
`RECURSIVE` operator anywhere, one action per piece of code that nothing can
interrupt, invariants as conjunctions of named parts.

| Module | Code | One action is | Implements |
|---|---|---|---|
| `Semaphore` | the promise of `semaphore.cc` | one `down` or `up` | |
| `Scheduler` | `process.cc`, `semaphore.cc`, `pic.cc`, `pit.cc`, `kbd.cc`, `idle.cc` | a section with interrupts off, up to the context switch | `Semaphore` |
| `CollectionFacts` | | (lemmas about sequences, counting and loops, for the proofs) | |
| `SchedulerProofs` | | | |
| `Fifo` | the promise of `bb.h` | one `put` or `get` | |
| `BoundedBuffer` | `bb.h`, `kbd.cc`, system call 25 | the whole interrupt handler; one semaphore call or access of a reader | `Fifo` |
| `DriverProofs` (of `BoundedBuffer`, `Clock` and `Keys`) | | | |
| `Allocator` | the promise of `heap.cc` | one `malloc` or `free` | |
| `Heap` | `heap.cc`, `user/heap.c` | one `malloc` or `free` | `Allocator` |
| `Mkfs` | `mkfs.c` | one block, read or file of the image | |
| `PlainFile` | the promise of `File` in `fs.h` | open, seek, read | |
| `Fat439` (extends `Mkfs`) | `fs.cc`, `fs.h`, `block.cc` | one call on a mounted image that `Mkfs` built | `PlainFile` |
| `FatProofs` | | | |
| `Resources` | `resource.h`, `table.cc`, `fs.cc`, `process.cc`, system calls 2 to 8 | what lies between two points where a call can be preempted and shared state matters | |
| `ResourcesProofs` (of `Resources` and `Heap`) | | | |
| `PrivateMemory` | the promise of `vmm.cc` | fault, write, fork, exec, exit | |
| `Memory` | `vmm.cc`, `child.cc` | `alloc`, `free` or `pmap` | `PrivateMemory` |
| `MemoryProofs` | | | |
| `Network` | `network.cc`, `NetworkProcess.cc`, `socket.cc`, system calls 24, 30 to 32 | the interrupt, or one turn of a loop of `run` | |
| `NetworkProofs` | | | |
| `Windows` | `screenbuffer.cc`, `DesktopWindowManager.cc`, system calls 16 to 22, `TestGame.cc` | what lies between two points where a process can be preempted and shared state matters | |
| `LinkedList` | `List` in `user/libcc.h` | (operators, for `Windows`, `Game` and `Keys`) | |
| `Keys` (uses `LinkedList`) | `queue.h`, `process.h`, system calls 26 to 28 | one access to the queue | |
| `Clock` | `pit.cc`, `sleepFor`, `sleepUntil`, `tick` | reading the clock; computing and queueing the target; one tick | |
| `Game` | `TestServer.cc`, `TestGame.cc` | one turn of the server's loop; one turn of a window's | |
| `DesktopProofs` (of `Windows` and `Game`) | | | |

`MC*` modules extend these for TLC; the constants are in the `.cfg` files.
`BoundedBuffer`, `Windows` and `Keys` do not repeat the scheduler: their semaphores are
instances of the abstract `Semaphore`, which `Scheduler` is proved to implement.

Operators that are called "Mutant" in their comment stand beside the definition
they damage, with a plausible bug of that code: a dropped lock, a missing
reset, an index that wraps late.  No specification uses them; each shows that a
property of a run notices the bug.

### Scheduler

A section of kernel code with interrupts off cannot be interrupted, so it is one
action; it ends at `contextSwitch`.  What a process that was switched out has
still to do when it is dispatched again is its `frame`: the trailing `enable()`s
of `yield` ("yield"), of a blocking `down` ("block"), the acknowledgement and
`endIrq` of the timer interrupt ("irq"), or `entry` of a new process.
`disableCount` and `iDepth` have the values of the code, and the interrupt flag
is what `contextSwitch`, `cli` and `sti` make of them, not a function of the
counts: that the two agree is an invariant.  `phase` is how far a process is in
`exit`: closing its files (`Table::closeAll` takes the table's mutex and for a
file `openFilesMutex`), signalling `doneEvent`, queueing itself for the reaper.
A process in `Faulty` may touch the null page: `kill` marks it and calls `exit`,
and from then on every `dispatch` of it calls `exit` again, from wherever it was.

The interrupt of the keyboard runs its handler with interrupts off and without a
`yield`, and its four semaphore calls (`bb.h:24-32`) are steps of their own: `frame`
of the process it interrupted says which comes next.  The semaphores of the
keyboard's buffer are among those that processes share, so a key can come while
the buffer is full or while its mutex is held.  The handler then blocks inside the
interrupt, and `yield(q)` panics (`process.cc:319`).  This and a kill are all that
makes the kernel panic in the checks of `enable`, `startIrq`, `endIrq` and
`yield(q)`: `PanicsExplained`.

Left out or made smaller: a process has at most one open file when it exits;
`openFilesMutex` is taken by `closeFile` only (its other users are in
`Resources`); the clock has `JiffyMod` values and, like the code, misses the
timers of another round only if one could be behind it; semaphores stop at
`MaxCount` permits; the idle process's `checkReaper` finds nothing while the
processes that yield do the reaping; processes are not created, they are `NEW`
from the beginning and each is started once; no key comes while `MaxCount`
characters wait to be read; the network card's interrupt, which neither yields nor
blocks, is in `Network`.

### Bounded buffer

The keyboard handler is one action, because it runs in the interrupt: a `down`
that finds no permit there panics.  A reader goes through `get` one semaphore
call at a time, and `GetKeyPresses` reads the count first and then gets that many
characters.  The scan code of a key becomes one of the characters in `Key`
(`kbd_get`); which one is left out.

### Heap

The array with its tags, links and sizes is modelled word by word, including
`sanity`.  Words that a holder writes keep the old value: the allocator never
reads them.  `WordMod` stands for 2^32: the number of words for a request is
computed modulo it.  The free list is what following the links from `avail` meets
(`Walk` of `LinkedList`).  `free` is called with what `malloc` returned, once: a
double free is the caller's error.

### Files

`Mkfs` writes the image block by block, `Fat439` mounts it, looks names up and
reads.  The unit of an image is one 32-bit word or one character; a block is ten
of them, a header two.  A loop (`readFully`, following the FAT) is `Repeated`, a
recursive function of its turns; as many turns as cells are wanted are enough,
and those after the last cell change nothing.  The root directory fits in one block, which `mkfs` also
assumes.  A name that is looked up is one of `Names`: the files', "." (`Dot`), which
is the directory itself before any entry is compared (`fs.cc:122`), or another.  The host may return a file in pieces of any length.

### Resources

A table has `Slots` slots.  A pointer is in a table, in a local variable of a
call in progress (`ptr`) or lost (`lost`: the code drops it, as `execv` drops
the `File` of the program, and `open` when the table is full); a count is right
when it is the number of pointers.  `openFile` and `closeFile` are split where
`openFilesMutex` or the disk can yield; `fork` slot by slot, without that mutex.
A `File` is in one slot, so its own count is always 1 and is left out.  Sockets
and screen buffers are shared as semaphores are.

### Memory

`alloc`, `free` and `pmap` disable interrupts and are actions; what lies between
them is not atomic: a process holds a frame in `hand` between getting and mapping
it.  The kernel's identity mapping is one table.  A process may write what it
has mapped at any moment.  Frames may run out, which panics.

### Network

The interrupt handles one frame.  `run` is a loop over three queues, one packet
per action, with the packet in hand in between.  A packet is its purpose, its
host, its port and an identity, which only the properties look at.  The card
keeps the frames in order.  The ARP cache is a set of hosts: MAC addresses are
left out, and its limit of 100 entries.  ARP requests have no identity.
A program may also write to this host's own address, which `WriteSocket` refuses
(`CheckIP`).  Ports are the 64 indices of `portTable`; the code does not check that
a port is one (`syscall.cc:343`), and what an index beyond the table hits is left
out.
Left out: the position in the receive ring, the buffer-full interrupt,
checksums, the four transmit descriptors.  What is sent to this host itself goes
to `receiving` at once and is part of the order, too.

### Windows

The lists in the kernel have no lock of their own; clients and the manager both
hold the mutex of the global buffer, so that one access to a list is one action.
A picture is two cells, so that one can be copied half drawn.  Each process has
one buffer.  Reading freed memory, writing past the manager's array, reading
it when it was not written, or writing before the manager's picture makes
`corrupted` true, and the behaviour ends there: what happens then is not defined.

A window has a place, on the diagonal at first, and the keys `j`, `l`, `i` and `k` move
it by a pixel; nothing stops it at an edge.  Drawing it writes the pixels from the
corner of its border on, up to the edges of the screen on the right and below but
not on the left and above (`DesktopWindowManager.cc:113-123`, `186-195`): `Outside`
says when the first of them lies before the picture.  When `GetChildBuffer` returns
-1 the manager shows what it allocated, unfilled.  The colours on the screen and
the keys that go to programs are left out, and so is what a program does to its own
memory (`NetworkPixel.cc:111` writes at an index it took from the network).

The manager's own list is the `List` of `libcc.h` with its links (`LinkedList`).
`MoveFrontToEnd` does not clear the `next` of the node it moves to the end; what
`renderChildren` draws therefore follows `previous` from `last`, as in the code.

### Keys

`queueKeyPress` holds `keyMutex`, system call 28 does not, so each access to the
queue is an action.  Their order is that of the source, since the build does not
optimise (`-O0` in `common.mak`): `++size` is a load and a store, and `addTail`
reads `last` twice.  A node has the number of its key for a name.  `prev` is
written and never read; the write through it touches the first node, which is
noted when that was given back.  Writing to address 0 kills the process
(`vmm.cc:136`), the manager with the mutex in its hand.  What a node that was
given back holds is not defined: `corrupted` becomes true and the behaviour ends.
Which program is in front and gets the key is left out (`Windows` has the list);
so are the characters.

### Clock

`sleepFor` is two actions: the milliseconds are read with interrupts on, the
target is computed and queued with interrupts off, and ticks come in between.
Sums, products and jiffies are taken modulo `Word`, which stands for 2^32.
`elapsed`, `wrapped` and `turned` are only there for the properties.  `Scheduler`
has the timers' queues, and the order in which sleepers become ready.

### Game

One turn of the server reads at most one message, updates the ball and sends:
nothing of the server's state is shared, so this is one action.  The list of the
clients is again a `LinkedList`; the ball and the paddles are numbers in a picture
whose proportions are constants.  A window's turn shows what it received or
sends a key.  Packets of one sender stay in order, as `Network` shows, and may be
lost on both ways; a packet for a full queue is lost, too.  `told` and `lost`
are only there for the properties.

## 3. The runs

| Run | Instance | States | What it shows |
|---|---|---|---|
| `scheduler` | 2 processes, one of them faulty, idle, 3 shared semaphores (the keyboard's buffer with one slot), 3 values of the clock, cooperative programs | 114 000 | queues, interrupt flag, timers and reaper stay exact; only a kill, or a key without room, makes the kernel panic; the semaphores are abstract semaphores; until then every ready process runs, every joiner returns, and a tick that came while a process ran is acknowledged |
| `buffer` | 3 readers, 2 keys, 2 slots, reads of up to 2 | 394 000 | no slot or character is lost or doubled, order is kept, readers are served |
| `buffer_irq` | 1 reader, 3 slots | | the handler can block |
| `heap` | 20 words, requests of 1 and 17 bytes | 7 600 | blocks tile the heap, the free list is exact, "heap is full" is true, areas never overlap |
| `files` | 2 files of 0, 8, 9 or 28 cells in blocks of 10, every offset to 29, reads of up to 12, names of files, "." and others | 6 000 | the blocks are partitioned, names are found, "." and other names are not taken for files, reads return the host's bytes |
| `resources` | 3 processes, 3 slots, 1 file, 2 objects | 1 950 000 | counts are exact and nothing is used after it is deleted |
| `memory` | 3 processes, 2 pages each, 10 frames | 203 000 | each frame is in one place and memory is private |
| `network` | 2 processes, 1 port, 1 host, 2 frames or packets | 95 000 | order, one place per packet, sending and dispatching |
| `clock` | 2 processes, words of 16 values, 3 ticks in a second, sleeps of up to 3 | 1 602 000 | nobody oversleeps but over the wrap of jiffies; a sleep is too short only after a product that did not fit |
| `windows` | 2 programs, 2 pictures, a screen of 3 by 2 pixels, borders of 1, windows moved to places from 0 to 1 | 435 000 | kernel and manager agree, no half-drawn picture is shown, requests become windows, and memory of kernel or manager is touched wrongly for four known reasons only |
| `keys` | 4 keys, one program | 50 000 | keys stay in order; they are lost, or nodes used that were given back, only when an addition overlaps the removal of the only node; all others arrive |
| `game` | 2 clients, one packet under way to each and to the server, a picture of 11 by 5 | 127 000 | list, connections and results agree; the ball stays in the picture; a window shows no old result unless a ball was lost; winner and loser see their own face unless an older sad one hides it; a game starts again and again |

Why the bounds are enough to be interesting:

* in `scheduler` two processes, the idle process and the two interrupts compete:
  one process waits in any queue while the other is preempted, interrupted by a key,
  ends, or is killed, and two wait in the queue of a timer or a semaphore while the
  idle process is interrupted.  Three values of the clock give a timer now, one
  later, one after that, and the wrap; the buffer of one slot is empty and full.
  Queues of three and more are the theorems' (section 5);
* in the screen of 3 by 2 a window is at (1, 1) first, with its corner on the first
  pixel, and at (0, 0), (0, 1) and (1, 0) after one or two keys, with its corner
  before the picture; `Near` bounds where keys move a window to;
* with two slots the buffer is full, empty and in between, head and tail wrap,
  and a third reader waits behind two;
* twenty words hold three of the smallest blocks or one of the larger with one
  of the smallest, so a block can have free neighbours on both sides, and a
  remainder can be too small to split off;
* the file sizes are 0, one block filled exactly with its header (8), one cell
  more (9) and three blocks (28, the last one exactly full);
* with three slots the table fills up in the middle of `fork`, with two objects
  an address is used again after it is deleted; `MaxLost` bounds lost pointers;
* ten frames are two for the first directory, and fewer than three processes
  with all their pages need, so that allocation fails too;
* with `RetryAfter` 1 and `MsRange` 3 a time of retry can be beyond the largest
  value of the clock; two packets are enough for one to overtake another;
* four keys are the least for a damaged queue to be used again: one that is lost,
  two that follow it, and one that is read twice; with five (314 000 states)
  `keys` passes as well;
* sixteen values of a word hold five ticks before a product wraps and eleven
  after, and jiffies themselves wrap; with 32 (11 800 000 states) `clock` passes
  as well;
* in the picture of 11 by 5 with a ball of 2 and a speed of 2 the ball bounces at
  the top, at the bottom and at both paddles, overshoots each, misses both
  paddles and reaches both goals.  One packet under way is enough for balls and
  results to be lost and for a window to be behind; the invariants also hold with
  two (7 100 000 states), where a window can be two packets behind.

`CHECK_DEADLOCK FALSE` stands where the system may stop: a kernel that panicked,
all processes waiting for each other's events, a buffer nobody asks for, an
image that is read to the end, a table nobody uses any more.  `MCMemory`'s `VIEW` renames frames: which frame is where makes
no difference as long as each is in one place, and when that fails the view is
the whole state.  `MCResources` uses the symmetry of the processes that are not
the first.

### Fairness

* `Scheduler!Machine`: the timer fires when it can, a dispatched process returns
  from its frame, the keyboard's handler runs to its end (keys need not come), and
  `exit` goes on when its process runs: hardware and straight line code.  `Cooperation` (strong fairness of giving up the CPU) is an
  assumption about programs, needed because the timer handler yields before it
  acknowledges the interrupt (`pic.cc:94-119`): until the preempted process runs
  again no tick arrives, so preemption alone does not schedule.
* `BoundedBuffer`, `Windows`: a process that does not wait for a semaphore is
  ready and runs again (`EveryReadyRuns`); programs need not draw, and keys need
  not come.
* `Keys`: whoever is ready runs again; the program polls for ever once it has begun
  (`TestGame.cc:147`), keys need not be pressed.
* `Game`: the server's loop never waits (`ReadSocket` returns at once), and a
  window that is sent packets again and again receives some of them; nothing is
  assumed of the players but in `RematchStarts`, which is about players who ask
  again and again.
* `Network`: the card's interrupt is taken, the clock goes on, the network
  process runs, and so often that it sees the times between two wraps of the
  millisecond clock (71 minutes at 1000 Hz).

## 4. What the code does otherwise than it says

Listed as a finding, with a run that shows it:

* `bb.h:25`: the keyboard handler can block, on a full buffer or on a mutex whose
  holder it interrupted.  The same panic is one of the two causes in `PanicsExplained`.

Configurations that are kept beside the runs, each of which TLC refutes:

| Configuration | Property | What it shows |
|---|---|---|
| `MCScheduler_ack.cfg` | `InterruptAcknowledged` | even with cooperative programs the timer interrupt may stay unacknowledged for ever: a tick taken in the idle process waits until no process is ready (`pic.cc:99`) |
| `MCScheduler_panic.cfg` | `OnlyKeysPanic` | keys are not the only cause of a panic: a process killed for a null pointer and preempted in `closeAll` blocks while its interrupt is still counted (`process.cc:319`) |
| `MCScheduler_killed.cfg` | `KilledExits` | a killed process that waits in `closeFile` may never finish `exit` |
| `MCFat439_name.cfg` | `EveryFileFound` | a file whose name has 12 characters is in the image and is not found (`mkfs.c:155`, `fs.cc:134`; `src/fat439/Makefile` puts `longfilename` in) |
| `MCNetwork_wrap.cfg` | `KnownHostsAlwaysServed` | a time of retry beyond the wrap of the clock blocks all retries (`NetworkProcess.cc:26`) |
| `MCNetwork_frames.cfg` | `EveryFrameHandled` | one frame is handled per interrupt and all are acknowledged (`network.cc:516-518`) |
| `MCClock_early.cfg` | `SleepsLongEnough` | `process.h:140` promises to sleep for the given time; a product that wraps makes `Sleep` return at once |
| `MCGame_faces.cfg` | `WinnersSeeIt` | when all balls of a game are lost, a sad face of an earlier game hides the happy face of this one (`TestGame.cc:172`, `244`) |
| `MCNetwork_unbound.cfg` | `DispatchSurvives` | a packet for a port without a socket kills the network process (`NetworkProcess.cc:49`) |

Met on the way, in the models as the code has them:

* a killed process takes the acknowledgement of the interrupt it was in with it
  (`process.cc:58`), and `exit` runs twice for it;
* `yield(q)` with an empty ready queue runs the idle process (`process.h:159`
  says it panics);
* the type of a file is 1 or 2 the other way round in `fs.h:24` and `mkfs.c`;
* `OpenFile::readFully` does not advance its offset (`fs.cc:71`): it is right
  because its callers ask for what one block holds;
* `portTable` keeps a socket that was closed;
* system call 18 writes request a at three times a (`syscall.cc:219`), although
  a counts in threes: two requests at once are written past the array;
* two processes may both find that nobody owns the screen (`syscall.cc:159`);
* the buffer of a program that ended stays in the manager's lists;
* a window that keys move out at the top or left is drawn before the manager's
  picture (`DesktopWindowManager.cc:120`, `194`), and the result of `GetChildBuffer` is
  not looked at (`DesktopWindowManager.cc:110`);
* 71 minutes after the start `jiffies * 1000` does not fit 32 bits any more, and
  `Sleep` returns at once (`pit.cc:25`); when jiffies wrap between the two steps of
  `sleepFor` (`process.cc:392`), the process sleeps about 71 minutes too long;
* keys are taken without the mutex under which they are added (`syscall.cc:328`):
  a key that is added while the only one is removed can be lost, cut off those
  that follow, or be written into a node that was given back, and the manager can
  be killed for a null pointer with the mutex in its hand;
* system call 28 moves by two for each key (`syscall.cc:329`), so programs handle
  characters nobody wrote, and half of the keys wait for the next call;
* a third client that connects stops the ball, and nothing starts it again:
  `Start` is called for exactly two (`TestServer.cc:218`);
* after a miss the paddles are frozen for one turn only (`TestServer.cc:78`), since
  the next `Move` returns -1;
* the server knows a client by the last byte of its address;
* `List::Empty` does not delete what its nodes point to (`TestServer.cc:204`).

## 5. What is proved

`SchedulerProofs` proves, for every number of processes, semaphores and values
of the clock, from the assumptions of `Scheduler` (`ProcAssumption`: the names of
the processes are distinct; `SemAssumption`: each process has its own table
mutex and semaphores are no processes; `KbdAssumption`: those of the keyboard's buffer
are shared ones; `TickAssumption`: the clock has a value
and the queues of timers are not those of semaphores):

| Theorem | Says |
|---|---|
| `Invariance` | `IInv` is an invariant |
| `TypeCorrect` | the type invariant; no count is below zero |
| `QueuesExact` | ready and blocked processes are in exactly the queues they should be in, once, and the current one runs |
| `InterruptsExact` | interrupts are on exactly when the current process has undone its `disable()`s; at most one process is inside an interrupt |
| `PanicsHaveCauses` | the checks of `enable`, of the interrupts and of `yield(q)` panic only after a process was killed for touching the null page, or when a key comes while the keyboard's buffer is full or locked |
| `OnlyKeysCanPanic` | where no process touches the null page only such a key does |
| `NoTimerMissed` | no timer is behind the clock |
| `ReaperSound` | only terminated processes are queued for the reaper, each once |
| `HandOffSound` | no semaphore has a permit while somebody waits for it |
| `SemaphoresImplemented` | the semaphores of `Scheduler` implement those of `Semaphore` |
| `AcknowledgementNeverForgotten` | while the timer interrupt is in service some live process has still to acknowledge it, unless a kill took that away; whether that process ever runs is another question (`MCScheduler_ack.cfg`) |
| `TerminatedStays` | a terminated process stays so |

The argument.  None of these is inductive alone: that `enable()` turns interrupts
on when it should depends on what the resumed process has disabled, and that
depends on where it was switched out.  `IInv` therefore adds `FramesExact` (for
each place, how many `disable()`s and how deep an interrupt are still to be
undone, with the exception of killed processes, which leave their calls behind)
and `LivesExact` (which places go with which state; who can be killed).  With
those the other parts are inductive together.  The lemmas follow the code: facts
about queues as sequences (`AppendFacts`, `TailFacts`, `ConcatFacts`, in
`CollectionFacts`), a context
switch (`SwitchFacts`), waiting (`WaitFacts`), waking (`WakeFacts`), one lemma
per action (`BlockStep`, `DownStep`, `UpStep`, `TickStep`, `ResumeStep`, ...),
and `NextIInv` that puts them together.  TLC checked each part of `IInv` on the
instance of run `scheduler` first.  `SemaphoresImplemented` shows that each step
is a step of `Semaphore` or leaves its variables alone (`StepRefines`), which
needs `IInv` for the same reasons; `TerminatedStays` shows each step keeps a
terminated process out of the queues (`StepKeeps`).  `AcknowledgementNeverForgotten` follows the
one process that is in the handler over its context switches: `OwedKept` for the
steps that leave it where it is, one lemma per kind of step (`TickOwes`,
`ResumeOwes`, ...) for the others.

`DriverProofs` proves, for any finite number of readers (`ReaderAssumption`), any
characters and any number of slots (`SizeAssumption`); any words wider than the
longest sleep (`WordAssumption`) and any ticks per second (`HzAssumption`); and any
number of keys (`KeysAssumption`):

| Theorem | Says |
|---|---|
| `BufferInvariance` | `BInv` is an invariant |
| `SlotsExact` | the unlocked count, the slots and the permits agree; at most one reader moves the head |
| `FifoImplemented` | the buffer implements `Fifo`: characters come out in the order in which they were typed, each once |
| `ClockInvariance` | `ClockInv` is an invariant |
| `SleepersWake` | nobody sleeps longer than it asked for, unless jiffies wrap between the two steps of its call |
| `EarlyExplained` | a sleep ends early only after a product that did not fit; once jiffies do not fit in a product nobody sleeps |
| `KeysInvariance` | `KeysInv` is an invariant |
| `KeysInOrder` | keys reach the program in order, none twice; none is lost and no node is used that was given back, unless an addition overlapped the removal of the only node |

`SlotsAccounted` is not inductive: a permit that is handed to a waiter keeps the
counts right only if the waiter is at the `down()` that it waits in, and waits
once.  `BInv` adds `Waits` (readers wait for `nFull` before `mutex`, never twice,
nobody while there is a permit, and nobody for room, since the handler panics
instead) and says exactly where the characters lie (`RingExact`: `tail` is
`counts` slots after `head`, in this round or the next; modulo `Size`, an empty
buffer could not be told from a full one).  There is one lemma per action
(`PutStep`, `TakeStep`, ...), over `DownFacts` and `UpFacts`.  The refinement
needs `BInv` for two things: the slot that `put()` writes is none of the filled
ones (`PutChars`), and a reader past both `down()`s finds a character
(`TakeChars`).

`ClockInv` says where the timers are: in strict order, all of them ahead of jiffies
(`TimersAhead`), which is what makes it enough that a tick looks at the first one
and compares for equality; each holds those who sleep for its target and nobody
else (`TimersHeld`); and how far the end of a call is away compared with what is
left to sleep (`NotLate`, `NotEarly`).  That a target times the ticks per second
fits in a word, because a wrapped product is what it was computed from
(`TargetFacts`), gives `EarlyOnlyAfterWrap` its second half, and that jiffies cannot
wrap while somebody sleeps (`NoWrapAsleep`).  `Inserted` is known by its members and
their order (`InsertedFacts`, over `PlaceFacts` and `InsertAtFacts`).

`KeysInv` has a part that holds whatever overlaps and one that holds until an
addition overlaps the removal of the only node.  The first: links lead to later
keys (`LinksAhead`), and a node that is removed is later than all that were, or the
next access finds out that it was given back (`RemovalAhead`); so the keys stay in
order even in a damaged queue.  The second (`Undisturbed`) says for each pair of
accesses where `first`, `last`, the links and the size stand, in two numbers:
`FrontKey`, the first key not yet removed, and `BackKey`, the last one linked.
There is one lemma per access (`LinkStep`, `AdvanceStep`, ...); `LinkedExact` reads
the list off the links, by `WalkFacts`.

The part of `DesktopProofs` about `Game` proves, for every picture, ball, paddle and speed in proportion
(`GeometryAssumption`, which the numbers of the source satisfy), any finite number
of clients, none of them the null pointer (`PlayerAssumption`), and any queues:

| Theorem | Says |
|---|---|
| `InTheField` | the server's state has its type, and the ball is between the goals unless the game is over |
| `BallDrawn` | every ball that is sent is inside the buffer the windows draw it into |
| `GameInvariance` | `GameInv` is an invariant |
| `MembersAgree` | list, numbers and connections agree; of a game that is over one player is told that it has won, the other that it has lost |
| `ShownLast` | a window has both results to show only after the network lost a ball |

`BallInPicture` is not inductive: a ball that is in the picture but behind a goal
could leave it.  `InTheField` says more, that a ball of a game which goes on is
between the goals; `MoveInField` shows by the cases of `Ball::Move` (goal, bounce,
miss) that a step from there ends there or ends the game, `UpdateGood`,
`HandleGood` and `SendGood` carry this over the turn of the server.

`GameInv` adds two things.  `Roll` says which sequence of clients the links stand
for (`Chain`), that the numbers count it down, and that the ball rests unless there are
exactly two: only a game of two ends, which is what gives the two results two players.
`WalkFacts` ties this to `Forward`, which follows the links: of the places where
the walk and the sequence could differ there would be a least one, and the place
before it says that they do not.  `Upright` says of a window that lost no ball
that between two different results on the way to it, or one on the way and one it
shows, lies a ball (`Clean`), and that this stays so with what the server sends
next; `SendKeeps` needs for it that the last packet before a result was a ball
(`Fresh`), and that a game that is over sends each client the same result again
(`TurnOutcome`).

`ResourcesProofs` proves, for any finite number of processes, any number of
slots, objects and files (`ResourcesAssumption`), where no address is null or that
of two objects and no file begins in block 0 (`AddressAssumption`):

| Theorem | Says |
|---|---|
| `ResourceInvariance` | `IInv` is an invariant |
| `CountsCorrect` | every reference count is the number of pointers: in tables, in calls that have not ended, or lost |
| `DanglesNever` | no table and no call between its steps points at what is deleted or is another object by now |
| `OpenFilesUnique` | there is one `OpenFile` per file, and `openFiles` knows it |
| `StackKept` | a process, with its stack, is deleted only after the reaper has seen it |

The three invariants are inductive only together, and only with what the calls
under way know: who holds `openFilesMutex` is between its `lock` and its `unlock`
(`MutexHeld`), what a process looked up in `openFiles` stays true until it unlocks
(`PtrExact`), the slot a call works on still has what it found there (`AtExact`),
a process that has signalled its end has nothing open any more (`LivesExact`), and
a child that is being made has one maker and nothing yet in the slots to come
(`ForksExact`).  A step of a call changes one slot and one count, so each action's
proof counts by `PlacesStep` and `OpeningStep`, which rest on `HeldStep` of
`CollectionFacts`: when one place of many changes, the number of places that hold a
thing changes by at most one.

`ResourcesProofs` also holds the proofs of `Heap`, for any heap of at least 8 words,
any requests that fit in a word and any size of a word (`HeapAssumption`):

| Theorem | Says |
|---|---|
| `HeapInvariance` | `HeapInv` is an invariant |
| `FreeListSound` | the blocks tile the words, the links stand for the free ones, each once, and no two of those are neighbours |
| `FullIsFull` | `malloc` gives up only when no run of free words is long enough |
| `FreeSucceeds` | `free` of what `malloc` returned never panics |
| `AreasApart` | what is handed out never overlaps |
| `AllocatorImplemented` | and it holds the bytes that were asked for, when `bytes + 3` of no request leaves the word |

The hypothesis of the last one is there because the code computes `bytes + 3` in a
`size_t`: for one of the three largest requests it gets a block of 4 words.  Everything else
holds for those requests, too.  `HeapInv` speaks of arrays, not of histories: the
taken and the free blocks tile the words (`Tiles`), the links lead over the free ones
and back (`Listed`), and no free block follows another (`Apart`), without which
`FullMeansFull` is false: two neighbours could have the room that neither has.  `malloc` and `free`
are a few writes each, and `UnlinkStep`, `TakenStep`, `CutStep` and `AvailStep` say
what each of them makes of the tiling and of the list.  They need that the links
of a free block are inside it (`LinkFacts`), so that no write of a link hits a
tag, and that a region of blocks may be tiled anew without a look at the rest
(`Retile`).  `FreeStep` takes up to three blocks for such a region, `MallocStep`
one.  That the list is what following the links meets is `WalkFacts` of
`CollectionFacts`.

`MemoryProofs` proves, for any finite number of processes, at least two frames, any
number of tables with any number of entries, and any values (`MemoryAssumption`):

| Theorem | Says |
|---|---|
| `MemoryInvariance` | `IInv` is an invariant |
| `FramesInOnePlace` | every frame that was ever used is in exactly one place: the free list, a directory, a table, a page, or the hands of a process |
| `PrivateMemoryImplemented` | the address spaces implement `PrivateMemory` |

`FramesOnce` needs to know where a frame comes from: who has one in hand is between
`alloc` and `pmap` (`HandsExact`), and maps it where no page is (`CallsExact`); a
child's directory and identity table are written where there are none
(`ForksExact`); when the destructor has no table left it has no page left either
(`TablesBuilt`), so the directory is the last frame.  The number of places a frame is in changes
with the free list and `avail` (`Balance`, `FramesMoved`): by one and one when
`alloc` returns it, not at all in `pmap`.  The refinement follows from what each
action's lemma says of `Seen`, what a process finds at an address: a frame that is
a page is nobody else's (`PageFacts`), so a write is seen by one process; what
`fork` has come to is seen alike by both (`ForksExact`), so the child that becomes
live has all its parent had.  TLC checked both strengthenings on the instances of
the runs before they were proved.

`NetworkProofs` proves, for any sets of processes, ports and hosts, where the names
of the queues and of the host itself are no processes and no other hosts
(`NetworkAssumption`), and any number of packets:

| Theorem | Says |
|---|---|
| `NetworkInvariance` | `IInv` is an invariant |
| `PacketsInOnePlace` | a packet is in one queue, hand or inbox, once, and nowhere any more when it was sent |
| `DataInOrder` | data of one host for one port reaches the owner's inbox in the order in which it came |

`OnePlace` speaks of all queues, hands and inboxes as one family, `Queue`, so that
each step is one of four movements of that family: a packet is taken from a queue
(`TakeGood`), put into one when it is in none (`PutGood`), does both, or is made
with an identity nobody has.  `InOrder` is not inductive: a packet moves from the
ring over `receiving` and the hand of the network process to the inbox, and what
matters at each place is that whatever is nearer to the inbox came first.
`WaySorted` says this place by place; `QueuesHold` that only data for a port that
may be looked up is on that way, which keeps ARP and echo frames out of the order.

The part of `DesktopProofs` about `Windows` proves, for any finite number of programs and any pictures, where the
manager is none of the programs, nobody is no process, and windows begin inside the
screen (`WindowsAssumption`):

| Theorem | Says |
|---|---|
| `WindowsInvariance` | `IInv` is an invariant |
| `PicturesWhole` | the manager shows no half-drawn picture |
| `CorruptionHasCauses` | the memory of kernel and manager is touched wrongly for the four known reasons only, on a screen of any size with borders of any width |
| `WindowsMirrored` | the manager's windows are the buffers that the kernel gave it, each once, and it always finds what it looks for |

A picture is whole when the manager has copied both cells because its program is
not between its two writes meanwhile, and that is so because both hold the
buffer's mutex.  The mutexes are abstract semaphores, so `Exclusive` has to say
what a place in the code means for a mutex: who is `Inside`, who `Enters` and may
still wait, and that of all those inside only one does not wait.  `DownKeeps` and
`UpKeeps` show it for every lock and unlock at once, by `LockStep` and
`UnlockStep` for the four of each in the code.  `CorruptionHasCauses` needs the same
exclusion for another reason: a request joins the manager's queue only while the
manager does not hold its own mutex, so the number that `GetBufferRequestCount`
returned is still that of the requests when the array is written
(`AddBufferRequestStep`, `AcquireStep`).

`Mirror` is the third part.  `Chained` says which sequence of windows the manager's
links stand for; `PushChained` and `MoveChained` say what the two operations of the
list make of it, the second one although it leaves the link of the last window
where it was.  A program that has asked is past the place where it asks (`Early`),
so it has one request or one window, never both; `last` is nobody or one of the
windows, so `GetChildBuffer` finds it.  The number that was read is that of the
requests again (`IInv`), and the array has room for one, so that `AcquireMirror` has
one window to push (`PushOne`).

`FatProofs` proves, for any size of a block that holds the super block, any number of
blocks that leaves one for the root directory, any length of the names in the
directory, any files whose entries fit in its block, of any sizes and names
(`MkfsAssumption`), any names that are asked for, and reads and seeks of any length (`FatAssumption`):

| Theorem | Says |
|---|---|
| `FatInvariance` | `FatInv` is an invariant |
| `NamesAreFound` | while the image grows its blocks are in the chains, each in one of them and once; in the image mounted a name that leaves room for its 0 is found, with the first file of that name, "." is found as the directory itself, and a name that is neither is not found |
| `HostsFileIsRead` | `Fat439` implements `PlainFile`: what is read is the host's file, in order, at whatever offset, and `readFully` reads to its end |

That the blocks are partitioned is not inductive, and does not say what is in them.
`FatInv` says the image block by block, which is possible because `getBlock()` hands
out the blocks from the top and a link leads to the block below (`LinksExact`): a
file has a range of blocks, below that of the file before and above what is
available (`RangesExact`), and cell `o` of the block `d` below the first holds cell
`Nth(d, o)` of the host's file as far as it was copied (`DataExact`).  How far that
is follows from `left` and `total` (`CopyExact`): the place where `mkfs` writes next
is the next cell of the file, also when a block that is filled exactly got a
successor.  `KernelInv` says that the kernel's FAT is that of the disk and that an
open file is one of the host's.

There is one lemma per action of `mkfs` (`StartFileStep`, `NewBlockStep`, `ReadSomeStep`,
`EndOfFileStep`), over lemmas that say which cells share no address (`CellFacts`,
`FatCellFacts`, `EntryFacts`) and what one write changes (`Put`, `PutLink`).  That the
kernel finds the block of an offset (`BlockOfFacts`), reads a piece of the file
(`FileReadFacts`) and with `readFully` all of it (`FileReadFullyFacts`) is proved of its
loops.  No induction theorem can be used for a loop (it takes an operator); but
of the turns after which the claim fails there would be a first one
(`LeastMember`), and the turn before it says that there is none: `LoopIs` for a loop
whose turns are known, `LoopReads` for one that reads some, and at least one cell
while any is left.  `LinkedFacts` gives the blocks that a chain leads to, and
`ChainsApart` and `ChainsCover` the partition.

TLC checked the strengthenings `GameInv`, `Mirror`, `WaySorted`, `Exclusive`,
`ClockInv`, `KeysInv`, `HeapInv` and `FatInv` on the instances of the runs before they were proved, and
on larger ones, too: `GameInv`, `Mirror`, `KeysInv` (6 keys), `HeapInv`
(24 words, a request that wraps; not to the end) and `ClockInv` (words of 7, 9 and 13 values, 1 to 5 ticks in a
second).

Every safety property that a run checks is proved.  Only model-checked: all
liveness (`EveryReadyRuns`, `JoinersReturn`, `TicksAcknowledged`, `ReadersServed`, `KnownHostsServed`,
`ReceivedDispatched`, `KeysArrive`, `WindowAppears`, `ResultsArrive` and
`RematchStarts`), since the provers do not handle fairness and `ENABLED`.

## 6. What is not modelled, and what properties except

Some properties hold up to a case in which the code does otherwise; they say that
there is no further one.  `PanicsExplained` and the liveness of `Scheduler` end at a
kill or a panic; `TicksAcknowledged` is about ticks taken in a process, not in the
idle one; `KnownHostsServed` is about retries the clock can reach, and
`ReceivedDispatched` ends at the death of the network process; `KeysExact` and
`KeysArrive` end at an overlap, and the holes that system call 28 leaves in a program's
buffer are not seen; `WindowsMirror` takes an access to a list as one action, so it
sees calls in a wrong order but no links damaged by two accesses at once;
`WholeFrames` is about pictures that were copied; `WindowAppears` ends when somebody
else becomes the owner of the screen; `ResultsArrive` excepts a face that an older
one hides.  The configurations in section 4 show most of these cases.

Not modelled:


* The receive ring's positions, MAC addresses and the limit of the ARP cache.
* `Map` in `queue.h` and `libcc.h`, which never finds a key again whose order
  holds both ways for equal ones, as that of `String` does; the nodes of the
  kernel's other queues, which are sequences here: interrupts are off or a lock is
  held where they change.
* Two kernels that answer each other's ARP replies (`network.cc:225`).
* Permissions and login, and what is listed in
  `PROJECT.json` as `not_modelled`: set-up of the hardware, ELF headers, formatted
  output, MD5.

## 7. Plan

Written, in this order: `Semaphore`, `Scheduler`, `CollectionFacts`, `SchedulerProofs`
(everything runs on them); `Fifo`, `BoundedBuffer`; `Allocator`, `Heap`; `Mkfs`, `PlainFile`,
`Fat439`, `FatProofs`; `Resources`, `ResourcesProofs`; `PrivateMemory`, `Memory`, `MemoryProofs`; `Network`, `NetworkProofs`; `LinkedList`,
`Windows`; `Clock`; `Game`, `DesktopProofs`; `Keys`; `DriverProofs`.

Next:

1. `Network`: the positions in the receive ring and the buffer-full interrupt;
   the ARP cache with its addresses (`AddEntry` adds duplicates, `GetEntry`
   returns the oldest); a second kernel that answers.
2. `Map` against a function.
