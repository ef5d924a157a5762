# A TLA+ verification of the xv6 kernel with RR, LBS and MLFQ scheduling

The repository is the xv6-riscv teaching kernel, extended with

* a choice of three schedulers (round robin, lottery, multi-level feedback
  queue; `SCHEDULER=` in the Makefile),
* alarms (`sigalarm`, `sigreturn`),
* counting of system calls (`getSysCount` and the program `syscount`),
* `waitx`, which reports the times of a child.

This directory models the kernel in TLA+, checks the models with TLC on small
instances, and proves the central invariants with TLAPS for every instance.
Paths below are relative to `src/initial-xv6/src/`.

## 1. Inventory

| Part | State | Operations | Interacts with |
|---|---|---|---|
| Process table (`kernel/proc.c`) | `proc[NPROC]`: state, pid, parent, killed, chan, xstate | allocproc, freeproc, fork, exit, reparent, wait, waitx, kill, sleep, wakeup, sched, yield | every part; sleep/wakeup is the only way to wait |
| MLFQ (`proc.c`, `trap.c`) | `multique[4][NPROC]`, `sizeofq`, `queue_number`, `queueticks` | enqueue, dequeue, boost, demotion, the MLFQ branch of `scheduler()` | called from fork, exit, kill, sleep, wakeup, wait, the timer |
| RR and LBS (`proc.c`) | tickets, arrival_time, the generator | two branches of `scheduler()`, settickets | reads the whole table without locks |
| Traps (`trap.c`) | ticks | usertrap, kerneltrap, clockintr, devintr | preempts every other part; drives MLFQ and alarms |
| Alarms (`trap.c`, `sysproc.c`) | alarm_on, in_alarm_handler, cur_ticks, ticks, handler, alarm_tf | sigalarm, sigreturn, the timer branch of usertrap | kalloc, allocproc, freeproc, exec |
| System call counts (`syscall.c`, `proc.c`, `user/syscount.c`) | syscallcount[] of each process | counting in `syscall()`, collection in wait and waitx, getSysCount, the program syscount | fork, exit, wait, reuse of slots |
| waitx times (`proc.c`) | ctime, rtime, etime | update_time, exit, waitx | the timer |
| mkfs (`mkfs/mkfs.c`) | the image | ialloc, iappend, balloc | the file system starts from it |
| Locks (`spinlock.c`, `sleeplock.c`) | locked, cpu, noff, intena; locked, pid | acquire, release, push_off, pop_off; acquiresleep, releasesleep | all kernel data |
| Buffer cache (`bio.c`) | 30 buffers: blockno, valid, refcnt, LRU list, data | bread, bwrite, brelse, bpin, bunpin | disk below, log and file system above |
| Log (`log.c`) | header in memory, header and copies on disk, outstanding, committing | begin_op, log_write, end_op, commit, recovery | buffer cache; every file system call |
| Disk driver (`virtio_disk.c`) | descriptors, rings, info[] | virtio_disk_rw, virtio_disk_intr | the device, buffer cache |
| File system (`fs.c`) | inode table, blocks, directories | balloc, bfree, ialloc, iget, ilock, iput, itrunc, readi, writei, dirlookup, dirlink, namex | log, buffer cache |
| Files and pipes (`file.c`, `pipe.c`, `sysfile.c`) | ftable, ofile[], pipe rings | filealloc, filedup, fileclose, pipealloc, piperead, pipewrite, pipeclose, the file system calls | inodes, sleep/wakeup |
| Memory (`kalloc.c`, `vm.c`, `exec.c`) | free list, page tables | kalloc, kfree, uvmalloc, uvmdealloc, uvmcopy, exec | fork, exit, pipes, alarms |
| Console (`console.c`, `uart.c`) | input ring (r, w, e), transmit ring | consoleread, consoleintr, uartputc, uartstart, uartintr | sleep/wakeup, interrupts |

What is hard in this code, and which properties make each part correct:

* *MLFQ.* One global structure is kept in step with the process states by calls
  scattered over eight functions, compares entries by pid (which freeproc has
  cleared before it dequeues), is indexed by loops that it shifts, and is read
  by the scheduler without a lock. Correct means: the queues hold exactly the
  processes that want the hart, each once and at its own level; nobody overruns
  a slice; nobody starves.
* *Life cycle.* exit against wait, kill against sleep, fork's three-step
  publication of a child. Correct means: no wakeup is lost, no orphan is without
  a living parent, a kill is not slept over.
* *RR and LBS.* Several harts choose from a table they read without locks.
  Correct means: no process runs on two harts, and each scheduler keeps its rule.
* *Alarms.* The interrupted context lives in a page that one call allocates and
  another frees, across exec, exit and nested calls. Correct means: a frame has
  one owner, the context comes back intact, alarms do not nest, and come.
* *Counting.* Counters travel from child to parent when the parent waits, along
  orphans and reused slots. Correct means: nothing is lost or counted twice.
* *Log and cache.* A crash may happen at any disk write, also during recovery.
  Correct means: the disk after recovery is the disk of the last commit.
* *Pipes, driver.* Rings with indices that wrap, sleepers on both sides. Correct
  means: bytes in order, nobody sleeps on a condition that holds.
* *File system.* Calls hold one inode while they lock another, drop their last
  reference in the middle of a call, and fail half-way when blocks, inodes, files
  or descriptors run out. Correct means: block and reference counts are exact,
  the tree stays a tree, locks never close a circle.
* *Memory.* fork, exec and sbrk build tables page by page and undo what they built
  when a page is missing. Correct means: a page has one owner, every page comes
  back, and nothing is unmapped that is not mapped.
* *Console.* An edited line and a transmit buffer, filled and drained by threads
  and interrupt handlers of several harts. Correct means: input is read once and
  in order, output leaves once and in order, interrupts nest with the locks.

`PROJECT.json` lists every part with its status, and every hazard with its line.

## 2. Organisation

The schedulers come first: they are what this repository adds to xv6, and every
other part runs on them. Then what each process carries across the schedulers
(alarms, counters, times), then the parts that wait for each other or for a
device, from the disk upwards.

| Part | Modules | Specified by | Result |
|---|---|---|---|
| MLFQ, life cycle | `RunQueues`, `QueueLoops`, `MlfqKernel` | the loops as recursive definitions | checked, safety proved |
| RR, LBS, times | `SmpSched`, `Lottery` | the rule of the lottery | checked, safety proved |
| alarms | `Alarm` | | checked, safety proved |
| call counts | `SysCount` | | checked |
| log | `Log` | `AtomicDisk` | checked, refinement and safety proved |
| pipe | `Pipe` | `Channel` | checked, refinement and safety proved |
| buffers and disk | `VirtioDisk`, `BufferCache` | `BlockStore` | checked |
| file system | `Blocks`, `FileSystem`, `Mkfs` | | checked |
| memory | `Memory`, `UserCopy` | copies byte by byte | checked, safety of the tables proved |
| console | `Console` | `Terminal` | checked, all but the output order proved |

Worth proving next: the refinement of `BlockStore` by `BufferCache`, and
`TablesExact` of `FileSystem`.

## 3. Modules and code

| Module | Code | State | Actions |
|---|---|---|---|
| `RunQueues` | enqueue, dequeue, wakeup's loop (`proc.c`), boost and demotion (`trap.c`) | a value with `multique`, `queue_number`, `queueticks` | operators only; shifting loops in closed form |
| `QueueLoops` | the same loops, statement by statement | | recursive operators, used by TLC only |
| `MlfqKernel` | `proc.c`, `trap.c`, `sysproc.c` on one hart with MLFQ | process table, queues, ticks, the place of the scheduler loop, the kernel stack position of every process | one per region between two points where interrupts are on: scheduler loops, timer and device interrupt in user mode, kernel mode and the idle loop, fork in its three published steps, exit, wait, kill, sleep(n) up to tickslock, under it and after each wakeup, device wait, trap return |
| `SmpSched` | RR and LBS branches of `scheduler()` on several harts; clockintr, update_time and the times of waitx | table, tickets, arrival, run and exit times, the loop variables of every hart, the slot update_time is at | one per loop iteration, since the loops read the table without locks; one per slot of update_time |
| `Lottery` | | | states the rule the LBS loops should follow |
| `Alarm` | `sys_sigalarm`, `sys_sigreturn`, the alarm branch of usertrap, and what allocproc, freeproc, exec do to the fields | alarm fields, pages, contents of saved frames | one per call, tick with and without alarm |
| `SysCount` | counting in `sysproc.c`, wait and waitx, `user/syscount.c` line by line, init | one counter of every process | one per system call and per line of syscount |
| `Log` | `log.c` | disk home, log and header; cache; outstanding, committing | one per disk write, per log_write, begin_op, end_op; Crash |
| `AtomicDisk` | | committed disk, current view, active operations | abstract |
| `Pipe` | `pipe.c`, with fileclose, fork and kill as far as they touch a pipe | ring, counters, flags, lock, descriptors | one per loop iteration under the lock |
| `Channel` | | queue, last byte taken, open ends | abstract |
| `VirtioDisk` | `virtio_disk.c` and the device | descriptors, rings, `info[]`, b->disk | failed allocation, submit up to the ring entry, notify, finish; the three parts of the interrupt handler; three of the device |
| `BufferCache` | `bio.c`, `sleeplock.c`, composed with `VirtioDisk` | blockno, valid, refcnt, lock, LRU list | the two branches of bget, acquiresleep, bread, bwrite, brelse in its two steps |
| `BlockStore` | | content, disk, holder of each block | abstract |
| `Blocks` | balloc, bfree, bmap, itrunc, readi, writei (`fs.c`) | a value with the bitmap and the indirect blocks, and an inode | operators only |
| `FileSystem` | `fs.c`, `file.c`, `sysfile.c` | inodes on disk and in memory, directories, file table, descriptors, where each call stands | one per period in which a call holds one inode lock; iput in four when it frees |
| `Mkfs` | `mkfs/mkfs.c` | the image under construction | operators only |
| `Memory` | `kalloc.c`, `vm.c`, `exec.c`, the memory side of `proc.c` | the page each pointer of the kernel holds, the free list, sizes, the pages without PTE_U, where each call stands | one per kalloc, successful or not, per mapping, per run of kfrees |
| `UserCopy` | walkaddr, copyin, copyout, copyinstr (`vm.c`), fetchaddr, fetchstr (`syscall.c`) | a page table, the zero bytes | operators only |
| `Console` | `console.c`, `uart.c`, `spinlock.c`, the lock of `printf.c` | the two rings, locks, noff and intena of each hart, threads, the FIFOs and the interrupt of the UART | one between two accesses to what another hart or the UART can change |
| `Terminal` | | committed characters, edited line | abstract |

`MC*` modules add constants, symmetry sets, in `MCMlfqKernel` the comparison with
`QueueLoops`, in `MCMlfqBoost` a history variable, `missed`, that counts the boosts
which passed over a process one after the other, and in `MCFileSystem` the images to
start from, one of which is what `Mkfs` makes of a command line.

What is abstracted, everywhere: a spinlock region is one step where nothing that
another actor does without that lock can be told apart from doing it before or
after; where it can (pipe against kill, LBS against the table, the disk against
its device) the region is split. Data is a small set. Messages and printf are
left out.

`MlfqKernel` is a single hart because the Makefile sets `CPUS := 1` and the
queues have no lock of their own. Interleaving comes from interrupts: `yield()`
in kerneltrap lets another process in at every point of a system call at which
interrupts are enabled.

More on single modules:

* `FileSystem` leaves begin_op and end_op to `Log`: a call is inside a transaction
  except where the model returns to user space or, in a long write, between two
  chunks. `Log` shows that a transaction is atomic under crashes, so what the
  disk holds after a crash is what `FileSystem` had between transactions, but for
  inodes that are open without a name: their links are gone and nobody is left to
  free them. A file is measured in directory entries, so directories and files
  share the code of readi and writei, as they do in `fs.c`. An open mode is a set
  of flags; `{}` is O_RDONLY. A path on which the code panics ends in `Panic`.
* `Memory` names the pointers that can hold a page (trapframe, page-table pages,
  leaves, the local variable `mem`, arguments of exec). `held` is what the rest of
  the kernel has taken, so memory runs out at every possible kalloc. The page of
  an alarm is in `Alarm`, that of a pipe in `Pipe`. Of the PTE flags it has PTE_U:
  `fixed` are the trampoline and the trapframe, `guards` the pages below a stack
  that exec() makes inaccessible with uvmclear(). `TableOf` in `UserCopy` reads a
  process of `Memory` as a page table, so that `CopiesExact` also speaks of every
  table the calls build, guard pages included.
* `Console` has interrupts where the hart has them on, and gives the UART's to one
  hart at a time, as the PLIC does. The UART interrupts as rarely as it may: when a
  character arrives and when its last character has left. copyin and copyout may
  fail at any byte. consoleread() tests killed and calls sleep() in two steps, as
  kill() on another hart sees them. There is no timer interrupt: a thread that holds
  no lock is interrupted only by the UART, and the order in which threads of
  different harts run is arbitrary already.
* In `SmpSched` the loop variables of a hart are reset when they are dead; this
  changes no behaviour.

The definitions marked as mutants are single faults (a dropped test, a missing
wakeup, an off-by-one) put in place of the definition they name; each property
is known to fail under one of them.

## 4. Runs

| Run | Instance | What it shows | States |
|---|---|---|---|
| mlfq_kernel | 3 slots; init forks and waits, its first child makes every call, the others sleep, wait for a device, fault or exit; boost at every tick | `QueueExact`, `SliceKept`, `SleepsForAReason`, `ParentAlive` | 684,110 |
| mlfq_schedule | 3 slots, fork and compute, slices 1, 2, 2, 2, boost every 3 ticks, fair | `LoopsAgree`, `LiftedSoon`, `KeepsHartOnlyIfFirst`, `EveryoneRuns` | 52,994 |
| schedulers | 2 harts, 2 slots, RR and LBS, 0 or 1 tickets, 1 tick, fair | `OneHart`, `WaitTimeBounded`, `LotteryRule`, `Served` | 159,057 |
| alarm_cycle | 2 processes, 1 page for frames, intervals 0 and 2, fair | `FramesOwned`, `ContextKept`, `AlarmsSpaced`, `AlarmComes` | 75,952 |
| syscount_tree | 4 processes, 4 calls; fork, wait or getSysCount is counted | `Conserved`, `AnswerSound` | 458,151 |
| log_crash | 3 processes, 3 blocks, log of 4, 2 blocks reserved for a call that writes 1, crash anywhere | `NoLogPanic`, `SleepsForAReason`, `ImplementsAtomicDisk` | 26,160 |
| pipe_safety | 3 processes, ring of 2, counters wrap at 4 | `PageInUse`, `SleepsForAReason`, `ImplementsChannel` | 865,520 |
| buffer_cache | 2 processes, 2 buffers, 3 blocks, 4 or 8 descriptors, ring indices wrap at 8 | `SleepsForAReason`, `ImplementsBlockStore` | 218,300 |
| file_system | 2 processes, 3 calls, 4 inodes, 8 blocks of 3 entries, 2 files, 3 images | `BlocksExact`, `TablesExact`, `TreeSound`, `LocksSound`, `LinksExact` | 297,511 |
| inode_lost | the same, with unlink and mkdir | `FreedWhenUnused` fails: see 7 | |
| memory | 2 processes, 4 calls, 20 pages of which 1 to 10 are taken, tables of three levels | `NotShared`, `NoneLost`, `NoPanic`, `CopiesExact` | 49,871 |
| console | 2 harts, 2 threads, input ring of 2 with indices that wrap at 4, transmit buffer of 2, FIFO of 2 | `InterruptsNest`, `RingSound`, `OutputExact`, `SleepsForAReason`, `ImplementsTerminal` | 563,494 |

Each property is stated in words above its definition.

Why the bounds are enough to be interesting:

* Three slots give the MLFQ kernel a parent, a child and an orphan, a queue in
  which a boost takes one entry and passes over another, and reuse of slots.
  Each slot has the calls that matter for its place in the tree, and `kill` is
  given the pid of a process and 0, the pid of free slots. The boost comes at
  every tick in mlfq_kernel, where it meets every other step, and every third in
  mlfq_schedule, where slices run out before it. With a boost at every tick
  processes rarely get below level 1; the lower levels are the business of
  mlfq_schedule and of the theorems.
* `LiftedSoon` bounds the boosts in a row that may pass over a process by the
  logarithm of the number of slots: each of them halves its position. A boost that
  counts its entries from the second one would leave the first there for ever.
* `TickMod` makes the 32-bit tick counter wrap (1 is then the largest argument of
  sleep(), which is what a negative one becomes), `MaxPid` bounds allocpid, so a
  run ends; both are named constants.
* Two slots on two harts let both harts choose the same process while it, or the
  other one, changes the table, and let a process be created, run and exit while
  hart 0 is between `ticks++` and update_time. A ticket count of 0 is what
  settickets accepts; negative ones are left out. `still` records whether the
  table changed during a choice.
* One page for two processes makes alarm frames run out and change owners.
* Three processes and a log of four blocks: group commit, absorption, sleepers in
  begin_op. A call may write one block less than is reserved for it: with calls
  that write all of MAXOPBLOCKS the panic of log_write() is reached, see 7.
* Three processes on a ring of two bytes with calls of three bytes: both sides
  sleep, two readers are woken for one byte, both counters wrap.
* Three blocks for two buffers force recycling. Four descriptors make a request
  wait for another; eight (the value in `virtio.h`) put two requests in flight.
* Three calls of two processes: two calls race after a third prepared the tree.
  The images are the one `mkfs` writes, one with a directory and a file that has
  an indirect block, and one with a directory two levels down that is somebody's
  current directory. Blocks, inodes, files and descriptors all run out: the fail
  path of create() and an indirect block without its data block both occur.
* `Spare` varies what the rest of the kernel holds, so that each kalloc of fork,
  exec and sbrk fails in some behaviour. `MaxSz` keeps a process below the
  trapframe; memory is exhausted first. `UserCopy` is compared with its
  byte-by-byte definition on all 27 tables of three pages, 16 addresses, and
  every set of zero bytes.
* The input ring starts with one character and indices about to wrap; lines fill
  it, end, are erased and killed. Writes of two characters beside the echo fill a
  transmit buffer of two, so that writers sleep and the buffer wraps around.

Symmetry is used in log_crash, pipe_safety, buffer_cache and console, which check
safety only; the values permuted are never compared or ordered.

Deadlock is not checked in alarm_cycle (a panic stops the machine), syscount_tree
(the programs end), pipe_safety (every process may have closed its ends) and
memory (the bound on calls). In the others a state without a successor is an
error; file_system and console may stop only where `Halted` says that all calls
have returned, so a call that waits for ever would be found there.

## 5. Fairness

* `MlfqKernel!FairSpec`: weak fairness of the scheduler loop and of the timer,
  which both happen again and again by themselves; strong fairness of kernel
  steps, because a timer interval is much longer than any region between two
  points where interrupts are on, so an interrupt does not always come first.
  Nothing is assumed of programs. mlfq_schedule uses it with programs that fork
  once and compute: a program that makes failing system calls in a loop can have
  every tick arrive in the kernel, where it is neither charged nor boosted.
* `SmpSched!FairSpec`: every hart executes its loop, the timer takes it from a
  running process, update_time ends. For LBS also that the generator does not
  draw total_tickets + 1 for ever: `rand()` is a full-period generator (`SF` of
  `Lucky`).
* `Alarm!FairSpec`: a process that is alive gets user ticks, which is what
  `EveryoneRuns` says of the scheduler. Handlers need not return.

The other runs check safety; where a lost wakeup is the hazard it is stated as
the invariant `SleepsForAReason`: whoever sleeps has a reason that still holds.

## 6. Proofs

TLAPS checks these for every value of the constants that satisfies the named
assumptions (of the kind "NPROC is a positive natural number"; the others are
named below). Each module has
one lemma per action for its inductive invariant, and lemmas about the operators
the actions are built from. Most leaves are first-order and are proved by Zenon;
the ones with arithmetic name SMT.

* **`RunQueuesProofs`**: what each queue operation does to `QueuesHold(Q, A)`,
  "the queues hold exactly the slots of A, each once, at its own level".
  `BoostHolds` is the interesting one: entries taken and passed over by the
  boost partition each level (`TakenPassed`), so nobody is lost or doubled.
  Requires that pids are distinct on A, since the code compares pids.
  `WakePlaces`, `BoostPlaces` and `DemotePlaces` say where an entry is found
  afterwards.
* **`MlfqKernelProofs`**: `Invariance`, `TypeCorrect`, `QueuesAreExact`,
  `SlicesAreKept`, `CandidateIsRunnable`. `QueueExact` alone is not inductive:
  dequeue removes by pid, so `PidsDistinct` is needed; the scheduler runs what it
  found without a lock, so `HartOwned` says who has the hart and that the candidate
  is RUNNABLE; a forked child is published in three steps, so `ForkHeld` says that a
  slot being forked is touched by nobody else. `IInv` is the conjunction.
  `ParentsAreAlive` and `SleepersHaveAReason` rest on it and on `FamilyKept`: init
  never exits, and a child in the last step of fork() has its parent already. For
  sys_sleep() it takes `InTime`: a tick wakes all sleepers of the clock, so nobody
  is asleep whose ticks have passed. The action properties `FirstKeepsHart`
  (`KeepsHartOnlyIfFirst`) and `BoostsHalve` follow from `IInv` and the step; the
  second says of one boost what `LiftedSoon` adds up: whoever is passed over moves
  to half its position.
* **`SmpSchedProofs`**: `Invariance`, `NoTwoHarts` and `WaitTimesAreBounded`, for
  both schedulers and any number of harts. For the second the invariant adds
  only that loop variables stay in the table: the retest under the lock carries
  the argument. For the third, `TimesInv` bounds the run time of a living process
  by its age, counting the visit of update_time that is still to come in this
  tick: a process created between `ticks++` and that visit is charged for a tick
  it did not live through, once, and only if another hart ran it.
* **`AlarmProofs`**: `Invariance`, `FramesAreOwned`, `ContextIsKept`,
  `AlarmsAreSpaced`. The link between frames and `in_alarm_handler` is what makes
  them inductive; `Between` adds that a process which takes alarms is in main code
  and that cur_ticks counts from the last alarm.
* **`LogProofs`**: `Invariance` and `Refinement` (`Spec => ImplementsAtomicDisk`).
  The refinement mapping takes the current view from the cache and the committed
  disk from what a restart would find, `stable`. The step that commits is the write
  of the header; every other disk write is a stutter, which is what `Pins`,
  `LogShape` and `Copies` are needed for: a pending block is pinned, the header
  names exactly the transaction, and the copies made so far agree.
  `SleepersHaveAReason`: a sleeper of begin_op() has something to wait for.
  `SpaceIsReserved`: what admitted calls may still write fits the log, for any
  number of them, provided that no call writes more than MAXOPBLOCKS blocks
  (`OpBlocks <= MAXOPBLOCKS`, the contract of param.h); absorption is what makes the
  count of distinct blocks, and not of writes, matter. `LogNeverPanics`
  (`NoLogPanic`) is proved with two blocks of slack in each call (`OpBlocks + 2 <=
  MAXOPBLOCKS`), because log_write() compares with size - 1 and does so before it
  looks whether the block is there already, and a log on disk of LOGSIZE blocks. A
  chunk of filewrite() writes seven of the ten: three blocks of data that may touch
  four, the bitmap, the indirect block and the inode.
* **`PipeProofs`**: `Invariance`, `PageStaysInUse`, `SleepersHaveAReason` and
  `Refinement` (`Spec => ImplementsChannel`), for every size of the ring and every
  range of the counters that the size divides. The invariant says who holds the
  lock, that open ends and descriptors agree, and that the counters are at most a
  ring apart; the lemmas are about remainders, since slots are found by counters
  that wrap. `SleepersHaveAReason` uses `WakesOwed`: a sleeper whose reason has
  gone will be woken by the holder of the lock. It assumes that no kill() comes
  while a process is inside the pipe code (`~KillInside`, what one hart gives): with
  one, a writer that is killed after it put bytes returns without wakeup().
* **`MemoryProofs`**: `PagesNotShared`, `NoPageIsLost`, `NoPanicIsReached`.
  `NotShared` is inductive together with the types of `own`, `free` and `held`,
  because every action is a kalloc into one place, a move between two, or a kfree
  that clears the pointers. The others need to know where a call stands: `IInv`
  gives, for every pc of fork, exec, sbrk and the loops of uvmalloc, uvmcopy and
  uvmunmap, which places of the table in work hold a page (`TableKept`), that only
  the call itself works on that table (`TableOwned`), and what the slot looks like
  (`SlotKept`). `RoomAssumption` says that the largest process ends below the
  trapframe: there is far less physical memory than there are addresses.
* **`ConsoleProofs`**: `RingStaysSound`, for every size of the ring and every range
  of the unsigned indices that the size divides; its lemmas are about differences of
  indices that wrap around. `Invariance`, `InterruptsAreNested` and
  `SleepersHaveAReason`: `HartKept` determines, from what a hart does and whether it
  does so in a handler, which locks it holds, its noff and its intena; `Placed` says
  that a handler interrupts threads without locks only and that a thread has one
  hart; a killed reader may be asleep (see 8), so nothing is said of killed;
  `Attended` says who will look at the UART next. `RefinesTerminal` (`Spec =>
  ImplementsTerminal`): a stored character is an `Insert`, Control-H and Control-U
  are `Erase` and `EraseLine` (or nothing), a character read is a `Take`, and every
  other step is a stutter. The lemmas say what `Segment`, the characters from one
  index to another, becomes when an index moves or a slot is written: a slot that is
  written is outside the two segments, because the ring is not full (`SlotsDiffer`).
  `LineKept` is needed for Control-U, which in the code stops at a newline: there is
  none in the line being edited, since it would have committed the line.
  `InputAssumption` asks that of the initial buffer, with that characters are typed
  from `Chars`.

Only model-checked:

* liveness (`EveryoneRuns`, `AlarmComes`, `Served`), which needs ENABLED;
* that closed forms equal the loops (`LoopsAgree`), that the copies of `UserCopy`
  are right (`CopiesExact`), the output sequence of `Console` (`OutputExact`), the
  sums of `LotteryRule`: inductions over sequences and sets;
* `SysCount`, `BufferCache` with `VirtioDisk`, and `FileSystem`.

## 7. Where code and documents disagree

Shown by a run:

* **An inode is lost** (`inode_lost`, `fs.c:360`). The comment above iput() says
  that the last reference to an inode without links frees it. iput() frees the
  inode and unlocks it before it drops its own reference. If another process gets
  the same inode from ialloc() in between, links and unlinks it, its iput() finds
  two references and does not free; the first one then drops the last. The inode
  stays allocated without a name.

Met while modelling; the modules have the behaviour of the code:

* A boost moves every second process (`trap.c:119`). `src/README.md:42` says "iterating
  through our multique structure comprising of all queues and then dequeueing the
  processes (apart from those in queue 0) and enqueueing them to queue 0". The loop
  counts `j` up while `dequeue()` shifts the queue under it, so the entry behind a
  moved one stays. What does hold: whoever is passed over moves to half its position
  (theorem `BoostsHalve`), so it is passed over by no more boosts in a row than the
  logarithm of the number of slots (`LiftedSoon`), and nobody starves
  (`EveryoneRuns`).
* Alarm frames are lost: freeproc does not free `alarm_tf` (`proc.c:280`); the page
  of a process that ends in its handler is gone.
* A tick in kernel mode is not charged: `kerneltrap` does not touch
  `queueticks` (`trap.c:226`), although the README counts ticks since a process
  entered its queue.
* `allocproc` leaves `queue_number` as the last owner left it (`proc.c:252`, the
  assignment is commented out); fork's `enqueue(np, 0)` repairs it.
* `kill(0)` finds a free slot, whose pid is 0, and marks it (`proc.c:848`);
  allocproc does not clear the mark, so the next process there starts killed.
* `in_alarm_handler` is cleared by neither allocproc nor exec: a process in a
  reused slot, or after exec in a handler, never gets an alarm. `AlarmComes`
  excludes such processes.
* `sys_sigalarm` keeps `cur_ticks`, so a first alarm may come early.
* `syscount` counts its own calls. `src/README.md:8` says that the count of the child
  is added to the parent, "which is initially 0. So, now I just print the
  corresponding `syscount`". The wait() of syscount, and its second getSysCount(),
  lie between the two readings, and so do the calls of its child when exec() fails.
  `AnswerSound` says exactly which calls are in the printed number.
* wait() adds a child's counters before copyout(); a wait() with a bad address
  adds them again. `Conserved` accounts for this in `again`.
* The names in `user/syscount.c` shift by one at an entry, "fchmod", that is not
  a system call of this kernel.
* `src/README.md:25` says "a random value is generated between 1 and the total number
  of tickets". The code draws from 1 to the total plus one (`proc.c:23`): the last
  draw names a ticket nobody has and the round is lost. `LotteryRule` lets such a
  draw choose nobody, and `Served` needs `Lucky` for it.
* "Inherit tickets from parent" (`proc.c:256`) never happens: the parent is set
  after allocproc has returned, so every child starts with one ticket.
* On several harts the wtime of waitx can be -1, which is 2^32 - 1 in the uint
  that the caller gets; `WaitTimeBounded` says that it is never less.
* `begin_op` reserves up to LOGSIZE blocks, `log_write` panics at LOGSIZE - 1
  (`log.c:220`) since mkfs counts the header in `nlog`, and it panics also for a
  block that is in the log already. Calls that write all of MAXOPBLOCKS reach the
  panic (log_crash with `OpBlocks = 2`); the calls of this kernel write fewer, and
  `NoLogPanic` and `LogNeverPanics` are about such calls.
* With one or two descriptors left over, two processes in `virtio_disk_rw` wake
  each other until a request finishes: each failed allocation gives its
  descriptors back with a wakeup.
* mkfs rounds the size of the root directory up to the next block even when it
  ends at the end of one (`mkfs.c:166`). With 62 files the size would run past the
  last block, and the next dirlookup() would allocate a block while it reads,
  without iupdate(). The image of the Makefile has fewer files; `BlocksExact`
  fails in the first state of one that has as many.
* create() and link() do not test that the directory they hold still has a name
  (`sysfile.c:262`). When it is removed after their lookup, or is the current
  directory of the caller, the new entry goes into a directory that iput() frees
  later, and the file keeps a link count that no name accounts for. `LinksExact`
  says that this is the only way in which link counts and names part.
* A directory that has been removed while it is somebody's current directory keeps
  its ".." and may get new entries; when its parent is removed and freed too,
  the path ".." reaches panic("ilock: no type"). The model stops there
  (`Panic`), and the invariants hold up to that point.
* sbrk(-n) with n larger than the size wraps around: uvmdealloc() sees a larger
  size and does nothing, and sbrk() succeeds.
* The comment "both tests needed, in case of overflow" in fetchaddr()
  (`syscall.c:18`): walkaddr() refuses an address that overflows anyway; it is
  the second test that matters, for a word that ends after p->sz in a page that
  is mapped.

## 8. Not modelled

* Several harts under MLFQ: the queues have no lock, and the build has one hart.
  wait_lock and p->lock as separate steps.
* Negative tickets; settickets accepts them and total_tickets becomes negative.
* A crash in `FileSystem`: see 3. A kill in the middle of a pipe write, which needs
  a second hart (`KillInside` of `Pipe`).
* The error paths of pipealloc; stati, fstat and the superblock, which copy data;
  iget's panic when the inode table is full, since `FileSystem` has an entry for
  every inode.
* The kernel page table, PTE flags other than PTE_U, and the ELF image.
* How long a process waits in the rest of the level loop of usertrap() after the
  loop has yielded once: `KeepsHartOnlyIfFirst` is about those that never yielded.
* panic() stopping the other harts; a kill of a thread while it runs in user space
  in `Console`. sched() saving and restoring intena is one step with the switch,
  and the two printfs of a fault (`trap.c:80`) are one message.
* That a killed reader of the console wakes up: kill() on another hart between the
  test of killed (`console.c:92`) and sleep() (`console.c:96`) leaves it asleep until
  the next line is typed. The model has these steps; no property rules them out.
* Offsets and counts of readi() and writei() that overflow a uint (`fs.c:477`,
  `fs.c:511`): in `FileSystem` they are small and not negative, so these two tests
  never decide.
* A device error: the device answers every request with status 0, and
  `IntrEntry` is not enabled for another status, for which the handler panics.
* What read() returns for a pipe: `Channel` has the bytes and the open ends only.
* Boot, assembly, the interrupt controller, formatting, string functions: their
  effect is the atomicity of the steps above.
* User programs other than init and syscount: programs may make any calls. The
  shell's parser, malloc and printf are sequential and share nothing. Of programs
  it is assumed only that sigreturn is called in a handler.
* bget's panic when all buffers are in use: a process of `BufferCache` has one
  buffer at a time, and there is one for each.
