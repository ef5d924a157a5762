----------------------------- MODULE MlfqKernel -----------------------------
(***************************************************************************)
(* The kernel built with -DMLFQ on one hart (the Makefile's CPUS := 1):     *)
(* process table, fork/exit/wait/kill, sleep/wakeup, timer and device       *)
(* interrupts, and the MLFQ branch of scheduler().                          *)
(*                                                                          *)
(* On one hart a region that holds a spinlock, or runs before intr_on(),    *)
(* has interrupts off (push_off) and nothing comes between its steps: such  *)
(* a region is one action.  Wherever the code runs with interrupts on there *)
(* is a step boundary, at which a timer or a device interrupt may arrive.   *)
(*                                                                          *)
(* thread[s].pc is where the kernel thread of slot s stands:                *)
(*   none     no process         user    in user space                      *)
(*   preempt  in the level loop that ends usertrap()'s timer branch; arg is *)
(*            the next level to look at                                     *)
(*   fork2    fork() has released np->lock; arg is np                       *)
(*   fork3    fork() has set np->parent; arg is np                          *)
(*   wait     at the head of the loop of wait()/waitx()                     *)
(*   nap      in sys_sleep(), before tickslock; n is n                      *)
(*   sleep    at the head of the loop of sys_sleep(); arg is ticks0, n is n *)
(*   io       in a system call that waits for a device                      *)
(*   ret      syscall() has returned to usertrap()                          *)
(*   exit     in exit(), before wait_lock                                   *)
(***************************************************************************)
EXTENDS RunQueues

CONSTANTS
    BoostPeriod,    \* 48 in usertrap()
    TickMod,        \* ticks is a uint: 2^32
    MaxPid,         \* bound: no program forks once this pid is given out
    Calls,          \* the system calls that the program in each slot makes
    KillPids,       \* arguments of kill()
    SleepArgs       \* arguments of sleep(), as the uint they are compared as

ASSUME BoostAssumption == BoostPeriod \in Nat \ {0} /\ TickMod \in Nat \ {0}
ASSUME ArgAssumption ==
    /\ MaxPid \in Nat
    /\ KillPids \subseteq Nat \ {1}    \* exit() panics for init
    /\ SleepArgs \subseteq 0..TickMod-1

VARIABLES
    state, pid, parent, chan, killed,   \* fields of struct proc
    rq,                                 \* the queues (see RunQueues)
    ticks, nextpid,                     \* globals
    cproc,                              \* c->proc, 0 for none
    sched,                              \* where scheduler() stands
    thread                              \* where each kernel thread stands

vars == <<state, pid, parent, chan, killed, rq, ticks, nextpid, cproc, sched,
          thread>>

initproc == 1       \* userinit() takes the first slot

\* Wait channels: the address of a struct proc, of ticks, of a device's state.
NoChan      == <<"none", 0>>
ProcChan(s) == <<"proc", s>>
TicksChan   == <<"ticks", 0>>
IoChan      == <<"io", 0>>

Thr(pc, a, n) == [pc |-> pc, arg |-> a, n |-> n]
Goto(p, t) == thread' = [thread EXCEPT ![p] = t]

\* p is the process on the hart and its kernel thread stands at pc.
At(p, pc) == cproc = p /\ thread[p].pc = pc

\* What usertrap() requires before it calls syscall() for call c.
Enter(p, c) == At(p, "user") /\ ~killed[p] /\ c \in Calls[p]

\* Where scheduler() stands: in its first loop at slot i, in its second loop
\* at entry j of level, about to lock p, or switched away to a process.
SchedAt(pc, i, level, j, p) == [pc |-> pc, i |-> i, level |-> level, j |-> j, p |-> p]
SchedOff   == SchedAt("off", 0, 0, 0, 0)
SchedStart == SchedAt("enq", 1, 0, 0, 0)

Init ==
    /\ state   = [s \in Slots |-> IF s = initproc THEN "RUNNABLE" ELSE "UNUSED"]
    /\ pid     = [s \in Slots |-> IF s = initproc THEN 1 ELSE 0]
    /\ parent  = [s \in Slots |-> 0]
    /\ chan    = [s \in Slots |-> NoChan]
    /\ killed  = [s \in Slots |-> FALSE]
    /\ rq      = [multique     |-> [l \in Levels |-> IF l = 0 THEN <<initproc>> ELSE <<>>],
                  queue_number |-> [s \in Slots |-> 0],
                  queueticks   |-> [s \in Slots |-> 0]]
    /\ ticks   = 0
    /\ nextpid = 2
    /\ cproc   = 0
    /\ sched   = SchedStart
    /\ thread  = [s \in Slots |-> IF s = initproc THEN Thr("user", 0, 0)
                                                  ELSE Thr("none", 0, 0)]

-----------------------------------------------------------------------------
\* sched(): the hart goes back to scheduler(), which starts a new round.
sched_swtch ==
    /\ cproc' = 0
    /\ sched' = SchedStart

\* Mutant of sleep: the process stays on its queue.
sleepQueued(p, c, t) ==
    /\ chan'  = [chan EXCEPT ![p] = c]
    /\ state' = [state EXCEPT ![p] = "SLEEPING"]
    /\ rq'    = rq
    /\ Goto(p, t)
    /\ sched_swtch

\* sleep(c, lk): the process leaves its queue and the hart.  The thread
\* continues at t when it is scheduled again.
sleep(p, c, t) ==
    /\ chan'  = [chan EXCEPT ![p] = c]
    /\ state' = [state EXCEPT ![p] = "SLEEPING"]
    /\ rq'    = dequeue(rq, pid, p, rq.queue_number[p])
    /\ Goto(p, t)
    /\ sched_swtch

Sleepers(c) == {s \in Slots : state[s] = "SLEEPING" /\ chan[s] = c}

\* wakeup(): state and queues after the sleepers W were made RUNNABLE.
WakeState(W) == [s \in Slots |-> IF s \in W THEN "RUNNABLE" ELSE state[s]]
wakeup(W) ==
    /\ state' = WakeState(W)
    /\ rq' = wake(rq, pid, W)

-----------------------------------------------------------------------------
(* scheduler(), MLFQ branch, one step per iteration of its loops.           *)

\* First loop: every RUNNABLE process is put on its queue if it is not there.
SchedEnqueue ==
    /\ sched.pc = "enq"
    /\ rq' = IF state[sched.i] = "RUNNABLE" THEN requeue(rq, pid, sched.i) ELSE rq
    /\ sched' = IF sched.i < NPROC
                THEN SchedAt("enq", sched.i + 1, 0, 0, 0)
                ELSE SchedAt("scan", 0, 0, 1, 0)
    /\ UNCHANGED <<state, pid, parent, chan, killed, ticks, nextpid, cproc, thread>>

\* Second loop: look at multique[level][j], without a lock.
SchedScan ==
    /\ sched.pc = "scan"
    /\ LET q == rq.multique[sched.level] IN
       sched' = IF sched.j <= Len(q)
                THEN IF state[q[sched.j]] = "RUNNABLE"
                     THEN SchedAt("run", 0, 0, 0, q[sched.j])
                     ELSE SchedAt("scan", 0, sched.level, sched.j + 1, 0)
                ELSE IF sched.level < 3
                     THEN SchedAt("scan", 0, sched.level + 1, 1, 0)
                     ELSE SchedStart
    /\ UNCHANGED <<state, pid, parent, chan, killed, rq, ticks, nextpid, cproc, thread>>

\* acquire(&p->lock), test the state again, swtch(): a thread that slept
\* resumes inside sleep() and clears its chan.
SchedRun ==
    /\ sched.pc = "run"
    /\ IF state[sched.p] = "RUNNABLE"
       THEN /\ state' = [state EXCEPT ![sched.p] = "RUNNING"]
            /\ chan'  = [chan EXCEPT ![sched.p] = NoChan]
            /\ cproc' = sched.p
            /\ sched' = SchedOff
       ELSE /\ sched' = SchedStart
            /\ UNCHANGED <<state, chan, cproc>>
    /\ UNCHANGED <<pid, parent, killed, rq, ticks, nextpid, thread>>

-----------------------------------------------------------------------------
(* Timer and device interrupts.                                             *)

\* Kernel code that runs with interrupts on.
KernelPcs == {"fork2", "fork3", "wait", "nap", "sleep", "io", "ret", "exit"}

\* clockintr(): ticks++ and wakeup(&ticks).
NextTick == (ticks + 1) % TickMod

\* Mutant of charge: the tick is not counted.
chargeNobody(Q, p) == Q

\* usertrap(): p->queueticks++.
charge(Q, p) == setticks(Q, p, Q.queueticks[p] + 1)

\* The queues when the timer branch of usertrap() tests p's slice.
TickQueues(p) ==
    LET Q == charge(wake(rq, pid, Sleepers(TicksChan)), p)
    IN  IF NextTick % BoostPeriod = 0 THEN boost(Q) ELSE Q

\* Mutant of SliceUsed: one tick more than the slice.
SliceOverrun(Q, p) == Q.queueticks[p] > timesliceq[Q.queue_number[p]]

\* queueticks >= timesliceq[queue_number].
SliceUsed(Q, p) == Q.queueticks[p] >= timesliceq[Q.queue_number[p]]

\* A timer interrupt in user space finds the process killed: exit(-1).
TickKilled(p) ==
    /\ At(p, "user") /\ killed[p]
    /\ ticks' = NextTick
    /\ wakeup(Sleepers(TicksChan))
    /\ Goto(p, Thr("exit", 0, 0))
    /\ UNCHANGED <<pid, parent, chan, killed, nextpid, cproc, sched>>

\* ... finds the slice used up: demotion and yield().
TickDemote(p) ==
    /\ At(p, "user") /\ ~killed[p]
    /\ SliceUsed(TickQueues(p), p)
    /\ ticks' = NextTick
    /\ rq' = demote(TickQueues(p), pid, p)
    /\ state' = [WakeState(Sleepers(TicksChan)) EXCEPT ![p] = "RUNNABLE"]
    /\ Goto(p, Thr("preempt", 0, 0))
    /\ sched_swtch
    /\ UNCHANGED <<pid, parent, chan, killed, nextpid>>

\* ... finds slice left: on to the level loop.
TickKeep(p) ==
    /\ At(p, "user") /\ ~killed[p]
    /\ ~SliceUsed(TickQueues(p), p)
    /\ ticks' = NextTick
    /\ rq' = TickQueues(p)
    /\ state' = WakeState(Sleepers(TicksChan))
    /\ Goto(p, Thr("preempt", 0, 0))
    /\ UNCHANGED <<pid, parent, chan, killed, nextpid, cproc, sched>>

\* Mutant of HigherLevel: the level just above is not looked at.
HigherButOne(p, i) ==
    /\ i \in thread[p].arg..(rq.queue_number[p] - 2)
    /\ Len(rq.multique[i]) > 0

\* The level loop: for i < p->queue_number, if sizeofq[i] > 0 then yield().
HigherLevel(p, i) ==
    /\ i \in thread[p].arg..(rq.queue_number[p] - 1)
    /\ Len(rq.multique[i]) > 0

\* The loop reaches a level with an entry and gives up the hart; it goes on
\* with the next level when the process is scheduled again.
PreemptYield(p) ==
    /\ At(p, "preempt")
    /\ \E i \in Levels :
        /\ HigherLevel(p, i)
        /\ \A k \in Levels : k < i => ~HigherLevel(p, k)
        /\ Goto(p, Thr("preempt", i + 1, 0))
    /\ state' = [state EXCEPT ![p] = "RUNNABLE"]
    /\ sched_swtch
    /\ UNCHANGED <<pid, parent, chan, killed, rq, ticks, nextpid>>

\* The loop ends: usertrapret().
PreemptReturn(p) ==
    /\ At(p, "preempt")
    /\ \A i \in Levels : ~HigherLevel(p, i)
    /\ Goto(p, Thr("user", 0, 0))
    /\ UNCHANGED <<state, pid, parent, chan, killed, rq, ticks, nextpid, cproc, sched>>

\* A timer interrupt in the kernel: kerneltrap() yields and charges nobody.
TickKernel(p) ==
    /\ cproc = p /\ thread[p].pc \in KernelPcs
    /\ ticks' = NextTick
    /\ rq' = wake(rq, pid, Sleepers(TicksChan))
    /\ state' = [WakeState(Sleepers(TicksChan)) EXCEPT ![p] = "RUNNABLE"]
    /\ sched_swtch
    /\ UNCHANGED <<pid, parent, chan, killed, nextpid, thread>>

\* A timer interrupt in scheduler(): myproc() is 0, no yield().
TickIdle ==
    /\ cproc = 0
    /\ ticks' = NextTick
    /\ wakeup(Sleepers(TicksChan))
    /\ UNCHANGED <<pid, parent, chan, killed, nextpid, cproc, sched, thread>>

\* A device interrupt in user space: its wakeup(), then usertrap() tests killed.
DevUser(p) ==
    /\ At(p, "user")
    /\ wakeup(Sleepers(IoChan))
    /\ Goto(p, IF killed[p] THEN Thr("exit", 0, 0) ELSE thread[p])
    /\ UNCHANGED <<pid, parent, chan, killed, ticks, nextpid, cproc, sched>>

\* A device interrupt in the kernel or in scheduler().
DevKernel ==
    /\ cproc # 0 => thread[cproc].pc \in KernelPcs
    /\ wakeup(Sleepers(IoChan))
    /\ UNCHANGED <<pid, parent, chan, killed, ticks, nextpid, cproc, sched, thread>>

-----------------------------------------------------------------------------
(* fork(), exit(), wait().                                                  *)

\* freeproc(np) with the queues Q: pid becomes 0 before dequeue() compares pids.
freeproc(np, Q) ==
    /\ rq'     = dequeue(Q, [pid EXCEPT ![np] = 0], np, Q.queue_number[np])
    /\ pid'    = [pid EXCEPT ![np] = 0]
    /\ parent' = [parent EXCEPT ![np] = 0]
    /\ chan'   = [chan EXCEPT ![np] = NoChan]
    /\ killed' = [killed EXCEPT ![np] = FALSE]
    /\ state'  = [state EXCEPT ![np] = "UNUSED"]

\* fork() up to release(&np->lock): allocproc() found slot np.  A concurrent
\* exit may have freed a slot the scan had passed, so np is any free slot.
\* allocproc() leaves killed and queue_number as the last owner left them.
ForkAlloc(p, np) ==
    /\ Enter(p, "fork") /\ state[np] = "UNUSED" /\ nextpid <= MaxPid
    /\ pid'     = [pid EXCEPT ![np] = nextpid]
    /\ nextpid' = nextpid + 1
    /\ state'   = [state EXCEPT ![np] = "USED"]
    /\ rq'      = setticks(rq, np, 0)
    /\ Goto(p, Thr("fork2", np, 0))
    /\ UNCHANGED <<parent, chan, killed, ticks, cproc, sched>>

\* Memory ran out in allocproc() or uvmcopy(): freeproc(np), return -1.  The
\* pid is spent; queueticks was cleared if allocproc() got that far.
ForkNoMemory(p, np) ==
    /\ Enter(p, "fork") /\ state[np] = "UNUSED" /\ nextpid <= MaxPid
    /\ nextpid' = nextpid + 1
    /\ \E qt \in {rq.queueticks[np], 0} : freeproc(np, setticks(rq, np, qt))
    /\ Goto(p, Thr("ret", 0, 0))
    /\ UNCHANGED <<ticks, cproc, sched>>

\* No UNUSED slot: return -1.
ForkFull(p) ==
    /\ Enter(p, "fork") /\ nextpid <= MaxPid
    /\ \A s \in Slots : state[s] # "UNUSED"
    /\ Goto(p, Thr("ret", 0, 0))
    /\ UNCHANGED <<state, pid, parent, chan, killed, rq, ticks, nextpid, cproc, sched>>

\* np->parent = p under wait_lock.
ForkParent(p) ==
    /\ At(p, "fork2")
    /\ parent' = [parent EXCEPT ![thread[p].arg] = p]
    /\ Goto(p, [thread[p] EXCEPT !.pc = "fork3"])
    /\ UNCHANGED <<state, pid, chan, killed, rq, ticks, nextpid, cproc, sched>>

\* np->state = RUNNABLE, enqueue(np, 0); the child starts in forkret().
ForkRunnable(p) ==
    /\ At(p, "fork3")
    /\ LET np == thread[p].arg IN
        /\ state'  = [state EXCEPT ![np] = "RUNNABLE"]
        /\ rq'     = enqueue(rq, pid, np, 0)
        /\ thread' = [thread EXCEPT ![np] = Thr("user", 0, 0), ![p] = Thr("ret", 0, 0)]
    /\ UNCHANGED <<pid, parent, chan, killed, ticks, nextpid, cproc, sched>>

\* sys_exit().  init never exits: exit() panics for it.
ExitCall(p) ==
    /\ Enter(p, "exit") /\ p # initproc
    /\ Goto(p, Thr("exit", 0, 0))
    /\ UNCHANGED <<state, pid, parent, chan, killed, rq, ticks, nextpid, cproc, sched>>

\* Mutant of ExitWakes: exit() does not wake the parent.
ExitWakesInit(p) ==
    IF \E pp \in Slots : parent[pp] = p THEN Sleepers(ProcChan(initproc)) ELSE {}

\* The sleepers exit() wakes: init if it inherits a child, and the parent.
ExitWakes(p) ==
    Sleepers(ProcChan(parent[p])) \cup
    (IF \E pp \in Slots : parent[pp] = p THEN Sleepers(ProcChan(initproc)) ELSE {})

\* Mutant of ExitZombie: no reparent().
ExitOrphans(p) ==
    /\ At(p, "exit") /\ p # initproc
    /\ state'  = [WakeState(ExitWakes(p)) EXCEPT ![p] = "ZOMBIE"]
    /\ rq'     = dequeue(wake(rq, pid, ExitWakes(p)), pid, p, rq.queue_number[p])
    /\ Goto(p, Thr("none", 0, 0))
    /\ sched_swtch
    /\ UNCHANGED <<pid, parent, chan, killed, ticks, nextpid>>

\* exit() from wait_lock on: reparent(p), wakeup(p->parent), ZOMBIE, dequeue.
ExitZombie(p) ==
    /\ At(p, "exit") /\ p # initproc
    /\ parent' = [s \in Slots |-> IF parent[s] = p THEN initproc ELSE parent[s]]
    /\ state'  = [WakeState(ExitWakes(p)) EXCEPT ![p] = "ZOMBIE"]
    /\ rq'     = dequeue(wake(rq, pid, ExitWakes(p)), pid, p, rq.queue_number[p])
    /\ Goto(p, Thr("none", 0, 0))
    /\ sched_swtch
    /\ UNCHANGED <<pid, chan, killed, ticks, nextpid>>

Children(p) == {s \in Slots : parent[s] = p}
Zombies(p)  == {s \in Children(p) : state[s] = "ZOMBIE"}

\* sys_wait() and sys_waitx() up to acquire(&wait_lock).
WaitCall(p) ==
    /\ Enter(p, "wait")
    /\ Goto(p, Thr("wait", 0, 0))
    /\ UNCHANGED <<state, pid, parent, chan, killed, rq, ticks, nextpid, cproc, sched>>

\* The scan finds a zombie child, the first of the table, and frees it.
WaitReap(p) ==
    /\ At(p, "wait")
    /\ \E np \in Zombies(p) : (\A z \in Zombies(p) : np <= z) /\ freeproc(np, rq)
    /\ Goto(p, Thr("ret", 0, 0))
    /\ UNCHANGED <<ticks, nextpid, cproc, sched>>

\* wait() returns -1: copyout() failed on the first zombie child, which stays,
\* or there is no zombie and the caller has no child or was killed.
WaitFail(p) ==
    /\ At(p, "wait")
    /\ Zombies(p) # {} \/ Children(p) = {} \/ killed[p]
    /\ Goto(p, Thr("ret", 0, 0))
    /\ UNCHANGED <<state, pid, parent, chan, killed, rq, ticks, nextpid, cproc, sched>>

\* No child has exited yet: sleep(p, &wait_lock).
WaitSleep(p) ==
    /\ At(p, "wait")
    /\ Zombies(p) = {} /\ Children(p) # {} /\ ~killed[p]
    /\ sleep(p, ProcChan(p), Thr("wait", 0, 0))
    /\ UNCHANGED <<pid, parent, killed, ticks, nextpid>>

-----------------------------------------------------------------------------
(* kill(), sleep(n), blocking I/O, and the way back to user space.          *)

\* The first slot of the table that holds pid v.
HasPid(t, v) == pid[t] = v /\ \A u \in Slots : u < t => pid[u] # v

\* kill(v): marks the victim; a sleeping one is made RUNNABLE and enqueue()
\* clears its queueticks.
Kill(p, v) ==
    /\ Enter(p, "kill")
    /\ \/ \E t \in Slots :
            /\ HasPid(t, v)
            /\ killed' = [killed EXCEPT ![t] = TRUE]
            /\ IF state[t] = "SLEEPING"
               THEN /\ state' = [state EXCEPT ![t] = "RUNNABLE"]
                    /\ rq' = enqueue(rq, pid, t, rq.queue_number[t])
               ELSE UNCHANGED <<state, rq>>
       \/ /\ \A t \in Slots : pid[t] # v
          /\ UNCHANGED <<killed, state, rq>>
    /\ Goto(p, Thr("ret", 0, 0))
    /\ UNCHANGED <<pid, parent, chan, ticks, nextpid, cproc, sched>>

\* sys_sleep(n): ticks - ticks0 < n in uint arithmetic.
StillEarly(t0, n) == (ticks - t0) % TickMod < n

SleepCall(p, n) ==
    /\ Enter(p, "sleep")
    /\ Goto(p, Thr("nap", 0, n))
    /\ UNCHANGED <<state, pid, parent, chan, killed, rq, ticks, nextpid, cproc, sched>>

\* sys_sleep() has tickslock: ticks0 = ticks.
SleepBegin(p) ==
    /\ At(p, "nap")
    /\ IF StillEarly(ticks, thread[p].n) /\ ~killed[p]
       THEN sleep(p, TicksChan, Thr("sleep", ticks, thread[p].n))
       ELSE Goto(p, Thr("ret", 0, 0)) /\ UNCHANGED <<chan, state, rq, cproc, sched>>
    /\ UNCHANGED <<pid, parent, killed, ticks, nextpid>>

\* sys_sleep() woke up: it returns when n ticks have passed or it was killed.
SleepResume(p) ==
    /\ At(p, "sleep")
    /\ IF StillEarly(thread[p].arg, thread[p].n) /\ ~killed[p]
       THEN sleep(p, TicksChan, thread[p])
       ELSE Goto(p, Thr("ret", 0, 0)) /\ UNCHANGED <<chan, state, rq, cproc, sched>>
    /\ UNCHANGED <<pid, parent, killed, ticks, nextpid>>

\* A call that uses a device.  Whether it has to wait is up to the device.
IoCall(p) ==
    /\ Enter(p, "io")
    /\ Goto(p, Thr("io", 0, 0))
    /\ UNCHANGED <<state, pid, parent, chan, killed, rq, ticks, nextpid, cproc, sched>>

\* Wait for the device; exit() may do so too, when it closes files.
IoSleep(p) ==
    /\ "io" \in Calls[p]
    /\ \/ At(p, "io")
       \/ At(p, "exit") /\ p # initproc
    /\ sleep(p, IoChan, thread[p])
    /\ UNCHANGED <<pid, parent, killed, ticks, nextpid>>

IoDone(p) ==
    /\ At(p, "io")
    /\ Goto(p, Thr("ret", 0, 0))
    /\ UNCHANGED <<state, pid, parent, chan, killed, rq, ticks, nextpid, cproc, sched>>

\* usertrap() after syscall(): exit(-1) if killed, otherwise usertrapret().
TrapReturn(p) ==
    /\ At(p, "ret")
    /\ Goto(p, IF killed[p] THEN Thr("exit", 0, 0) ELSE Thr("user", 0, 0))
    /\ UNCHANGED <<state, pid, parent, chan, killed, rq, ticks, nextpid, cproc, sched>>

\* A system call of a killed process: usertrap() calls exit(-1) first.
SyscallKilled(p) ==
    /\ At(p, "user") /\ killed[p]
    /\ Goto(p, Thr("exit", 0, 0))
    /\ UNCHANGED <<state, pid, parent, chan, killed, rq, ticks, nextpid, cproc, sched>>

\* An unexpected scause: setkilled(p), then exit(-1).
Fault(p) ==
    /\ At(p, "user") /\ "fault" \in Calls[p] /\ p # initproc
    /\ killed' = [killed EXCEPT ![p] = TRUE]
    /\ Goto(p, Thr("exit", 0, 0))
    /\ UNCHANGED <<state, pid, parent, chan, rq, ticks, nextpid, cproc, sched>>

-----------------------------------------------------------------------------
Scheduler == SchedEnqueue \/ SchedScan \/ SchedRun

Tick == TickIdle \/ \E p \in Slots :
            TickKilled(p) \/ TickDemote(p) \/ TickKeep(p) \/ TickKernel(p)

\* What the kernel does by itself once a process is inside it.
KernelStep(p) ==
    \/ PreemptYield(p) \/ PreemptReturn(p)
    \/ ForkParent(p) \/ ForkRunnable(p)
    \/ ExitZombie(p)
    \/ WaitReap(p) \/ WaitFail(p) \/ WaitSleep(p)
    \/ SleepBegin(p) \/ SleepResume(p) \/ IoSleep(p) \/ IoDone(p)
    \/ TrapReturn(p)

\* What a program does: system calls and faults.
UserStep(p) ==
    \/ \E np \in Slots : ForkAlloc(p, np) \/ ForkNoMemory(p, np)
    \/ ForkFull(p) \/ ExitCall(p) \/ WaitCall(p)
    \/ \E v \in KillPids : Kill(p, v)
    \/ \E n \in SleepArgs : SleepCall(p, n)
    \/ IoCall(p) \/ SyscallKilled(p) \/ Fault(p)

Next ==
    \/ Scheduler \/ Tick \/ DevKernel
    \/ \E p \in Slots : KernelStep(p) \/ UserStep(p) \/ DevUser(p)

Spec == Init /\ [][Next]_vars

\* The hart keeps executing scheduler() while no process runs, the timer keeps
\* interrupting, and kernel code makes progress between two interrupts (the
\* timer interval is far longer than any of these regions).
FairSpec ==
    /\ Spec
    /\ WF_vars(Scheduler) /\ WF_vars(Tick)
    /\ SF_vars(\E p \in Slots : KernelStep(p))

-----------------------------------------------------------------------------
States == {"UNUSED", "USED", "SLEEPING", "RUNNABLE", "RUNNING", "ZOMBIE"}
Pcs == {"none", "user", "preempt"} \cup KernelPcs
Chans == {NoChan, TicksChan, IoChan} \cup {ProcChan(s) : s \in Slots}
SchedStates ==
    [pc : {"off", "enq", "scan", "run"}, i : 0..NPROC, level : Levels, j : Nat,
     p : 0..NPROC]
ThreadStates == [pc : Pcs, arg : Nat, n : Nat]

\* Every variable has its type.
TypeOK ==
    /\ state \in [Slots -> States]
    /\ pid \in [Slots -> Nat]
    /\ parent \in [Slots -> 0..NPROC]
    /\ chan \in [Slots -> Chans]
    /\ killed \in [Slots -> BOOLEAN]
    /\ rq \in QueueStates
    /\ ticks \in Nat /\ nextpid \in Nat
    /\ cproc \in 0..NPROC
    /\ sched \in SchedStates
    /\ thread \in [Slots -> ThreadStates]

\* The processes that want the hart or have it.
Active == {s \in Slots : state[s] \in {"RUNNABLE", "RUNNING"}}

\* The queues hold exactly the RUNNABLE and the RUNNING processes, each once
\* and at its own level: nobody is lost, nobody is queued twice, and no
\* sleeping, exited or freed slot is left behind for scheduler() to find.
QueueExact == QueuesHold(rq, Active)

\* A pid names one process: dequeue() and the duplicate test of enqueue(),
\* which compare pids, act on the process they are called for.
PidsDistinct ==
    \A s \in Slots :
        /\ pid[s] < nextpid
        /\ state[s] = "UNUSED" <=> pid[s] = 0
        /\ \A t \in Slots : pid[s] = pid[t] => s = t \/ pid[s] = 0

\* scheduler() runs exactly while no process does, its loop variables stay in
\* range, and the process it is about to take is RUNNABLE.
HartOwned ==
    /\ \A s \in Slots : state[s] = "RUNNING" <=> cproc = s
    /\ sched.pc = "off" <=> cproc # 0
    /\ sched.pc = "enq" => sched.i \in Slots
    /\ sched.pc = "scan" => sched.j >= 1
    /\ sched.pc = "run" => sched.p \in Slots /\ state[sched.p] = "RUNNABLE"

\* Between the release of np->lock and RUNNABLE, fork() owns the slot np: it
\* stays USED, whatever the other processes do.
Forking(p) == thread[p].pc \in {"fork2", "fork3"}
ForkHeld ==
    \A p \in Slots : Forking(p) =>
        /\ p \in Active
        /\ thread[p].arg \in Slots /\ state[thread[p].arg] = "USED"
        /\ \A r \in Slots : Forking(r) /\ thread[r].arg = thread[p].arg => r = p

\* No process holds more user ticks than the slice of its level allows:
\* the demotion test of usertrap() is never late, whatever sleep(), wakeup(),
\* kill() and the boost do to queueticks in between.
SliceKept == \A s \in Slots : rq.queueticks[s] < timesliceq[rq.queue_number[s]]

\* The RUNNING process is the one on the hart, and the candidate scheduler()
\* found without a lock is still RUNNABLE when it takes the lock: interrupts
\* between the two never take a process away.
RunnerAndCandidate ==
    /\ \A s \in Slots : state[s] = "RUNNING" <=> cproc = s
    /\ sched.pc = "run" => state[sched.p] = "RUNNABLE"

\* The inductive invariant behind QueueExact, SliceKept and RunnerAndCandidate.
IInv == TypeOK /\ PidsDistinct /\ HartOwned /\ ForkHeld /\ QueueExact /\ SliceKept

\* No wakeup is lost: a process asleep in wait() has no zombie child, its own
\* or one inherited through reparent(); one asleep in sys_sleep() still has
\* ticks to wait, also across the wrap-around of ticks; and a killed process is
\* asleep in neither, whose loops test killed before they sleep.
SleepsForAReason ==
    \A s \in Slots : state[s] = "SLEEPING" =>
        /\ chan[s] = ProcChan(s) => Zombies(s) = {}
        /\ chan[s] = TicksChan => StillEarly(thread[s].arg, thread[s].n)
        /\ killed[s] => chan[s] = IoChan

\* Every process but init has a parent that is alive and can reap it, at
\* every moment of fork(), exit() and reparent().
ParentAlive ==
    \A s \in Slots \ {initproc} :
        state[s] \in {"SLEEPING", "RUNNABLE", "RUNNING", "ZOMBIE"} =>
            /\ parent[s] # 0
            /\ state[parent[s]] \in {"SLEEPING", "RUNNABLE", "RUNNING"}

\* What keeps ParentAlive: init never exits, and fork() has made the child its
\* own before the child starts.
FamilyKept ==
    /\ state[initproc] \in {"SLEEPING", "RUNNABLE", "RUNNING"}
    /\ \A p \in Slots : thread[p].pc = "fork3" => parent[thread[p].arg] = p
    /\ ParentAlive

\* A process that keeps the hart across a timer interrupt outranks every
\* RUNNABLE process: the level loop that ends usertrap() missed nobody.
KeepsHartOnlyIfFirst ==
    [][\A p \in Slots :
        (At(p, "preempt") /\ thread[p].arg = 0 /\ thread'[p].pc = "user") =>
            \A s \in Slots :
                state'[s] = "RUNNABLE" => rq'.queue_number[s] >= rq'.queue_number[p]]_vars

\* What a priority boost guarantees: a process at position i of a lower level
\* is either moved to level 0 or, passed over, moves up to position i \div 2.
\* So a process at position i is in level 0 after about log2(i) boosts.
BoostHalves ==
    [][\A p \in Slots :
        (At(p, "user") /\ ~killed[p] /\ ticks' # ticks /\ ticks' % BoostPeriod = 0) =>
            \A l \in 1..3 : \A i \in 1..Len(rq.multique[l]) :
                LET s == rq.multique[l][i] IN
                \/ rq'.queue_number[s] = 0
                \/ s = p /\ state'[p] = "RUNNABLE"
                \/ \E k \in 1..(i \div 2) : k <= Len(rq'.multique[l]) /\ rq'.multique[l][k] = s]_vars

\* Processes that only compute share the hart: each one that is RUNNABLE runs
\* in the end, from whatever level the demotions have brought it to.
EveryoneRuns ==
    \A s \in Slots : state[s] = "RUNNABLE" ~> state[s] = "RUNNING"

=============================================================================
