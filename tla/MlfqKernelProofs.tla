-------------------------- MODULE MlfqKernelProofs --------------------------
(***************************************************************************)
(* The queues of the MLFQ kernel hold exactly the processes that want or    *)
(* have the hart, and no slice is overrun: for any number of slots, slices, *)
(* boost period, tick width and programs.                                   *)
(***************************************************************************)
EXTENDS MlfqKernel, RunQueuesProofs

\* Most leaves are first-order: Zenon proves them. The others name SMT.
USE Zenon

\* The timer count stays a natural number.
LEMMA TickNat ==
    ASSUME ticks \in Nat
    PROVE  NextTick \in Nat
BY BoostAssumption, SMT DEF NextTick

\* scheduler() starts its round with its variables in range.
LEMMA StartOK ==
    /\ SchedStart \in SchedStates /\ SchedOff \in SchedStates
    /\ SchedStart.pc = "enq" /\ SchedStart.i \in Slots
    /\ SchedOff.pc = "off"
<1>1. SchedStart = [pc |-> "enq", i |-> 1, level |-> 0, j |-> 0, p |-> 0]
  BY DEF SchedStart, SchedAt
<1>2. 0 \in 0..NPROC /\ 1 \in 0..NPROC /\ 1 \in Slots /\ 0 \in Levels
  BY NPROCAssumption, SMT DEF Slots, Levels
<1>3. SchedStart \in SchedStates /\ SchedOff \in SchedStates
  BY <1>1, <1>2 DEF SchedOff, SchedAt, SchedStates
<1>4. SchedOff.pc = "off"
  BY DEF SchedOff, SchedAt
<1> QED BY <1>1, <1>2, <1>3, <1>4

\* A step keeps what fork() owns if no thread enters fork(), the forking
\* threads stay active, and no USED slot changes its state.
LEMMA ForkHeldKeeps ==
    ASSUME ForkHeld,
           \A r \in Slots : Forking(r)' => Forking(r) /\ thread'[r] = thread[r],
           \A r \in Slots : Forking(r)' => r \in Active',
           \A s \in Slots : state[s] = "USED" => state'[s] = "USED"
    PROVE  ForkHeld'
<1> SUFFICES ASSUME NEW q \in Slots, Forking(q)'
             PROVE  /\ q \in Active'
                    /\ thread'[q].arg \in Slots /\ state'[thread'[q].arg] = "USED"
                    /\ \A r \in Slots : Forking(r)' /\ thread'[r].arg = thread'[q].arg => r = q
  BY DEF ForkHeld
<1>1. Forking(q) /\ thread'[q] = thread[q]
  OBVIOUS
<1>2. /\ thread[q].arg \in Slots /\ state[thread[q].arg] = "USED"
      /\ \A r \in Slots : Forking(r) /\ thread[r].arg = thread[q].arg => r = q
  BY <1>1 DEF ForkHeld
<1> QED BY <1>1, <1>2

\* The queues after wakeup() of sleepers W, when C is who is active then.
LEMMA WakeFacts ==
    ASSUME IInv, NEW W \in SUBSET Slots, \A s \in W : state[s] = "SLEEPING",
           NEW C \in SUBSET Slots, \A s \in Slots : s \in C <=> s \in Active \/ s \in W
    PROVE  /\ wake(rq, pid, W) \in QueueStates
           /\ QueuesHold(wake(rq, pid, W), C)
           /\ wake(rq, pid, W).queue_number = rq.queue_number
           /\ wake(rq, pid, W).queueticks = rq.queueticks
<1>1. rq \in QueueStates /\ pid \in [Slots -> Nat] /\ QueuesHold(rq, Active)
  BY DEF IInv, TypeOK, QueueExact
<1>2. Active \in SUBSET Slots /\ W \cap Active = {}
  BY DEF Active
<1>3. \A s \in Active, t \in W : pid[s] # pid[t]
  BY <1>2 DEF IInv, PidsDistinct, Active
<1> QED BY <1>1, <1>2, <1>3, WakeHolds, SMTT(60)

\* The queues after enqueue() of a process that was not active.
LEMMA EnqueueFacts ==
    ASSUME IInv, NEW t \in Slots, t \notin Active, state[t] # "UNUSED", NEW l \in Levels,
           NEW C \in SUBSET Slots, \A s \in Slots : s \in C <=> s \in Active \/ s = t
    PROVE  LET R == enqueue(rq, pid, t, l)
           IN  /\ R \in QueueStates
               /\ QueuesHold(R, C)
               /\ R.queue_number[t] = l /\ R.queueticks[t] = 0
               /\ \A s \in Slots \ {t} :
                    /\ R.queue_number[s] = rq.queue_number[s]
                    /\ R.queueticks[s] = rq.queueticks[s]
<1>1. /\ rq \in QueueStates /\ pid \in [Slots -> Nat] /\ QueuesHold(rq, Active)
      /\ Active \in SUBSET Slots
  BY DEF IInv, TypeOK, QueueExact, Active
<1>2. \A s \in Active : pid[s] # pid[t]
  BY DEF Active, IInv, PidsDistinct
<1>3. enqueue(rq, pid, t, l) \in QueueStates
  BY <1>1, <1>2, EnqueueHolds
<1>4. QueuesHold(enqueue(rq, pid, t, l), C)
  BY <1>1, <1>2, EnqueueHolds
<1>5. ~Queued(rq, pid, t, l)
  BY <1>1, <1>2, QueuedMeansHeld
<1>6. /\ rq.queue_number \in [Slots -> Levels]
      /\ rq.queueticks \in [Slots -> Nat]
  BY <1>1 DEF QueueStates
<1>7. /\ enqueue(rq, pid, t, l).queue_number = [rq.queue_number EXCEPT ![t] = l]
      /\ enqueue(rq, pid, t, l).queueticks = [rq.queueticks EXCEPT ![t] = 0]
  BY <1>5 DEF enqueue
<1> QED BY <1>3, <1>4, <1>6, <1>7

\* A step that moves one kernel thread and nothing the invariant speaks of.
LEMMA GotoKeeps ==
    ASSUME IInv, NEW p \in Slots, NEW t \in ThreadStates, t.pc \notin {"fork2", "fork3"},
           Goto(p, t), killed' \in [Slots -> BOOLEAN],
           UNCHANGED <<state, pid, parent, chan, rq, ticks, nextpid, cproc, sched>>
    PROVE  IInv'
<1>1. TypeOK'
  BY DEF IInv, TypeOK, Goto
<1>2. PidsDistinct'
  BY DEF IInv, PidsDistinct
<1>3. HartOwned'
  BY DEF IInv, HartOwned
<1>4. ForkHeld'
  BY SMT DEF IInv, TypeOK, ForkHeld, Forking, Active, Goto
<1>5. QueueExact' /\ SliceKept'
  BY DEF IInv, QueueExact, SliceKept, Active
<1> QED BY <1>1, <1>2, <1>3, <1>4, <1>5 DEF IInv

\* sleep(): the process leaves its queue and nobody else does.
LEMMA SleepKeeps ==
    ASSUME IInv, NEW p \in Slots, cproc = p, NEW c \in Chans,
           NEW t \in ThreadStates, t.pc \notin {"fork2", "fork3"},
           sleep(p, c, t), UNCHANGED <<pid, parent, killed, ticks, nextpid>>
    PROVE  IInv'
<1>1. /\ rq \in QueueStates /\ pid \in [Slots -> Nat] /\ QueuesHold(rq, Active)
      /\ state \in [Slots -> States] /\ state[p] = "RUNNING"
  BY DEF IInv, TypeOK, QueueExact, HartOwned
<1>2. /\ state' = [state EXCEPT ![p] = "SLEEPING"] /\ chan' = [chan EXCEPT ![p] = c]
      /\ cproc' = 0 /\ sched' = SchedStart /\ thread' = [thread EXCEPT ![p] = t]
  BY DEF sleep, sched_swtch, Goto
<1>3. rq' = dequeue(rq, pid, p, rq.queue_number[p])
  BY DEF sleep
<1>4. /\ p \in Active /\ Active \in SUBSET Slots /\ Active' \in SUBSET Slots
      /\ \A s \in Slots : s \in Active' <=> s \in Active /\ s # p
  BY <1>1, <1>2 DEF Active
<1>5. \A s \in Active : pid[s] = pid[p] => s = p
  BY <1>1 DEF IInv, PidsDistinct, Active
<1>6. /\ rq' \in QueueStates /\ QueuesHold(rq', Active')
      /\ rq'.queue_number = rq.queue_number /\ rq'.queueticks = rq.queueticks
  BY <1>1, <1>3, <1>4, <1>5, DequeueHolds, SMT
<1>7. TypeOK'
  BY <1>1, <1>2, <1>6, StartOK, NPROCAssumption, SMT DEF IInv, TypeOK, States
<1>8. PidsDistinct'
  BY <1>1, <1>2 DEF IInv, PidsDistinct
<1>9. HartOwned'
  BY <1>1, <1>2, StartOK, SMT DEF IInv, HartOwned, Slots
<1>10. ForkHeld'
  BY <1>1, <1>2, <1>4 DEF IInv, TypeOK, ForkHeld, Forking
<1>11. QueueExact' /\ SliceKept'
  BY <1>6 DEF IInv, QueueExact, SliceKept
<1> QED BY <1>7, <1>8, <1>9, <1>10, <1>11 DEF IInv

\* wakeup() by an interrupt, with the thread of the interrupted process moved
\* or left, and the hart kept.
LEMMA WakeKeeps ==
    ASSUME IInv, NEW W \in SUBSET Slots, \A s \in W : state[s] = "SLEEPING",
           wakeup(W), ticks' \in Nat,
           \/ thread' = thread
           \/ \E p \in Slots, t \in ThreadStates : t.pc \notin {"fork2", "fork3"} /\ Goto(p, t),
           UNCHANGED <<pid, parent, chan, killed, nextpid, cproc, sched>>
    PROVE  IInv'
<1> USE DEF wakeup, WakeState, Goto
<1>1. state \in [Slots -> States] /\ state' \in [Slots -> States]
  BY DEF IInv, TypeOK, States
<1>2. /\ Active' \in SUBSET Slots
      /\ \A s \in Slots : s \in Active' <=> s \in Active \/ s \in W
  BY <1>1 DEF Active
<1>3. /\ rq' \in QueueStates /\ QueuesHold(rq', Active')
      /\ rq'.queue_number = rq.queue_number /\ rq'.queueticks = rq.queueticks
  BY <1>2, WakeFacts
<1>4. thread' \in [Slots -> ThreadStates]
  BY DEF IInv, TypeOK
<1>5. TypeOK'
  BY <1>1, <1>3, <1>4 DEF IInv, TypeOK
<1>6. PidsDistinct'
  BY <1>1 DEF IInv, PidsDistinct
<1>7. HartOwned'
  BY <1>1 DEF IInv, HartOwned
<1>8. ForkHeld'
  <2>1. \A s \in Slots : state[s] = "USED" => state'[s] = "USED"
    BY <1>1
  <2>2. \A r \in Slots : Forking(r)' => Forking(r) /\ thread'[r] = thread[r]
    BY DEF IInv, TypeOK, Forking
  <2> QED BY <2>1, <2>2, <1>2, SMT DEF IInv, ForkHeld, Forking
<1>9. QueueExact' /\ SliceKept'
  BY <1>3 DEF IInv, QueueExact, SliceKept
<1> QED BY <1>5, <1>6, <1>7, <1>8, <1>9 DEF IInv

\* yield(), after the queues were brought in order: the hart goes back to
\* scheduler() and the process stays active.
LEMMA YieldKeeps ==
    ASSUME IInv, NEW p \in Slots, cproc = p, state'[p] = "RUNNABLE",
           state' \in [Slots -> States],
           \A s \in Slots \ {p} :
            state'[s] # state[s] => state[s] = "SLEEPING" /\ state'[s] = "RUNNABLE",
           rq' \in QueueStates, QueueExact', SliceKept', ticks' \in Nat, sched_swtch,
           \/ thread' = thread
           \/ \E t \in ThreadStates : t.pc \notin {"fork2", "fork3"} /\ Goto(p, t),
           UNCHANGED <<pid, parent, chan, killed, nextpid>>
    PROVE  IInv'
<1>1. state \in [Slots -> States] /\ state[p] = "RUNNING"
  BY DEF IInv, TypeOK, HartOwned
<1>2. thread' \in [Slots -> ThreadStates]
  BY DEF IInv, TypeOK, Goto
<1>3. TypeOK'
  BY <1>2, StartOK, NPROCAssumption, SMT DEF IInv, TypeOK, sched_swtch
<1>4. PidsDistinct'
  BY <1>1 DEF IInv, PidsDistinct
<1>5. HartOwned'
  BY <1>1, StartOK, SMT DEF IInv, HartOwned, sched_swtch, Slots
<1>6. ForkHeld'
  <2>1. \A s \in Slots : state[s] = "USED" => state'[s] = "USED"
    BY <1>1
  <2>2. \A r \in Slots : Forking(r)' => Forking(r) /\ thread'[r] = thread[r]
    BY DEF IInv, TypeOK, Forking, Goto
  <2>3. \A s \in Slots : s \in Active => s \in Active'
    BY <1>1 DEF Active
  <2> QED BY <2>1, <2>2, <2>3, SMT DEF IInv, ForkHeld, Forking
<1> QED BY <1>3, <1>4, <1>5, <1>6 DEF IInv

\* The queues when usertrap() tests the slice: everybody who is active is
\* queued, and only the interrupted process may have used up its slice.
LEMMA TickFacts ==
    ASSUME IInv, NEW p \in Slots,
           NEW C \in SUBSET Slots,
           \A s \in Slots : s \in C <=> s \in Active \/ s \in Sleepers(TicksChan)
    PROVE  /\ TickQueues(p) \in QueueStates
           /\ QueuesHold(TickQueues(p), C)
           /\ \A s \in Slots \ {p} :
                TickQueues(p).queueticks[s] < timesliceq[TickQueues(p).queue_number[s]]
<1> DEFINE W == Sleepers(TicksChan)
           Q1 == wake(rq, pid, W)
           Q2 == charge(Q1, p)
<1>1. W \in SUBSET Slots /\ \A s \in W : state[s] = "SLEEPING"
  BY DEF Sleepers
<1>2. /\ Q1 \in QueueStates /\ QueuesHold(Q1, C)
      /\ Q1.queue_number = rq.queue_number /\ Q1.queueticks = rq.queueticks
  BY <1>1, WakeFacts
<1> HIDE DEF Q1
<1>3. /\ Q2 \in QueueStates /\ Q2.multique = Q1.multique /\ Q2.queue_number = Q1.queue_number
      /\ \A s \in Slots \ {p} : Q2.queueticks[s] = Q1.queueticks[s]
  <2>1. Q1.queueticks[p] + 1 \in Nat
    BY <1>2, SMT DEF QueueStates
  <2> QED BY <2>1, <1>2, SetTicksHolds, SMT DEF charge, TicksSet
<1>4. TickQueues(p) = IF NextTick % BoostPeriod = 0 THEN boost(Q2) ELSE Q2
  BY DEF TickQueues, Q1
<1> HIDE DEF Q2, W
<1>5. QueuesHold(Q2, C)
  BY <1>2, <1>3 DEF QueuesHold
<1>6. \A s \in Slots \ {p} : Q2.queueticks[s] < timesliceq[Q2.queue_number[s]]
  BY <1>2, <1>3 DEF IInv, SliceKept
<1>7. CASE NextTick % BoostPeriod = 0
  <2> DEFINE Q3 == boost(Q2)
  <2>1. /\ Q3 \in QueueStates /\ QueuesHold(Q3, C)
        /\ \A s \in Slots : \/ Q3.queue_number[s] = 0 /\ Q3.queueticks[s] = 0
                            \/ /\ Q3.queue_number[s] = Q2.queue_number[s]
                               /\ Q3.queueticks[s] = Q2.queueticks[s]
    BY <1>3, <1>5, BoostHolds
  <2> HIDE DEF Q3
  <2>2. 0 < timesliceq[0]
    BY TimesliceAssumption, SMT DEF Levels
  <2>3. \A s \in Slots \ {p} : Q3.queueticks[s] < timesliceq[Q3.queue_number[s]]
    BY <2>1, <2>2, <1>6
  <2> QED BY <2>1, <2>3, <1>4, <1>7 DEF Q3
<1>8. CASE ~(NextTick % BoostPeriod = 0)
  BY <1>3, <1>4, <1>5, <1>6, <1>8
<1> QED BY <1>7, <1>8

-----------------------------------------------------------------------------
(* The actions that need an argument of their own.                          *)

\* What usertrap() leaves of a process that keeps its slice, or loses it.
LEMMA TickUserKeeps ==
    ASSUME IInv, NEW p \in Slots, TickDemote(p) \/ TickKeep(p)
    PROVE  IInv'
<1> DEFINE W == Sleepers(TicksChan)
           Q == TickQueues(p)
<1>1. /\ W \in SUBSET Slots /\ \A s \in W : state[s] = "SLEEPING"
      /\ cproc = p /\ state[p] = "RUNNING" /\ state \in [Slots -> States]
      /\ pid \in [Slots -> Nat] /\ ticks \in Nat
  BY DEF Sleepers, IInv, TypeOK, HartOwned, TickDemote, TickKeep, At
<1>2. ticks' \in Nat
  BY <1>1, TickNat DEF TickDemote, TickKeep
<1> DEFINE t == Thr("preempt", 0, 0)
<1>3. t \in ThreadStates /\ t.pc \notin {"fork2", "fork3"}
  BY DEF Thr, ThreadStates, Pcs
<1>4. Active' \in SUBSET Slots /\ \A s \in Slots : s \in Active' <=> s \in Active \/ s \in W
  BY <1>1 DEF TickDemote, TickKeep, WakeState, Active
<1> HIDE DEF t
<1>5. /\ Q \in QueueStates /\ QueuesHold(Q, Active')
      /\ \A s \in Slots \ {p} : Q.queueticks[s] < timesliceq[Q.queue_number[s]]
  BY <1>4, TickFacts, SMTT(20)
<1>6. CASE TickDemote(p)
  <2>1. rq' = demote(Q, pid, p) /\ sched_swtch /\ Goto(p, t)
    BY <1>6 DEF TickDemote, t
  <2>2. /\ state' \in [Slots -> States] /\ state'[p] = "RUNNABLE"
        /\ \A s \in Slots \ {p} :
            state'[s] # state[s] => state[s] = "SLEEPING" /\ state'[s] = "RUNNABLE"
    BY <1>1, <1>6 DEF TickDemote, WakeState, States
  <2>3. p \in Active' /\ \A s \in Active' : pid[s] = pid[p] => s = p
    BY <1>1, <1>4, SMTT(20) DEF Active, IInv, PidsDistinct
  <2> HIDE DEF Q
  <2>4. /\ rq' \in QueueStates /\ QueuesHold(rq', Active') /\ rq'.queueticks[p] = 0
        /\ \A s \in Slots \ {p} : /\ rq'.queue_number[s] = Q.queue_number[s]
                                  /\ rq'.queueticks[s] = Q.queueticks[s]
    BY <2>1, <2>3, <1>1, <1>4, <1>5, DemoteHolds, SMT
  <2>5. rq'.queue_number[p] \in Levels
    BY <2>4 DEF QueueStates
  <2>6. SliceKept'
    BY <2>4, <2>5, <1>5, TimesliceAssumption, SMT DEF SliceKept
  <2>7. QueueExact'
    BY <2>4 DEF QueueExact
  <2>8. UNCHANGED <<pid, parent, chan, killed, nextpid>>
    BY <1>6 DEF TickDemote
  <2> QED BY <2>1, <2>2, <2>4, <2>6, <2>7, <2>8, <1>1, <1>2, <1>3, YieldKeeps
<1>7. CASE TickKeep(p)
  <2>1. /\ rq' = Q /\ ~SliceUsed(Q, p) /\ Goto(p, t) /\ state' = WakeState(W)
        /\ UNCHANGED <<pid, parent, chan, killed, nextpid, cproc, sched>>
    BY <1>7 DEF TickKeep, t
  <2> HIDE DEF Q
  <2>2. Q.queueticks[p] < timesliceq[Q.queue_number[p]]
    <3>1. Q.queue_number[p] \in Levels /\ Q.queueticks[p] \in Nat
      BY <1>5 DEF QueueStates
    <3> QED BY <3>1, <2>1, TimesliceAssumption, SMT DEF SliceUsed
  <2>3. QueueExact' /\ SliceKept'
    BY <2>1, <2>2, <1>5 DEF QueueExact, SliceKept
  <2>4. state' \in [Slots -> States]
    BY <2>1, <1>1 DEF WakeState, States
  <2>5. TypeOK'
    BY <2>1, <2>4, <1>2, <1>3, <1>5 DEF IInv, TypeOK, Goto
  <2>6. PidsDistinct'
    BY <2>1, <1>1 DEF IInv, PidsDistinct, WakeState
  <2>7. HartOwned'
    BY <2>1, <1>1 DEF IInv, HartOwned, WakeState
  <2>8. ForkHeld'
    <3>1. \A s \in Slots : state[s] = "USED" => state'[s] = "USED"
      BY <2>1, <1>1 DEF WakeState
    <3>2. \A r \in Slots : Forking(r)' => Forking(r) /\ thread'[r] = thread[r]
      BY <2>1, <1>3, SMTT(20) DEF IInv, TypeOK, Forking, Goto
    <3> QED BY <3>1, <3>2, <1>4, SMT DEF IInv, ForkHeld, Forking
  <2> QED BY <2>3, <2>5, <2>6, <2>7, <2>8 DEF IInv
<1> QED BY <1>6, <1>7

\* kerneltrap() and the level loop of usertrap() yield and charge nobody.
LEMMA TickKernelKeeps ==
    ASSUME IInv, NEW p \in Slots, TickKernel(p)
    PROVE  IInv'
<1> DEFINE W == Sleepers(TicksChan)
<1>1. /\ W \in SUBSET Slots /\ \A s \in W : state[s] = "SLEEPING"
      /\ cproc = p /\ state[p] = "RUNNING" /\ state \in [Slots -> States] /\ ticks \in Nat
  BY DEF Sleepers, IInv, TypeOK, HartOwned, TickKernel
<1>2. /\ state' = [WakeState(W) EXCEPT ![p] = "RUNNABLE"]
      /\ rq' = wake(rq, pid, W) /\ sched_swtch /\ ticks' = NextTick
      /\ UNCHANGED <<pid, parent, chan, killed, nextpid, thread>>
  BY DEF TickKernel
<1> HIDE DEF W
<1>3. /\ state' \in [Slots -> States] /\ state'[p] = "RUNNABLE"
      /\ \A s \in Slots \ {p} :
            state'[s] # state[s] => state[s] = "SLEEPING" /\ state'[s] = "RUNNABLE"
  BY <1>1, <1>2 DEF WakeState, States
<1>4. Active' \in SUBSET Slots /\ \A s \in Slots : s \in Active' <=> s \in Active \/ s \in W
  BY <1>1, <1>2 DEF WakeState, Active
<1>5. /\ rq' \in QueueStates /\ QueuesHold(rq', Active')
      /\ rq'.queue_number = rq.queue_number /\ rq'.queueticks = rq.queueticks
  BY <1>1, <1>2, <1>4, WakeFacts
<1>6. QueueExact' /\ SliceKept'
  BY <1>5 DEF IInv, QueueExact, SliceKept
<1>7. ticks' \in Nat
  BY <1>1, <1>2, TickNat
<1> QED BY <1>1, <1>2, <1>3, <1>5, <1>6, <1>7, YieldKeeps

\* The level loop gives up the hart: the process stays on its queue.
LEMMA PreemptYieldKeeps ==
    ASSUME IInv, NEW p \in Slots, PreemptYield(p)
    PROVE  IInv'
<1>1. /\ cproc = p /\ state[p] = "RUNNING" /\ state \in [Slots -> States] /\ ticks \in Nat
      /\ rq \in QueueStates
  BY DEF IInv, TypeOK, HartOwned, PreemptYield, At
<1>2. /\ state' = [state EXCEPT ![p] = "RUNNABLE"] /\ sched_swtch
      /\ UNCHANGED <<pid, parent, chan, killed, rq, ticks, nextpid>>
  BY DEF PreemptYield
<1>3. \E t \in ThreadStates : t.pc \notin {"fork2", "fork3"} /\ Goto(p, t)
  <2>1. PICK i \in Levels : Goto(p, Thr("preempt", i + 1, 0))
    BY DEF PreemptYield
  <2>2. i + 1 \in Nat
    BY SMT DEF Levels
  <2>3. Thr("preempt", i + 1, 0) \in ThreadStates /\ Thr("preempt", i + 1, 0).pc = "preempt"
    BY <2>2 DEF Thr, ThreadStates, Pcs
  <2> QED BY <2>1, <2>3
<1>4. /\ state' \in [Slots -> States] /\ state'[p] = "RUNNABLE"
      /\ \A s \in Slots \ {p} : state'[s] = state[s]
  BY <1>1, <1>2 DEF States
<1>5. Active' = Active
  BY <1>1, <1>4 DEF Active
<1>6. QueueExact' /\ SliceKept' /\ rq' \in QueueStates /\ ticks' \in Nat
  BY <1>1, <1>2, <1>5 DEF IInv, QueueExact, SliceKept
<1> QED BY <1>1, <1>2, <1>3, <1>4, <1>6, YieldKeeps

\* The loops of scheduler(): the first one finds everybody queued already.
LEMMA SchedulerKeeps ==
    ASSUME IInv, Scheduler
    PROVE  IInv'
<1>1. /\ rq \in QueueStates /\ pid \in [Slots -> Nat] /\ QueuesHold(rq, Active)
      /\ state \in [Slots -> States] /\ sched \in SchedStates /\ Active \in SUBSET Slots
  BY DEF IInv, TypeOK, QueueExact, Active
<1>2. CASE SchedEnqueue
  <2>1. sched.i \in Slots /\ cproc = 0
    BY <1>2 DEF SchedEnqueue, IInv, HartOwned
  <2>2. rq' = rq
    <3>1. CASE state[sched.i] = "RUNNABLE"
      <4>1. sched.i \in Active /\ \A s \in Active : pid[s] = pid[sched.i] => s = sched.i
        BY <3>1, <2>1 DEF Active, IInv, PidsDistinct
      <4>2. requeue(rq, pid, sched.i) = rq
        BY <4>1, <1>1, RequeueSame, SMT
      <4> QED BY <4>2, <3>1, <1>2 DEF SchedEnqueue
    <3>2. CASE state[sched.i] # "RUNNABLE"
      BY <3>2, <1>2 DEF SchedEnqueue
    <3> QED BY <3>1, <3>2
  <2>3. /\ sched' \in SchedStates /\ sched'.pc \in {"enq", "scan"}
        /\ sched'.pc = "enq" => sched'.i \in Slots
        /\ sched'.pc = "scan" => sched'.j >= 1
    <3>1. 0 \in 0..NPROC /\ 0 \in Levels
      BY NPROCAssumption, SMT DEF Levels
    <3>2. CASE sched.i < NPROC
      <4>1. sched.i + 1 \in Slots /\ sched.i + 1 \in 0..NPROC
        BY <3>2, <2>1, NPROCAssumption, SMT DEF Slots
      <4>2. sched' = [pc |-> "enq", i |-> sched.i + 1, level |-> 0, j |-> 0, p |-> 0]
        BY <3>2, <1>2 DEF SchedEnqueue, SchedAt
      <4> QED BY <4>1, <4>2, <3>1 DEF SchedStates
    <3>3. CASE ~(sched.i < NPROC)
      <4>1. sched' = [pc |-> "scan", i |-> 0, level |-> 0, j |-> 1, p |-> 0]
        BY <3>3, <1>2 DEF SchedEnqueue, SchedAt
      <4> QED BY <4>1, <3>1, SMT DEF SchedStates
    <3> QED BY <3>2, <3>3
  <2>4. UNCHANGED <<state, pid, parent, chan, killed, ticks, nextpid, cproc, thread>>
    BY <1>2 DEF SchedEnqueue
  <2>5. TypeOK'
    BY <2>2, <2>3, <2>4 DEF IInv, TypeOK
  <2>6. HartOwned'
    BY <2>1, <2>3, <2>4 DEF IInv, HartOwned
  <2>7. PidsDistinct' /\ ForkHeld'
    BY <2>4 DEF IInv, PidsDistinct, ForkHeld, Forking, Active
  <2>8. QueueExact' /\ SliceKept'
    BY <2>2, <2>4, SMTT(20) DEF IInv, QueueExact, SliceKept, Active
  <2> QED BY <2>5, <2>6, <2>7, <2>8 DEF IInv
<1>3. CASE SchedScan
  <2> DEFINE q == rq.multique[sched.level]
  <2>1. sched.j >= 1 /\ cproc = 0 /\ sched.level \in Levels /\ sched.j \in Nat
    BY <1>1, <1>3 DEF SchedScan, IInv, HartOwned, SchedStates
  <2>2. q \in Seq(Slots)
    BY <2>1, <1>1, SMTT(20) DEF QueueStates
  <2>3. sched' = IF sched.j <= Len(q)
                 THEN IF state[q[sched.j]] = "RUNNABLE"
                      THEN SchedAt("run", 0, 0, 0, q[sched.j])
                      ELSE SchedAt("scan", 0, sched.level, sched.j + 1, 0)
                 ELSE IF sched.level < 3
                      THEN SchedAt("scan", 0, sched.level + 1, 1, 0)
                      ELSE SchedStart
    BY <1>3 DEF SchedScan
  <2> HIDE DEF q
  <2>4. sched.j <= Len(q) => q[sched.j] \in Slots
    <3>1. Len(q) \in Nat
      BY <2>2, SeqEntries
    <3>2. sched.j <= Len(q) => sched.j \in 1..Len(q)
      BY <3>1, <2>1, SMT
    <3> QED BY <3>2, <2>2, SeqEntries
  <2>5. /\ sched' \in SchedStates /\ sched'.pc \in {"enq", "scan", "run"}
        /\ sched'.pc = "enq" => sched'.i \in Slots
        /\ sched'.pc = "scan" => sched'.j >= 1
        /\ sched'.pc = "run" => sched'.p \in Slots /\ state[sched'.p] = "RUNNABLE"
    <3>1. 0 \in 0..NPROC /\ 0 \in Levels /\ \A s \in Slots : s \in 0..NPROC
      BY NPROCAssumption, SMT DEF Levels, Slots
    <3>2. CASE sched.j <= Len(q) /\ state[q[sched.j]] = "RUNNABLE"
      <4>1. sched' = [pc |-> "run", i |-> 0, level |-> 0, j |-> 0, p |-> q[sched.j]]
        BY <3>2, <2>3 DEF SchedAt
      <4> QED BY <4>1, <3>1, <3>2, <2>4 DEF SchedStates
    <3>3. CASE sched.j <= Len(q) /\ state[q[sched.j]] # "RUNNABLE"
      <4>1. sched' = [pc |-> "scan", i |-> 0, level |-> sched.level, j |-> sched.j + 1, p |-> 0]
        BY <3>3, <2>3 DEF SchedAt
      <4>2. sched.j + 1 \in Nat /\ sched.j + 1 >= 1
        BY <2>1, SMT
      <4> QED BY <4>1, <4>2, <3>1, <2>1 DEF SchedStates
    <3>4. CASE ~(sched.j <= Len(q)) /\ sched.level < 3
      <4>1. sched' = [pc |-> "scan", i |-> 0, level |-> sched.level + 1, j |-> 1, p |-> 0]
        BY <3>4, <2>3 DEF SchedAt
      <4>2. sched.level + 1 \in Levels
        BY <3>4, <2>1, SMT DEF Levels
      <4> QED BY <4>1, <4>2, <3>1, SMT DEF SchedStates
    <3>5. CASE ~(sched.j <= Len(q)) /\ ~(sched.level < 3)
      BY <3>5, <2>3, StartOK
    <3> QED BY <3>2, <3>3, <3>4, <3>5
  <2>6. UNCHANGED <<state, pid, parent, chan, killed, rq, ticks, nextpid, cproc, thread>>
    BY <1>3 DEF SchedScan
  <2>7. TypeOK'
    BY <2>5, <2>6 DEF IInv, TypeOK
  <2>8. HartOwned'
    BY <2>1, <2>5, <2>6, SMTT(20) DEF IInv, HartOwned
  <2>9. PidsDistinct' /\ ForkHeld'
    BY <2>6 DEF IInv, PidsDistinct, ForkHeld, Forking, Active
  <2>10. QueueExact' /\ SliceKept'
    BY <2>6 DEF IInv, QueueExact, SliceKept, Active
  <2> QED BY <2>7, <2>8, <2>9, <2>10 DEF IInv
<1>4. CASE SchedRun
  <2>1. /\ sched.p \in Slots /\ state[sched.p] = "RUNNABLE" /\ cproc = 0
        /\ state' = [state EXCEPT ![sched.p] = "RUNNING"]
        /\ chan'  = [chan EXCEPT ![sched.p] = NoChan]
        /\ cproc' = sched.p /\ sched' = SchedOff
        /\ UNCHANGED <<pid, parent, killed, rq, ticks, nextpid, thread>>
    BY <1>4 DEF SchedRun, IInv, HartOwned
  <2>2. cproc' \in 0..NPROC /\ cproc' # 0
    BY <2>1, NPROCAssumption, SMT DEF Slots
  <2>3. TypeOK'
    BY <2>1, <2>2, <1>1, StartOK DEF IInv, TypeOK, States, Chans
  <2>4. PidsDistinct'
    BY <2>1, <1>1 DEF IInv, PidsDistinct
  <2>5. HartOwned'
    <3>1. \A s \in Slots : s # 0
      BY SMT DEF Slots
    <3>2. \A s \in Slots : state'[s] = "RUNNING" <=> cproc' = s
      BY <3>1, <2>1, <1>1 DEF IInv, HartOwned
    <3> QED BY <3>2, <2>1, <2>2, StartOK DEF HartOwned
  <2>6. Active' = Active
    BY <2>1, <1>1 DEF Active
  <2>7. ForkHeld'
    BY <2>1, <2>6, <1>1 DEF IInv, ForkHeld, Forking
  <2>8. QueueExact' /\ SliceKept'
    BY <2>1, <2>6 DEF IInv, QueueExact, SliceKept
  <2> QED BY <2>3, <2>4, <2>5, <2>7, <2>8 DEF IInv
<1> QED BY <1>2, <1>3, <1>4 DEF Scheduler

\* allocproc() inside fork(): the slot gets a pid nobody has and stays USED.
LEMMA ForkAllocKeeps ==
    ASSUME IInv, NEW p \in Slots, NEW np \in Slots, ForkAlloc(p, np)
    PROVE  IInv'
<1> DEFINE t == Thr("fork2", np, 0)
<1>1. /\ rq \in QueueStates /\ pid \in [Slots -> Nat] /\ QueuesHold(rq, Active)
      /\ state \in [Slots -> States] /\ Active \in SUBSET Slots /\ nextpid \in Nat
      /\ cproc = p /\ state[p] = "RUNNING" /\ state[np] = "UNUSED"
      /\ thread \in [Slots -> ThreadStates]
  BY DEF IInv, TypeOK, QueueExact, Active, HartOwned, ForkAlloc, Enter, At
<1>2. /\ pid' = [pid EXCEPT ![np] = nextpid] /\ nextpid' = nextpid + 1
      /\ state' = [state EXCEPT ![np] = "USED"] /\ thread' = [thread EXCEPT ![p] = t]
      /\ UNCHANGED <<parent, chan, killed, ticks, cproc, sched>>
  BY DEF ForkAlloc, Goto
<1>3. rq' = setticks(rq, np, 0)
  BY DEF ForkAlloc
<1>4. t \in ThreadStates /\ t.pc = "fork2" /\ t.arg = np
  BY SMT DEF Thr, ThreadStates, Pcs, KernelPcs, Slots
<1> HIDE DEF t
<1>5. Active' = Active
  BY <1>1, <1>2 DEF Active
<1>6. /\ rq' \in QueueStates /\ QueuesHold(rq', Active)
      /\ rq'.queue_number = rq.queue_number /\ rq'.queueticks[np] = 0
      /\ \A s \in Slots \ {np} : rq'.queueticks[s] = rq.queueticks[s]
  <2> DEFINE Q == setticks(rq, np, 0)
  <2>1. 0 \in Nat
    BY SMTT(20)
  <2>2. /\ Q \in QueueStates /\ QueuesHold(Q, Active) /\ Q.queue_number = rq.queue_number
        /\ Q.queueticks[np] = 0
        /\ \A s \in Slots \ {np} : Q.queueticks[s] = rq.queueticks[s]
    <3>1. rq \in QueueStates /\ QueuesHold(rq, Active) /\ Active \in SUBSET Slots
      BY <1>1
    <3>2. TicksSet(rq, Q, Active, np, 0)
      BY <2>1, <3>1, SetTicksHolds
    <3> HIDE DEF Q
    <3> QED BY <3>2 DEF TicksSet
  <2> HIDE DEF Q
  <2>3. rq' = Q
    BY <1>3, SMTT(20) DEF Q
  <2> QED BY <2>2, <2>3
<1>7. TypeOK'
  BY <1>1, <1>2, <1>4, <1>6, SMT DEF IInv, TypeOK, States
<1>8. PidsDistinct'
  <2>1. \A s \in Slots : pid[s] < nextpid /\ nextpid # 0
    BY <1>1, SMT DEF IInv, PidsDistinct
  <2> QED BY <2>1, <1>1, <1>2, SMT DEF IInv, PidsDistinct
<1>9. HartOwned'
  BY <1>1, <1>2 DEF IInv, HartOwned
<1>10. ForkHeld'
  <2>1. \A r \in Slots \ {p} : thread'[r] = thread[r]
    BY <1>1, <1>2
  <2>2. thread'[p] = t /\ p \in Active' /\ state'[np] = "USED"
    BY <1>1, <1>2 DEF Active
  <2>3. \A r \in Slots \ {p} : Forking(r) => thread[r].arg # np
    BY <1>1 DEF IInv, ForkHeld
  <2>4. \A r \in Slots : state[r] = "USED" => state'[r] = "USED"
    BY <1>1, <1>2
  <2> QED BY <2>1, <2>2, <2>3, <2>4, <1>4, <1>5, SMT DEF IInv, ForkHeld, Forking
<1>11. QueueExact'
  BY <1>5, <1>6 DEF QueueExact
<1>12. SliceKept'
  <2>1. rq'.queue_number[np] \in Levels
    BY <1>6 DEF QueueStates
  <2> QED BY <2>1, <1>6, TimesliceAssumption, SMT DEF IInv, SliceKept
<1> QED BY <1>7, <1>8, <1>9, <1>10, <1>11, <1>12 DEF IInv

\* freeproc() clears the pid first, so its dequeue() finds nobody.
LEMMA FreeprocQueues ==
    ASSUME IInv, NEW np \in Slots, np \notin Active, NEW Q \in QueueStates,
           QueuesHold(Q, Active), freeproc(np, Q)
    PROVE  rq' = Q
<1> DEFINE pd == [pid EXCEPT ![np] = 0]
<1>1. pid \in [Slots -> Nat] /\ Active \in SUBSET Slots /\ Q.queue_number[np] \in Levels
  BY DEF IInv, TypeOK, Active, QueueStates
<1>2. \A s \in Active : pd[s] # pd[np]
  BY <1>1 DEF IInv, PidsDistinct, Active
<1>3. rq' = dequeue(Q, pd, np, Q.queue_number[np])
  BY DEF freeproc
<1> HIDE DEF pd
<1> QED BY <1>1, <1>2, <1>3, DequeueAbsent, SMT

\* fork() runs out of memory: the slot is as free as before.
LEMMA ForkNoMemoryKeeps ==
    ASSUME IInv, NEW p \in Slots, NEW np \in Slots, ForkNoMemory(p, np)
    PROVE  IInv'
<1> DEFINE t == Thr("ret", 0, 0)
<1>1. /\ rq \in QueueStates /\ pid \in [Slots -> Nat] /\ QueuesHold(rq, Active)
      /\ state \in [Slots -> States] /\ Active \in SUBSET Slots /\ nextpid \in Nat
      /\ state[np] = "UNUSED" /\ pid[np] = 0 /\ thread \in [Slots -> ThreadStates]
  BY DEF IInv, TypeOK, QueueExact, Active, PidsDistinct, ForkNoMemory
<1>2. np \notin Active
  BY <1>1, SMTT(20) DEF Active
<1>3. PICK qt \in {rq.queueticks[np], 0} : freeproc(np, setticks(rq, np, qt))
  BY DEF ForkNoMemory
<1> DEFINE Q == setticks(rq, np, qt)
<1>4. qt \in Nat
  BY <1>1, SMTT(20) DEF QueueStates
<1>5. /\ Q \in QueueStates /\ QueuesHold(Q, Active)
      /\ Q.queue_number = rq.queue_number /\ Q.queueticks[np] = qt
      /\ \A s \in Slots \ {np} : Q.queueticks[s] = rq.queueticks[s]
  <2>1. TicksSet(rq, Q, Active, np, qt)
    BY <1>1, <1>4, SetTicksHolds
  <2> HIDE DEF Q
  <2> QED BY <2>1 DEF TicksSet
<1>6. rq' = Q
  BY <1>2, <1>3, <1>5, FreeprocQueues, SMTT(20)
<1>7. pid' = pid /\ state' = state
  BY <1>1, <1>3, SMTT(20) DEF freeproc
<1>8. /\ parent' \in [Slots -> 0..NPROC] /\ chan' \in [Slots -> Chans]
      /\ killed' \in [Slots -> BOOLEAN]
  BY <1>3, NPROCAssumption, SMTT(20) DEF freeproc, IInv, TypeOK, Chans
<1>9. /\ thread' = [thread EXCEPT ![p] = t] /\ nextpid' = nextpid + 1
      /\ UNCHANGED <<ticks, cproc, sched>>
  BY DEF ForkNoMemory, Goto
<1>10. t \in ThreadStates /\ t.pc = "ret"
  BY SMTT(20) DEF Thr, ThreadStates, Pcs, KernelPcs
<1> HIDE DEF t, Q
<1>11. TypeOK'
  BY <1>1, <1>5, <1>6, <1>7, <1>8, <1>9, <1>10, SMT DEF IInv, TypeOK
<1>12. PidsDistinct'
  BY <1>1, <1>7, <1>9, SMTT(20) DEF IInv, PidsDistinct
<1>13. HartOwned'
  BY <1>7, <1>9, SMTT(20) DEF IInv, HartOwned
<1>14. ForkHeld'
  <2>1. \A r \in Slots \ {p} : thread'[r] = thread[r]
    BY <1>1, <1>9
  <2>2. thread'[p].pc = "ret" /\ Active' = Active /\ state' = state
    BY <1>1, <1>7, <1>9, <1>10 DEF Active
  <2>3. \A r \in Slots : Forking(r)' => Forking(r) /\ r # p
    BY <2>1, <2>2 DEF Forking
  <2> QED BY <2>1, <2>2, <2>3 DEF IInv, ForkHeld
<1>15. QueueExact'
  BY <1>5, <1>6, <1>7 DEF QueueExact, Active
<1>16. SliceKept'
  <2>1. rq'.queue_number[np] \in Levels
    BY <1>5, <1>6 DEF QueueStates
  <2> QED BY <2>1, <1>5, <1>6, TimesliceAssumption, SMT DEF IInv, SliceKept
<1> QED BY <1>11, <1>12, <1>13, <1>14, <1>15, <1>16, SMTT(20) DEF IInv

\* fork() sets the parent of the slot it holds.
LEMMA ForkParentKeeps ==
    ASSUME IInv, NEW p \in Slots, ForkParent(p)
    PROVE  IInv'
<1>1. /\ thread \in [Slots -> ThreadStates] /\ thread[p].pc = "fork2"
      /\ parent' = [parent EXCEPT ![thread[p].arg] = p]
      /\ thread' = [thread EXCEPT ![p] = [thread[p] EXCEPT !.pc = "fork3"]]
      /\ UNCHANGED <<state, pid, chan, killed, rq, ticks, nextpid, cproc, sched>>
  BY DEF IInv, TypeOK, ForkParent, At, Goto
<1>2. /\ thread' \in [Slots -> ThreadStates]
      /\ thread'[p].pc = "fork3" /\ thread'[p].arg = thread[p].arg
      /\ \A r \in Slots \ {p} : thread'[r] = thread[r]
  <2>1. /\ [thread[p] EXCEPT !.pc = "fork3"] \in ThreadStates
        /\ [thread[p] EXCEPT !.pc = "fork3"].pc = "fork3"
        /\ [thread[p] EXCEPT !.pc = "fork3"].arg = thread[p].arg
    BY <1>1 DEF ThreadStates, Pcs, KernelPcs
  <2> QED BY <2>1, <1>1
<1>3. p \in 0..NPROC
  BY SMT DEF Slots
<1>4. TypeOK'
  BY <1>1, <1>2, <1>3 DEF IInv, TypeOK
<1>5. PidsDistinct' /\ HartOwned'
  BY <1>1 DEF IInv, PidsDistinct, HartOwned
<1>6. Active' = Active
  BY <1>1 DEF Active
<1>7. ForkHeld'
  <2>1. \A r \in Slots : (Forking(r)' <=> Forking(r)) /\ thread'[r].arg = thread[r].arg
    BY <1>1, <1>2 DEF Forking
  <2> QED BY <2>1, <1>1, <1>6, SMT DEF IInv, ForkHeld
<1>8. QueueExact' /\ SliceKept'
  BY <1>1, <1>6 DEF IInv, QueueExact, SliceKept
<1> QED BY <1>4, <1>5, <1>7, <1>8 DEF IInv

\* fork() makes the child RUNNABLE: its enqueue() appends, at level 0.
LEMMA ForkRunnableKeeps ==
    ASSUME IInv, NEW p \in Slots, ForkRunnable(p)
    PROVE  IInv'
<1> DEFINE np == thread[p].arg
           tu == Thr("user", 0, 0)
           tr == Thr("ret", 0, 0)
<1>1. /\ rq \in QueueStates /\ pid \in [Slots -> Nat] /\ QueuesHold(rq, Active)
      /\ state \in [Slots -> States] /\ Active \in SUBSET Slots
      /\ thread \in [Slots -> ThreadStates] /\ thread[p].pc = "fork3"
      /\ cproc = p /\ state[p] = "RUNNING"
  BY DEF IInv, TypeOK, QueueExact, Active, HartOwned, ForkRunnable, At
<1>2. /\ np \in Slots /\ state[np] = "USED"
      /\ \A r \in Slots \ {p} : Forking(r) => thread[r].arg # np
  BY <1>1 DEF IInv, ForkHeld, Forking
<1>3. /\ state' = [state EXCEPT ![np] = "RUNNABLE"]
      /\ thread' = [thread EXCEPT ![np] = tu, ![p] = tr]
      /\ UNCHANGED <<pid, parent, chan, killed, ticks, nextpid, cproc, sched>>
  BY DEF ForkRunnable
<1>4. rq' = enqueue(rq, pid, np, 0)
  BY DEF ForkRunnable
<1>5. tu \in ThreadStates /\ tu.pc = "user" /\ tr \in ThreadStates /\ tr.pc = "ret"
  BY DEF Thr, ThreadStates, Pcs, KernelPcs
<1> HIDE DEF np, tu, tr
<1>6. np \notin Active
  BY <1>2 DEF Active
<1>7. Active' \in SUBSET Slots /\ \A s \in Slots : s \in Active' <=> s \in Active \/ s = np
  BY <1>1, <1>2, <1>3 DEF Active
<1>8. 0 \in Levels
  BY SMT DEF Levels
<1>9. /\ rq' \in QueueStates /\ QueuesHold(rq', Active')
      /\ rq'.queue_number[np] = 0 /\ rq'.queueticks[np] = 0
      /\ \A s \in Slots \ {np} : /\ rq'.queue_number[s] = rq.queue_number[s]
                                 /\ rq'.queueticks[s] = rq.queueticks[s]
  <2> DEFINE R == enqueue(rq, pid, np, 0)
  <2>1. /\ R \in QueueStates /\ QueuesHold(R, Active')
        /\ R.queue_number[np] = 0 /\ R.queueticks[np] = 0
        /\ \A s \in Slots \ {np} : /\ R.queue_number[s] = rq.queue_number[s]
                                   /\ R.queueticks[s] = rq.queueticks[s]
    BY <1>2, <1>6, <1>7, <1>8, EnqueueFacts
  <2> HIDE DEF R
  <2>2. rq' = R
    BY <1>4 DEF R
  <2> QED BY <2>1, <2>2
<1>10. /\ thread' \in [Slots -> ThreadStates] /\ thread'[p] = tr /\ thread'[np] = tu
       /\ \A r \in Slots \ {p, np} : thread'[r] = thread[r]
  <2>1. np # p
    BY <1>1, <1>2
  <2> QED BY <2>1, <1>1, <1>2, <1>3, <1>5
<1>11. TypeOK'
  BY <1>1, <1>2, <1>3, <1>9, <1>10 DEF IInv, TypeOK, States
<1>12. PidsDistinct'
  BY <1>1, <1>2, <1>3 DEF IInv, PidsDistinct
<1>13. HartOwned'
  BY <1>1, <1>2, <1>3 DEF IInv, HartOwned
<1>14. ForkHeld'
  <2>1. \A r \in Slots : Forking(r)' => r # p /\ Forking(r) /\ thread'[r] = thread[r]
    BY <1>5, <1>10 DEF Forking
  <2>2. \A s \in Slots : state[s] = "USED" /\ s # np => state'[s] = "USED"
    BY <1>1, <1>3
  <2> QED BY <2>1, <2>2, <1>2, <1>7, SMT DEF IInv, ForkHeld, Forking
<1>15. QueueExact' /\ SliceKept'
  BY <1>8, <1>9, TimesliceAssumption, SMT DEF IInv, QueueExact, SliceKept
<1> QED BY <1>11, <1>12, <1>13, <1>14, <1>15 DEF IInv

\* exit(): the sleepers it wakes enter the queues, the zombie leaves them.
LEMMA ExitZombieKeeps ==
    ASSUME IInv, NEW p \in Slots, ExitZombie(p)
    PROVE  IInv'
<1> DEFINE W == ExitWakes(p)
           C == Active \cup W
           Q == wake(rq, pid, W)
           t == Thr("none", 0, 0)
<1>1. /\ rq \in QueueStates /\ pid \in [Slots -> Nat] /\ state \in [Slots -> States]
      /\ parent \in [Slots -> 0..NPROC] /\ thread \in [Slots -> ThreadStates]
      /\ cproc = p /\ state[p] = "RUNNING"
  BY DEF IInv, TypeOK, HartOwned, ExitZombie, At
<1>2. W \in SUBSET Slots /\ \A s \in W : state[s] = "SLEEPING"
  BY DEF ExitWakes, Sleepers
<1>3. C \in SUBSET Slots /\ \A s \in Slots : s \in C <=> s \in Active \/ s \in W
  BY <1>2, SMTT(20) DEF Active
<1>4. /\ state' = [WakeState(W) EXCEPT ![p] = "ZOMBIE"] /\ cproc' = 0 /\ sched' = SchedStart
      /\ parent' = [s \in Slots |-> IF parent[s] = p THEN initproc ELSE parent[s]]
      /\ thread' = [thread EXCEPT ![p] = t]
      /\ UNCHANGED <<pid, chan, killed, ticks, nextpid>>
  BY SMTT(20) DEF ExitZombie, Goto, sched_swtch
<1>5. rq' = dequeue(Q, pid, p, rq.queue_number[p])
  BY DEF ExitZombie
<1>6. t \in ThreadStates /\ t.pc = "none"
  BY DEF Thr, ThreadStates, Pcs
<1>7. /\ p \in C /\ \A s \in C : pid[s] = pid[p] => s = p
  BY <1>1, <1>2 DEF Active, IInv, PidsDistinct
<1> HIDE DEF W, C, t
<1>8. /\ Active' \in SUBSET Slots
      /\ \A s \in Slots : s \in Active' <=> s \in C /\ s # p
  BY <1>1, <1>2, <1>3, <1>4, SMTT(20) DEF Active, WakeState
<1>9. /\ Q \in QueueStates /\ QueuesHold(Q, C)
      /\ Q.queue_number = rq.queue_number /\ Q.queueticks = rq.queueticks
  BY <1>2, <1>3, WakeFacts
<1> HIDE DEF Q
<1>10. /\ rq' \in QueueStates /\ QueuesHold(rq', Active')
       /\ rq'.queue_number = rq.queue_number /\ rq'.queueticks = rq.queueticks
  <2> DEFINE R == dequeue(Q, pid, p, Q.queue_number[p])
  <2>1. /\ R \in QueueStates /\ QueuesHold(R, Active')
        /\ R.queue_number = Q.queue_number /\ R.queueticks = Q.queueticks
    <3>1. /\ Q \in QueueStates /\ C \in SUBSET Slots /\ QueuesHold(Q, C)
          /\ pid \in [Slots -> Nat]
      BY <1>1, <1>3, <1>9
    <3> QED BY <3>1, <1>7, <1>8, DequeueHolds, SMT
  <2> HIDE DEF R
  <2>2. rq' = R
    BY <1>5, <1>9 DEF R
  <2> QED BY <2>1, <2>2, <1>9
<1>11. TypeOK'
  <2>1. parent' \in [Slots -> 0..NPROC]
    BY <1>1, <1>4, NPROCAssumption, SMT DEF initproc
  <2>2. state' \in [Slots -> States]
    BY <1>1, <1>4, SMTT(20) DEF WakeState, States
  <2>3. cproc' \in 0..NPROC
    <3>1. cproc' = 0
      BY DEF ExitZombie, sched_swtch
    <3> QED BY <3>1, NPROCAssumption, SMT
  <2>4. thread' \in [Slots -> ThreadStates]
    BY <1>1, <1>4, <1>6
  <2> QED BY <2>1, <2>2, <2>3, <2>4, <1>4, <1>10, StartOK DEF IInv, TypeOK
<1>12. PidsDistinct'
  BY <1>1, <1>2, <1>4 DEF IInv, PidsDistinct, WakeState
<1>13. HartOwned'
  BY <1>1, <1>2, <1>4, StartOK, SMT DEF IInv, HartOwned, WakeState, Slots
<1>14. ForkHeld'
  <2>1. \A r \in Slots : Forking(r)' => r # p /\ Forking(r) /\ thread'[r] = thread[r]
    BY <1>1, <1>4, <1>6 DEF Forking
  <2>2. \A s \in Slots : state[s] = "USED" => state'[s] = "USED"
    BY <1>1, <1>2, <1>4 DEF WakeState
  <2>3. \A s \in Slots : s \in Active /\ s # p => s \in Active'
    BY <1>3, <1>8
  <2>4. \A r \in Slots : Forking(r)' => r \in Active'
    BY <2>1, <2>3 DEF IInv, ForkHeld
  <2> QED BY <2>1, <2>2, <2>4, ForkHeldKeeps DEF IInv
<1>15. QueueExact' /\ SliceKept'
  BY <1>10 DEF IInv, QueueExact, SliceKept
<1> QED BY <1>11, <1>12, <1>13, <1>14, <1>15 DEF IInv

\* wait() frees a zombie, which is on no queue.
LEMMA WaitReapKeeps ==
    ASSUME IInv, NEW p \in Slots, WaitReap(p)
    PROVE  IInv'
<1> DEFINE t == Thr("ret", 0, 0)
<1>1. PICK np \in Zombies(p) : freeproc(np, rq)
  BY DEF WaitReap
<1>2. /\ rq \in QueueStates /\ pid \in [Slots -> Nat] /\ state \in [Slots -> States]
      /\ thread \in [Slots -> ThreadStates] /\ QueuesHold(rq, Active)
      /\ np \in Slots /\ state[np] = "ZOMBIE"
  BY DEF IInv, TypeOK, QueueExact, Zombies, Children
<1>3. np \notin Active
  BY <1>2 DEF Active
<1>4. rq' = rq
  BY <1>1, <1>2, <1>3, FreeprocQueues
<1>5. /\ pid' = [pid EXCEPT ![np] = 0] /\ state' = [state EXCEPT ![np] = "UNUSED"]
      /\ parent' = [parent EXCEPT ![np] = 0] /\ chan' = [chan EXCEPT ![np] = NoChan]
      /\ killed' = [killed EXCEPT ![np] = FALSE]
      /\ thread' = [thread EXCEPT ![p] = t]
      /\ UNCHANGED <<ticks, nextpid, cproc, sched>>
  BY <1>1 DEF WaitReap, freeproc, Goto
<1>6. t \in ThreadStates /\ t.pc = "ret"
  BY DEF Thr, ThreadStates, Pcs, KernelPcs
<1> HIDE DEF t
<1>7. Active' = Active
  BY <1>2, <1>5 DEF Active
<1>8. TypeOK'
  BY <1>2, <1>4, <1>5, <1>6, NPROCAssumption, SMT DEF IInv, TypeOK, States, Chans
<1>9. PidsDistinct'
  <2>1. pid'[np] = 0 /\ state'[np] = "UNUSED" /\ nextpid' = nextpid
    BY <1>2, <1>5
  <2>2. \A s \in Slots : s # np => pid'[s] = pid[s] /\ state'[s] = state[s]
    BY <1>2, <1>5
  <2>3. 0 < nextpid
    BY <1>2, SMT DEF IInv, TypeOK, PidsDistinct
  <2> QED BY <2>1, <2>2, <2>3 DEF IInv, PidsDistinct
<1>10. HartOwned'
  BY <1>2, <1>5, SMTT(20) DEF IInv, HartOwned
<1>11. ForkHeld'
  <2>1. \A r \in Slots : Forking(r)' => r # p /\ Forking(r) /\ thread'[r] = thread[r]
    BY <1>2, <1>5, <1>6 DEF Forking
  <2>2. \A s \in Slots : state[s] = "USED" => state'[s] = "USED"
    BY <1>2, <1>5, SMTT(20)
  <2>3. \A r \in Slots : Forking(r)' => r \in Active'
    BY <2>1, <1>7 DEF IInv, ForkHeld
  <2> QED BY <2>1, <2>2, <2>3, ForkHeldKeeps DEF IInv
<1>12. QueueExact' /\ SliceKept'
  BY <1>4, <1>7 DEF IInv, QueueExact, SliceKept
<1> QED BY <1>8, <1>9, <1>10, <1>11, <1>12 DEF IInv

\* kill() of a sleeper queues it at its own level.
LEMMA KillKeeps ==
    ASSUME IInv, NEW p \in Slots, NEW v \in KillPids, Kill(p, v)
    PROVE  IInv'
<1> DEFINE r == Thr("ret", 0, 0)
<1>1. r \in ThreadStates /\ r.pc = "ret"
  BY SMTT(20) DEF Thr, ThreadStates, Pcs, KernelPcs
<1>2. Goto(p, r) /\ UNCHANGED <<pid, parent, chan, ticks, nextpid, cproc, sched>>
  BY DEF Kill
<1> HIDE DEF r
<1>3. /\ rq \in QueueStates /\ pid \in [Slots -> Nat] /\ state \in [Slots -> States]
      /\ thread \in [Slots -> ThreadStates] /\ QueuesHold(rq, Active)
      /\ killed \in [Slots -> BOOLEAN] /\ Active \in SUBSET Slots
  BY DEF IInv, TypeOK, QueueExact, Active
<1>4. ASSUME UNCHANGED <<state, rq>>, killed' \in [Slots -> BOOLEAN]
      PROVE  IInv'
  BY <1>1, <1>2, <1>4, GotoKeeps
<1>5. ASSUME NEW t \in Slots, state[t] = "SLEEPING",
             killed' = [killed EXCEPT ![t] = TRUE],
             state' = [state EXCEPT ![t] = "RUNNABLE"],
             rq' = enqueue(rq, pid, t, rq.queue_number[t])
      PROVE  IInv'
  <2>1. /\ rq \in QueueStates /\ Active \in SUBSET Slots /\ QueuesHold(rq, Active)
        /\ pid \in [Slots -> Nat] /\ t \notin Active /\ rq.queue_number[t] \in Levels
    BY <1>3, <1>5 DEF Active, QueueStates
  <2>3. Active' \in SUBSET Slots /\ \A s \in Slots : s \in Active' <=> s \in Active \/ s = t
    BY <1>3, <1>5 DEF Active
  <2>4. /\ rq' \in QueueStates /\ QueuesHold(rq', Active')
        /\ rq'.queueticks[t] = 0
        /\ \A s \in Slots \ {t} : /\ rq'.queue_number[s] = rq.queue_number[s]
                                  /\ rq'.queueticks[s] = rq.queueticks[s]
    <3> DEFINE l == rq.queue_number[t]
               R == enqueue(rq, pid, t, l)
    <3>1. l \in Levels
      BY <2>1
    <3> HIDE DEF l
    <3>2. /\ R \in QueueStates /\ QueuesHold(R, Active')
          /\ R.queue_number[t] = l /\ R.queueticks[t] = 0
          /\ \A s \in Slots \ {t} : /\ R.queue_number[s] = rq.queue_number[s]
                                    /\ R.queueticks[s] = rq.queueticks[s]
      BY <3>1, <2>1, <2>3, <1>5, EnqueueFacts
    <3>3. rq' = R
      BY <1>5 DEF R, l
    <3> HIDE DEF R
    <3> QED BY <3>2, <3>3
  <2>5. TypeOK'
    BY <2>4, <1>1, <1>2, <1>3, <1>5 DEF IInv, TypeOK, States, Goto
  <2>6. PidsDistinct'
    BY <1>2, <1>3, <1>5 DEF IInv, PidsDistinct
  <2>7. HartOwned'
    BY <1>2, <1>3, <1>5 DEF IInv, HartOwned
  <2>8. ForkHeld'
    <3>1. \A s \in Slots : Forking(s)' => s # p /\ Forking(s) /\ thread'[s] = thread[s]
      BY <1>1, <1>2, <1>3 DEF Forking, Goto
    <3>2. \A s \in Slots : state[s] = "USED" => state'[s] = "USED"
      BY <1>3, <1>5, SMTT(20)
    <3>3. \A s \in Slots : Forking(s)' => s \in Active'
      BY <3>1, <2>3, SMTT(20) DEF IInv, ForkHeld
    <3> QED BY <3>1, <3>2, <3>3, ForkHeldKeeps DEF IInv
  <2>9. QueueExact'
    BY <2>4, SMTT(20) DEF QueueExact
  <2>10. SliceKept'
    <3>1. rq'.queue_number[t] \in Levels
      BY <2>4 DEF QueueStates
    <3> QED BY <3>1, <2>4, TimesliceAssumption, SMT DEF IInv, SliceKept
  <2> QED BY <2>5, <2>6, <2>7, <2>8, <2>9, <2>10, SMTT(20) DEF IInv
<1>6. CASE \A t \in Slots : pid[t] # v
  <2>1. UNCHANGED <<state, rq, killed>>
    BY <1>6 DEF Kill, HasPid
  <2> QED BY <2>1, <1>3, <1>4, SMTT(20)
<1>7. ASSUME NEW t \in Slots, killed' = [killed EXCEPT ![t] = TRUE],
             UNCHANGED <<state, rq>>
      PROVE  IInv'
  BY <1>3, <1>4, <1>7, SMTT(20)
<1>8. \/ \A t \in Slots : pid[t] # v
      \/ \E t \in Slots : /\ killed' = [killed EXCEPT ![t] = TRUE]
                          /\ state[t] = "SLEEPING"
                          /\ state' = [state EXCEPT ![t] = "RUNNABLE"]
                          /\ rq' = enqueue(rq, pid, t, rq.queue_number[t])
      \/ \E t \in Slots : killed' = [killed EXCEPT ![t] = TRUE] /\ UNCHANGED <<state, rq>>
  BY DEF Kill
<1> QED BY <1>5, <1>6, <1>7, <1>8

\* sleep(n), and the wakeups of its loop.
LEMMA SleepCallKeeps ==
    ASSUME IInv, NEW p \in Slots, SleepBegin(p) \/ SleepResume(p)
    PROVE  IInv'
<1>1. /\ cproc = p /\ thread[p] \in ThreadStates /\ ticks \in Nat
      /\ killed \in [Slots -> BOOLEAN] /\ TicksChan \in Chans
  BY DEF SleepBegin, SleepResume, At, IInv, TypeOK, Chans
<1> DEFINE r == Thr("ret", 0, 0)
<1>2. r \in ThreadStates /\ r.pc = "ret"
  BY DEF Thr, ThreadStates, Pcs, KernelPcs
<1>3. /\ UNCHANGED <<pid, parent, killed, ticks, nextpid>>
      /\ \/ Goto(p, r) /\ UNCHANGED <<chan, state, rq, cproc, sched>>
         \/ sleep(p, TicksChan, Thr("sleep", ticks, thread[p].n))
         \/ thread[p].pc = "sleep" /\ sleep(p, TicksChan, thread[p])
  BY DEF SleepBegin, SleepResume, At
<1> HIDE DEF r
<1>4. CASE Goto(p, r) /\ UNCHANGED <<chan, state, rq, cproc, sched>>
  BY <1>1, <1>2, <1>3, <1>4, GotoKeeps
<1>5. CASE sleep(p, TicksChan, Thr("sleep", ticks, thread[p].n))
  <2> DEFINE t == Thr("sleep", ticks, thread[p].n)
  <2>2. thread[p].n \in Nat
    BY <1>1 DEF ThreadStates
  <2>3. t \in ThreadStates /\ t.pc = "sleep"
    BY <2>2, <1>1 DEF Thr, ThreadStates, Pcs, KernelPcs
  <2> HIDE DEF t
  <2>4. sleep(p, TicksChan, t)
    BY <1>5 DEF t
  <2> QED BY <2>3, <2>4, <1>1, <1>3, SleepKeeps
<1>6. CASE thread[p].pc = "sleep" /\ sleep(p, TicksChan, thread[p])
  <2> DEFINE t == thread[p]
  <2>1. t \in ThreadStates /\ t.pc = "sleep" /\ sleep(p, TicksChan, t)
    BY <1>1, <1>6
  <2> HIDE DEF t
  <2> QED BY <2>1, <1>1, <1>3, SleepKeeps
<1> QED BY <1>3, <1>4, <1>5, <1>6

-----------------------------------------------------------------------------
\* The boot state: init alone, at the head of level 0.
LEMMA InitHolds == Init => IInv
<1> SUFFICES ASSUME Init PROVE IInv
  OBVIOUS
<1> DEFINE q0 == <<initproc>>
<1>1. 1 \in Slots /\ 0 \in 0..NPROC /\ 0 \in Levels /\ initproc = 1
  BY NPROCAssumption, SMTT(20) DEF Slots, Levels, initproc
<1>2. Active = {1}
  BY <1>1 DEF Init, Active
<1>3. q0 \in Seq(Slots) /\ Range(q0) = {1} /\ IsInjective(q0)
  <2>1. q0 \in Seq(Slots) /\ DOMAIN q0 = {1} /\ q0[1] = 1
    BY <1>1, SMT
  <2> HIDE DEF q0
  <2> QED BY <2>1 DEF Range, IsInjective
<1>4. LET e == <<>> IN e \in Seq(Slots) /\ Range(e) = {} /\ IsInjective(e)
  BY SMT DEF Range, IsInjective
<1> HIDE DEF q0
<1>5. /\ rq.multique = [l \in Levels |-> IF l = 0 THEN q0 ELSE <<>>]
      /\ rq.queue_number = [s \in Slots |-> 0] /\ rq.queueticks = [s \in Slots |-> 0]
      /\ rq = [multique |-> rq.multique, queue_number |-> rq.queue_number,
               queueticks |-> rq.queueticks]
  BY SMTT(20) DEF Init, q0
<1>6. rq \in QueueStates
  <2>1. rq.multique \in [Levels -> Seq(Slots)]
    BY <1>3, <1>4, <1>5
  <2>2. rq.queue_number \in [Slots -> Levels] /\ rq.queueticks \in [Slots -> Nat]
    BY <1>1, <1>5, SMT
  <2> QED BY <2>1, <2>2, <1>5 DEF QueueStates
<1>7. QueueExact
  <2>1. \A l \in Levels : /\ IsInjective(rq.multique[l])
                         /\ Range(rq.multique[l]) = IF l = 0 THEN {1} ELSE {}
    BY <1>3, <1>4, <1>5
  <2>2. \A l \in Levels : {s \in {1} : rq.queue_number[s] = l} = IF l = 0 THEN {1} ELSE {}
    BY <1>1, <1>5
  <2> QED BY <2>1, <2>2, <1>2 DEF QueueExact, QueuesHold
<1>8. SliceKept
  BY <1>1, <1>5, TimesliceAssumption, SMTT(20) DEF SliceKept
<1>9. TypeOK
  <2>1. Thr("user", 0, 0) \in ThreadStates /\ Thr("none", 0, 0) \in ThreadStates
    BY DEF Thr, ThreadStates, Pcs
  <2>2. thread \in [Slots -> ThreadStates]
    BY <2>1 DEF Init
  <2> QED BY <2>2, <1>1, <1>6, StartOK DEF Init, TypeOK, States, Chans
<1>10. PidsDistinct
  BY <1>1, SMT DEF Init, PidsDistinct
<1>11. HartOwned
  BY <1>1, StartOK, SMT DEF Init, HartOwned, Slots
<1>12. ForkHeld
  BY DEF Init, ForkHeld, Forking, Thr
<1> QED BY <1>7, <1>8, <1>9, <1>10, <1>11, <1>12 DEF IInv

\* Every step of the kernel keeps the invariant.
LEMMA NextKeeps == IInv /\ [Next]_vars => IInv'
<1> SUFFICES ASSUME IInv, [Next]_vars PROVE IInv'
  OBVIOUS
<1>1. CASE UNCHANGED vars
  <2>1. UNCHANGED <<state, pid, parent, chan, killed, rq, ticks, nextpid, cproc, sched, thread>>
    BY <1>1 DEF vars
  <2>2. TypeOK'
    BY <2>1 DEF IInv, TypeOK
  <2>3. PidsDistinct' /\ HartOwned'
    BY <2>1 DEF IInv, PidsDistinct, HartOwned
  <2>4. ForkHeld'
    BY <2>1 DEF IInv, ForkHeld, Forking, Active
  <2>5. QueueExact' /\ SliceKept'
    BY <2>1 DEF IInv, QueueExact, SliceKept, Active
  <2> QED BY <2>2, <2>3, <2>4, <2>5 DEF IInv
<1>2. CASE Scheduler
  BY <1>2, SchedulerKeeps
<1> DEFINE tu == Thr("user", 0, 0)
           tr == Thr("ret", 0, 0)
           te == Thr("exit", 0, 0)
           tw == Thr("wait", 0, 0)
           ti == Thr("io", 0, 0)
<1>3. /\ tu \in ThreadStates /\ tr \in ThreadStates /\ te \in ThreadStates
      /\ tw \in ThreadStates /\ ti \in ThreadStates
      /\ tu.pc = "user" /\ tr.pc = "ret" /\ te.pc = "exit" /\ tw.pc = "wait" /\ ti.pc = "io"
  BY DEF Thr, ThreadStates, Pcs, KernelPcs
<1>4. /\ killed \in [Slots -> BOOLEAN] /\ ticks \in Nat /\ thread \in [Slots -> ThreadStates]
      /\ \A c \in Chans : /\ Sleepers(c) \in SUBSET Slots
                          /\ \A s \in Sleepers(c) : state[s] = "SLEEPING"
  BY DEF IInv, TypeOK, Sleepers
<1>5. TicksChan \in Chans /\ IoChan \in Chans /\ \A p \in Slots : ProcChan(p) \in Chans
  BY DEF Chans
<1>6. CASE Tick
  <2>1. CASE TickIdle
    BY <2>1, <1>4, <1>5, TickNat, WakeKeeps DEF TickIdle
  <2>2. ASSUME NEW p \in Slots, TickKilled(p) PROVE IInv'
    <3> HIDE DEF te
    <3>1. /\ wakeup(Sleepers(TicksChan)) /\ Goto(p, te) /\ ticks' = NextTick
          /\ UNCHANGED <<pid, parent, chan, killed, nextpid, cproc, sched>>
      BY <2>2 DEF TickKilled, te
    <3>2. \E r \in Slots, t \in ThreadStates : t.pc \notin {"fork2", "fork3"} /\ Goto(r, t)
      BY <3>1, <1>3
    <3> QED BY <3>1, <3>2, <1>4, <1>5, TickNat, WakeKeeps
  <2>3. ASSUME NEW p \in Slots, TickDemote(p) \/ TickKeep(p) PROVE IInv'
    BY <2>3, TickUserKeeps
  <2>4. ASSUME NEW p \in Slots, TickKernel(p) PROVE IInv'
    BY <2>4, TickKernelKeeps
  <2> QED BY <2>1, <2>2, <2>3, <2>4, <1>6, SMTT(20) DEF Tick
<1>7. CASE DevKernel
  BY <1>7, <1>4, <1>5, WakeKeeps DEF DevKernel
<1>8. ASSUME NEW p \in Slots, DevUser(p) PROVE IInv'
  <2>1. /\ wakeup(Sleepers(IoChan)) /\ (Goto(p, te) \/ thread' = thread)
        /\ UNCHANGED <<pid, parent, chan, killed, ticks, nextpid, cproc, sched>>
    BY <1>4, <1>8 DEF DevUser, Goto
  <2> HIDE DEF te
  <2>2. \/ thread' = thread
        \/ \E r \in Slots, t \in ThreadStates : t.pc \notin {"fork2", "fork3"} /\ Goto(r, t)
    BY <2>1, <1>3
  <2>3. ticks' \in Nat
    BY <2>1, <1>4
  <2> QED BY <2>1, <2>2, <2>3, <1>4, <1>5, WakeKeeps
<1>9. ASSUME NEW p \in Slots, KernelStep(p) PROVE IInv'
  <2>1. CASE PreemptYield(p)
    BY <2>1, PreemptYieldKeeps
  <2>2. CASE ForkParent(p)
    BY <2>2, ForkParentKeeps
  <2>3. CASE ForkRunnable(p)
    BY <2>3, ForkRunnableKeeps
  <2>4. CASE ExitZombie(p)
    BY <2>4, ExitZombieKeeps
  <2>5. CASE WaitReap(p)
    BY <2>5, WaitReapKeeps
  <2>6. CASE WaitSleep(p)
    <3>1. /\ cproc = p /\ sleep(p, ProcChan(p), tw)
          /\ UNCHANGED <<pid, parent, killed, ticks, nextpid>>
      BY <2>6 DEF WaitSleep, At
    <3> HIDE DEF tw
    <3> QED BY <3>1, <1>3, <1>5, SleepKeeps
  <2>7. CASE SleepBegin(p) \/ SleepResume(p)
    BY <2>7, SleepCallKeeps, SMTT(20)
  <2>8. CASE IoSleep(p)
    <3> DEFINE t == thread[p]
    <3>1. /\ cproc = p /\ t \in ThreadStates /\ t.pc \in {"io", "exit"}
          /\ sleep(p, IoChan, t) /\ UNCHANGED <<pid, parent, killed, ticks, nextpid>>
      BY <2>8, <1>4, SMTT(20) DEF IoSleep, At
    <3> HIDE DEF t
    <3> QED BY <3>1, <1>5, SleepKeeps
  <2>9. CASE PreemptReturn(p) \/ WaitFail(p) \/ IoDone(p) \/ TrapReturn(p)
    <3>1. /\ Goto(p, tu) \/ Goto(p, tr) \/ Goto(p, te)
          /\ UNCHANGED <<state, pid, parent, chan, killed, rq, ticks, nextpid, cproc, sched>>
      BY <2>9 DEF PreemptReturn, WaitFail, IoDone, TrapReturn
    <3> HIDE DEF tu, tr, te
    <3>2. killed' \in [Slots -> BOOLEAN]
      BY <3>1, <1>4, SMTT(20)
    <3> QED BY <3>1, <3>2, <1>3, GotoKeeps
  <2> QED BY <2>1, <2>2, <2>3, <2>4, <2>5, <2>6, <2>7, <2>8, <2>9, <1>9 DEF KernelStep
<1>10. ASSUME NEW p \in Slots, UserStep(p) PROVE IInv'
  <2>1. ASSUME NEW np \in Slots, ForkAlloc(p, np) PROVE IInv'
    BY <2>1, ForkAllocKeeps
  <2>2. ASSUME NEW np \in Slots, ForkNoMemory(p, np) PROVE IInv'
    BY <2>2, ForkNoMemoryKeeps
  <2>3. ASSUME NEW v \in KillPids, Kill(p, v) PROVE IInv'
    BY <2>3, KillKeeps
  <2>4. ASSUME NEW n \in SleepArgs, SleepCall(p, n) PROVE IInv'
    <3> DEFINE t == Thr("nap", 0, n)
    <3>1. t \in ThreadStates /\ t.pc = "nap"
      BY ArgAssumption, SMT DEF Thr, ThreadStates, Pcs, KernelPcs
    <3>2. /\ Goto(p, t)
          /\ UNCHANGED <<state, pid, parent, chan, killed, rq, ticks, nextpid, cproc, sched>>
      BY <2>4 DEF SleepCall
    <3> HIDE DEF t
    <3>3. killed' \in [Slots -> BOOLEAN]
      BY <3>2, <1>4, SMTT(20)
    <3> QED BY <3>1, <3>2, <3>3, GotoKeeps
  <2>5. CASE ForkFull(p) \/ ExitCall(p) \/ WaitCall(p) \/ IoCall(p) \/ SyscallKilled(p)
    <3>1. /\ Goto(p, tr) \/ Goto(p, te) \/ Goto(p, tw) \/ Goto(p, ti)
          /\ UNCHANGED <<state, pid, parent, chan, killed, rq, ticks, nextpid, cproc, sched>>
      BY <2>5 DEF ForkFull, ExitCall, WaitCall, IoCall, SyscallKilled
    <3> HIDE DEF tr, te, tw, ti
    <3>2. killed' \in [Slots -> BOOLEAN]
      BY <3>1, <1>4, SMTT(20)
    <3> QED BY <3>1, <3>2, <1>3, GotoKeeps
  <2>6. CASE Fault(p)
    <3>1. /\ Goto(p, te) /\ killed' = [killed EXCEPT ![p] = TRUE]
          /\ UNCHANGED <<state, pid, parent, chan, rq, ticks, nextpid, cproc, sched>>
      BY <2>6 DEF Fault
    <3> HIDE DEF te
    <3>2. killed' \in [Slots -> BOOLEAN]
      BY <3>1, <1>4
    <3> QED BY <3>1, <3>2, <1>3, GotoKeeps, SMTT(20)
  <2> QED BY <2>1, <2>2, <2>3, <2>4, <2>5, <2>6, <1>10 DEF UserStep
<1> QED BY <1>1, <1>2, <1>6, <1>7, <1>8, <1>9, <1>10 DEF Next

\* The invariant holds in every state the kernel reaches.
THEOREM Invariance == Spec => []IInv
BY InitHolds, NextKeeps, PTL DEF Spec

\* Every variable keeps its type.
THEOREM TypeCorrect == Spec => []TypeOK
<1>1. IInv => TypeOK
  BY DEF IInv
<1> QED BY <1>1, Invariance, PTL

\* The queues of the MLFQ kernel hold exactly the RUNNABLE and RUNNING
\* processes, each once and at its level (enqueue(), dequeue() and every one of
\* their callers), for any number of slots and any programs.
THEOREM QueuesAreExact == Spec => []QueueExact
<1>1. IInv => QueueExact
  BY DEF IInv
<1> QED BY <1>1, Invariance, PTL

\* No process ever holds a full slice of user ticks outside the timer branch
\* of usertrap(), for any slices and any boost period.
THEOREM SlicesAreKept == Spec => []SliceKept
<1>1. IInv => SliceKept
  BY DEF IInv
<1> QED BY <1>1, Invariance, PTL

\* scheduler() never finds that the process it chose without a lock is gone,
\* and RUNNING is the state of exactly the process on the hart.
THEOREM CandidateIsRunnable == Spec => []RunnerAndCandidate
<1>1. IInv => RunnerAndCandidate
  BY DEF IInv, HartOwned, RunnerAndCandidate
<1> QED BY <1>1, Invariance, PTL

-----------------------------------------------------------------------------
(* Parents and sleepers *)

Alive == {"SLEEPING", "RUNNABLE", "RUNNING"}

\* SleepsForAReason in two parts: what depends on the families and on killed,
\* and what depends on the clock.
HasReason ==
    \A s \in Slots : state[s] = "SLEEPING" =>
        /\ chan[s] = ProcChan(s) => Zombies(s) = {}
        /\ killed[s] => chan[s] = IoChan
InTime ==
    \A s \in Slots : state[s] = "SLEEPING" /\ chan[s] = TicksChan =>
        StillEarly(thread[s].arg, thread[s].n)

\* A thread that has just set the parent of its child stands where it stood.
NoNewFork == \A s \in Slots : thread'[s].pc = "fork3" => thread'[s] = thread[s]

\* What most steps do to the process table: nobody goes to sleep or exits, and
\* no parent changes.
Quiet ==
    /\ parent' = parent /\ NoNewFork
    /\ \A s \in Slots :
        /\ \/ state'[s] = state[s]
           \/ state[s] \in Alive /\ state'[s] \in Alive \ {"SLEEPING"}
           \/ state[s] = "UNUSED" /\ state'[s] = "USED"
        /\ state'[s] = "SLEEPING" => chan'[s] = chan[s] /\ killed'[s] = killed[s]

\* A quiet step keeps the families and the sleepers' reasons.
LEMMA QuietKeeps ==
    ASSUME IInv, FamilyKept, HasReason, Quiet
    PROVE  FamilyKept' /\ HasReason'
<1>1. initproc \in Slots /\ parent \in [Slots -> 0..NPROC]
  BY NPROCAssumption, SMT DEF IInv, TypeOK, initproc, Slots
<1>2. \A s \in Slots : parent[s] # 0 => parent[s] \in Slots
  BY <1>1, NPROCAssumption, SMT DEF Slots
<1>3. \A s \in Slots : /\ state[s] \in Alive => state'[s] \in Alive
                       /\ state'[s] = "SLEEPING" => state[s] = "SLEEPING"
                       /\ state'[s] = "ZOMBIE" => state[s] = "ZOMBIE"
                       /\ state'[s] \in Alive => state[s] \in Alive
  BY DEF Quiet, Alive
<1>4. ParentAlive'
  BY <1>2, <1>3 DEF FamilyKept, ParentAlive, Quiet, Alive
<1>5. FamilyKept'
  BY <1>1, <1>3, <1>4 DEF FamilyKept, Quiet, NoNewFork, Alive
<1>6. \A s \in Slots : Zombies(s)' \subseteq Zombies(s)
  BY <1>3 DEF Zombies, Children, Quiet
<1>7. HasReason'
  BY <1>3, <1>6 DEF HasReason, Quiet
<1> QED BY <1>5, <1>7

\* A step that moves one thread, not to where fork() has set the parent.
LEMMA GotoQuiet ==
    ASSUME IInv, NEW p \in Slots, NEW t \in ThreadStates, t.pc # "fork3" \/ t = thread[p], Goto(p, t)
    PROVE  NoNewFork
BY DEF IInv, TypeOK, Goto, NoNewFork

\* wakeup(), alone or with a yield() of the running process.
LEMMA WakeQuiet ==
    ASSUME IInv, NEW W \in SUBSET Slots, \A s \in W : state[s] = "SLEEPING",
           \/ state' = WakeState(W)
           \/ \E p \in Slots : state[p] = "RUNNING" /\ state' = [WakeState(W) EXCEPT ![p] = "RUNNABLE"],
           UNCHANGED <<parent, chan, killed>>, NoNewFork
    PROVE  Quiet
<1>1. state \in [Slots -> States]
  BY DEF IInv, TypeOK
<1>2. CASE state' = WakeState(W)
  BY <1>1, <1>2 DEF WakeState, Quiet, Alive
<1>3. ASSUME NEW p \in Slots, state[p] = "RUNNING", state' = [WakeState(W) EXCEPT ![p] = "RUNNABLE"]
      PROVE  Quiet
  BY <1>1, <1>3 DEF WakeState, Quiet, Alive
<1> QED BY <1>2, <1>3

\* sleep(): the process had a reason and is not killed, unless it waits for a
\* device.
LEMMA SleepKeepsFamily ==
    ASSUME IInv, FamilyKept, HasReason,
           NEW p \in Slots, NEW c \in Chans, NEW t \in ThreadStates,
           t.pc # "fork3" \/ t = thread[p],
           cproc = p, sleep(p, c, t), UNCHANGED <<parent, killed>>,
           c = ProcChan(p) => Zombies(p) = {},
           killed[p] => c = IoChan
    PROVE  FamilyKept' /\ HasReason'
<1>1. /\ state' = [state EXCEPT ![p] = "SLEEPING"] /\ chan' = [chan EXCEPT ![p] = c] /\ Goto(p, t)
      /\ state \in [Slots -> States] /\ chan \in [Slots -> Chans] /\ state[p] = "RUNNING"
  BY DEF sleep, IInv, TypeOK, HartOwned
<1>2. NoNewFork
  BY <1>1, GotoQuiet
<1>3. initproc \in Slots /\ \A s \in Slots : parent[s] # 0 => parent[s] \in Slots
  BY NPROCAssumption, SMT DEF IInv, TypeOK, initproc, Slots
<1>4. \A s \in Slots : /\ state[s] \in Alive <=> state'[s] \in Alive
                       /\ state[s] = "ZOMBIE" <=> state'[s] = "ZOMBIE"
                       /\ s # p => state'[s] = state[s] /\ chan'[s] = chan[s]
                       /\ s = p => chan'[s] = c
  BY <1>1 DEF Alive
<1>5. ParentAlive'
  BY <1>3, <1>4 DEF FamilyKept, ParentAlive, Alive
<1>6. FamilyKept'
  <2>1. state'[initproc] \in {"SLEEPING", "RUNNABLE", "RUNNING"}
    BY <1>3, <1>4 DEF FamilyKept, Alive
  <2>2. \A q \in Slots : thread'[q].pc = "fork3" => parent'[thread'[q].arg] = q
    BY <1>2 DEF FamilyKept, NoNewFork
  <2>3. initproc' = initproc
    BY DEF initproc
  <2> QED BY <1>5, <2>1, <2>2, <2>3 DEF FamilyKept
<1>7. \A s \in Slots : Zombies(s)' = Zombies(s)
  BY <1>4 DEF Zombies, Children
<1>8. HasReason'
  BY <1>4, <1>7 DEF HasReason
<1> QED BY <1>6, <1>8

\* fork() sets the parent of its child, which no other process refers to.
LEMMA ForkParentFamily ==
    ASSUME IInv, FamilyKept, HasReason, NEW p \in Slots, ForkParent(p)
    PROVE  FamilyKept' /\ HasReason'
<1> DEFINE np == thread[p].arg
<1>1. /\ thread[p].pc = "fork2" /\ np \in Slots /\ state[np] = "USED" /\ np # initproc
      /\ parent' = [parent EXCEPT ![np] = p] /\ UNCHANGED <<state, chan, killed>>
      /\ thread' = [thread EXCEPT ![p] = [thread[p] EXCEPT !.pc = "fork3"]]
  BY DEF ForkParent, At, Goto, IInv, ForkHeld, Forking, FamilyKept
<1>2. /\ thread \in [Slots -> ThreadStates] /\ parent \in [Slots -> 0..NPROC]
      /\ initproc \in Slots
  BY NPROCAssumption, SMT DEF IInv, TypeOK, initproc, Slots
<1>3. \A r \in Slots : IF r = p THEN thread'[r].arg = np ELSE thread'[r] = thread[r]
  BY <1>1, <1>2 DEF ThreadStates
<1>4. \A r \in Slots : thread[r].pc = "fork3" => thread[r].arg # np /\ thread[r].arg \in Slots
  BY <1>1 DEF IInv, ForkHeld, Forking
<1> HIDE DEF np
<1>5. \A s \in Slots : parent'[s] = IF s = np THEN p ELSE parent[s]
  BY <1>1, <1>2
<1>6. ParentAlive'
  BY <1>1, <1>5 DEF FamilyKept, ParentAlive
<1>7. FamilyKept'
  BY <1>1, <1>3, <1>4, <1>5, <1>6, SMT DEF FamilyKept
<1>8. \A s \in Slots : Zombies(s)' \subseteq Zombies(s)
  BY <1>1, <1>5 DEF Zombies, Children
<1>9. HasReason'
  BY <1>1, <1>8 DEF HasReason
<1> QED BY <1>7, <1>9

\* fork() starts the child, whose parent it is.
LEMMA ForkRunnableFamily ==
    ASSUME IInv, FamilyKept, HasReason, NEW p \in Slots, ForkRunnable(p)
    PROVE  FamilyKept' /\ HasReason'
<1> DEFINE np == thread[p].arg
<1>1. /\ thread[p].pc = "fork3" /\ np \in Slots /\ state[np] = "USED" /\ parent[np] = p
      /\ state[p] = "RUNNING" /\ state' = [state EXCEPT ![np] = "RUNNABLE"]
      /\ thread' = [thread EXCEPT ![np] = Thr("user", 0, 0), ![p] = Thr("ret", 0, 0)]
      /\ UNCHANGED <<parent, chan, killed>>
  BY DEF ForkRunnable, At, IInv, ForkHeld, Forking, FamilyKept, HartOwned
<1>2. thread \in [Slots -> ThreadStates] /\ state \in [Slots -> States] /\ initproc \in Slots
  BY NPROCAssumption, SMT DEF IInv, TypeOK, initproc, Slots
<1>3. NoNewFork
  BY <1>1, <1>2 DEF NoNewFork, Thr
<1> HIDE DEF np
<1>4. \A s \in Slots : state'[s] = IF s = np THEN "RUNNABLE" ELSE state[s]
  BY <1>1, <1>2
<1>5. \A s \in Slots : parent[s] # 0 => parent[s] \in Slots
  BY NPROCAssumption, SMT DEF IInv, TypeOK, Slots
<1>6. p # 0
  BY NPROCAssumption, SMT DEF Slots
<1>7. ParentAlive'
  BY <1>1, <1>4, <1>5, <1>6, SMT DEF FamilyKept, ParentAlive
<1>8. FamilyKept'
  BY <1>1, <1>2, <1>3, <1>4, <1>7, SMT DEF FamilyKept, NoNewFork
<1>9. \A s \in Slots : Zombies(s)' \subseteq Zombies(s)
  BY <1>1, <1>4, SMT DEF Zombies, Children
<1>10. HasReason'
  BY <1>1, <1>4, <1>9, SMT DEF HasReason
<1> QED BY <1>8, <1>10

\* exit() gives its children to init, and wakes init if there is one and its
\* own parent.
LEMMA ExitZombieFamily ==
    ASSUME IInv, FamilyKept, HasReason, NEW p \in Slots, ExitZombie(p)
    PROVE  FamilyKept' /\ HasReason'
<1> DEFINE W == ExitWakes(p)
<1>1. /\ thread[p].pc = "exit" /\ p # initproc /\ UNCHANGED <<chan, killed>>
      /\ parent' = [s \in Slots |-> IF parent[s] = p THEN initproc ELSE parent[s]]
      /\ state'  = [WakeState(W) EXCEPT ![p] = "ZOMBIE"]
      /\ Goto(p, Thr("none", 0, 0))
  BY DEF ExitZombie, At
<1>2. /\ state \in [Slots -> States] /\ initproc \in Slots /\ initproc # 0
      /\ \A s \in Slots : parent[s] # 0 => parent[s] \in Slots
  BY NPROCAssumption, SMT DEF IInv, TypeOK, initproc, Slots
<1>3. NoNewFork
  BY <1>1, GotoQuiet DEF Thr, ThreadStates, Pcs
<1>4. \A s \in W : state[s] = "SLEEPING"
  BY DEF ExitWakes, Sleepers
<1>5. \A s \in Slots :
        /\ state'[s] = IF s = p THEN "ZOMBIE" ELSE IF s \in W THEN "RUNNABLE" ELSE state[s]
        /\ parent'[s] = IF parent[s] = p THEN initproc ELSE parent[s]
  BY <1>1, <1>2 DEF WakeState
<1>6. thread[p].pc # "fork3" /\ \A r \in Slots : r # p /\ thread'[r].pc = "fork3" =>
            thread[r].pc = "fork3" /\ thread'[r] = thread[r] /\ thread[r].arg \in Slots
  BY <1>1, <1>3 DEF NoNewFork, IInv, ForkHeld, Forking
<1>7. thread'[p].pc # "fork3"
  BY <1>1 DEF Goto, Thr, IInv, TypeOK
<1> HIDE DEF W
<1>8. ParentAlive'
  <2> SUFFICES ASSUME NEW s \in Slots \ {initproc},
                      state'[s] \in {"SLEEPING", "RUNNABLE", "RUNNING", "ZOMBIE"}
               PROVE  parent'[s] # 0 /\ state'[parent'[s]] \in {"SLEEPING", "RUNNABLE", "RUNNING"}
    BY DEF ParentAlive
  <2>1. state[s] \in {"SLEEPING", "RUNNABLE", "RUNNING", "ZOMBIE"}
    <3>1. state[p] = "RUNNING"
      BY DEF ExitZombie, At, IInv, HartOwned
    <3> QED BY <1>4, <1>5, <3>1
  <2>2. parent[s] # 0 /\ parent[s] \in Slots /\ state[parent[s]] \in {"SLEEPING", "RUNNABLE", "RUNNING"}
    BY <1>2, <2>1 DEF FamilyKept, ParentAlive
  <2>3. state'[initproc] \in {"SLEEPING", "RUNNABLE", "RUNNING"}
    BY <1>1, <1>2, <1>5 DEF FamilyKept
  <2> QED BY <1>2, <1>5, <2>2, <2>3
<1>9. FamilyKept'
  <2>1. state'[initproc] \in {"SLEEPING", "RUNNABLE", "RUNNING"}
    BY <1>1, <1>2, <1>5 DEF FamilyKept
  <2>2. \A r \in Slots : thread'[r].pc = "fork3" => parent'[thread'[r].arg] = r
    BY <1>5, <1>6, <1>7, SMT DEF FamilyKept
  <2> QED BY <1>8, <2>1, <2>2 DEF FamilyKept
<1>10. ASSUME NEW s \in Slots, state'[s] = "SLEEPING"
       PROVE  /\ chan'[s] = ProcChan(s) => Zombies(s)' = {}
              /\ killed'[s] => chan'[s] = IoChan
  <2>1. state[s] = "SLEEPING" /\ s \notin W /\ s # p
    BY <1>5, <1>10
  <2>2. killed'[s] => chan'[s] = IoChan
    BY <1>1, <2>1 DEF HasReason
  <2>3. ASSUME chan'[s] = ProcChan(s), NEW z \in Zombies(s)' PROVE FALSE
    <3>1. s \in Sleepers(ProcChan(s)) /\ Zombies(s) = {}
      BY <1>1, <2>1, <2>3 DEF Sleepers, HasReason
    <3>2. parent[p] # s /\ (s = initproc => \A pp \in Slots : parent[pp] # p)
      BY <2>1, <3>1 DEF W, ExitWakes
    <3>3. z \in Slots /\ parent'[z] = s /\ state'[z] = "ZOMBIE"
      BY <2>3 DEF Zombies, Children
    <3>4. parent[z] = s
      BY <1>5, <3>2, <3>3
    <3>5. state[z] = "ZOMBIE"
      BY <1>5, <3>2, <3>3, <3>4
    <3> QED BY <3>1, <3>3, <3>4, <3>5 DEF Zombies, Children
  <2> QED BY <2>2, <2>3
<1>11. HasReason'
  BY <1>10 DEF HasReason
<1> QED BY <1>9, <1>11

\* freeproc() of a zombie or of a slot that fork() could not use: nobody's parent.
LEMMA FreeprocFamily ==
    ASSUME IInv, FamilyKept, HasReason, NoNewFork,
           NEW np \in Slots, state[np] \in {"UNUSED", "ZOMBIE"}, NEW Q, freeproc(np, Q)
    PROVE  FamilyKept' /\ HasReason'
<1>1. /\ parent' = [parent EXCEPT ![np] = 0] /\ chan' = [chan EXCEPT ![np] = NoChan]
      /\ killed' = [killed EXCEPT ![np] = FALSE] /\ state' = [state EXCEPT ![np] = "UNUSED"]
  BY DEF freeproc
<1>2. /\ state \in [Slots -> States] /\ parent \in [Slots -> 0..NPROC]
      /\ chan \in [Slots -> Chans] /\ killed \in [Slots -> BOOLEAN] /\ initproc \in Slots
  BY NPROCAssumption, SMT DEF IInv, TypeOK, initproc, Slots
<1>3. \A s \in Slots : IF s = np THEN state'[s] = "UNUSED"
                       ELSE /\ state'[s] = state[s] /\ parent'[s] = parent[s]
                            /\ chan'[s] = chan[s] /\ killed'[s] = killed[s]
  BY <1>1, <1>2
<1>4. \A s \in Slots : parent[s] # 0 => parent[s] \in Slots
  BY NPROCAssumption, SMT DEF IInv, TypeOK, Slots
<1>5. ParentAlive'
  BY <1>3, <1>4, SMT DEF FamilyKept, ParentAlive
<1>6. \A r \in Slots : thread[r].pc = "fork3" => thread[r].arg \in Slots \ {np}
  BY DEF IInv, ForkHeld, Forking
<1>7. FamilyKept'
  BY <1>2, <1>3, <1>5, <1>6, SMT DEF FamilyKept, NoNewFork
<1>8. \A s \in Slots : Zombies(s)' \subseteq Zombies(s)
  BY <1>3 DEF Zombies, Children
<1>9. HasReason'
  BY <1>3, <1>8 DEF HasReason
<1> QED BY <1>7, <1>9

\* The steps of the scheduler are quiet.
LEMMA SchedulerFamily ==
    ASSUME IInv, Scheduler
    PROVE  Quiet
<1>1. UNCHANGED <<parent, killed, thread>>
  BY DEF Scheduler, SchedEnqueue, SchedScan, SchedRun
<1>2. NoNewFork
  BY <1>1 DEF NoNewFork
<1>3. CASE UNCHANGED <<state, chan>>
  BY <1>1, <1>2, <1>3 DEF Quiet
<1>4. CASE /\ sched.pc = "run" /\ state[sched.p] = "RUNNABLE"
           /\ state' = [state EXCEPT ![sched.p] = "RUNNING"]
           /\ chan'  = [chan EXCEPT ![sched.p] = NoChan]
  <2>1. sched.p \in Slots /\ state \in [Slots -> States] /\ chan \in [Slots -> Chans]
    BY <1>4 DEF IInv, HartOwned, TypeOK
  <2> QED BY <1>1, <1>2, <1>4, <2>1 DEF Quiet, Alive
<1> QED BY <1>3, <1>4 DEF Scheduler, SchedEnqueue, SchedScan, SchedRun

\* So are those of the interrupts, which wake sleepers and may end in yield().
LEMMA InterruptFamily ==
    ASSUME IInv, Tick \/ DevKernel \/ \E p \in Slots : DevUser(p)
    PROVE  Quiet
<1> DEFINE te == Thr("exit", 0, 0)
           tp == Thr("preempt", 0, 0)
<1>1. /\ te \in ThreadStates /\ te.pc = "exit" /\ tp \in ThreadStates /\ tp.pc = "preempt"
      /\ \A p \in Slots : thread[p] \in ThreadStates
  BY DEF Thr, ThreadStates, Pcs, KernelPcs, IInv, TypeOK
<1>2. ASSUME NEW c, state' = WakeState(Sleepers(c)) \/ \E p \in Slots :
               cproc = p /\ state' = [WakeState(Sleepers(c)) EXCEPT ![p] = "RUNNABLE"],
             UNCHANGED <<parent, chan, killed>>,
             thread' = thread \/ \E p \in Slots : Goto(p, te) \/ Goto(p, tp) \/ Goto(p, thread[p])
      PROVE  Quiet
  <2> HIDE DEF te, tp
  <2>1. NoNewFork
    <3>1. CASE thread' = thread
      BY <3>1 DEF NoNewFork
    <3>2. ASSUME NEW p \in Slots, Goto(p, te) \/ Goto(p, tp) \/ Goto(p, thread[p]) PROVE NoNewFork
      BY <3>2, <1>1, GotoQuiet
    <3> QED BY <3>1, <3>2, <1>2
  <2>2. \A p \in Slots : cproc = p => state[p] = "RUNNING"
    BY DEF IInv, HartOwned
  <2>3. Sleepers(c) \in SUBSET Slots /\ \A s \in Sleepers(c) : state[s] = "SLEEPING"
    BY DEF Sleepers
  <2> QED BY <1>2, <2>1, <2>2, <2>3, WakeQuiet
<1>3. CASE TickIdle
  BY <1>2, <1>3 DEF TickIdle, wakeup
<1>4. ASSUME NEW p \in Slots, TickKilled(p) PROVE Quiet
  BY <1>2, <1>4 DEF TickKilled, wakeup
<1>5. ASSUME NEW p \in Slots, TickDemote(p) \/ TickKeep(p) PROVE Quiet
  BY <1>2, <1>5 DEF TickDemote, TickKeep, At
<1>6. ASSUME NEW p \in Slots, TickKernel(p) PROVE Quiet
  BY <1>2, <1>6 DEF TickKernel
<1>7. CASE DevKernel
  BY <1>2, <1>7 DEF DevKernel, wakeup
<1>8. ASSUME NEW p \in Slots, DevUser(p) PROVE Quiet
  <2>1. Goto(p, te) \/ Goto(p, thread[p])
    BY <1>8 DEF DevUser, Goto
  <2> QED BY <1>2, <1>8, <2>1 DEF DevUser, wakeup
<1> QED BY <1>3, <1>4, <1>5, <1>6, <1>7, <1>8 DEF Tick

\* Every step keeps the families and the sleepers' reasons.
LEMMA NextFamily ==
    ASSUME IInv, FamilyKept, HasReason, [Next]_vars
    PROVE  FamilyKept' /\ HasReason'
<1> DEFINE tu == Thr("user", 0, 0)
           tr == Thr("ret", 0, 0)
           te == Thr("exit", 0, 0)
           tw == Thr("wait", 0, 0)
           ti == Thr("io", 0, 0)
<1>1. /\ tu \in ThreadStates /\ tr \in ThreadStates /\ te \in ThreadStates
      /\ tw \in ThreadStates /\ ti \in ThreadStates
      /\ tu.pc = "user" /\ tr.pc = "ret" /\ te.pc = "exit" /\ tw.pc = "wait" /\ ti.pc = "io"
  BY DEF Thr, ThreadStates, Pcs, KernelPcs
<1>2. /\ state \in [Slots -> States] /\ killed \in [Slots -> BOOLEAN]
      /\ thread \in [Slots -> ThreadStates] /\ ticks \in Nat
      /\ \A p \in Slots : cproc = p => state[p] = "RUNNING"
  BY DEF IInv, TypeOK, HartOwned
<1>3. /\ TicksChan \in Chans /\ IoChan \in Chans
      /\ \A p \in Slots : ProcChan(p) \in Chans /\ ProcChan(p) # TicksChan /\ ProcChan(p) # IoChan
  BY DEF Chans, TicksChan, IoChan, ProcChan
<1>4. ASSUME NEW p \in Slots,
             Goto(p, tu) \/ Goto(p, tr) \/ Goto(p, te) \/ Goto(p, tw) \/ Goto(p, ti)
      PROVE  NoNewFork
  <2> HIDE DEF tu, tr, te, tw, ti
  <2> QED BY <1>1, <1>4, GotoQuiet
<1>5. CASE UNCHANGED vars
  <2>1. Quiet
    BY <1>5 DEF vars, Quiet, NoNewFork
  <2> QED BY <2>1, QuietKeeps
<1>6. CASE Scheduler \/ Tick \/ DevKernel \/ \E p \in Slots : DevUser(p)
  BY <1>6, SchedulerFamily, InterruptFamily, QuietKeeps
<1>7. ASSUME NEW p \in Slots, UNCHANGED <<state, parent, chan, killed>>,
             Goto(p, tu) \/ Goto(p, tr) \/ Goto(p, te) \/ Goto(p, tw) \/ Goto(p, ti)
      PROVE  FamilyKept' /\ HasReason'
  <2> HIDE DEF tu, tr, te, tw, ti
  <2>1. Quiet
    BY <1>4, <1>7 DEF Quiet
  <2> QED BY <2>1, QuietKeeps
<1>8. ASSUME NEW p \in Slots, KernelStep(p) PROVE FamilyKept' /\ HasReason'
  <2>1. CASE PreemptYield(p)
    <3>1. PICK i \in Levels : Goto(p, Thr("preempt", i + 1, 0))
      BY <2>1 DEF PreemptYield
    <3>2. Thr("preempt", i + 1, 0) \in ThreadStates /\ Thr("preempt", i + 1, 0).pc = "preempt"
      BY SMT DEF Thr, ThreadStates, Pcs, Levels
    <3>3. NoNewFork
      BY <3>1, <3>2, GotoQuiet
    <3>4. /\ cproc = p /\ state' = [state EXCEPT ![p] = "RUNNABLE"]
          /\ UNCHANGED <<parent, chan, killed>>
      BY <2>1 DEF PreemptYield, At
    <3>5. Quiet
      BY <3>3, <3>4, <1>2 DEF Quiet, Alive
    <3> QED BY <3>5, QuietKeeps
  <2>2. CASE ForkParent(p)
    BY <2>2, ForkParentFamily
  <2>3. CASE ForkRunnable(p)
    BY <2>3, ForkRunnableFamily
  <2>4. CASE ExitZombie(p)
    BY <2>4, ExitZombieFamily
  <2>5. CASE WaitReap(p)
    <3>1. PICK np \in Zombies(p) : freeproc(np, rq)
      BY <2>5 DEF WaitReap
    <3>2. np \in Slots /\ state[np] = "ZOMBIE"
      BY DEF Zombies, Children
    <3>3. NoNewFork
      BY <2>5, <1>4 DEF WaitReap
    <3> QED BY <3>1, <3>2, <3>3, FreeprocFamily
  <2>6. CASE WaitSleep(p)
    <3>1. /\ cproc = p /\ sleep(p, ProcChan(p), tw) /\ UNCHANGED <<parent, killed>>
          /\ Zombies(p) = {} /\ ~killed[p]
      BY <2>6 DEF WaitSleep, At
    <3> HIDE DEF tw
    <3> QED BY <3>1, <1>1, <1>3, SleepKeepsFamily
  <2>7. CASE SleepResume(p)
    <3>1. CASE StillEarly(thread[p].arg, thread[p].n) /\ ~killed[p]
      <4>1. cproc = p /\ sleep(p, TicksChan, thread[p]) /\ UNCHANGED <<parent, killed>> /\ ~killed[p]
        BY <2>7, <3>1 DEF SleepResume, At
      <4> QED BY <4>1, <1>2, <1>3, SleepKeepsFamily
    <3>2. CASE ~(StillEarly(thread[p].arg, thread[p].n) /\ ~killed[p])
      BY <2>7, <3>2, <1>7 DEF SleepResume
    <3> QED BY <3>1, <3>2
  <2>10. CASE SleepBegin(p)
    <3>1. CASE StillEarly(ticks, thread[p].n) /\ ~killed[p]
      <4> DEFINE t == Thr("sleep", ticks, thread[p].n)
      <4>1. /\ cproc = p /\ sleep(p, TicksChan, t) /\ UNCHANGED <<parent, killed>> /\ ~killed[p]
        BY <2>10, <3>1 DEF SleepBegin, At
      <4>2. t \in ThreadStates /\ t.pc = "sleep"
        BY <1>2, SMT DEF Thr, ThreadStates, Pcs, KernelPcs
      <4> HIDE DEF t
      <4> QED BY <4>1, <4>2, <1>3, SleepKeepsFamily
    <3>2. CASE ~(StillEarly(ticks, thread[p].n) /\ ~killed[p])
      BY <2>10, <3>2, <1>7 DEF SleepBegin
    <3> QED BY <3>1, <3>2
  <2>8. CASE IoSleep(p)
    <3>1. cproc = p /\ sleep(p, IoChan, thread[p]) /\ UNCHANGED <<parent, killed>>
      BY <2>8 DEF IoSleep, At
    <3> QED BY <3>1, <1>2, <1>3, SleepKeepsFamily
  <2>9. CASE PreemptReturn(p) \/ WaitFail(p) \/ IoDone(p) \/ TrapReturn(p)
    BY <2>9, <1>7 DEF PreemptReturn, WaitFail, IoDone, TrapReturn
  <2> QED BY <2>1, <2>2, <2>3, <2>4, <2>5, <2>6, <2>7, <2>8, <2>9, <2>10, <1>8 DEF KernelStep
<1>9. ASSUME NEW p \in Slots, UserStep(p) PROVE FamilyKept' /\ HasReason'
  <2>1. ASSUME NEW np \in Slots, ForkAlloc(p, np) PROVE FamilyKept' /\ HasReason'
    <3>1. /\ state[np] = "UNUSED" /\ state' = [state EXCEPT ![np] = "USED"]
          /\ Goto(p, Thr("fork2", np, 0)) /\ UNCHANGED <<parent, chan, killed>>
      BY <2>1 DEF ForkAlloc
    <3>2. Thr("fork2", np, 0) \in ThreadStates /\ Thr("fork2", np, 0).pc = "fork2"
      BY SMT DEF Thr, ThreadStates, Pcs, KernelPcs, Slots
    <3>3. NoNewFork
      BY <3>1, <3>2, GotoQuiet
    <3>4. Quiet
      BY <3>1, <3>3, <1>2 DEF Quiet
    <3> QED BY <3>4, QuietKeeps
  <2>2. ASSUME NEW np \in Slots, ForkNoMemory(p, np) PROVE FamilyKept' /\ HasReason'
    <3>1. PICK Q : freeproc(np, Q)
      BY <2>2 DEF ForkNoMemory
    <3>2. state[np] = "UNUSED" /\ NoNewFork
      BY <2>2, <1>4 DEF ForkNoMemory
    <3> QED BY <3>1, <3>2, FreeprocFamily
  <2>3. ASSUME NEW v \in KillPids, Kill(p, v) PROVE FamilyKept' /\ HasReason'
    <3>1. NoNewFork /\ UNCHANGED <<parent, chan>>
      BY <2>3, <1>4 DEF Kill
    <3>2. ASSUME NEW t \in Slots, killed' = [killed EXCEPT ![t] = TRUE],
                 IF state[t] = "SLEEPING" THEN state' = [state EXCEPT ![t] = "RUNNABLE"]
                                          ELSE state' = state
          PROVE  Quiet
      BY <3>1, <3>2, <1>2 DEF Quiet, Alive
    <3>3. ASSUME UNCHANGED <<killed, state>> PROVE Quiet
      BY <3>1, <3>3 DEF Quiet
    <3>4. \/ UNCHANGED <<killed, state>>
          \/ \E t \in Slots : /\ killed' = [killed EXCEPT ![t] = TRUE]
                              /\ IF state[t] = "SLEEPING" THEN state' = [state EXCEPT ![t] = "RUNNABLE"]
                                                          ELSE state' = state
      BY <2>3 DEF Kill
    <3>5. Quiet
      BY <3>2, <3>3, <3>4
    <3> QED BY <3>5, QuietKeeps
  <2>4. ASSUME NEW n \in SleepArgs, SleepCall(p, n) PROVE FamilyKept' /\ HasReason'
    <3>1. Thr("nap", 0, n) \in ThreadStates /\ Thr("nap", 0, n).pc = "nap"
      BY ArgAssumption, SMT DEF Thr, ThreadStates, Pcs, KernelPcs
    <3>2. Goto(p, Thr("nap", 0, n)) /\ UNCHANGED <<state, parent, chan, killed>>
      BY <2>4 DEF SleepCall
    <3>3. NoNewFork
      BY <3>1, <3>2, GotoQuiet
    <3>4. Quiet
      BY <3>2, <3>3 DEF Quiet
    <3> QED BY <3>4, QuietKeeps
  <2>5. CASE ForkFull(p) \/ ExitCall(p) \/ WaitCall(p) \/ IoCall(p) \/ SyscallKilled(p)
    BY <2>5, <1>7 DEF ForkFull, ExitCall, WaitCall, IoCall, SyscallKilled
  <2>6. CASE Fault(p)
    <3>1. /\ NoNewFork /\ UNCHANGED <<state, parent, chan>>
          /\ cproc = p /\ killed' = [killed EXCEPT ![p] = TRUE]
      BY <2>6, <1>4 DEF Fault, At
    <3>2. Quiet
      BY <3>1, <1>2 DEF Quiet
    <3> QED BY <3>2, QuietKeeps
  <2> QED BY <2>1, <2>2, <2>3, <2>4, <2>5, <2>6, <1>9 DEF UserStep
<1> QED BY <1>5, <1>6, <1>8, <1>9 DEF Next

\* The families and the sleepers' reasons hold in every state the kernel
\* reaches.
LEMMA FamilyInvariance == Spec => [](FamilyKept /\ HasReason)
<1>1. Init => FamilyKept /\ HasReason
  BY NPROCAssumption, SMT DEF Init, initproc, Slots, Thr, FamilyKept, ParentAlive, HasReason
<1>2. IInv /\ (FamilyKept /\ HasReason) /\ [Next]_vars => (FamilyKept /\ HasReason)'
  BY NextFamily
<1> QED BY <1>1, <1>2, Invariance, PTL DEF Spec

\* Whatever fork(), exit() and reparent() do, every process but init has a
\* parent that has not exited: no zombie is left that nobody can reap.
THEOREM ParentsAreAlive == Spec => []ParentAlive
<1>1. FamilyKept => ParentAlive
  BY DEF FamilyKept
<1> QED BY <1>1, FamilyInvariance, PTL

\* The clock stands still and nobody new sleeps: what most steps do to the
\* sleepers of sys_sleep().
Lull ==
    /\ ticks' = ticks
    /\ \A s \in Slots : state'[s] = "SLEEPING" =>
        state[s] = "SLEEPING" /\ chan'[s] = chan[s] /\ thread'[s] = thread[s]

LEMMA LullKeeps ==
    ASSUME InTime, Lull
    PROVE  InTime'
<1> SUFFICES ASSUME NEW s \in Slots, state'[s] = "SLEEPING", chan'[s] = TicksChan
             PROVE  (ticks' - thread'[s].arg) % TickMod < thread'[s].n
  BY DEF InTime, StillEarly, TicksChan
<1>1. (ticks - thread[s].arg) % TickMod < thread[s].n
  BY DEF InTime, Lull, StillEarly
<1> QED BY <1>1 DEF Lull

\* A step of the process on the hart, which may wake others but lets nobody
\* sleep.
LEMMA RunnerLull ==
    ASSUME IInv, InTime, NEW p \in Slots, cproc = p, ticks' = ticks, NEW t, Goto(p, t),
           \A s \in Slots : state'[s] = "SLEEPING" => state[s] = "SLEEPING" /\ chan'[s] = chan[s]
    PROVE  InTime'
<1>1. state[p] = "RUNNING" /\ thread \in [Slots -> ThreadStates]
  BY DEF IInv, TypeOK, HartOwned
<1>2. \A s \in Slots : state'[s] = "SLEEPING" => thread'[s] = thread[s]
  BY <1>1 DEF Goto
<1> QED BY <1>2, LullKeeps DEF Lull

\* sleep(), on the clock only with ticks to wait.
LEMMA SleepInTime ==
    ASSUME IInv, InTime, NEW p \in Slots, NEW c \in Chans, NEW t \in ThreadStates,
           ticks' = ticks, sleep(p, c, t), c = TicksChan => StillEarly(t.arg, t.n)
    PROVE  InTime'
<1>1. /\ state' = [state EXCEPT ![p] = "SLEEPING"] /\ chan' = [chan EXCEPT ![p] = c]
      /\ thread' = [thread EXCEPT ![p] = t]
      /\ state \in [Slots -> States] /\ chan \in [Slots -> Chans] /\ thread \in [Slots -> ThreadStates]
  BY DEF sleep, Goto, IInv, TypeOK
<1> SUFFICES ASSUME NEW s \in Slots, state'[s] = "SLEEPING", chan'[s] = TicksChan
             PROVE  (ticks' - thread'[s].arg) % TickMod < thread'[s].n
  BY DEF InTime, StillEarly, TicksChan
<1>2. CASE s = p
  BY <1>1, <1>2 DEF StillEarly
<1>3. CASE s # p
  <2>1. state[s] = "SLEEPING" /\ chan[s] = TicksChan /\ thread'[s] = thread[s]
    BY <1>1, <1>3
  <2>2. (ticks - thread[s].arg) % TickMod < thread[s].n
    BY <2>1 DEF InTime, StillEarly
  <2> QED BY <2>1, <2>2
<1> QED BY <1>2, <1>3

\* A tick wakes every sleeper of the clock: none is left to be late.
LEMMA TickInTime ==
    ASSUME IInv, Tick
    PROVE  InTime'
<1>1. state \in [Slots -> States] /\ chan' = chan
  BY DEF IInv, TypeOK, Tick, TickIdle, TickKilled, TickDemote, TickKeep, TickKernel
<1>2. \/ state' = WakeState(Sleepers(TicksChan))
      \/ \E p \in Slots : state' = [WakeState(Sleepers(TicksChan)) EXCEPT ![p] = "RUNNABLE"]
  BY DEF Tick, TickIdle, TickKilled, TickDemote, TickKeep, TickKernel, wakeup
<1>3. \A s \in Slots : state'[s] = "SLEEPING" => chan'[s] # TicksChan
  BY <1>1, <1>2 DEF WakeState, Sleepers
<1> QED BY <1>3 DEF InTime, TicksChan

\* Every step leaves the sleepers of the clock with ticks to wait.
LEMMA NextInTime ==
    ASSUME IInv, InTime, [Next]_vars
    PROVE  InTime'
<1>1. /\ state \in [Slots -> States] /\ chan \in [Slots -> Chans]
      /\ thread \in [Slots -> ThreadStates]
      /\ \A p \in Slots : cproc = p => state[p] = "RUNNING"
  BY DEF IInv, TypeOK, HartOwned
<1>2. CASE UNCHANGED vars
  BY <1>2, LullKeeps DEF vars, Lull
<1>3. CASE Scheduler
  <2>1. UNCHANGED <<ticks, thread>>
    BY <1>3 DEF Scheduler, SchedEnqueue, SchedScan, SchedRun
  <2>2. CASE UNCHANGED <<state, chan>>
    BY <2>1, <2>2, LullKeeps DEF Lull
  <2>3. CASE /\ sched.pc = "run"
             /\ state' = [state EXCEPT ![sched.p] = "RUNNING"]
             /\ chan'  = [chan EXCEPT ![sched.p] = NoChan]
    <3>1. sched.p \in Slots
      BY <2>3 DEF IInv, HartOwned
    <3>2. \A s \in Slots : state'[s] = "SLEEPING" => state[s] = "SLEEPING" /\ chan'[s] = chan[s]
      BY <1>1, <2>3, <3>1
    <3> QED BY <2>1, <3>2, LullKeeps DEF Lull
  <2> QED BY <1>3, <2>2, <2>3 DEF Scheduler, SchedEnqueue, SchedScan, SchedRun
<1>4. CASE Tick
  BY <1>4, TickInTime
<1>5. CASE DevKernel
  BY <1>1, <1>5, LullKeeps DEF DevKernel, wakeup, WakeState, Lull
<1>6. ASSUME NEW p \in Slots, DevUser(p) PROVE InTime'
  <2>1. \A s \in Slots : state'[s] = "SLEEPING" => state[s] = "SLEEPING" /\ chan'[s] = chan[s]
    BY <1>1, <1>6 DEF DevUser, wakeup, WakeState
  <2>2. cproc = p /\ ticks' = ticks /\ \E t : Goto(p, t)
    BY <1>6 DEF DevUser, At
  <2> QED BY <2>1, <2>2, RunnerLull
<1>7. ASSUME NEW p \in Slots, UNCHANGED <<state, chan, ticks>>, cproc = p, NEW t, Goto(p, t)
      PROVE  InTime'
  BY <1>7, RunnerLull
<1>8. ASSUME NEW p \in Slots, KernelStep(p) PROVE InTime'
  <2>1. CASE PreemptYield(p)
    <3>1. cproc = p /\ ticks' = ticks /\ (\E t : Goto(p, t)) /\ UNCHANGED chan
          /\ state' = [state EXCEPT ![p] = "RUNNABLE"]
      BY <2>1 DEF PreemptYield, At
    <3> QED BY <1>1, <3>1, RunnerLull
  <2>2. CASE ForkRunnable(p)
    <3>1. /\ cproc = p /\ ticks' = ticks /\ chan' = chan /\ thread[p].pc = "fork3"
          /\ state' = [state EXCEPT ![thread[p].arg] = "RUNNABLE"]
          /\ thread' = [thread EXCEPT ![thread[p].arg] = Thr("user", 0, 0), ![p] = Thr("ret", 0, 0)]
      BY <2>2 DEF ForkRunnable, At
    <3>2. thread[p].arg \in Slots
      BY <3>1 DEF IInv, ForkHeld, Forking
    <3>3. \A s \in Slots : state'[s] = "SLEEPING" => state[s] = "SLEEPING" /\ thread'[s] = thread[s]
      BY <1>1, <3>1, <3>2
    <3> QED BY <3>1, <3>3, LullKeeps DEF Lull
  <2>3. CASE ExitZombie(p)
    <3>1. /\ cproc = p /\ ticks' = ticks /\ chan' = chan /\ (\E t : Goto(p, t))
          /\ state' = [WakeState(ExitWakes(p)) EXCEPT ![p] = "ZOMBIE"]
      BY <2>3 DEF ExitZombie, At
    <3>2. \A s \in Slots : state'[s] = "SLEEPING" => state[s] = "SLEEPING"
      BY <1>1, <3>1 DEF WakeState
    <3> QED BY <3>1, <3>2, RunnerLull
  <2>4. CASE WaitReap(p)
    <3>1. PICK np \in Slots : freeproc(np, rq)
      BY <2>4 DEF WaitReap, Zombies, Children
    <3>2. \A s \in Slots : state'[s] = "SLEEPING" => state[s] = "SLEEPING" /\ chan'[s] = chan[s]
      BY <1>1, <3>1 DEF freeproc
    <3>3. cproc = p /\ ticks' = ticks /\ \E t : Goto(p, t)
      BY <2>4 DEF WaitReap, At
    <3> QED BY <3>2, <3>3, RunnerLull
  <2>5. CASE WaitSleep(p)
    <3>1. ProcChan(p) \in Chans /\ ProcChan(p) # TicksChan
      BY DEF Chans, ProcChan, TicksChan
    <3>2. Thr("wait", 0, 0) \in ThreadStates
      BY DEF Thr, ThreadStates, Pcs, KernelPcs
    <3> QED BY <2>5, <3>1, <3>2, SleepInTime DEF WaitSleep
  <2>6. CASE SleepResume(p)
    <3>1. CASE StillEarly(thread[p].arg, thread[p].n) /\ ~killed[p]
      <4>1. TicksChan \in Chans /\ thread[p] \in ThreadStates
        BY <1>1 DEF Chans
      <4> QED BY <2>6, <3>1, <4>1, SleepInTime DEF SleepResume
    <3>2. CASE ~(StillEarly(thread[p].arg, thread[p].n) /\ ~killed[p])
      BY <1>7, <2>6, <3>2 DEF SleepResume, At
    <3> QED BY <3>1, <3>2
  <2>7. CASE SleepBegin(p)
    <3>1. CASE StillEarly(ticks, thread[p].n) /\ ~killed[p]
      <4> DEFINE t == Thr("sleep", ticks, thread[p].n)
      <4>1. TicksChan \in Chans /\ thread[p] \in ThreadStates /\ ticks \in Nat
        BY <1>1 DEF Chans, IInv, TypeOK
      <4>2. t \in ThreadStates /\ t.arg = ticks /\ t.n = thread[p].n
        BY <4>1 DEF Thr, ThreadStates, Pcs, KernelPcs
      <4>3. sleep(p, TicksChan, t) /\ ticks' = ticks
        BY <2>7, <3>1 DEF SleepBegin
      <4> HIDE DEF t
      <4> QED BY <3>1, <4>1, <4>2, <4>3, SleepInTime
    <3>2. CASE ~(StillEarly(ticks, thread[p].n) /\ ~killed[p])
      BY <1>7, <2>7, <3>2 DEF SleepBegin, At
    <3> QED BY <3>1, <3>2
  <2>8. CASE IoSleep(p)
    <3>1. IoChan \in Chans /\ IoChan # TicksChan /\ thread[p] \in ThreadStates
      BY <1>1 DEF Chans, IoChan, TicksChan
    <3> QED BY <2>8, <3>1, SleepInTime DEF IoSleep
  <2>9. CASE PreemptReturn(p) \/ ForkParent(p) \/ WaitFail(p) \/ IoDone(p) \/ TrapReturn(p)
    BY <1>7, <2>9 DEF PreemptReturn, ForkParent, WaitFail, IoDone, TrapReturn, At
  <2> QED BY <2>1, <2>2, <2>3, <2>4, <2>5, <2>6, <2>7, <2>8, <2>9, <1>8 DEF KernelStep
<1>9. ASSUME NEW p \in Slots, UserStep(p) PROVE InTime'
  <2>1. ASSUME NEW np \in Slots, ForkAlloc(p, np) PROVE InTime'
    <3>1. /\ cproc = p /\ ticks' = ticks /\ chan' = chan /\ (\E t : Goto(p, t))
          /\ state' = [state EXCEPT ![np] = "USED"]
      BY <2>1 DEF ForkAlloc, Enter, At
    <3> QED BY <1>1, <3>1, RunnerLull
  <2>2. ASSUME NEW np \in Slots, ForkNoMemory(p, np) PROVE InTime'
    <3>1. PICK Q : freeproc(np, Q)
      BY <2>2 DEF ForkNoMemory
    <3>2. \A s \in Slots : state'[s] = "SLEEPING" => state[s] = "SLEEPING" /\ chan'[s] = chan[s]
      BY <1>1, <3>1 DEF freeproc
    <3>3. cproc = p /\ ticks' = ticks /\ \E t : Goto(p, t)
      BY <2>2 DEF ForkNoMemory, Enter, At
    <3> QED BY <3>2, <3>3, RunnerLull
  <2>3. ASSUME NEW v \in KillPids, Kill(p, v) PROVE InTime'
    <3>1. cproc = p /\ ticks' = ticks /\ chan' = chan /\ \E t : Goto(p, t)
      BY <2>3 DEF Kill, Enter, At
    <3>2. state' = state \/ \E t \in Slots : state' = [state EXCEPT ![t] = "RUNNABLE"]
      BY <2>3 DEF Kill
    <3>3. \A s \in Slots : state'[s] = "SLEEPING" => state[s] = "SLEEPING"
      BY <1>1, <3>2
    <3> QED BY <3>1, <3>3, RunnerLull
  <2>4. ASSUME NEW n \in SleepArgs, SleepCall(p, n) PROVE InTime'
    BY <1>7, <2>4 DEF SleepCall, Enter, At
  <2>5. CASE ForkFull(p) \/ ExitCall(p) \/ WaitCall(p) \/ IoCall(p) \/ SyscallKilled(p) \/ Fault(p)
    BY <1>7, <2>5 DEF ForkFull, ExitCall, WaitCall, IoCall, SyscallKilled, Fault, Enter, At
  <2> QED BY <2>1, <2>2, <2>3, <2>4, <2>5, <1>9 DEF UserStep
<1> QED BY <1>2, <1>3, <1>4, <1>5, <1>6, <1>8, <1>9 DEF Next

\* wait(), sys_sleep(), exit() and kill() lose no wakeup: a process asleep in
\* wait() has no zombie child, one asleep in sys_sleep() has ticks to wait, and
\* a killed one sleeps for a device only.
THEOREM SleepersHaveAReason == Spec => []SleepsForAReason
<1>1. Init => InTime
  BY DEF Init, InTime
<1>2. IInv /\ InTime /\ [Next]_vars => InTime'
  BY NextInTime
<1>3. HasReason /\ InTime => SleepsForAReason
  BY DEF HasReason, InTime, SleepsForAReason
<1> QED BY <1>1, <1>2, <1>3, Invariance, FamilyInvariance, PTL DEF Spec

-----------------------------------------------------------------------------
(* What a timer interrupt may do to the others.                             *)

\* Only the end of usertrap()'s level loop goes from there to user space.
LEMMA OnlyReturns ==
    ASSUME IInv, Next, NEW p \in Slots, At(p, "preempt"), thread'[p].pc = "user"
    PROVE  PreemptReturn(p)
<1>1. cproc = p /\ p # 0 /\ thread[p].pc = "preempt" /\ thread \in [Slots -> ThreadStates]
  BY SMT DEF At, IInv, TypeOK, Slots
<1>2. thread' # thread
  BY <1>1
<1>3. ~Scheduler /\ ~DevKernel
  BY <1>2 DEF Scheduler, SchedEnqueue, SchedScan, SchedRun, DevKernel
<1>4. ~Tick
  BY <1>1, <1>2 DEF Tick, TickIdle, TickKilled, TickDemote, TickKeep, TickKernel, At
<1>5. ASSUME NEW q \in Slots, UserStep(q) \/ DevUser(q) PROVE FALSE
  BY <1>1, <1>5 DEF UserStep, ForkAlloc, ForkNoMemory, ForkFull, ExitCall, WaitCall, Kill,
                    SleepCall, IoCall, SyscallKilled, Fault, DevUser, Enter, At
<1>6. ASSUME NEW q \in Slots, KernelStep(q) PROVE PreemptReturn(p)
  <2>1. q = p /\ (PreemptYield(q) \/ PreemptReturn(q))
    BY <1>1, <1>6 DEF KernelStep, PreemptYield, PreemptReturn, ForkParent, ForkRunnable, ExitZombie,
                      WaitReap, WaitFail, WaitSleep, SleepBegin, SleepResume, IoSleep, IoDone, TrapReturn, At
  <2>2. ASSUME PreemptYield(p) PROVE FALSE
    <3>1. PICK i \in Levels : Goto(p, Thr("preempt", i + 1, 0))
      BY <2>2 DEF PreemptYield
    <3>2. thread'[p].pc = "preempt"
      BY <1>1, <3>1 DEF Goto, Thr
    <3> QED BY <3>2
  <2> QED BY <2>1, <2>2
<1> QED BY <1>3, <1>4, <1>5, <1>6 DEF Next

\* The loop over the higher levels found them empty, and the queues are exact.
LEMMA NextFirst ==
    ASSUME IInv, Next, NEW p \in Slots,
           At(p, "preempt"), thread[p].arg = 0, thread'[p].pc = "user",
           NEW s \in Slots, state'[s] = "RUNNABLE"
    PROVE  rq'.queue_number[s] >= rq'.queue_number[p]
<1>1. PreemptReturn(p)
  BY OnlyReturns
<1>2. /\ rq' = rq /\ state[s] = "RUNNABLE"
      /\ \A i \in Levels : ~HigherLevel(p, i)
  BY <1>1 DEF PreemptReturn
<1>3. rq \in QueueStates /\ QueuesHold(rq, Active) /\ s \in Active
  BY <1>2 DEF IInv, TypeOK, QueueExact, Active
<1> DEFINE l == rq.queue_number[s]
           m == rq.queue_number[p]
           q == rq.multique[l]
<1>4. l \in Levels /\ m \in Levels /\ q \in Seq(Slots)
  BY <1>3 DEF QueueStates
<1>5. s \in Range(q)
  BY <1>3, <1>4 DEF QueuesHold
<1>6. Len(q) > 0
  <2>1. PICK i \in DOMAIN q : q[i] = s
    BY <1>5 DEF Range
  <2>2. i \in 1..Len(q) /\ Len(q) \in Nat
    BY <2>1, <1>4, SMT
  <2> HIDE DEF q
  <2> QED BY <2>2, SMT
<1>7. ~(l \in 0..(m - 1))
  BY <1>2, <1>4, <1>6 DEF HigherLevel
<1> HIDE DEF l, m
<1>8. l >= m
  BY <1>4, <1>7, SMT DEF Levels
<1> QED BY <1>2, <1>8 DEF l, m

\* Whoever usertrap()'s level loop lets go on stands at the highest level
\* that holds a RUNNABLE process.
THEOREM FirstKeepsHart == Spec => KeepsHartOnlyIfFirst
<1>1. IInv /\ [Next]_vars =>
        [\A p \in Slots :
            (At(p, "preempt") /\ thread[p].arg = 0 /\ thread'[p].pc = "user") =>
                \A s \in Slots :
                    state'[s] = "RUNNABLE" => rq'.queue_number[s] >= rq'.queue_number[p]]_vars
  BY NextFirst
<1> QED BY <1>1, Invariance, PTL DEF Spec, KeepsHartOnlyIfFirst

\* Only usertrap()'s timer branch moves ticks while a process that nobody
\* killed is in user space.
LEMMA OnlyTicks ==
    ASSUME IInv, Next, NEW p \in Slots, At(p, "user"), ~killed[p], ticks' # ticks
    PROVE  TickDemote(p) \/ TickKeep(p)
<1>1. cproc = p /\ p # 0 /\ thread[p].pc = "user"
  BY SMT DEF At, Slots
<1>2. ~Scheduler /\ ~DevKernel
  BY DEF Scheduler, SchedEnqueue, SchedScan, SchedRun, DevKernel
<1>3. ASSUME NEW q \in Slots, UserStep(q) \/ DevUser(q) PROVE FALSE
  BY <1>3 DEF UserStep, ForkAlloc, ForkNoMemory, ForkFull, ExitCall, WaitCall, Kill,
              SleepCall, IoCall, SyscallKilled, Fault, DevUser
<1>4. ASSUME NEW q \in Slots, KernelStep(q) PROVE FALSE
  BY <1>4 DEF KernelStep, PreemptYield, PreemptReturn, ForkParent, ForkRunnable, ExitZombie,
              WaitReap, WaitFail, WaitSleep, SleepBegin, SleepResume, IoSleep, IoDone, TrapReturn
<1>5. ~TickIdle
  BY <1>1 DEF TickIdle
<1>6. ASSUME NEW q \in Slots,
             TickKilled(q) \/ TickDemote(q) \/ TickKeep(q) \/ TickKernel(q)
      PROVE  TickDemote(p) \/ TickKeep(p)
  <2>1. q = p
    BY <1>1, <1>6 DEF TickKilled, TickDemote, TickKeep, TickKernel, At
  <2>2. ~TickKilled(p) /\ ~TickKernel(p)
    BY <1>1 DEF TickKilled, TickKernel, KernelPcs
  <2> QED BY <1>6, <2>1, <2>2
<1> QED BY <1>2, <1>3, <1>4, <1>5, <1>6 DEF Next, Tick

\* The queues of a tick that boosts: an entry of a lower level was taken, or
\* stands in the first half of where it stood.
LEMMA TickPlaces ==
    ASSUME IInv, NEW p \in Slots, NextTick % BoostPeriod = 0,
           NEW l \in 1..3, NEW s, NEW n \in Nat, Within(rq, l, s, n)
    PROVE  TickQueues(p).queue_number[s] = 0 \/ Within(TickQueues(p), l, s, n \div 2)
<1> DEFINE W == Sleepers(TicksChan)
           C == Active \cup W
           Q1 == wake(rq, pid, W)
           Q2 == charge(Q1, p)
<1>1. /\ W \in SUBSET Slots /\ \A x \in W : state[x] = "SLEEPING"
      /\ C \in SUBSET Slots /\ l \in Levels /\ rq \in QueueStates
  BY SMT DEF Sleepers, Active, Levels, IInv, TypeOK
<1>2. Q1 \in QueueStates /\ QueuesHold(Q1, C)
  BY <1>1, WakeFacts
<1>3. Within(Q1, l, s, n)
  BY <1>1, WakePlaces
<1> HIDE DEF Q1, C
<1>4. Q1.queueticks[p] + 1 \in Nat
  BY <1>2, SMT DEF QueueStates
<1>5. TicksSet(Q1, Q2, C, p, Q1.queueticks[p] + 1)
  BY <1>1, <1>2, <1>4, SetTicksHolds DEF charge
<1>6. Q2 \in QueueStates /\ Within(Q2, l, s, n)
  BY <1>3, <1>5 DEF TicksSet, Within
<1>7. TickQueues(p) = boost(Q2)
  BY DEF TickQueues, Q1
<1> HIDE DEF Q2
<1> QED BY <1>6, <1>7, BoostPlaces

\* What a boosting tick of p leaves of entry n of level l, which was s.
Halved(p, l, s, n) ==
    \/ rq'.queue_number[s] = 0
    \/ s = p /\ state'[p] = "RUNNABLE"
    \/ Within(rq', l, s, n \div 2)

\* The demotion that may follow moves only the interrupted process.
LEMMA NextHalves ==
    ASSUME IInv, Next, NEW p \in Slots, At(p, "user"), ~killed[p],
           ticks' # ticks, ticks' % BoostPeriod = 0,
           NEW l \in 1..3, NEW s, NEW n \in Nat, Within(rq, l, s, n)
    PROVE  Halved(p, l, s, n)
<1> USE DEF Halved
<1> DEFINE Q == TickQueues(p)
<1>1. TickDemote(p) \/ TickKeep(p)
  BY OnlyTicks
<1>2. NextTick % BoostPeriod = 0
  BY <1>1 DEF TickDemote, TickKeep
<1>3. Q.queue_number[s] = 0 \/ Within(Q, l, s, n \div 2)
  BY <1>2, TickPlaces
<1>4. CASE TickKeep(p)
  BY <1>3, <1>4 DEF TickKeep
<1>5. CASE TickDemote(p)
  <2> DEFINE W == Sleepers(TicksChan)
             C == Active \cup W
  <2>1. rq' = demote(Q, pid, p)
    BY <1>5 DEF TickDemote
  <2>2. /\ state[p] = "RUNNING" /\ pid \in [Slots -> Nat] /\ l \in Levels /\ n \div 2 \in Nat
        /\ state \in [Slots -> States] /\ W \in SUBSET Slots /\ C \in SUBSET Slots
        /\ s \in Slots
    <3>1. state[p] = "RUNNING" /\ pid \in [Slots -> Nat] /\ state \in [Slots -> States]
      BY <1>5 DEF TickDemote, At, IInv, TypeOK, HartOwned
    <3>2. l \in Levels /\ n \div 2 \in Nat
      BY SMT DEF Levels
    <3>3. rq.multique[l] \in Seq(Slots)
      BY <3>2 DEF IInv, TypeOK, QueueStates
    <3>4. PICK k \in 1..n : k <= Len(rq.multique[l]) /\ rq.multique[l][k] = s
      BY DEF Within
    <3>5. s \in Slots
      BY <3>3, <3>4, SMT
    <3> QED BY <3>1, <3>2, <3>5 DEF Sleepers, Active
  <2>3. state'[p] = "RUNNABLE"
    BY <1>5, <2>2 DEF TickDemote, WakeState
  <2>4. p \in C /\ \A x \in C : pid[x] = pid[p] => x = p
    BY <2>2 DEF Active, Sleepers, IInv, PidsDistinct
  <2>5. Q \in QueueStates /\ QueuesHold(Q, C)
    BY <2>2, TickFacts
  <2> HIDE DEF Q, C
  <2>6. CASE s # p
    <3>1. demote(Q, pid, p).queue_number[s] = Q.queue_number[s]
      <4>1. LevelsKept(Q, demote(Q, pid, p), p)
        BY <2>2, <2>4, <2>5, DemoteKeeps, Zenon
      <4> QED BY <2>2, <2>6, <4>1 DEF LevelsKept
    <3>2. Within(Q, l, s, n \div 2) => Within(demote(Q, pid, p), l, s, n \div 2)
      BY <2>2, <2>4, <2>5, <2>6, DemotePlaces
    <3> QED BY <1>3, <2>1, <3>1, <3>2
  <2> QED BY <2>3, <2>6
<1> QED BY <1>1, <1>4, <1>5

\* A place in a queue is within itself.
LEMMA PlaceWithin ==
    ASSUME NEW q \in Seq(Slots), NEW i \in 1..Len(q)
    PROVE  i \in Nat /\ i \in 1..i /\ i <= Len(q)
BY SMT

\* The boost loop of usertrap() takes a process to the first level or leaves
\* it in the first half of the places it had; only the interrupted process
\* may be demoted instead.
THEOREM BoostsHalve == Spec => BoostHalves
<1>1. ASSUME IInv, Next, NEW p \in Slots,
             At(p, "user"), ~killed[p], ticks' # ticks, ticks' % BoostPeriod = 0,
             NEW l \in 1..3, NEW i \in 1..Len(rq.multique[l])
      PROVE  Halved(p, l, rq.multique[l][i], i)
  <2>1. l \in Levels
    BY SMT DEF Levels
  <2>2. rq.multique[l] \in Seq(Slots)
    BY <1>1, <2>1 DEF IInv, TypeOK, QueueStates
  <2>3. i \in Nat /\ i \in 1..i /\ i <= Len(rq.multique[l])
    BY <2>2, PlaceWithin
  <2>4. Within(rq, l, rq.multique[l][i], i)
    BY <2>3 DEF Within
  <2> QED BY <1>1, <2>3, <2>4, NextHalves
<1>2. ASSUME IInv, Next
      PROVE  \A p \in Slots :
                (At(p, "user") /\ ~killed[p] /\ ticks' # ticks /\ ticks' % BoostPeriod = 0) =>
                    \A l \in 1..3 : \A i \in 1..Len(rq.multique[l]) :
                        Halved(p, l, rq.multique[l][i], i)
  BY <1>1, <1>2
<1>3. IInv /\ [Next]_vars =>
        [\A p \in Slots :
            (At(p, "user") /\ ~killed[p] /\ ticks' # ticks /\ ticks' % BoostPeriod = 0) =>
                \A l \in 1..3 : \A i \in 1..Len(rq.multique[l]) :
                    LET s == rq.multique[l][i] IN
                    \/ rq'.queue_number[s] = 0
                    \/ s = p /\ state'[p] = "RUNNABLE"
                    \/ \E k \in 1..(i \div 2) :
                        k <= Len(rq'.multique[l]) /\ rq'.multique[l][k] = s]_vars
  BY <1>2 DEF Halved, Within
<1> QED BY <1>3, Invariance, PTL DEF Spec, BoostHalves

=============================================================================
