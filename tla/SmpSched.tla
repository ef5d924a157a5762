------------------------------ MODULE SmpSched ------------------------------
(***************************************************************************)
(* scheduler() built for RR or for LBS, on several harts that share proc[]. *)
(* Each hart runs its own loop, one step per iteration.  A region under     *)
(* p->lock is one step; the second and third loop of the LBS branch read    *)
(* the process table without a lock, one entry a step.                      *)
(*                                                                          *)
(* hart[c].pc:  count, draw, pick, tie, take   the parts of the LBS branch  *)
(*              rr                             the loop of the RR branch    *)
(*              run                            switched to hart[c].proc     *)
(***************************************************************************)
EXTENDS Integers

CONSTANTS
    Harts,
    Hart0,          \* the hart whose timer interrupt counts the ticks
    NPROC,
    Policies,       \* the builds, RR and LBS: SCHEDULER_TYPE of the Makefile
    Tickets,        \* arguments of settickets() that programs use
    MaxTicks,       \* bound on ticks
    Ops             \* what processes do

Slots == 1..NPROC

\* total_tickets is an int: the sums stay far below 2^31.
ASSUME SmpAssumption ==
    /\ NPROC \in Nat \ {0}
    /\ Hart0 \in Harts
    /\ Policies \subseteq {"RR", "LBS"}
    /\ Tickets \subseteq Nat
    /\ MaxTicks \in Nat

VARIABLES
    policy,     \* the scheduler that is built in
    state, parent, tickets, arrival_time,   \* fields of struct proc, where
    rtime, etime,                           \* ctime is always arrival_time
    ticks,
    visit,      \* clockintr() is in update_time(), at this slot; 0: it is not running
    hart,       \* where scheduler() stands on each hart
    still       \* history, LBS: no process changed since the hart's draw

procs == <<state, parent, tickets, arrival_time>>
times == <<rtime, etime>>
vars == <<policy, procs, times, ticks, visit, hart, still>>

\* The local variables of scheduler(): p (as i), total_tickets, value, sum,
\* winner, each 0 where the code reads it no more.
At(pc, i, n, v, sum, w) ==
    [pc |-> pc, i |-> i, total |-> n, value |-> v, sum |-> sum, winner |-> w]
Top == IF policy = "RR" THEN At("rr", 1, 0, 0, 0, 0) ELSE At("count", 1, 0, 0, 0, 0)
Running(s) == At("run", s, 0, 0, 0, 0)

\* c->proc
proc(c) == IF hart[c].pc = "run" THEN hart[c].i ELSE 0

Init ==
    /\ policy \in Policies
    /\ state = [s \in Slots |-> IF s = 1 THEN "RUNNABLE" ELSE "UNUSED"]
    /\ parent = [s \in Slots |-> 0]
    /\ tickets = [s \in Slots |-> IF s = 1 THEN 1 ELSE 0]
    /\ arrival_time = [s \in Slots |-> 0]
    /\ rtime = [s \in Slots |-> 0]
    /\ etime = [s \in Slots |-> 0]
    /\ ticks = 0 /\ visit = 0
    /\ hart = [c \in Harts |-> Top]
    /\ still = [c \in Harts |-> FALSE]

Goto(c, h) == hart' = [hart EXCEPT ![c] = h]
Moved == still' = [c \in Harts |-> FALSE]

-----------------------------------------------------------------------------
(* RR: run every RUNNABLE process in the order of the table.                *)

\* The iteration after slot i.
RRNext(i) == IF i < NPROC THEN At("rr", i + 1, 0, 0, 0, 0) ELSE Top

RRStep(c) ==
    /\ hart[c].pc = "rr"
    /\ LET s == hart[c].i IN
       IF state[s] = "RUNNABLE"
       THEN /\ state' = [state EXCEPT ![s] = "RUNNING"]
            /\ Goto(c, Running(s))
       ELSE /\ UNCHANGED state
            /\ Goto(c, RRNext(s))
    /\ UNCHANGED <<policy, parent, tickets, arrival_time, times, ticks, visit, still>>

-----------------------------------------------------------------------------
(* LBS: a lottery.                                                          *)

\* for p in proc: acquire; if RUNNABLE then total_tickets += p->tickets; release.
Count(c) ==
    /\ hart[c].pc = "count"
    /\ LET h == hart[c]
           n == IF state[h.i] = "RUNNABLE" THEN h.total + tickets[h.i] ELSE h.total
       IN  Goto(c, IF h.i < NPROC THEN At("count", h.i + 1, n, 0, 0, 0)
                   ELSE IF n > 0 THEN At("draw", 0, n, 0, 0, 0)
                   ELSE Top)
    /\ still' = [still EXCEPT ![c] = FALSE]
    /\ UNCHANGED <<policy, procs, times, ticks, visit>>

\* value = rand_at_max(total_tickets) + 1, where rand_at_max(n) is in 0..n.
Draw(c) ==
    /\ hart[c].pc = "draw"
    /\ \E v \in 0..hart[c].total : Goto(c, At("pick", 1, 0, v + 1, 0, 0))
    /\ still' = [still EXCEPT ![c] = TRUE]
    /\ UNCHANGED <<policy, procs, times, ticks, visit>>

\* Mutant of Pick: the sum has to exceed value.
PickStrict(c) ==
    /\ hart[c].pc = "pick"
    /\ LET h == hart[c]
           n == IF state[h.i] = "RUNNABLE" THEN h.sum + tickets[h.i] ELSE h.sum
       IN  Goto(c, IF state[h.i] = "RUNNABLE" /\ n > h.value
                   THEN At("tie", 1, 0, h.value, 0, h.i)
                   ELSE IF h.i < NPROC
                   THEN At("pick", h.i + 1, 0, h.value, n, 0)
                   ELSE Top)
    /\ UNCHANGED <<policy, procs, times, ticks, visit, still>>

\* The first process at which the sum of the tickets reaches value.
Pick(c) ==
    /\ hart[c].pc = "pick"
    /\ LET h == hart[c]
           n == IF state[h.i] = "RUNNABLE" THEN h.sum + tickets[h.i] ELSE h.sum
       IN  Goto(c, IF state[h.i] = "RUNNABLE" /\ n >= h.value
                   THEN At("tie", 1, 0, h.value, 0, h.i)
                   ELSE IF h.i < NPROC
                   THEN At("pick", h.i + 1, 0, h.value, n, 0)
                   ELSE Top)
    /\ UNCHANGED <<policy, procs, times, ticks, visit, still>>

\* Mutant of Outruns: the number of tickets is not compared.
OutrunsAll(s, w) == state[s] = "RUNNABLE" /\ arrival_time[s] < arrival_time[w]

\* RUNNABLE, as many tickets as the winner so far, and here before it.
Outruns(s, w) ==
    /\ state[s] = "RUNNABLE" /\ tickets[s] = tickets[w]
    /\ arrival_time[s] < arrival_time[w]

Tie(c) ==
    /\ hart[c].pc = "tie"
    /\ LET h == hart[c]
           w == IF Outruns(h.i, h.winner) THEN h.i ELSE h.winner
       IN  Goto(c, IF h.i < NPROC
                   THEN At("tie", h.i + 1, 0, h.value, 0, w)
                   ELSE At("take", 0, 0, h.value, 0, w))
    /\ UNCHANGED <<policy, procs, times, ticks, visit, still>>

\* Mutant of Take: the state is not tested again under the lock.
TakeUntested(c) ==
    /\ hart[c].pc = "take"
    /\ state' = [state EXCEPT ![hart[c].winner] = "RUNNING"]
    /\ Goto(c, Running(hart[c].winner))
    /\ Moved
    /\ UNCHANGED <<policy, parent, tickets, arrival_time, times, ticks, visit>>

\* acquire(&winner->lock), test the state again, swtch().
Take(c) ==
    /\ hart[c].pc = "take"
    /\ LET w == hart[c].winner IN
       IF state[w] = "RUNNABLE"
       THEN /\ state' = [state EXCEPT ![w] = "RUNNING"]
            /\ Goto(c, Running(w))
            /\ Moved
       ELSE Goto(c, Top) /\ UNCHANGED <<state, still>>
    /\ UNCHANGED <<policy, parent, tickets, arrival_time, times, ticks, visit>>

-----------------------------------------------------------------------------
(* What the processes do.  s runs on hart c.                                *)

On(c, s, op) == hart[c].pc = "run" /\ hart[c].i = s /\ op \in Ops

\* sched(): the process leaves the hart in state st; scheduler() goes on.
Leave(c, s, st) ==
    /\ state' = [state EXCEPT ![s] = st]
    /\ Goto(c, IF policy = "RR" THEN RRNext(s) ELSE Top)
    /\ Moved

\* The timer interrupt makes the running process yield().
Yield(c, s) ==
    /\ hart[c].pc = "run" /\ hart[c].i = s
    /\ Leave(c, s, "RUNNABLE")
    /\ UNCHANGED <<policy, parent, tickets, arrival_time, times, ticks, visit>>

Sleep(c, s) ==
    /\ On(c, s, "sleep")
    /\ Leave(c, s, "SLEEPING")
    /\ UNCHANGED <<policy, parent, tickets, arrival_time, times, ticks, visit>>

\* Mutant of Exit: etime is not set.
ExitUntimed(c, s) ==
    /\ On(c, s, "exit") /\ s # 1
    /\ parent' = [t \in Slots |-> IF parent[t] = s THEN 1 ELSE parent[t]]
    /\ Leave(c, s, "ZOMBIE")
    /\ UNCHANGED <<policy, tickets, arrival_time, times, ticks, visit>>

\* exit(); init does not exit.
Exit(c, s) ==
    /\ On(c, s, "exit") /\ s # 1
    /\ parent' = [t \in Slots |-> IF parent[t] = s THEN 1 ELSE parent[t]]
    /\ etime' = [etime EXCEPT ![s] = ticks]
    /\ Leave(c, s, "ZOMBIE")
    /\ UNCHANGED <<policy, tickets, arrival_time, rtime, ticks, visit>>

\* allocproc() starts the times of the slot.
TimesStart(np) ==
    /\ rtime' = [rtime EXCEPT ![np] = 0]
    /\ etime' = [etime EXCEPT ![np] = 0]

\* fork(): allocproc() reads p->parent before fork() sets it.
Fork(c, s, np) ==
    /\ On(c, s, "fork") /\ state[np] = "UNUSED"
    /\ state'   = [state EXCEPT ![np] = "USED"]
    /\ tickets' = [tickets EXCEPT ![np] = IF parent[np] # 0 THEN tickets[parent[np]] ELSE 1]
    /\ arrival_time' = [arrival_time EXCEPT ![np] = ticks]
    /\ parent'  = [parent EXCEPT ![np] = s]
    /\ TimesStart(np)
    /\ Moved
    /\ UNCHANGED <<policy, ticks, visit, hart>>

\* ... np->state = RUNNABLE, under np->lock.
Ready(np) ==
    /\ state[np] = "USED"
    /\ state' = [state EXCEPT ![np] = "RUNNABLE"]
    /\ Moved
    /\ UNCHANGED <<policy, parent, tickets, arrival_time, times, ticks, visit, hart>>

SetTickets(c, s, n) ==
    /\ On(c, s, "settickets")
    /\ tickets' = [tickets EXCEPT ![s] = n]
    /\ Moved
    /\ UNCHANGED <<policy, state, parent, arrival_time, times, ticks, visit, hart>>

\* wakeup(), by an interrupt or a process of any hart.
Wakeup(s) ==
    /\ state[s] = "SLEEPING"
    /\ state' = [state EXCEPT ![s] = "RUNNABLE"]
    /\ Moved
    /\ UNCHANGED <<policy, parent, tickets, arrival_time, times, ticks, visit, hart>>

\* freeproc(), from the parent's wait() or waitx(), which is the last to read
\* the times of the process.
Free(s) ==
    /\ state[s] = "ZOMBIE"
    /\ state'  = [state EXCEPT ![s] = "UNUSED"]
    /\ parent' = [parent EXCEPT ![s] = 0]
    /\ TimesStart(s)
    /\ Moved
    /\ UNCHANGED <<policy, tickets, arrival_time, ticks, visit, hart>>

\* clockintr() on hart 0: ticks++, then update_time().
Tick ==
    /\ visit = 0 /\ ticks < MaxTicks
    /\ ticks' = ticks + 1
    /\ visit' = 1
    /\ UNCHANGED <<policy, procs, times, hart, still>>

\* update_time() takes the lock of one process after the other, while the
\* other harts go on.
UpdateTime ==
    /\ visit # 0
    /\ rtime' = IF state[visit] = "RUNNING" THEN [rtime EXCEPT ![visit] = @ + 1] ELSE rtime
    /\ visit' = IF visit < NPROC THEN visit + 1 ELSE 0
    /\ UNCHANGED <<policy, procs, etime, ticks, hart, still>>

-----------------------------------------------------------------------------
Scheduler(c) == RRStep(c) \/ Count(c) \/ Draw(c) \/ Pick(c) \/ Tie(c) \/ Take(c)

Process(c, s) ==
    \/ Yield(c, s) \/ Sleep(c, s) \/ Exit(c, s)
    \/ \E np \in Slots : Fork(c, s, np)
    \/ \E n \in Tickets : SetTickets(c, s, n)

\* Inside clockintr() hart 0 does nothing else.
Interrupted(c) == c = Hart0 /\ visit # 0

Next ==
    \/ Tick \/ UpdateTime
    \/ \E c \in Harts :
        /\ ~Interrupted(c)
        /\ Scheduler(c) \/ \E s \in Slots : Process(c, s)
    \/ \E s \in Slots : Ready(s) \/ Wakeup(s) \/ Free(s)

Spec == Init /\ [][Next]_vars

\* Every hart keeps executing its loop, the timer takes the hart from every
\* process that runs, and its interrupt handler ends.
Advance(c) == ~Interrupted(c) /\ (Scheduler(c) \/ \E s \in Slots : Yield(c, s))
Fairness == WF_vars(UpdateTime) /\ \A c \in Harts : WF_vars(Advance(c))

\* The generator does not draw total_tickets + 1 for ever.
Lucky(c) == ~Interrupted(c) /\ Draw(c) /\ hart'[c].value <= hart[c].total
FairSpec == Spec /\ Fairness /\ \A c \in Harts : SF_vars(Lucky(c))

-----------------------------------------------------------------------------
\* The process table, the harts and the clock have their types.
TableOK ==
    /\ policy \in Policies
    /\ state \in [Slots -> {"UNUSED", "USED", "SLEEPING", "RUNNABLE", "RUNNING", "ZOMBIE"}]
    /\ parent \in [Slots -> 0..NPROC]
    /\ tickets \in [Slots -> Nat]
    /\ arrival_time \in [Slots -> Nat]
    /\ ticks \in Nat
    /\ hart \in [Harts -> [pc : {"count", "draw", "pick", "tie", "take", "rr", "run"},
                           i : 0..NPROC, total : Nat, value : Nat, sum : Nat,
                           winner : 0..NPROC]]
    /\ still \in [Harts -> BOOLEAN]

TimesOK ==
    /\ rtime \in [Slots -> Nat] /\ etime \in [Slots -> Nat]
    /\ visit \in 0..NPROC

\* No process runs on two harts, and a process is RUNNING exactly while a
\* hart has switched to it - although the harts read the table without locks
\* and a slot may be freed and reused between the choice and the switch.
OneHart ==
    /\ \A s \in Slots : state[s] = "RUNNING" <=> \E c \in Harts : proc(c) = s
    /\ \A c, d \in Harts : proc(c) = proc(d) /\ proc(c) # 0 => c = d

\* The loop variables of scheduler() point into proc[] wherever it reads them.
InRange ==
    \A c \in Harts :
        /\ hart[c].pc \in {"rr", "count", "pick", "tie", "run"} => hart[c].i \in Slots
        /\ hart[c].pc \in {"tie", "take"} => hart[c].winner \in Slots

\* The inductive invariant behind OneHart.
IInv == TableOK /\ InRange /\ OneHart

\* By how much wtime may fall below 0.
Slack == IF Harts = {Hart0} THEN 0 ELSE 1

\* The wtime of waitx(), etime - ctime - rtime, is not negative on one hart:
\* a process is counted as running at most once a tick of its life.  With more
\* harts it is never below -1, and is -1, which waitx() returns as 2^32 - 1,
\* for a process that runs between ticks++ and the visit of update_time()
\* in the tick in which it was created.
WaitTimeBounded ==
    \A s \in Slots : state[s] = "ZOMBIE" => etime[s] - arrival_time[s] - rtime[s] >= -Slack

\* The inductive invariant behind WaitTimeBounded: the visit of update_time()
\* that is still to come in this tick is accounted for.
ToVisit(s) == visit # 0 /\ visit <= s
TimesInv ==
    /\ TimesOK /\ WaitTimeBounded
    /\ \A s \in Slots :
        state[s] \in {"USED", "SLEEPING", "RUNNABLE", "RUNNING"} =>
            rtime[s] + (IF ToVisit(s) THEN 1 ELSE 0) <= ticks - arrival_time[s] + Slack

\* No RUNNABLE process is left waiting while the harts idle: under RR every
\* one of them gets a hart in the end, and under LBS, where it has tickets,
\* it or another one does - whatever processes without tickets are around.
Served ==
    \A s \in Slots :
        state[s] = "RUNNABLE" /\ (policy = "LBS" => tickets[s] > 0) ~>
            IF policy = "RR" THEN state[s] # "RUNNABLE"
            ELSE \E t \in Slots : state[t] = "RUNNING"

=============================================================================
