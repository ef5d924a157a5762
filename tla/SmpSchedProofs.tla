--------------------------- MODULE SmpSchedProofs ---------------------------
(***************************************************************************)
(* Mutual exclusion of the schedulers: no process runs on two harts, under  *)
(* RR and under LBS, for any set of harts and any size of the table.        *)
(*                                                                          *)
(* The steps fall into three kinds: a hart goes on with its loop and takes  *)
(* nobody; a hart switches to a RUNNABLE process; everything else changes   *)
(* the state of a process that is not RUNNING, or takes its hart from it.   *)
(***************************************************************************)
EXTENDS SmpSched, TLAPS

Places == [pc : {"count", "draw", "pick", "tie", "take", "rr", "run"},
           i : 0..NPROC, total : Nat, value : Nat, sum : Nat, winner : 0..NPROC]

States == {"UNUSED", "USED", "SLEEPING", "RUNNABLE", "RUNNING", "ZOMBIE"}

\* A place of a loop that has switched to nobody and points into the table.
Looping(h) ==
    /\ h \in Places
    /\ h.pc # "run"
    /\ h.pc \in {"rr", "count", "pick", "tie"} => h.i \in Slots
    /\ h.pc \in {"tie", "take"} => h.winner \in Slots

\* Both schedulers start their loop at the first slot.
LEMMA TopLoops == Looping(Top)
BY SmpAssumption DEF Looping, Top, At, Places, Slots

\* RR's next iteration is inside the table.
LEMMA RRNextLoops ==
    ASSUME NEW i \in Slots
    PROVE  Looping(RRNext(i))
<1>1. CASE i < NPROC
  BY <1>1, SmpAssumption DEF Looping, RRNext, At, Places, Slots
<1>2. CASE ~(i < NPROC)
  BY <1>2, TopLoops DEF RRNext
<1> QED BY <1>1, <1>2

\* A hart that is not switched to anybody moves on inside its loop.
LEMMA LoopStep ==
    ASSUME IInv, NEW c \in Harts, NEW h, Looping(h), hart[c].pc # "run",
           hart' = [hart EXCEPT ![c] = h], state' = state,
           parent' = parent, tickets' = tickets, arrival_time' = arrival_time,
           policy' = policy, ticks' = ticks, still' \in [Harts -> BOOLEAN]
    PROVE  IInv'
<1>1. TableOK'
  BY Zenon DEF IInv, TableOK, Looping, Places
<1>2. InRange'
  BY DEF IInv, TableOK, InRange, Looping
<1>3. \A d \in Harts : proc(d)' = proc(d)
  BY DEF IInv, TableOK, proc, Looping
<1>4. OneHart'
  BY <1>3 DEF IInv, OneHart
<1> QED BY <1>1, <1>2, <1>4 DEF IInv

\* A hart switches to a RUNNABLE process.
LEMMA SwitchStep ==
    ASSUME IInv, NEW c \in Harts, NEW s \in Slots, hart[c].pc # "run",
           state[s] = "RUNNABLE",
           hart' = [hart EXCEPT ![c] = Running(s)],
           state' = [state EXCEPT ![s] = "RUNNING"],
           parent' = parent, tickets' = tickets, arrival_time' = arrival_time,
           policy' = policy, ticks' = ticks, still' \in [Harts -> BOOLEAN]
    PROVE  IInv'
<1>1. Running(s) \in Places /\ Running(s).pc = "run" /\ Running(s).i = s
  BY SmpAssumption DEF Running, At, Places, Slots
<1> HIDE DEF Running
<1>2. TableOK'
  BY <1>1, Zenon DEF IInv, TableOK, Places
<1>3. InRange'
  BY <1>1 DEF IInv, TableOK, InRange
<1>4. /\ proc(c) = 0 /\ proc(c)' = s
      /\ \A d \in Harts \ {c} : proc(d)' = proc(d)
  BY <1>1 DEF IInv, TableOK, proc
<1>5. s # 0 /\ 0 \notin Slots
  BY DEF Slots
<1>6. \A d \in Harts : proc(d) # s
  BY DEF IInv, OneHart
<1>7. \A t \in Slots : state'[t] = IF t = s THEN "RUNNING" ELSE state[t]
  BY DEF IInv, TableOK
<1>8. OneHart'
  BY <1>4, <1>5, <1>6, <1>7 DEF IInv, OneHart
<1> QED BY <1>2, <1>3, <1>8 DEF IInv

\* A process leaves its hart, for good or until it is chosen again.
LEMMA LeaveStep ==
    ASSUME IInv, NEW c \in Harts, NEW s \in Slots, NEW h, Looping(h),
           hart[c].pc = "run", hart[c].i = s,
           NEW st \in States \ {"RUNNING"},
           hart' = [hart EXCEPT ![c] = h],
           state' = [state EXCEPT ![s] = st],
           parent' \in [Slots -> 0..NPROC],
           tickets' = tickets, arrival_time' = arrival_time,
           policy' = policy, ticks' = ticks, still' \in [Harts -> BOOLEAN]
    PROVE  IInv'
<1>1. TableOK'
  BY Zenon DEF IInv, TableOK, Looping, Places, States
<1>2. InRange'
  BY DEF IInv, TableOK, InRange, Looping
<1>3. /\ proc(c) = s /\ proc(c)' = 0
      /\ \A d \in Harts \ {c} : proc(d)' = proc(d)
  BY DEF IInv, TableOK, proc, Looping
<1>4. s # 0 /\ 0 \notin Slots
  BY DEF Slots
<1>5. \A t \in Slots : state'[t] = IF t = s THEN st ELSE state[t]
  BY DEF IInv, TableOK
<1>6. \A d \in Harts \ {c} : proc(d) # s
  BY <1>3, <1>4 DEF IInv, OneHart
<1>7. OneHart'
  BY <1>3, <1>4, <1>5, <1>6 DEF IInv, OneHart
<1> QED BY <1>1, <1>2, <1>7 DEF IInv

\* The table changes, but no process starts or stops RUNNING.
LEMMA TableStep ==
    ASSUME IInv, hart' = hart,
           state' \in [Slots -> States],
           \A s \in Slots : state'[s] = "RUNNING" <=> state[s] = "RUNNING",
           parent' \in [Slots -> 0..NPROC], tickets' \in [Slots -> Nat],
           arrival_time' \in [Slots -> Nat], ticks' \in Nat, policy' = policy,
           still' \in [Harts -> BOOLEAN]
    PROVE  IInv'
<1>1. TableOK' /\ InRange'
  BY DEF IInv, TableOK, InRange, States
<1>2. \A d \in Harts : proc(d)' = proc(d)
  BY DEF proc
<1>3. OneHart'
  BY <1>2 DEF IInv, OneHart
<1> QED BY <1>1, <1>3 DEF IInv

\* The loop of RR.
LEMMA RRStepKeeps ==
    ASSUME IInv, NEW c \in Harts, RRStep(c)
    PROVE  IInv'
<1>1. hart[c].i \in Slots /\ hart[c].pc # "run" /\ still' \in [Harts -> BOOLEAN]
  BY DEF IInv, TableOK, InRange, RRStep
<1>2. CASE state[hart[c].i] = "RUNNABLE"
  BY <1>1, <1>2, SwitchStep DEF RRStep, Goto
<1>3. CASE state[hart[c].i] # "RUNNABLE"
  BY <1>1, <1>3, RRNextLoops, LoopStep DEF RRStep, Goto
<1> QED BY <1>2, <1>3

\* The loops of LBS that only read the table.
LEMMA LbsLoopKeeps ==
    ASSUME IInv, NEW c \in Harts, Count(c) \/ Draw(c) \/ Pick(c) \/ Tie(c)
    PROVE  IInv'
<1> DEFINE h == hart[c]
<1>1. /\ h \in Places /\ tickets \in [Slots -> Nat] /\ still \in [Harts -> BOOLEAN]
      /\ h.pc \in {"count", "pick", "tie"} => h.i \in Slots
      /\ h.pc = "tie" => h.winner \in Slots
  BY DEF IInv, TableOK, InRange, Places
<1>2. NPROC \in Nat \ {0} /\ Slots = 1..NPROC
  BY SmpAssumption DEF Slots
<1> HIDE DEF h
<1>3. ASSUME NEW k, Looping(k), hart' = [hart EXCEPT ![c] = k], h.pc # "run",
             still' \in [Harts -> BOOLEAN], UNCHANGED <<policy, procs, ticks>>
      PROVE  IInv'
  BY <1>3, LoopStep, Zenon DEF procs, h
<1>4. CASE Count(c)
  <2> DEFINE n == IF state[h.i] = "RUNNABLE" THEN h.total + tickets[h.i] ELSE h.total
             k == IF h.i < NPROC THEN At("count", h.i + 1, n, 0, 0, 0)
                  ELSE IF n > 0 THEN At("draw", 0, n, 0, 0, 0)
                  ELSE Top
  <2>1. h.pc = "count" /\ Goto(c, k) /\ UNCHANGED <<policy, procs, ticks>>
    BY <1>4 DEF Count, h
  <2>4. still' \in [Harts -> BOOLEAN]
    BY <1>4, <1>1 DEF Count
  <2>2. n \in Nat
    BY <2>1, <1>1 DEF Places
  <2> HIDE DEF n
  <2>3. Looping(k)
    <3>1. h.i < NPROC => Looping(At("count", h.i + 1, n, 0, 0, 0))
      BY <2>1, <2>2, <1>1, <1>2 DEF Looping, At, Places
    <3>2. Looping(At("draw", 0, n, 0, 0, 0))
      BY <2>2, <1>2 DEF Looping, At, Places
    <3> QED BY <3>1, <3>2, TopLoops
  <2> QED BY <2>1, <2>3, <2>4, <1>3, Zenon DEF Goto
<1>5. CASE Draw(c)
  <2>1. PICK v \in 0..h.total : Goto(c, At("pick", 1, 0, v + 1, 0, 0))
    BY <1>5 DEF Draw, h
  <2>2. h.pc = "draw" /\ UNCHANGED <<policy, procs, ticks>> /\ still' \in [Harts -> BOOLEAN]
    BY <1>5, <1>1 DEF Draw, h
  <2>3. Looping(At("pick", 1, 0, v + 1, 0, 0))
    BY <1>1, <1>2 DEF Looping, At, Places
  <2> QED BY <2>1, <2>2, <2>3, <1>3, Zenon DEF Goto
<1>6. CASE Pick(c)
  <2> DEFINE n == IF state[h.i] = "RUNNABLE" THEN h.sum + tickets[h.i] ELSE h.sum
             k == IF state[h.i] = "RUNNABLE" /\ n >= h.value
                  THEN At("tie", 1, 0, h.value, 0, h.i)
                  ELSE IF h.i < NPROC
                  THEN At("pick", h.i + 1, 0, h.value, n, 0)
                  ELSE Top
  <2>1. h.pc = "pick" /\ Goto(c, k) /\ UNCHANGED <<policy, procs, ticks, still>>
    BY <1>6 DEF Pick, h
  <2>2. n \in Nat
    BY <2>1, <1>1 DEF Places
  <2> HIDE DEF n
  <2>3. Looping(k)
    <3>1. Looping(At("tie", 1, 0, h.value, 0, h.i))
      BY <2>1, <1>1, <1>2 DEF Looping, At, Places
    <3>2. h.i < NPROC => Looping(At("pick", h.i + 1, 0, h.value, n, 0))
      BY <2>1, <2>2, <1>1, <1>2 DEF Looping, At, Places
    <3> QED BY <3>1, <3>2, TopLoops
  <2> QED BY <2>1, <2>3, <1>1, <1>3, Zenon DEF Goto
<1>7. CASE Tie(c)
  <2> DEFINE w == IF Outruns(h.i, h.winner) THEN h.i ELSE h.winner
             k == IF h.i < NPROC
                  THEN At("tie", h.i + 1, 0, h.value, 0, w)
                  ELSE At("take", 0, 0, h.value, 0, w)
  <2>1. h.pc = "tie" /\ Goto(c, k) /\ UNCHANGED <<policy, procs, ticks, still>>
    BY <1>7 DEF Tie, h
  <2>2. w \in Slots
    BY <2>1, <1>1
  <2> HIDE DEF w
  <2>3. Looping(k)
    BY <2>1, <2>2, <1>1, <1>2 DEF Looping, At, Places
  <2> QED BY <2>1, <2>3, <1>1, <1>3, Zenon DEF Goto
<1> QED BY <1>4, <1>5, <1>6, <1>7

\* LBS tests the state of its winner again under the lock.
LEMMA TakeKeeps ==
    ASSUME IInv, NEW c \in Harts, Take(c)
    PROVE  IInv'
<1>1. hart[c].winner \in Slots /\ hart[c].pc # "run"
  BY DEF IInv, TableOK, InRange, Take
<1>2. still' \in [Harts -> BOOLEAN]
  <2>1. still \in [Harts -> BOOLEAN] /\ [d \in Harts |-> FALSE] \in [Harts -> BOOLEAN]
    BY Zenon DEF IInv, TableOK
  <2>2. still' = still \/ still' = [d \in Harts |-> FALSE]
    BY Zenon DEF Take, Moved
  <2> QED BY <2>1, <2>2, Zenon
<1>3. CASE state[hart[c].winner] = "RUNNABLE"
  BY <1>1, <1>2, <1>3, SwitchStep DEF Take, Goto
<1>4. CASE state[hart[c].winner] # "RUNNABLE"
  BY <1>1, <1>2, <1>4, TopLoops, LoopStep DEF Take, Goto
<1> QED BY <1>3, <1>4

\* What a running process does.
LEMMA ProcessKeeps ==
    ASSUME IInv, NEW c \in Harts, NEW s \in Slots, Process(c, s)
    PROVE  IInv'
<1> DEFINE h == IF policy = "RR" THEN RRNext(s) ELSE Top
<1>1. Looping(h)
  BY RRNextLoops, TopLoops
<1> HIDE DEF h
<1>2. Moved => still' \in [Harts -> BOOLEAN]
  BY DEF Moved
<1>3. parent \in [Slots -> 0..NPROC]
  BY DEF IInv, TableOK
<1>4. ASSUME NEW st \in States \ {"RUNNING"}, Leave(c, s, st),
             hart[c].pc = "run", hart[c].i = s, parent' \in [Slots -> 0..NPROC],
             UNCHANGED <<policy, tickets, arrival_time, ticks>>
      PROVE  IInv'
  BY <1>1, <1>2, <1>4, LeaveStep, Zenon DEF Leave, Goto, h
<1>5. CASE Yield(c, s)
  BY <1>3, <1>4, <1>5 DEF Yield, States
<1>6. CASE Sleep(c, s)
  BY <1>3, <1>4, <1>6 DEF Sleep, On, States
<1>7. CASE Exit(c, s)
  <2>1. parent' \in [Slots -> 0..NPROC]
    BY <1>3, <1>7, SmpAssumption DEF Exit
  <2> QED BY <2>1, <1>4, <1>7 DEF Exit, On, States
<1>8. ASSUME NEW np \in Slots, Fork(c, s, np) PROVE IInv'
  <2>1. s \in 0..NPROC
    BY SmpAssumption DEF Slots
  <2>2. (IF parent[np] # 0 THEN tickets[parent[np]] ELSE 1) \in Nat
    <3>1. parent[np] # 0 => parent[np] \in Slots
      BY <1>3, SmpAssumption DEF Slots
    <3>2. \A t \in Slots : tickets[t] \in Nat
      BY DEF IInv, TableOK
    <3> QED BY <3>1, <3>2
  <2>3. /\ state' \in [Slots -> States] /\ parent' \in [Slots -> 0..NPROC]
        /\ tickets' \in [Slots -> Nat] /\ arrival_time' \in [Slots -> Nat]
        /\ ticks' \in Nat /\ still' \in [Harts -> BOOLEAN]
        /\ hart' = hart /\ policy' = policy
    <3>1. /\ state' \in [Slots -> States] /\ parent' \in [Slots -> 0..NPROC]
          /\ arrival_time' \in [Slots -> Nat] /\ ticks' \in Nat
      BY <2>1, <1>8 DEF Fork, IInv, TableOK, States
    <3> DEFINE n == IF parent[np] # 0 THEN tickets[parent[np]] ELSE 1
    <3>2. n \in Nat /\ tickets \in [Slots -> Nat] /\ tickets' = [tickets EXCEPT ![np] = n]
      BY <2>2, <1>8 DEF Fork, IInv, TableOK
    <3> HIDE DEF n
    <3>3. tickets' \in [Slots -> Nat]
      BY <3>2
    <3>4. still' \in [Harts -> BOOLEAN] /\ hart' = hart /\ policy' = policy
      BY <1>2, <1>8 DEF Fork
    <3> QED BY <3>1, <3>3, <3>4
  <2>4. \A t \in Slots : state'[t] = "RUNNING" <=> state[t] = "RUNNING"
    BY <1>8 DEF Fork, IInv, TableOK
  <2> QED BY <2>3, <2>4, TableStep
<1>9. ASSUME NEW n \in Tickets, SetTickets(c, s, n) PROVE IInv'
  BY <1>2, <1>9, SmpAssumption, TableStep DEF SetTickets, IInv, TableOK, States
<1> QED BY <1>5, <1>6, <1>7, <1>8, <1>9 DEF Process

\* Every step keeps the invariant.
LEMMA NextKeeps == IInv /\ [Next]_vars => IInv'
<1> SUFFICES ASSUME IInv, [Next]_vars PROVE IInv'
  OBVIOUS
<1>1. CASE UNCHANGED vars
  BY <1>1, TableStep DEF vars, procs, IInv, TableOK, States
<1>2. CASE Tick \/ UpdateTime
  BY <1>2, TableStep DEF Tick, UpdateTime, procs, IInv, TableOK, States
<1>3. ASSUME NEW c \in Harts, Scheduler(c) PROVE IInv'
  BY <1>3, RRStepKeeps, LbsLoopKeeps, TakeKeeps DEF Scheduler
<1>4. ASSUME NEW c \in Harts, NEW s \in Slots, Process(c, s) PROVE IInv'
  BY <1>4, ProcessKeeps
<1>5. ASSUME NEW s \in Slots, Ready(s) PROVE IInv'
  BY <1>5, TableStep DEF Ready, Moved, IInv, TableOK, States
<1>6. ASSUME NEW s \in Slots, Wakeup(s) PROVE IInv'
  BY <1>6, TableStep DEF Wakeup, Moved, IInv, TableOK, States
<1>7. ASSUME NEW s \in Slots, Free(s) PROVE IInv'
  BY <1>7, TableStep, SmpAssumption DEF Free, Moved, IInv, TableOK, States
<1> QED BY <1>1, <1>2, <1>3, <1>4, <1>5, <1>6, <1>7 DEF Next

\* At boot no hart has switched to a process.
LEMMA InitHolds == Init => IInv
<1> SUFFICES ASSUME Init PROVE IInv
  OBVIOUS
<1>1. \A c \in Harts : hart[c] = Top /\ hart \in [Harts -> Places]
  BY TopLoops DEF Init, Looping
<1>2. TableOK
  <2>1. hart \in [Harts -> Places]
    BY TopLoops DEF Init, Looping
  <2> QED BY <2>1, SmpAssumption DEF Init, TableOK, Places
<1>3. InRange
  BY <1>1, TopLoops DEF InRange, Looping
<1>4. \A c \in Harts : proc(c) = 0
  BY <1>1, TopLoops DEF proc, Looping
<1>5. OneHart
  BY <1>4 DEF Init, OneHart, Slots
<1> QED BY <1>2, <1>3, <1>5 DEF IInv

-----------------------------------------------------------------------------
(* The times of waitx().                                                    *)

Alive(s) == state[s] \in {"USED", "SLEEPING", "RUNNABLE", "RUNNING"}

\* A step that leaves the times alone and creates and ends no process.
LEMMA TimesFrame ==
    ASSUME TimesInv, UNCHANGED <<rtime, etime, visit, ticks, arrival_time>>,
           \A s \in Slots : Alive(s)' => Alive(s),
           \A s \in Slots : state'[s] = "ZOMBIE" => state[s] = "ZOMBIE"
    PROVE  TimesInv'
<1>1. TimesOK'
  BY DEF TimesInv, TimesOK
<1>2. WaitTimeBounded'
  BY DEF TimesInv, WaitTimeBounded, Slack
<1>3. ASSUME NEW s \in Slots, Alive(s)'
      PROVE  rtime'[s] + (IF ToVisit(s)' THEN 1 ELSE 0) <= ticks' - arrival_time'[s] + Slack
  BY <1>3 DEF TimesInv, Alive, ToVisit
<1> QED BY <1>1, <1>2, <1>3 DEF TimesInv, Alive, Slack

\* The schedulers only move processes between RUNNABLE and RUNNING.
LEMMA SchedulerTimes ==
    ASSUME IInv, TimesInv, NEW c \in Harts, Scheduler(c)
    PROVE  TimesInv'
<1>1. UNCHANGED <<rtime, etime, visit, ticks, arrival_time>>
  BY DEF Scheduler, RRStep, Count, Draw, Pick, Tie, Take, procs, times
<1>2. state' = state \/ \E s \in Slots : state[s] = "RUNNABLE" /\ state' = [state EXCEPT ![s] = "RUNNING"]
  <2>1. CASE RRStep(c)
    BY <2>1 DEF RRStep, IInv, InRange
  <2>2. CASE Take(c)
    BY <2>2 DEF Take, IInv, InRange
  <2>3. CASE Count(c) \/ Draw(c) \/ Pick(c) \/ Tie(c)
    BY <2>3 DEF Count, Draw, Pick, Tie, procs
  <2> QED BY <2>1, <2>2, <2>3 DEF Scheduler
<1>3. \A s \in Slots : (Alive(s)' => Alive(s)) /\ (state'[s] = "ZOMBIE" => state[s] = "ZOMBIE")
  BY <1>2 DEF Alive, IInv, TableOK
<1> QED BY <1>1, <1>3, TimesFrame

\* Only exit() and fork() touch the times; a fork() on the one hart there is
\* never falls into clockintr().
LEMMA ProcessTimes ==
    ASSUME IInv, TimesInv, NEW c \in Harts, NEW s \in Slots, ~Interrupted(c), Process(c, s)
    PROVE  TimesInv'
<1>1. state[s] = "RUNNING" \/ ~(hart[c].pc = "run" /\ hart[c].i = s)
  BY DEF IInv, OneHart, proc, Slots
<1>2. state \in [Slots -> States] /\ arrival_time \in [Slots -> Nat] /\ ticks \in Nat
  BY DEF IInv, TableOK, States
<1>3. CASE Yield(c, s) \/ Sleep(c, s) \/ \E n \in Tickets : SetTickets(c, s, n)
  <2>1. UNCHANGED <<rtime, etime, visit, ticks, arrival_time>>
    BY <1>3 DEF Yield, Sleep, SetTickets, times
  <2>2. \A t \in Slots : (Alive(t)' => Alive(t)) /\ (state'[t] = "ZOMBIE" => state[t] = "ZOMBIE")
    BY <1>1, <1>2, <1>3 DEF Yield, Sleep, SetTickets, Leave, On, Alive
  <2> QED BY <2>1, <2>2, TimesFrame
<1>4. CASE Exit(c, s)
  <2>1. /\ state' = [state EXCEPT ![s] = "ZOMBIE"] /\ etime' = [etime EXCEPT ![s] = ticks]
        /\ rtime' = rtime /\ ticks' = ticks /\ visit' = visit /\ arrival_time' = arrival_time
        /\ state[s] = "RUNNING"
    BY <1>1, <1>4 DEF Exit, Leave, On
  <2>2. rtime[s] <= ticks - arrival_time[s] + Slack
    BY <2>1, <1>2 DEF TimesInv, TimesOK, Slack
  <2>3. TimesOK'
    BY <2>1, <1>2 DEF TimesInv, TimesOK
  <2>4. WaitTimeBounded'
    BY <2>1, <2>2, <1>2 DEF TimesInv, TimesOK, WaitTimeBounded, Slack
  <2> QED BY <2>1, <2>3, <2>4, <1>2 DEF TimesInv, ToVisit, Slack
<1>5. ASSUME NEW np \in Slots, Fork(c, s, np) PROVE TimesInv'
  <2>1. /\ state' = [state EXCEPT ![np] = "USED"] /\ arrival_time' = [arrival_time EXCEPT ![np] = ticks]
        /\ rtime' = [rtime EXCEPT ![np] = 0] /\ etime' = [etime EXCEPT ![np] = 0]
        /\ ticks' = ticks /\ visit' = visit
    BY <1>5 DEF Fork, TimesStart
  <2>2. TimesOK'
    BY <2>1 DEF TimesInv, TimesOK
  <2>3. WaitTimeBounded'
    BY <2>1, <1>2 DEF TimesInv, TimesOK, WaitTimeBounded, Slack
  <2>4. visit # 0 => Slack = 1
    BY DEF Slack, Interrupted
  <2>5. rtime'[np] + (IF ToVisit(np)' THEN 1 ELSE 0) <= ticks' - arrival_time'[np] + Slack
    BY <2>1, <2>4, <1>2 DEF TimesInv, TimesOK, ToVisit, Slack
  <2>6. \A t \in Slots \ {np} :
          Alive(t)' => rtime'[t] + (IF ToVisit(t)' THEN 1 ELSE 0) <= ticks' - arrival_time'[t] + Slack
    BY <2>1, <1>2 DEF TimesInv, TimesOK, ToVisit, Slack, Alive
  <2> QED BY <2>2, <2>3, <2>5, <2>6 DEF TimesInv, Alive, Slack
<1> QED BY <1>3, <1>4, <1>5 DEF Process

\* Every step keeps the bound.
LEMMA TimesKept == IInv /\ TimesInv /\ [Next]_vars => TimesInv'
<1> SUFFICES ASSUME IInv, TimesInv, [Next]_vars PROVE TimesInv'
  OBVIOUS
<1>1. state \in [Slots -> States] /\ arrival_time \in [Slots -> Nat] /\ ticks \in Nat
  BY DEF IInv, TableOK, States
<1>2. CASE UNCHANGED vars
  BY <1>2, TimesFrame DEF vars, procs, times, Alive
<1>3. CASE Tick
  <2>1. UNCHANGED <<state, arrival_time, rtime, etime>> /\ ticks' = ticks + 1 /\ visit' = 1 /\ visit = 0
    BY <1>3 DEF Tick, procs, times
  <2>2. TimesOK' /\ WaitTimeBounded'
    BY <2>1, SmpAssumption DEF TimesInv, TimesOK, WaitTimeBounded, Slack
  <2>3. ASSUME NEW s \in Slots, Alive(s)'
        PROVE  rtime'[s] + (IF ToVisit(s)' THEN 1 ELSE 0) <= ticks' - arrival_time'[s] + Slack'
    <3>1. /\ rtime[s] + (IF ToVisit(s) THEN 1 ELSE 0) <= ticks - arrival_time[s] + Slack
          /\ rtime[s] \in Nat /\ arrival_time[s] \in Nat /\ Slack \in Nat
      BY <2>1, <2>3, <1>1 DEF TimesInv, TimesOK, Alive, Slack
    <3>2. ~ToVisit(s) /\ Slack' = Slack
      BY <2>1 DEF ToVisit, Slack
    <3> QED BY <3>1, <3>2, <2>1, <1>1
  <2> QED BY <2>2, <2>3 DEF TimesInv, Alive
<1>4. CASE UpdateTime
  <2>1. /\ UNCHANGED <<state, arrival_time, ticks, etime>>
        /\ visit \in Slots
        /\ visit' = IF visit < NPROC THEN visit + 1 ELSE 0
        /\ rtime' = IF state[visit] = "RUNNING" THEN [rtime EXCEPT ![visit] = @ + 1] ELSE rtime
    BY <1>4, SmpAssumption DEF UpdateTime, procs, TimesInv, TimesOK, Slots
  <2>2. TimesOK'
    <3>1. rtime \in [Slots -> Nat] /\ etime \in [Slots -> Nat]
      BY Zenon DEF TimesInv, TimesOK
    <3>2. rtime[visit] + 1 \in Nat
      BY <3>1, <2>1
    <3>3. rtime' \in [Slots -> Nat]
      BY <3>1, <3>2, <2>1, Zenon
    <3>4. visit' \in 0..NPROC
      BY <2>1, SmpAssumption DEF Slots
    <3> QED BY <3>1, <3>3, <3>4, <2>1, Zenon DEF TimesOK
  <2>3. WaitTimeBounded'
    BY <2>1 DEF TimesInv, TimesOK, WaitTimeBounded, Slack
  <2>4. ASSUME NEW s \in Slots, Alive(s)
        PROVE  rtime'[s] + (IF ToVisit(s)' THEN 1 ELSE 0) <= ticks' - arrival_time'[s] + Slack
    <3>1. rtime[s] + (IF ToVisit(s) THEN 1 ELSE 0) <= ticks - arrival_time[s] + Slack
      BY <2>4 DEF TimesInv, Alive
    <3>4. /\ rtime \in [Slots -> Nat] /\ NPROC \in Nat /\ Slack \in Nat
          /\ visit \in Nat /\ visit > 0 /\ s \in Nat /\ s > 0
      BY <2>1, SmpAssumption DEF TimesInv, TimesOK, Slots, Slack
    <3>2. CASE s = visit
      <4>1. ToVisit(s) /\ ~ToVisit(s)'
        BY <3>2, <3>4, <2>1 DEF ToVisit
      <4>2. rtime'[s] <= rtime[s] + 1 /\ rtime'[s] \in Nat
        BY <3>2, <3>4, <2>1
      <4> QED BY <3>1, <3>4, <4>1, <4>2, <2>1, <1>1
    <3>3. CASE s # visit
      <4>1. ToVisit(s)' => ToVisit(s)
        BY <3>3, <3>4, <2>1 DEF ToVisit
      <4>2. rtime'[s] = rtime[s]
        BY <3>3, <3>4, <2>1
      <4> QED BY <3>1, <3>4, <4>1, <4>2, <2>1, <1>1
    <3> QED BY <3>2, <3>3
  <2> QED BY <2>1, <2>2, <2>3, <2>4 DEF TimesInv, Alive, Slack
<1>5. ASSUME NEW c \in Harts, ~Interrupted(c), Scheduler(c) \/ \E s \in Slots : Process(c, s)
      PROVE  TimesInv'
  BY <1>5, SchedulerTimes, ProcessTimes
<1>6. ASSUME NEW s \in Slots, Ready(s) \/ Wakeup(s) PROVE TimesInv'
  <2>1. UNCHANGED <<rtime, etime, visit, ticks, arrival_time>>
    BY <1>6 DEF Ready, Wakeup, times
  <2>2. \A t \in Slots : (Alive(t)' => Alive(t)) /\ (state'[t] = "ZOMBIE" => state[t] = "ZOMBIE")
    BY <1>1, <1>6 DEF Ready, Wakeup, Alive
  <2> QED BY <2>1, <2>2, TimesFrame
<1>7. ASSUME NEW s \in Slots, Free(s) PROVE TimesInv'
  <2>1. /\ state' = [state EXCEPT ![s] = "UNUSED"] /\ UNCHANGED <<arrival_time, ticks, visit>>
        /\ rtime' = [rtime EXCEPT ![s] = 0] /\ etime' = [etime EXCEPT ![s] = 0]
    BY <1>7 DEF Free, TimesStart
  <2>2. TimesOK'
    BY <2>1 DEF TimesInv, TimesOK
  <2>3. WaitTimeBounded'
    BY <2>1, <1>1 DEF TimesInv, TimesOK, WaitTimeBounded, Slack
  <2> QED BY <2>1, <2>2, <2>3, <1>1 DEF TimesInv, TimesOK, ToVisit, Slack
<1> QED BY <1>2, <1>3, <1>4, <1>5, <1>6, <1>7 DEF Next

-----------------------------------------------------------------------------
\* The inductive invariant holds in every reachable state.
THEOREM Invariance == Spec => []IInv
BY InitHolds, NextKeeps, PTL DEF Spec

\* No process runs on two harts, although the LBS loops read the table
\* without locks.
THEOREM NoTwoHarts == Spec => []OneHart
<1>1. IInv => OneHart
  BY DEF IInv
<1> QED BY <1>1, Invariance, PTL

\* The wtime of waitx() is not negative on one hart, and never below -1.
THEOREM WaitTimesAreBounded == Spec => []WaitTimeBounded
<1>1. Init => TimesInv
  BY SmpAssumption DEF Init, TimesInv, TimesOK, WaitTimeBounded, ToVisit, Slack, Slots
<1>2. TimesInv => WaitTimeBounded
  BY DEF TimesInv
<1> QED BY <1>1, <1>2, TimesKept, Invariance, PTL DEF Spec

=============================================================================
