------------------------------- MODULE Alarm -------------------------------
(***************************************************************************)
(* sigalarm() and sigreturn(): the alarm fields of struct proc, the page    *)
(* that keeps the interrupted trapframe, and the timer branch of usertrap() *)
(* that starts the handler (kernel/sysproc.c, kernel/trap.c, kernel/proc.c, *)
(* kernel/exec.c).                                                          *)
(*                                                                          *)
(* A trapframe is a pair <<epc, regs>>: where the process goes on, and its  *)
(* registers.  cur_ticks is only ever compared with ticks, so it is counted *)
(* up to MaxTicks.  The field alarm_on is never read and is left out.       *)
(* Programs call sigreturn() from a handler the kernel started for them.    *)
(***************************************************************************)
EXTENDS Integers

CONSTANTS
    Slots,          \* the slots of proc[]
    Pages,          \* the pages kalloc() has left for alarm frames
    NoPage,         \* the null pointer
    Intervals,      \* first arguments of sigalarm(): an int, <= 0 disarms
    Handlers,       \* second arguments of sigalarm()
    Regs,           \* register contents
    MaxTicks,       \* bound: at least every interval
    MainCalls,      \* what programs call outside a handler ...
    HandlerCalls    \* ... and inside one

NoHandler == "0"

ASSUME AlarmAssumption ==
    /\ NoPage \notin Pages
    /\ "main" \notin Handlers
    /\ MaxTicks \in Nat /\ Intervals \subseteq Int
    /\ \A n \in Intervals : n <= MaxTicks

VARIABLES
    state,              \* UNUSED, USED (a live process) or ZOMBIE
    trapframe,          \* what the process runs with in user space
    ticks, handler, cur_ticks, in_alarm_handler, alarm_tf,  \* struct proc
    kmem,               \* free pages
    frame,              \* content of each page
    panicked,           \* usertrap() could not allocate a frame
    interrupted,        \* history: the context the last alarm interrupted
    handling,           \* history: the process runs its handler
    rest                \* history: user ticks since the last alarm was handled

alarm == <<ticks, handler, cur_ticks, in_alarm_handler, alarm_tf>>
pages == <<kmem, frame, panicked>>
history == <<interrupted, handling, rest>>
vars == <<state, trapframe, alarm, pages, history>>

Init ==
    \E r \in Regs :
        /\ state            = [s \in Slots |-> "UNUSED"]
        /\ trapframe        = [s \in Slots |-> <<"main", r>>]
        /\ ticks            = [s \in Slots |-> 0]
        /\ handler          = [s \in Slots |-> NoHandler]
        /\ cur_ticks        = [s \in Slots |-> 0]
        /\ in_alarm_handler = [s \in Slots |-> 0]
        /\ alarm_tf         = [s \in Slots |-> NoPage]
        /\ kmem             = Pages
        /\ frame            = [g \in Pages |-> <<"main", r>>]
        /\ panicked         = FALSE
        /\ interrupted      = [s \in Slots |-> <<"main", r>>]
        /\ handling         = [s \in Slots |-> FALSE]
        /\ rest             = [s \in Slots |-> 0]

\* s runs user code that may make the call c.
May(s, c) ==
    /\ ~panicked /\ state[s] = "USED"
    /\ c \in IF handling[s] THEN HandlerCalls ELSE MainCalls

Set(f, s, v) == [f EXCEPT ![s] = v]
Counted(n) == IF n < MaxTicks THEN n + 1 ELSE n

-----------------------------------------------------------------------------
\* allocproc() takes the slot.  in_alarm_handler is not among the fields it
\* clears.  The new process starts in main code.
Alloc(s) ==
    /\ ~panicked /\ state[s] = "UNUSED"
    /\ state'     = Set(state, s, "USED")
    /\ ticks'     = Set(ticks, s, 0)
    /\ cur_ticks' = Set(cur_ticks, s, 0)
    /\ alarm_tf'  = Set(alarm_tf, s, NoPage)
    /\ handler'   = Set(handler, s, NoHandler)
    /\ \E r \in Regs : trapframe' = Set(trapframe, s, <<"main", r>>)
    /\ handling'  = Set(handling, s, FALSE)
    /\ rest'      = Set(rest, s, 0)
    /\ UNCHANGED <<in_alarm_handler, pages, interrupted>>

\* exit(), called by the process or for a killed one.
Exit(s) ==
    /\ May(s, "exit")
    /\ state'    = Set(state, s, "ZOMBIE")
    /\ handling' = Set(handling, s, FALSE)
    /\ UNCHANGED <<trapframe, alarm, pages, interrupted, rest>>

\* freeproc(), from wait(): no alarm field is touched.
Free(s) ==
    /\ ~panicked /\ state[s] = "ZOMBIE"
    /\ state' = Set(state, s, "UNUSED")
    /\ UNCHANGED <<trapframe, alarm, pages, history>>

\* exec(): the new image starts at its entry; the alarm fields stay.
Exec(s) ==
    /\ May(s, "exec")
    /\ \E r \in Regs : trapframe' = Set(trapframe, s, <<"main", r>>)
    /\ handling' = Set(handling, s, FALSE)
    /\ UNCHANGED <<state, alarm, pages, interrupted, rest>>

\* User code changes its registers.
Compute(s) ==
    /\ ~panicked /\ state[s] = "USED"
    /\ \E r \in Regs : trapframe' = Set(trapframe, s, <<trapframe[s][1], r>>)
    /\ UNCHANGED <<state, alarm, pages, history>>

\* sys_sigalarm(n, h): cur_ticks is not reset.
Sigalarm(s, n, h) ==
    /\ May(s, "sigalarm")
    /\ ticks'   = Set(ticks, s, n)
    /\ handler' = Set(handler, s, h)
    /\ UNCHANGED <<state, trapframe, cur_ticks, in_alarm_handler, alarm_tf, pages,
                   interrupted, handling, rest>>

-----------------------------------------------------------------------------
\* The test of usertrap() after p->cur_ticks++.
AlarmDue(s) ==
    /\ ticks[s] > 0 /\ Counted(cur_ticks[s]) >= ticks[s]
    /\ in_alarm_handler[s] = 0

\* Mutant of Tick: cur_ticks is cleared at the end of every tick.
TickResets(s) ==
    /\ ~panicked /\ state[s] = "USED" /\ ~AlarmDue(s)
    /\ cur_ticks' = Set(cur_ticks, s, 0)
    /\ rest'      = Set(rest, s, Counted(rest[s]))
    /\ UNCHANGED <<state, trapframe, ticks, handler, in_alarm_handler, alarm_tf, pages,
                   interrupted, handling>>

\* A timer interrupt in user space, no alarm due.
Tick(s) ==
    /\ ~panicked /\ state[s] = "USED" /\ ~AlarmDue(s)
    /\ cur_ticks' = Set(cur_ticks, s, Counted(cur_ticks[s]))
    /\ rest'      = Set(rest, s, Counted(rest[s]))
    /\ UNCHANGED <<state, trapframe, ticks, handler, in_alarm_handler, alarm_tf, pages,
                   interrupted, handling>>

\* Mutant of Fire: epc is set before the trapframe is saved.
FireSavesLate(s, g) ==
    /\ ~panicked /\ state[s] = "USED" /\ AlarmDue(s)
    /\ g \in kmem
    /\ in_alarm_handler' = Set(in_alarm_handler, s, 1)
    /\ kmem'      = kmem \ {g}
    /\ frame'     = Set(frame, g, <<handler[s], trapframe[s][2]>>)
    /\ alarm_tf'  = Set(alarm_tf, s, g)
    /\ trapframe' = Set(trapframe, s, <<handler[s], trapframe[s][2]>>)
    /\ cur_ticks' = Set(cur_ticks, s, 0)
    /\ interrupted' = Set(interrupted, s, trapframe[s])
    /\ handling'  = Set(handling, s, TRUE)
    /\ rest'      = Set(rest, s, 0)
    /\ UNCHANGED <<state, ticks, handler, panicked>>

\* An alarm is due: the trapframe is saved to a new page and the process goes
\* on in its handler with the registers it has.
Fire(s, g) ==
    /\ ~panicked /\ state[s] = "USED" /\ AlarmDue(s)
    /\ g \in kmem
    /\ in_alarm_handler' = Set(in_alarm_handler, s, 1)
    /\ kmem'      = kmem \ {g}
    /\ frame'     = Set(frame, g, trapframe[s])
    /\ alarm_tf'  = Set(alarm_tf, s, g)
    /\ trapframe' = Set(trapframe, s, <<handler[s], trapframe[s][2]>>)
    /\ cur_ticks' = Set(cur_ticks, s, 0)
    /\ interrupted' = Set(interrupted, s, trapframe[s])
    /\ handling'  = Set(handling, s, TRUE)
    /\ rest'      = Set(rest, s, 0)
    /\ UNCHANGED <<state, ticks, handler, panicked>>

\* An alarm is due and kalloc() returns 0: panic().
FirePanic(s) ==
    /\ ~panicked /\ state[s] = "USED" /\ AlarmDue(s)
    /\ kmem = {}
    /\ in_alarm_handler' = Set(in_alarm_handler, s, 1)
    /\ cur_ticks' = Set(cur_ticks, s, Counted(cur_ticks[s]))
    /\ panicked'  = TRUE
    /\ UNCHANGED <<state, trapframe, ticks, handler, alarm_tf, kmem, frame, history>>

\* Mutant of Sigreturn: the freed frame stays in alarm_tf.
SigreturnKeepsFrame(s) ==
    /\ May(s, "sigreturn") /\ handling[s]
    /\ trapframe' = Set(trapframe, s, frame[alarm_tf[s]])
    /\ kmem'      = kmem \cup {alarm_tf[s]}
    /\ alarm_tf'  = alarm_tf
    /\ cur_ticks' = Set(cur_ticks, s, 0)
    /\ in_alarm_handler' = Set(in_alarm_handler, s, 0)
    /\ handling'  = Set(handling, s, FALSE)
    /\ rest'      = Set(rest, s, 0)
    /\ UNCHANGED <<state, ticks, handler, frame, panicked, interrupted>>

\* Mutant of Sigreturn: the ticks spent in the handler count.
SigreturnKeepsTicks(s) ==
    /\ May(s, "sigreturn") /\ handling[s]
    /\ trapframe' = Set(trapframe, s, frame[alarm_tf[s]])
    /\ kmem'      = kmem \cup {alarm_tf[s]}
    /\ alarm_tf'  = Set(alarm_tf, s, NoPage)
    /\ cur_ticks' = cur_ticks
    /\ in_alarm_handler' = Set(in_alarm_handler, s, 0)
    /\ handling'  = Set(handling, s, FALSE)
    /\ rest'      = Set(rest, s, 0)
    /\ UNCHANGED <<state, ticks, handler, frame, panicked, interrupted>>

\* sys_sigreturn(): the saved frame replaces the trapframe, and usertrapret()
\* goes to user space from here, so syscall() does not store a result in a0.
Sigreturn(s) ==
    /\ May(s, "sigreturn") /\ handling[s]
    /\ trapframe' = Set(trapframe, s, frame[alarm_tf[s]])
    /\ kmem'      = kmem \cup {alarm_tf[s]}
    /\ alarm_tf'  = Set(alarm_tf, s, NoPage)
    /\ cur_ticks' = Set(cur_ticks, s, 0)
    /\ in_alarm_handler' = Set(in_alarm_handler, s, 0)
    /\ handling'  = Set(handling, s, FALSE)
    /\ rest'      = Set(rest, s, 0)
    /\ UNCHANGED <<state, ticks, handler, frame, panicked, interrupted>>

TimerTick(s) == Tick(s) \/ (\E g \in Pages : Fire(s, g)) \/ FirePanic(s)

Next == \E s \in Slots :
    \/ Alloc(s) \/ Exit(s) \/ Free(s) \/ Exec(s) \/ Compute(s)
    \/ \E n \in Intervals, h \in Handlers : Sigalarm(s, n, h)
    \/ TimerTick(s)
    \/ Sigreturn(s)

Spec == Init /\ [][Next]_vars

\* A process that computes in user space is interrupted by the timer again
\* and again (the scheduler lets it run: EveryoneRuns of MlfqKernel).
FairSpec == Spec /\ \A s \in Slots : WF_vars(TimerTick(s))

-----------------------------------------------------------------------------
Contexts == ({"main", NoHandler} \cup Handlers) \X Regs

\* Every variable has its type.
TypeOK ==
    /\ state \in [Slots -> {"UNUSED", "USED", "ZOMBIE"}]
    /\ trapframe \in [Slots -> Contexts]
    /\ ticks \in [Slots -> Intervals \cup {0}]
    /\ handler \in [Slots -> Handlers \cup {NoHandler}]
    /\ cur_ticks \in [Slots -> 0..MaxTicks]
    /\ in_alarm_handler \in [Slots -> {0, 1}]
    /\ alarm_tf \in [Slots -> Pages \cup {NoPage}]
    /\ kmem \in SUBSET Pages
    /\ frame \in [Pages -> Contexts]
    /\ panicked \in BOOLEAN
    /\ interrupted \in [Slots -> Contexts]
    /\ handling \in [Slots -> BOOLEAN]
    /\ rest \in [Slots -> 0..MaxTicks]

\* No alarm frame is free or shared while a slot still points to it, and a
\* slot that points to one refuses further alarms.
FramesOwned ==
    \A s \in Slots : alarm_tf[s] # NoPage =>
        /\ alarm_tf[s] \notin kmem /\ in_alarm_handler[s] = 1
        /\ \A t \in Slots : alarm_tf[t] = alarm_tf[s] => t = s

\* While a process runs its handler, its frame holds the context the alarm
\* interrupted, whatever the handler, further ticks and the other processes
\* do: sigreturn() resumes exactly there, "with all registers holding the
\* same values" (alarmtest.c, test1).
ContextKept ==
    \A s \in Slots : handling[s] =>
        /\ alarm_tf[s] # NoPage
        /\ frame[alarm_tf[s]] = interrupted[s]

\* A process that takes alarms is in main code, and cur_ticks counts its ticks
\* since the last alarm; a handler returns to main code.
Between ==
    \A s \in Slots :
        /\ state[s] = "USED" /\ in_alarm_handler[s] = 0 =>
                trapframe[s][1] = "main" /\ rest[s] = cur_ticks[s]
        /\ handling[s] => state[s] = "USED" /\ interrupted[s][1] = "main"

\* The inductive invariant.
IInv == TypeOK /\ FramesOwned /\ ContextKept /\ Between

\* An alarm interrupts main code, never a handler (alarmtest.c, test2), and
\* comes no sooner than ticks user ticks after the last one was handled.
AlarmsSpaced ==
    [][\A s \in Slots : ~handling[s] /\ handling'[s] =>
            trapframe[s][1] = "main" /\ Counted(rest[s]) >= ticks[s]]_vars

\* An armed alarm comes, unless the program disarms it or ends, or no page is
\* left for the frame.  A process that keeps in_alarm_handler after it left its
\* handler by exec(), or from the slot's last user, is not armed.
Armed(s) == state[s] = "USED" /\ ticks[s] > 0 /\ in_alarm_handler[s] = 0
AlarmComes ==
    \A s \in Slots : Armed(s) ~> (~Armed(s) \/ panicked)

=============================================================================
