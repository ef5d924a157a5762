------------------------------ MODULE SysCount ------------------------------
(***************************************************************************)
(* System call counting: the counters of struct proc (kernel/sysproc.c,     *)
(* kernel/sysfile.c), what allocproc(), exec(), wait() and waitx() do to    *)
(* them, getSysCount(), and the program user/syscount.c.                    *)
(*                                                                          *)
(* The 32 counters of a process do not influence each other, so the model   *)
(* keeps the one that syscount was asked for: num.  pc[s] is where the      *)
(* program in slot s stands: "cmd" any program between two system calls,    *)
(* "wait" and "waitx" inside these calls, "exited"; I_... is init's loop,   *)
(* P_... and C_... are the lines of syscount's main(), in the parent and in *)
(* its child.                                                               *)
(***************************************************************************)
EXTENDS Integers, FiniteSets, FiniteSetsExt

CONSTANTS
    NPROC,          \* slots; slot 1 is init, slot 2 starts as syscount
    Nums,           \* the system calls that syscount may be asked for
    CmdCalls,       \* what programs other than syscount call
    MaxMade,        \* bound on the calls of num that programs make
    BadAddress      \* whether wait() may be given an address copyout() refuses

Slots == 1..NPROC
initproc == 1
syscount == 2

ASSUME SysCountAssumption == NPROC \in Nat /\ NPROC >= 3 /\ MaxMade \in Nat

VARIABLES
    num,                \* the system call that is counted, chosen once
    state, parent, pc,
    syscall_count,      \* p->syscall_count[num]
    ct2, printed,       \* syscount's ct2 and what it prints, -1 before that
    made, cmdmade,      \* history: calls of num by anyone, by the command
    dropped, again,     \* history: counts thrown away, counts added again
    fate                \* history: what became of the command: "none" yet, exec()
                        \* "failed", "ran" and all of its counts come back, some are "lost"

proc == <<state, parent>>
user == <<ct2, printed>>
vars == <<num, proc, pc, syscall_count, user, made, cmdmade, dropped, again, fate>>

Init ==
    /\ num \in Nums /\ fate = "none"
    /\ state  = [s \in Slots |-> IF s <= 2 THEN "USED" ELSE "UNUSED"]
    /\ parent = [s \in Slots |-> IF s = syscount THEN initproc ELSE 0]
    /\ pc     = [s \in Slots |-> IF s = syscount THEN "P_fork"
                                 ELSE IF s = initproc THEN "I_wait" ELSE "exited"]
    /\ syscall_count = [s \in Slots |-> 0]
    /\ ct2 = 0 /\ printed = -1
    /\ made = 0 /\ cmdmade = 0 /\ dropped = 0 /\ again = 0

Goto(s, l) == pc' = [pc EXCEPT ![s] = l]

\* Every sys_...() starts with myproc()->syscall_count[...]++.
Hit(c) == IF c = num THEN 1 ELSE 0
Bump(s, c) == [syscall_count EXCEPT ![s] = @ + Hit(c)]
Made(s, c) ==
    /\ made < MaxMade \/ c # num
    /\ made' = made + Hit(c) /\ num' = num
    /\ cmdmade' = IF pc[s] = "cmd" THEN cmdmade + Hit(c) ELSE cmdmade

\* A program that is not syscount makes the call c.
Cmd(s, c) == state[s] = "USED" /\ pc[s] = "cmd" /\ c \in CmdCalls /\ Made(s, c)

-----------------------------------------------------------------------------
\* Mutant of forked: allocproc() leaves the counters of the slot's last owner.
forkedStale(s, np, l) ==
    /\ state[np] = "UNUSED"
    /\ state'  = [state EXCEPT ![np] = "USED"]
    /\ parent' = [parent EXCEPT ![np] = s]
    /\ syscall_count' = Bump(s, "fork")
    /\ pc' = [pc EXCEPT ![s] = l[1], ![np] = l[2]]
    /\ UNCHANGED <<user, dropped, again, fate>>

\* fork(): allocproc() clears the counters of the new process.
forked(s, np, l) ==
    /\ state[np] = "UNUSED"
    /\ state'  = [state EXCEPT ![np] = "USED"]
    /\ parent' = [parent EXCEPT ![np] = s]
    /\ syscall_count' = [Bump(s, "fork") EXCEPT ![np] = 0]
    /\ pc' = [pc EXCEPT ![s] = l[1], ![np] = l[2]]
    /\ UNCHANGED <<user, dropped, again, fate>>

\* A call with no effect here: getpid(), or a call that fails.
Call(s) ==
    /\ \E c \in CmdCalls \ {"exit", "wait", "waitx"} : Cmd(s, c) /\ syscall_count' = Bump(s, c)
    /\ UNCHANGED <<proc, pc, user, dropped, again, fate>>

Fork(s, np) ==
    /\ Cmd(s, "fork")
    /\ forked(s, np, <<"cmd", "cmd">>)

\* exec() succeeds: the counters start again, the exec itself included.
Exec(s) ==
    /\ Cmd(s, "exec")
    /\ syscall_count' = [syscall_count EXCEPT ![s] = 0]
    /\ dropped' = dropped + Bump(s, "exec")[s] /\ fate' = "lost"
    /\ UNCHANGED <<proc, pc, user, again>>

\* exit(): the children go to init, the slot waits for its parent.
exited(s) ==
    /\ state'  = [state EXCEPT ![s] = "ZOMBIE"]
    /\ parent' = [t \in Slots |-> IF parent[t] = s THEN initproc ELSE parent[t]]
    /\ Goto(s, "exited")
    /\ fate' = IF \E t \in Slots : parent[t] = s THEN "lost" ELSE fate

Exit(s) ==
    /\ Cmd(s, "exit")
    /\ exited(s)
    /\ syscall_count' = Bump(s, "exit")
    /\ UNCHANGED <<user, dropped, again>>

\* A killed process ends without a call of its own.
Killed(s) ==
    /\ state[s] = "USED" /\ pc[s] = "cmd" /\ "kill" \in CmdCalls
    /\ exited(s)
    /\ UNCHANGED <<num, syscall_count, user, made, cmdmade, dropped, again>>

WaitCall(s, c) ==
    /\ Cmd(s, c) /\ c \in {"wait", "waitx"}
    /\ syscall_count' = Bump(s, c)
    /\ Goto(s, c)
    /\ UNCHANGED <<proc, user, dropped, again, fate>>

Zombies(s) == {t \in Slots : parent[t] = s /\ state[t] = "ZOMBIE"}
FirstZombie(s, np) == np \in Zombies(s) /\ \A t \in Zombies(s) : np <= t

freeproc(np) ==
    /\ state'  = [state EXCEPT ![np] = "UNUSED"]
    /\ parent' = [parent EXCEPT ![np] = 0]

\* Mutant of collect: wait() forgets the child's counters.
collectNothing(s, np) == syscall_count

\* The loop of wait() that adds the child's counters to the parent's.
collect(s, np) == [syscall_count EXCEPT ![s] = @ + syscall_count[np]]

\* Where wait() and waitx() return to, by where they were called.
Back(l) ==
    CASE l = "I_waiting" -> "I_wait"
      [] l = "P_waiting" -> "P_ct1"
      [] OTHER           -> "cmd"

\* wait() finds a zombie: adds its counters and frees it.
WaitReap(s) ==
    /\ state[s] = "USED" /\ pc[s] \in {"wait", "P_waiting", "I_waiting"}
    /\ \E np \in Slots : FirstZombie(s, np) /\ freeproc(np)
            /\ syscall_count' = collect(s, np)
    /\ Goto(s, Back(pc[s]))
    /\ UNCHANGED <<num, user, made, cmdmade, dropped, again, fate>>

\* ... and copyout() fails: the counters were added, the child stays.
WaitBad(s) ==
    /\ BadAddress /\ state[s] = "USED" /\ pc[s] = "wait" /\ again < MaxMade
    /\ \E np \in Slots :
        /\ FirstZombie(s, np)
        /\ syscall_count' = collect(s, np)
        /\ again' = again + syscall_count[np]
    /\ Goto(s, Back(pc[s]))
    /\ UNCHANGED <<num, proc, user, made, cmdmade, dropped, fate>>

\* waitx() frees the child without adding its counters.
WaitxReap(s) ==
    /\ state[s] = "USED" /\ pc[s] = "waitx"
    /\ \E np \in Slots : FirstZombie(s, np) /\ freeproc(np)
            /\ dropped' = dropped + syscall_count[np] /\ fate' = "lost"
    /\ Goto(s, Back(pc[s]))
    /\ UNCHANGED <<num, syscall_count, user, made, cmdmade, again>>

\* No child, or the waiting process was killed: return -1.
WaitFail(s) ==
    /\ state[s] = "USED" /\ pc[s] \in {"wait", "waitx"}
    /\ Zombies(s) = {}
    /\ "kill" \in CmdCalls \/ \A t \in Slots : parent[t] # s
    /\ Goto(s, Back(pc[s]))
    /\ UNCHANGED <<num, proc, syscall_count, user, made, cmdmade, dropped, again, fate>>

-----------------------------------------------------------------------------
(* init calls wait() for ever; syscount <mask> <command>.                   *)

\* One line of init or syscount: the call c, from l1 to l2.
Line(s, c, l1, l2) ==
    /\ state[s] = "USED" /\ pc[s] = l1
    /\ Made(s, c)
    /\ syscall_count' = Bump(s, c)
    /\ Goto(s, l2)

InitWait(s) == Line(s, "wait", "I_wait", "I_waiting") /\ UNCHANGED <<proc, user, dropped, again, fate>>

\* int pid = fork();  a failed fork() is not told apart and goes on as parent.
PFork(s) ==
    \/ /\ state[s] = "USED" /\ pc[s] = "P_fork" /\ Made(s, "fork")
       /\ \E np \in Slots : forked(s, np, <<"P_ct2", "C_ct2">>)
    \/ Line(s, "fork", "P_fork", "P_ct2") /\ UNCHANGED <<proc, user, dropped, again, fate>>

\* int ct2 = getSysCount(mask);  in the parent, and in the child.
PCt2(s) ==
    /\ Line(s, "getSysCount", "P_ct2", "P_wait")
    /\ ct2' = syscall_count'[s]
    /\ UNCHANGED <<proc, printed, dropped, again, fate>>

CCt2(s) == Line(s, "getSysCount", "C_ct2", "C_exec") /\ UNCHANGED <<proc, user, dropped, again, fate>>

\* exec(argv[2], argv + 2): runs the command, or returns and the child exits.
CExec(s) ==
    \/ /\ state[s] = "USED" /\ pc[s] = "C_exec" /\ Made(s, "exec")
       /\ syscall_count' = [syscall_count EXCEPT ![s] = 0]
       /\ dropped' = dropped + Bump(s, "exec")[s] /\ fate' = "ran"
       /\ Goto(s, "cmd")
       /\ UNCHANGED <<proc, user, again>>
    \/ Line(s, "exec", "C_exec", "C_exit") /\ fate' = "failed" /\ UNCHANGED <<proc, user, dropped, again>>

CExit(s) ==
    /\ state[s] = "USED" /\ pc[s] = "C_exit" /\ Made(s, "exit")
    /\ exited(s)
    /\ syscall_count' = Bump(s, "exit")
    /\ UNCHANGED <<user, dropped, again>>

PWait(s) == Line(s, "wait", "P_wait", "P_waiting") /\ UNCHANGED <<proc, user, dropped, again, fate>>

\* wait(0) returns -1 at once when fork() had failed.
PNoChild(s) ==
    /\ pc[s] = "P_waiting" /\ \A t \in Slots : parent[t] # s
    /\ Goto(s, "P_ct1")
    /\ UNCHANGED <<num, proc, syscall_count, user, made, cmdmade, dropped, again, fate>>

\* int ct1 = getSysCount(mask); the difference is printed.
PCt1(s) ==
    /\ Line(s, "getSysCount", "P_ct1", "P_exit")
    /\ printed' = syscall_count'[s] - ct2
    /\ UNCHANGED <<proc, ct2, dropped, again, fate>>

PExit(s) ==
    /\ state[s] = "USED" /\ pc[s] = "P_exit" /\ Made(s, "exit")
    /\ exited(s)
    /\ syscall_count' = Bump(s, "exit")
    /\ UNCHANGED <<user, dropped, again>>

-----------------------------------------------------------------------------
Kernel(s) == WaitReap(s) \/ WaitBad(s) \/ WaitxReap(s) \/ WaitFail(s)

Command(s) ==
    \/ Call(s) \/ Exec(s) \/ Exit(s) \/ Killed(s)
    \/ \E np \in Slots : Fork(s, np)
    \/ \E c \in CmdCalls : WaitCall(s, c)

Syscount(s) ==
    \/ PFork(s) \/ PCt2(s) \/ PWait(s) \/ PNoChild(s) \/ PCt1(s) \/ PExit(s)
    \/ CCt2(s) \/ CExec(s) \/ CExit(s)

Next == \E s \in Slots : Kernel(s) \/ Command(s) \/ Syscount(s) \/ InitWait(s)

Spec == Init /\ [][Next]_vars

-----------------------------------------------------------------------------
Present == {s \in Slots : state[s] # "UNUSED"}
Counts(S) == MapThenSumSet(LAMBDA s : syscall_count[s], S)

\* No call is lost and none is counted twice, however slots are reused and
\* children change parents: the counters of the processes in the table and
\* what exec() and waitx() threw away add up to the calls made and those
\* that a wait() with a bad address added and left with the child as well.
Conserved == Counts(Present) + dropped = made + again

\* syscount's own calls between its two readings: wait() and the second
\* getSysCount(), and what its child calls when exec() fails.
Own == Hit("wait") + Hit("getSysCount")
       + IF fate = "failed" THEN Hit("getSysCount") + Hit("exec") + Hit("exit") ELSE 0

\* What syscount prints, for every system call it may be asked for: all calls of
\* the command and its descendants (a count that a failing wait() added is in
\* it again), and syscount's own calls between the readings; less, never more,
\* when a descendant was orphaned, called exec() or was reaped by waitx().
AnswerSound ==
    printed # -1 => /\ printed <= cmdmade + again + Own
                    /\ fate # "lost" => printed = cmdmade + again + Own

=============================================================================
