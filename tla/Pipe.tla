-------------------------------- MODULE Pipe --------------------------------
(***************************************************************************)
(* kernel/pipe.c: one pipe, shared by processes that fork, read, write,    *)
(* close and get killed.                                                   *)
(*                                                                         *)
(* lock is the holder of pi->lock.  A region that holds it advances by one *)
(* iteration of its loop per step, so that kill(), which does not take     *)
(* pi->lock, can come between two of them.  proc[p].pc is where p stands:  *)
(*   none    not forked yet        idle    outside the pipe code           *)
(*   write   in the loop of pipewrite(), holding the lock                  *)
(*   wsleep  asleep on &pi->nwrite wready  woken, about to take the lock   *)
(*   rwait   in the first loop of piperead()                               *)
(*   rsleep  asleep on &pi->nread  rready  woken, about to take the lock   *)
(*   read    in the second loop of piperead()                              *)
(*   close   fileclose() has dropped the last reference to one end         *)
(***************************************************************************)
EXTENDS Integers, Sequences, FiniteSets

CONSTANTS
    Procs,          \* processes that may share the pipe
    Bytes,          \* what is written
    PIPESIZE,
    UintMod,        \* nread and nwrite are uints: 2^32, a multiple of PIPESIZE
    Counts,         \* the n of read() and write()
    NoByte,
    KillInside,     \* another hart may kill a process that holds pi->lock
    NoProc

ASSUME PipeAssumption ==
    /\ PIPESIZE \in Nat \ {0} /\ UintMod \in Nat
    /\ UintMod > PIPESIZE /\ UintMod % PIPESIZE = 0
    /\ Counts \subseteq Nat
    /\ KillInside \in BOOLEAN
    /\ NoProc \notin Procs

VARIABLES
    data, nread, nwrite, readopen, writeopen,   \* struct pipe
    freed,      \* kfree() has taken the page of the pipe
    lock,       \* the holder of pi->lock
    fds,        \* the ends that each process has open
    proc,       \* where each process stands, with the i and n of its call
    killed,
    got         \* the byte copied out last

pipe == <<data, nread, nwrite, readopen, writeopen, freed>>
vars == <<pipe, lock, fds, proc, killed, got>>

Ends == {"r", "w"}
At(pc, i, n) == [pc |-> pc, i |-> i, n |-> n]
Idle == At("idle", 0, 0)

\* pipealloc() has returned to the process that will fork the others.
Init ==
    /\ data \in {[k \in 0..PIPESIZE-1 |-> b] : b \in Bytes}
    /\ nread = 0 /\ nwrite = 0
    /\ readopen = TRUE /\ writeopen = TRUE
    /\ freed = FALSE
    /\ lock = NoProc
    /\ \E p \in Procs :
        /\ fds  = [q \in Procs |-> IF q = p THEN Ends ELSE {}]
        /\ proc = [q \in Procs |-> IF q = p THEN Idle ELSE At("none", 0, 0)]
    /\ killed = [p \in Procs |-> FALSE]
    /\ got = NoByte

-----------------------------------------------------------------------------
Empty == nread = nwrite

\* Mutant of Full: one byte too many fits.
FullLate == nwrite = (nread + PIPESIZE + 1) % UintMod

Full  == nwrite = (nread + PIPESIZE) % UintMod

Running(p, pc) == proc[p].pc = pc /\ lock = p
Goto(p, a) == proc' = [proc EXCEPT ![p] = a]

\* wakeup(): the sleepers at pc "from" stand at "to", and p stands at a.
GotoAndWake(p, a, from, to) ==
    proc' = [q \in Procs |->
        IF q = p THEN a
        ELSE IF proc[q].pc = from THEN [proc[q] EXCEPT !.pc = to] ELSE proc[q]]
WakeReaders(p, a) == GotoAndWake(p, a, "rsleep", "rready")
WakeWriters(p, a) == GotoAndWake(p, a, "wsleep", "wready")

\* acquire(&pi->lock) of a call, or of a sleeper that was woken.
Enter(p, from, a) ==
    /\ proc[p].pc = from /\ lock = NoProc
    /\ lock' = p
    /\ Goto(p, a)
    /\ UNCHANGED <<pipe, fds, killed, got>>

\* A process makes a call only while it is not killed (usertrap()).
WriteCall(p, n) == "w" \in fds[p] /\ ~killed[p] /\ Enter(p, "idle", At("write", 0, n))
WriteAwake(p)   == Enter(p, "wready", At("write", proc[p].i, proc[p].n))
ReadCall(p, n)  == "r" \in fds[p] /\ ~killed[p] /\ Enter(p, "idle", At("rwait", 0, n))

ReadAwake(p)    == Enter(p, "rready", At("rwait", 0, proc[p].n))

-----------------------------------------------------------------------------
(* pipewrite() *)

WriteMore(p) == Running(p, "write") /\ proc[p].i < proc[p].n
WriteGoes(p) == WriteMore(p) /\ readopen /\ ~killed[p]

\* The reading end is closed or the process was killed: -1.
WriteAbort(p) ==
    /\ WriteMore(p) /\ (~readopen \/ killed[p])
    /\ Goto(p, Idle) /\ lock' = NoProc
    /\ UNCHANGED <<pipe, fds, killed, got>>

\* Mutant of WriteSleep: the readers are not woken.
WriteSleepSilent(p) ==
    /\ WriteGoes(p) /\ Full
    /\ Goto(p, At("wsleep", proc[p].i, proc[p].n))
    /\ lock' = NoProc
    /\ UNCHANGED <<pipe, fds, killed, got>>

WriteSleep(p) ==
    /\ WriteGoes(p) /\ Full
    /\ WakeReaders(p, At("wsleep", proc[p].i, proc[p].n))
    /\ lock' = NoProc
    /\ UNCHANGED <<pipe, fds, killed, got>>

WriteByte(p, b) ==
    /\ WriteGoes(p) /\ ~Full
    /\ data' = [data EXCEPT ![nwrite % PIPESIZE] = b]
    /\ nwrite' = (nwrite + 1) % UintMod
    /\ Goto(p, At("write", proc[p].i + 1, proc[p].n))
    /\ UNCHANGED <<nread, readopen, writeopen, freed, lock, fds, killed, got>>

\* All n bytes are written, or copyin() refuses the address of the next one.
WriteDone(p) ==
    /\ Running(p, "write") /\ (proc[p].i = proc[p].n \/ (WriteGoes(p) /\ ~Full))
    /\ WakeReaders(p, Idle) /\ lock' = NoProc
    /\ UNCHANGED <<pipe, fds, killed, got>>

-----------------------------------------------------------------------------
(* piperead() *)

ReadAbort(p) ==
    /\ Running(p, "rwait") /\ Empty /\ writeopen /\ killed[p]
    /\ Goto(p, Idle) /\ lock' = NoProc
    /\ UNCHANGED <<pipe, fds, killed, got>>

ReadSleep(p) ==
    /\ Running(p, "rwait") /\ Empty /\ writeopen /\ ~killed[p]
    /\ Goto(p, At("rsleep", 0, proc[p].n)) /\ lock' = NoProc
    /\ UNCHANGED <<pipe, fds, killed, got>>

ReadStart(p) ==
    /\ Running(p, "rwait") /\ ~(Empty /\ writeopen)
    /\ Goto(p, At("read", 0, proc[p].n))
    /\ UNCHANGED <<pipe, lock, fds, killed, got>>

ReadByte(p) ==
    /\ Running(p, "read") /\ proc[p].i < proc[p].n /\ ~Empty
    /\ got' = data[nread % PIPESIZE]
    /\ nread' = (nread + 1) % UintMod
    /\ \/ Goto(p, At("read", proc[p].i + 1, proc[p].n)) /\ UNCHANGED lock
       \/ WakeWriters(p, Idle) /\ lock' = NoProc        \* copyout() fails
    /\ UNCHANGED <<data, nwrite, readopen, writeopen, freed, fds, killed>>

ReadDone(p) ==
    /\ Running(p, "read") /\ (proc[p].i = proc[p].n \/ Empty)
    /\ WakeWriters(p, Idle) /\ lock' = NoProc
    /\ UNCHANGED <<pipe, fds, killed, got>>

-----------------------------------------------------------------------------
\* fileclose(): the reference of p goes; the last one calls pipeclose().
FileClose(p, e) ==
    /\ proc[p].pc = "idle" /\ e \in fds[p]
    /\ fds' = [fds EXCEPT ![p] = @ \ {e}]
    /\ Goto(p, IF \E q \in Procs \ {p} : e \in fds[q]
               THEN Idle
               ELSE At("close", IF e = "w" THEN 1 ELSE 0, 0))
    /\ UNCHANGED <<pipe, lock, killed, got>>

\* Mutant of PipeClose: the page goes with the first end.
PipeCloseEarly(p) ==
    /\ proc[p].pc = "close" /\ lock = NoProc
    /\ IF proc[p].i = 1
       THEN writeopen' = FALSE /\ readopen' = readopen /\ WakeReaders(p, Idle)
       ELSE readopen' = FALSE /\ writeopen' = writeopen /\ WakeWriters(p, Idle)
    /\ freed' = (freed \/ ~readopen' \/ ~writeopen')
    /\ UNCHANGED <<data, nread, nwrite, lock, fds, killed, got>>

\* pipeclose(): its i says whether it is the writable end.
PipeClose(p) ==
    /\ proc[p].pc = "close" /\ lock = NoProc
    /\ IF proc[p].i = 1
       THEN writeopen' = FALSE /\ readopen' = readopen /\ WakeReaders(p, Idle)
       ELSE readopen' = FALSE /\ writeopen' = writeopen /\ WakeWriters(p, Idle)
    /\ freed' = (freed \/ (~readopen' /\ ~writeopen'))
    /\ UNCHANGED <<data, nread, nwrite, lock, fds, killed, got>>

\* fork() of a process that holds an end (external to the pipe).
Fork(p, q) ==
    /\ proc[p].pc = "idle" /\ ~killed[p] /\ fds[p] # {} /\ proc[q].pc = "none"
    /\ fds' = [fds EXCEPT ![q] = fds[p]]
    /\ Goto(q, Idle)
    /\ UNCHANGED <<pipe, lock, killed, got>>

\* kill(): a sleeper becomes RUNNABLE whatever it sleeps on.
Kill(p) ==
    /\ proc[p].pc # "none" /\ ~killed[p] /\ (KillInside \/ lock = NoProc)
    /\ killed' = [killed EXCEPT ![p] = TRUE]
    /\ Goto(p, [proc[p] EXCEPT !.pc =
            CASE @ = "wsleep" -> "wready" [] @ = "rsleep" -> "rready" [] OTHER -> @])
    /\ UNCHANGED <<pipe, lock, fds, got>>

-----------------------------------------------------------------------------
InCall(p) ==
    \/ WriteAwake(p) \/ WriteAbort(p) \/ WriteSleep(p) \/ WriteDone(p)
    \/ (\E b \in Bytes : WriteByte(p, b))
    \/ ReadAwake(p) \/ ReadAbort(p) \/ ReadSleep(p) \/ ReadStart(p) \/ ReadByte(p)
    \/ ReadDone(p) \/ PipeClose(p)

Next ==
    \E p \in Procs :
        \/ InCall(p)
        \/ \E n \in Counts : WriteCall(p, n) \/ ReadCall(p, n)
        \/ \E e \in Ends : FileClose(p, e)
        \/ \E q \in Procs : Fork(p, q)
        \/ Kill(p)

Spec == Init /\ [][Next]_vars

-----------------------------------------------------------------------------
Writing == {"write", "wsleep", "wready"}
Reading == {"rwait", "rsleep", "rready", "read"}
Holding == {"write", "rwait", "read"}
Pcs == {"none", "idle", "close"} \cup Writing \cup Reading

\* Every variable has its type.
TypeOK ==
    /\ data \in [0..PIPESIZE-1 -> Bytes]
    /\ nread \in 0..UintMod-1 /\ nwrite \in 0..UintMod-1
    /\ readopen \in BOOLEAN /\ writeopen \in BOOLEAN
    /\ lock \in Procs \cup {NoProc}
    /\ fds \in [Procs -> SUBSET Ends]
    /\ proc \in [Procs -> [pc : Pcs, i : Nat, n : Nat]]
    /\ killed \in [Procs -> BOOLEAN]

\* Whoever stands in a region of pi->lock holds it.
LockHeld == \A p \in Procs : proc[p].pc \in Holding <=> lock = p

Closes(p, e) == proc[p].pc = "close" /\ proc[p].i = IF e = "w" THEN 1 ELSE 0
IsOpen(e) == IF e = "w" THEN writeopen ELSE readopen

\* An end is open while a process refers to it or is about to close it, and
\* only the process that dropped the last reference closes it.
EndsKept ==
    \A e \in Ends, p \in Procs :
        /\ e \in fds[p] => IsOpen(e)
        /\ Closes(p, e) => /\ IsOpen(e)
                           /\ \A q \in Procs : e \notin fds[q] /\ (Closes(q, e) => q = p)

\* A process in the pipe code has the end that it uses, and the page goes with
\* the second end.
EndsUsed ==
    /\ \A p \in Procs :
        /\ proc[p].pc \in Writing => "w" \in fds[p]
        /\ proc[p].pc \in Reading => "r" \in fds[p]
        /\ proc[p].pc = "none" => fds[p] = {}
        /\ proc[p].pc = "close" => proc[p].i \in {0, 1}
    /\ freed = (~readopen /\ ~writeopen)

\* The counters are at most PIPESIZE apart.
Fits == (nwrite - nread) % UintMod <= PIPESIZE

IInv == TypeOK /\ LockHeld /\ EndsKept /\ EndsUsed /\ Fits

\* A sleeper whose reason has gone is one that the holder of the lock will wake:
\* a writer before it releases the lock, unless it is killed, and a reader.
WakesOwed ==
    \A q \in Procs :
        /\ proc[q].pc = "rsleep" =>
            writeopen /\ ~killed[q] /\ (Empty \/ \E p \in Procs : Running(p, "write") /\ ~killed[p])
        /\ proc[q].pc = "wsleep" =>
            readopen /\ ~killed[q] /\ (Full \/ \E p \in Procs : Running(p, "read"))

-----------------------------------------------------------------------------
\* The bytes in the ring, oldest first.
queue == [k \in 1..((nwrite - nread) % UintMod) |-> data[(nread + k - 1) % PIPESIZE]]

PipeChannel == INSTANCE Channel WITH Size <- PIPESIZE

\* Through the wrap-around of the ring and of both counters, with several
\* readers and writers, bytes come out of the pipe once, in order, and never
\* exceed its size.
ImplementsChannel == PipeChannel!Spec

\* Nobody touches the page of the pipe once pipeclose() has freed it: whoever
\* is in the pipe code has, or is about to drop, an end that keeps the page.
PageInUse ==
    freed => \A p \in Procs : proc[p].pc \in {"none", "idle"} /\ fds[p] = {}

\* When the lock is free, a reader sleeps only on an empty pipe with a writing
\* end, and a writer only on a full pipe with a reading end: every change that
\* ends their reason to sleep has woken them.
SleepsForAReason ==
    lock = NoProc => \A p \in Procs :
        /\ proc[p].pc = "rsleep" => Empty /\ writeopen /\ ~killed[p]
        /\ proc[p].pc = "wsleep" => Full /\ readopen /\ ~killed[p]

=============================================================================
