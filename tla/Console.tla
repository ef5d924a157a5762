------------------------------ MODULE Console -------------------------------
(***************************************************************************)
(* The console: kernel/console.c, uart.c, the locking of printf.c, and the  *)
(* spinlocks and interrupt disabling of spinlock.c they rest on, on several *)
(* harts.                                                                  *)
(*                                                                         *)
(* A hart runs a context: the handler of an interrupt on it, which is named *)
(* like the hart, or else the thread it has been given.  A context is in a  *)
(* step of its own between any two accesses to what another hart or the     *)
(* UART can change.  What happens under a lock and to what the lock guards  *)
(* is one step.  sleep() and wakeup() are atomic, by p->lock.               *)
(*                                                                         *)
(* The UART raises its interrupt when a character arrives and when its last *)
(* character has left; the PLIC gives it to one hart at a time.             *)
(***************************************************************************)
EXTENDS Integers, Sequences

CONSTANTS
    Harts, Threads, None,
    INPUT_BUF_SIZE,
    WRAP,               \* the range of the unsigned cons.r, cons.w, cons.e
    UART_TX_BUF_SIZE,
    FIFO,               \* depth of the FIFOs of the UART (16)
    Inputs,             \* what may be typed: sequences of characters
    Counts,             \* the lengths of reads and writes
    Starts,             \* what earlier input has left in the buffer
    MaxCalls            \* bound on the calls made, kill() included

VARIABLES
    cons,       \* buf, r, w, e
    tx,         \* uart_tx_buf, uart_tx_r, uart_tx_w
    lock,       \* the hart that holds each lock
    cpu,        \* of each hart: sie (interrupts enabled), noff, intena
    run,        \* the thread of each hart
    st,         \* of each thread: ready, run, dead, or the channel it sleeps on
    killed,
    act,        \* what each context does
    rx, fifo,   \* the characters in the UART, received and to be sent
    sent,       \* how many characters of write()s have been sent
    irq, claim, \* the interrupt is pending; the hart that has claimed it
    input,      \* what will still be typed
    calls       \* calls made so far

vars == <<cons, tx, lock, cpu, run, st, killed, act, rx, fifo, sent, irq, claim, input, calls>>
device == <<input, rx, fifo, sent, irq, claim>>

Locks == {"cons", "tx", "pr"}

Inc(i) == IF i + 1 = WRAP THEN 0 ELSE i + 1
Back(i, k) == IF i >= k THEN i - k ELSE i - k + WRAP        \* i - k, unsigned
Dist(a, b) == Back(a, b)

\* The indices are in order and close, and a full buffer is committed.
Ring(u) ==
    /\ Dist(u.w, u.r) <= Dist(u.e, u.r) /\ Dist(u.e, u.r) <= INPUT_BUF_SIZE
    /\ Dist(u.e, u.r) = INPUT_BUF_SIZE => u.w = u.e

Chars == {"nul", "nl", "eof"} \cup UNION {{s[i] : i \in DOMAIN s} : s \in Inputs}
Buffers == [buf : [0..(INPUT_BUF_SIZE - 1) -> Chars], r : 0..(WRAP - 1), w : 0..(WRAP - 1), e : 0..(WRAP - 1)]

LineEnds == {"nl", "eof"}

\* The characters of u from one index up to another.
Segment(u, from, to) == [i \in 1..Dist(to, from) |-> u.buf[(from + i - 1) % INPUT_BUF_SIZE]]

ASSUME ConsoleAssumption ==
    /\ None \notin Harts \cup Threads /\ Harts \cap Threads = {}
    /\ INPUT_BUF_SIZE \in Nat \ {0} /\ UART_TX_BUF_SIZE \in Nat \ {0}
    /\ WRAP \in Nat /\ INPUT_BUF_SIZE < WRAP /\ WRAP % INPUT_BUF_SIZE = 0
    /\ Starts \subseteq Buffers /\ \A u \in Starts : Ring(u)

\* Earlier input that has ended a line has been committed.
ASSUME InputAssumption ==
    /\ Inputs \subseteq Seq(Chars)
    /\ \A u \in Starts : \A i \in 1..Dist(u.e, u.w) : Segment(u, u.w, u.e)[i] \notin LineEnds

\* A context: pc; the lock it spins for and what it does then; the character in
\* hand; what it has still to echo, and what it does then; the characters still to
\* read or write, and how many were asked for.
Quiet == [pc |-> "none", lk |-> "cons", then |-> "none", c |-> "nul", echo |-> <<>>, n |-> 0, target |-> 0]
AtUser == [Quiet EXCEPT !.pc = "user"]

Running(h) == IF act[h].pc # "none" THEN h ELSE run[h]

-----------------------------------------------------------------------------
(* Interrupts and locks *)

push_off(u) == [sie |-> FALSE, noff |-> u.noff + 1, intena |-> IF u.noff = 0 THEN u.sie ELSE u.intena]

\* Mutant of pop_off: interrupts are turned on whatever they were.
pop_offOn(u) == [u EXCEPT !.noff = @ - 1, !.sie = (u.noff = 1)]

pop_off(u) == [u EXCEPT !.noff = @ - 1, !.sie = (u.noff = 1 /\ u.intena)]

\* The scheduler's loop has interrupts on.
Idle == [sie |-> TRUE, noff |-> 0, intena |-> TRUE]

\* acquire(): first push_off()...
Spin(t, l, then) == [t EXCEPT !.pc = "spin", !.lk = l, !.then = then]

\* ...then the swap, when it finds the lock free.
Acquire(h) == LET x == Running(h) IN
    /\ x # None /\ act[x].pc = "spin" /\ lock[act[x].lk] = None
    /\ lock' = [lock EXCEPT ![act[x].lk] = h]
    /\ act' = [act EXCEPT ![x] = [@ EXCEPT !.pc = act[x].then, !.lk = "cons", !.then = "none"]]
    /\ UNCHANGED <<cons, tx, cpu, run, st, killed, device, calls>>

release(h, l) ==
    /\ lock' = [lock EXCEPT ![l] = None]
    /\ cpu' = [cpu EXCEPT ![h] = pop_off(@)]

\* wakeup(chan), with or without other changes of st.
Woken(s, chan) == [p \in Threads |-> IF s[p] = chan THEN "ready" ELSE s[p]]

\* sleep(chan, lk) of the thread on h: its hart goes back to the scheduler; when it
\* runs again it acquires lk again and goes on at pc.
sleep(h, chan, lk, pc) == LET p == run[h] IN
    /\ lock' = [lock EXCEPT ![lk] = None]
    /\ st' = [st EXCEPT ![p] = chan]
    /\ act' = [act EXCEPT ![p] = Spin(@, lk, pc)]
    /\ run' = [run EXCEPT ![h] = None]
    /\ cpu' = [cpu EXCEPT ![h] = Idle]

\* The scheduler gives an idle hart a thread.
Dispatch(h) == \E p \in Threads :
    /\ Running(h) = None /\ st[p] = "ready"
    /\ st' = [st EXCEPT ![p] = "run"]
    /\ run' = [run EXCEPT ![h] = p]
    /\ cpu' = [cpu EXCEPT ![h] = IF act[p].pc = "spin" THEN push_off(Idle) ELSE Idle]
    /\ UNCHANGED <<cons, tx, lock, killed, act, device, calls>>

-----------------------------------------------------------------------------
(* The input buffer *)

Seg(from, to) == Segment(cons, from, to)

\* Control-U: the characters back to cons.w or a newline.
Line == LET s == Seg(cons.w, cons.e) IN
    {k \in 0..Dist(cons.e, cons.w) : /\ \A i \in (Len(s) - k + 1)..Len(s) : s[i] # "nl"
                                     /\ k < Len(s) => s[Len(s) - k] = "nl"}

Full == Dist(cons.e, cons.r) >= INPUT_BUF_SIZE

\* Mutant of Erased: backspace erases what is committed.
ErasedCommitted(c) == CASE c = "U" -> Line
                        [] c = "H" -> {IF cons.e # cons.r THEN 1 ELSE 0}
                        [] OTHER -> {0}

\* How many characters c erases (the set has one element), and whether it is stored;
\* '\r' becomes '\n'.
Erased(c) == CASE c = "U" -> Line
               [] c = "H" -> {IF cons.e # cons.w THEN 1 ELSE 0}
               [] OTHER -> {0}
Stores(c) == c \notin {"U", "H", "P", "nul"} /\ ~Full
Ascii(c) == IF c = "cr" THEN "nl" ELSE c

\* What consputc() sends for c, which erases k: BACKSPACE is three characters.
Echo(c, k) == IF Stores(c) THEN <<Ascii(c)>> ELSE [i \in 1..(3 * k) |-> IF i % 3 = 2 THEN " " ELSE "bs"]

\* Mutant of Stored: a full buffer does not commit the line.
StoredNotFull(c, k) ==
    LET e == Inc(cons.e) IN
    IF Stores(c)
    THEN [cons EXCEPT !.buf[cons.e % INPUT_BUF_SIZE] = Ascii(c), !.e = e,
                      !.w = IF Ascii(c) \in LineEnds THEN e ELSE @]
    ELSE [cons EXCEPT !.e = Back(@, k)]

\* The buffer after c, which erases k.
Stored(c, k) ==
    LET e == Inc(cons.e) IN
    IF Stores(c)
    THEN [cons EXCEPT !.buf[cons.e % INPUT_BUF_SIZE] = Ascii(c), !.e = e,
                      !.w = IF Ascii(c) \in LineEnds \/ Dist(e, cons.r) = INPUT_BUF_SIZE THEN e ELSE @]
    ELSE [cons EXCEPT !.e = Back(@, k)]

-----------------------------------------------------------------------------
(* Synchronous output *)

\* uartputc_sync() waits for the UART with interrupts off...
PutSync(h) == LET x == Running(h) IN
    /\ x # None /\ act[x].pc = "echo" /\ act[x].echo # <<>> /\ fifo = <<>>
    /\ cpu' = [cpu EXCEPT ![h] = push_off(@)]
    /\ act' = [act EXCEPT ![x].pc = "thr"]
    /\ UNCHANGED <<cons, tx, lock, run, st, killed, device, calls>>

\* ...and writes the register.
WriteThr(h) == LET x == Running(h) IN
    /\ x # None /\ act[x].pc = "thr"
    /\ fifo' = Append(fifo, -1)
    /\ cpu' = [cpu EXCEPT ![h] = pop_off(@)]
    /\ act' = [act EXCEPT ![x].pc = "echo", ![x].echo = Tail(@)]
    /\ UNCHANGED <<cons, tx, lock, run, st, killed, rx, sent, irq, claim, input, calls>>

-----------------------------------------------------------------------------
(* consoleintr() *)

\* The character is in hand and cons.lock held: decide what to echo.  Control-P
\* prints the processes, under the lock of printf().
Key(h) == LET t == act[h] IN \E k \in Erased(t.c) :
    /\ t.pc = "key"
    /\ act' = [act EXCEPT ![h] = IF t.c = "P" THEN Spin([t EXCEPT !.echo = <<"ps">>], "pr", "echo")
                                 ELSE [t EXCEPT !.pc = "echo", !.echo = Echo(t.c, k)]]
    /\ cpu' = [cpu EXCEPT ![h] = IF t.c = "P" THEN push_off(@) ELSE @]
    /\ UNCHANGED <<cons, tx, lock, run, st, killed, device, calls>>

\* procdump() is done.
Dumped(h) ==
    /\ act[h].pc = "echo" /\ act[h].echo = <<>> /\ act[h].c = "P" /\ lock["pr"] = h
    /\ release(h, "pr")
    /\ UNCHANGED <<cons, tx, run, st, killed, act, device, calls>>

\* Store or erase, wake up readers of a whole line, and look for the next character.
Store(h) == LET t == act[h] IN \E k \in Erased(t.c) :
    /\ t.pc = "echo" /\ t.echo = <<>> /\ (t.c = "P" => lock["pr"] # h)
    /\ cons' = Stored(t.c, k)
    /\ st' = IF cons'.w # cons.w THEN Woken(st, "cons") ELSE st
    /\ release(h, "cons")
    /\ act' = [act EXCEPT ![h] = [Quiet EXCEPT !.pc = "poll"]]
    /\ UNCHANGED <<tx, run, killed, device, calls>>

-----------------------------------------------------------------------------
(* uartintr(), uartputc() and uartstart() *)

\* devintr(): the PLIC's interrupt is claimed.
Interrupt(h) ==
    /\ act[h].pc = "none" /\ cpu[h].sie /\ irq /\ claim = None
    /\ claim' = h /\ irq' = FALSE
    /\ cpu' = [cpu EXCEPT ![h].sie = FALSE]
    /\ act' = [act EXCEPT ![h].pc = "poll"]
    /\ UNCHANGED <<cons, tx, lock, run, st, killed, rx, fifo, sent, input, calls>>

\* uartgetc(); without a character the handler goes on to send.
Poll(h) ==
    /\ act[h].pc = "poll"
    /\ cpu' = [cpu EXCEPT ![h] = push_off(@)]
    /\ IF rx # <<>>
       THEN /\ act' = [act EXCEPT ![h] = Spin([@ EXCEPT !.c = Head(rx)], "cons", "key")]
            /\ rx' = Tail(rx)
       ELSE /\ act' = [act EXCEPT ![h] = Spin(@, "tx", "start")]
            /\ UNCHANGED rx
    /\ UNCHANGED <<cons, tx, lock, run, st, killed, fifo, sent, irq, claim, input, calls>>

\* Mutant of TxFull: one too late.
TxFullLate == tx.w = tx.r + UART_TX_BUF_SIZE + 1

TxFull == tx.w = tx.r + UART_TX_BUF_SIZE

\* uartputc() under its lock: wait for room, or put the character.
Put(h) == LET p == run[h] IN
    /\ Running(h) = p /\ p # None /\ act[p].pc = "put"
    /\ IF TxFull
       THEN sleep(h, "tx", "tx", "put") /\ UNCHANGED tx
       ELSE /\ tx' = [tx EXCEPT !.buf[tx.w % UART_TX_BUF_SIZE] = tx.w, !.w = @ + 1]
            /\ act' = [act EXCEPT ![p].pc = "start"]
            /\ UNCHANGED <<lock, st, run, cpu>>
    /\ UNCHANGED <<cons, killed, device, calls>>

\* uartstart(): a character is waiting and the UART idle...
Start(h) == LET x == Running(h) IN
    /\ x # None /\ act[x].pc = "start" /\ tx.w # tx.r /\ fifo = <<>>
    /\ act' = [act EXCEPT ![x].pc = "send"]
    /\ UNCHANGED <<cons, tx, lock, cpu, run, st, killed, device, calls>>

\* Mutant of Send: nobody is woken up.
SendQuiet(h) == LET x == Running(h) IN
    /\ x # None /\ act[x].pc = "send"
    /\ tx' = [tx EXCEPT !.r = @ + 1]
    /\ fifo' = Append(fifo, tx.buf[tx.r % UART_TX_BUF_SIZE])
    /\ act' = [act EXCEPT ![x].pc = "start"]
    /\ UNCHANGED <<cons, lock, cpu, run, st, killed, rx, sent, irq, claim, input, calls>>

\* ...so it is sent, and whoever waits for room woken up.
Send(h) == LET x == Running(h) IN
    /\ x # None /\ act[x].pc = "send"
    /\ tx' = [tx EXCEPT !.r = @ + 1]
    /\ st' = Woken(st, "tx")
    /\ fifo' = Append(fifo, tx.buf[tx.r % UART_TX_BUF_SIZE])
    /\ act' = [act EXCEPT ![x].pc = "start"]
    /\ UNCHANGED <<cons, lock, cpu, run, killed, rx, sent, irq, claim, input, calls>>

\* uartstart() returns: uartputc() to the loop of consolewrite(), uartintr() to what
\* was interrupted.
Started(h) == LET x == Running(h) IN
    /\ x # None /\ act[x].pc = "start" /\ (tx.w = tx.r \/ fifo # <<>>)
    /\ lock' = [lock EXCEPT !["tx"] = None]
    /\ IF x = h
       THEN /\ cpu' = [cpu EXCEPT ![h] = [pop_off(@) EXCEPT !.sie = TRUE]]
            /\ act' = [act EXCEPT ![h] = Quiet]
            /\ claim' = None
       ELSE /\ cpu' = [cpu EXCEPT ![h] = pop_off(@)]
            /\ act' = [act EXCEPT ![x].pc = "write", ![x].n = @ - 1]
            /\ UNCHANGED claim
    /\ UNCHANGED <<cons, tx, run, st, killed, rx, fifo, sent, irq, input, calls>>

-----------------------------------------------------------------------------
(* Threads *)

\* A thread calls read() or write() of the console, or faults: usertrap() has
\* interrupts off and prints two messages.
Call(h) == LET p == run[h] IN
    /\ Running(h) = p /\ p # None /\ act[p].pc = "user" /\ calls < MaxCalls /\ ~killed[p]
    /\ calls' = calls + 1
    /\ \E n \in Counts :
         \/ /\ act' = [act EXCEPT ![p] = Spin([@ EXCEPT !.n = n, !.target = n], "cons", "read")]
            /\ cpu' = [cpu EXCEPT ![h] = push_off(@)]
         \/ /\ act' = [act EXCEPT ![p].pc = "write", ![p].n = n]
            /\ UNCHANGED cpu
         \/ /\ act' = [act EXCEPT ![p].pc = "trap", ![p].n = 2]
            /\ cpu' = [cpu EXCEPT ![h].sie = FALSE]
    /\ UNCHANGED <<cons, tx, lock, run, st, killed, device>>

\* exit(): the hart goes back to the scheduler.
Die(h, p) ==
    /\ run' = [run EXCEPT ![h] = None]
    /\ st' = [st EXCEPT ![p] = "dead"]
    /\ act' = [act EXCEPT ![p] = Quiet]
    /\ cpu' = [cpu EXCEPT ![h] = Idle]

\* Back to user space, the hart in state u; a killed process exits.
Leave(h, p, u) ==
    IF killed[p]
    THEN Die(h, p)
    ELSE /\ act' = [act EXCEPT ![p] = AtUser]
         /\ cpu' = [cpu EXCEPT ![h] = u]
         /\ UNCHANGED <<run, st>>

\* A fault: usertrap() calls printf()...
Report(h) == LET p == run[h] IN
    /\ Running(h) = p /\ p # None /\ act[p].pc = "trap" /\ act[p].n > 0
    /\ act' = [act EXCEPT ![p] = Spin([act[p] EXCEPT !.echo = <<"trap">>, !.n = act[p].n - 1], "pr", "echo")]
    /\ cpu' = [cpu EXCEPT ![h] = push_off(@)]
    /\ UNCHANGED <<cons, tx, lock, run, st, killed, device, calls>>

\* ...which returns...
Reported(h) == LET p == run[h] IN
    /\ Running(h) = p /\ p # None /\ act[p].pc = "echo" /\ act[p].echo = <<>>
    /\ release(h, "pr")
    /\ act' = [act EXCEPT ![p].pc = "trap"]
    /\ UNCHANGED <<cons, tx, run, st, killed, device, calls>>

\* ...and after the second message setkilled() and exit().
Faulted(h) == LET p == run[h] IN
    /\ Running(h) = p /\ p # None /\ act[p].pc = "trap" /\ act[p].n = 0
    /\ killed' = [killed EXCEPT ![p] = TRUE]
    /\ Die(h, p)
    /\ UNCHANGED <<cons, tx, lock, device, calls>>

\* consolewrite() is done, or cannot copy the next character.
Written(h) == LET p == run[h] IN
    /\ Running(h) = p /\ p # None /\ act[p].pc = "write"
    /\ Leave(h, p, cpu[h])
    /\ UNCHANGED <<cons, tx, lock, killed, device, calls>>

\* The next character of consolewrite().
Write(h) == LET p == run[h] IN
    /\ Running(h) = p /\ p # None /\ act[p].pc = "write" /\ act[p].n > 0
    /\ act' = [act EXCEPT ![p] = Spin(@, "tx", "put")]
    /\ cpu' = [cpu EXCEPT ![h] = push_off(@)]
    /\ UNCHANGED <<cons, tx, lock, run, st, killed, device, calls>>

\* consoleread(), cons.lock held: without input, the process is not killed...
ReadTest(h) == LET p == run[h] IN
    /\ Running(h) = p /\ p # None /\ act[p].pc = "read" /\ act[p].n > 0 /\ cons.r = cons.w
    /\ ~killed[p]
    /\ act' = [act EXCEPT ![p].pc = "wait"]
    /\ UNCHANGED <<cons, tx, lock, cpu, run, st, killed, device, calls>>

\* ...so it waits for input, though a kill() may have come in between...
ReadWait(h) == LET p == run[h] IN
    /\ Running(h) = p /\ p # None /\ act[p].pc = "wait"
    /\ sleep(h, "cons", "cons", "read")
    /\ UNCHANGED <<cons, tx, killed, device, calls>>

\* ...take a character and go on...
ReadMore(h) == LET p == run[h] c == cons.buf[cons.r % INPUT_BUF_SIZE] IN
    /\ Running(h) = p /\ p # None /\ act[p].pc = "read" /\ act[p].n > 0 /\ cons.r # cons.w
    /\ c \notin LineEnds
    /\ cons' = [cons EXCEPT !.r = Inc(@)]
    /\ act' = [act EXCEPT ![p].n = @ - 1]
    /\ UNCHANGED <<tx, lock, cpu, run, st, killed, device, calls>>

\* What ends a read: nothing left to read, killed, or a character: a line end, or
\* one that cannot be copied out.  End of file after other characters is left for
\* the next read.
Consumed(p) == cons.r # cons.w /\ ~(cons.buf[cons.r % INPUT_BUF_SIZE] = "eof" /\ act[p].n < act[p].target)

ReadDone(h) == LET p == run[h] IN
    /\ Running(h) = p /\ p # None /\ act[p].pc = "read"
    /\ act[p].n > 0 /\ cons.r = cons.w => killed[p]
    /\ cons' = IF act[p].n > 0 /\ Consumed(p) THEN [cons EXCEPT !.r = Inc(@)] ELSE cons
    /\ lock' = [lock EXCEPT !["cons"] = None]
    /\ Leave(h, p, pop_off(cpu[h]))
    /\ UNCHANGED <<tx, killed, device, calls>>

\* kill() of a thread in the kernel: it is woken up if it sleeps.
Kill(p) ==
    /\ calls < MaxCalls /\ ~killed[p] /\ act[p].pc # "user"
    /\ calls' = calls + 1
    /\ killed' = [killed EXCEPT ![p] = TRUE]
    /\ st' = IF st[p] \in {"cons", "tx"} THEN [st EXCEPT ![p] = "ready"] ELSE st
    /\ UNCHANGED <<cons, tx, lock, cpu, run, act, device>>

-----------------------------------------------------------------------------
(* The UART *)

Type ==
    /\ input # <<>> /\ Len(rx) < FIFO
    /\ rx' = Append(rx, Head(input))
    /\ input' = Tail(input)
    /\ irq' = TRUE
    /\ UNCHANGED <<cons, tx, lock, cpu, run, st, killed, act, fifo, sent, claim, calls>>

Transmit ==
    /\ fifo # <<>>
    /\ fifo' = Tail(fifo)
    /\ sent' = IF Head(fifo) >= 0 THEN sent + 1 ELSE sent
    /\ irq' = (irq \/ Len(fifo) = 1)
    /\ UNCHANGED <<cons, tx, lock, cpu, run, st, killed, act, rx, claim, input, calls>>

-----------------------------------------------------------------------------
Init ==
    /\ cons \in Starts
    /\ tx = [buf |-> [i \in 0..(UART_TX_BUF_SIZE - 1) |-> 0], r |-> 0, w |-> 0]
    /\ lock = [l \in Locks |-> None]
    /\ cpu = [h \in Harts |-> Idle]
    /\ run \in [Harts -> Threads] /\ \A g, h \in Harts : run[g] = run[h] => g = h
    /\ st = [p \in Threads |-> IF \E h \in Harts : run[h] = p THEN "run" ELSE "ready"]
    /\ killed = [p \in Threads |-> FALSE]
    /\ act = [x \in Harts \cup Threads |-> IF x \in Harts THEN Quiet ELSE AtUser]
    /\ rx = <<>> /\ fifo = <<>> /\ sent = 0 /\ irq = FALSE /\ claim = None
    /\ input \in Inputs /\ calls = 0

\* A step of the context that runs on h, or of its scheduler.
Hart(h) ==
    \/ Acquire(h) \/ PutSync(h) \/ WriteThr(h) \/ Key(h) \/ Dumped(h) \/ Store(h) \/ Poll(h)
    \/ Put(h) \/ Start(h) \/ Send(h) \/ Started(h) \/ Report(h) \/ Reported(h) \/ Faulted(h)
    \/ Written(h) \/ Write(h) \/ ReadTest(h) \/ ReadWait(h) \/ ReadMore(h) \/ ReadDone(h) \/ Dispatch(h)

\* The console is at rest: threads in user space, gone, or waiting for input.
Halted ==
    /\ \A h \in Harts : act[h].pc = "none" /\ (run[h] # None => act[run[h]].pc = "user")
    /\ \A p \in Threads : st[p] \in {"run", "dead", "cons"}
    /\ fifo = <<>> /\ rx = <<>> /\ tx.w = tx.r /\ ~irq
    /\ UNCHANGED vars

Next ==
    \/ \E h \in Harts : Hart(h) \/ Interrupt(h) \/ Call(h)
    \/ \E p \in Threads : Kill(p)
    \/ Type \/ Transmit \/ Halted

Spec == Init /\ [][Next]_vars

-----------------------------------------------------------------------------
(* Properties *)

Mine(h, l) == IF lock[l] = h THEN 1 ELSE 0

\* spinlock.c, push_off() and pop_off(): on every hart, through interrupts, nested
\* locks, sleeps and changes of thread, noff counts the locks the hart holds or
\* spins for and the uartputc_sync() it is in; interrupts are off as long as there
\* is one, and on again when the last is gone, no handler runs and no fault is being
\* reported.
InterruptsNest == \A h \in Harts :
    LET x == Running(h)
        pc == IF x = None THEN "none" ELSE act[x].pc
    IN  /\ cpu[h].noff = Mine(h, "cons") + Mine(h, "tx") + Mine(h, "pr") + (IF pc \in {"spin", "thr"} THEN 1 ELSE 0)
        /\ cpu[h].sie <=> (cpu[h].noff = 0 /\ act[h].pc = "none" /\ pc # "trap")

\* console.c: cons.r <= cons.w <= cons.e <= cons.r + INPUT_BUF_SIZE in unsigned
\* arithmetic that wraps around, and a full buffer has a line to read: typing can
\* not stop for ever.
RingSound == Ring(cons)

\* console.c: the ring with its three indices is an edited line and a queue of
\* committed characters, each read once and in order (Terminal).
Input == INSTANCE Terminal WITH
    Size <- INPUT_BUF_SIZE, ready <- Seg(cons.r, cons.w), edit <- Seg(cons.w, cons.e)
ImplementsTerminal == Input!Spec

\* uart.c: characters written leave in the order in which uartputc() took them, none
\* lost, doubled or overwritten, with echoes in between from a hart that does not
\* hold uart_tx_lock; nor is the UART given more than it can hold.  (A character of
\* a write() is represented by its number, an echoed one by -1.)
OutputExact ==
    /\ SelectSeq(fifo, LAMBDA c : c >= 0) = [i \in 1..(tx.r - sent) |-> sent + i - 1]
    /\ \A i \in tx.r..(tx.w - 1) : tx.buf[i % UART_TX_BUF_SIZE] = i
    /\ Len(fifo) <= FIFO

\* console.c, uart.c: a reader sleeps only when there is nothing to read, and a writer
\* only when there is no room and the UART will still interrupt; nor is input left
\* in the UART without an interrupt.
SleepsForAReason ==
    /\ \A p \in Threads : st[p] = "cons" => cons.r = cons.w
    /\ \A p \in Threads : st[p] = "tx" => TxFull
    /\ tx.w # tx.r \/ rx # <<>> => fifo # <<>> \/ irq \/ claim # None \/ lock["tx"] # None

-----------------------------------------------------------------------------
(* What keeps InterruptsNest and SleepsForAReason *)

\* What goes on on hart h.
Doing(h) == IF Running(h) = None THEN Quiet ELSE act[Running(h)]
InHandler(h) == act[h].pc # "none"

Record(a) == a = [pc |-> a.pc, lk |-> a.lk, then |-> a.then, c |-> a.c, echo |-> a.echo, n |-> a.n,
                  target |-> a.target]

\* Every variable has its type.
TypeOK ==
    /\ tx \in [buf : [0..(UART_TX_BUF_SIZE - 1) -> Int], r : Int, w : Int]
    /\ lock \in [Locks -> Harts \cup {None}]
    /\ cpu \in [Harts -> [sie : BOOLEAN, noff : Int, intena : BOOLEAN]]
    /\ run \in [Harts -> Threads \cup {None}]
    /\ st \in [Threads -> {"ready", "run", "dead", "cons", "tx"}]
    /\ killed \in [Threads -> BOOLEAN]
    /\ act = [x \in Harts \cup Threads |-> act[x]]
    /\ \A x \in Harts \cup Threads : Record(act[x])
    /\ fifo \in Seq(Int) /\ irq \in BOOLEAN /\ claim \in Harts \cup {None}

\* Printing a message: the handler's process list, or that of a fault.
Printing(a) == a.pc \in {"echo", "thr"} \/ (a.pc = "spin" /\ a.lk = "pr")

\* The locks hart h holds are those of what it does, a; its u.noff counts them, and
\* u.intena remembers whether it does a in a handler (i) or in a fault.  A reader about
\* to sleep has found nothing to read, and still holds cons.lock.
HartKept(h, a, u, i) ==
    /\ lock["tx"] = h <=> a.pc \in {"put", "start", "send"}
    /\ lock["cons"] = h <=> a.pc \in {"key", "read", "wait"} \/ (i /\ Printing(a))
    /\ a.pc = "wait" => cons.r = cons.w
    /\ lock["pr"] = h => a.pc \in {"echo", "thr"}
    /\ ~i /\ a.pc \in {"echo", "thr"} => lock["pr"] = h
    /\ i /\ (lock["pr"] = h \/ (a.pc = "spin" /\ a.lk = "pr")) => a.c = "P"
    /\ u.noff = Mine(h, "cons") + Mine(h, "tx") + Mine(h, "pr") + (IF a.pc \in {"spin", "thr"} THEN 1 ELSE 0)
    /\ u.sie <=> (u.noff = 0 /\ ~i /\ a.pc # "trap")
    /\ u.noff > 0 => (u.intena <=> (~i /\ ~Printing(a)))
    /\ a.pc = "spin" => <<a.lk, a.then>> \in IF i THEN {<<"cons", "key">>, <<"tx", "start">>, <<"pr", "echo">>}
                                             ELSE {<<"cons", "read">>, <<"tx", "put">>, <<"pr", "echo">>}
    /\ a.pc \in IF i THEN {"poll", "spin", "key", "echo", "thr", "start", "send"}
                ELSE {"none", "user", "write", "spin", "read", "wait", "put", "start", "send", "trap", "echo", "thr"}

\* A handler interrupts a thread that holds no lock; a thread runs on one hart, and
\* one that waits will at most spin for a lock.
Placed ==
    /\ \A h \in Harts : run[h] # None => /\ st[run[h]] = "run" /\ act[run[h]].pc # "none"
                                         /\ InHandler(h) => act[run[h]].pc \in {"user", "write"}
    /\ \A g, h \in Harts : run[g] = run[h] /\ run[g] # None => g = h
    /\ \A p \in Threads : st[p] \notin {"run", "dead"} =>
         /\ act[p].pc \in {"user", "spin"}
         /\ act[p].pc = "spin" => <<act[p].lk, act[p].then>> \in {<<"cons", "read">>, <<"tx", "put">>}

\* The handler a has yet to look for input again.
WillPoll(a) == ~(a.pc \in {"start", "send"} \/ (a.pc = "spin" /\ a.lk = "tx"))

\* Whoever has to look at the UART will: the handler or the interrupt for what has
\* arrived, they or whoever is in uartstart() for what is to be sent.
Attended ==
    /\ \A h \in Harts : claim = h <=> InHandler(h)
    /\ rx # <<>> => irq \/ (claim # None /\ WillPoll(act[claim]))
    /\ tx.w # tx.r => \/ fifo # <<>> \/ irq \/ claim # None
                      \/ \E h \in Harts : lock["tx"] = h /\ Doing(h).pc \in {"start", "send"}

\* The inductive invariant.
IInv ==
    /\ TypeOK /\ Placed /\ Attended
    /\ \A h \in Harts : HartKept(h, Doing(h), cpu[h], InHandler(h))
    /\ \A p \in Threads : st[p] = "cons" => cons.r = cons.w
    /\ \A p \in Threads : st[p] = "tx" => TxFull

=============================================================================
