-------------------------------- MODULE Log --------------------------------
(***************************************************************************)
(* The redo log of kernel/log.c: operations of several processes form one  *)
(* transaction, which the last of them commits.  A disk write is one step  *)
(* and the machine may crash between any two of them, in recovery too.     *)
(* Of the buffer cache (bio.c) the model keeps what the log relies on: a   *)
(* buffer that is not pinned may be recycled at any time.  bread(), the    *)
(* caller's change, log_write() and brelse() of one block are one step,    *)
(* since the buffer's lock is held from the first to the last.             *)
(***************************************************************************)
EXTENDS Integers, Sequences, FiniteSets, Functions

CONSTANTS
    Procs,          \* the processes that make file system calls
    Blocks,         \* the blocks outside the log
    Data,           \* contents of a block
    NoBuf,          \* the block is not in the cache
    MAXOPBLOCKS,    \* param.h
    LOGSIZE,        \* param.h
    nlog,           \* sb.nlog, which mkfs sets to LOGSIZE
    OpBlocks        \* how many different blocks one operation writes, at most

ASSUME ProcsAssumption == IsFiniteSet(Procs)
ASSUME SizesAssumption ==
    /\ MAXOPBLOCKS \in Nat \ {0}
    /\ LOGSIZE \in Nat /\ MAXOPBLOCKS <= LOGSIZE
    /\ nlog \in Nat
    /\ OpBlocks \in Nat
ASSUME NoBufAssumption == NoBuf \notin Data

VARIABLES
    home,           \* disk: every block at its own place
    logdata,        \* disk: the data blocks of the log
    head,           \* disk: the header, the block numbers of a committed transaction
    buf,            \* cache: contents of the cached blocks
    pinned,         \* cache: the references taken by bpin()
    lh,             \* log.lh, the block numbers of the current transaction
    outstanding,    \* log.outstanding
    committing,     \* log.committing
    op,             \* for each process, where it is and what it wrote
    tail,           \* the loop variable of write_log() and install_trans()
    boot            \* "up", or how far recovery is, or "panic"

disk == <<home, logdata, head>>
vars == <<disk, buf, pinned, lh, outstanding, committing, op, tail, boot>>

Out == [pc |-> "out", wrote |-> {}]
Goto(p, pc) == op' = [op EXCEPT ![p] = [pc |-> pc, wrote |-> {}]]
At(p, pc) == boot = "up" /\ op[p].pc = pc

\* bread(b): the cached copy, or the disk's.
bread(b) == IF buf[b] = NoBuf THEN home[b] ELSE buf[b]

\* wakeup(&log): every sleeper tests the conditions of begin_op() again.
Woken(f) ==
    [q \in Procs |->
        IF f[q].pc = "asleep" THEN [pc |-> "begin", wrote |-> f[q].wrote] ELSE f[q]]

Init ==
    /\ home \in [Blocks -> Data]
    /\ \E d \in Data : logdata = [k \in 1..LOGSIZE |-> d]
    /\ head = <<>>
    /\ buf = [b \in Blocks |-> NoBuf]
    /\ pinned = [b \in Blocks |-> 0]
    /\ lh = <<>>
    /\ outstanding = 0
    /\ committing = FALSE
    /\ op = [p \in Procs |-> Out]
    /\ tail = 0
    /\ boot = "read_head"

-----------------------------------------------------------------------------
\* The buffer cache: a read outside any operation caches a block, and a buffer
\* nobody holds is recycled for another block.
Read(b) ==
    /\ boot = "up" /\ buf[b] = NoBuf
    /\ buf' = [buf EXCEPT ![b] = home[b]]
    /\ UNCHANGED <<disk, pinned, lh, outstanding, committing, op, tail, boot>>

Recycle(b) ==
    /\ boot # "panic" /\ buf[b] # NoBuf /\ pinned[b] = 0
    /\ buf' = [buf EXCEPT ![b] = NoBuf]
    /\ UNCHANGED <<disk, pinned, lh, outstanding, committing, op, tail, boot>>

-----------------------------------------------------------------------------
\* Mutant of MightExhaust: the new operation itself is not counted.
MightExhaustForgetsSelf == Len(lh) + outstanding * MAXOPBLOCKS > LOGSIZE

\* begin_op(): this operation might exhaust the log space.
MightExhaust == Len(lh) + (outstanding + 1) * MAXOPBLOCKS > LOGSIZE

BeginOp(p) ==
    /\ op[p].pc \in {"out", "begin"} /\ boot = "up"
    /\ IF committing \/ MightExhaust
       THEN Goto(p, "asleep") /\ UNCHANGED outstanding
       ELSE Goto(p, "in") /\ outstanding' = outstanding + 1
    /\ UNCHANGED <<disk, buf, pinned, lh, committing, tail, boot>>

\* log_write() refuses: "too big a transaction", "log_write outside of trans".
LogWritePanics == Len(lh) >= LOGSIZE \/ Len(lh) >= nlog - 1 \/ outstanding < 1

\* The process writes d into block b and hands the buffer to log_write().
MayWrite(p, b) == At(p, "in") /\ Cardinality(op[p].wrote \cup {b}) <= OpBlocks

LogWritten(p, b, d) ==
    /\ MayWrite(p, b) /\ ~LogWritePanics
    /\ buf' = [buf EXCEPT ![b] = d]
    /\ lh' = IF b \in Range(lh) THEN lh ELSE Append(lh, b)
    /\ pinned' = IF b \in Range(lh) THEN pinned ELSE [pinned EXCEPT ![b] = pinned[b] + 1]
    /\ op' = [op EXCEPT ![p] = [pc |-> "in", wrote |-> op[p].wrote \cup {b}]]
    /\ UNCHANGED <<disk, outstanding, committing, tail, boot>>

LogWritePanic(p, b) ==
    /\ MayWrite(p, b) /\ LogWritePanics
    /\ boot' = "panic"
    /\ UNCHANGED <<disk, buf, pinned, lh, outstanding, committing, op, tail>>

LogWrite(p, b, d) == IF LogWritePanics THEN LogWritePanic(p, b) ELSE LogWritten(p, b, d)

\* end_op(): the last operation of the transaction commits it, the others wake
\* the processes that wait for log space.
EndOpLast(p) ==
    /\ At(p, "in") /\ outstanding = 1
    /\ outstanding' = 0
    /\ boot' = IF committing THEN "panic" ELSE boot
    /\ committing' = TRUE
    /\ Goto(p, IF lh = <<>> THEN "done" ELSE "write_log")
    /\ tail' = 0
    /\ UNCHANGED <<disk, buf, pinned, lh>>

\* Mutant of EndOpEarly: no wakeup.
EndOpEarlySilent(p) ==
    /\ At(p, "in") /\ outstanding # 1
    /\ outstanding' = outstanding - 1
    /\ boot' = IF committing THEN "panic" ELSE boot
    /\ Goto(p, "out")
    /\ UNCHANGED <<disk, buf, pinned, lh, committing, tail>>

EndOpEarly(p) ==
    /\ At(p, "in") /\ outstanding # 1
    /\ outstanding' = outstanding - 1
    /\ boot' = IF committing THEN "panic" ELSE boot
    /\ op' = Woken([op EXCEPT ![p] = Out])
    /\ UNCHANGED <<disk, buf, pinned, lh, committing, tail>>

-----------------------------------------------------------------------------
\* commit(): write_log() copies the blocks into the log one by one.
WriteLog(p) ==
    /\ At(p, "write_log") /\ tail < Len(lh)
    /\ LET b == lh[tail + 1]
       IN  /\ logdata' = [logdata EXCEPT ![tail + 1] = bread(b)]
           /\ buf' = [buf EXCEPT ![b] = bread(b)]
    /\ tail' = tail + 1
    /\ UNCHANGED <<home, head, pinned, lh, outstanding, committing, op, boot>>

\* Mutant of WriteHead: the header is written before the last data block.
WriteHeadEarly(p) ==
    /\ At(p, "write_log") /\ tail >= Len(lh) - 1
    /\ head' = lh
    /\ Goto(p, "install")
    /\ tail' = 0
    /\ UNCHANGED <<home, logdata, buf, pinned, lh, outstanding, committing, boot>>

\* write_head(), the point at which the transaction commits.
WriteHead(p) ==
    /\ At(p, "write_log") /\ tail = Len(lh)
    /\ head' = lh
    /\ Goto(p, "install")
    /\ tail' = 0
    /\ UNCHANGED <<home, logdata, buf, pinned, lh, outstanding, committing, boot>>

\* One round of install_trans(): the log's copy goes home, through the cache.
InstallBlock ==
    /\ tail < Len(lh)
    /\ home' = [home EXCEPT ![lh[tail + 1]] = logdata[tail + 1]]
    /\ buf' = [buf EXCEPT ![lh[tail + 1]] = logdata[tail + 1]]
    /\ tail' = tail + 1

InstallTrans(p) ==
    /\ At(p, "install")
    /\ InstallBlock
    /\ pinned' = [pinned EXCEPT ![lh[tail + 1]] = pinned[lh[tail + 1]] - 1]
    /\ UNCHANGED <<logdata, head, lh, outstanding, committing, op, boot>>

\* log.lh.n = 0 and write_head(): the transaction leaves the log.
EraseLog ==
    /\ tail = Len(lh)
    /\ lh' = <<>> /\ head' = <<>>
    /\ tail' = 0

ClearHead(p) ==
    /\ At(p, "install")
    /\ EraseLog
    /\ Goto(p, "done")
    /\ UNCHANGED <<home, logdata, buf, pinned, outstanding, committing, boot>>

\* The end of end_op() for the process that committed.
CommitDone(p) ==
    /\ At(p, "done")
    /\ committing' = FALSE
    /\ op' = Woken([op EXCEPT ![p] = Out])
    /\ UNCHANGED <<disk, buf, pinned, lh, outstanding, tail, boot>>

-----------------------------------------------------------------------------
\* A crash loses the memory and keeps the disk.
Crash ==
    /\ buf' = [b \in Blocks |-> NoBuf]
    /\ pinned' = [b \in Blocks |-> 0]
    /\ lh' = <<>>
    /\ outstanding' = 0
    /\ committing' = FALSE
    /\ op' = [p \in Procs |-> Out]
    /\ tail' = 0
    /\ boot' = "read_head"
    /\ UNCHANGED disk

\* initlog(): recover_from_log() before any process makes a system call.
ReadHead ==
    /\ boot = "read_head"
    /\ lh' = head
    /\ tail' = 0
    /\ boot' = "recover"
    /\ UNCHANGED <<disk, buf, pinned, outstanding, committing, op>>

RecoverInstall ==
    /\ boot = "recover"
    /\ InstallBlock
    /\ UNCHANGED <<logdata, head, pinned, lh, outstanding, committing, op, boot>>

RecoverClear ==
    /\ boot = "recover"
    /\ EraseLog
    /\ boot' = "up"
    /\ UNCHANGED <<home, logdata, buf, pinned, outstanding, committing, op>>

-----------------------------------------------------------------------------
Operation(p) ==
    \/ EndOpLast(p) \/ EndOpEarly(p)
    \/ \E b \in Blocks, d \in Data : LogWrite(p, b, d)

Commit(p) ==
    WriteLog(p) \/ WriteHead(p) \/ InstallTrans(p) \/ ClearHead(p) \/ CommitDone(p)

Recovery == ReadHead \/ RecoverInstall \/ RecoverClear

Next ==
    \/ \E p \in Procs : BeginOp(p) \/ Operation(p) \/ Commit(p)
    \/ \E b \in Blocks : Read(b) \/ Recycle(b)
    \/ Recovery
    \/ Crash

Spec == Init /\ [][Next]_vars

-----------------------------------------------------------------------------
Committers == {"write_log", "install", "done"}
Pcs == {"out", "begin", "asleep", "in"} \cup Committers

\* Where the processes are and what they have written.
Ops == [Procs -> [pc : Pcs, wrote : SUBSET Blocks]]

\* Every variable has its type.
TypeOK ==
    /\ home \in [Blocks -> Data]
    /\ logdata \in [1..LOGSIZE -> Data]
    /\ head \in Seq(Blocks) /\ lh \in Seq(Blocks)
    /\ buf \in [Blocks -> Data \cup {NoBuf}]
    /\ pinned \in [Blocks -> Nat]
    /\ outstanding \in Nat
    /\ committing \in BOOLEAN
    /\ op \in Ops
    /\ tail \in Nat
    /\ boot \in {"read_head", "recover", "up", "panic"}

\* The steps of a commit, from write_log() to the erased header.
Phase(pc) == \E p \in Procs : op[p].pc = pc

\* The operations in progress.
active == {p \in Procs : op[p].pc = "in"}

\* outstanding counts the operations in progress, and only one process commits,
\* with no operation in progress.
OneCommitter ==
    /\ outstanding = Cardinality(active)
    /\ committing <=> \E p \in Procs : op[p].pc \in Committers
    /\ \A p, q \in Procs : op[p].pc \in Committers =>
            op[q].pc # "in" /\ (op[q].pc \in Committers => p = q)
    /\ boot \in {"read_head", "recover"} => \A p \in Procs : op[p] = Out

\* The log never overruns its space and names a block once; the header on disk
\* names the blocks of lh from the commit until it is erased.
LogShape ==
    /\ IsInjective(lh) /\ Len(lh) <= LOGSIZE /\ tail <= Len(lh)
    /\ IsInjective(head) /\ Len(head) <= LOGSIZE
    /\ boot = "read_head" => lh = <<>>
    /\ boot = "recover" \/ Phase("install") => head = lh
    /\ boot \in {"up", "panic"} /\ ~Phase("install") => head = <<>>
    /\ Phase("done") => lh = <<>>

\* The blocks of the transaction that are not at home yet.
Pending == {b \in Blocks : \E k \in 1..Len(lh) : lh[k] = b /\ (Phase("install") => k > tail)}

\* A buffer differs from the disk only for a pending block, which is pinned.
Pins ==
    /\ \A b \in Blocks : buf[b] \in {NoBuf, home[b]} \/ (b \in Pending /\ boot \in {"up", "panic"})
    /\ boot \in {"up", "panic"} => \A b \in Pending : buf[b] # NoBuf /\ pinned[b] = 1
    /\ \A b \in Blocks : b \notin Pending \/ boot \in {"read_head", "recover"} => pinned[b] = 0

\* How far the copies have come.
Copies ==
    /\ Phase("write_log") => \A k \in 1..tail : logdata[k] = buf[lh[k]]
    /\ Phase("install") => \A k \in 1..Len(lh) :
            IF k > tail THEN buf[lh[k]] = logdata[k] ELSE home[lh[k]] = logdata[k]
    /\ boot = "recover" => \A k \in 1..tail : home[lh[k]] = logdata[k]

\* The inductive invariant.
IInv == TypeOK /\ OneCommitter /\ LogShape /\ Pins /\ Copies

\* What install_trans() makes of the blocks hm, with header hd and the log's data ld.
Replay(hd, ld, hm) ==
    [b \in Blocks |-> IF b \in Range(hd) THEN ld[CHOOSE k \in 1..Len(hd) : hd[k] = b] ELSE hm[b]]

\* What a restart would find: a committed transaction is replayed over the disk.
stable == Replay(head, logdata, home)

\* What bread() returns once the system is up.
current == IF boot \in {"up", "panic"} THEN [b \in Blocks |-> bread(b)] ELSE stable

Atomic == INSTANCE AtomicDisk

\* "There is never any reasoning required about whether a commit might write
\* an uncommitted system call's updates to disk": through every crash, at any
\* write and during recovery too, the log behaves like a disk that is updated
\* as a whole when no operation is in progress.
ImplementsAtomicDisk == Atomic!Spec

\* The blocks that the operations in progress may still write: MAXOPBLOCKS each,
\* less the ones written.
unwritten == {pk \in active \X (1..MAXOPBLOCKS) : pk[2] > Cardinality(op[pk[1]].wrote)}

\* The unwritten part of every operation's MAXOPBLOCKS fits in the log.  That is
\* what begin_op() reserves, and one block more than log_write() lets the
\* operations use: it panics when size - 1 blocks are in the log.
Reserved == ~committing => Len(lh) + Cardinality(unwritten) <= LOGSIZE

\* What an operation in progress has written is in the log's header in memory.
WritesLogged ==
    \A p \in active : IsFiniteSet(op[p].wrote) /\ op[p].wrote \subseteq Range(lh)

\* begin_op() admits no more operations than the log has room for: none of them
\* meets "too big a transaction" in log_write(), however the others write, end
\* and begin meanwhile, and no call of panic() in log.c is reached.
NoLogPanic == boot # "panic"

\* A process sleeps in begin_op() only as long as what it sleeps for holds: an
\* end_op() that makes room, or the end of a commit, wakes it.
SleepsForAReason ==
    boot = "up" /\ (\E p \in Procs : op[p].pc = "asleep") => committing \/ MightExhaust

=============================================================================
