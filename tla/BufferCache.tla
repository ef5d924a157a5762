---------------------------- MODULE BufferCache ----------------------------
(***************************************************************************)
(* kernel/bio.c with the sleep locks of its buffers (kernel/sleeplock.c),   *)
(* on top of the disk driver.  A process uses one block at a time: bread(), *)
(* perhaps a change and bwrite(), then brelse().                            *)
(*                                                                          *)
(* call[p].pc is where p is:                                                *)
(*   idle    outside of the cache                                           *)
(*   lock    in acquiresleep(), about to test locked; asleep  in its sleep()*)
(*   bread   in the virtio_disk_rw() of bread()                             *)
(*   have    has the buffer; dirty  and has changed it                      *)
(*   bwrite  in the virtio_disk_rw() of bwrite()                            *)
(*   brelse  between releasesleep() and the rest of brelse()                *)
(* A region under bcache.lock, or under the spinlock of a sleep lock, is    *)
(* one step.  Changes that only the log knows of are in Log (bpin).         *)
(***************************************************************************)
EXTENDS VirtioDisk, Sequences

CONSTANT NoProc

\* There are buffers for all processes, so bget() does not run out of them.
ASSUME CacheAssumption ==
    /\ IsFiniteSet(Bufs) /\ Cardinality(Procs) <= Cardinality(Bufs)
    /\ NoProc \notin Procs

VARIABLES
    valid, refcnt,  \* struct buf
    locked,         \* the process that has the sleep lock of a buffer
    list,           \* the list from bcache.head, most recently used first
    call

cache == <<valid, refcnt, locked, list>>
vars == <<diskvars, cache, call>>

Idle == [pc |-> "idle", blockno |-> NoBlock, b |-> NoBuf]
Goto(p, pc) == call' = [call EXCEPT ![p].pc = pc]
At(p, pc) == call[p].pc = pc

\* binit()
Init ==
    /\ DiskInit
    /\ blockno = [b \in Bufs |-> NoBlock]
    /\ \E v \in Data : data = [b \in Bufs |-> v]
    /\ valid   = [b \in Bufs |-> FALSE]
    /\ refcnt  = [b \in Bufs |-> 0]
    /\ locked  = [b \in Bufs |-> NoProc]
    /\ list \in {s \in [1..Cardinality(Bufs) -> Bufs] : {s[i] : i \in DOMAIN s} = Bufs}
    /\ call    = [p \in Procs |-> Idle]

-----------------------------------------------------------------------------
Cached(k) == {b \in Bufs : blockno[b] = k}

\* The scan from bcache.head.prev: the least recently used free buffer.
Unused == {i \in DOMAIN list : refcnt[list[i]] = 0}
Victim == list[CHOOSE i \in Unused : \A j \in Unused : j <= i]

\* bget(): the block is cached.
BgetHit(p, k) ==
    \E b \in Cached(k) :
        /\ At(p, "idle")
        /\ refcnt' = [refcnt EXCEPT ![b] = @ + 1]
        /\ call' = [call EXCEPT ![p] = [pc |-> "lock", blockno |-> k, b |-> b]]
        /\ UNCHANGED <<diskvars, valid, locked, list>>

\* Mutant of BgetMiss: valid is not cleared.
BgetMissValid(p, k) ==
    /\ At(p, "idle") /\ Cached(k) = {} /\ Unused # {}
    /\ blockno' = [blockno EXCEPT ![Victim] = k]
    /\ refcnt' = [refcnt EXCEPT ![Victim] = 1]
    /\ call' = [call EXCEPT ![p] = [pc |-> "lock", blockno |-> k, b |-> Victim]]
    /\ UNCHANGED <<driver, device, disk, data, io, intr, valid, locked, list>>

\* bget(): a buffer is recycled.
BgetMiss(p, k) ==
    /\ At(p, "idle") /\ Cached(k) = {} /\ Unused # {}
    /\ blockno' = [blockno EXCEPT ![Victim] = k]
    /\ valid' = [valid EXCEPT ![Victim] = FALSE]
    /\ refcnt' = [refcnt EXCEPT ![Victim] = 1]
    /\ call' = [call EXCEPT ![p] = [pc |-> "lock", blockno |-> k, b |-> Victim]]
    /\ UNCHANGED <<driver, device, disk, data, io, intr, locked, list>>

\* acquiresleep(): the lock is taken; bread() reads the block if it is not
\* valid.
Lock(p) ==
    LET b == call[p].b
    IN  /\ At(p, "lock") /\ locked[b] = NoProc
        /\ locked' = [locked EXCEPT ![b] = p]
        /\ IF valid[b] THEN Goto(p, "have") /\ UNCHANGED io
                       ELSE Goto(p, "bread") /\ Start(p, b, FALSE)
        /\ UNCHANGED <<driver, device, blockno, disk, data, intr, valid, refcnt, list>>

LockSleep(p) ==
    /\ At(p, "lock") /\ locked[call[p].b] # NoProc
    /\ Goto(p, "asleep")
    /\ UNCHANGED <<diskvars, cache>>

\* virtio_disk_rw() has returned to bread() or to bwrite().
BreadDone(p) ==
    /\ At(p, "bread") /\ io[p].pc = "none"
    /\ valid' = [valid EXCEPT ![call[p].b] = TRUE]
    /\ Goto(p, "have")
    /\ UNCHANGED <<diskvars, refcnt, locked, list>>

BwriteDone(p) ==
    /\ At(p, "bwrite") /\ io[p].pc = "none"
    /\ Goto(p, "have")
    /\ UNCHANGED <<diskvars, cache>>

\* The process changes its buffer, which it will write.
Modify(p, v) ==
    /\ At(p, "have") /\ v # data[call[p].b]
    /\ data' = [data EXCEPT ![call[p].b] = v]
    /\ Goto(p, "dirty")
    /\ UNCHANGED <<driver, device, blockno, disk, io, intr, cache>>

Bwrite(p) ==
    /\ At(p, "dirty")
    /\ Start(p, call[p].b, TRUE)
    /\ Goto(p, "bwrite")
    /\ UNCHANGED <<driver, device, blockno, disk, data, intr, cache>>

\* releasesleep() wakes everybody who sleeps on the lock.
Brelse(p) ==
    LET b == call[p].b
    IN  /\ At(p, "have")
        /\ locked' = [locked EXCEPT ![b] = NoProc]
        /\ call' = [q \in Procs |->
                IF q = p THEN [call[p] EXCEPT !.pc = "brelse"]
                ELSE IF At(q, "asleep") /\ call[q].b = b
                THEN [call[q] EXCEPT !.pc = "lock"] ELSE call[q]]
        /\ UNCHANGED <<diskvars, valid, refcnt, list>>

\* The rest of brelse(): the last user moves the buffer to the front.
BrelseRef(p) ==
    LET b == call[p].b
    IN  /\ At(p, "brelse")
        /\ refcnt' = [refcnt EXCEPT ![b] = @ - 1]
        /\ list' = IF refcnt[b] = 1
                   THEN <<b>> \o SelectSeq(list, LAMBDA c : c # b)
                   ELSE list
        /\ call' = [call EXCEPT ![p] = Idle]
        /\ UNCHANGED <<diskvars, valid, locked>>

-----------------------------------------------------------------------------
CacheNext(p) ==
    \/ \E k \in Blocks : BgetHit(p, k) \/ BgetMiss(p, k)
    \/ Lock(p) \/ LockSleep(p)
    \/ BreadDone(p) \/ BwriteDone(p)
    \/ \E v \in Data : Modify(p, v)
    \/ Bwrite(p) \/ Brelse(p) \/ BrelseRef(p)

Next ==
    \/ \E p \in Procs : CacheNext(p)
    \/ DiskNext /\ UNCHANGED <<cache, call>>

Spec == Init /\ [][Next]_vars

-----------------------------------------------------------------------------
Pcs == {"idle", "lock", "asleep", "bread", "have", "dirty", "bwrite", "brelse"}
InUse(p) == call[p].pc \in {"have", "dirty", "bwrite"}

content == [k \in Blocks |->
    IF \E b \in Cached(k) : valid[b]
    THEN data[CHOOSE b \in Cached(k) : valid[b]]
    ELSE media[k]]
holder == [k \in Blocks |->
    IF \E p \in Procs : InUse(p) /\ call[p].blockno = k
    THEN CHOOSE p \in Procs : InUse(p) /\ call[p].blockno = k
    ELSE NoProc]

Store == INSTANCE BlockStore WITH stored <- media

\* Through recycling, concurrent requests that the device finishes in any
\* order, and interrupts that come late: a process that has a block sees what
\* its last user left, nobody else changes it, and a block that is released is
\* on the disk.
ImplementsBlockStore == Store!Spec

\* Whoever sleeps has a reason that somebody will end: for descriptors, a
\* request that is still out; for its request, the device or the interrupt; for
\* a buffer, a process that has its lock.
SleepsForAReason ==
    \A p \in Procs :
        /\ io[p].pc = "nodesc" =>
             Cardinality(free) < 3 /\ \E q \in Procs : io[q].pc \in {"notify", "wait", "woken"}
        /\ io[p].pc = "wait" =>
             \/ io[p].head \in dev.busy
             \/ dev.seen # avail.idx
             \/ used_idx # used.idx /\ (dev.owed \/ dev.irq \/ intr)
        /\ At(p, "asleep") => locked[call[p].b] # NoProc

=============================================================================
