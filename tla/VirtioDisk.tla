----------------------------- MODULE VirtioDisk -----------------------------
(***************************************************************************)
(* kernel/virtio_disk.c: processes that transfer buffers, the device, which *)
(* reads the descriptors in memory at its own pace and finishes requests in *)
(* any order, and the interrupt.  BufferCache makes the requests.           *)
(*                                                                          *)
(* io[p].pc is where p is in virtio_disk_rw():                              *)
(*   none    outside of it                                                  *)
(*   alloc   about to allocate descriptors; nodesc  asleep on &disk.free[0] *)
(*   notify  the request is in the avail ring, its index is not moved yet   *)
(*   wait    asleep on the buffer; woken  about to test b->disk again       *)
(* A region under vdisk_lock is split where the device, which works on      *)
(* meanwhile, can see the difference; intr says that the handler runs.      *)
(* The header disk.ops[i] is kept with the descriptor that points to it,    *)
(* and an entry of a ring is cleared when it has been read.                 *)
(***************************************************************************)
EXTENDS Integers, FiniteSets

CONSTANTS
    Procs, Bufs, Blocks, Data,
    Nums,           \* builds: values of NUM (virtio.h)
    IdxMod,         \* the indices of the rings are uint16: 2^16
    NoBuf, NoBlock

ASSUME DiskAssumption ==
    /\ \A n \in Nums : n \in Nat /\ n >= 3 /\ IdxMod % n = 0
    /\ NoBuf \notin Bufs /\ NoBlock \notin Blocks

VARIABLES
    NUM,                    \* descriptors, and entries of each ring
    free, desc, info,       \* struct disk: which descriptors are free, the
                            \* descriptors, and info[]
    avail, used, used_idx,  \* the two rings, and how far used was read
    blockno, disk, data,    \* struct buf
    io, intr,
    dev,                    \* the device: avail entries seen, requests it
                            \* works on, an interrupt it owes, its interrupt line
    media                   \* the blocks on the disk

driver == <<NUM, free, desc, info, avail, used_idx>>
device == <<used, dev, media>>
diskvars == <<driver, device, blockno, disk, data, io, intr>>

Descs == 0..NUM-1
NoDesc == [addr |-> NoBuf, sector |-> NoBlock, write |-> FALSE, more |-> FALSE, next |-> 0]
NoIo == [pc |-> "none", b |-> NoBuf, sector |-> NoBlock, write |-> FALSE, head |-> 0]

\* virtio_disk_init()
DiskInit ==
    /\ NUM \in Nums
    /\ free = Descs
    /\ desc = [i \in Descs |-> NoDesc]
    /\ info = [i \in Descs |-> [b |-> NoBuf, status |-> 0]]
    /\ avail = [idx |-> 0, ring |-> [k \in Descs |-> 0]]
    /\ used  = [idx |-> 0, ring |-> [k \in Descs |-> 0]]
    /\ used_idx = 0
    /\ disk = [b \in Bufs |-> 0]
    /\ io = [p \in Procs |-> NoIo]
    /\ intr = FALSE
    /\ dev = [seen |-> 0, busy |-> {}, owed |-> FALSE, irq |-> FALSE]
    /\ media \in [Blocks -> Data]

-----------------------------------------------------------------------------
\* vdisk_lock, which the handler and a process about to notify hold.
vdisk_lock == intr \/ \E p \in Procs : io[p].pc = "notify"

\* virtio_disk_rw(b, write) is called.
Start(p, b, write) ==
    io' = [io EXCEPT ![p] = [pc |-> "alloc", b |-> b, sector |-> blockno[b],
                             write |-> write, head |-> 0]]

\* wakeup() of the processes that wait for descriptors; p goes on with r.
WakeAnd(p, r) ==
    io' = [q \in Procs |->
        IF q = p THEN r
        ELSE IF io[q].pc = "nodesc" THEN [io[q] EXCEPT !.pc = "alloc"] ELSE io[q]]

\* alloc_desc() takes the lowest free descriptor.
Lowest(S) == CHOOSE i \in S : \A j \in S : i <= j

\* alloc3_desc() fails: free_desc() gives back what it took, and wakes the
\* others that wait, before p sleeps.
AllocFail(p) ==
    /\ io[p].pc = "alloc" /\ ~vdisk_lock /\ Cardinality(free) < 3
    /\ LET r == [io[p] EXCEPT !.pc = "nodesc"]
       IN  IF free = {} THEN io' = [io EXCEPT ![p] = r] ELSE WakeAnd(p, r)
    /\ UNCHANGED <<driver, device, blockno, disk, data, intr>>

\* alloc3_desc() succeeds: the three descriptors and the entry of the avail
\* ring.
Submit(p) ==
    LET b  == io[p].b
        h  == Lowest(free)
        d2 == Lowest(free \ {h})
        d3 == Lowest(free \ {h, d2})
    IN  /\ io[p].pc = "alloc" /\ ~vdisk_lock /\ Cardinality(free) >= 3
        /\ free' = free \ {h, d2, d3}
        /\ desc' = [desc EXCEPT
             ![h]  = [addr |-> NoBuf, sector |-> io[p].sector, write |-> io[p].write,
                      more |-> TRUE, next |-> d2],
             ![d2] = [addr |-> b, sector |-> NoBlock, write |-> ~io[p].write,
                      more |-> TRUE, next |-> d3],
             ![d3] = [addr |-> NoBuf, sector |-> NoBlock, write |-> TRUE,
                      more |-> FALSE, next |-> 0]]
        /\ info' = [info EXCEPT ![h] = [b |-> b, status |-> 255]]
        /\ disk' = [disk EXCEPT ![b] = 1]
        /\ avail' = [avail EXCEPT !.ring[avail.idx % NUM] = h]
        /\ io' = [io EXCEPT ![p].pc = "notify", ![p].head = h]
        /\ UNCHANGED <<NUM, used_idx, device, blockno, data, intr>>

\* The index of the avail ring moves, and the process sleeps: b->disk is still
\* 1, since the handler needs the lock.
Notify(p) ==
    /\ io[p].pc = "notify"
    /\ avail' = [avail EXCEPT !.idx = (@ + 1) % IdxMod]
    /\ io' = [io EXCEPT ![p].pc = "wait"]
    /\ UNCHANGED <<NUM, free, desc, info, used_idx, device, blockno, disk, data, intr>>

\* free_chain() follows the flags and the links of the descriptors.
Chain(i) ==
    LET j == desc[i].next
        k == desc[j].next
    IN  {i} \cup (IF ~desc[i].more THEN {}
                  ELSE {j} \cup (IF desc[j].more THEN {k} ELSE {}))

\* Woken, and b->disk is 0: free_chain(), whose free_desc() wakes the others.
Finish(p) ==
    LET h == io[p].head
    IN  /\ io[p].pc = "woken" /\ ~vdisk_lock /\ disk[io[p].b] = 0
        /\ info' = [info EXCEPT ![h].b = NoBuf]
        /\ free' = free \cup Chain(h)
        /\ desc' = [i \in Descs |-> IF i \in Chain(h) THEN NoDesc ELSE desc[i]]
        /\ WakeAnd(p, NoIo)
        /\ UNCHANGED <<NUM, avail, used_idx, device, blockno, disk, data, intr>>

-----------------------------------------------------------------------------
(* virtio_disk_intr() *)

\* The acknowledgement lets the device interrupt again.
IntrStart ==
    /\ dev.irq /\ ~vdisk_lock
    /\ intr' = TRUE
    /\ dev' = [dev EXCEPT !.irq = FALSE]
    /\ UNCHANGED <<driver, used, media, blockno, disk, data, io>>

\* One entry of the used ring: the request is done, its process is woken.  The
\* handler panics if the device has not written the status 0.
IntrEntry ==
    LET k == used_idx % NUM
        b == info[used.ring[k]].b
    IN  /\ intr /\ used_idx # used.idx
        /\ info[used.ring[k]].status = 0
        /\ disk' = [disk EXCEPT ![b] = 0]
        /\ io' = [q \in Procs |->
                IF io[q].pc = "wait" /\ io[q].b = b
                THEN [io[q] EXCEPT !.pc = "woken"] ELSE io[q]]
        /\ used' = [used EXCEPT !.ring[k] = 0]
        /\ used_idx' = (used_idx + 1) % IdxMod
        /\ UNCHANGED <<NUM, free, desc, info, avail, dev, media, blockno, data, intr>>

\* Mutant of IntrEnd: the loop ends after one look at used->idx.
IntrEndEarly ==
    /\ intr
    /\ intr' = FALSE
    /\ UNCHANGED <<driver, device, blockno, disk, data, io>>

\* The loop has read every entry; those of later requests come with an
\* interrupt of their own.
IntrEnd ==
    /\ intr /\ used_idx = used.idx
    /\ intr' = FALSE
    /\ UNCHANGED <<driver, device, blockno, disk, data, io>>

-----------------------------------------------------------------------------
(* The device *)

\* It takes the next entry of the avail ring.
DevFetch ==
    LET k == dev.seen % NUM
    IN  /\ dev.seen # avail.idx
        /\ dev' = [dev EXCEPT !.seen = (@ + 1) % IdxMod,
                              !.busy = @ \cup {avail.ring[k]}]
        /\ avail' = [avail EXCEPT !.ring[k] = 0]
        /\ UNCHANGED <<NUM, free, desc, info, used_idx, used, media, blockno, disk,
                       data, io, intr>>

\* It follows the chain from h, moves the data between the buffer and the
\* sector of the header, writes the status and an entry of the used ring.
DevDone(h) ==
    LET sector == desc[h].sector
        b      == desc[desc[h].next].addr
    IN  /\ h \in dev.busy
        /\ IF desc[h].write
           THEN media' = [media EXCEPT ![sector] = data[b]] /\ UNCHANGED data
           ELSE data' = [data EXCEPT ![b] = media[sector]] /\ UNCHANGED media
        /\ info' = [info EXCEPT ![h].status = 0]
        /\ used' = [idx  |-> (used.idx + 1) % IdxMod,
                    ring |-> [used.ring EXCEPT ![used.idx % NUM] = h]]
        /\ dev' = [dev EXCEPT !.busy = @ \ {h}, !.owed = TRUE]
        /\ UNCHANGED <<NUM, free, desc, avail, used_idx, blockno, disk, io, intr>>

DevInterrupt ==
    /\ dev.owed
    /\ dev' = [dev EXCEPT !.owed = FALSE, !.irq = TRUE]
    /\ UNCHANGED <<driver, used, media, blockno, disk, data, io, intr>>

-----------------------------------------------------------------------------
DiskNext ==
    \/ \E p \in Procs : AllocFail(p) \/ Submit(p) \/ Notify(p) \/ Finish(p)
    \/ IntrStart \/ IntrEntry \/ IntrEnd
    \/ DevFetch \/ (\E h \in Descs : DevDone(h)) \/ DevInterrupt

=============================================================================
