------------------------------- MODULE Blocks -------------------------------
(***************************************************************************)
(* Block allocation and the blocks of a file: balloc, bfree, bmap, itrunc,  *)
(* readi and writei of kernel/fs.c, as operators on two values:             *)
(*   D   the disk: the set of data blocks marked in the bitmap, and for     *)
(*       each block what it holds when it is used as an indirect block;     *)
(*   ip  an inode: type, nlink, size and addrs, where 0 is "no block".      *)
(* A file is measured in units, BSIZE to a block; the unit is a dirent.     *)
(* Callers hold ip->lock, so each operator runs as one step on ip; it       *)
(* returns a record with the values it changed and its result.              *)
(***************************************************************************)
EXTENDS Integers, Sequences, FiniteSets

CONSTANTS
    NBLOCKS,        \* number of data blocks
    NDIRECT,        \* direct addresses of an inode (fs.h)
    NINDIRECT,      \* addresses in an indirect block (fs.h)
    BSIZE           \* units in a block (fs.h)

ASSUME BlocksAssumption ==
    /\ NBLOCKS \in Nat /\ NDIRECT \in Nat
    /\ NINDIRECT \in Nat \ {0} /\ BSIZE \in Nat \ {0}

DataBlocks == 1..NBLOCKS
MAXFILE    == NDIRECT + NINDIRECT
Slots      == 0..NDIRECT            \* indices of addrs; NDIRECT is the indirect one
Entries    == 0..(NINDIRECT - 1)    \* indices of an indirect block

Zeroed   == [j \in Entries |-> 0]
FreeInode == [type |-> "FREE", nlink |-> 0, size |-> 0, addrs |-> [i \in Slots |-> 0]]

-----------------------------------------------------------------------------
\* balloc(): the first block that is not marked, zeroed; 0 if there is none.
balloc(D) ==
    LET free == DataBlocks \ D.bitmap IN
    IF free = {}
    THEN [D |-> D, addr |-> 0]
    ELSE LET b == CHOOSE x \in free : \A y \in free : x <= y
         IN  [D |-> [bitmap |-> D.bitmap \cup {b}, ind |-> [D.ind EXCEPT ![b] = Zeroed]],
              addr |-> b]

\* The two places of bmap() that fill an address that is 0, with r what balloc()
\* returned: one of the inode...
slotFilled(r, ip, i) == [D |-> r.D, ip |-> [ip EXCEPT !.addrs[i] = r.addr], addr |-> r.addr]

slot(D, ip, i) ==
    IF ip.addrs[i] # 0 THEN [D |-> D, ip |-> ip, addr |-> ip.addrs[i]]
                       ELSE slotFilled(balloc(D), ip, i)

\* ...and one of its indirect block b.
entryFilled(r, ip, b, j) ==
    [D |-> [r.D EXCEPT !.ind[b][j] = r.addr], ip |-> ip, addr |-> r.addr]

entry(D, ip, b, j) ==
    IF D.ind[b][j] # 0 THEN [D |-> D, ip |-> ip, addr |-> D.ind[b][j]]
                       ELSE entryFilled(balloc(D), ip, b, j)

\* r is the indirect block, if there is one.
throughIndirect(r, j) == IF r.addr = 0 THEN r ELSE entry(r.D, r.ip, r.addr, j)

\* bmap(ip, bn): the block that holds block bn of the file, allocated if needed.
bmap(D, ip, bn) ==
    IF bn < NDIRECT THEN slot(D, ip, bn)
                    ELSE throughIndirect(slot(D, ip, NDIRECT), bn - NDIRECT)

\* bfree() of each block of S.
bfree(D, S) == [D EXCEPT !.bitmap = @ \ S]

\* The blocks of ip: those its addresses name and those its indirect block names.
Direct(ip)      == {ip.addrs[i] : i \in Slots} \ {0}
Indirect(D, ip) == IF ip.addrs[NDIRECT] = 0 THEN {}
                   ELSE {D.ind[ip.addrs[NDIRECT]][j] : j \in Entries} \ {0}

\* Mutant of itrunc: the blocks behind the indirect block are forgotten.
itruncDirect(D, ip) ==
    [D  |-> bfree(D, Direct(ip)),
     ip |-> [ip EXCEPT !.addrs = [i \in Slots |-> 0], !.size = 0]]

\* itrunc(ip): bfree() of every block.
itrunc(D, ip) ==
    [D  |-> bfree(D, Direct(ip) \cup Indirect(D, ip)),
     ip |-> [ip EXCEPT !.addrs = [i \in Slots |-> 0], !.size = 0]]

-----------------------------------------------------------------------------
Least(a, b) == IF a < b THEN a ELSE b

\* The loop of readi() and writei() over the n units from off: a piece at a
\* time, each in one block.  It ends early when there is no block, or when the
\* piece does not lie within the lim units that can be copied.
RECURSIVE pieces(_, _, _, _, _, _)
piece(r, m, off, n, lim, tot) ==
    IF r.addr = 0 \/ tot + m > lim
    THEN [D |-> r.D, ip |-> r.ip, tot |-> tot, copied |-> r.addr = 0]
    ELSE pieces(r.D, r.ip, off + m, n, lim, tot + m)
pieces(D, ip, off, n, lim, tot) ==
    IF tot >= n
    THEN [D |-> D, ip |-> ip, tot |-> tot, copied |-> TRUE]
    ELSE piece(bmap(D, ip, off \div BSIZE), Least(n - tot, BSIZE - (off % BSIZE)),
               off, n, lim, tot)

\* readi(): a failed copy returns -1.
readDone(r) == [D |-> r.D, ip |-> r.ip, tot |-> IF r.copied THEN r.tot ELSE -1]

readi(D, ip, off, n, lim) ==
    IF off > ip.size THEN [D |-> D, ip |-> ip, tot |-> 0]
                     ELSE readDone(pieces(D, ip, off, Least(n, ip.size - off), lim, 0))

\* writei(): the file grows to the end of what was copied.
writeDone(r, off) ==
    [D |-> r.D, tot |-> r.tot,
     ip |-> [r.ip EXCEPT !.size = IF off + r.tot > @ THEN off + r.tot ELSE @]]

writei(D, ip, off, n, lim) ==
    IF off > ip.size \/ off + n > MAXFILE * BSIZE
    THEN [D |-> D, ip |-> ip, tot |-> -1]
    ELSE writeDone(pieces(D, ip, off, n, lim, 0), off)

=============================================================================
