-------------------------------- MODULE Mkfs --------------------------------
(***************************************************************************)
(* mkfs/mkfs.c: the image of a new file system, which holds a root directory *)
(* and the files given on the command line, as an operator of those files.  *)
(* The image under construction is a record m:                              *)
(*   dinode, content   the inodes and, for the root, its entries in order;  *)
(*   ind               the blocks used as indirect blocks;                  *)
(*   freeinode, freeblock   the next inode and the next block to hand out.  *)
(* Block 1 is the first data block, the one numbered nmeta in the code.      *)
(* An assertion that fails, or a host call, stops mkfs: the operators are   *)
(* applied to files that fit.                                               *)
(***************************************************************************)
EXTENDS Blocks, SequencesExt

CONSTANT NINODES    \* inodes on the disk

Inums == 1..NINODES
ROOT  == 1

Empty == [name |-> "", inum |-> 0]

\* The disk before the first inode: every block is zero.
Blank == [dinode |-> [i \in Inums |-> FreeInode], content |-> [i \in Inums |-> <<>>],
          ind |-> [b \in DataBlocks |-> Zeroed], freeinode |-> 1, freeblock |-> 1]

\* ialloc(type): the next inode; it has one link.
ialloc(m, type) ==
    [m EXCEPT !.dinode[m.freeinode] = [FreeInode EXCEPT !.type = type, !.nlink = 1],
              !.freeinode = @ + 1]

\* An address that is 0 gets the next block: one of inode i...
AtSlot(m, i, k) ==
    IF m.dinode[i].addrs[k] # 0 THEN m
    ELSE [m EXCEPT !.dinode[i].addrs[k] = m.freeblock, !.freeblock = @ + 1]

\* ...or one of its indirect block b.
AtEntry(m, b, j) ==
    IF m.ind[b][j] # 0 THEN m
    ELSE [m EXCEPT !.ind[b][j] = m.freeblock, !.freeblock = @ + 1]

\* Block fbn of inode i has a block of the disk.
AtBlock(m, i, fbn) ==
    IF fbn < NDIRECT THEN AtSlot(m, i, fbn)
    ELSE LET a == AtSlot(m, i, NDIRECT)
         IN  AtEntry(a, a.dinode[i].addrs[NDIRECT], fbn - NDIRECT)

\* iappend(i, n units): a piece in each block the units fall in.
iappend(m, i, n) ==
    LET off  == m.dinode[i].size
        fbns == {fbn \in 0..(MAXFILE - 1) : fbn * BSIZE < off + n /\ off < (fbn + 1) * BSIZE}
        grow(r, fbn) == AtBlock(r, i, fbn)
        r == FoldLeft(grow, m, SetToSortSeq(fbns, LAMBDA a, b : a < b))
    IN  [r EXCEPT !.dinode[i].size = off + n]

\* iappend() of an entry to the root directory.
Enter(m, name, inum) ==
    [iappend(m, ROOT, 1) EXCEPT !.content[ROOT] = Append(@, [name |-> name, inum |-> inum])]

\* A file of the command line: an inode, an entry, and its units.
AddFile(m, f) == iappend(Enter(ialloc(m, "FILE"), f.name, m.freeinode), m.freeinode, f.size)

\* The size of the root directory is rounded up to the next block; the new
\* entries are free.
FixRoot(m) ==
    LET off == (m.dinode[ROOT].size \div BSIZE + 1) * BSIZE IN
    [m EXCEPT !.dinode[ROOT].size = off,
              !.content[ROOT] = @ \o [k \in 1..(off - Len(@)) |-> Empty]]

\* balloc(used): the bitmap marks every block before freeblock.
balloc0(m) == [bitmap |-> 1..(m.freeblock - 1), ind |-> m.ind]

\* main()
mkfs(files) ==
    LET dots == Enter(Enter(ialloc(Blank, "DIR"), ".", ROOT), "..", ROOT)
        m == FixRoot(FoldLeft(AddFile, dots, files))
    IN  [dinode |-> m.dinode, content |-> m.content, blk |-> balloc0(m)]

=============================================================================
