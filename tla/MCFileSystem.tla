---------------------------- MODULE MCFileSystem ----------------------------
(* FileSystem on a disk with a few inodes and blocks. *)
EXTENDS FileSystem

Abs(elems) == [abs |-> TRUE, elems |-> elems]
Rel(elems) == [abs |-> FALSE, elems |-> elems]

OpenCall(path, mode) == [op |-> "open", path |-> path, mode |-> mode]
CreateCall(path, type, mode) == [op |-> "create", path |-> path, type |-> type, mode |-> mode]
LinkCall(path, new) == [op |-> "link", path |-> path, new |-> new]
PathCall(op, path) == [op |-> op, path |-> path]

MCCalls == {CreateCall(Abs(<<"d", "d">>), "FILE", {"RDWR", "TRUNC"}), CreateCall(Rel(<<"f">>), "FILE", {"RDWR"}),
            CreateCall(Rel(<<"d">>), "DIR", RDONLY), CreateCall(Rel(<<"f">>), "BADDEV", RDONLY),
            OpenCall(Rel(<<"..">>), RDONLY), OpenCall(Rel(<<"d">>), {"WRONLY"}),
            OpenCall(Rel(<<"f">>), {"TRUNC"}),
            LinkCall(Rel(<<"f">>), Abs(<<"d", "d">>)), LinkCall(Rel(<<"d">>), Abs(<<>>)),
            PathCall("unlink", Rel(<<"d">>)), PathCall("unlink", Rel(<<"f">>)),
            PathCall("unlink", Abs(<<"d", "d">>)), PathCall("unlink", Rel(<<"..">>)),
            PathCall("chdir", Rel(<<"d">>)), PathCall("exec", Rel(<<"f">>))}

\* The calls that show an inode that is never freed.
LostCalls == {PathCall("unlink", Rel(<<"d">>)), CreateCall(Rel(<<"d">>), "DIR", RDONLY)}

Dirent(name, inum) == [name |-> name, inum |-> inum]

Inode(type, nlink, size, direct, indirect) ==
    [type |-> type, nlink |-> nlink, size |-> size,
     addrs |-> [FreeInode.addrs EXCEPT ![0] = direct, ![1] = indirect]]

\* An image of the disk; ind gives the indirect blocks in use.
Image(inodes, entries, used, ind, cwds) ==
    [dinode  |-> [i \in Inums |-> IF i <= Len(inodes) THEN inodes[i] ELSE FreeInode],
     content |-> [i \in Inums |-> IF i <= Len(entries) THEN entries[i] ELSE <<>>],
     blk     |-> [bitmap |-> 1..used,
                  ind |-> [b \in DataBlocks |-> IF b \in DOMAIN ind THEN [Zeroed EXCEPT ![0] = ind[b]]
                                                                  ELSE Zeroed]],
     cwd     |-> cwds]

\* What mkfs makes of a command line with two files; everyone is in the root.  The
\* entries of the root do not end at the end of a block: if they did, the root
\* would have a size that its blocks do not reach.
M == INSTANCE Mkfs
New == M!mkfs(<<[name |-> "f", size |-> 5], [name |-> "g", size |-> 0]>>)
Fresh == [dinode |-> New.dinode, content |-> New.content, blk |-> New.blk,
          cwd |-> [p \in Procs |-> ROOT]]

\* The new file system; one with an empty directory /d and a file /f with an
\* indirect block, everyone in the root; and one with /d/d and a process in it.
MCImages ==
    {Fresh,
     Image(<<Inode("DIR", 2, 4, 1, 2), Inode("DIR", 1, 2, 4, 0), Inode("FILE", 1, 5, 5, 6)>>,
           << <<Dirent(".", 1), Dirent("..", 1), Dirent("d", 2), Dirent("f", 3)>>,
              <<Dirent(".", 2), Dirent("..", 1)>> >>,
           7, [b \in {2, 6} |-> b + 1],
           [p \in Procs |-> ROOT]),
     Image(<<Inode("DIR", 2, 3, 1, 0), Inode("DIR", 2, 3, 2, 0), Inode("DIR", 1, 2, 3, 0)>>,
           << <<Dirent(".", 1), Dirent("..", 1), Dirent("d", 2)>>,
              <<Dirent(".", 2), Dirent("..", 1), Dirent("d", 3)>>,
              <<Dirent(".", 3), Dirent("..", 2)>> >>,
           3, [b \in {} |-> 0],
           [p \in Procs |-> IF p = "p" THEN 3 ELSE ROOT])}

=============================================================================
