----------------------------- MODULE FileSystem -----------------------------
(***************************************************************************)
(* Inodes, directories, path names, open files and the system calls on them *)
(* (kernel/fs.c, file.c, sysfile.c) for processes that run concurrently.    *)
(*                                                                         *)
(* A step is what a process does between two points where another process   *)
(* can be seen: the time it holds an inode's sleep-lock, when it takes no   *)
(* second lock meanwhile, is one step; a call that holds a directory while  *)
(* it locks an entry is split there; iput() is a step of its own, and four  *)
(* when it frees the inode, because ialloc() may find the inode between.    *)
(* begin_op/end_op and the buffers are in Log and BufferCache: here a       *)
(* transaction is the time a call's thread is not between transactions.     *)
(***************************************************************************)
EXTENDS Blocks, FiniteSetsExt

CONSTANTS
    Procs,          \* processes
    NINODES,        \* inodes on the disk (mkfs); 1 is the root
    NFILE,          \* open files in the system (param.h)
    NOFILE,         \* open files of a process (param.h)
    MAXWRITE,       \* units filewrite() puts in one transaction
    Calls,          \* the path-name calls the processes may make
    Counts,         \* the sizes of their writes and reads
    MaxCalls,       \* calls made in all
    Images          \* the disks, and current directories, to start from

VARIABLES
    dinode,         \* the inodes on the disk
    content,        \* the entries of each directory, in order; inum 0 is empty
    blk,            \* bitmap and indirect blocks (Blocks!D)
    icache,         \* struct inode of each inum: ref, valid, lock, d (its copy)
    file,           \* ftable: ref, type, ip, off, readable, writable
    ofile, cwd,     \* of each process
    th,             \* what each process is doing in the kernel
    calls,          \* calls made so far
    panicked        \* the kernel has stopped

disk == <<dinode, content, blk>>
vars == <<dinode, content, blk, icache, file, ofile, cwd, th, calls, panicked>>

Inums  == 1..NINODES
ROOT   == 1
Files  == 1..NFILE
FDs    == 1..NOFILE
Nobody == "nobody"

NoFile == [ref |-> 0, type |-> "NONE", ip |-> 0, off |-> 0, r |-> FALSE, w |-> FALSE]

\* A thread: where it is, the call, the path elements left, the file it writes
\* and the units left to write, and its inode pointers: w (namex's ip), dp, ip,
\* and the one given to iput() together with what follows that iput().
NoCall == [op |-> "none"]
Idle   == [pc |-> "user", c |-> NoCall, path |-> <<>>, f |-> 0, n |-> 0,
           w |-> 0, dp |-> 0, ip |-> 0, put |-> 0, then |-> "user"]

Init ==
    /\ \E im \in Images :
        /\ dinode = im.dinode /\ content = im.content /\ blk = im.blk
        /\ cwd = im.cwd
        /\ icache = [i \in Inums |->
                       [ref |-> Cardinality({p \in Procs : im.cwd[p] = i}),
                        valid |-> FALSE, lock |-> Nobody, d |-> FreeInode]]
    /\ file = [f \in Files |-> NoFile]
    /\ ofile = [p \in Procs |-> [fd \in FDs |-> 0]]
    /\ th = [p \in Procs |-> Idle]
    /\ calls = 0
    /\ panicked = FALSE

-----------------------------------------------------------------------------
(* The in-memory inode *)

LeastOf(S) == CHOOSE x \in S : \A y \in S : x <= y

\* iget() and idup(): an entry that nobody uses is recycled and no longer valid.
iget(e) == [e EXCEPT !.ref = @ + 1, !.valid = @ /\ e.ref > 0]

\* What ilock(i) finds: the copy in memory if valid, else the inode on the disk.
Loaded(i) == IF icache[i].valid THEN icache[i].d ELSE dinode[i]

\* ilock(i) returns: the sleep-lock is free and the inode has a type.
ilock(i) == icache[i].lock = Nobody /\ Loaded(i).type # "FREE"

\* The entry of i once its holder leaves it with contents d and lock l.
With(e, d, l) == [e EXCEPT !.valid = TRUE, !.d = d, !.lock = l]

\* The thread calls iput(i) and goes on at q.
iput(t, i, q) == [t EXCEPT !.pc = "put", !.put = i, !.then = q]

Become(p, t) == th' = [th EXCEPT ![p] = t]

-----------------------------------------------------------------------------
(* Directories *)

Empty == [name |-> "", inum |-> 0]

\* dirlookup(): the offsets (from 1) of the entries of dir named name.
Where(dir, name) == {k \in 1..Len(dir) : dir[k].inum # 0 /\ dir[k].name = name}

\* dirlookup(): the inode of the first of them, or 0.
dirlookup(dir, name) ==
    IF Where(dir, name) = {} THEN 0 ELSE dir[LeastOf(Where(dir, name))].inum

\* isdirempty(): nothing after the entries "." and "..".
isdirempty(dir) == \A k \in 3..Len(dir) : dir[k].inum = 0

\* The end of dirlink(): r is what writei() of entry e at offset k returned.
entered(r, dir, k, e) ==
    [ok |-> r.tot = 1, D |-> r.D, ip |-> r.ip,
     dir |-> IF r.tot # 1 THEN dir
             ELSE IF k > Len(dir) THEN Append(dir, e) ELSE [dir EXCEPT ![k] = e]]

\* Mutant of dirlink: the name is not looked for.
dirlinkTwice(D, d, dir, name, inum) ==
    LET free == {k \in 1..Len(dir) : dir[k].inum = 0}
        k    == IF free = {} THEN Len(dir) + 1 ELSE LeastOf(free)
    IN  entered(writei(D, d, k - 1, 1, 1), dir, k, [name |-> name, inum |-> inum])

\* dirlink(): the first empty entry or a new one at the end; it fails when the
\* name is there (the iput() of what it found only undoes its iget()) and when
\* the write has no block, which may still have changed the inode's addresses.
dirlink(D, d, dir, name, inum) ==
    IF dirlookup(dir, name) # 0
    THEN [ok |-> FALSE, D |-> D, ip |-> d, dir |-> dir]
    ELSE LET free == {k \in 1..Len(dir) : dir[k].inum = 0}
             k    == IF free = {} THEN Len(dir) + 1 ELSE LeastOf(free)
         IN  entered(writei(D, d, k - 1, 1, 1), dir, k, [name |-> name, inum |-> inum])

\* ialloc(): the first free inode on the disk, or 0.
ialloc == LET free == {i \in Inums : dinode[i].type = "FREE"}
          IN  IF free = {} THEN 0 ELSE LeastOf(free)

-----------------------------------------------------------------------------
(* Path names: namex() *)

\* namex() starts at the root or at the current directory.
From(p, path) == IF path.abs THEN ROOT ELSE cwd[p]

\* The thread looks for the parent (nameiparent); link() does on its second path.
Par(t) == t.c.op \in {"create", "unlink"} \/ (t.c.op = "link" /\ t.ip # 0)

\* Where a call goes on when the path is not found.
Failed(t) == IF t.c.op = "link" /\ t.ip # 0 THEN "linkbad" ELSE "user"

\* The thread of p has found the inode of its path (namei has returned).
Named(p, op) == th[p].pc = "walk" /\ th[p].path = <<>> /\ ~Par(th[p]) /\ th[p].c.op = op

\* A system call with a path name.
Call(p) == \E c \in Calls :
    /\ LET i == From(p, c.path) IN
        /\ icache' = [icache EXCEPT ![i] = iget(@)]
        /\ Become(p, [Idle EXCEPT !.pc = "walk", !.c = c, !.path = c.path.elems, !.w = i])
    /\ UNCHANGED <<disk, file, ofile, cwd>>

\* One element: lock the directory, look the name up, unlock and put it.
Walk(p) ==
    LET t == th[p]
        i == t.w
        d == Loaded(i)
        n == dirlookup(content[i], Head(t.path))
    IN
    /\ t.pc = "walk" /\ t.path # <<>>
    /\ ilock(i)
    /\ \/ /\ d.type # "DIR" \/ (~(Par(t) /\ Len(t.path) = 1) /\ n = 0)
          /\ icache' = [icache EXCEPT ![i] = With(@, d, Nobody)]
          /\ Become(p, iput([t EXCEPT !.w = 0], i, Failed(t)))
       \/ /\ d.type = "DIR" /\ Par(t) /\ Len(t.path) = 1
          /\ icache' = [icache EXCEPT ![i] = With(@, d, Nobody)]
          /\ Become(p, [t EXCEPT !.pc = t.c.op, !.w = 0, !.dp = i])
       \/ /\ d.type = "DIR" /\ ~(Par(t) /\ Len(t.path) = 1) /\ n # 0
          /\ icache' = [[icache EXCEPT ![i] = With(@, d, Nobody)] EXCEPT ![n] = iget(@)]
          /\ Become(p, iput([t EXCEPT !.w = n, !.path = Tail(@)], i, "walk"))
    /\ UNCHANGED <<disk, file, ofile, cwd>>

\* nameiparent() of a path without a name.
WalkNoName(p) ==
    /\ th[p].pc = "walk" /\ th[p].path = <<>> /\ Par(th[p])
    /\ Become(p, iput([th[p] EXCEPT !.w = 0], th[p].w, Failed(th[p])))
    /\ UNCHANGED <<disk, icache, file, ofile, cwd>>

-----------------------------------------------------------------------------
(* iput() *)

\* The caller holds the last reference to an inode without links.
Last(i) == icache[i].ref = 1 /\ icache[i].valid /\ icache[i].d.nlink = 0

PutLast(p) == LET i == th[p].put IN
    /\ th[p].pc = "put" /\ Last(i) /\ icache[i].lock = Nobody
    /\ icache' = [icache EXCEPT ![i].lock = p]
    /\ Become(p, [th[p] EXCEPT !.pc = "itrunc"])
    /\ UNCHANGED <<disk, file, ofile, cwd>>

\* itrunc(), type = 0, iupdate().
PutFree(p) ==
    LET i == th[p].put
        r == itrunc(blk, icache[i].d)
        d == [r.ip EXCEPT !.type = "FREE"]
    IN
    /\ th[p].pc = "itrunc"
    /\ blk' = r.D
    /\ content' = [content EXCEPT ![i] = <<>>]
    /\ dinode' = [dinode EXCEPT ![i] = d]
    /\ icache' = [icache EXCEPT ![i].d = d]
    /\ Become(p, [th[p] EXCEPT !.pc = "freed"])
    /\ UNCHANGED <<file, ofile, cwd>>

PutUnlock(p) == LET i == th[p].put IN
    /\ th[p].pc = "freed"
    /\ icache' = [icache EXCEPT ![i].valid = FALSE, ![i].lock = Nobody]
    /\ Become(p, [th[p] EXCEPT !.pc = "deref"])
    /\ UNCHANGED <<disk, file, ofile, cwd>>

\* ref--, and the caller goes on.
PutDeref(p) ==
    LET t == th[p]
        u == [t EXCEPT !.put = 0, !.then = "user"]
    IN
    /\ t.pc = "deref" \/ (t.pc = "put" /\ ~Last(t.put))
    /\ icache' = [icache EXCEPT ![t.put].ref = @ - 1]
    /\ Become(p, CASE t.then = "putip" -> iput([u EXCEPT !.ip = 0], t.ip, "user")
                   [] t.then \in {"user", "chdir", "dead"} -> Idle
                   [] OTHER -> [u EXCEPT !.pc = t.then])
    /\ cwd' = CASE t.then = "chdir" -> [cwd EXCEPT ![p] = t.w]
                [] t.then = "dead"  -> [cwd EXCEPT ![p] = 0]
                [] OTHER -> cwd
    /\ UNCHANGED <<disk, file, ofile>>

-----------------------------------------------------------------------------
(* link() *)

\* namei(old) has returned: count the new link, then look for the new parent.
LinkIp(p) ==
    LET t == th[p]
        i == t.w
        d == [Loaded(i) EXCEPT !.nlink = @ + 1]
        j == From(p, t.c.new)
    IN
    /\ Named(p, "link") /\ ilock(i)
    /\ \/ /\ Loaded(i).type = "DIR"
          /\ icache' = [icache EXCEPT ![i] = With(@, Loaded(i), Nobody)]
          /\ Become(p, iput([t EXCEPT !.w = 0], i, "user"))
          /\ UNCHANGED dinode
       \/ /\ Loaded(i).type # "DIR"
          /\ dinode' = [dinode EXCEPT ![i] = d]
          /\ icache' = [[icache EXCEPT ![i] = With(@, d, Nobody)] EXCEPT ![j] = iget(@)]
          /\ Become(p, [t EXCEPT !.ip = i, !.w = j, !.path = t.c.new.elems])
    /\ UNCHANGED <<content, blk, file, ofile, cwd>>

\* nameiparent(new) has returned: add the entry.
LinkDp(p) ==
    LET t == th[p]
        i == t.dp
    IN
    /\ t.pc = "link" /\ ilock(i)
    /\ \E r \in {dirlink(blk, Loaded(i), content[i], Head(t.path), t.ip)} :
        /\ blk' = r.D
        /\ content' = [content EXCEPT ![i] = r.dir]
        /\ dinode' = [dinode EXCEPT ![i] = r.ip]
        /\ icache' = [icache EXCEPT ![i] = With(@, r.ip, Nobody)]
        /\ Become(p, iput([t EXCEPT !.dp = 0], i, IF r.ok THEN "putip" ELSE "linkbad"))
    /\ UNCHANGED <<file, ofile, cwd>>

\* Mutant of LinkBad: the count stays.
LinkBadKept(p) ==
    LET t == th[p]
        i == t.ip
        d == Loaded(i)
    IN
    /\ t.pc = "linkbad" /\ ilock(i)
    /\ dinode' = [dinode EXCEPT ![i] = d]
    /\ icache' = [icache EXCEPT ![i] = With(@, d, Nobody)]
    /\ Become(p, iput([t EXCEPT !.ip = 0], i, "user"))
    /\ UNCHANGED <<content, blk, file, ofile, cwd>>

\* bad: the link is not counted after all.
LinkBad(p) ==
    LET t == th[p]
        i == t.ip
        d == [Loaded(i) EXCEPT !.nlink = @ - 1]
    IN
    /\ t.pc = "linkbad" /\ ilock(i)
    /\ dinode' = [dinode EXCEPT ![i] = d]
    /\ icache' = [icache EXCEPT ![i] = With(@, d, Nobody)]
    /\ Become(p, iput([t EXCEPT !.ip = 0], i, "user"))
    /\ UNCHANGED <<content, blk, file, ofile, cwd>>

-----------------------------------------------------------------------------
(* unlink() *)

\* Mutant of Refused: only "." cannot be unlinked.
RefusedDot(name) == name = "."

\* The names that cannot be unlinked.
Refused(name) == name \in {".", ".."}

\* Lock the parent and find the entry; dp stays locked while ip is locked.
UnlinkDp(p) ==
    LET t == th[p]
        i == t.dp
        d == Loaded(i)
        n == dirlookup(content[i], Head(t.path))
    IN
    /\ t.pc = "unlink" /\ ilock(i)
    /\ \/ /\ Refused(Head(t.path)) \/ n = 0
          /\ icache' = [icache EXCEPT ![i] = With(@, d, Nobody)]
          /\ Become(p, iput([t EXCEPT !.dp = 0], i, "user"))
       \/ /\ ~Refused(Head(t.path)) /\ n # 0
          /\ icache' = [[icache EXCEPT ![i] = With(@, d, p)] EXCEPT ![n] = iget(@)]
          /\ Become(p, [t EXCEPT !.pc = "unlinkip", !.ip = n])
    /\ UNCHANGED <<disk, file, ofile, cwd>>

\* A directory that unlink() leaves alone.
InUse(d, dir) == d.type = "DIR" /\ ~isdirempty(dir)

\* Lock the inode; unless it is a directory in use, clear the entry and put dp.
UnlinkIp(p) ==
    LET t == th[p]
        i == t.ip
        j == t.dp
        d == Loaded(i)
        e == LeastOf(Where(content[j], Head(t.path)))
    IN
    /\ t.pc = "unlinkip" /\ ilock(i) /\ d.nlink >= 1
    /\ \/ /\ InUse(d, content[i])
          /\ icache' = [icache EXCEPT ![i] = With(@, d, Nobody)]
          /\ Become(p, iput([t EXCEPT !.ip = 0], i, "bad"))
          /\ UNCHANGED disk
       \/ /\ ~InUse(d, content[i])
          /\ \E r \in {writei(blk, icache[j].d, e - 1, 1, 1)} :
               \E u \in {[r.ip EXCEPT !.nlink = IF d.type = "DIR" THEN @ - 1 ELSE @]} :
               /\ r.tot = 1
               /\ blk' = r.D
               /\ dinode' = [dinode EXCEPT ![j] = u]
               /\ icache' = [icache EXCEPT ![i] = With(@, d, p), ![j] = With(@, u, Nobody)]
          /\ content' = [content EXCEPT ![j][e] = Empty]
          /\ Become(p, iput([t EXCEPT !.dp = 0], j, "unlinked"))
    /\ UNCHANGED <<file, ofile, cwd>>

\* Mutant of Unlinked: the count is not written to the disk.
UnlinkedStale(p) ==
    LET t == th[p]
        i == t.ip
        d == [icache[i].d EXCEPT !.nlink = @ - 1]
    IN
    /\ t.pc = "unlinked"
    /\ icache' = [icache EXCEPT ![i] = With(@, d, Nobody)]
    /\ Become(p, iput([t EXCEPT !.ip = 0], i, "user"))
    /\ UNCHANGED <<disk, file, ofile, cwd>>

\* Uncount the link and put ip.
Unlinked(p) ==
    LET t == th[p]
        i == t.ip
        d == [icache[i].d EXCEPT !.nlink = @ - 1]
    IN
    /\ t.pc = "unlinked"
    /\ dinode' = [dinode EXCEPT ![i] = d]
    /\ icache' = [icache EXCEPT ![i] = With(@, d, Nobody)]
    /\ Become(p, iput([t EXCEPT !.ip = 0], i, "user"))
    /\ UNCHANGED <<content, blk, file, ofile, cwd>>

\* bad: of unlink and fail: of create, after iunlockput(ip): iunlockput(dp).
Bad(p) == LET i == th[p].dp IN
    /\ th[p].pc = "bad"
    /\ icache' = [icache EXCEPT ![i].lock = Nobody]
    /\ Become(p, iput([th[p] EXCEPT !.dp = 0], i, "user"))
    /\ UNCHANGED <<disk, file, ofile, cwd>>

-----------------------------------------------------------------------------
(* open(), mkdir() and mknod(): create() *)

\* Lock the parent; the name is there, or an inode is allocated for it while
\* the parent stays locked.
CreateDp(p) ==
    LET t == th[p]
        i == t.dp
        d == Loaded(i)
        n == dirlookup(content[i], Head(t.path))
        a == ialloc
    IN
    /\ t.pc = "create" /\ ilock(i)
    /\ \/ /\ n # 0
          /\ icache' = [[icache EXCEPT ![i] = With(@, d, Nobody)] EXCEPT ![n] = iget(@)]
          /\ Become(p, iput([t EXCEPT !.dp = 0, !.ip = n], i, "found"))
          /\ UNCHANGED dinode
       \/ /\ n = 0 /\ a = 0
          /\ icache' = [icache EXCEPT ![i] = With(@, d, Nobody)]
          /\ Become(p, iput([t EXCEPT !.dp = 0], i, "user"))
          /\ UNCHANGED dinode
       \/ /\ n = 0 /\ a # 0
          /\ dinode' = [dinode EXCEPT ![a] = [FreeInode EXCEPT !.type = t.c.type]]
          /\ icache' = [icache EXCEPT ![i] = With(@, d, p), ![a] = iget(@)]
          /\ Become(p, [t EXCEPT !.pc = "createip", !.ip = a])
    /\ UNCHANGED <<content, blk, file, ofile, cwd>>

\* The dirlink() calls of create(), each only when the ones before succeeded, on
\* a record of the disk, the new inode ip with its entries, and the parent dp:
\* "." and ".." in a new directory...
linkOwn(s, name, inum) ==
    IF ~s.ok THEN s
    ELSE LET r == dirlink(s.D, s.ip, s.dir, name, inum)
         IN  [s EXCEPT !.ok = r.ok, !.D = r.D, !.ip = r.ip, !.dir = r.dir]

\* ...then the name in the parent...
linkParent(s, name, inum) ==
    IF ~s.ok THEN s
    ELSE LET r == dirlink(s.D, s.dp, s.pdir, name, inum)
         IN  [s EXCEPT !.ok = r.ok, !.D = r.D, !.dp = r.ip, !.pdir = r.dir]

\* ...and the link counts: the ".." of a new directory, or none after a failure.
linkCounts(s, type) ==
    IF ~s.ok THEN [s EXCEPT !.ip.nlink = 0]
    ELSE IF type = "DIR" THEN [s EXCEPT !.dp.nlink = @ + 1] ELSE s

\* Lock the new inode and enter it.  On success the parent is unlocked and put
\* and ip stays locked; else ip loses its link and is put before the parent.
CreateIp(p) ==
    LET t == th[p]
        i == t.ip
        j == t.dp
        s == [ok |-> TRUE, D |-> blk, ip |-> [Loaded(i) EXCEPT !.nlink = 1],
              dir |-> content[i], dp |-> icache[j].d, pdir |-> content[j]]
        own == IF t.c.type = "DIR" THEN linkOwn(linkOwn(s, ".", i), "..", j) ELSE s
    IN
    /\ t.pc = "createip" /\ ilock(i)
    /\ \E r \in {linkCounts(linkParent(own, Head(t.path), i), t.c.type)} :
        /\ blk' = r.D
        /\ content' = [content EXCEPT ![i] = r.dir, ![j] = r.pdir]
        /\ dinode' = [dinode EXCEPT ![i] = r.ip, ![j] = r.dp]
        /\ icache' = [icache EXCEPT ![i] = With(@, r.ip, IF r.ok THEN p ELSE Nobody),
                                    ![j] = With(@, r.dp, IF r.ok THEN Nobody ELSE p)]
        /\ Become(p, IF r.ok THEN iput([t EXCEPT !.dp = 0], j, "created")
                             ELSE iput([t EXCEPT !.ip = 0], i, "bad"))
    /\ UNCHANGED <<file, ofile, cwd>>

\* A mode of open() is a set of flags (kernel/fcntl.h); O_RDONLY is none of them.
RDONLY == {}

\* sys_open() from the check of the device on, with inode i locked and equal to d.
Opened(p, i, d) ==
    LET c  == th[p].c
        fs == {f \in Files : file[f].ref = 0}
        ds == {k \in FDs : ofile[p][k] = 0}
        r  == itrunc(blk, d)
        cut == "TRUNC" \in c.mode /\ d.type = "FILE"
    IN
    \/ /\ d.type = "BADDEV" \/ fs = {} \/ ds = {}
       /\ icache' = [icache EXCEPT ![i] = With(@, d, Nobody)]
       /\ Become(p, iput([th[p] EXCEPT !.w = 0, !.ip = 0], i, "user"))
       /\ UNCHANGED <<disk, file, ofile>>
    \/ /\ d.type # "BADDEV" /\ fs # {} /\ ds # {}
       /\ file' = [file EXCEPT ![LeastOf(fs)] =
                     [ref |-> 1, type |-> IF d.type = "DEVICE" THEN "DEVICE" ELSE "INODE",
                      ip |-> i, off |-> 0, r |-> "WRONLY" \notin c.mode,
                      w |-> c.mode \cap {"WRONLY", "RDWR"} # {}]]
       /\ ofile' = [ofile EXCEPT ![p][LeastOf(ds)] = LeastOf(fs)]
       /\ icache' = [icache EXCEPT ![i] = With(@, IF cut THEN r.ip ELSE d, Nobody)]
       /\ IF cut THEN blk' = r.D /\ dinode' = [dinode EXCEPT ![i] = r.ip]
                 ELSE UNCHANGED <<blk, dinode>>
       /\ Become(p, Idle)
       /\ UNCHANGED content

\* create() found the name: a file or device will do for open(O_CREATE) only.
Found(p) ==
    LET i == th[p].ip
        d == Loaded(i)
        fits == th[p].c.type = "FILE" /\ d.type # "DIR"
    IN
    /\ th[p].pc = "found" /\ ilock(i)
    /\ \/ fits /\ Opened(p, i, d)
       \/ /\ ~fits
          /\ icache' = [icache EXCEPT ![i] = With(@, d, Nobody)]
          /\ Become(p, iput([th[p] EXCEPT !.ip = 0], i, "user"))
          /\ UNCHANGED <<disk, file, ofile>>
    /\ UNCHANGED cwd

\* create() returned a new inode: open() goes on, mkdir() and mknod() put it.
Created(p) == LET i == th[p].ip IN
    /\ th[p].pc = "created"
    /\ \/ th[p].c.type = "FILE" /\ Opened(p, i, icache[i].d)
       \/ /\ th[p].c.type # "FILE"
          /\ icache' = [icache EXCEPT ![i].lock = Nobody]
          /\ Become(p, iput([th[p] EXCEPT !.ip = 0], i, "user"))
          /\ UNCHANGED <<disk, file, ofile>>
    /\ UNCHANGED cwd

\* open() without O_CREATE: a directory can only be opened for reading.
Open(p) ==
    LET i == th[p].w
        d == Loaded(i)
        dirWrite == d.type = "DIR" /\ th[p].c.mode # RDONLY
    IN
    /\ Named(p, "open") /\ ilock(i)
    /\ \/ ~dirWrite /\ Opened(p, i, d)
       \/ /\ dirWrite
          /\ icache' = [icache EXCEPT ![i] = With(@, d, Nobody)]
          /\ Become(p, iput([th[p] EXCEPT !.w = 0], i, "user"))
          /\ UNCHANGED <<disk, file, ofile>>
    /\ UNCHANGED cwd

-----------------------------------------------------------------------------
(* chdir() and exec() *)

\* The old directory is put before cwd is assigned (PutDeref).
Chdir(p) ==
    LET t == th[p]
        i == t.w
    IN
    /\ Named(p, "chdir") /\ ilock(i)
    /\ icache' = [icache EXCEPT ![i] = With(@, Loaded(i), Nobody)]
    /\ Become(p, IF Loaded(i).type # "DIR" THEN iput([t EXCEPT !.w = 0], i, "user")
                                           ELSE iput(t, cwd[p], "chdir"))
    /\ UNCHANGED <<disk, file, ofile, cwd>>

\* exec() reads the program with the inode locked.
Exec(p) == LET i == th[p].w IN
    /\ Named(p, "exec") /\ ilock(i)
    /\ icache' = [icache EXCEPT ![i] = With(@, Loaded(i), Nobody)]
    /\ Become(p, iput([th[p] EXCEPT !.w = 0], i, "user"))
    /\ UNCHANGED <<disk, file, ofile, cwd>>

-----------------------------------------------------------------------------
(* Calls on open files *)

\* fileclose(ofile[k]), after which the thread is at q: the slot of the ftable
\* is free before the inode is put.
fileclose(p, k, q) == LET f == ofile[p][k] IN
    /\ ofile' = [ofile EXCEPT ![p][k] = 0]
    /\ \/ /\ file[f].ref > 1
          /\ file' = [file EXCEPT ![f].ref = @ - 1]
          /\ Become(p, [Idle EXCEPT !.pc = q])
       \/ /\ file[f].ref = 1
          /\ file' = [file EXCEPT ![f] = NoFile]
          /\ Become(p, iput(Idle, file[f].ip, q))
    /\ UNCHANGED <<disk, icache, cwd>>

Close(p) == \E k \in FDs : ofile[p][k] # 0 /\ fileclose(p, k, "user")

Dup(p) == \E k \in FDs :
    LET f  == ofile[p][k]
        ds == {j \in FDs : ofile[p][j] = 0}
    IN
    /\ f # 0 /\ ds # {}
    /\ ofile' = [ofile EXCEPT ![p][LeastOf(ds)] = f]
    /\ file' = [file EXCEPT ![f].ref = @ + 1]
    /\ UNCHANGED <<disk, icache, cwd, th>>

\* filestat(): only reads, but may load the inode.
Stat(p) == \E k \in FDs :
    LET i == file[ofile[p][k]].ip IN
    /\ ofile[p][k] # 0 /\ ilock(i)
    /\ icache' = [icache EXCEPT ![i] = With(@, Loaded(i), Nobody)]
    /\ UNCHANGED <<disk, file, ofile, cwd, th>>

\* fileread() of an inode, where the user's buffer has room for lim units.
Read(p) == \E k \in FDs, n \in Counts : \E lim \in {0, n} :
    LET f == ofile[p][k]
        i == file[f].ip
    IN
    /\ f # 0 /\ file[f].r /\ file[f].type = "INODE" /\ ilock(i)
    /\ \E r \in {readi(blk, Loaded(i), file[f].off, n, lim)} :
        /\ blk' = r.D
        /\ icache' = [icache EXCEPT ![i] = With(@, r.ip, Nobody)]
        /\ file' = [file EXCEPT ![f].off = IF r.tot > 0 THEN @ + r.tot ELSE @]
    /\ UNCHANGED <<dinode, content, ofile, cwd, th>>

\* filewrite() of an inode...
Write(p) == \E k \in FDs, n \in Counts :
    LET f == ofile[p][k] IN
    /\ f # 0 /\ file[f].w /\ file[f].type = "INODE"
    /\ Become(p, [Idle EXCEPT !.pc = "write", !.f = f, !.n = n])
    /\ UNCHANGED <<disk, icache, file, ofile, cwd>>

\* ...a transaction for each MAXWRITE units.
WriteChunk(p) == \E lim \in {0, MAXWRITE} :
    LET t == th[p]
        i == file[t.f].ip
        n == Least(t.n, MAXWRITE)
    IN
    /\ t.pc = "write" /\ ilock(i)
    /\ \E r \in {writei(blk, Loaded(i), file[t.f].off, n, lim)} :
        /\ blk' = r.D
        /\ dinode' = [dinode EXCEPT ![i] = r.ip]
        /\ icache' = [icache EXCEPT ![i] = With(@, r.ip, Nobody)]
        /\ file' = [file EXCEPT ![t.f].off = IF r.tot > 0 THEN @ + r.tot ELSE @]
        /\ Become(p, IF r.tot # n \/ t.n = n THEN Idle ELSE [t EXCEPT !.n = @ - n])
    /\ UNCHANGED <<content, ofile, cwd>>

-----------------------------------------------------------------------------
(* fork() and exit(), what they do to files *)

\* How many of the descriptors of p are the file f.
Uses(p, f) == Cardinality({k \in FDs : ofile[p][k] = f})

Fork(p) == \E q \in Procs :
    /\ cwd[q] = 0
    /\ ofile' = [ofile EXCEPT ![q] = ofile[p]]
    /\ file' = [f \in Files |-> [file[f] EXCEPT !.ref = @ + Uses(p, f)]]
    /\ cwd' = [cwd EXCEPT ![q] = cwd[p]]
    /\ icache' = [icache EXCEPT ![cwd[p]] = iget(@)]
    /\ UNCHANGED <<disk, th>>

Exit(p) ==
    /\ Become(p, [Idle EXCEPT !.pc = "exit"])
    /\ UNCHANGED <<disk, icache, file, ofile, cwd>>

\* exit() closes the files in order, then puts the current directory.
ExitClose(p) == LET open == {k \in FDs : ofile[p][k] # 0} IN
    /\ th[p].pc = "exit"
    /\ \/ open # {} /\ fileclose(p, LeastOf(open), "exit")
       \/ /\ open = {}
          /\ Become(p, iput(Idle, cwd[p], "dead"))
          /\ UNCHANGED <<disk, icache, file, ofile, cwd>>

-----------------------------------------------------------------------------
\* A process in user space makes a call.
NewCall(p) ==
    /\ ~panicked /\ th[p].pc = "user" /\ cwd[p] # 0 /\ calls < MaxCalls
    /\ calls' = calls + 1
    /\ \/ Call(p) \/ Close(p) \/ Dup(p) \/ Stat(p) \/ Read(p) \/ Write(p)
       \/ Fork(p) \/ Exit(p)
    /\ UNCHANGED panicked

\* A process goes on in the kernel.
Step(p) ==
    /\ ~panicked
    /\ \/ Walk(p) \/ WalkNoName(p)
       \/ PutLast(p) \/ PutFree(p) \/ PutUnlock(p) \/ PutDeref(p)
       \/ LinkIp(p) \/ LinkDp(p) \/ LinkBad(p)
       \/ UnlinkDp(p) \/ UnlinkIp(p) \/ Unlinked(p) \/ Bad(p)
       \/ CreateDp(p) \/ CreateIp(p) \/ Found(p) \/ Created(p) \/ Open(p)
       \/ Chdir(p) \/ Exec(p) \/ WriteChunk(p) \/ ExitClose(p)
    /\ UNCHANGED <<calls, panicked>>

\* The inode the next step of p locks, if it locks one.
Locks(t) == CASE t.pc = "walk" /\ ~(t.path = <<>> /\ Par(t)) -> {t.w}
              [] t.pc \in {"link", "unlink", "create"}       -> {t.dp}
              [] t.pc \in {"linkbad", "unlinkip", "createip", "found"} -> {t.ip}
              [] t.pc = "write" -> {file[t.f].ip}
              [] OTHER -> {}

\* panic("ilock: no type"), panic("unlink: nlink < 1") and panic("unlink: writei").
Panics(t, d) ==
    \/ d.type = "FREE"
    \/ t.pc = "unlinkip" /\ d.nlink < 1
    \/ /\ t.pc = "unlinkip" /\ ~InUse(d, content[t.ip])
       /\ writei(blk, icache[t.dp].d, LeastOf(Where(content[t.dp], Head(t.path))) - 1, 1, 1).tot # 1

Panic(p) ==
    /\ ~panicked
    /\ \E i \in Locks(th[p]) : icache[i].lock = Nobody /\ Panics(th[p], Loaded(i))
    /\ panicked' = TRUE
    /\ UNCHANGED <<disk, icache, file, ofile, cwd, th, calls>>

\* Nothing is left to do: the bound on the calls is reached, or everyone has exited.
Halted ==
    /\ panicked \/ \A p \in Procs : th[p].pc = "user" /\ (cwd[p] = 0 \/ calls = MaxCalls)
    /\ UNCHANGED vars

Next == Halted \/ \E p \in Procs : NewCall(p) \/ Step(p) \/ Panic(p)

Spec == Init /\ [][Next]_vars

-----------------------------------------------------------------------------
(* Properties *)

Owned(i) == Direct(dinode[i]) \cup Indirect(blk, dinode[i])

\* Block k of the inode has an address.
Mapped(d, k) == IF k < NDIRECT THEN d.addrs[k] # 0
                ELSE d.addrs[NDIRECT] # 0 /\ blk.ind[d.addrs[NDIRECT]][k - NDIRECT] # 0

\* fs.c balloc/bfree/bmap/itrunc: whatever order the calls of the processes take,
\* a block is marked in the bitmap exactly when one inode uses it, no block has
\* two users, and a file has a block for each of its units: bfree() never
\* frees a free block and readi() never allocates one.  The size of a directory
\* is the number of its entries.
BlocksExact ==
    /\ blk.bitmap = UNION {Owned(i) : i \in Inums}
    /\ \A i, j \in Inums : i # j => Owned(i) \cap Owned(j) = {}
    /\ \A i \in Inums : \A k \in 0..(MAXFILE - 1) :
         dinode[i].size > k * BSIZE => Mapped(dinode[i], k)
    /\ \A i \in Inums : Len(content[i]) = IF dinode[i].type = "DIR" THEN dinode[i].size ELSE 0

\* Pointers of thread t to inode i; the current directory that chdir() and
\* exit() are putting is counted as cwd.
PointersOf(t, i) ==
    Cardinality({x \in {"w", "dp", "ip"} : t[x] = i})
      + IF t.put = i /\ t.then \notin {"chdir", "dead"} THEN 1 ELSE 0

Pointers(i) ==
    Cardinality({p \in Procs : cwd[p] = i}) + Cardinality({f \in Files : file[f].ip = i})
      + FoldSet(LAMBDA p, n : n + PointersOf(th[p], i), 0, Procs)

\* iget/idup/iput: in every state ip->ref is the number of pointers to the
\* inode (open files, current directories, the calls under way), and f->ref is
\* the number of descriptors: an inode is never recycled under a user, nor kept
\* for ever.
RefsExact ==
    /\ \A i \in Inums : icache[i].ref = Pointers(i)
    /\ \A f \in Files : file[f].ref = FoldSet(LAMBDA p, n : n + Uses(p, f), 0, Procs)

\* iupdate(): what the next process to lock an inode reads in memory is what is
\* on the disk; no call leaves a change in memory only.
Coherent == \A i \in Inums :
    icache[i].ref > 0 /\ icache[i].valid /\ icache[i].lock = Nobody => icache[i].d = dinode[i]

\* The inode table and the file table are exact.
TablesExact == RefsExact /\ Coherent

\* iput(): "ref == 1 means no other process can have ip locked, so this
\* acquiresleep() won't block (or deadlock)" (fs.c:344); it would block with
\* itable.lock held.
PutNeverBlocks == \A p \in Procs :
    th[p].pc = "put" /\ Last(th[p].put) => icache[th[p].put].lock = Nobody

\* The entries of directory d, other than its own two.
Given(d) == {k \in 1..Len(content[d]) : content[d][k].inum # 0 /\ content[d][k].name \notin {".", ".."}}

Kids(i) == {content[i][k].inum : k \in Given(i)}

\* The inodes that have a path name.
WithKids(S) == S \cup UNION {Kids(i) : i \in S}
Tree == LET reach[n \in 0..NINODES] == IF n = 0 THEN {ROOT} ELSE WithKids(reach[n - 1])
        IN  reach[NINODES - 1]

\* The entries, other than ".", of the directories in T that name i.
Names(T, i) == {e \in T \X (1..(MAXFILE * BSIZE)) :
                  /\ e[2] \in DOMAIN content[e[1]]
                  /\ content[e[1]][e[2]].inum = i /\ content[e[1]][e[2]].name # "."}

\* create/link/unlink: what has a path name is allocated and has no fewer links
\* than names, names within a directory are distinct, and a directory has one
\* parent, which its ".." names.
TreeSound == LET T == Tree IN
    /\ \A i \in T : dinode[i].type # "FREE" /\ dinode[i].nlink >= Cardinality(Names(T, i))
    /\ \A i \in T : \A k \in 1..Len(content[i]) :
         content[i][k].inum # 0 => Cardinality(Where(content[i], content[i][k].name)) = 1
    /\ \A i \in T : dinode[i].type = "DIR" =>
         /\ dirlookup(content[i], ".") = i
         /\ {j \in T : i \in Kids(j)} = IF i = ROOT THEN {} ELSE {dirlookup(content[i], "..")}

\* What directory d gives to the link count of i: an entry is a link to its inode, and
\* the ".." of a directory entered in d is a link to d.
LinksFrom(d, i) ==
    Cardinality({k \in Given(d) : content[d][k].inum = i})
      + IF d = i THEN Cardinality({k \in Given(d) : dinode[content[d][k].inum].type = "DIR"}) ELSE 0

\* link() counts before it enters, and unlink() uncounts after it cleared the entry.
Pending(t, i) == /\ t.ip = i
                 /\ \/ t.c.op = "link" /\ t.then # "putip"
                    \/ t.c.op = "unlink" /\ "unlinked" \in {t.pc, t.then}

\* The links of i on the disk that no entry and no call under way accounts for; the
\* root counts itself.
Unaccounted(i) ==
    dinode[i].nlink - FoldSet(LAMBDA d, n : n + LinksFrom(d, i), 0, Inums)
      - Cardinality({p \in Procs : Pending(th[p], i)}) - IF i = ROOT THEN 1 ELSE 0

\* link/unlink/create: through every interleaving and every failure of the calls, the
\* link count of each inode on the disk is the number of its entries.  There is one way
\* to lose a link: create() and link() do not see that their directory was
\* removed after they had looked it up, or while it was the current directory, and
\* what they enter goes when iput() frees that directory.
LinksExact ==
    /\ \A i \in Inums : Unaccounted(i) = 0
    /\ [][\A i \in Inums : \/ Unaccounted(i)' = Unaccounted(i)
                           \/ \E d \in Inums : /\ dinode[d].type = "DIR" /\ dinode'[d].type = "FREE"
                                               /\ i \in Kids(d)]_vars

\* iput(): "if that was the last reference and the inode has no links to it,
\* free the inode (and its content) on disk" (fs.c:332): an allocated inode
\* without links still has a user.
FreedWhenUnused == \A i \in Inums :
    dinode[i].type # "FREE" /\ dinode[i].nlink = 0 => icache[i].ref > 0

\* p waits for an inode that a process of S has locked.
WaitsFor(p, S) == \E i \in Locks(th[p]) : icache[i].lock \in S

\* ilock(): create() and unlink() lock an entry while they hold its directory,
\* and iput() locks within any call, yet processes never wait for each other in
\* a circle, and a process that has left the kernel holds no inode: with the
\* deadlock check, every call returns.
NoCircle ==
    /\ \A S \in SUBSET Procs \ {{}} : \E p \in S : ~WaitsFor(p, S)
    /\ \A i \in Inums : icache[i].lock # Nobody => th[icache[i].lock].pc # "user"

\* The two claims on inode locks together: an iput() never waits for a lock with
\* itable.lock held, and nobody waits for an inode in a circle or for ever.
LocksSound == PutNeverBlocks /\ NoCircle

=============================================================================
