------------------------------- MODULE Memory -------------------------------
(***************************************************************************)
(* Physical pages and the page tables of processes: kernel/kalloc.c, vm.c,  *)
(* exec.c and the memory side of fork, sbrk, exit and wait in proc.c.       *)
(*                                                                         *)
(* A place is a pointer of the kernel that can hold a page: a trapframe, the *)
(* root, an inner page or a leaf of a page table, the local variable mem,   *)
(* an argument of exec.  own says which page each place holds, 0 if none.   *)
(* A process has two page tables: the one it runs on and the one exec() is  *)
(* building; cur says which is which.  Pages of virtual addresses are       *)
(* numbered from 0; a size is in units, PGSIZE to a page.                   *)
(*                                                                         *)
(* One kalloc() is one step and may find the free list empty.  kfree() calls *)
(* in a row, between which a call does nothing that another process sees,   *)
(* are one step.  The page of an alarm is in Alarm, a pipe's in Pipe.       *)
(***************************************************************************)
EXTENDS Integers, FiniteSets

CONSTANTS
    Frames,         \* the pages of physical memory after the kernel
    Procs, Init0,   \* process slots, and the slot of the first process
    PGSIZE,         \* units in a page
    RADIX,          \* entries of an inner page-table page (512 in Sv39)
    MAXPAGE,        \* pages below MAXVA
    MAXARG,         \* argument pages exec() may need
    MaxSz,          \* bound on the size of a process: memory is exhausted first
    Sizes,          \* the sizes a program header may ask for
    Steps,          \* the amounts sbrk() is called with
    Boot,           \* the pages userinit() was given, by place
    Held,           \* the sets of pages the rest of the kernel may hold
    MaxCalls        \* bound on the calls made

VARIABLES
    own,            \* the page each place holds
    free,           \* the pages on kmem.freelist
    fixed,          \* <<q, t, v>>: TRAMPOLINE or TRAPFRAME is mapped in a table
    guards,         \* <<q, t, v>>: a page mapped without PTE_U, under a stack
    state,          \* of each slot: unused, used, live, zombie
    sz, cur,        \* size of each process and its current table
    th,             \* what each process does in the kernel
    held,           \* the pages the rest of the kernel holds
    calls,          \* calls made
    panicked        \* a panic of vm.c has been reached

vars == <<own, free, fixed, guards, state, sz, cur, th, held, calls, panicked>>

TRAMPOLINE == MAXPAGE - 1
TRAPFRAME  == MAXPAGE - 2
UserPages  == 0..(MAXPAGE - 3)
\* Pages of a size: PGROUNDUP(s) / PGSIZE.
Pages(s) == (s + PGSIZE - 1) \div PGSIZE

-----------------------------------------------------------------------------
(* Places *)

Tf(q)         == <<q, 0, "tf", 0>>
Mem(p)        == <<p, 0, "mem", 0>>
Arg(p, k)     == <<p, 0, "arg", k>>
Args(p)       == {Arg(p, k) : k \in 1..MAXARG}
Root(q, t)    == <<q, t, "root", 0>>
Mid(q, t, v)  == <<q, t, "mid", v \div (RADIX * RADIX)>>   \* walk(): level 2 -> 1
Low(q, t, v)  == <<q, t, "low", v \div RADIX>>             \* walk(): level 1 -> 0
Leaf(q, t, v) == <<q, t, "leaf", v>>

Leaves(q, t, lo, hi) == {Leaf(q, t, v) : v \in {u \in UserPages : lo <= u /\ u < hi}}
Inner(q, t) == {Root(q, t)} \cup {Mid(q, t, v) : v \in 0..(MAXPAGE - 1)}
                            \cup {Low(q, t, v) : v \in 0..(MAXPAGE - 1)}
Table(q, t) == Inner(q, t) \cup Leaves(q, t, 0, MAXPAGE)
Places == UNION {{Tf(q), Mem(q)} \cup Args(q) \cup Table(q, 1) \cup Table(q, 2) : q \in Procs}

\* The places that hold a page.
InUse == {x \in Places : own[x] # 0}

\* The user pages mapped in a table.
Mapped(q, t) == {v \in UserPages : own[Leaf(q, t, v)] # 0}

-----------------------------------------------------------------------------
(* kalloc() and kfree() *)

\* kalloc() into place x.
Take(x) == \E f \in free :
    /\ \A g \in free : f <= g       \* which page it is makes no difference
    /\ own' = [own EXCEPT ![x] = f]
    /\ free' = free \ {f}
    /\ UNCHANGED guards

\* Mutant of Give: the pages are freed and the pointers kept.
GiveKeeps(S) ==
    /\ free' = free \cup {own[x] : x \in S \cap InUse}
    /\ UNCHANGED <<own, guards>>

\* kfree() of what the places of S hold, and the pointers are cleared.
Give(S) ==
    /\ own' = [x \in Places |-> IF x \in S THEN 0 ELSE own[x]]
    /\ free' = free \cup {own[x] : x \in S \cap InUse}
    /\ guards' = {g \in guards : Leaf(g[1], g[2], g[3]) \notin S}

\* The page held in x moves to y.
Move(x, y) ==
    /\ own' = [own EXCEPT ![x] = 0, ![y] = own[x]]
    /\ UNCHANGED free

-----------------------------------------------------------------------------
(* A thread: pc; op, the caller of the loop it is in; the slot q and table t it
   works on; v, the page it is at, of base..end; size, of the table it builds; n,
   the size it will have after the loop, or the arguments copied. *)

Idle == [pc |-> "user", op |-> "none", q |-> 0, t |-> 0, v |-> 0, base |-> 0, end |-> 0,
         size |-> 0, n |-> 0]

Become(p, t) == th' = [th EXCEPT ![p] = t]

\* The first process: trapframe, page table and one page (userinit, uvmfirst).
First == {Tf(Init0), Root(Init0, 1), Leaf(Init0, 1, 0)}
           \cup {Mid(Init0, 1, v) : v \in {0, TRAPFRAME, TRAMPOLINE}}
           \cup {Low(Init0, 1, v) : v \in {0, TRAPFRAME, TRAMPOLINE}}

ASSUME MemoryAssumption ==
    /\ 0 \notin Frames /\ Init0 \in Procs
    /\ PGSIZE \in Nat \ {0} /\ RADIX \in Nat \ {0} /\ MAXPAGE \in Nat /\ MAXPAGE > 2
    /\ MAXARG \in Nat /\ MaxSz \in Nat /\ Sizes \subseteq Nat /\ Steps \subseteq Nat \ {0}
    /\ Boot \in [First -> Frames] /\ \A x, y \in First : Boot[x] = Boot[y] => x = y
    /\ \A h \in Held : h \subseteq Frames /\ \A x \in First : Boot[x] \notin h

\* The largest process, with the stack exec() adds, ends below the trapframe:
\* there is far less physical memory than there are addresses.
ASSUME RoomAssumption == Pages(MaxSz) + 2 <= TRAPFRAME

Init ==
    /\ held \in Held
    /\ own = [x \in Places |-> IF x \in First THEN Boot[x] ELSE 0]
    /\ free = Frames \ (held \cup {Boot[x] : x \in First})
    /\ fixed = {<<Init0, 1, TRAMPOLINE>>, <<Init0, 1, TRAPFRAME>>} /\ guards = {}
    /\ state = [q \in Procs |-> IF q = Init0 THEN "live" ELSE "unused"]
    /\ sz = [q \in Procs |-> IF q = Init0 THEN PGSIZE ELSE 0]
    /\ cur = [q \in Procs |-> 1]
    /\ th = [p \in Procs |-> Idle]
    /\ calls = 0
    /\ panicked = FALSE

-----------------------------------------------------------------------------
(* Freeing a table *)

\* What proc_freepagetable(q's table t, size s) frees: the pages below s, then the
\* page-table pages (uvmfree, freewalk).
proc_freepagetable(q, t, s) == Leaves(q, t, 0, Pages(s)) \cup Inner(q, t)

Unfixed(q, t) == fixed \ {<<q, t, TRAMPOLINE>>, <<q, t, TRAPFRAME>>}

\* ...and when it does so without a panic: what uvmunmap() unmaps is mapped, and
\* freewalk() meets no leaf.
Whole(q, t, s) ==
    /\ Mapped(q, t) = {v \in UserPages : v < Pages(s)}
    /\ {<<q, t, TRAMPOLINE>>, <<q, t, TRAPFRAME>>} \subseteq fixed

-----------------------------------------------------------------------------
(* The calls *)

Calling(p) ==
    /\ ~panicked /\ state[p] = "live" /\ th[p] = Idle /\ calls < MaxCalls
    /\ calls' = calls + 1
    /\ UNCHANGED held

\* fork(): allocproc() finds a slot.
Fork(p) == \E q \in Procs :
    /\ Calling(p) /\ state[q] = "unused"
    /\ state' = [state EXCEPT ![q] = "used"]
    /\ Become(p, [Idle EXCEPT !.pc = "tf", !.op = "fork", !.q = q, !.t = 1])
    /\ UNCHANGED <<own, free, fixed, guards, sz, cur, panicked>>

\* sys_exec() with k arguments; exec() builds the other table.
Exec(p) == \E k \in 0..MAXARG :
    /\ Calling(p)
    /\ Become(p, [Idle EXCEPT !.pc = "arg", !.op = "seg", !.q = p, !.t = 3 - cur[p], !.end = k])
    /\ UNCHANGED <<own, free, fixed, guards, state, sz, cur, panicked>>

\* Mutant of uvmalloc: oldsz is rounded down.
uvmallocDown(t, op, old, new) ==
    [t EXCEPT !.pc = "page", !.op = op, !.v = old \div PGSIZE, !.base = old \div PGSIZE,
              !.end = Pages(new), !.size = old, !.n = new]

\* The loop of uvmalloc(old, new) in table t of q, with op its caller.
uvmalloc(t, op, old, new) ==
    [t EXCEPT !.pc = "page", !.op = op, !.v = Pages(old), !.base = Pages(old),
              !.end = Pages(new), !.size = old, !.n = new]

\* growproc(n) with n > 0.
SbrkGrow(p) == \E n \in Steps :
    /\ Calling(p) /\ sz[p] + n <= MaxSz
    /\ Become(p, uvmalloc([Idle EXCEPT !.q = p, !.t = cur[p]], "sbrk", sz[p], sz[p] + n))
    /\ UNCHANGED <<own, free, fixed, guards, state, sz, cur, panicked>>

\* growproc(-n): uvmdealloc().  A size that wraps below 0 is larger than the old
\* one, and nothing happens.
SbrkShrink(p) == \E n \in Steps :
    LET q == Pages(sz[p] - n) IN
    /\ Calling(p) /\ n <= sz[p]
    /\ Give(Leaves(p, cur[p], q, Pages(sz[p])))
    /\ panicked' = \E v \in UserPages \ Mapped(p, cur[p]) : q <= v /\ v < Pages(sz[p])
    /\ sz' = [sz EXCEPT ![p] = @ - n]
    /\ UNCHANGED <<fixed, state, cur, th>>

\* exit(): memory stays until the parent waits.
Exit(p) ==
    /\ Calling(p) /\ p # Init0
    /\ state' = [state EXCEPT ![p] = "zombie"]
    /\ UNCHANGED <<own, free, fixed, guards, sz, cur, th, panicked>>

\* wait(): freeproc() of a zombie.
Reap(q) ==
    /\ ~panicked /\ state[q] = "zombie"
    /\ Give({Tf(q)} \cup proc_freepagetable(q, cur[q], sz[q]))
    /\ fixed' = Unfixed(q, cur[q])
    /\ panicked' = ~Whole(q, cur[q], sz[q])
    /\ state' = [state EXCEPT ![q] = "unused"]
    /\ sz' = [sz EXCEPT ![q] = 0]
    /\ cur' = [cur EXCEPT ![q] = 1]
    /\ UNCHANGED <<th, held, calls>>

-----------------------------------------------------------------------------
(* Steps with a kalloc() *)

\* walk(alloc): the page-table pages missing on the way to page v, from the top.
Missing(q, t, v) == {x \in {Mid(q, t, v), Low(q, t, v)} : own[x] = 0}
NextNode(q, t, v) == IF own[Mid(q, t, v)] = 0 THEN Mid(q, t, v) ELSE Low(q, t, v)

\* The place the next kalloc() of p is for, if its next step has one.
Wants(p) ==
    LET t == th[p] IN
    CASE t.pc = "arg" /\ t.n < t.end  -> {Arg(p, t.n + 1)}
      [] t.pc = "tf"                  -> {Tf(t.q)}
      [] t.pc = "root"                -> {Root(t.q, t.t)}
      [] t.pc = "page" /\ t.v < t.end -> {Mem(p)}
      [] t.pc = "map" /\ Missing(t.q, t.t, t.v) # {} -> {NextNode(t.q, t.t, t.v)}
      [] OTHER -> {}

\* What p does after it.
Served(t) ==
    CASE t.pc = "arg"  -> [t EXCEPT !.n = @ + 1]
      [] t.pc = "tf"   -> [t EXCEPT !.pc = "root"]
      [] t.pc = "root" -> [t EXCEPT !.pc = "map", !.v = TRAMPOLINE]
      [] t.pc = "page" -> [t EXCEPT !.pc = "map"]
      [] OTHER -> t

\* uvmcopy() of a page the parent does not have.
NoSource(p) == th[p].op = "fork" /\ th[p].pc = "page" /\ th[p].v \notin Mapped(p, cur[p])

Kalloc(p) == \E x \in Wants(p) :
    /\ ~panicked
    /\ Take(x)
    /\ Become(p, Served(th[p]))
    /\ panicked' = NoSource(p)
    /\ UNCHANGED <<fixed, state, sz, cur, held, calls>>

\* Mutant of Undone: mappages() failed and the page in hand is not freed.
UndoneButMem(p) ==
    LET t == th[p] IN
    CASE t.pc \in {"arg", "tf", "root"} -> {}
      [] t.pc \in {"page", "map"} /\ t.v >= TRAPFRAME -> Inner(t.q, t.t)
      [] t.pc \in {"page", "map"} /\ t.op = "sbrk"    -> Leaves(t.q, t.t, t.base, t.v)
      [] OTHER -> Leaves(t.q, t.t, t.base, t.v) \cup proc_freepagetable(t.q, t.t, t.size)

\* What the function that ran out of memory undoes: proc_pagetable() while it maps
\* the trampoline and the trapframe, uvmalloc() and uvmcopy() the page in hand and
\* those mapped so far; fork() and exec() then free the table...
Undone(p) ==
    LET t == th[p]
        mapped == {Mem(p)} \cup Leaves(t.q, t.t, t.base, t.v)
    IN
    CASE t.pc \in {"arg", "tf", "root"} -> {}
      [] t.pc \in {"page", "map"} /\ t.v >= TRAPFRAME -> Inner(t.q, t.t)
      [] t.pc \in {"page", "map"} /\ t.op = "sbrk"    -> mapped
      [] OTHER -> mapped \cup proc_freepagetable(t.q, t.t, t.size)

\* ...and the trapframe, or the arguments.
CallersPages(p) ==
    CASE th[p].op = "fork" -> {Tf(th[p].q)}
      [] th[p].op \in {"seg", "stack"} -> Args(p)
      [] OTHER -> {}

Released(p) == IF th[p].op = "fork" THEN [state EXCEPT ![th[p].q] = "unused"] ELSE state

\* kalloc() returns 0, and the call fails.
OutOfMemory(p) == LET t == th[p] IN
    /\ ~panicked /\ Wants(p) # {} /\ free = {}
    /\ Give(Undone(p) \cup CallersPages(p))
    /\ fixed' = IF t.op = "sbrk" THEN fixed ELSE Unfixed(t.q, t.t)
    /\ panicked' = (NoSource(p) \/ (t.pc \in {"page", "map"} /\ Mapped(t.q, t.t) #
                                   {u \in UserPages : t.v < TRAPFRAME /\ u < t.v}))
    /\ state' = Released(p)
    /\ Become(p, Idle)
    /\ UNCHANGED <<sz, cur, held, calls>>

-----------------------------------------------------------------------------
(* Steps without one *)

\* mappages(): the page in hand becomes a leaf; uvmcopy() keeps the parent's flags.
MapPage(p) == LET t == th[p] IN
    /\ ~panicked /\ t.pc = "map" /\ t.v \in UserPages /\ Missing(t.q, t.t, t.v) = {}
    /\ Move(Mem(p), Leaf(t.q, t.t, t.v))
    /\ panicked' = (t.v \in Mapped(t.q, t.t))
    /\ guards' = IF t.op = "fork" /\ <<p, cur[p], t.v>> \in guards
                 THEN guards \cup {<<t.q, t.t, t.v>>} ELSE guards
    /\ Become(p, [t EXCEPT !.pc = "page", !.v = @ + 1])
    /\ UNCHANGED <<fixed, state, sz, cur, held, calls>>

\* proc_pagetable(): the trampoline, then the trapframe; then fork() copies the
\* parent's memory (uvmcopy) and exec() reads the program.
MapFixed(p) == LET t == th[p] IN
    /\ ~panicked /\ t.pc = "map" /\ t.v >= TRAPFRAME /\ Missing(t.q, t.t, t.v) = {}
    /\ fixed' = fixed \cup {<<t.q, t.t, t.v>>}
    /\ Become(p, CASE t.v = TRAMPOLINE -> [t EXCEPT !.v = TRAPFRAME]
                   [] t.v = TRAPFRAME /\ t.op = "fork" -> uvmalloc(t, "fork", 0, sz[p])
                   [] OTHER -> [t EXCEPT !.pc = "seg", !.v = 0, !.end = 0, !.n = 0])
    /\ UNCHANGED <<own, free, guards, state, sz, cur, held, calls, panicked>>

\* A loop over pages is done.
LoopDone(p, op) == ~panicked /\ th[p].pc = "page" /\ th[p].op = op /\ th[p].v >= th[p].end

ForkDone(p) == LET q == th[p].q IN
    /\ LoopDone(p, "fork")
    /\ state' = [state EXCEPT ![q] = "live"]
    /\ sz' = [sz EXCEPT ![q] = sz[p]]
    /\ Become(p, Idle)
    /\ UNCHANGED <<own, free, fixed, guards, cur, held, calls, panicked>>

SbrkDone(p) ==
    /\ LoopDone(p, "sbrk")
    /\ sz' = [sz EXCEPT ![p] = th[p].n]
    /\ Become(p, Idle)
    /\ UNCHANGED <<own, free, fixed, guards, state, cur, held, calls, panicked>>

-----------------------------------------------------------------------------
(* exec() *)

Quiet == UNCHANGED <<own, free, fixed, guards, state, sz, cur, held, calls, panicked>>

\* The arguments are copied and the file is found.
ExecStart(p) == LET t == th[p] IN
    /\ ~panicked /\ t.pc = "arg" /\ t.n = t.end
    /\ Become(p, [t EXCEPT !.pc = "root"])
    /\ Quiet

\* A program header; one that ends below the size so far allocates nothing.
ExecSeg(p) == \E new \in Sizes : LET t == th[p] IN
    /\ ~panicked /\ t.pc = "seg" /\ new > t.size /\ new <= MaxSz
    /\ Become(p, uvmalloc(t, "seg", t.size, new))
    /\ Quiet

ExecSegDone(p) == LET t == th[p] IN
    /\ LoopDone(p, "seg")
    /\ Become(p, [t EXCEPT !.pc = "seg", !.size = t.n, !.v = 0, !.base = 0, !.end = 0, !.n = 0])
    /\ Quiet

\* The stack and its guard: two pages from the next page boundary...
ExecStack(p) == LET top == Pages(th[p].size) * PGSIZE IN
    /\ ~panicked /\ th[p].pc = "seg"
    /\ Become(p, uvmalloc(th[p], "stack", top, top + 2 * PGSIZE))
    /\ Quiet

\* ...and uvmclear() takes the first of the two from the user.
ExecStackDone(p) == LET t == th[p] guard == t.end - 2 IN
    /\ LoopDone(p, "stack")
    /\ guards' = guards \cup {<<p, t.t, guard>>}
    /\ panicked' = (guard \notin Mapped(p, t.t))
    /\ Become(p, [t EXCEPT !.pc = "commit", !.size = t.n, !.v = 0, !.base = 0, !.end = 0])
    /\ UNCHANGED <<own, free, fixed, state, sz, cur, held, calls>>

\* Commit to the user image, free the old one and the arguments.
ExecCommit(p) == LET t == th[p] IN
    /\ ~panicked /\ t.pc = "commit"
    /\ Give(proc_freepagetable(p, cur[p], sz[p]) \cup Args(p))
    /\ fixed' = Unfixed(p, cur[p])
    /\ panicked' = ~Whole(p, cur[p], sz[p])
    /\ cur' = [cur EXCEPT ![p] = t.t]
    /\ sz' = [sz EXCEPT ![p] = t.size]
    /\ Become(p, Idle)
    /\ UNCHANGED <<state, held, calls>>

\* bad: an argument, the file, a segment or the stack will not do.
ExecBad(p) == LET t == th[p] IN
    /\ ~panicked /\ t.op \in {"seg", "stack"} /\ t.pc \in {"arg", "root", "seg", "commit"}
    /\ IF t.pc \in {"arg", "root"}
       THEN Give(Args(p)) /\ UNCHANGED <<fixed, panicked>>
       ELSE /\ Give(proc_freepagetable(p, t.t, t.size) \cup Args(p))
            /\ fixed' = Unfixed(p, t.t)
            /\ panicked' = ~Whole(p, t.t, t.size)
    /\ Become(p, Idle)
    /\ UNCHANGED <<state, sz, cur, held, calls>>

-----------------------------------------------------------------------------
Next == \E p \in Procs :
    \/ Fork(p) \/ Exec(p) \/ SbrkGrow(p) \/ SbrkShrink(p) \/ Exit(p) \/ Reap(p)
    \/ Kalloc(p) \/ OutOfMemory(p) \/ MapPage(p) \/ MapFixed(p) \/ ForkDone(p) \/ SbrkDone(p)
    \/ ExecStart(p) \/ ExecSeg(p) \/ ExecSegDone(p) \/ ExecStack(p) \/ ExecStackDone(p)
    \/ ExecCommit(p) \/ ExecBad(p)

Spec == Init /\ [][Next]_vars

-----------------------------------------------------------------------------
(* Properties *)

Owned == {own[x] : x \in InUse}

\* kalloc/kfree: whatever calls fail, in whatever order, a page is never in two
\* places at once, nor in use and free, nor in use by a process and by the rest of
\* the kernel: no process ever sees another's memory or page table.
NotShared ==
    /\ \A x, y \in InUse : own[x] = own[y] => x = y
    /\ Owned \cap free = {} /\ held \cap (Owned \cup free) = {}

\* Error paths of fork, exec, sbrk and wait: a page that no place holds is free.
NoneLost == Frames \subseteq Owned \cup free \cup held

\* vm.c: no panic ("uvmunmap: not mapped", "freewalk: leaf", "mappages: remap",
\* "uvmcopy: page not present", "uvmclear") is reached on any path, failures included.
NoPanic == ~panicked

-----------------------------------------------------------------------------
(* What keeps NoneLost and NoPanic, slot by slot and thread by thread *)

ThreadTypes ==
    [pc : {"user", "arg", "tf", "root", "map", "page", "seg", "commit"},
     op : {"none", "fork", "sbrk", "seg", "stack"}, q : Procs \cup {0}, t : 0..2,
     v : Nat, base : Nat, end : Nat, size : Nat, n : Nat]

\* Every variable has its type.
TypeOK ==
    /\ own \in [Places -> Frames \cup {0}] /\ free \subseteq Frames /\ held \subseteq Frames
    /\ state \in [Procs -> {"unused", "used", "live", "zombie"}]
    /\ sz \in [Procs -> Nat] /\ cur \in [Procs -> {1, 2}]
    /\ th \in [Procs -> ThreadTypes]
    /\ calls \in Nat /\ panicked \in BOOLEAN

Below(v) == {u \in UserPages : u < v}
Clear(q, t) == own[Root(q, t)] = 0 /\ Mapped(q, t) = {}
Fixed(q, t) == <<q, t, TRAMPOLINE>> \in fixed /\ <<q, t, TRAPFRAME>> \in fixed
InExec(t)   == t.op \in {"seg", "stack"}

\* Slot q, whose thread is t: only a live process is in the kernel, a process
\* that runs or has exited has exactly the pages of its size (sbrk() apart),
\* and what belongs to no call in progress is empty.
SlotKept(q, t) ==
    /\ state[q] # "live" => t = Idle
    /\ state[q] \in {"unused", "used"} => cur[q] = 1
    /\ Pages(sz[q]) <= TRAPFRAME
    /\ state[q] = "unused" => own[Tf(q)] = 0 /\ Clear(q, 1)
    /\ ~InExec(t) \/ t.pc \in {"arg", "root"} => Clear(q, 3 - cur[q])
    /\ state[q] \in {"live", "zombie"} =>
        Fixed(q, cur[q]) /\ (t.op # "sbrk" => Mapped(q, cur[q]) = Below(Pages(sz[q])))
    /\ own[Mem(q)] # 0 <=> t.pc = "map" /\ t.v < TRAPFRAME
    /\ \A k \in 1..MAXARG : own[Arg(q, k)] # 0 => InExec(t) /\ (t.pc = "arg" => k <= t.n)

\* The table that thread t of p works on: its own new one (exec), the current
\* one (sbrk), that of a slot nobody else uses (fork).
TableOwned(p, t) ==
    /\ t.op = "none" => t = Idle
    /\ InExec(t) => t.q = p /\ t.t = 3 - cur[p]
    /\ t.op = "sbrk" => t.q = p /\ t.t = cur[p] /\ t.pc \in {"page", "map"} /\ t.size = sz[p]
    /\ t.op = "fork" => /\ t.q \in Procs /\ state[t.q] = "used" /\ t.t = 1
                        /\ \A r \in Procs : th[r].op = "fork" /\ th[r].q = t.q => r = p

\* proc_pagetable() has mapped no page yet; a loop over pages has mapped those
\* below the one it is at, and began where the size it will restore ends.
InLoop(t) == t.pc = "page" \/ (t.pc = "map" /\ t.v < TRAPFRAME)
TableKept(p, t) ==
    /\ t.pc = "user" => t = Idle
    /\ t.pc = "arg" => t.op = "seg" /\ t.size = 0 /\ t.n <= t.end /\ t.end <= MAXARG
    /\ t.pc = "tf" => t.op = "fork" /\ t.size = 0 /\ own[Tf(t.q)] = 0 /\ Clear(t.q, t.t)
    /\ t.pc = "root" => t.op \in {"fork", "seg"} /\ t.size = 0 /\ Clear(t.q, t.t)
    /\ t.pc = "map" /\ t.v >= TRAPFRAME =>
        /\ t.op \in {"fork", "seg"} /\ t.size = 0 /\ t.v \in {TRAMPOLINE, TRAPFRAME}
        /\ Mapped(t.q, t.t) = {}
        /\ t.v = TRAPFRAME => <<t.q, t.t, TRAMPOLINE>> \in fixed
    /\ InLoop(t) =>
        /\ t.op # "none" /\ Fixed(t.q, t.t) /\ Mapped(t.q, t.t) = Below(t.v)
        /\ t.base = Pages(t.size) /\ t.base <= t.v
        /\ t.v <= t.end /\ (t.pc = "map" => t.v < t.end)
        /\ t.end = Pages(t.n) /\ t.end <= TRAPFRAME
        /\ t.op = "fork" => t.size = 0 /\ t.n = sz[p]
        /\ t.op = "seg" => t.n <= MaxSz
        /\ t.op = "stack" => t.base + 2 <= t.end
    /\ t.pc \in {"seg", "commit"} =>
        /\ InExec(t) /\ Fixed(t.q, t.t) /\ Mapped(t.q, t.t) = Below(Pages(t.size))
        /\ Pages(t.size) <= TRAPFRAME
        /\ t.pc = "seg" => t.size <= MaxSz

\* The inductive invariant.
IInv ==
    /\ TypeOK /\ NoneLost /\ NoPanic
    /\ \A p \in Procs : SlotKept(p, th[p]) /\ TableOwned(p, th[p]) /\ TableKept(p, th[p])

=============================================================================
