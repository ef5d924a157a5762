---------------------------- MODULE MemoryProofs ----------------------------
(***************************************************************************)
(* Memory: no page is ever in two places, in use and free, or lost, and no  *)
(* panic of vm.c is reached, for any number of processes and pages and      *)
(* whichever allocations fail.                                              *)
(***************************************************************************)
EXTENDS Memory, TLAPS

\* Most leaves are first-order: Zenon proves them. The others name SMT.
USE Zenon

\* The pages of own, free and held are pages, and none is shared.
PInv ==
    /\ own \in [Places -> Frames \cup {0}]
    /\ free \subseteq Frames
    /\ held \subseteq Frames
    /\ NotShared

\* The places do not depend on the state.
LEMMA PlacesConstant == Places' = Places
BY DEF Places, Tf, Mem, Args, Arg, Table, Inner, Leaves, Root, Mid, Low, Leaf, UserPages

\* Facts about numbers, for the leaves that use no other arithmetic.
LEMMA Numerals == 1 # 2 /\ 3 - 1 = 2 /\ 3 - 2 = 1
BY SMT

\* A loop's variable after one more round.
LEMMA NextRound ==
    ASSUME NEW a \in Nat, NEW b \in Nat, a < b
    PROVE  a + 1 <= b /\ a + 1 \in Nat
BY SMT

\* A loop's variable that has reached its end.
LEMMA LastRound ==
    ASSUME NEW a \in Nat, NEW b \in Nat, a <= b, a >= b
    PROVE  a = b
BY SMT

\* What is at most a loop's variable stays so.
LEMMA StillBelow ==
    ASSUME NEW a \in Nat, NEW b \in Nat, a <= b
    PROVE  a <= b + 1
BY SMT

\* A loop's variable is below what its end is below.
LEMMA InRange ==
    ASSUME NEW a \in Nat, NEW b \in Nat, NEW c \in Nat, a < b, b <= c
    PROVE  a < c /\ ~(a >= c)
BY SMT

\* A fixed page is not below the trapframe.
LEMMA NotBelow ==
    ASSUME NEW a \in Nat, NEW b \in Nat, a >= b
    PROVE  ~(a < b)
BY SMT

\* The arguments counted so far, and the next one.
LEMMA Counted ==
    ASSUME NEW n \in Nat
    PROVE  /\ n + 1 <= n + 1 /\ ~(n + 1 <= n) /\ n <= n + 1
           /\ \A k \in 1..MAXARG : k <= n => k <= n + 1
BY SMT

\* The two fixed pages are the last ones.
LEMMA FixedPages ==
    /\ TRAMPOLINE \in Nat /\ TRAPFRAME \in Nat /\ TRAMPOLINE # TRAPFRAME
    /\ TRAMPOLINE > TRAPFRAME /\ TRAMPOLINE >= TRAPFRAME /\ ~(TRAMPOLINE < TRAPFRAME)
    /\ TRAPFRAME >= TRAPFRAME /\ ~(TRAPFRAME < TRAPFRAME)
BY MemoryAssumption, SMT DEF MemoryAssumption, TRAMPOLINE, TRAPFRAME

\* The other of a process's two tables.
LEMMA OtherTable ==
    ASSUME NEW c \in {1, 2}
    PROVE  3 - c \in {1, 2} /\ 3 - c # c
BY SMT

\* The pages below the next one.
LEMMA BelowNext ==
    ASSUME NEW v \in UserPages
    PROVE  Below(v) \cup {v} = Below(v + 1)
BY MemoryAssumption, SMT DEF MemoryAssumption, Below, UserPages

\* What is left of the pages below b without those from a on.
LEMMA BelowCut ==
    ASSUME NEW a \in Nat, NEW b \in Nat, a <= b, NEW M,
           \A v : v \in M <=> v \in Below(b) /\ ~(v \in UserPages /\ a <= v /\ v < b)
    PROVE  M = Below(a)
BY MemoryAssumption, SMT DEF MemoryAssumption, Below, UserPages

\* NotShared, place by place.
LEMMA Pointwise ==
    NotShared <=> /\ \A x, y \in Places : own[x] # 0 /\ own[x] = own[y] => x = y
                  /\ \A x \in Places : own[x] # 0 => own[x] \notin free /\ own[x] \notin held
                  /\ held \cap free = {}
BY SMT DEF NotShared, InUse, Owned

\* The same of the next state.
LEMMA PointwiseNext ==
    NotShared' <=> /\ \A x, y \in Places : own'[x] # 0 /\ own'[x] = own'[y] => x = y
                   /\ \A x \in Places : own'[x] # 0 => own'[x] \notin free' /\ own'[x] \notin held'
                   /\ held' \cap free' = {}
<1>1. Places' = Places BY PlacesConstant
<1>. QED BY <1>1, SMT DEF NotShared, InUse, Owned

\* kalloc() into any place shares nothing.
LEMMA TakeShares ==
    ASSUME MemoryAssumption, PInv, NEW x, Take(x), held' = held
    PROVE  PInv'
<1>1. PICK f \in free : own' = [own EXCEPT ![x] = f] /\ free' = free \ {f}
  BY DEF Take
<1>2. Places' = Places BY PlacesConstant
<1>3. NotShared'
  BY <1>1, Pointwise, PointwiseNext, SMT DEF PInv
<1>. QED BY <1>1, <1>2, <1>3 DEF PInv

\* kfree() of the pages in any set of places shares nothing.
LEMMA GiveShares ==
    ASSUME MemoryAssumption, PInv, NEW S, Give(S), held' = held
    PROVE  PInv'
<1>1. own' = [x \in Places |-> IF x \in S THEN 0 ELSE own[x]]
  BY DEF Give
<1>2. free' = free \cup {own[x] : x \in S \cap InUse}
  BY DEF Give
<1>3. Places' = Places BY PlacesConstant
<1>4. NotShared'
  <2>1. \A x, y \in Places : own'[x] # 0 /\ own'[x] = own'[y] => x = y
    BY <1>1, Pointwise DEF PInv
  <2>2. \A x \in Places : own'[x] # 0 => own'[x] \notin free' /\ own'[x] \notin held'
    BY <1>1, <1>2, Pointwise, SMT DEF PInv, InUse
  <2>3. held' \cap free' = {}
    BY <1>2, Pointwise, SMT DEF PInv, InUse
  <2>. QED BY <2>1, <2>2, <2>3, PointwiseNext
<1>5. own' \in [Places -> Frames \cup {0}] /\ free' \subseteq Frames
  BY <1>1, <1>2, SMT DEF PInv, InUse
<1>. QED BY <1>3, <1>4, <1>5 DEF PInv

\* mappages() moves a page from the local variable to a leaf.
LEMMA MoveShares ==
    ASSUME MemoryAssumption, PInv, NEW x \in Places, NEW y, x # y, Move(x, y), held' = held
    PROVE  PInv'
<1>1. own' = [own EXCEPT ![x] = 0, ![y] = own[x]] /\ free' = free
  BY DEF Move
<1>2. Places' = Places BY PlacesConstant
<1>3. NotShared'
  BY <1>1, Pointwise, PointwiseNext, SMT DEF PInv
<1>. QED BY <1>1, <1>2, <1>3 DEF PInv

\* A step that leaves the pages alone.
LEMMA QuietShares ==
    ASSUME PInv, UNCHANGED <<own, free, held>>
    PROVE  PInv'
<1>1. Places' = Places BY PlacesConstant
<1>. QED BY <1>1, Pointwise, PointwiseNext DEF PInv

\* The first process holds pages of its own.
LEMMA InitShares == MemoryAssumption /\ Init => PInv
<1>. SUFFICES ASSUME MemoryAssumption, Init PROVE PInv
  OBVIOUS
<1>1. own = [x \in Places |-> IF x \in First THEN Boot[x] ELSE 0]
  BY DEF Init
<1>2. free = Frames \ (held \cup {Boot[x] : x \in First}) /\ held \in Held
  BY DEF Init
<1>3. NotShared
  BY <1>1, <1>2, Pointwise DEF MemoryAssumption
<1>. QED BY <1>1, <1>2, <1>3 DEF PInv, MemoryAssumption

\* The local variable mem of a process is a place, and is not a leaf.
LEMMA MemIsPlace == \A p \in Procs : Mem(p) \in Places /\ \A q, t, v : Mem(p) # Leaf(q, t, v)
BY DEF Places, Mem, Leaf

\* Every step keeps the invariant: each is a kalloc(), some kfree()s, a move, or
\* leaves the pages alone.
LEMMA NextShares == MemoryAssumption /\ PInv /\ [Next]_vars => PInv'
<1>. SUFFICES ASSUME MemoryAssumption, PInv, [Next]_vars PROVE PInv'
  OBVIOUS
<1>1. CASE UNCHANGED vars
  BY <1>1, QuietShares DEF vars
<1>2. ASSUME NEW p \in Procs, Kalloc(p) PROVE PInv'
  <2>1. PICK x \in Wants(p) : Take(x) BY <1>2 DEF Kalloc
  <2>. QED BY <1>2, <2>1, TakeShares DEF Kalloc
<1>3. ASSUME NEW p \in Procs, SbrkShrink(p) PROVE PInv'
  <2>1. PICK n \in Steps : Give(Leaves(p, cur[p], Pages(sz[p] - n), Pages(sz[p])))
    BY <1>3 DEF SbrkShrink
  <2>2. held' = held BY <1>3 DEF SbrkShrink, Calling
  <2>. QED BY <2>1, <2>2, GiveShares
<1>4. ASSUME NEW p \in Procs, Reap(p) PROVE PInv'
  BY <1>4, GiveShares DEF Reap
<1>5. ASSUME NEW p \in Procs, OutOfMemory(p) PROVE PInv'
  BY <1>5, GiveShares DEF OutOfMemory
<1>6. ASSUME NEW p \in Procs, ExecCommit(p) PROVE PInv'
  BY <1>6, GiveShares DEF ExecCommit
<1>7. ASSUME NEW p \in Procs, ExecBad(p) PROVE PInv'
  BY <1>7, GiveShares DEF ExecBad
<1>8. ASSUME NEW p \in Procs, MapPage(p) PROVE PInv'
  BY <1>8, MoveShares, MemIsPlace DEF MapPage
<1>9. ASSUME NEW p \in Procs,
             \/ Fork(p) \/ Exec(p) \/ SbrkGrow(p) \/ Exit(p) \/ MapFixed(p) \/ ForkDone(p)
             \/ SbrkDone(p) \/ ExecStart(p) \/ ExecSeg(p) \/ ExecSegDone(p) \/ ExecStack(p)
             \/ ExecStackDone(p)
      PROVE  PInv'
  <2>1. UNCHANGED <<own, free, held>>
    BY <1>9 DEF Fork, Exec, SbrkGrow, Exit, MapFixed, ForkDone, SbrkDone, ExecStart, ExecSeg,
                ExecSegDone, ExecStack, ExecStackDone, Quiet, Calling
  <2>. QED BY <2>1, QuietShares
<1>. QED BY <1>1, <1>2, <1>3, <1>4, <1>5, <1>6, <1>7, <1>8, <1>9 DEF Next

\* kalloc.c, vm.c, exec.c, proc.c: in no reachable state, whatever the number of
\* processes and pages and whichever allocations fail, does a page have two owners
\* or is it both owned and free.
THEOREM PagesNotShared == Spec => []NotShared
<1>1. Init => PInv BY InitShares, MemoryAssumption
<1>2. PInv /\ [Next]_vars => PInv' BY NextShares, MemoryAssumption
<1>3. PInv => NotShared BY DEF PInv
<1>. QED BY <1>1, <1>2, <1>3, PTL DEF Spec

-----------------------------------------------------------------------------
(* Pages and places *)

\* A multiple of m between -m and m is 0.
LEMMA OnlyZero ==
    ASSUME NEW m \in Int, m > 0, NEW k \in Int, -m < m * k, m * k < m
    PROVE  k = 0
<1>1. ASSUME k >= 1 PROVE FALSE
  <2>1. m * k = m * (k - 1) + m /\ m * (k - 1) >= 0
    BY <1>1, SMT
  <2> QED BY <2>1, SMT
<1>2. ASSUME k <= -1 PROVE FALSE
  <2>1. m * k = -m - m * (-1 - k) /\ m * (-1 - k) >= 0
    BY <1>2, SMT
  <2> QED BY <2>1, SMT
<1> QED BY <1>1, <1>2, SMT

\* Division, rounding down.
LEMMA DivBounds ==
    ASSUME NEW m \in Int, m > 0, NEW a \in Int
    PROVE  a \div m \in Int /\ m * (a \div m) <= a /\ a < m * (a \div m) + m
<1>1. a = m * (a \div m) + (a % m) /\ a % m \in 0..m-1 /\ a \div m \in Int
  BY SMT
<1> QED BY <1>1, SMT

\* The quotient is the only number with these bounds.
LEMMA DivUnique ==
    ASSUME NEW m \in Int, m > 0, NEW a \in Int, NEW d \in Int, m * d <= a, a < m * d + m
    PROVE  a \div m = d
<1> DEFINE e == a \div m
<1>1. e \in Int /\ m * e <= a /\ a < m * e + m
  BY DivBounds
<1> HIDE DEF e
<1>2. m * (d - e) = m * d - m * e /\ m * d \in Int /\ m * e \in Int
  BY <1>1, SMT
<1>3. -m < m * (d - e) /\ m * (d - e) < m
  BY <1>1, <1>2, SMT
<1>4. d - e = 0
  <2> DEFINE k == d - e
  <2>1. k \in Int /\ -m < m * k /\ m * k < m
    BY <1>1, <1>3, SMT
  <2> HIDE DEF k
  <2>2. k = 0
    BY <2>1, OnlyZero
  <2> QED BY <2>2 DEF k
<1> QED BY <1>1, <1>4, SMT DEF e

\* PGROUNDUP() as a number of pages.
LEMMA PagesBounds ==
    ASSUME NEW s \in Nat
    PROVE  /\ Pages(s) \in Nat /\ PGSIZE * Pages(s) \in Nat
           /\ s <= PGSIZE * Pages(s) /\ PGSIZE * Pages(s) < s + PGSIZE
<1> DEFINE P == PGSIZE
           d == Pages(s)
<1>1. P \in Int /\ P > 0
  BY MemoryAssumption, SMT DEF MemoryAssumption
<1>2. d \in Int /\ P * d <= s + P - 1 /\ s + P - 1 < P * d + P
  <2> DEFINE a == s + P - 1
  <2>1. a \in Int
    BY <1>1, SMT
  <2> HIDE DEF a, P
  <2>2. a \div P \in Int /\ P * (a \div P) <= a /\ a < P * (a \div P) + P
    BY <1>1, <2>1, DivBounds
  <2>3. d = a \div P
    BY DEF Pages, a, P
  <2> QED BY <2>2, <2>3 DEF a
<1> HIDE DEF P, d
<1>3. P * d \in Int
  BY <1>1, <1>2, SMT
<1>4. s <= P * d /\ P * d < s + P
  BY <1>1, <1>2, <1>3, SMT
<1>5. d >= 0
  <2>1. ASSUME d <= -1 PROVE FALSE
    <3> DEFINE k == -1 - d
    <3>1. k \in Nat /\ P * k >= 0 /\ P * k \in Int /\ P * d = -P - P * k
      BY <1>1, <1>2, <2>1, SMT
    <3>2. s >= 0 /\ P * d <= -P
      BY <1>1, <3>1, SMT
    <3> QED BY <1>1, <1>3, <1>4, <3>2, SMT
  <2> QED BY <1>2, <2>1, SMT
<1>6. d \in Nat /\ P * d \in Nat /\ s <= P * d /\ P * d < s + P
  BY <1>2, <1>3, <1>4, <1>5, SMT
<1> QED BY <1>6 DEF P, d

\* The number of pages is the only one with these bounds.
LEMMA PagesOf ==
    ASSUME NEW s \in Nat, NEW d \in Nat, s <= PGSIZE * d, PGSIZE * d < s + PGSIZE
    PROVE  Pages(s) = d
<1> DEFINE P == PGSIZE
           a == s + P - 1
<1>1. P \in Int /\ P > 0 /\ P * d \in Int
  BY MemoryAssumption, SMT DEF MemoryAssumption
<1>2. s <= P * d /\ P * d < s + P
  OBVIOUS
<1> HIDE DEF P
<1>3. a \in Int /\ P * d <= a /\ a < P * d + P
  BY <1>1, <1>2, SMT
<1> HIDE DEF a
<1>4. a \div P = d
  BY <1>1, <1>3, DivUnique, SMT
<1> QED BY <1>4 DEF Pages, a, P

\* A larger size takes no fewer pages.
LEMMA PagesMonotone ==
    ASSUME NEW s \in Nat, NEW z \in Nat, s <= z
    PROVE  Pages(s) <= Pages(z)
<1> DEFINE P == PGSIZE
           d == Pages(s)
           e == Pages(z)
<1>1. P \in Int /\ P > 0
  BY MemoryAssumption, SMT DEF MemoryAssumption
<1>2. d \in Nat /\ e \in Nat /\ P * d < s + P /\ z <= P * e /\ P * d \in Nat /\ P * e \in Nat
  BY PagesBounds
<1> HIDE DEF P, d, e
<1>3. ASSUME d >= e + 1 PROVE FALSE
  <2>1. P * d = P * e + P + P * (d - e - 1) /\ P * (d - e - 1) >= 0
    BY <1>1, <1>2, <1>3, SMT
  <2> QED BY <1>1, <1>2, <2>1, SMT
<1>4. d <= e
  BY <1>2, <1>3, SMT
<1> QED BY <1>4 DEF d, e

\* Sizes that are whole pages.
LEMMA PagesWhole ==
    /\ Pages(0) = 0 /\ Pages(PGSIZE) = 1
    /\ \A d \in Nat : /\ d * PGSIZE \in Nat /\ Pages(d * PGSIZE) = d
                      /\ Pages(d * PGSIZE + 2 * PGSIZE) = d + 2
<1>1. PGSIZE \in Nat /\ PGSIZE > 0
  BY MemoryAssumption, SMT DEF MemoryAssumption
<1>2. ASSUME NEW d \in Nat PROVE d * PGSIZE \in Nat /\ Pages(d * PGSIZE) = d
  <2> DEFINE s == d * PGSIZE
  <2>1. s \in Nat /\ s <= PGSIZE * d /\ PGSIZE * d < s + PGSIZE
    BY <1>1, SMT
  <2> HIDE DEF s
  <2>2. Pages(s) = d
    BY <2>1, PagesOf
  <2> QED BY <2>1, <2>2 DEF s
<1>3. \A d \in Nat : d * PGSIZE + 2 * PGSIZE = (d + 2) * PGSIZE /\ d + 2 \in Nat
  BY <1>1, SMT
<1>4. 0 * PGSIZE = 0 /\ 1 * PGSIZE = PGSIZE
  BY <1>1, SMT
<1>5. Pages(0) = 0
  BY <1>2, <1>4
<1>6. Pages(PGSIZE) = 1
  BY <1>2, <1>4
<1>7. \A d \in Nat : Pages(d * PGSIZE + 2 * PGSIZE) = d + 2
  BY <1>2, <1>3
<1> QED BY <1>2, <1>5, <1>6, <1>7

\* The places there are.
LEMMA PlacesOf ==
    ASSUME NEW q \in Procs
    PROVE  /\ Tf(q) \in Places /\ Mem(q) \in Places
           /\ \A k \in 1..MAXARG : Arg(q, k) \in Places
           /\ \A t \in {1, 2} :
                /\ Root(q, t) \in Places
                /\ \A v \in UserPages : Leaf(q, t, v) \in Places
                /\ \A v \in 0..(MAXPAGE - 1) : Mid(q, t, v) \in Places /\ Low(q, t, v) \in Places
<1> DEFINE mine == {Tf(q), Mem(q)} \cup Args(q) \cup Table(q, 1) \cup Table(q, 2)
<1>1. \A x \in mine : x \in Places
  BY DEF Places
<1>2. \A k \in 1..MAXARG : Arg(q, k) \in mine
  BY DEF Args
<1>3. \A t \in {1, 2} : Table(q, t) \subseteq mine
  OBVIOUS
<1>4. \A t \in {1, 2} : /\ Root(q, t) \in Table(q, t)
                        /\ \A v \in 0..(MAXPAGE - 1) : Mid(q, t, v) \in Table(q, t) /\ Low(q, t, v) \in Table(q, t)
  BY DEF Table, Inner
<1>5. \A t \in {1, 2} : \A v \in UserPages : Leaf(q, t, v) \in Table(q, t)
  <2>1. \A v \in UserPages : 0 <= v /\ v < MAXPAGE
    BY MemoryAssumption, SMT DEF UserPages, MemoryAssumption
  <2> QED BY <2>1 DEF Table, Leaves
<1> HIDE DEF mine
<1>6. Tf(q) \in mine /\ Mem(q) \in mine
  BY DEF mine
<1> QED BY <1>1, <1>2, <1>3, <1>4, <1>5, <1>6

\* Which of the sets of places that the kernel frees a place is in.
LEMMA LeafIn ==
    ASSUME NEW q, NEW t, NEW v, NEW r, NEW u, NEW a \in Int, NEW b \in Int
    PROVE  /\ Leaf(q, t, v) \in Leaves(r, u, a, b) <=> q = r /\ t = u /\ v \in UserPages /\ a <= v /\ v < b
           /\ Leaf(q, t, v) \notin Inner(r, u) /\ Leaf(q, t, v) \notin Args(r)
           /\ Leaf(q, t, v) # Tf(r) /\ Leaf(q, t, v) # Mem(r) /\ Leaf(q, t, v) # Root(r, u)
           /\ \A w : Leaf(q, t, v) # Mid(r, u, w) /\ Leaf(q, t, v) # Low(r, u, w)
           /\ \A k : Leaf(q, t, v) # Arg(r, k)
BY DEF Leaf, Leaves, Inner, Args, Arg, Tf, Mem, Root, Mid, Low

\* The root of a table and where it can be.
LEMMA RootIn ==
    ASSUME NEW q, NEW t, NEW r, NEW u, NEW a, NEW b
    PROVE  /\ Root(q, t) \in Inner(r, u) <=> q = r /\ t = u
           /\ Root(q, t) \notin Leaves(r, u, a, b) /\ Root(q, t) \notin Args(r)
           /\ Root(q, t) # Tf(r) /\ Root(q, t) # Mem(r)
           /\ Root(q, t) = Root(r, u) <=> q = r /\ t = u
           /\ \A w : /\ Root(q, t) # Leaf(r, u, w) /\ Root(q, t) # Mid(r, u, w)
                     /\ Root(q, t) # Low(r, u, w) /\ Root(q, t) # Arg(r, w)
BY DEF Leaf, Leaves, Inner, Args, Arg, Tf, Mem, Root, Mid, Low

\* Trapframes, pages in hand and arguments are in no table.
LEMMA OtherIn ==
    ASSUME NEW q, NEW k, NEW r, NEW u, NEW a, NEW b
    PROVE  /\ Tf(q) \notin Inner(r, u) /\ Tf(q) \notin Leaves(r, u, a, b) /\ Tf(q) \notin Args(r)
           /\ Mem(q) \notin Inner(r, u) /\ Mem(q) \notin Leaves(r, u, a, b) /\ Mem(q) \notin Args(r)
           /\ Arg(q, k) \notin Inner(r, u) /\ Arg(q, k) \notin Leaves(r, u, a, b)
           /\ Arg(q, k) \in Args(r) <=> q = r /\ k \in 1..MAXARG
           /\ Tf(q) # Mem(r) /\ Mem(q) # Tf(r) /\ Arg(q, k) # Tf(r) /\ Arg(q, k) # Mem(r)
           /\ Tf(q) = Tf(r) <=> q = r
           /\ Mem(q) = Mem(r) <=> q = r
           /\ \A j : Arg(q, k) = Arg(r, j) <=> q = r /\ k = j
           /\ \A j : Tf(q) # Arg(r, j) /\ Mem(q) # Arg(r, j)
           /\ \A w : /\ Tf(q) # Leaf(r, u, w) /\ Mem(q) # Leaf(r, u, w) /\ Arg(q, k) # Leaf(r, u, w)
                     /\ Tf(q) # Mid(r, u, w) /\ Mem(q) # Mid(r, u, w) /\ Arg(q, k) # Mid(r, u, w)
                     /\ Tf(q) # Low(r, u, w) /\ Mem(q) # Low(r, u, w) /\ Arg(q, k) # Low(r, u, w)
           /\ Tf(q) # Root(r, u) /\ Mem(q) # Root(r, u) /\ Arg(q, k) # Root(r, u)
BY DEF Leaf, Leaves, Inner, Args, Arg, Tf, Mem, Root, Mid, Low

\* kfree(): what the places of S held is free, and no page is lost.
LEMMA GiveEffect ==
    ASSUME TypeOK, NoneLost, NEW S, Give(S), held' = held
    PROVE  /\ own' \in [Places -> Frames \cup {0}] /\ free' \subseteq Frames /\ NoneLost'
           /\ \A x \in Places : own'[x] = IF x \in S THEN 0 ELSE own[x]
           /\ \A q \in Procs, t \in {1, 2} :
                Mapped(q, t)' = {v \in Mapped(q, t) : Leaf(q, t, v) \notin S}
<1>1. /\ own' = [x \in Places |-> IF x \in S THEN 0 ELSE own[x]]
      /\ free' = free \cup {own[x] : x \in S \cap InUse}
  BY DEF Give
<1>2. \A x \in Places : own'[x] = IF x \in S THEN 0 ELSE own[x]
  BY <1>1
<1>3. own' \in [Places -> Frames \cup {0}] /\ free' \subseteq Frames
  BY <1>1 DEF TypeOK, InUse
<1>4. NoneLost'
  <2> SUFFICES ASSUME NEW f \in Frames, f \notin free', f \notin held'
               PROVE  f \in Owned'
    BY DEF NoneLost
  <2>1. PICK x \in InUse : own[x] = f
    BY <1>1 DEF NoneLost, Owned
  <2>2. x \in Places /\ own[x] # 0 /\ x \notin S
    BY <1>1, <2>1 DEF InUse
  <2>3. x \in InUse' /\ own'[x] = f
    BY <1>2, <2>1, <2>2, PlacesConstant DEF InUse
  <2> QED BY <2>3 DEF Owned
<1>5. ASSUME NEW q \in Procs, NEW t \in {1, 2}
      PROVE  Mapped(q, t)' = {v \in Mapped(q, t) : Leaf(q, t, v) \notin S}
  <2>1. \A v \in UserPages : Leaf(q, t, v) \in Places
    BY PlacesOf
  <2>2. Mapped(q, t)' = {v \in UserPages : own'[Leaf(q, t, v)] # 0}
    BY DEF Mapped, Leaf, UserPages
  <2> QED BY <1>2, <2>1, <2>2 DEF Mapped
<1> QED BY <1>2, <1>3, <1>4, <1>5

\* kalloc() into an empty place.
LEMMA TakeEffect ==
    ASSUME TypeOK, NoneLost, NEW y \in Places, own[y] = 0, Take(y), held' = held
    PROVE  /\ own' \in [Places -> Frames \cup {0}] /\ free' \subseteq Frames /\ NoneLost'
           /\ own'[y] # 0
           /\ \A x \in Places : x # y => own'[x] = own[x]
           /\ \A q \in Procs, t \in {1, 2} :
                (\A v \in UserPages : y # Leaf(q, t, v)) => Mapped(q, t)' = Mapped(q, t)
<1>1. PICK f \in free : own' = [own EXCEPT ![y] = f] /\ free' = free \ {f}
  BY DEF Take
<1>2. f \in Frames /\ f # 0
  BY MemoryAssumption DEF TypeOK, MemoryAssumption
<1>3. own'[y] = f /\ \A x \in Places : x # y => own'[x] = own[x]
  BY <1>1 DEF TypeOK
<1>4. own' \in [Places -> Frames \cup {0}] /\ free' \subseteq Frames
  BY <1>1, <1>2 DEF TypeOK
<1>5. NoneLost'
  <2> SUFFICES ASSUME NEW g \in Frames, g \notin free', g \notin held'
               PROVE  g \in Owned'
    BY DEF NoneLost
  <2>1. CASE g = f
    BY <1>2, <1>3, <2>1, PlacesConstant DEF Owned, InUse
  <2>2. CASE g # f
    <3>1. PICK x \in InUse : own[x] = g
      BY <1>1, <2>2 DEF NoneLost, Owned
    <3>2. x \in Places /\ own[x] # 0 /\ x # y
      BY <3>1 DEF InUse
    <3>3. x \in InUse' /\ own'[x] = g
      BY <1>3, <3>1, <3>2, PlacesConstant DEF InUse
    <3> QED BY <3>3 DEF Owned
  <2> QED BY <2>1, <2>2
<1>6. ASSUME NEW q \in Procs, NEW t \in {1, 2}, \A v \in UserPages : y # Leaf(q, t, v)
      PROVE  Mapped(q, t)' = Mapped(q, t)
  <2>1. \A v \in UserPages : Leaf(q, t, v) \in Places
    BY PlacesOf
  <2>2. Mapped(q, t)' = {v \in UserPages : own'[Leaf(q, t, v)] # 0}
    BY DEF Mapped, Leaf, UserPages
  <2> QED BY <1>3, <1>6, <2>1, <2>2 DEF Mapped
<1> QED BY <1>2, <1>3, <1>4, <1>5, <1>6

-----------------------------------------------------------------------------
(* A step changes the slots of the process that makes it and of the table it
   works on, and nobody else works there. *)

\* Nothing of slot q changes.
SameTables(q) == \A t \in {1, 2} :
    /\ own'[Root(q, t)] = own[Root(q, t)] /\ Mapped(q, t)' = Mapped(q, t)
    /\ Fixed(q, t)' = Fixed(q, t)
    /\ (<<q, t, TRAMPOLINE>> \in fixed') = (<<q, t, TRAMPOLINE>> \in fixed)
SamePlaces(q) ==
    /\ own'[Tf(q)] = own[Tf(q)] /\ own'[Mem(q)] = own[Mem(q)]
    /\ \A k \in 1..MAXARG : own'[Arg(q, k)] = own[Arg(q, k)]
SameSlot(q) ==
    /\ SameTables(q) /\ SamePlaces(q)
    /\ state'[q] = state[q] /\ sz'[q] = sz[q] /\ cur'[q] = cur[q] /\ th'[q] = th[q]

SlotInv(p, t) == SlotKept(p, t) /\ TableOwned(p, t) /\ TableKept(p, t)

\* The slot a call works on.
LEMMA WorksOn ==
    ASSUME IInv, NEW p \in Procs, th[p].op # "none"
    PROVE  /\ th[p].q \in Procs /\ th[p].t \in {1, 2} /\ state[p] = "live"
           /\ th[p].op \in {"fork", "sbrk", "seg", "stack"} /\ th[p].pc # "user"
           /\ th[p].op = "fork" => th[p].q # p /\ state[th[p].q] = "used" /\ th[p].t = 1 /\ th[th[p].q] = Idle
           /\ th[p].op = "sbrk" => th[p].q = p /\ th[p].t = cur[p]
           /\ th[p].op \in {"seg", "stack"} => th[p].q = p /\ th[p].t = 3 - cur[p]
<1>1. th[p] \in ThreadTypes /\ cur[p] \in {1, 2}
  BY DEF IInv, TypeOK
<1>2. SlotKept(p, th[p]) /\ TableOwned(p, th[p]) /\ TableKept(p, th[p])
  BY DEF IInv
<1>3. Idle.op = "none"
  BY DEF Idle
<1>4. th[p].op \in {"fork", "sbrk", "seg", "stack"} /\ th[p].pc # "user"
  BY <1>1, <1>2, <1>3 DEF ThreadTypes, TableKept
<1>5. state[p] = "live"
  BY <1>2, <1>3 DEF SlotKept
<1>6. th[p].op = "fork" => th[p].q \in Procs /\ state[th[p].q] = "used" /\ th[p].t = 1
  BY <1>2 DEF TableOwned
<1>7. th[p].op = "fork" => th[p].q # p /\ th[th[p].q] = Idle
  BY <1>5, <1>6 DEF IInv, SlotKept
<1> QED BY <1>1, <1>2, <1>4, <1>5, <1>6, <1>7, SMT DEF TableOwned, InExec

\* No other process works on the slot of a live process or on the one its
\* call works on.
LEMMA Apart ==
    ASSUME IInv, NEW p \in Procs, state[p] = "live",
           NEW r \in Procs, r # p, th[r].op # "none"
    PROVE  /\ th[r].q # p
           /\ th[p].op # "none" /\ r # th[p].q => th[r].q # th[p].q
<1>1. th[r].op = "fork" => state[th[r].q] = "used"
  BY WorksOn
<1>2. th[r].op # "fork" => th[r].q = r
  BY WorksOn
<1>3. th[r].q # p
  BY <1>1, <1>2
<1>4. CASE th[p].op = "fork" /\ th[r].op = "fork"
  BY <1>3, <1>4 DEF IInv, TableOwned
<1>5. ASSUME th[p].op # "none", th[p].op # "fork" PROVE th[p].q = p
  BY <1>5, WorksOn
<1> QED BY <1>2, <1>3, <1>4, <1>5

\* The slots a step does not touch keep the invariant.
LEMMA Others ==
    ASSUME IInv, NEW A \in SUBSET Procs,
           \A q \in Procs \ A : SameSlot(q),
           \A r \in Procs \ A : th[r].op # "none" => th[r].q \notin A,
           \A r \in A : th'[r].op = "fork" => th'[r].q \in A
    PROVE  \A p \in Procs \ A : SlotInv(p, th[p])'
<1> SUFFICES ASSUME NEW p \in Procs \ A PROVE SlotInv(p, th[p])'
  OBVIOUS
<1>1. SlotKept(p, th[p]) /\ TableOwned(p, th[p]) /\ TableKept(p, th[p]) /\ SameSlot(p) /\ cur[p] \in {1, 2}
  BY DEF IInv, TypeOK
<1>2. SlotKept(p, th[p])'
  <2>1. 3 - cur[p] \in {1, 2}
    BY <1>1, SMT
  <2>2. Clear(p, 3 - cur[p])' <=> Clear(p, 3 - cur[p])
    BY <1>1, <2>1, SMT DEF SameSlot, SameTables, Clear
  <2>3. Clear(p, 1)' <=> Clear(p, 1)
    BY <1>1 DEF SameSlot, SameTables, Clear
  <2>4. Fixed(p, cur[p])' = Fixed(p, cur[p]) /\ Mapped(p, cur[p])' = Mapped(p, cur[p])
    BY <1>1 DEF SameSlot, SameTables
  <2>5. Tf(p)' = Tf(p) /\ Mem(p)' = Mem(p) /\ \A k : Arg(p, k)' = Arg(p, k)
    BY DEF Tf, Mem, Arg
  <2> QED BY <1>1, <2>2, <2>3, <2>4, <2>5, SMT DEF SlotKept, SameSlot, SamePlaces, InExec
<1>3. TableOwned(p, th[p])'
  <2>1. \A r \in Procs : th'[r].op = "fork" /\ th'[r].q = th[p].q => r \in A \/ th'[r] = th[r]
    BY DEF SameSlot
  <2>2. ASSUME th[p].op = "fork"
        PROVE  /\ th[p].q \in Procs /\ state'[th[p].q] = "used" /\ th[p].t = 1
               /\ \A r \in Procs : th'[r].op = "fork" /\ th'[r].q = th[p].q => r = p
    <3>1. th[p].q \in Procs \ A /\ state[th[p].q] = "used" /\ th[p].t = 1
      BY <1>1, <2>2 DEF TableOwned
    <3> QED BY <1>1, <2>1, <2>2, <3>1, SMT DEF TableOwned, SameSlot
  <2> QED BY <1>1, <2>2, SMT DEF TableOwned, SameSlot, InExec
<1>4. TableKept(p, th[p])'
  <2>1. CASE th[p].op = "none"
    <3>1. th'[p] = Idle
      BY <1>1, <2>1 DEF TableOwned, SameSlot
    <3> QED BY <3>1, SMT DEF TableKept, Idle, InLoop
  <2>2. CASE th[p].op # "none"
    <3>0. PICK s, t : s = th[p].q /\ t = th[p].t
      OBVIOUS
    <3>1. s \in Procs \ A /\ t \in {1, 2}
      BY <2>2, <3>0, WorksOn
    <3>2. SameSlot(s)
      BY <3>1
    <3>3. th'[p] = th[p] /\ sz'[p] = sz[p]
      BY <1>1 DEF SameSlot
    <3>4. /\ Clear(s, t)' <=> Clear(s, t)
          /\ Mapped(s, t)' = Mapped(s, t) /\ Fixed(s, t)' = Fixed(s, t)
          /\ (<<s, t, TRAMPOLINE>> \in fixed') = (<<s, t, TRAMPOLINE>> \in fixed)
      BY <3>1, <3>2 DEF SameSlot, SameTables, Clear
    <3>5. own'[Tf(s)] = own[Tf(s)]
      BY <3>2, <3>3 DEF SameSlot, SamePlaces
    <3> QED BY <1>1, <3>0, <3>3, <3>4, <3>5, ZenonT(40) DEF TableKept, InLoop, InExec
  <2> QED BY <2>1, <2>2
<1> QED BY <1>2, <1>3, <1>4 DEF SlotInv

\* A step that changes one slot, whose process does not fork.
LEMMA OneSlot ==
    ASSUME IInv, NEW p \in Procs, state[p] \in {"live", "zombie"},
           th[p].op # "fork", th'[p].op # "fork",
           \A q \in Procs \ {p} : SameSlot(q),
           SlotInv(p, th[p])', TypeOK', NoneLost', NoPanic'
    PROVE  IInv'
<1>1. ASSUME NEW r \in Procs \ {p}, th[r].op # "none" PROVE th[r].q # p
  BY <1>1, WorksOn
<1>2. \A r \in Procs \ {p} : SlotInv(r, th[r])'
  <2> DEFINE A == {p}
  <2>1. /\ A \in SUBSET Procs
        /\ \A r \in Procs \ A : SameSlot(r) /\ (th[r].op # "none" => th[r].q \notin A)
        /\ \A r \in A : th'[r].op = "fork" => th'[r].q \in A
    BY <1>1
  <2> HIDE DEF A
  <2>2. \A r \in Procs \ A : SlotInv(r, th[r])'
    BY <2>1, Others
  <2> QED BY <2>2 DEF A
<1>3. \A r \in Procs : SlotInv(r, th[r])'
  BY <1>2
<1> QED BY <1>3 DEF IInv, SlotInv

\* A step of fork(), which changes the slots of the parent and the child.
LEMMA TwoSlots ==
    ASSUME IInv, NEW p \in Procs, th[p].op = "fork", NEW s, s = th[p].q,
           \A q \in Procs \ {p, s} : SameSlot(q),
           th'[p].op = "fork" => th'[p].q = s, th'[s].op # "fork",
           SlotInv(p, th[p])', SlotInv(s, th[s])', TypeOK', NoneLost', NoPanic'
    PROVE  IInv'
<1>1. s \in Procs /\ state[p] = "live"
  BY WorksOn
<1>2. ASSUME NEW r \in Procs \ {p, s}, th[r].op # "none" PROVE th[r].q \notin {p, s}
  BY <1>1, <1>2, Apart
<1>3. \A r \in Procs \ {p, s} : SlotInv(r, th[r])'
  <2> DEFINE A == {p, s}
  <2>1. /\ A \in SUBSET Procs
        /\ \A r \in Procs \ A : SameSlot(r) /\ (th[r].op # "none" => th[r].q \notin A)
        /\ \A r \in A : th'[r].op = "fork" => th'[r].q \in A
    BY <1>1, <1>2
  <2> HIDE DEF A
  <2>2. \A r \in Procs \ A : SlotInv(r, th[r])'
    BY <2>1, Others
  <2> QED BY <2>2 DEF A
<1>4. \A r \in Procs : SlotInv(r, th[r])'
  BY <1>3
<1> QED BY <1>4 DEF IInv, SlotInv

\* A step that leaves the pages alone.
LEMMA Still ==
    ASSUME UNCHANGED own, NEW q, NEW t
    PROVE  /\ own'[Root(q, t)] = own[Root(q, t)] /\ Mapped(q, t)' = Mapped(q, t)
           /\ SamePlaces(q) /\ Clear(q, t)' = Clear(q, t)
           /\ fixed' = fixed => Fixed(q, t)' = Fixed(q, t)
BY DEF Root, Mapped, UserPages, Leaf, SamePlaces, Tf, Mem, Arg, Clear, Fixed, TRAMPOLINE, TRAPFRAME

\* A step of the thread of p only.
LEMMA QuietStep ==
    ASSUME IInv, NEW p \in Procs, state[p] = "live", NEW x \in ThreadTypes,
           th[p].op # "fork", x.op # "fork", Become(p, x),
           UNCHANGED <<own, free, fixed, state, sz, cur, held, panicked>>, calls' \in Nat,
           SlotInv(p, x)
    PROVE  IInv'
<1>1. /\ th' = [th EXCEPT ![p] = x] /\ th'[p] = x
      /\ \A q \in Procs \ {p} : th'[q] = th[q]
  BY DEF Become, IInv, TypeOK
<1>2. \A q \in Procs \ {p} : SameSlot(q)
  BY <1>1, Still DEF SameSlot, SameTables
<1>3. TypeOK'
  BY <1>1, PlacesConstant DEF IInv, TypeOK
<1>4. NoneLost' /\ NoPanic'
  BY PlacesConstant DEF IInv, NoneLost, NoPanic, Owned, InUse
<1>5. SlotKept(p, th[p])'
  <2>1. SlotKept(p, x)
    BY DEF SlotInv
  <2> QED BY <1>1, <2>1 DEF SlotKept, Clear, Fixed, Mapped, Root, Leaf, Tf, Mem, Arg, UserPages,
                            TRAPFRAME, TRAMPOLINE
<1>6. TableOwned(p, th[p])'
  BY <1>1 DEF SlotInv, TableOwned
<1>7. TableKept(p, th[p])'
  <2>1. TableKept(p, x)
    BY DEF SlotInv
  <2>2. /\ Clear(x.q, x.t)' = Clear(x.q, x.t) /\ Mapped(x.q, x.t)' = Mapped(x.q, x.t)
        /\ Fixed(x.q, x.t)' = Fixed(x.q, x.t) /\ own'[Tf(x.q)] = own[Tf(x.q)]
        /\ fixed' = fixed /\ sz' = sz
    BY Still
  <2> QED BY <1>1, <2>1, <2>2 DEF TableKept, InLoop, InExec
<1> QED BY <1>1, <1>2, <1>3, <1>4, <1>5, <1>6, <1>7, OneSlot DEF SlotInv

-----------------------------------------------------------------------------
(* The steps that only move a thread *)

\* A thread in user space.
LEMMA IdleFacts ==
    /\ Idle \in ThreadTypes /\ Idle.pc = "user" /\ Idle.op = "none" /\ Idle.size = 0 /\ Idle.n = 0
    /\ \A p : TableOwned(p, Idle) /\ TableKept(p, Idle)
<1>1. Idle \in ThreadTypes /\ Idle.pc = "user" /\ Idle.op = "none" /\ Idle.size = 0 /\ Idle.n = 0
  BY SMT DEF Idle, ThreadTypes
<1> QED BY <1>1 DEF TableOwned, TableKept, InExec, InLoop

\* What every call starts from.
LEMMA CallingFacts ==
    ASSUME IInv, NEW p \in Procs, Calling(p)
    PROVE  /\ state[p] = "live" /\ th[p] = Idle /\ calls' \in Nat
           /\ UNCHANGED held /\ SlotInv(p, Idle)
BY SMT DEF Calling, IInv, TypeOK, SlotInv

\* sys_exec() starts.
LEMMA ExecCall ==
    ASSUME IInv, NEW p \in Procs, Exec(p)
    PROVE  IInv'
<1>1. PICK k \in 0..MAXARG :
        /\ Calling(p) /\ UNCHANGED <<own, free, fixed, state, sz, cur, panicked>>
        /\ Become(p, [Idle EXCEPT !.pc = "arg", !.op = "seg", !.q = p, !.t = 3 - cur[p], !.end = k])
  BY DEF Exec
<1> DEFINE x == [Idle EXCEPT !.pc = "arg", !.op = "seg", !.q = p, !.t = 3 - cur[p], !.end = k]
<1>2. cur[p] \in {1, 2} /\ MAXARG \in Nat
  BY MemoryAssumption DEF IInv, TypeOK, MemoryAssumption
<1>3. /\ x.pc = "arg" /\ x.op = "seg" /\ x.q = p /\ x.t = 3 - cur[p] /\ x.end = k
      /\ x.size = 0 /\ x.n = 0 /\ x \in ThreadTypes
  <2>1. Idle \in ThreadTypes /\ Idle.size = 0 /\ Idle.n = 0
    BY IdleFacts
  <2>2. 3 - cur[p] \in 0..2 /\ k \in Nat
    BY <1>2, SMT
  <2>3. x \in ThreadTypes
    BY <2>1, <2>2 DEF ThreadTypes
  <2>4. /\ x.pc = "arg" /\ x.op = "seg" /\ x.q = p /\ x.t = 3 - cur[p] /\ x.end = k
        /\ x.size = Idle.size /\ x.n = Idle.n
    BY <2>1, <2>2 DEF ThreadTypes
  <2> HIDE DEF x
  <2> QED BY <2>1, <2>3, <2>4
<1>4. Become(p, x) /\ Idle.op = "none" /\ Idle.pc = "user"
  BY <1>1, IdleFacts
<1> HIDE DEF x
<1>5. SlotInv(p, Idle) /\ state[p] = "live" /\ th[p] = Idle
  BY <1>1, CallingFacts
<1>6. SlotKept(p, x)
  BY <1>3, <1>4, <1>5 DEF SlotInv, SlotKept, InExec
<1>7. TableOwned(p, x) /\ TableKept(p, x)
  BY <1>2, <1>3, SMT DEF TableOwned, TableKept, InExec, InLoop
<1> QED BY <1>1, <1>3, <1>4, <1>5, <1>6, <1>7, CallingFacts, QuietStep DEF SlotInv

\* uvmalloc() starts where the table ends.
LEMMA LoopStarts ==
    ASSUME NEW t \in ThreadTypes, NEW op, NEW old \in Nat, NEW new \in Nat, old <= new,
           op \in {"fork", "sbrk", "seg", "stack"}
    PROVE  LET x == uvmalloc(t, op, old, new) IN
           /\ x \in ThreadTypes /\ x.pc = "page" /\ x.op = op /\ x.q = t.q /\ x.t = t.t
           /\ x.v = Pages(old) /\ x.base = Pages(old) /\ x.end = Pages(new)
           /\ x.size = old /\ x.n = new /\ x.v <= x.end
<1>1. Pages(old) \in Nat /\ Pages(new) \in Nat /\ Pages(old) <= Pages(new)
  BY PagesBounds, PagesMonotone
<1> QED BY <1>1 DEF uvmalloc, ThreadTypes

\* growproc(n) starts its loop.
LEMMA SbrkGrowCall ==
    ASSUME IInv, NEW p \in Procs, SbrkGrow(p)
    PROVE  IInv'
<1> DEFINE b == [Idle EXCEPT !.q = p, !.t = cur[p]]
<1>1. PICK n \in Steps :
        /\ Calling(p) /\ sz[p] + n <= MaxSz /\ UNCHANGED <<own, free, fixed, state, sz, cur, panicked>>
        /\ Become(p, uvmalloc(b, "sbrk", sz[p], sz[p] + n))
  BY DEF SbrkGrow
<1> DEFINE new == sz[p] + n
           x == uvmalloc(b, "sbrk", sz[p], new)
<1>2. cur[p] \in {1, 2} /\ sz[p] \in Nat /\ new \in Nat /\ sz[p] <= new /\ MaxSz \in Nat /\ new <= MaxSz
  BY <1>1, MemoryAssumption, SMT DEF IInv, TypeOK, MemoryAssumption
<1>3. b \in ThreadTypes /\ b.q = p /\ b.t = cur[p]
  <2>1. \A i \in ThreadTypes, c \in 0..2 : LET y == [i EXCEPT !.q = p, !.t = c] IN
            y \in ThreadTypes /\ y.q = p /\ y.t = c
    BY DEF ThreadTypes
  <2>2. cur[p] \in 0..2
    BY <1>2, SMT
  <2> QED BY <2>1, <2>2, IdleFacts
<1> HIDE DEF b, new
<1>4. /\ x \in ThreadTypes /\ x.pc = "page" /\ x.op = "sbrk" /\ x.q = p /\ x.t = cur[p]
      /\ x.v = Pages(sz[p]) /\ x.base = Pages(sz[p]) /\ x.end = Pages(new)
      /\ x.size = sz[p] /\ x.n = new /\ x.v <= x.end
  BY <1>2, <1>3, LoopStarts, SMT
<1>5. Become(p, x) /\ Idle.op = "none" /\ Idle.pc = "user"
  BY <1>1, IdleFacts DEF new
<1> HIDE DEF x
<1>6. SlotInv(p, Idle) /\ state[p] = "live" /\ th[p] = Idle
  BY <1>1, CallingFacts
<1>7. Pages(new) <= TRAPFRAME
  <2>1. Pages(new) <= Pages(MaxSz) /\ Pages(new) \in Nat /\ Pages(MaxSz) \in Nat
    BY <1>2, PagesMonotone, PagesBounds
  <2>2. TRAPFRAME \in Int
    BY MemoryAssumption, SMT DEF MemoryAssumption, TRAPFRAME
  <2> QED BY <2>1, <2>2, RoomAssumption, SMT DEF RoomAssumption
<1>8. SlotKept(p, x)
  BY <1>4, <1>5, <1>6 DEF SlotInv, SlotKept, InExec
<1>9. TableOwned(p, x)
  BY <1>4 DEF TableOwned, InExec
<1>10. TableKept(p, x)
  <2>1. Fixed(p, cur[p]) /\ Mapped(p, cur[p]) = Below(Pages(sz[p]))
    BY <1>5, <1>6 DEF SlotInv, SlotKept
  <2>2. x.base <= x.v
    BY <1>2, <1>4, PagesBounds, SMT
  <2> QED BY <1>4, <1>7, <2>1, <2>2 DEF TableKept, InLoop
<1> QED BY <1>1, <1>4, <1>5, <1>6, <1>8, <1>9, <1>10, CallingFacts, QuietStep DEF SlotInv

\* A thread in the kernel.
LEMMA ThreadFacts ==
    ASSUME IInv, NEW p \in Procs
    PROVE  /\ th[p] \in ThreadTypes /\ SlotInv(p, th[p]) /\ cur[p] \in {1, 2} /\ sz[p] \in Nat
           /\ th[p].size \in Nat /\ th[p].n \in Nat /\ th[p].v \in Nat /\ th[p].end \in Nat
           /\ th[p].base \in Nat /\ calls \in Nat /\ TRAPFRAME \in Nat /\ ~panicked
           /\ (th[p].pc # "user" => th[p].op # "none" /\ state[p] = "live")
<1>1. th[p] \in ThreadTypes /\ SlotInv(p, th[p]) /\ cur[p] \in {1, 2} /\ sz[p] \in Nat /\ calls \in Nat
      /\ ~panicked
  BY DEF IInv, TypeOK, SlotInv, NoPanic
<1>2. TRAPFRAME \in Nat
  BY MemoryAssumption, SMT DEF MemoryAssumption, TRAPFRAME
<1>3. th[p].pc # "user" => th[p].op # "none"
  BY <1>1, IdleFacts DEF SlotInv, TableOwned
<1> QED BY <1>1, <1>2, <1>3, WorksOn DEF ThreadTypes

\* A step of exec() that only moves its thread, and leaves the new table and
\* the arguments in use.
LEMMA ExecMoves ==
    ASSUME IInv, NEW p \in Procs, InExec(th[p]), NEW x \in ThreadTypes, Become(p, x),
           UNCHANGED <<own, free, fixed, state, sz, cur, held, calls, panicked>>,
           InExec(x), x.q = th[p].q, x.t = th[p].t, x.pc \notin {"arg", "map"},
           th[p].pc # "map", x.pc = "root" => th[p].pc = "arg", TableKept(p, x)
    PROVE  IInv'
<1>1. SlotInv(p, th[p]) /\ state[p] = "live" /\ calls \in Nat /\ th[p].op # "fork" /\ x.op # "fork"
  <2>1. th[p].op # "none" /\ th[p].op # "fork" /\ x.op # "fork"
    BY DEF InExec
  <2> QED BY <2>1, ThreadFacts, WorksOn
<1>2. SlotKept(p, x)
  BY <1>1 DEF SlotInv, SlotKept, InExec
<1>3. TableOwned(p, x)
  BY <1>1 DEF SlotInv, TableOwned, InExec
<1> QED BY <1>1, <1>2, <1>3, QuietStep DEF SlotInv

\* The arguments are copied.
LEMMA ExecStartStep ==
    ASSUME IInv, NEW p \in Procs, ExecStart(p)
    PROVE  IInv'
<1> DEFINE x == [th[p] EXCEPT !.pc = "root"]
<1>1. th[p].pc = "arg" /\ Become(p, x) /\ Quiet
  BY DEF ExecStart
<1>2. th[p] \in ThreadTypes /\ SlotInv(p, th[p])
  BY ThreadFacts
<1>3. x \in ThreadTypes
  BY <1>2 DEF ThreadTypes
<1>4. x.pc = "root" /\ x.op = th[p].op /\ x.q = th[p].q /\ x.t = th[p].t /\ x.size = th[p].size
  BY <1>2 DEF ThreadTypes
<1> HIDE DEF x
<1>5. th[p].op = "seg" /\ th[p].size = 0 /\ th[p].q = p /\ th[p].t = 3 - cur[p] /\ Clear(p, 3 - cur[p])
  BY <1>1, <1>2 DEF SlotInv, TableKept, TableOwned, SlotKept, InExec
<1>6. TableKept(p, x)
  BY <1>4, <1>5 DEF TableKept, InLoop
<1>7. InExec(x) /\ InExec(th[p])
  BY <1>4, <1>5 DEF InExec
<1> QED BY <1>1, <1>3, <1>4, <1>6, <1>7, ExecMoves DEF Quiet

\* uvmalloc() for a segment.
LEMMA ExecSegStep ==
    ASSUME IInv, NEW p \in Procs, ExecSeg(p)
    PROVE  IInv'
<1>1. PICK new \in Sizes : /\ th[p].pc = "seg" /\ new > th[p].size /\ new <= MaxSz
                           /\ Become(p, uvmalloc(th[p], "seg", th[p].size, new)) /\ Quiet
  BY DEF ExecSeg
<1> DEFINE x == uvmalloc(th[p], "seg", th[p].size, new)
<1>2. th[p] \in ThreadTypes /\ SlotInv(p, th[p]) /\ th[p].size \in Nat /\ TRAPFRAME \in Nat
  BY ThreadFacts
<1>3. new \in Nat /\ MaxSz \in Nat /\ th[p].size <= new
  BY <1>1, <1>2, MemoryAssumption, SMT DEF MemoryAssumption
<1>4. /\ x \in ThreadTypes /\ x.pc = "page" /\ x.op = "seg" /\ x.q = th[p].q /\ x.t = th[p].t
      /\ x.v = Pages(th[p].size) /\ x.base = Pages(th[p].size) /\ x.end = Pages(new)
      /\ x.size = th[p].size /\ x.n = new /\ x.v <= x.end
  BY <1>2, <1>3, LoopStarts
<1>5. Become(p, x)
  BY <1>1
<1> HIDE DEF x
<1>6. Pages(new) <= TRAPFRAME /\ Pages(th[p].size) \in Nat
  BY <1>1, <1>2, <1>3, PagesMonotone, PagesBounds, RoomAssumption, SMT DEF RoomAssumption
<1>7. /\ InExec(th[p]) /\ Fixed(th[p].q, th[p].t)
      /\ Mapped(th[p].q, th[p].t) = Below(Pages(th[p].size))
  BY <1>1, <1>2 DEF SlotInv, TableKept
<1>8. TableKept(p, x)
  BY <1>1, <1>4, <1>6, <1>7, SMT DEF TableKept, InLoop
<1>9. InExec(x)
  BY <1>4 DEF InExec
<1> QED BY <1>1, <1>4, <1>5, <1>7, <1>8, <1>9, ExecMoves DEF Quiet

\* uvmalloc() for the stack and its guard page.
LEMMA ExecStackStep ==
    ASSUME IInv, NEW p \in Procs, ExecStack(p)
    PROVE  IInv'
<1> DEFINE top == Pages(th[p].size) * PGSIZE
           new == top + 2 * PGSIZE
           x == uvmalloc(th[p], "stack", top, new)
<1>1. th[p].pc = "seg" /\ Become(p, x) /\ Quiet
  BY DEF ExecStack
<1>2. th[p] \in ThreadTypes /\ SlotInv(p, th[p]) /\ th[p].size \in Nat /\ TRAPFRAME \in Nat
  BY ThreadFacts
<1>3. Pages(th[p].size) \in Nat /\ top \in Nat /\ Pages(top) = Pages(th[p].size)
      /\ Pages(new) = Pages(th[p].size) + 2
  BY <1>2, PagesBounds, PagesWhole
<1>4. new \in Nat /\ top <= new
  <2>1. PGSIZE \in Nat
    BY MemoryAssumption DEF MemoryAssumption
  <2> HIDE DEF top
  <2> QED BY <1>3, <2>1, SMT
<1> HIDE DEF top, new
<1>5. /\ x \in ThreadTypes /\ x.pc = "page" /\ x.op = "stack" /\ x.q = th[p].q /\ x.t = th[p].t
      /\ x.v = Pages(top) /\ x.base = Pages(top) /\ x.end = Pages(new)
      /\ x.size = top /\ x.n = new /\ x.v <= x.end
  BY <1>2, <1>3, <1>4, LoopStarts
<1> HIDE DEF x
<1>6. /\ InExec(th[p]) /\ Fixed(th[p].q, th[p].t) /\ th[p].size <= MaxSz
      /\ Mapped(th[p].q, th[p].t) = Below(Pages(th[p].size))
  BY <1>1, <1>2 DEF SlotInv, TableKept
<1>7. Pages(new) <= TRAPFRAME
  <2>1. MaxSz \in Nat
    BY MemoryAssumption DEF MemoryAssumption
  <2>2. Pages(th[p].size) <= Pages(MaxSz) /\ Pages(MaxSz) \in Nat
    BY <1>2, <1>6, <2>1, PagesMonotone, PagesBounds
  <2> QED BY <1>2, <1>3, <2>2, RoomAssumption, SMT DEF RoomAssumption
<1>8. TableKept(p, x)
  BY <1>3, <1>5, <1>6, <1>7, SMT DEF TableKept, InLoop
<1>9. InExec(x)
  BY <1>5 DEF InExec
<1> QED BY <1>1, <1>5, <1>6, <1>8, <1>9, ExecMoves DEF Quiet

\* A loop of exec() is done.
LEMMA ExecLoopDoneStep ==
    ASSUME IInv, NEW p \in Procs, ExecSegDone(p) \/ ExecStackDone(p)
    PROVE  IInv'
<1>1. th[p] \in ThreadTypes /\ SlotInv(p, th[p]) /\ th[p].n \in Nat /\ th[p].v \in Nat /\ th[p].end \in Nat
  BY ThreadFacts
<1>2. /\ InExec(th[p]) /\ th[p].pc = "page" /\ th[p].v >= th[p].end
      /\ UNCHANGED <<own, free, fixed, state, sz, cur, held, calls>>
      /\ \/ /\ th[p].op = "seg" /\ UNCHANGED panicked
            /\ Become(p, [th[p] EXCEPT !.pc = "seg", !.size = th[p].n, !.v = 0, !.base = 0, !.end = 0, !.n = 0])
         \/ /\ th[p].op = "stack" /\ panicked' = (th[p].end - 2 \notin Mapped(p, th[p].t))
            /\ Become(p, [th[p] EXCEPT !.pc = "commit", !.size = th[p].n, !.v = 0, !.base = 0, !.end = 0])
  BY DEF ExecSegDone, ExecStackDone, LoopDone, InExec, Quiet
<1>3. PICK x : /\ Become(p, x) /\ x \in ThreadTypes
               /\ x.size = th[p].n /\ x.op = th[p].op /\ x.q = th[p].q /\ x.t = th[p].t
               /\ x.pc = IF th[p].op = "seg" THEN "seg" ELSE "commit"
  <2>1. CASE th[p].op = "seg"
    <3> DEFINE y == [th[p] EXCEPT !.pc = "seg", !.size = th[p].n, !.v = 0, !.base = 0, !.end = 0, !.n = 0]
    <3>1. y \in ThreadTypes
      BY <1>1 DEF ThreadTypes
    <3>2. y.pc = "seg" /\ y.size = th[p].n /\ y.op = th[p].op /\ y.q = th[p].q /\ y.t = th[p].t
      BY <1>1 DEF ThreadTypes
    <3>3. Become(p, y)
      BY <1>2, <2>1
    <3> HIDE DEF y
    <3> QED BY <2>1, <3>1, <3>2, <3>3
  <2>2. CASE th[p].op = "stack"
    <3> DEFINE y == [th[p] EXCEPT !.pc = "commit", !.size = th[p].n, !.v = 0, !.base = 0, !.end = 0]
    <3>1. y \in ThreadTypes
      BY <1>1 DEF ThreadTypes
    <3>2. y.pc = "commit" /\ y.size = th[p].n /\ y.op = th[p].op /\ y.q = th[p].q /\ y.t = th[p].t
      BY <1>1 DEF ThreadTypes
    <3>3. Become(p, y)
      BY <1>2, <2>2
    <3> HIDE DEF y
    <3> QED BY <2>2, <3>1, <3>2, <3>3
  <2> QED BY <1>2, <2>1, <2>2 DEF InExec
<1>4. /\ Fixed(th[p].q, th[p].t) /\ Mapped(th[p].q, th[p].t) = Below(Pages(th[p].n))
      /\ Pages(th[p].n) <= TRAPFRAME /\ (th[p].op = "seg" => th[p].n <= MaxSz)
  <2>1. /\ Fixed(th[p].q, th[p].t) /\ Mapped(th[p].q, th[p].t) = Below(th[p].v)
        /\ th[p].v <= th[p].end /\ th[p].end = Pages(th[p].n) /\ th[p].end <= TRAPFRAME
        /\ th[p].op = "seg" => th[p].n <= MaxSz
    BY <1>1, <1>2 DEF SlotInv, TableKept, InLoop
  <2>2. th[p].v = th[p].end
    BY <1>1, <1>2, <2>1, LastRound
  <2> QED BY <2>1, <2>2
<1>5. TableKept(p, x)
  BY <1>2, <1>3, <1>4 DEF TableKept, InLoop, InExec
<1>6. InExec(x)
  BY <1>2, <1>3 DEF InExec
<1>7. UNCHANGED panicked
  <2>1. CASE th[p].op = "stack"
    <3>1. /\ th[p].q = p /\ th[p].base \in Nat /\ th[p].base + 2 <= th[p].end
          /\ th[p].end = Pages(th[p].n) /\ th[p].end <= TRAPFRAME
      BY <1>1, <1>2, <2>1, ThreadFacts DEF SlotInv, TableOwned, TableKept, InLoop, InExec
    <3>2. th[p].end - 2 \in Below(th[p].end)
      BY <1>1, <3>1, MemoryAssumption, SMT DEF MemoryAssumption, Below, UserPages, TRAPFRAME
    <3>3. panicked' = FALSE
      BY <1>2, <1>4, <2>1, <3>1, <3>2
    <3> QED BY <3>3 DEF IInv, NoPanic, TypeOK
  <2> QED BY <1>2, <2>1
<1> QED BY <1>2, <1>3, <1>5, <1>6, <1>7, ExecMoves

-----------------------------------------------------------------------------
(* The steps of a call on the table it works on *)

\* No page is given or taken but in table t of s, the trapframe of s, and the
\* page in hand and the arguments of p...
Elsewhere(p, s, t) ==
    /\ \A q \in Procs, u \in {1, 2} : q # s \/ u # t =>
        /\ own'[Root(q, u)] = own[Root(q, u)] /\ Mapped(q, u)' = Mapped(q, u)
        /\ Fixed(q, u)' = Fixed(q, u)
        /\ (<<q, u, TRAMPOLINE>> \in fixed') = (<<q, u, TRAMPOLINE>> \in fixed)
    /\ \A q \in Procs \ {s} : own'[Tf(q)] = own[Tf(q)]
    /\ \A q \in Procs \ {p} : /\ own'[Mem(q)] = own[Mem(q)]
                              /\ \A k \in 1..MAXARG : own'[Arg(q, k)] = own[Arg(q, k)]

\* ...and beside them, only the thread of p changes.
OnlyTouches(p, s, t) ==
    /\ Elsewhere(p, s, t) /\ UNCHANGED <<state, sz, cur>>
    /\ \A q \in Procs \ {p} : th'[q] = th[q]

\* Such a step keeps the invariant if it keeps what is said of the table.
LEMMA WorkStep ==
    ASSUME IInv, NEW p \in Procs, th[p].op # "none", NEW s, NEW t, s = th[p].q, t = th[p].t,
           NEW x \in ThreadTypes, th'[p] = x, x.op = th[p].op, x.q = s, x.t = t,
           OnlyTouches(p, s, t),
           own'[Mem(p)] # 0 <=> x.pc = "map" /\ x.v < TRAPFRAME,
           \A k \in 1..MAXARG : own'[Arg(p, k)] # 0 => InExec(x) /\ (x.pc = "arg" => k <= x.n),
           InExec(x) /\ x.pc \in {"arg", "root"} => Clear(s, t)',
           x.op = "sbrk" => x.pc \in {"page", "map"} /\ x.size = th[p].size /\ Fixed(s, t)',
           TableKept(p, x)', TypeOK', NoneLost', NoPanic'
    PROVE  IInv'
<1>1. /\ s \in Procs /\ t \in {1, 2} /\ state[p] = "live" /\ x.op \in {"fork", "sbrk", "seg", "stack"}
      /\ x.op = "fork" => s # p /\ state[s] = "used" /\ t = 1 /\ th[s] = Idle
      /\ x.op = "sbrk" => s = p /\ t = cur[p]
      /\ x.op \in {"seg", "stack"} => s = p /\ t = 3 - cur[p]
  BY WorksOn, SMT
<1>2. SlotInv(p, th[p]) /\ cur[p] \in {1, 2} /\ 3 - cur[p] \in {1, 2} /\ 3 - cur[p] # cur[p]
  BY ThreadFacts, SMT
<1>3. state'[p] = "live" /\ sz'[p] = sz[p] /\ cur'[p] = cur[p]
  BY <1>1 DEF OnlyTouches, Elsewhere
<1>4. SlotKept(p, x)'
  <2>1. ~InExec(x) \/ x.pc \in {"arg", "root"} => Clear(p, 3 - cur[p])'
    <3>1. CASE x.op \in {"fork", "sbrk"}
      <4>1. Clear(p, 3 - cur[p])
        BY <1>2, <3>1 DEF SlotInv, SlotKept, InExec
      <4>2. /\ own'[Root(p, 3 - cur[p])] = own[Root(p, 3 - cur[p])]
            /\ Mapped(p, 3 - cur[p])' = Mapped(p, 3 - cur[p])
        BY <1>1, <1>2, <1>3, <3>1 DEF OnlyTouches, Elsewhere
      <4> QED BY <1>3, <4>1, <4>2 DEF Clear
    <3>2. CASE x.op \in {"seg", "stack"}
      BY <1>1, <1>3, <3>2 DEF InExec, Clear
    <3> QED BY <1>1, <3>1, <3>2
  <2>2. Fixed(p, cur[p])'
    <3>1. CASE x.op = "sbrk"
      BY <1>1, <1>3, <3>1 DEF Fixed
    <3>2. CASE x.op # "sbrk"
      <4>1. Fixed(p, cur[p])' = Fixed(p, cur[p])
        BY <1>1, <1>2, <1>3, <3>2 DEF OnlyTouches, Elsewhere
      <4> QED BY <1>1, <1>2, <4>1 DEF SlotInv, SlotKept
    <3> QED BY <3>1, <3>2
  <2>3. x.op # "sbrk" => Mapped(p, cur[p])' = Below(Pages(sz[p]))
    <3> SUFFICES ASSUME x.op # "sbrk" PROVE Mapped(p, cur[p])' = Below(Pages(sz[p]))
      OBVIOUS
    <3>1. Mapped(p, cur[p])' = Mapped(p, cur[p])
      BY <1>1, <1>2, <1>3 DEF OnlyTouches, Elsewhere
    <3> QED BY <1>1, <1>2, <3>1 DEF SlotInv, SlotKept
  <2>4. Pages(sz[p]) <= TRAPFRAME
    BY <1>2 DEF SlotInv, SlotKept
  <2> QED BY <1>3, <2>1, <2>2, <2>3, <2>4 DEF SlotKept, Below, UserPages, Mem, Arg
<1>5. TableOwned(p, x)'
  <2>1. TableOwned(p, th[p]) /\ UNCHANGED <<state, sz, cur>>
    BY <1>2 DEF SlotInv, OnlyTouches
  <2>2. ASSUME NEW r \in Procs, x.op = "fork", th'[r].op = "fork", th'[r].q = x.q PROVE r = p
    BY <2>1, <2>2 DEF TableOwned, OnlyTouches
  <2>3. InExec(x) => x.q = p /\ x.t = 3 - cur'[p]
    BY <1>1, <2>1 DEF InExec
  <2>4. x.op = "sbrk" => x.q = p /\ x.t = cur'[p] /\ x.pc \in {"page", "map"} /\ x.size = sz'[p]
    BY <1>1, <2>1 DEF TableOwned
  <2>5. x.op = "fork" => x.q \in Procs /\ state'[x.q] = "used" /\ x.t = 1
    BY <1>1, <2>1
  <2> QED BY <1>1, <2>2, <2>3, <2>4, <2>5 DEF TableOwned, InExec
<1>6. ASSUME x.op = "fork" PROVE SlotInv(s, th[s])'
  <2>1. SlotInv(s, Idle) /\ cur[s] = 1 /\ state'[s] = "used" /\ th'[s] = Idle
        /\ cur'[s] = 1 /\ sz'[s] = sz[s]
    BY <1>1, <1>6, ThreadFacts DEF SlotInv, SlotKept, OnlyTouches
  <2>2. own'[Root(s, 2)] = own[Root(s, 2)] /\ Mapped(s, 2)' = Mapped(s, 2)
    <3>1. s \in Procs /\ 2 \in {1, 2} /\ 2 # t
      BY <1>1, <1>6, Numerals
    <3> QED BY <3>1 DEF OnlyTouches, Elsewhere
  <2>3. SlotKept(s, Idle) /\ Idle.op = "none" /\ Idle.pc = "user" /\ Clear(s, 2)
    BY <2>1, IdleFacts, Numerals DEF SlotInv, SlotKept, InExec
  <2>4. Clear(s, 2)'
    BY <2>2, <2>3 DEF Clear
  <2>5. own'[Mem(s)] = own[Mem(s)] /\ \A k \in 1..MAXARG : own'[Arg(s, k)] = own[Arg(s, k)]
    BY <1>1, <1>6 DEF OnlyTouches, Elsewhere
  <2>6. SlotKept(s, th[s])'
    BY <2>1, <2>3, <2>4, <2>5, Numerals DEF SlotKept, Mem, Arg, InExec, Clear
  <2> QED BY <2>1, <2>3, <2>6 DEF SlotInv, TableOwned, TableKept, InExec, InLoop
<1>7. ASSUME NEW q \in Procs \ {p, s} PROVE SameSlot(q)
  BY <1>7 DEF SameSlot, SameTables, SamePlaces, OnlyTouches, Elsewhere
<1>8. SlotInv(p, th[p])'
  BY <1>4, <1>5 DEF SlotInv
<1>9. CASE x.op = "fork"
  <2>1. th'[s].op # "fork"
    BY <1>1, <1>9, IdleFacts DEF OnlyTouches, Elsewhere
  <2> QED BY <1>6, <1>7, <1>8, <1>9, <2>1, TwoSlots
<1>10. CASE x.op # "fork"
  BY <1>1, <1>7, <1>8, <1>10, OneSlot
<1> QED BY <1>9, <1>10

-----------------------------------------------------------------------------
(* The steps that change a slot and no page *)

\* A step that leaves the pages alone loses none.
LEMMA StillKeeps ==
    ASSUME IInv, UNCHANGED <<own, free, held, panicked>>
    PROVE  NoneLost' /\ NoPanic' /\ own' \in [Places -> Frames \cup {0}]'
BY PlacesConstant DEF IInv, TypeOK, NoneLost, NoPanic, Owned, InUse

\* exit().
LEMMA ExitCall ==
    ASSUME IInv, NEW p \in Procs, Exit(p)
    PROVE  IInv'
<1>1. /\ Calling(p) /\ state' = [state EXCEPT ![p] = "zombie"]
      /\ UNCHANGED <<own, free, fixed, sz, cur, th, panicked>>
  BY DEF Exit
<1>2. state[p] = "live" /\ th[p] = Idle /\ calls' \in Nat /\ UNCHANGED <<held, panicked>> /\ SlotInv(p, Idle)
  BY <1>1, CallingFacts
<1>3. state'[p] = "zombie" /\ \A q \in Procs \ {p} : state'[q] = state[q]
  BY <1>1 DEF IInv, TypeOK
<1>4. NoneLost' /\ NoPanic' /\ TypeOK'
  BY <1>1, <1>2, StillKeeps, PlacesConstant DEF IInv, TypeOK
<1>5. \A q \in Procs \ {p} : SameSlot(q)
  BY <1>1, <1>3, Still DEF SameSlot, SameTables
<1>6. SlotKept(p, th[p])'
  BY <1>1, <1>2, <1>3 DEF SlotInv, SlotKept, Clear, Fixed, Mapped, Root, Leaf, Tf, Mem, Arg, UserPages,
                          TRAPFRAME, TRAMPOLINE
<1>7. th'[p] = Idle /\ th'[p].op # "fork" /\ th[p].op # "fork"
  BY <1>1, <1>2, IdleFacts
<1>8. TableOwned(p, th[p])' /\ TableKept(p, th[p])'
  BY <1>7, IdleFacts DEF TableOwned, TableKept, InLoop, InExec
<1> QED BY <1>2, <1>4, <1>5, <1>6, <1>7, <1>8, OneSlot DEF SlotInv

\* growproc() takes over the size.
LEMMA SbrkDoneStep ==
    ASSUME IInv, NEW p \in Procs, SbrkDone(p)
    PROVE  IInv'
<1>1. /\ th[p].pc = "page" /\ th[p].op = "sbrk" /\ th[p].v >= th[p].end
      /\ sz' = [sz EXCEPT ![p] = th[p].n] /\ th' = [th EXCEPT ![p] = Idle]
      /\ UNCHANGED <<own, free, fixed, state, cur, held, calls, panicked>>
  BY DEF SbrkDone, LoopDone, Become
<1>2. /\ th[p] \in ThreadTypes /\ SlotInv(p, th[p]) /\ th[p].v \in Nat /\ th[p].end \in Nat
      /\ th[p].n \in Nat /\ state[p] = "live"
  BY <1>1, ThreadFacts
<1>3. /\ sz'[p] = th[p].n /\ th'[p] = Idle
      /\ \A q \in Procs \ {p} : sz'[q] = sz[q] /\ th'[q] = th[q]
  BY <1>1 DEF IInv, TypeOK
<1>4. NoneLost' /\ NoPanic' /\ TypeOK'
  BY <1>1, <1>2, IdleFacts, StillKeeps, PlacesConstant DEF IInv, TypeOK
<1>5. \A q \in Procs \ {p} : SameSlot(q)
  <2>1. fixed' = fixed /\ state' = state /\ cur' = cur /\ own' = own
    BY <1>1, SMT
  <2>2. \A q : SameTables(q) /\ SamePlaces(q)
    BY <2>1, Still DEF SameTables
  <2> QED BY <1>3, <2>1, <2>2 DEF SameSlot
<1>6. /\ Fixed(p, cur[p]) /\ Mapped(p, cur[p]) = Below(Pages(th[p].n)) /\ Pages(th[p].n) <= TRAPFRAME
  <2>1. /\ Fixed(p, cur[p]) /\ Mapped(p, cur[p]) = Below(th[p].v) /\ th[p].v <= th[p].end
        /\ th[p].end = Pages(th[p].n) /\ th[p].end <= TRAPFRAME
    BY <1>1, <1>2 DEF SlotInv, TableKept, TableOwned, InLoop
  <2>2. th[p].v = th[p].end
    BY <1>1, <1>2, <2>1, LastRound
  <2> QED BY <2>1, <2>2
<1>7. Idle.op = "none" /\ Idle.pc = "user"
  BY IdleFacts
<1>8. SlotKept(p, Idle)'
  <2>1. Mapped(p, cur[p])' = Mapped(p, cur[p]) /\ Fixed(p, cur[p])' = Fixed(p, cur[p])
    BY <1>1 DEF Fixed, Mapped, Leaf, UserPages, TRAPFRAME, TRAMPOLINE
  <2>2. Clear(p, 3 - cur[p])' = Clear(p, 3 - cur[p])
    BY <1>1 DEF Clear, Mapped, Leaf, Root, UserPages
  <2>3. Clear(p, 3 - cur[p])
    BY <1>1, <1>2 DEF SlotInv, SlotKept, InExec
  <2>4. own[Mem(p)] = 0 /\ \A k \in 1..MAXARG : own[Arg(p, k)] = 0
    BY <1>1, <1>2 DEF SlotInv, SlotKept, InExec
  <2> QED BY <1>1, <1>2, <1>3, <1>6, <1>7, <2>1, <2>2, <2>3, <2>4 DEF SlotKept, InExec, Mem, Arg, Below, UserPages
<1>9. SlotInv(p, th[p])'
  BY <1>3, <1>7, <1>8 DEF SlotInv, TableOwned, TableKept, InLoop, InExec
<1>10. th'[p].op # "fork" /\ th[p].op # "fork"
  BY <1>1, <1>3, <1>7
<1> QED BY <1>2, <1>4, <1>5, <1>9, <1>10, OneSlot

\* fork() is done and the child is live.
LEMMA ForkDoneStep ==
    ASSUME IInv, NEW p \in Procs, ForkDone(p)
    PROVE  IInv'
<1>0. PICK s : s = th[p].q
  OBVIOUS
<1>1. /\ th[p].pc = "page" /\ th[p].op = "fork" /\ th[p].v >= th[p].end
      /\ state' = [state EXCEPT ![s] = "live"]
      /\ sz' = [sz EXCEPT ![s] = sz[p]] /\ th' = [th EXCEPT ![p] = Idle]
      /\ UNCHANGED <<own, free, fixed, cur, held, calls, panicked>>
  BY <1>0 DEF ForkDone, LoopDone, Become
<1>2. /\ th[p] \in ThreadTypes /\ SlotInv(p, th[p]) /\ th[p].v \in Nat /\ th[p].end \in Nat
      /\ th[p].n \in Nat /\ state[p] = "live" /\ sz[p] \in Nat
  BY <1>1, ThreadFacts
<1>3. s \in Procs /\ s # p /\ state[s] = "used" /\ th[p].t = 1 /\ th[s] = Idle
  BY <1>0, <1>1, WorksOn
<1>4. /\ sz'[s] = sz[p] /\ th'[p] = Idle /\ th'[s] = Idle /\ state'[s] = "live" /\ state'[p] = "live"
      /\ sz'[p] = sz[p] /\ \A q \in Procs \ {p, s} : sz'[q] = sz[q] /\ th'[q] = th[q] /\ state'[q] = state[q]
  BY <1>1, <1>2, <1>3 DEF IInv, TypeOK
<1>5. NoneLost' /\ NoPanic' /\ TypeOK'
  BY <1>1, <1>2, <1>3, IdleFacts, StillKeeps, PlacesConstant DEF IInv, TypeOK
<1>6. \A q \in Procs \ {p, s} : SameSlot(q)
  BY <1>1, <1>4, Still, SMT DEF SameSlot, SameTables
<1>7. Fixed(s, 1) /\ Mapped(s, 1) = Below(Pages(sz[p])) /\ Pages(sz[p]) <= TRAPFRAME
  <2>1. /\ Fixed(s, 1) /\ Mapped(s, 1) = Below(th[p].v) /\ th[p].v <= th[p].end
        /\ th[p].end = Pages(sz[p]) /\ th[p].end <= TRAPFRAME
    BY <1>0, <1>1, <1>2, <1>3 DEF SlotInv, TableKept, InLoop
  <2>2. th[p].v = th[p].end
    BY <1>1, <1>2, <2>1, LastRound
  <2> QED BY <2>1, <2>2
<1>8. Idle.op = "none" /\ Idle.pc = "user"
  BY IdleFacts
<1>9. SlotInv(s, Idle) /\ cur[s] = 1
  BY <1>3, ThreadFacts DEF SlotInv, SlotKept
<1>10. SlotKept(s, Idle)'
  <2>1. Mapped(s, 1)' = Mapped(s, 1) /\ Fixed(s, 1)' = Fixed(s, 1) /\ Clear(s, 2)' = Clear(s, 2)
    BY <1>1, Still
  <2>2. Clear(s, 2) /\ own[Mem(s)] = 0 /\ \A k \in 1..MAXARG : own[Arg(s, k)] = 0
    BY <1>8, <1>9, Numerals DEF SlotInv, SlotKept, InExec
  <2>3. cur'[s] = 1
    BY <1>1, <1>9
  <2> QED BY <1>1, <1>4, <1>7, <1>8, <2>1, <2>2, <2>3, SMT DEF SlotKept, InExec, Mem, Arg, Below, UserPages,
             Fixed, Mapped, Clear, Root, Leaf
<1>11. SlotKept(p, Idle)'
  <2>1. /\ Mapped(p, cur[p])' = Mapped(p, cur[p]) /\ Fixed(p, cur[p])' = Fixed(p, cur[p])
        /\ Clear(p, 3 - cur[p])' = Clear(p, 3 - cur[p])
    BY <1>1 DEF Fixed, Mapped, Leaf, UserPages, TRAPFRAME, TRAMPOLINE, Clear, Root
  <2>2. /\ Clear(p, 3 - cur[p]) /\ own[Mem(p)] = 0 /\ \A k \in 1..MAXARG : own[Arg(p, k)] = 0
        /\ Fixed(p, cur[p]) /\ Mapped(p, cur[p]) = Below(Pages(sz[p]))
    BY <1>1, <1>2 DEF SlotInv, SlotKept, InExec
  <2> QED BY <1>1, <1>2, <1>4, <1>7, <1>8, <2>1, <2>2 DEF SlotKept, InExec, Mem, Arg, Below, UserPages
<1>12. SlotInv(p, th[p])' /\ SlotInv(s, th[s])'
  BY <1>4, <1>8, <1>10, <1>11 DEF SlotInv, TableOwned, TableKept, InLoop, InExec
<1>13. th'[p].op # "fork" /\ th'[s].op # "fork"
  BY <1>4, <1>8
<1> QED BY <1>0, <1>1, <1>5, <1>6, <1>12, <1>13, TwoSlots

\* fork() has found a slot.
LEMMA ForkCall ==
    ASSUME IInv, NEW p \in Procs, Fork(p)
    PROVE  IInv'
<1> DEFINE New(q) == [Idle EXCEPT !.pc = "tf", !.op = "fork", !.q = q, !.t = 1]
<1>1. PICK s \in Procs :
        /\ Calling(p) /\ state[s] = "unused" /\ state' = [state EXCEPT ![s] = "used"]
        /\ Become(p, New(s)) /\ UNCHANGED <<own, free, fixed, sz, cur, panicked>>
  BY DEF Fork
<1> DEFINE x == New(s)
<1>2. x.pc = "tf" /\ x.op = "fork" /\ x.q = s /\ x.t = 1 /\ x.size = 0 /\ x \in ThreadTypes
  <2>0. 1 \in 0..2
    BY SMT
  <2>1. x \in ThreadTypes
    BY <2>0, IdleFacts DEF ThreadTypes
  <2>2. x.pc = "tf" /\ x.op = "fork" /\ x.q = s /\ x.t = 1 /\ x.size = Idle.size
    BY IdleFacts DEF ThreadTypes
  <2> HIDE DEF x
  <2> QED BY <2>1, <2>2, IdleFacts
<1>3. Become(p, x)
  BY <1>1
<1> HIDE DEF x, New
<1>4. state[p] = "live" /\ th[p] = Idle /\ calls' \in Nat /\ UNCHANGED <<held, panicked>> /\ SlotInv(p, Idle) /\ s # p
  BY <1>1, CallingFacts
<1>5. /\ th'[p] = x /\ state'[s] = "used" /\ state'[p] = "live"
      /\ \A q \in Procs \ {p} : th'[q] = th[q]
      /\ \A q \in Procs \ {s} : state'[q] = state[q]
  BY <1>1, <1>3, <1>4 DEF Become, IInv, TypeOK
<1>6. NoneLost' /\ NoPanic' /\ TypeOK'
  BY <1>1, <1>2, <1>3, <1>4, StillKeeps, PlacesConstant, ZenonT(40) DEF IInv, TypeOK, Become
<1>7. \A q \in Procs \ {p, s} : SameSlot(q)
  BY <1>1, <1>5, Still, SMT DEF SameSlot, SameTables
<1>8. SlotInv(s, Idle) /\ th[s] = Idle /\ cur[s] = 1 /\ th'[s] = Idle /\ Idle.op = "none" /\ Idle.pc = "user"
  BY <1>1, <1>4, <1>5, ThreadFacts, IdleFacts DEF SlotInv, SlotKept
<1>9. SlotKept(s, th[s])'
  <2>1. Clear(s, 2)' = Clear(s, 2) /\ SamePlaces(s)
    BY <1>1, Still
  <2>2. Clear(s, 2) /\ own[Mem(s)] = 0 /\ \A k \in 1..MAXARG : own[Arg(s, k)] = 0
    BY <1>8, SMT DEF SlotInv, SlotKept, InExec
  <2> QED BY <1>1, <1>5, <1>8, <2>1, <2>2 DEF SlotInv, SlotKept, InExec, SamePlaces, Mem, Arg, Clear, Mapped, Root, Leaf, UserPages
<1>10. SlotKept(p, th[p])'
  <2>1. /\ Mapped(p, cur[p])' = Mapped(p, cur[p]) /\ Fixed(p, cur[p])' = Fixed(p, cur[p])
        /\ Clear(p, 3 - cur[p])' = Clear(p, 3 - cur[p])
    BY <1>1 DEF Fixed, Mapped, Leaf, UserPages, TRAPFRAME, TRAMPOLINE, Clear, Root
  <2>2. /\ Clear(p, 3 - cur[p]) /\ own[Mem(p)] = 0 /\ \A k \in 1..MAXARG : own[Arg(p, k)] = 0
        /\ Fixed(p, cur[p]) /\ Mapped(p, cur[p]) = Below(Pages(sz[p])) /\ Pages(sz[p]) <= TRAPFRAME
    BY <1>4, <1>8 DEF SlotInv, SlotKept, InExec
  <2> QED BY <1>1, <1>2, <1>5, <2>1, <2>2 DEF SlotKept, InExec, Mem, Arg, Below, UserPages
<1>11. ASSUME NEW r \in Procs, r # p, th[r].op # "none" PROVE th[r].q \notin {p, s}
  <2>1. th[r].op = "fork" => state[th[r].q] = "used"
    BY <1>11, WorksOn
  <2>2. th[r].op # "fork" => th[r].q = r
    BY <1>11, WorksOn
  <2> QED BY <1>1, <1>4, <1>8, <1>11, <2>1, <2>2
<1>12. TableOwned(p, th[p])'
  <2>1. \A r \in Procs : th'[r].op = "fork" /\ th'[r].q = s => r = p
    BY <1>5, <1>11
  <2> QED BY <1>2, <1>5, <2>1 DEF TableOwned, InExec
<1>13. TableKept(p, th[p])'
  <2>1. own[Tf(s)] = 0 /\ Clear(s, 1)
    BY <1>1, <1>8 DEF SlotInv, SlotKept
  <2>2. own'[Tf(s)] = 0 /\ Clear(s, 1)'
    BY <1>1, <2>1, Still DEF Tf
  <2> QED BY <1>2, <1>5, <2>2 DEF TableKept, InLoop, Tf
<1>14. SlotInv(s, th[s])' /\ SlotInv(p, th[p])'
  BY <1>8, <1>9, <1>10, <1>12, <1>13 DEF SlotInv, TableOwned, TableKept, InLoop, InExec
<1>15. \A r \in Procs \ {p, s} : SlotInv(r, th[r])'
  <2> DEFINE A == {p, s}
  <2>1. /\ A \in SUBSET Procs
        /\ \A r \in Procs \ A : SameSlot(r) /\ (th[r].op # "none" => th[r].q \notin A)
        /\ \A r \in A : th'[r].op = "fork" => th'[r].q \in A
    BY <1>2, <1>5, <1>7, <1>8, <1>11
  <2> HIDE DEF A
  <2>2. \A r \in Procs \ A : SlotInv(r, th[r])'
    BY <2>1, Others
  <2> QED BY <2>2 DEF A
<1>16. \A r \in Procs : SlotInv(r, th[r])'
  BY <1>14, <1>15
<1> QED BY <1>6, <1>16 DEF IInv, SlotInv

-----------------------------------------------------------------------------
(* kalloc() *)

\* What a kalloc() into place y has done once process p, at work on table t of s,
\* goes on with the locals x.
Took(p, s, t, y, x) ==
    /\ OnlyTouches(p, s, t) /\ TypeOK' /\ NoneLost' /\ NoPanic' /\ th'[p] = x /\ own'[y] # 0
    /\ \A z \in Places : z # y => own'[z] = own[z]
    /\ Mapped(s, t)' = Mapped(s, t) /\ Fixed(s, t)' = Fixed(s, t)

\* kalloc() into an empty place of a call.
LEMMA TakeTouches ==
    ASSUME IInv, NEW p \in Procs, NEW s \in Procs, NEW t \in {1, 2}, NEW y \in Places, own[y] = 0, Take(y),
           NEW x \in ThreadTypes, Become(p, x), UNCHANGED <<fixed, state, sz, cur, held, calls, panicked>>,
           y \in Inner(s, t) \/ y \in {Tf(s), Mem(p)} \/ y \in Args(p)
    PROVE  Took(p, s, t, y, x)
<1>1. /\ own' \in [Places -> Frames \cup {0}] /\ free' \subseteq Frames /\ NoneLost'
      /\ own'[y] # 0 /\ \A z \in Places : z # y => own'[z] = own[z]
      /\ \A q \in Procs, u \in {1, 2} :
            (\A v \in UserPages : y # Leaf(q, u, v)) => Mapped(q, u)' = Mapped(q, u)
  BY TakeEffect DEF IInv
<1>2. \A q \in Procs, u \in {1, 2} : Mapped(q, u)' = Mapped(q, u)
  <2>1. ASSUME NEW q, NEW u, NEW v PROVE y # Leaf(q, u, v)
    <3>1. /\ Leaf(q, u, v) \notin Inner(s, t) /\ Leaf(q, u, v) \notin Args(p)
          /\ Leaf(q, u, v) # Tf(s) /\ Leaf(q, u, v) # Mem(p)
      BY DEF Leaf, Inner, Args, Arg, Tf, Mem, Root, Mid, Low
    <3> QED BY <3>1
  <2> QED BY <1>1, <2>1, SMT
<1>3. th'[p] = x /\ \A q \in Procs \ {p} : th'[q] = th[q]
  BY DEF Become, IInv, TypeOK
<1>4. TypeOK'
  BY <1>1, PlacesConstant DEF IInv, TypeOK, Become
<1>5. \A q, u : Fixed(q, u)' = Fixed(q, u)
  BY DEF Fixed, TRAPFRAME, TRAMPOLINE
<1>6. ASSUME NEW q \in Procs, NEW u \in {1, 2}, q # s \/ u # t PROVE own'[Root(q, u)] = own[Root(q, u)]
  <2>1. Root(q, u) \notin Inner(s, t) /\ Root(q, u) \notin Args(p) /\ Root(q, u) \notin {Tf(s), Mem(p)}
    BY <1>6 DEF Root, Inner, Mid, Low, Args, Arg, Tf, Mem
  <2>2. Root(q, u) \in Places /\ Root(q, u) # y
    BY <2>1, PlacesOf
  <2> QED BY <1>1, <2>2
<1>7. ASSUME NEW q \in Procs \ {s} PROVE own'[Tf(q)] = own[Tf(q)]
  <2>1. Tf(q) \notin Inner(s, t) /\ Tf(q) \notin Args(p) /\ Tf(q) \notin {Tf(s), Mem(p)}
    BY OtherIn
  <2>2. Tf(q) \in Places /\ Tf(q) # y
    BY <2>1, PlacesOf
  <2> QED BY <1>1, <2>2
<1>8. ASSUME NEW q \in Procs \ {p} PROVE own'[Mem(q)] = own[Mem(q)]
  <2>1. Mem(q) \notin Inner(s, t) /\ Mem(q) \notin Args(p) /\ Mem(q) \notin {Tf(s), Mem(p)}
    BY OtherIn
  <2>2. Mem(q) \in Places /\ Mem(q) # y
    BY <2>1, PlacesOf
  <2> QED BY <1>1, <2>2
<1>9. ASSUME NEW q \in Procs \ {p}, NEW k \in 1..MAXARG PROVE own'[Arg(q, k)] = own[Arg(q, k)]
  <2>1. Arg(q, k) \notin Inner(s, t) /\ Arg(q, k) \notin Args(p) /\ Arg(q, k) \notin {Tf(s), Mem(p)}
    BY <1>9 DEF Root, Inner, Mid, Low, Args, Arg, Tf, Mem
  <2>2. Arg(q, k) \in Places /\ Arg(q, k) # y
    BY <2>1, PlacesOf
  <2> QED BY <1>1, <2>2
<1>10. OnlyTouches(p, s, t)
  BY <1>2, <1>3, <1>5, <1>6, <1>7, <1>8, <1>9 DEF OnlyTouches, Elsewhere
<1>11. NoPanic'
  BY DEF IInv, NoPanic
<1> QED BY <1>1, <1>2, <1>3, <1>4, <1>5, <1>10, <1>11 DEF Took

\* uvmcopy() finds every page of the parent.
LEMMA SourceFound ==
    ASSUME IInv, NEW p \in Procs, th[p].pc = "page", th[p].v < th[p].end
    PROVE  ~NoSource(p)
<1> SUFFICES ASSUME th[p].op = "fork" PROVE th[p].v \in Mapped(p, cur[p])
  BY DEF NoSource
<1>1. SlotInv(p, th[p]) /\ th[p].v \in Nat /\ th[p].end \in Nat /\ state[p] = "live"
  BY ThreadFacts
<1>2. Mapped(p, cur[p]) = Below(Pages(sz[p])) /\ th[p].end = Pages(sz[p]) /\ th[p].end <= TRAPFRAME
  BY <1>1 DEF SlotInv, SlotKept, TableKept, InLoop
<1>3. th[p].v \in UserPages
  BY <1>1, <1>2, MemoryAssumption, SMT DEF MemoryAssumption, UserPages, TRAPFRAME
<1> QED BY <1>2, <1>3 DEF Below

\* kalloc() succeeds.
LEMMA KallocStep ==
    ASSUME IInv, NEW p \in Procs, Kalloc(p)
    PROVE  IInv'
<1>1. PICK y \in Wants(p) : Take(y) /\ Become(p, Served(th[p])) /\ panicked' = NoSource(p)
                            /\ UNCHANGED <<fixed, state, sz, cur, held, calls>>
  BY DEF Kalloc
<1>2. PICK s, t, x : s = th[p].q /\ t = th[p].t /\ x = Served(th[p])
  OBVIOUS
<1>3. /\ th[p] \in ThreadTypes /\ SlotInv(p, th[p]) /\ th[p].v \in Nat /\ th[p].end \in Nat /\ th[p].n \in Nat
      /\ TRAPFRAME \in Nat /\ ~panicked
  BY ThreadFacts
<1>4. \/ th[p].pc = "arg" /\ th[p].n < th[p].end /\ y = Arg(p, th[p].n + 1)
      \/ th[p].pc = "tf" /\ y = Tf(s)
      \/ th[p].pc = "root" /\ y = Root(s, t)
      \/ th[p].pc = "page" /\ th[p].v < th[p].end /\ y = Mem(p)
      \/ th[p].pc = "map" /\ Missing(s, t, th[p].v) # {} /\ y = NextNode(s, t, th[p].v)
  BY <1>1, <1>2 DEF Wants
<1>5. th[p].op # "none" /\ s \in Procs /\ t \in {1, 2}
  <2>1. th[p].op # "none"
    BY <1>4, ThreadFacts
  <2> QED BY <1>2, <2>1, WorksOn
<1>6. UNCHANGED panicked
  <2>1. ~NoSource(p)
    BY <1>4, SourceFound DEF NoSource
  <2>2. panicked \in BOOLEAN /\ panicked' \in BOOLEAN
    BY <1>1 DEF IInv, TypeOK, NoSource
  <2> QED BY <1>1, <1>3, <2>1, <2>2
<1>7. /\ Take(y) /\ Become(p, x)
      /\ UNCHANGED <<fixed, state, sz, cur, held, calls, panicked>>
  BY <1>1, <1>2, <1>6, SMT
<1>8. Mem(p) \in Places /\ Tf(s) \in Places /\ Root(s, t) \in Places
      /\ \A k \in 1..MAXARG : Arg(p, k) \in Places
  BY <1>5, PlacesOf
<1>9. TRAMPOLINE \in Nat /\ TRAMPOLINE = TRAPFRAME + 1 /\ MAXARG \in Nat
  BY MemoryAssumption, SMT DEF MemoryAssumption, TRAPFRAME, TRAMPOLINE
<1>10. CASE th[p].pc = "arg"
  <2>1. th[p].op = "seg" /\ th[p].size = 0 /\ th[p].n < th[p].end /\ th[p].end <= MAXARG
        /\ y = Arg(p, th[p].n + 1) /\ s = p /\ t = 3 - cur[p]
    BY <1>2, <1>3, <1>4, <1>10 DEF SlotInv, TableKept, TableOwned, InExec
  <2>2. x = [th[p] EXCEPT !.n = @ + 1]
    BY <1>2, <1>10 DEF Served
  <2>3. x \in ThreadTypes
    <3>1. th[p].n + 1 \in Nat
      BY <1>3, <2>1, NextRound
    <3> QED BY <1>3, <2>2, <3>1 DEF ThreadTypes
  <2>4. x.pc = "arg" /\ x.op = "seg" /\ x.q = s /\ x.t = t /\ x.size = 0 /\ x.n = th[p].n + 1 /\ x.end = th[p].end
    BY <1>2, <1>3, <1>10, <2>1, <2>2 DEF ThreadTypes
  <2>5. th[p].n + 1 \in 1..MAXARG
    BY <1>3, <1>9, <2>1, SMT
  <2>6. y \in Places /\ own[y] = 0 /\ y \in Args(p)
    <3>1. \A k \in 1..MAXARG : own[Arg(p, k)] # 0 => k <= th[p].n
      BY <1>3, <1>10 DEF SlotInv, SlotKept
    <3>2. ~(th[p].n + 1 <= th[p].n)
      BY <1>3, Counted
    <3> QED BY <1>8, <2>1, <2>5, <3>1, <3>2 DEF Args
  <2>7. /\ OnlyTouches(p, s, t) /\ TypeOK' /\ NoneLost' /\ NoPanic' /\ th'[p] = x
        /\ \A z \in Places : z # y => own'[z] = own[z]
        /\ Mapped(s, t)' = Mapped(s, t)
    <3>1. Took(p, s, t, y, x)
      BY <1>5, <1>7, <2>3, <2>6, TakeTouches
    <3> QED BY <3>1 DEF Took
  <2>8. own'[Mem(p)] = own[Mem(p)] /\ own'[Root(s, t)] = own[Root(s, t)]
    <3>1. y # Mem(p) /\ y # Root(s, t)
      BY <2>1 DEF Arg, Mem, Root
    <3> QED BY <1>8, <2>7, <3>1
  <2>9. ASSUME NEW k \in 1..MAXARG, own'[Arg(p, k)] # 0 PROVE k <= x.n
    <3>0. /\ th[p].n + 1 <= th[p].n + 1 /\ x.n = th[p].n + 1
          /\ k <= th[p].n => k <= th[p].n + 1
      BY <1>3, <2>4, Counted
    <3>1. CASE k = th[p].n + 1
      BY <3>0, <3>1
    <3>2. CASE k # th[p].n + 1
      <4>1. own'[Arg(p, k)] = own[Arg(p, k)]
        <5>1. Arg(p, k) # y
          BY <2>1, <3>2 DEF Arg
        <5> QED BY <1>8, <2>7, <5>1
      <4>2. k <= th[p].n
        BY <1>3, <1>10, <2>9, <4>1 DEF SlotInv, SlotKept
      <4> QED BY <3>0, <4>2
    <3> QED BY <3>1, <3>2
  <2>10. Clear(s, t)'
    <3>1. Clear(s, t)
      BY <1>3, <1>10, <2>1 DEF SlotInv, SlotKept
    <3> QED BY <2>7, <2>8, <3>1 DEF Clear
  <2>11. own'[Mem(p)] = 0
    BY <1>3, <1>10, <2>8 DEF SlotInv, SlotKept
  <2>12. TableKept(p, x)'
    <3>1. x.n <= x.end /\ x.end <= MAXARG
      BY <1>3, <2>1, <2>4, NextRound
    <3> QED BY <2>4, <3>1 DEF TableKept, InLoop
  <2>13. x.op = th[p].op /\ InExec(x)
    BY <2>1, <2>4 DEF InExec
  <2> QED BY <1>2, <1>5, <2>3, <2>4, <2>7, <2>9, <2>10, <2>11, <2>12, <2>13, WorkStep
<1>11. CASE th[p].pc = "tf"
  <2>1. th[p].op = "fork" /\ th[p].size = 0 /\ y = Tf(s) /\ own[Tf(s)] = 0 /\ Clear(s, t)
    BY <1>2, <1>3, <1>4, <1>11 DEF SlotInv, TableKept
  <2>2. x = [th[p] EXCEPT !.pc = "root"]
    BY <1>2, <1>11 DEF Served
  <2>3. x \in ThreadTypes
    BY <1>3, <2>2 DEF ThreadTypes
  <2>4. x.pc = "root" /\ x.op = "fork" /\ x.q = s /\ x.t = t /\ x.size = 0
    BY <1>2, <1>3, <2>1, <2>2 DEF ThreadTypes
  <2>5. /\ OnlyTouches(p, s, t) /\ TypeOK' /\ NoneLost' /\ NoPanic' /\ th'[p] = x
        /\ \A z \in Places : z # y => own'[z] = own[z]
        /\ Mapped(s, t)' = Mapped(s, t)
    <3>1. y \in Places /\ own[y] = 0 /\ y \in {Tf(s), Mem(p)}
      BY <1>8, <2>1
    <3>2. Took(p, s, t, y, x)
      BY <1>5, <1>7, <2>3, <3>1, TakeTouches
    <3> QED BY <3>2 DEF Took
  <2>6. own'[Mem(p)] = own[Mem(p)] /\ own'[Root(s, t)] = own[Root(s, t)]
        /\ \A k \in 1..MAXARG : own'[Arg(p, k)] = own[Arg(p, k)]
    <3>1. y # Mem(p) /\ y # Root(s, t) /\ \A k : y # Arg(p, k)
      BY <2>1 DEF Tf, Arg, Mem, Root
    <3> QED BY <1>8, <2>5, <3>1
  <2>7. Clear(s, t)'
    BY <2>1, <2>5, <2>6 DEF Clear
  <2>8. own'[Mem(p)] = 0 /\ \A k \in 1..MAXARG : own'[Arg(p, k)] = 0
    BY <1>3, <1>11, <2>1, <2>6 DEF SlotInv, SlotKept, InExec
  <2>9. TableKept(p, x)'
    BY <2>4, <2>7 DEF TableKept, InLoop
  <2> QED BY <1>2, <1>5, <2>1, <2>3, <2>4, <2>5, <2>7, <2>8, <2>9, WorkStep
<1>12. CASE th[p].pc = "root"
  <2>1. th[p].op \in {"fork", "seg"} /\ th[p].size = 0 /\ y = Root(s, t) /\ Clear(s, t) /\ own[y] = 0
    BY <1>2, <1>3, <1>4, <1>12 DEF SlotInv, TableKept, Clear
  <2>2. x = [th[p] EXCEPT !.pc = "map", !.v = TRAMPOLINE]
    BY <1>2, <1>12 DEF Served
  <2>3. x \in ThreadTypes
    BY <1>3, <1>9, <2>2 DEF ThreadTypes
  <2>4. x.pc = "map" /\ x.op = th[p].op /\ x.q = s /\ x.t = t /\ x.size = 0 /\ x.v = TRAMPOLINE
    BY <1>2, <1>3, <2>1, <2>2 DEF ThreadTypes
  <2>5. /\ OnlyTouches(p, s, t) /\ TypeOK' /\ NoneLost' /\ NoPanic' /\ th'[p] = x
        /\ \A z \in Places : z # y => own'[z] = own[z]
        /\ Mapped(s, t)' = Mapped(s, t)
    <3>1. y \in Inner(s, t) /\ y \in Places
      BY <1>8, <2>1, RootIn
    <3>2. Took(p, s, t, y, x)
      BY <1>5, <1>7, <2>1, <2>3, <3>1, TakeTouches
    <3> QED BY <3>2 DEF Took
  <2>6. own'[Mem(p)] = own[Mem(p)] /\ \A k \in 1..MAXARG : own'[Arg(p, k)] = own[Arg(p, k)]
    BY <1>8, <2>1, <2>5 DEF Root, Mem, Arg
  <2>7. own'[Mem(p)] = 0 /\ \A k \in 1..MAXARG : own'[Arg(p, k)] # 0 => InExec(x)
    BY <1>3, <1>12, <2>4, <2>6 DEF SlotInv, SlotKept, InExec
  <2>8. Mapped(s, t)' = {} /\ x.v > TRAPFRAME /\ ~(x.v < TRAPFRAME) /\ x.v # TRAPFRAME
    BY <2>1, <2>4, <2>5, FixedPages DEF Clear
  <2>9. TableKept(p, x)'
    BY <2>1, <2>4, <2>8 DEF TableKept, InLoop, TRAMPOLINE, TRAPFRAME
  <2> QED BY <1>2, <1>5, <2>1, <2>3, <2>4, <2>5, <2>7, <2>8, <2>9, WorkStep
<1>13. CASE th[p].pc = "page"
  <2>1. th[p].v < th[p].end /\ y = Mem(p) /\ own[y] = 0 /\ InLoop(th[p]) /\ th[p].end <= TRAPFRAME
    BY <1>3, <1>4, <1>13 DEF SlotInv, SlotKept, TableKept, InLoop
  <2>2. x = [th[p] EXCEPT !.pc = "map"]
    BY <1>2, <1>13 DEF Served
  <2>3. x \in ThreadTypes
    BY <1>3, <2>2 DEF ThreadTypes
  <2>4. /\ x.pc = "map" /\ x.op = th[p].op /\ x.q = s /\ x.t = t /\ x.size = th[p].size /\ x.v = th[p].v
        /\ x.base = th[p].base /\ x.end = th[p].end /\ x.n = th[p].n
    BY <1>2, <1>3, <2>2 DEF ThreadTypes
  <2>5. /\ OnlyTouches(p, s, t) /\ TypeOK' /\ NoneLost' /\ NoPanic' /\ th'[p] = x /\ own'[y] # 0
        /\ \A z \in Places : z # y => own'[z] = own[z]
        /\ Mapped(s, t)' = Mapped(s, t) /\ Fixed(s, t)' = Fixed(s, t)
    <3>1. y \in Places /\ y \in {Tf(s), Mem(p)}
      BY <1>8, <2>1
    <3>2. Took(p, s, t, y, x)
      BY <1>5, <1>7, <2>1, <2>3, <3>1, TakeTouches
    <3> QED BY <3>2 DEF Took
  <2>6. \A k \in 1..MAXARG : own'[Arg(p, k)] = own[Arg(p, k)]
    <3>1. \A k : y # Arg(p, k)
      BY <2>1 DEF Arg, Mem
    <3> QED BY <1>8, <2>5, <3>1
  <2>7. \A k \in 1..MAXARG : own'[Arg(p, k)] # 0 => InExec(x)
    BY <1>3, <2>4, <2>6 DEF SlotInv, SlotKept, InExec
  <2>8. x.v < TRAPFRAME /\ ~(x.v >= TRAPFRAME)
    BY <1>3, <2>1, <2>4, FixedPages, InRange
  <2>9. sz'[p] = sz[p]
    BY <1>1
  <2>10. TableKept(p, th[p]) /\ Fixed(s, t)
    BY <1>2, <1>3, <2>1 DEF SlotInv, TableKept
  <2>11. TableKept(p, x)'
    <3>1. /\ x.op # "none" /\ Fixed(s, t)' /\ Mapped(s, t)' = Below(x.v)
          /\ x.base = Pages(x.size) /\ x.base <= x.v
          /\ x.v <= x.end /\ x.v < x.end
          /\ x.end = Pages(x.n) /\ x.end <= TRAPFRAME
          /\ x.op = "fork" => x.size = 0 /\ x.n = sz'[p]
          /\ x.op = "seg" => x.n <= MaxSz
          /\ x.op = "stack" => x.base + 2 <= x.end
      BY <1>2, <1>5, <2>1, <2>4, <2>5, <2>9, <2>10, ZenonT(40) DEF TableKept
    <3> QED BY <2>4, <2>8, <3>1 DEF TableKept, Below, UserPages, Pages, TRAPFRAME
  <2> QED BY <1>2, <1>5, <2>1, <2>3, <2>4, <2>5, <2>7, <2>8, <2>10, <2>11, WorkStep
<1>14. CASE th[p].pc = "map"
  <2> DEFINE v == th[p].v
  <2>1. Missing(s, t, v) # {} /\ y = NextNode(s, t, v) /\ x = th[p]
    BY <1>2, <1>4, <1>14 DEF Served
  <2>2. v \in 0..(MAXPAGE - 1)
    <3>1. v < TRAPFRAME \/ v >= TRAPFRAME
      BY <1>3, SMT
    <3>2. v >= TRAPFRAME => v \in {TRAMPOLINE, TRAPFRAME}
      BY <1>3, <1>14 DEF SlotInv, TableKept
    <3> QED BY <1>3, <3>1, <3>2, MemoryAssumption, SMT DEF MemoryAssumption, TRAMPOLINE, TRAPFRAME
  <2>3. y \in {Mid(s, t, v), Low(s, t, v)} /\ own[y] = 0
    BY <2>1 DEF Missing, NextNode
  <2>4. y \in Inner(s, t) /\ y \in Places
    BY <1>5, <2>2, <2>3, PlacesOf DEF Inner
  <2>5. /\ OnlyTouches(p, s, t) /\ TypeOK' /\ NoneLost' /\ NoPanic' /\ th'[p] = x
        /\ \A z \in Places : z # y => own'[z] = own[z]
        /\ Mapped(s, t)' = Mapped(s, t) /\ Fixed(s, t)' = Fixed(s, t)
    <3>1. Took(p, s, t, y, x)
      BY <1>3, <1>5, <1>7, <2>1, <2>3, <2>4, TakeTouches
    <3> QED BY <3>1 DEF Took
  <2>6. own'[Mem(p)] = own[Mem(p)] /\ \A k \in 1..MAXARG : own'[Arg(p, k)] = own[Arg(p, k)]
    <3>1. y # Mem(p) /\ \A k : y # Arg(p, k)
      BY <2>3, SMT DEF Mid, Low, Mem, Arg
    <3> QED BY <1>8, <2>5, <3>1
  <2>7. /\ own'[Mem(p)] # 0 <=> x.pc = "map" /\ x.v < TRAPFRAME
        /\ \A k \in 1..MAXARG : own'[Arg(p, k)] # 0 => InExec(x)
    BY <1>3, <2>1, <2>6 DEF SlotInv, SlotKept
  <2>8. TableKept(p, x) /\ x.pc = "map" /\ x.q = s /\ x.t = t /\ x.op = th[p].op
    BY <1>2, <1>3, <1>14, <2>1 DEF SlotInv
  <2>9. TableKept(p, x)'
    <3>1. sz'[p] = sz[p] /\ fixed' = fixed
      BY <1>1
    <3>2. ASSUME x.v >= TRAPFRAME
          PROVE  /\ x.op \in {"fork", "seg"} /\ x.size = 0 /\ x.v \in {TRAMPOLINE, TRAPFRAME}
                 /\ Mapped(s, t)' = {}
                 /\ x.v = TRAPFRAME => <<s, t, TRAMPOLINE>> \in fixed'
      BY <2>5, <2>8, <3>1, <3>2 DEF TableKept
    <3>3. ASSUME InLoop(x)
          PROVE  /\ x.op # "none" /\ Fixed(s, t)' /\ Mapped(s, t)' = Below(x.v)
                 /\ x.base = Pages(x.size) /\ x.base <= x.v /\ x.v < x.end /\ x.v <= x.end
                 /\ x.end = Pages(x.n) /\ x.end <= TRAPFRAME
                 /\ x.op = "fork" => x.size = 0 /\ x.n = sz'[p]
                 /\ x.op = "seg" => x.n <= MaxSz
      BY <2>5, <2>8, <3>1, <3>3 DEF TableKept
    <3> QED BY <2>8, <3>2, <3>3 DEF TableKept, InLoop, Below, UserPages, Pages, TRAPFRAME, TRAMPOLINE
  <2>10. x.op = "sbrk" => x.pc \in {"page", "map"} /\ x.size = th[p].size /\ Fixed(s, t)'
    <3>1. ASSUME x.op = "sbrk" PROVE x.v < TRAPFRAME
      <4>1. x.v \in Nat /\ ~(x.v >= TRAPFRAME)
        BY <1>3, <2>1, <2>8, <3>1 DEF TableKept
      <4> QED BY <1>3, <4>1, SMT
    <3> QED BY <2>1, <2>5, <2>8, <3>1 DEF TableKept, InLoop
  <2> QED BY <1>2, <1>3, <1>5, <2>1, <2>5, <2>7, <2>8, <2>9, <2>10, WorkStep
<1> QED BY <1>4, <1>10, <1>11, <1>12, <1>13, <1>14

-----------------------------------------------------------------------------
(* mappages() *)

\* What mappages() of the page in hand of p has done, at leaf v of table t of s.
Moved(p, s, t, v) ==
    /\ own' \in [Places -> Frames \cup {0}] /\ free' \subseteq Frames /\ NoneLost'
    /\ own'[Mem(p)] = 0
    /\ \A z \in Places : z # Mem(p) /\ z # Leaf(s, t, v) => own'[z] = own[z]
    /\ Mapped(s, t)' = Mapped(s, t) \cup {v}
    /\ \A q \in Procs, u \in {1, 2} : q # s \/ u # t => Mapped(q, u)' = Mapped(q, u)

\* The page in hand of p becomes leaf v of table t of s.
LEMMA MoveEffect ==
    ASSUME TypeOK, NoneLost, NEW p \in Procs, NEW s \in Procs, NEW t \in {1, 2}, NEW v \in UserPages,
           own[Mem(p)] # 0, own[Leaf(s, t, v)] = 0, Move(Mem(p), Leaf(s, t, v)), held' = held
    PROVE  Moved(p, s, t, v)
<1> DEFINE y == Leaf(s, t, v)
<1>1. Mem(p) \in Places /\ y \in Places /\ y # Mem(p)
  BY PlacesOf, MemIsPlace
<1>2. own' = [own EXCEPT ![Mem(p)] = 0, ![y] = own[Mem(p)]] /\ free' = free
  BY DEF Move
<1>3. /\ own'[Mem(p)] = 0 /\ own'[y] = own[Mem(p)]
      /\ \A z \in Places : z # Mem(p) /\ z # y => own'[z] = own[z]
  BY <1>1, <1>2 DEF TypeOK
<1>4. own' \in [Places -> Frames \cup {0}] /\ free' \subseteq Frames
  BY <1>1, <1>2 DEF TypeOK
<1>5. NoneLost'
  <2> SUFFICES ASSUME NEW g \in Frames, g \notin free', g \notin held'
               PROVE  g \in Owned'
    BY DEF NoneLost
  <2>1. PICK z \in InUse : own[z] = g
    BY <1>2 DEF NoneLost, Owned
  <2>2. z \in Places /\ own[z] # 0
    BY DEF InUse
  <2>3. CASE z = Mem(p)
    <3>1. y \in InUse' /\ own'[y] = g
      BY <1>1, <1>3, <2>1, <2>2, <2>3, PlacesConstant DEF InUse
    <3> QED BY <3>1 DEF Owned
  <2>4. CASE z # Mem(p)
    <3>1. z \in InUse' /\ own'[z] = g
      BY <1>1, <1>3, <2>1, <2>2, <2>4, PlacesConstant DEF InUse
    <3> QED BY <3>1 DEF Owned
  <2> QED BY <2>3, <2>4
<1>6. ASSUME NEW q \in Procs, NEW u \in {1, 2}
      PROVE  \A w \in UserPages : own'[Leaf(q, u, w)] # 0 <=> own[Leaf(q, u, w)] # 0 \/ (q = s /\ u = t /\ w = v)
  <2> SUFFICES ASSUME NEW w \in UserPages
               PROVE  own'[Leaf(q, u, w)] # 0 <=> own[Leaf(q, u, w)] # 0 \/ (q = s /\ u = t /\ w = v)
    OBVIOUS
  <2>1. Leaf(q, u, w) \in Places /\ Leaf(q, u, w) # Mem(p)
    BY PlacesOf, MemIsPlace
  <2>2. Leaf(q, u, w) = y <=> q = s /\ u = t /\ w = v
    BY DEF Leaf
  <2> HIDE DEF y
  <2> QED BY <1>3, <2>1, <2>2
<1>7. ASSUME NEW q \in Procs, NEW u \in {1, 2}
      PROVE  Mapped(q, u)' = {w \in UserPages : own'[Leaf(q, u, w)] # 0}
  BY DEF Mapped, Leaf, UserPages
<1>8. Mapped(s, t)' = Mapped(s, t) \cup {v}
  BY <1>6, <1>7 DEF Mapped
<1>9. ASSUME NEW q \in Procs, NEW u \in {1, 2}, q # s \/ u # t PROVE Mapped(q, u)' = Mapped(q, u)
  BY <1>6, <1>7, <1>9 DEF Mapped
<1> QED BY <1>3, <1>4, <1>5, <1>8, <1>9 DEF Moved

\* mappages() of a page of user memory.
LEMMA MapPageStep ==
    ASSUME IInv, NEW p \in Procs, MapPage(p)
    PROVE  IInv'
<1>1. PICK s, t, v, x : /\ s = th[p].q /\ t = th[p].t /\ v = th[p].v
                        /\ x = [th[p] EXCEPT !.pc = "page", !.v = @ + 1]
  OBVIOUS
<1>2. /\ th[p].pc = "map" /\ v \in UserPages /\ Move(Mem(p), Leaf(s, t, v))
      /\ panicked' = (v \in Mapped(s, t)) /\ Become(p, x)
      /\ UNCHANGED <<fixed, state, sz, cur, held, calls>>
  BY <1>1 DEF MapPage
<1>3. /\ th[p] \in ThreadTypes /\ SlotInv(p, th[p]) /\ th[p].end \in Nat /\ v \in Nat /\ th[p].base \in Nat
      /\ TRAPFRAME \in Nat
  BY <1>1, ThreadFacts
<1>4. th[p].op # "none" /\ s \in Procs /\ t \in {1, 2}
  BY <1>1, <1>2, ThreadFacts, WorksOn
<1>5. v < TRAPFRAME
  BY <1>2, MemoryAssumption, SMT DEF MemoryAssumption, UserPages, TRAPFRAME
<1>6. /\ Fixed(s, t) /\ Mapped(s, t) = Below(v)
      /\ th[p].base = Pages(th[p].size) /\ th[p].base <= v /\ v < th[p].end
      /\ th[p].end = Pages(th[p].n) /\ th[p].end <= TRAPFRAME
      /\ th[p].op = "fork" => th[p].size = 0 /\ th[p].n = sz[p]
      /\ th[p].op = "seg" => th[p].n <= MaxSz
      /\ th[p].op = "stack" => th[p].base + 2 <= th[p].end
  <2>1. InLoop(th[p]) /\ TableKept(p, th[p])
    BY <1>1, <1>2, <1>3, <1>5 DEF InLoop, SlotInv
  <2> QED BY <1>1, <1>2, <2>1 DEF TableKept
<1>7. own[Mem(p)] # 0
  BY <1>1, <1>2, <1>3, <1>5 DEF SlotInv, SlotKept
<1>8. v \notin Mapped(s, t) /\ own[Leaf(s, t, v)] = 0
  <2>1. ~(v < v)
    BY <1>3, SMT
  <2> QED BY <1>2, <1>6, <2>1 DEF Below, Mapped
<1>9. /\ own' \in [Places -> Frames \cup {0}] /\ free' \subseteq Frames /\ NoneLost'
      /\ own'[Mem(p)] = 0
      /\ \A z \in Places : z # Mem(p) /\ z # Leaf(s, t, v) => own'[z] = own[z]
      /\ Mapped(s, t)' = Mapped(s, t) \cup {v}
      /\ \A q \in Procs, u \in {1, 2} : q # s \/ u # t => Mapped(q, u)' = Mapped(q, u)
  <2>1. held' = held
    BY <1>2, SMT
  <2>2. Moved(p, s, t, v)
    BY <1>2, <1>4, <1>7, <1>8, <2>1, MoveEffect DEF IInv
  <2> QED BY <2>2 DEF Moved
<1>10. x \in ThreadTypes
  <2>1. th[p].v + 1 \in Nat
    BY <1>1, <1>3, SMT
  <2> QED BY <1>1, <1>3, <2>1 DEF ThreadTypes
<1>11. /\ x.pc = "page" /\ x.op = th[p].op /\ x.q = s /\ x.t = t /\ x.size = th[p].size /\ x.v = v + 1
       /\ x.base = th[p].base /\ x.end = th[p].end /\ x.n = th[p].n
  BY <1>1, <1>3 DEF ThreadTypes
<1>12. th'[p] = x /\ \A q \in Procs \ {p} : th'[q] = th[q]
  BY <1>2 DEF Become, IInv, TypeOK
<1>13. TypeOK' /\ NoPanic'
  BY <1>2, <1>8, <1>9, <1>10, PlacesConstant, SMT DEF IInv, TypeOK, Become, NoPanic
<1>14. \A q, u : Fixed(q, u)' = Fixed(q, u)
  BY <1>2 DEF Fixed, TRAPFRAME, TRAMPOLINE
<1>15. /\ \A q \in Procs, u \in {1, 2} : own'[Root(q, u)] = own[Root(q, u)]
       /\ \A q \in Procs : own'[Tf(q)] = own[Tf(q)]
       /\ \A q \in Procs, k \in 1..MAXARG : own'[Arg(q, k)] = own[Arg(q, k)]
       /\ \A q \in Procs \ {p} : own'[Mem(q)] = own[Mem(q)]
  <2>1. ASSUME NEW q \in Procs, NEW u \in {1, 2} PROVE own'[Root(q, u)] = own[Root(q, u)]
    <3>1. Root(q, u) \in Places /\ Root(q, u) # Mem(p) /\ Root(q, u) # Leaf(s, t, v)
      BY PlacesOf DEF Root, Mem, Leaf
    <3> QED BY <1>9, <3>1
  <2>2. ASSUME NEW q \in Procs PROVE own'[Tf(q)] = own[Tf(q)]
    <3>1. Tf(q) \in Places /\ Tf(q) # Mem(p) /\ Tf(q) # Leaf(s, t, v)
      BY PlacesOf DEF Tf, Mem, Leaf
    <3> QED BY <1>9, <3>1
  <2>3. ASSUME NEW q \in Procs, NEW k \in 1..MAXARG PROVE own'[Arg(q, k)] = own[Arg(q, k)]
    <3>1. Arg(q, k) \in Places /\ Arg(q, k) # Mem(p) /\ Arg(q, k) # Leaf(s, t, v)
      BY PlacesOf DEF Arg, Mem, Leaf
    <3> QED BY <1>9, <3>1
  <2>4. ASSUME NEW q \in Procs \ {p} PROVE own'[Mem(q)] = own[Mem(q)]
    <3>1. Mem(q) \in Places /\ Mem(q) # Mem(p) /\ Mem(q) # Leaf(s, t, v)
      BY PlacesOf DEF Mem, Leaf
    <3> QED BY <1>9, <3>1
  <2> QED BY <2>1, <2>2, <2>3, <2>4
<1>16. OnlyTouches(p, s, t)
  BY <1>2, <1>9, <1>12, <1>14, <1>15 DEF OnlyTouches, Elsewhere
<1>17. \A k \in 1..MAXARG : own'[Arg(p, k)] # 0 => InExec(x)
  BY <1>3, <1>11, <1>15 DEF SlotInv, SlotKept, InExec
<1>18. Mapped(s, t)' = Below(x.v)
  <2>1. v \in UserPages
    BY <1>2
  <2> QED BY <1>6, <1>9, <1>11, <2>1, BelowNext
<1>19. TableKept(p, x)'
  <2>1. v + 1 <= th[p].end
    BY <1>3, <1>6, NextRound
  <2>2. th[p].base <= v + 1
    BY <1>3, <1>6, StillBelow
  <2>3. sz'[p] = sz[p] /\ x.v <= x.end /\ x.base <= x.v /\ Fixed(s, t)'
    BY <1>2, <1>6, <1>11, <1>14, <2>1, <2>2
  <2> QED BY <1>4, <1>6, <1>11, <1>18, <2>3 DEF TableKept, InLoop, Below, UserPages, Pages, TRAPFRAME
<1> QED BY <1>1, <1>4, <1>6, <1>9, <1>10, <1>11, <1>12, <1>13, <1>14, <1>16, <1>17, <1>19, WorkStep

\* mappages() of the trampoline and the trapframe.
LEMMA MapFixedStep ==
    ASSUME IInv, NEW p \in Procs, MapFixed(p)
    PROVE  IInv'
<1>1. PICK s, t, v : s = th[p].q /\ t = th[p].t /\ v = th[p].v
  OBVIOUS
<1>2. PICK x : x = CASE v = TRAMPOLINE -> [th[p] EXCEPT !.v = TRAPFRAME]
                   [] v = TRAPFRAME /\ th[p].op = "fork" -> uvmalloc(th[p], "fork", 0, sz[p])
                   [] OTHER -> [th[p] EXCEPT !.pc = "seg", !.v = 0, !.end = 0, !.n = 0]
  OBVIOUS
<1>3. /\ th[p].pc = "map" /\ v >= TRAPFRAME /\ fixed' = fixed \cup {<<s, t, v>>} /\ Become(p, x)
      /\ UNCHANGED <<own, free, state, sz, cur, held, calls, panicked>>
  BY <1>1, <1>2 DEF MapFixed
<1>4. th[p] \in ThreadTypes /\ SlotInv(p, th[p]) /\ v \in Nat /\ TRAPFRAME \in Nat /\ sz[p] \in Nat
  BY <1>1, ThreadFacts
<1>5. th[p].op # "none" /\ s \in Procs /\ t \in {1, 2} /\ state[p] = "live"
  BY <1>1, <1>3, ThreadFacts, WorksOn
<1>6. /\ th[p].op \in {"fork", "seg"} /\ th[p].size = 0 /\ v \in {TRAMPOLINE, TRAPFRAME}
      /\ Mapped(s, t) = {} /\ (v = TRAPFRAME => <<s, t, TRAMPOLINE>> \in fixed)
  <2>1. TableKept(p, th[p])
    BY <1>4 DEF SlotInv
  <2> QED BY <1>1, <1>3, <2>1 DEF TableKept
<1>7. TRAMPOLINE = TRAPFRAME + 1 /\ MaxSz \in Nat
  BY MemoryAssumption, SMT DEF MemoryAssumption, TRAMPOLINE, TRAPFRAME
<1>8. own[Mem(p)] = 0 /\ Pages(sz[p]) <= TRAPFRAME
      /\ \A k \in 1..MAXARG : own[Arg(p, k)] # 0 => InExec(th[p])
  BY <1>1, <1>3, <1>4, NotBelow DEF SlotInv, SlotKept
<1>9. Pages(0) = 0 /\ Below(0) = {}
  <2>1. Pages(0) = 0
    BY PagesWhole
  <2> QED BY <2>1, SMT DEF Below, UserPages
<1>10. /\ x \in ThreadTypes /\ x.op = th[p].op /\ x.q = s /\ x.t = t /\ x.size = 0
       /\ \/ v = TRAMPOLINE /\ x.pc = "map" /\ x.v = TRAPFRAME
          \/ /\ v = TRAPFRAME /\ x.op = "fork" /\ x.pc = "page" /\ x.v = 0 /\ x.base = 0
             /\ x.end = Pages(sz[p]) /\ x.n = sz[p] /\ x.v <= x.end
          \/ v = TRAPFRAME /\ x.op = "seg" /\ x.pc = "seg"
  <2>1. CASE v = TRAMPOLINE
    <3>1. x = [th[p] EXCEPT !.v = TRAPFRAME]
      BY <1>2, <1>4, <1>7, <2>1, SMT
    <3>2. x \in ThreadTypes
      BY <1>4, <3>1 DEF ThreadTypes
    <3>3. x.op = th[p].op /\ x.q = s /\ x.t = t /\ x.size = 0 /\ x.pc = "map" /\ x.v = TRAPFRAME
      BY <1>1, <1>3, <1>4, <1>6, <3>1 DEF ThreadTypes
    <3> QED BY <2>1, <3>2, <3>3
  <2>2. CASE v = TRAPFRAME /\ th[p].op = "fork"
    <3>1. x = uvmalloc(th[p], "fork", 0, sz[p])
      BY <1>2, <1>4, <1>7, <2>2, SMT
    <3> QED BY <1>1, <1>4, <1>9, <2>2, <3>1, LoopStarts, SMT
  <2>3. CASE v = TRAPFRAME /\ th[p].op = "seg"
    <3>1. x = [th[p] EXCEPT !.pc = "seg", !.v = 0, !.end = 0, !.n = 0]
      BY <1>2, <1>4, <1>7, <2>3, SMT
    <3>2. x \in ThreadTypes
      BY <1>4, <3>1 DEF ThreadTypes
    <3>3. x.op = th[p].op /\ x.q = s /\ x.t = t /\ x.size = 0 /\ x.pc = "seg"
      BY <1>1, <1>4, <1>6, <3>1 DEF ThreadTypes
    <3> QED BY <2>3, <3>2, <3>3
  <2> QED BY <1>6, <2>1, <2>2, <2>3
<1>11. th'[p] = x /\ \A q \in Procs \ {p} : th'[q] = th[q]
  BY <1>3 DEF Become, IInv, TypeOK
<1>12. TypeOK' /\ NoneLost' /\ NoPanic'
  BY <1>3, <1>10, StillKeeps, PlacesConstant DEF IInv, TypeOK, Become
<1>13. OnlyTouches(p, s, t)
  <2>1. ASSUME NEW q \in Procs, NEW u \in {1, 2}, q # s \/ u # t
        PROVE  /\ Fixed(q, u)' = Fixed(q, u)
               /\ (<<q, u, TRAMPOLINE>> \in fixed') = (<<q, u, TRAMPOLINE>> \in fixed)
    <3>1. \A w : <<q, u, w>> \in fixed' <=> <<q, u, w>> \in fixed
      BY <1>3, <2>1
    <3> QED BY <3>1, SMT DEF Fixed, TRAMPOLINE, TRAPFRAME
  <2>2. \A q, u : own'[Root(q, u)] = own[Root(q, u)] /\ Mapped(q, u)' = Mapped(q, u) /\ SamePlaces(q)
    BY <1>3, Still
  <2> QED BY <1>3, <1>11, <2>1, <2>2 DEF OnlyTouches, Elsewhere, SamePlaces
<1>14. Mapped(s, t)' = {} /\ own'[Mem(p)] = 0 /\ \A k \in 1..MAXARG : own'[Arg(p, k)] # 0 => InExec(x)
  BY <1>3, <1>6, <1>8, <1>10, Still DEF SamePlaces, InExec
<1>15. <<s, t, TRAMPOLINE>> \in fixed' /\ (v = TRAPFRAME => Fixed(s, t)')
  <2>1. <<s, t, TRAMPOLINE>> \in fixed' /\ (v = TRAPFRAME => <<s, t, TRAPFRAME>> \in fixed')
    BY <1>3, <1>6
  <2> QED BY <2>1 DEF Fixed, TRAMPOLINE, TRAPFRAME
<1>16. TableKept(p, x)'
  <2>1. CASE x.pc = "map"
    <3>1. x.v = TRAPFRAME /\ ~(x.v < TRAPFRAME)
      BY <1>10, <2>1, FixedPages
    <3> QED BY <1>6, <1>10, <1>14, <1>15, <2>1, <3>1 DEF TableKept, InLoop, TRAPFRAME, TRAMPOLINE
  <2>2. CASE x.pc = "page"
    <3>1. /\ x.op = "fork" /\ Fixed(s, t)' /\ Mapped(s, t)' = Below(x.v) /\ x.base = Pages(x.size)
          /\ x.base <= x.v /\ x.v <= x.end /\ x.end = Pages(x.n) /\ x.end <= TRAPFRAME
          /\ x.size = 0 /\ x.n = sz'[p]
      <4>1. v = TRAPFRAME /\ x.op = "fork" /\ x.v = 0 /\ x.base = 0 /\ x.end = Pages(sz[p]) /\ x.n = sz[p]
            /\ x.v <= x.end /\ x.size = 0
        BY <1>10, <2>2
      <4>2. 0 <= 0
        BY SMT
      <4> QED BY <1>3, <1>8, <1>9, <1>14, <1>15, <4>1, <4>2
    <3> QED BY <1>10, <2>2, <3>1 DEF TableKept, InLoop, Below, UserPages, Pages, TRAPFRAME
  <2>3. CASE x.pc = "seg"
    <3>1. /\ InExec(x) /\ Fixed(s, t)' /\ Mapped(s, t)' = Below(Pages(x.size))
          /\ Pages(x.size) <= TRAPFRAME /\ x.size <= MaxSz
      <4>1. v = TRAPFRAME /\ x.op = "seg" /\ x.size = 0
        BY <1>10, <2>3
      <4>2. 0 <= TRAPFRAME /\ 0 <= MaxSz
        BY <1>4, <1>7, SMT
      <4> QED BY <1>9, <1>14, <1>15, <4>1, <4>2 DEF InExec
    <3> QED BY <1>10, <2>3, <3>1 DEF TableKept, InLoop, Below, UserPages, Pages, TRAPFRAME
  <2> QED BY <1>10, <2>1, <2>2, <2>3
<1>17. (x.pc = "map" => ~(x.v < TRAPFRAME)) /\ x.op # "sbrk" /\ x.pc \notin {"arg", "root"}
  BY <1>4, <1>6, <1>10, SMT
<1> QED BY <1>1, <1>5, <1>10, <1>11, <1>12, <1>13, <1>14, <1>16, <1>17, WorkStep

-----------------------------------------------------------------------------
(* kfree() *)

\* What the kfree()s of the pages in S have done, on behalf of process p at work
\* on table t of s.
Gave(p, s, t, S) ==
    /\ own' \in [Places -> Frames \cup {0}] /\ free' \subseteq Frames /\ NoneLost'
    /\ \A z \in Places : own'[z] = IF z \in S THEN 0 ELSE own[z]
    /\ Mapped(s, t)' = {v \in Mapped(s, t) : Leaf(s, t, v) \notin S}
    /\ Elsewhere(p, s, t)

\* kfree() of places of one table and of one call.
LEMMA GiveTouches ==
    ASSUME IInv, NEW p \in Procs, NEW s \in Procs, NEW t \in {1, 2}, NEW S, Give(S), held' = held,
           \A z \in S : z \in Inner(s, t) \/ z \in Leaves(s, t, 0, MAXPAGE) \/ z \in {Tf(s), Mem(p)} \/ z \in Args(p),
           fixed' = fixed \/ fixed' = Unfixed(s, t)
    PROVE  Gave(p, s, t, S)
<1>1. /\ own' \in [Places -> Frames \cup {0}] /\ free' \subseteq Frames /\ NoneLost'
      /\ \A z \in Places : own'[z] = IF z \in S THEN 0 ELSE own[z]
      /\ \A q \in Procs, u \in {1, 2} : Mapped(q, u)' = {v \in Mapped(q, u) : Leaf(q, u, v) \notin S}
  BY GiveEffect DEF IInv
<1>2. ASSUME NEW q \in Procs, NEW u \in {1, 2}, q # s \/ u # t
      PROVE  /\ own'[Root(q, u)] = own[Root(q, u)] /\ Mapped(q, u)' = Mapped(q, u)
             /\ Fixed(q, u)' = Fixed(q, u)
             /\ (<<q, u, TRAMPOLINE>> \in fixed') = (<<q, u, TRAMPOLINE>> \in fixed)
  <2>1. Root(q, u) \in Places /\ Root(q, u) \notin S
    <3>1. /\ Root(q, u) \notin Inner(s, t) /\ Root(q, u) \notin Leaves(s, t, 0, MAXPAGE)
          /\ Root(q, u) \notin {Tf(s), Mem(p)} /\ Root(q, u) \notin Args(p)
      BY <1>2 DEF Root, Inner, Mid, Low, Leaves, Leaf, Args, Arg, Tf, Mem
    <3> QED BY <3>1, PlacesOf
  <2>2. ASSUME NEW v PROVE Leaf(q, u, v) \notin S
    <3>1. /\ Leaf(q, u, v) \notin Inner(s, t) /\ Leaf(q, u, v) \notin Leaves(s, t, 0, MAXPAGE)
          /\ Leaf(q, u, v) \notin {Tf(s), Mem(p)} /\ Leaf(q, u, v) \notin Args(p)
      BY <1>2 DEF Root, Inner, Mid, Low, Leaves, Leaf, Args, Arg, Tf, Mem
    <3> QED BY <3>1
  <2>3. \A w : <<q, u, w>> \in fixed' <=> <<q, u, w>> \in fixed
    BY <1>2 DEF Unfixed
  <2>4. Fixed(q, u)' = Fixed(q, u)
    BY <2>3 DEF Fixed, TRAMPOLINE, TRAPFRAME
  <2>5. own'[Root(q, u)] = own[Root(q, u)]
    BY <1>1, <2>1
  <2>6. Mapped(q, u)' = Mapped(q, u)
    <3>1. Mapped(q, u)' = {v \in Mapped(q, u) : Leaf(q, u, v) \notin S}
      BY <1>1
    <3> QED BY <2>2, <3>1
  <2>7. (<<q, u, TRAMPOLINE>> \in fixed') = (<<q, u, TRAMPOLINE>> \in fixed)
    BY <2>3, SMT
  <2> QED BY <2>4, <2>5, <2>6, <2>7
<1>3. ASSUME NEW q \in Procs \ {s} PROVE own'[Tf(q)] = own[Tf(q)]
  <2>1. /\ Tf(q) \notin Inner(s, t) /\ Tf(q) \notin Leaves(s, t, 0, MAXPAGE)
        /\ Tf(q) \notin {Tf(s), Mem(p)} /\ Tf(q) \notin Args(p)
    BY DEF Root, Inner, Mid, Low, Leaves, Leaf, Args, Arg, Tf, Mem
  <2> QED BY <1>1, <2>1, PlacesOf
<1>4. ASSUME NEW q \in Procs \ {p} PROVE own'[Mem(q)] = own[Mem(q)]
  <2>1. /\ Mem(q) \notin Inner(s, t) /\ Mem(q) \notin Leaves(s, t, 0, MAXPAGE)
        /\ Mem(q) \notin {Tf(s), Mem(p)} /\ Mem(q) \notin Args(p)
    BY DEF Root, Inner, Mid, Low, Leaves, Leaf, Args, Arg, Tf, Mem
  <2> QED BY <1>1, <2>1, PlacesOf
<1>5. ASSUME NEW q \in Procs \ {p}, NEW k \in 1..MAXARG PROVE own'[Arg(q, k)] = own[Arg(q, k)]
  <2>1. /\ Arg(q, k) \notin Inner(s, t) /\ Arg(q, k) \notin Leaves(s, t, 0, MAXPAGE)
        /\ Arg(q, k) \notin {Tf(s), Mem(p)} /\ Arg(q, k) \notin Args(p)
    BY DEF Root, Inner, Mid, Low, Leaves, Leaf, Args, Arg, Tf, Mem
  <2> QED BY <1>1, <2>1, PlacesOf
<1>6. Elsewhere(p, s, t)
  BY <1>2, <1>3, <1>4, <1>5 DEF Elsewhere
<1> QED BY <1>1, <1>6 DEF Gave

\* proc_freepagetable() of a table with exactly the pages of its size.
LEMMA FreeTable ==
    ASSUME NEW q \in Procs, NEW t \in {1, 2}, NEW n \in Nat, NEW S, Mapped(q, t) = Below(Pages(n)),
           proc_freepagetable(q, t, n) \subseteq S,
           \A z \in Places : own'[z] = IF z \in S THEN 0 ELSE own[z],
           Mapped(q, t)' = {v \in Mapped(q, t) : Leaf(q, t, v) \notin S}
    PROVE  Clear(q, t)'
<1>1. Pages(n) \in Nat
  BY PagesBounds
<1>2. Root(q, t) \in S /\ Root(q, t) \in Places
  BY PlacesOf DEF proc_freepagetable, Inner
<1>3. ASSUME NEW v \in Below(Pages(n)) PROVE Leaf(q, t, v) \in S
  <2>1. v \in UserPages /\ 0 <= v /\ v < Pages(n)
    BY SMT DEF Below, UserPages
  <2> QED BY <2>1 DEF proc_freepagetable, Leaves
<1>4. own'[Root(q, t)] = 0 /\ Mapped(q, t)' = {}
  BY <1>2, <1>3
<1> QED BY <1>4 DEF Clear, Root

\* What proc_freepagetable() gives back is of the table.
LEMMA FreesTable ==
    ASSUME NEW q, NEW t, NEW n \in Nat, NEW z \in proc_freepagetable(q, t, n)
    PROVE  z \in Inner(q, t) \/ z \in Leaves(q, t, 0, MAXPAGE)
<1>1. MAXPAGE \in Nat
  BY MemoryAssumption DEF MemoryAssumption
<1> QED BY <1>1, SMT DEF proc_freepagetable, Leaves, UserPages

\* growproc(-n).
LEMMA SbrkShrinkCall ==
    ASSUME IInv, NEW p \in Procs, SbrkShrink(p)
    PROVE  IInv'
<1>1. PICK n \in Steps :
        /\ Calling(p) /\ n <= sz[p] /\ Give(Leaves(p, cur[p], Pages(sz[p] - n), Pages(sz[p])))
        /\ panicked' = \E v \in UserPages \ Mapped(p, cur[p]) : Pages(sz[p] - n) <= v /\ v < Pages(sz[p])
        /\ sz' = [sz EXCEPT ![p] = @ - n] /\ UNCHANGED <<fixed, state, cur, th>>
  BY DEF SbrkShrink
<1>2. PICK c, m, S : c = cur[p] /\ m = sz[p] - n /\ S = Leaves(p, c, Pages(m), Pages(sz[p]))
  OBVIOUS
<1>3. state[p] = "live" /\ th[p] = Idle /\ calls' \in Nat /\ UNCHANGED held /\ SlotInv(p, Idle)
  BY <1>1, CallingFacts
<1>4. c \in {1, 2} /\ 3 - c \in {1, 2} /\ 3 - c # c /\ sz[p] \in Nat /\ m \in Nat /\ m <= sz[p]
      /\ TRAPFRAME \in Nat /\ MAXPAGE \in Nat
  BY <1>1, <1>2, ThreadFacts, MemoryAssumption, SMT DEF MemoryAssumption
<1>5. Pages(m) \in Nat /\ Pages(sz[p]) \in Nat /\ Pages(m) <= Pages(sz[p])
  BY <1>4, PagesBounds, PagesMonotone
<1>6. Idle.op = "none" /\ Idle.pc = "user"
  BY IdleFacts
<1>7. /\ Mapped(p, c) = Below(Pages(sz[p])) /\ Pages(sz[p]) <= TRAPFRAME /\ Fixed(p, c) /\ Clear(p, 3 - c)
      /\ own[Mem(p)] = 0 /\ \A k \in 1..MAXARG : own[Arg(p, k)] = 0
  BY <1>2, <1>3, <1>6 DEF SlotInv, SlotKept, InExec
<1>8. \A z \in S : z \in Leaves(p, c, 0, MAXPAGE)
  BY <1>2, <1>4, <1>5, SMT DEF Leaves, UserPages
<1>9. Give(S)
  BY <1>1, <1>2
<1>10. /\ own' \in [Places -> Frames \cup {0}] /\ free' \subseteq Frames /\ NoneLost'
       /\ \A z \in Places : own'[z] = IF z \in S THEN 0 ELSE own[z]
       /\ Mapped(p, c)' = {v \in Mapped(p, c) : Leaf(p, c, v) \notin S}
       /\ Elsewhere(p, p, c)
  <2>1. held' = held /\ fixed' = fixed
    BY <1>1, <1>3, SMT
  <2>2. Gave(p, p, c, S)
    BY <1>3, <1>4, <1>8, <1>9, <2>1, GiveTouches
  <2> QED BY <2>2 DEF Gave
<1>11. Mapped(p, c)' = Below(Pages(m))
  <2>1. \A v : Leaf(p, c, v) \in S <=> v \in UserPages /\ Pages(m) <= v /\ v < Pages(sz[p])
    BY <1>2 DEF Leaf, Leaves
  <2>2. \A v : v \in Mapped(p, c)'
               <=> v \in Below(Pages(sz[p])) /\ ~(v \in UserPages /\ Pages(m) <= v /\ v < Pages(sz[p]))
    BY <1>7, <1>10, <2>1
  <2>3. PICK M : M = Mapped(p, c)'
    OBVIOUS
  <2>4. M = Below(Pages(m))
    BY <1>5, <2>2, <2>3, BelowCut
  <2> QED BY <2>3, <2>4
<1>12. /\ sz'[p] = m /\ th'[p] = Idle /\ cur'[p] = c /\ state'[p] = "live"
       /\ \A q \in Procs \ {p} : sz'[q] = sz[q]
  BY <1>1, <1>2, <1>3 DEF IInv, TypeOK
<1>13. TypeOK' /\ NoPanic'
  <2>1. ~(\E v \in UserPages \ Mapped(p, cur[p]) : Pages(sz[p] - n) <= v /\ v < Pages(sz[p]))
    BY <1>2, <1>7 DEF Below
  <2>2. panicked' = FALSE
    BY <1>1, <2>1
  <2> QED BY <1>1, <1>2, <1>3, <1>4, <1>10, <2>2, PlacesConstant DEF IInv, TypeOK, NoPanic
<1>14. \A q \in Procs \ {p} : SameSlot(q)
  BY <1>1, <1>10, <1>12 DEF SameSlot, SameTables, SamePlaces, Elsewhere
<1>15. SlotKept(p, Idle)'
  <2>1. Clear(p, 3 - c)'
    BY <1>4, <1>7, <1>10 DEF Elsewhere, Clear
  <2>2. Fixed(p, c)'
    BY <1>1, <1>7 DEF Fixed, TRAMPOLINE, TRAPFRAME
  <2>3. own'[Mem(p)] = 0 /\ \A k \in 1..MAXARG : own'[Arg(p, k)] = 0
    BY <1>7, <1>10, PlacesOf
  <2>4. Pages(m) <= TRAPFRAME
    BY <1>4, <1>5, <1>7, SMT
  <2> QED BY <1>6, <1>11, <1>12, <2>1, <2>2, <2>3, <2>4 DEF SlotKept, InExec, Mem, Arg, Below, UserPages
<1>16. SlotInv(p, th[p])' /\ th'[p].op # "fork" /\ th[p].op # "fork"
  BY <1>3, <1>6, <1>12, <1>15 DEF SlotInv, TableOwned, TableKept, InLoop, InExec
<1> QED BY <1>3, <1>10, <1>13, <1>14, <1>16, OneSlot

\* wait() frees a zombie.
LEMMA ReapStep ==
    ASSUME IInv, NEW p \in Procs, Reap(p)
    PROVE  IInv'
<1>1. PICK c, S : c = cur[p] /\ S = {Tf(p)} \cup proc_freepagetable(p, c, sz[p])
  OBVIOUS
<1>2. /\ state[p] = "zombie" /\ Give(S) /\ fixed' = Unfixed(p, c)
      /\ panicked' = ~Whole(p, c, sz[p]) /\ state' = [state EXCEPT ![p] = "unused"]
      /\ sz' = [sz EXCEPT ![p] = 0] /\ cur' = [cur EXCEPT ![p] = 1] /\ UNCHANGED <<th, held, calls>>
  BY <1>1 DEF Reap
<1>3. SlotInv(p, th[p]) /\ c \in {1, 2} /\ sz[p] \in Nat
  BY <1>1, ThreadFacts
<1>4. th[p] = Idle /\ Idle.op = "none" /\ Idle.pc = "user"
  BY <1>2, <1>3, IdleFacts DEF SlotInv, SlotKept
<1>5. /\ Mapped(p, c) = Below(Pages(sz[p])) /\ Fixed(p, c) /\ Clear(p, 3 - c)
      /\ own[Mem(p)] = 0 /\ \A k \in 1..MAXARG : own[Arg(p, k)] = 0
  BY <1>1, <1>2, <1>3, <1>4 DEF SlotInv, SlotKept, InExec
<1>6. Whole(p, c, sz[p])
  BY <1>5 DEF Whole, Below, Fixed
<1>7. \A z \in S : z \in Inner(p, c) \/ z \in Leaves(p, c, 0, MAXPAGE) \/ z \in {Tf(p), Mem(p)}
  BY <1>1, <1>3, FreesTable
<1>8. /\ own' \in [Places -> Frames \cup {0}] /\ free' \subseteq Frames /\ NoneLost'
      /\ \A z \in Places : own'[z] = IF z \in S THEN 0 ELSE own[z]
      /\ Mapped(p, c)' = {v \in Mapped(p, c) : Leaf(p, c, v) \notin S}
      /\ Elsewhere(p, p, c)
  <2>1. held' = held
    BY <1>2, SMT
  <2>2. Gave(p, p, c, S)
    BY <1>2, <1>3, <1>7, <2>1, GiveTouches
  <2> QED BY <2>2 DEF Gave
<1>9. Clear(p, c)'
  <2>1. proc_freepagetable(p, c, sz[p]) \subseteq S
    BY <1>1
  <2> QED BY <1>3, <1>5, <1>8, <2>1, FreeTable
<1>10. Clear(p, 3 - c)'
  <2>1. 3 - c \in {1, 2} /\ 3 - c # c
    BY <1>3, SMT
  <2> QED BY <1>5, <1>8, <2>1 DEF Elsewhere, Clear
<1>11. Clear(p, 1)' /\ Clear(p, 2)'
  <2>1. CASE c = 1
    BY <1>9, <1>10, <2>1, Numerals
  <2>2. CASE c = 2
    BY <1>9, <1>10, <2>2, Numerals
  <2> QED BY <1>3, <2>1, <2>2
<1>12. /\ sz'[p] = 0 /\ th'[p] = Idle /\ cur'[p] = 1 /\ state'[p] = "unused"
       /\ \A q \in Procs \ {p} : sz'[q] = sz[q] /\ cur'[q] = cur[q] /\ state'[q] = state[q] /\ th'[q] = th[q]
  BY <1>2, <1>4 DEF IInv, TypeOK
<1>13. TypeOK' /\ NoPanic'
  BY <1>2, <1>6, <1>8, PlacesConstant DEF IInv, TypeOK, NoPanic
<1>14. \A q \in Procs \ {p} : SameSlot(q)
  BY <1>8, <1>12 DEF SameSlot, SameTables, SamePlaces, Elsewhere
<1>15. own'[Tf(p)] = 0 /\ own'[Mem(p)] = 0 /\ \A k \in 1..MAXARG : own'[Arg(p, k)] = 0
  BY <1>1, <1>5, <1>8, PlacesOf
<1>16. Pages(0) <= TRAPFRAME
  <2>1. TRAPFRAME \in Nat
    BY ThreadFacts
  <2>2. Pages(0) = 0
    BY PagesWhole
  <2> QED BY <2>1, <2>2, SMT
<1>17. SlotKept(p, Idle)'
  BY <1>4, <1>11, <1>12, <1>15, <1>16, Numerals DEF SlotKept, InExec, Mem, Arg, Tf, Clear
<1>18. SlotInv(p, th[p])' /\ th'[p].op # "fork" /\ th[p].op # "fork"
  BY <1>4, <1>12, <1>17 DEF SlotInv, TableOwned, TableKept, InLoop, InExec
<1> QED BY <1>2, <1>8, <1>13, <1>14, <1>18, OneSlot

\* exec() commits to the new table and frees the old one.
LEMMA ExecCommitStep ==
    ASSUME IInv, NEW p \in Procs, ExecCommit(p)
    PROVE  IInv'
<1>1. PICK c, S : c = cur[p] /\ S = proc_freepagetable(p, c, sz[p]) \cup Args(p)
  OBVIOUS
<1>2. PICK t, m : t = th[p].t /\ m = th[p].size
  OBVIOUS
<1>3. /\ th[p].pc = "commit" /\ Give(S) /\ fixed' = Unfixed(p, c)
      /\ panicked' = ~Whole(p, c, sz[p]) /\ cur' = [cur EXCEPT ![p] = t]
      /\ sz' = [sz EXCEPT ![p] = m] /\ Become(p, Idle) /\ UNCHANGED <<state, held, calls>>
  BY <1>1, <1>2 DEF ExecCommit
<1>4. /\ SlotInv(p, th[p]) /\ c \in {1, 2} /\ sz[p] \in Nat /\ m \in Nat /\ state[p] = "live"
      /\ TRAPFRAME \in Nat
  BY <1>1, <1>2, <1>3, ThreadFacts
<1>5. InExec(th[p]) /\ th[p].q = p /\ t = 3 - c /\ th[p].op # "fork" /\ th[p].op # "sbrk"
  BY <1>1, <1>2, <1>3, <1>4 DEF SlotInv, TableKept, TableOwned, InExec
<1>6. /\ Mapped(p, c) = Below(Pages(sz[p])) /\ Fixed(p, c) /\ own[Mem(p)] = 0
  BY <1>1, <1>3, <1>4, <1>5 DEF SlotInv, SlotKept
<1>7. Fixed(p, t) /\ Mapped(p, t) = Below(Pages(m)) /\ Pages(m) <= TRAPFRAME
  BY <1>2, <1>3, <1>4, <1>5 DEF SlotInv, TableKept
<1>8. Whole(p, c, sz[p])
  BY <1>6 DEF Whole, Below, Fixed
<1>9. \A z \in S : z \in Inner(p, c) \/ z \in Leaves(p, c, 0, MAXPAGE) \/ z \in Args(p)
  BY <1>1, <1>4, FreesTable
<1>10. /\ own' \in [Places -> Frames \cup {0}] /\ free' \subseteq Frames /\ NoneLost'
       /\ \A z \in Places : own'[z] = IF z \in S THEN 0 ELSE own[z]
       /\ Mapped(p, c)' = {v \in Mapped(p, c) : Leaf(p, c, v) \notin S}
       /\ Elsewhere(p, p, c)
  <2>1. held' = held
    BY <1>3, SMT
  <2>2. Gave(p, p, c, S)
    BY <1>3, <1>4, <1>9, <2>1, GiveTouches
  <2> QED BY <2>2 DEF Gave
<1>11. Clear(p, c)'
  <2>1. proc_freepagetable(p, c, sz[p]) \subseteq S
    BY <1>1
  <2> QED BY <1>4, <1>6, <1>10, <2>1, FreeTable
<1>12. Fixed(p, t)' /\ Mapped(p, t)' = Below(Pages(m))
  <2>1. t \in {1, 2} /\ t # c
    BY <1>4, <1>5, SMT
  <2> QED BY <1>7, <1>10, <2>1 DEF Elsewhere
<1>13. /\ sz'[p] = m /\ th'[p] = Idle /\ cur'[p] = t /\ state'[p] = "live" /\ t \in {1, 2} /\ c = 3 - t
       /\ \A q \in Procs \ {p} : sz'[q] = sz[q] /\ cur'[q] = cur[q] /\ state'[q] = state[q] /\ th'[q] = th[q]
  BY <1>3, <1>4, <1>5, SMT DEF IInv, TypeOK, Become
<1>14. TypeOK' /\ NoPanic'
  BY <1>3, <1>4, <1>8, <1>10, <1>13, IdleFacts, PlacesConstant DEF IInv, TypeOK, NoPanic, Become
<1>15. \A q \in Procs \ {p} : SameSlot(q)
  BY <1>10, <1>13 DEF SameSlot, SameTables, SamePlaces, Elsewhere
<1>16. own'[Mem(p)] = 0 /\ \A k \in 1..MAXARG : own'[Arg(p, k)] = 0
  BY <1>1, <1>6, <1>10, PlacesOf DEF Args
<1>17. Idle.op = "none" /\ Idle.pc = "user"
  BY IdleFacts
<1>18. SlotKept(p, Idle)'
  BY <1>7, <1>11, <1>12, <1>13, <1>16, <1>17 DEF SlotKept, InExec, Mem, Arg, Below, UserPages
<1>19. SlotInv(p, th[p])' /\ th'[p].op # "fork"
  BY <1>13, <1>17, <1>18 DEF SlotInv, TableOwned, TableKept, InLoop, InExec
<1> QED BY <1>4, <1>5, <1>10, <1>14, <1>15, <1>19, OneSlot

\* exec() fails.
LEMMA ExecBadStep ==
    ASSUME IInv, NEW p \in Procs, ExecBad(p)
    PROVE  IInv'
<1>1. PICK t, m : t = th[p].t /\ m = th[p].size
  OBVIOUS
<1>2. PICK S : S = (IF th[p].pc \in {"arg", "root"} THEN {} ELSE proc_freepagetable(p, t, m)) \cup Args(p)
  OBVIOUS
<1>3. /\ th[p].op \in {"seg", "stack"} /\ th[p].pc \in {"arg", "root", "seg", "commit"} /\ Give(S)
      /\ IF th[p].pc \in {"arg", "root"} THEN UNCHANGED <<fixed, panicked>>
         ELSE fixed' = Unfixed(p, t) /\ panicked' = ~Whole(p, t, m)
      /\ Become(p, Idle) /\ UNCHANGED <<state, sz, cur, held, calls>>
  BY <1>1, <1>2 DEF ExecBad
<1>4. /\ SlotInv(p, th[p]) /\ m \in Nat /\ state[p] = "live" /\ cur[p] \in {1, 2} /\ panicked \in BOOLEAN /\ ~panicked
  BY <1>1, <1>3, ThreadFacts DEF IInv, TypeOK
<1>5. InExec(th[p]) /\ th[p].q = p /\ t = 3 - cur[p] /\ t \in {1, 2} /\ cur[p] # t /\ th[p].op # "fork" /\ th[p].op # "sbrk"
  BY <1>1, <1>3, <1>4, SMT DEF SlotInv, TableOwned, InExec
<1>6. /\ Mapped(p, cur[p]) = Below(Pages(sz[p])) /\ Fixed(p, cur[p]) /\ own[Mem(p)] = 0 /\ Pages(sz[p]) <= TRAPFRAME
  BY <1>3, <1>4, <1>5 DEF SlotInv, SlotKept
<1>7. ASSUME th[p].pc \notin {"arg", "root"} PROVE Fixed(p, t) /\ Mapped(p, t) = Below(Pages(m))
  BY <1>1, <1>3, <1>4, <1>5, <1>7 DEF SlotInv, TableKept
<1>8. ASSUME th[p].pc \in {"arg", "root"} PROVE Clear(p, t)
  BY <1>4, <1>5, <1>8 DEF SlotInv, SlotKept
<1>9. panicked' = FALSE
  <2>1. ASSUME th[p].pc \notin {"arg", "root"} PROVE Whole(p, t, m)
    BY <1>7, <2>1 DEF Whole, Below, Fixed
  <2> QED BY <1>3, <1>4, <2>1
<1>10. \A z \in S : z \in Inner(p, t) \/ z \in Leaves(p, t, 0, MAXPAGE) \/ z \in Args(p)
  BY <1>2, <1>4, FreesTable
<1>11. fixed' = fixed \/ fixed' = Unfixed(p, t)
  BY <1>3
<1>12. /\ own' \in [Places -> Frames \cup {0}] /\ free' \subseteq Frames /\ NoneLost'
       /\ \A z \in Places : own'[z] = IF z \in S THEN 0 ELSE own[z]
       /\ Mapped(p, t)' = {v \in Mapped(p, t) : Leaf(p, t, v) \notin S}
       /\ Elsewhere(p, p, t)
  <2>1. held' = held
    BY <1>3
  <2>2. Gave(p, p, t, S)
    BY <1>3, <1>5, <1>10, <1>11, <2>1, GiveTouches
  <2> QED BY <2>2 DEF Gave
<1>13. Clear(p, t)'
  <2>1. CASE th[p].pc \in {"arg", "root"}
    <3>1. own[Root(p, t)] = 0 /\ Mapped(p, t) = {} /\ Root(p, t) \in Places
      BY <1>5, <1>8, <2>1, PlacesOf DEF Clear
    <3> QED BY <1>12, <3>1 DEF Clear, Root
  <2>2. CASE th[p].pc \notin {"arg", "root"}
    <3>1. proc_freepagetable(p, t, m) \subseteq S
      BY <1>2, <2>2
    <3> QED BY <1>4, <1>5, <1>7, <1>12, <2>2, <3>1, FreeTable
  <2> QED BY <2>1, <2>2
<1>14. Fixed(p, cur[p])' /\ Mapped(p, cur[p])' = Below(Pages(sz[p]))
  <2>1. PICK c : c = cur[p] /\ c \in {1, 2} /\ c # t /\ cur'[p] = c
    BY <1>3, <1>4, <1>5
  <2>2. Fixed(p, c)' /\ Mapped(p, c)' = Below(Pages(sz[p]))
    BY <1>6, <1>12, <2>1 DEF Elsewhere
  <2> QED BY <2>1, <2>2 DEF Fixed, Mapped, Leaf
<1>15. /\ sz'[p] = sz[p] /\ th'[p] = Idle /\ cur'[p] = cur[p] /\ state'[p] = "live"
       /\ \A q \in Procs \ {p} : sz'[q] = sz[q] /\ cur'[q] = cur[q] /\ state'[q] = state[q] /\ th'[q] = th[q]
  BY <1>3, <1>4 DEF IInv, TypeOK, Become
<1>16. TypeOK' /\ NoPanic'
  BY <1>3, <1>9, <1>12, IdleFacts, PlacesConstant DEF IInv, TypeOK, NoPanic, Become
<1>17. \A q \in Procs \ {p} : SameSlot(q)
  BY <1>12, <1>15 DEF SameSlot, SameTables, SamePlaces, Elsewhere
<1>18. own'[Mem(p)] = 0 /\ \A k \in 1..MAXARG : own'[Arg(p, k)] = 0
  BY <1>2, <1>6, <1>12, PlacesOf DEF Args
<1>19. Idle.op = "none" /\ Idle.pc = "user"
  BY IdleFacts
<1>20. SlotKept(p, Idle)'
  <2>1. Clear(p, 3 - cur[p])'
    BY <1>5, <1>13, <1>15 DEF Clear, Root, Mapped, Leaf
  <2> QED BY <1>6, <1>14, <1>15, <1>18, <1>19, <2>1 DEF SlotKept, InExec, Mem, Arg, Below, UserPages
<1>21. SlotInv(p, th[p])' /\ th'[p].op # "fork"
  BY <1>15, <1>19, <1>20 DEF SlotInv, TableOwned, TableKept, InLoop, InExec
<1> QED BY <1>4, <1>5, <1>12, <1>16, <1>17, <1>21, OneSlot

-----------------------------------------------------------------------------
(* kalloc() returns 0 *)

\* Where a call can run out of memory.
LEMMA FailsWhere ==
    ASSUME IInv, NEW p \in Procs, Wants(p) # {}
    PROVE  /\ th[p].op # "none" /\ th[p].pc \in {"arg", "tf", "root", "page", "map"}
           /\ th[p].pc = "page" => th[p].v < th[p].end /\ th[p].v < TRAPFRAME
           /\ th[p].pc = "map" /\ th[p].v >= TRAPFRAME => Mapped(th[p].q, th[p].t) = {}
           /\ InLoop(th[p]) => /\ Mapped(th[p].q, th[p].t) = Below(th[p].v) /\ th[p].base = Pages(th[p].size)
                               /\ th[p].base <= th[p].v
<1>1. /\ SlotInv(p, th[p]) /\ th[p].v \in Nat /\ th[p].end \in Nat /\ TRAPFRAME \in Nat
  BY ThreadFacts
<1>2. th[p].pc \in {"arg", "tf", "root", "page", "map"} /\ (th[p].pc = "page" => th[p].v < th[p].end)
  BY DEF Wants
<1>3. th[p].op # "none"
  BY <1>2, ThreadFacts
<1>4. th[p].pc = "page" => th[p].end <= TRAPFRAME
  BY <1>1 DEF SlotInv, TableKept, InLoop
<1>5. th[p].pc = "page" => th[p].v < TRAPFRAME
  BY <1>1, <1>2, <1>4, SMT
<1>6. /\ th[p].pc = "map" /\ th[p].v >= TRAPFRAME => Mapped(th[p].q, th[p].t) = {}
      /\ InLoop(th[p]) => /\ Mapped(th[p].q, th[p].t) = Below(th[p].v) /\ th[p].base = Pages(th[p].size)
                          /\ th[p].base <= th[p].v
  BY <1>1 DEF SlotInv, TableKept
<1> QED BY <1>2, <1>3, <1>5, <1>6

\* The call that fails reaches no panic.
LEMMA FailsQuietly ==
    ASSUME IInv, NEW p \in Procs, OutOfMemory(p)
    PROVE  panicked' = FALSE
<1> DEFINE bad == th[p].pc \in {"page", "map"} /\ Mapped(th[p].q, th[p].t) #
                   {u \in UserPages : th[p].v < TRAPFRAME /\ u < th[p].v}
<1>1. Wants(p) # {} /\ panicked' = (NoSource(p) \/ bad)
  BY DEF OutOfMemory
<1>2. th[p].v \in Nat /\ TRAPFRAME \in Nat
  BY ThreadFacts
<1>3. ~NoSource(p)
  BY <1>1, FailsWhere, SourceFound DEF NoSource
<1>4. CASE th[p].pc \in {"page", "map"} /\ th[p].v < TRAPFRAME
  <2>1. Mapped(th[p].q, th[p].t) = Below(th[p].v)
    BY <1>1, <1>4, FailsWhere DEF InLoop
  <2>2. ~bad
    BY <1>4, <2>1 DEF Below
  <2> HIDE DEF bad
  <2> QED BY <1>1, <1>3, <2>2
<1>5. CASE th[p].pc = "map" /\ th[p].v >= TRAPFRAME
  <2>1. Mapped(th[p].q, th[p].t) = {}
    BY <1>1, <1>5, FailsWhere
  <2>2. ~bad
    BY <1>2, <1>5, <2>1, SMT
  <2> HIDE DEF bad
  <2> QED BY <1>1, <1>3, <2>2
<1>6. CASE th[p].pc \notin {"page", "map"}
  BY <1>1, <1>3, <1>6
<1>7. th[p].v < TRAPFRAME \/ (th[p].pc # "page" /\ th[p].v >= TRAPFRAME)
  BY <1>1, <1>2, FailsWhere, SMT
<1> QED BY <1>4, <1>5, <1>6, <1>7

\* What a failed call gives back is of its table and its own.
LEMMA UndoneIs ==
    ASSUME IInv, NEW p \in Procs, Wants(p) # {}, NEW s, NEW t, s = th[p].q, t = th[p].t,
           NEW z \in Undone(p) \cup CallersPages(p)
    PROVE  z \in Inner(s, t) \/ z \in Leaves(s, t, 0, MAXPAGE) \/ z \in {Tf(s), Mem(p)} \/ z \in Args(p)
<1>1. th[p].base \in Nat /\ th[p].v \in Nat /\ th[p].size \in Nat /\ MAXPAGE \in Nat
  BY ThreadFacts, MemoryAssumption DEF MemoryAssumption
<1>2. \A y \in Leaves(s, t, th[p].base, th[p].v) : y \in Leaves(s, t, 0, MAXPAGE)
  BY <1>1, SMT DEF Leaves, UserPages
<1>3. \A y \in proc_freepagetable(s, t, th[p].size) : y \in Inner(s, t) \/ y \in Leaves(s, t, 0, MAXPAGE)
  BY <1>1, FreesTable
<1>4. CASE z \in CallersPages(p)
  BY <1>4 DEF CallersPages
<1>5. CASE z \in Undone(p)
  BY <1>2, <1>3, <1>5 DEF Undone
<1> QED BY <1>4, <1>5

\* What is left of a failed call of p at work on table t of s.
Undid(p, s, t) ==
    /\ own'[Mem(p)] = 0
    /\ th[p].op = "sbrk" => Mapped(s, t)' = Below(Pages(sz[p]))
    /\ th[p].op # "sbrk" => Clear(s, t)'

\* What it leaves: the page in hand is free; sbrk() has the pages of its old
\* size, and the table that fork() or exec() was building is gone.
LEMMA UndoneEffect ==
    ASSUME IInv, NEW p \in Procs, Wants(p) # {}, NEW s, NEW t, s = th[p].q, t = th[p].t,
           NEW S, S = Undone(p) \cup CallersPages(p),
           \A z \in Places : own'[z] = IF z \in S THEN 0 ELSE own[z],
           Mapped(s, t)' = {v \in Mapped(s, t) : Leaf(s, t, v) \notin S}
    PROVE  Undid(p, s, t)
<1>1. /\ th[p].op # "none" /\ th[p].pc \in {"arg", "tf", "root", "page", "map"}
      /\ th[p].pc = "page" => th[p].v < th[p].end /\ th[p].v < TRAPFRAME
      /\ th[p].pc = "map" /\ th[p].v >= TRAPFRAME => Mapped(s, t) = {}
      /\ InLoop(th[p]) => /\ Mapped(s, t) = Below(th[p].v) /\ th[p].base = Pages(th[p].size)
                          /\ th[p].base <= th[p].v
  BY FailsWhere
<1>2. /\ SlotInv(p, th[p]) /\ th[p].v \in Nat /\ th[p].base \in Nat /\ th[p].size \in Nat /\ TRAPFRAME \in Nat
      /\ MAXPAGE \in Nat
  BY ThreadFacts, MemoryAssumption DEF MemoryAssumption
<1>3. s \in Procs /\ t \in {1, 2}
  BY <1>1, WorksOn
<1>4. Mem(p) \in Places /\ Root(s, t) \in Places
  BY <1>3, PlacesOf
<1>5. own[Mem(p)] # 0 <=> th[p].pc = "map" /\ th[p].v < TRAPFRAME
  BY <1>2 DEF SlotInv, SlotKept
<1>6. CASE th[p].pc \in {"arg", "tf", "root"}
  <2>1. th[p].op # "sbrk" /\ Clear(s, t)
    <3>1. th[p].pc = "arg" => th[p].op = "seg" /\ Clear(p, 3 - cur[p]) /\ s = p /\ t = 3 - cur[p]
      BY <1>2 DEF SlotInv, SlotKept, TableKept, TableOwned, InExec
    <3>2. th[p].pc \in {"tf", "root"} => th[p].op \in {"fork", "seg"} /\ Clear(s, t)
      BY <1>2 DEF SlotInv, TableKept
    <3> QED BY <1>6, <3>1, <3>2
  <2>2. own[Mem(p)] = 0
    BY <1>5, <1>6
  <2>3. own'[Root(s, t)] = 0 /\ Mapped(s, t)' = {}
    BY <1>4, <2>1 DEF Clear
  <2> QED BY <1>4, <2>1, <2>2, <2>3 DEF Undid, Clear, Root
<1>7. CASE th[p].pc = "map" /\ th[p].v >= TRAPFRAME
  <2>1. th[p].op # "sbrk" /\ Mapped(s, t) = {}
    <3>1. th[p].op \in {"fork", "seg"}
      BY <1>2, <1>7 DEF SlotInv, TableKept
    <3> QED BY <1>1, <1>7, <3>1
  <2>2. own[Mem(p)] = 0
    BY <1>2, <1>5, <1>7, SMT
  <2>3. Root(s, t) \in S
    <3>1. Undone(p) = Inner(s, t)
      BY <1>2, <1>7, <2>1 DEF Undone
    <3> QED BY <3>1 DEF Inner
  <2>4. own'[Root(s, t)] = 0 /\ Mapped(s, t)' = {}
    BY <1>4, <2>1, <2>3
  <2> QED BY <1>4, <2>1, <2>2, <2>4 DEF Undid, Clear, Root
<1>8. CASE th[p].pc \in {"page", "map"} /\ th[p].v < TRAPFRAME
  <2>1. /\ Mapped(s, t) = Below(th[p].v) /\ th[p].base = Pages(th[p].size) /\ th[p].base <= th[p].v
    BY <1>1, <1>8 DEF InLoop
  <2>2. ~(th[p].v >= TRAPFRAME) /\ th[p].pc \notin {"arg", "tf", "root"}
    BY <1>2, <1>8, SMT
  <2>3. Mem(p) \in S /\ Leaves(s, t, th[p].base, th[p].v) \subseteq S
    BY <1>8, <2>2 DEF Undone
  <2>4. own'[Mem(p)] = 0
    BY <1>4, <2>3
  <2>5. \A v : Leaf(s, t, v) \in Leaves(s, t, th[p].base, th[p].v)
               <=> v \in UserPages /\ th[p].base <= v /\ v < th[p].v
    BY DEF Leaf, Leaves
  <2>6. CASE th[p].op = "sbrk"
    <3>1. th[p].size = sz[p]
      BY <1>2, <2>6 DEF SlotInv, TableOwned
    <3>2. S = {Mem(p)} \cup Leaves(s, t, th[p].base, th[p].v)
      BY <1>8, <2>2, <2>6 DEF Undone, CallersPages
    <3>3. \A v : Leaf(s, t, v) # Mem(p)
      BY DEF Leaf, Mem
    <3>4. Mapped(s, t)' = Below(th[p].base)
      BY <1>2, <2>1, <2>5, <3>2, <3>3, SMT DEF Below, UserPages
    <3> QED BY <2>1, <2>4, <2>6, <3>1, <3>4 DEF Undid
  <2>7. CASE th[p].op # "sbrk"
    <3>1. proc_freepagetable(s, t, th[p].size) \subseteq S
      BY <1>8, <2>2, <2>7 DEF Undone
    <3>2. Root(s, t) \in S
      BY <3>1 DEF proc_freepagetable, Inner
    <3>3. \A v \in UserPages : 0 <= v /\ v < th[p].base => Leaf(s, t, v) \in S
      BY <2>1, <3>1 DEF proc_freepagetable, Leaves
    <3>4. \A v \in Below(th[p].v) : Leaf(s, t, v) \in S
      BY <1>2, <2>3, <2>5, <3>3, SMT DEF Below, UserPages
    <3>5. own'[Root(s, t)] = 0 /\ Mapped(s, t)' = {}
      BY <1>4, <2>1, <3>2, <3>4
    <3> QED BY <2>4, <2>7, <3>5 DEF Undid, Clear, Root
  <2> QED BY <2>6, <2>7
<1>9. th[p].v >= TRAPFRAME \/ th[p].v < TRAPFRAME
  BY <1>2, SMT
<1> QED BY <1>1, <1>6, <1>7, <1>8, <1>9

\* The call fails.
LEMMA OutOfMemoryStep ==
    ASSUME IInv, NEW p \in Procs, OutOfMemory(p)
    PROVE  IInv'
<1>1. PICK s, t, S : s = th[p].q /\ t = th[p].t /\ S = Undone(p) \cup CallersPages(p)
  OBVIOUS
<1>2. /\ Wants(p) # {} /\ Give(S) /\ (fixed' = IF th[p].op = "sbrk" THEN fixed ELSE Unfixed(s, t))
      /\ state' = Released(p) /\ Become(p, Idle) /\ UNCHANGED <<sz, cur, held, calls>>
  BY <1>1 DEF OutOfMemory
<1>3. panicked' = FALSE
  BY FailsQuietly
<1>4. th[p].op # "none"
  BY <1>2, FailsWhere
<1>5. /\ s \in Procs /\ t \in {1, 2} /\ state[p] = "live" /\ th[p].op \in {"fork", "sbrk", "seg", "stack"}
      /\ th[p].op = "fork" => s # p /\ state[s] = "used" /\ t = 1 /\ th[s] = Idle
      /\ th[p].op = "sbrk" => s = p /\ t = cur[p]
      /\ th[p].op \in {"seg", "stack"} => s = p /\ t = 3 - cur[p]
  BY <1>1, <1>4, WorksOn
<1>6. SlotInv(p, th[p]) /\ cur[p] \in {1, 2} /\ 3 - cur[p] \in {1, 2} /\ 3 - cur[p] # cur[p]
  BY ThreadFacts, SMT
<1>7. \A z \in S : z \in Inner(s, t) \/ z \in Leaves(s, t, 0, MAXPAGE) \/ z \in {Tf(s), Mem(p)} \/ z \in Args(p)
  BY <1>1, <1>2, UndoneIs
<1>8. /\ own' \in [Places -> Frames \cup {0}] /\ free' \subseteq Frames /\ NoneLost'
      /\ \A z \in Places : own'[z] = IF z \in S THEN 0 ELSE own[z]
      /\ Mapped(s, t)' = {v \in Mapped(s, t) : Leaf(s, t, v) \notin S}
      /\ Elsewhere(p, s, t)
  <2>1. fixed' = fixed \/ fixed' = Unfixed(s, t)
    BY <1>2
  <2>2. held' = held
    BY <1>2, SMT
  <2>3. Gave(p, s, t, S)
    BY <1>2, <1>5, <1>7, <2>1, <2>2, GiveTouches
  <2> QED BY <2>3 DEF Gave
<1>9. /\ own'[Mem(p)] = 0
      /\ th[p].op = "sbrk" => Mapped(s, t)' = Below(Pages(sz[p]))
      /\ th[p].op # "sbrk" => Clear(s, t)'
  <2>1. Undid(p, s, t)
    BY <1>1, <1>2, <1>8, UndoneEffect
  <2> QED BY <2>1 DEF Undid
<1>10. /\ th'[p] = Idle /\ \A q \in Procs \ {p} : th'[q] = th[q]
       /\ th[p].op = "fork" => state' = [state EXCEPT ![s] = "unused"]
       /\ th[p].op # "fork" => state' = state
       /\ state'[p] = "live" /\ \A q \in Procs \ {s} : state'[q] = state[q]
       /\ th[p].op = "fork" => state'[s] = "unused"
  BY <1>1, <1>2, <1>5 DEF Become, Released, IInv, TypeOK
<1>11. Idle.op = "none" /\ Idle.pc = "user" /\ Idle \in ThreadTypes
  BY IdleFacts
<1>12. TypeOK' /\ NoPanic'
  <2>1. state' \in [Procs -> {"unused", "used", "live", "zombie"}]
    BY <1>5, <1>10 DEF IInv, TypeOK
  <2>2. th' \in [Procs -> ThreadTypes]
    BY <1>2, <1>11 DEF IInv, TypeOK, Become
  <2> QED BY <1>2, <1>3, <1>8, <2>1, <2>2, PlacesConstant DEF IInv, TypeOK, NoPanic
<1>13. \A k \in 1..MAXARG : own'[Arg(p, k)] = 0
  <2>1. \A k \in 1..MAXARG : Arg(p, k) \in Places
    BY PlacesOf
  <2>2. CASE InExec(th[p])
    <3>1. Args(p) \subseteq S
      BY <1>1, <2>2 DEF CallersPages, InExec
    <3> QED BY <1>8, <2>1, <3>1 DEF Args
  <2>3. CASE ~InExec(th[p])
    <3>1. \A k \in 1..MAXARG : own[Arg(p, k)] = 0
      BY <1>6, <2>3 DEF SlotInv, SlotKept
    <3> QED BY <1>8, <2>1, <3>1
  <2> QED BY <2>2, <2>3
<1>14. \A q \in Procs \ {p, s} : SameSlot(q)
  BY <1>2, <1>8, <1>10 DEF SameSlot, SameTables, SamePlaces, Elsewhere
<1>15. PICK c : c = cur[p] /\ cur'[p] = c
  BY <1>2
<1>16. Clear(p, 3 - c)'
  <2>1. CASE th[p].op \in {"seg", "stack"}
    BY <1>5, <1>9, <1>15, <2>1
  <2>2. CASE th[p].op \in {"fork", "sbrk"}
    <3>1. Clear(p, 3 - c)
      BY <1>6, <1>15, <2>2 DEF SlotInv, SlotKept, InExec
    <3>2. 3 - c \in {1, 2} /\ (p # s \/ 3 - c # t)
      BY <1>5, <1>6, <1>15, <2>2
    <3> QED BY <1>8, <3>1, <3>2 DEF Elsewhere, Clear
  <2> QED BY <1>5, <2>1, <2>2
<1>17. Fixed(p, c)' /\ Mapped(p, c)' = Below(Pages(sz[p]))
  <2>1. CASE th[p].op = "sbrk"
    <3>1. Fixed(p, c)
      BY <1>5, <1>6, <1>15 DEF SlotInv, SlotKept
    <3>2. Fixed(p, c)'
      BY <1>2, <2>1, <3>1 DEF Fixed, TRAMPOLINE, TRAPFRAME
    <3> QED BY <1>5, <1>9, <1>15, <2>1, <3>2
  <2>2. CASE th[p].op # "sbrk"
    <3>1. Fixed(p, c) /\ Mapped(p, c) = Below(Pages(sz[p]))
      BY <1>5, <1>6, <1>15, <2>2 DEF SlotInv, SlotKept
    <3>2. c \in {1, 2} /\ (p # s \/ c # t)
      BY <1>5, <1>6, <1>15, <2>2
    <3> QED BY <1>8, <3>1, <3>2 DEF Elsewhere
  <2> QED BY <2>1, <2>2
<1>18. SlotKept(p, Idle)'
  <2>1. Pages(sz[p]) <= TRAPFRAME /\ sz'[p] = sz[p]
    BY <1>2, <1>6 DEF SlotInv, SlotKept
  <2> QED BY <1>9, <1>10, <1>11, <1>13, <1>15, <1>16, <1>17, <2>1
          DEF SlotKept, InExec, Mem, Arg, Below, UserPages
<1>19. SlotInv(p, th[p])' /\ th'[p].op # "fork"
  BY <1>10, <1>11, <1>18 DEF SlotInv, TableOwned, TableKept, InLoop, InExec
<1>20. CASE th[p].op # "fork"
  <2>1. s = p
    BY <1>5, <1>20
  <2> QED BY <1>5, <1>8, <1>12, <1>14, <1>19, <1>20, <2>1, OneSlot
<1>21. CASE th[p].op = "fork"
  <2>1. SlotInv(s, Idle) /\ th'[s] = Idle /\ cur[s] = 1 /\ cur'[s] = 1 /\ sz'[s] = sz[s]
    BY <1>2, <1>5, <1>10, <1>21, ThreadFacts DEF SlotInv, SlotKept
  <2>2. own'[Tf(s)] = 0
    <3>1. Tf(s) \in S /\ Tf(s) \in Places
      BY <1>1, <1>5, <1>21, PlacesOf DEF CallersPages
    <3> QED BY <1>8, <3>1
  <2>3. Clear(s, 1)'
    BY <1>5, <1>9, <1>21
  <2>4. Clear(s, 2)'
    <3>1. Clear(s, 2)
      BY <1>11, <2>1, Numerals DEF SlotInv, SlotKept, InExec
    <3>2. 2 \in {1, 2} /\ 2 # t
      BY <1>5, <1>21, Numerals
    <3> QED BY <1>5, <1>8, <3>1, <3>2 DEF Elsewhere, Clear
  <2>5. own'[Mem(s)] = 0 /\ \A k \in 1..MAXARG : own'[Arg(s, k)] = 0
    <3>1. own[Mem(s)] = 0 /\ \A k \in 1..MAXARG : own[Arg(s, k)] = 0
      BY <1>11, <2>1 DEF SlotInv, SlotKept, InExec
    <3> QED BY <1>5, <1>8, <1>21, <3>1 DEF Elsewhere
  <2>6. Pages(sz[s]) <= TRAPFRAME
    BY <2>1 DEF SlotInv, SlotKept
  <2>7. SlotKept(s, Idle)'
    BY <1>10, <1>11, <1>21, <2>1, <2>2, <2>3, <2>4, <2>5, <2>6, Numerals DEF SlotKept, InExec, Mem, Arg, Tf, Clear
  <2>8. SlotInv(s, th[s])' /\ th'[s].op # "fork"
    BY <1>11, <2>1, <2>7 DEF SlotInv, TableOwned, TableKept, InLoop, InExec
  <2> QED BY <1>1, <1>8, <1>12, <1>14, <1>19, <1>21, <2>8, TwoSlots
<1> QED BY <1>20, <1>21

-----------------------------------------------------------------------------
(* The invariant holds *)

\* After userinit().
LEMMA InitInv == Init => IInv
<1> SUFFICES ASSUME Init PROVE IInv
  OBVIOUS
<1>1. /\ 0 \notin Frames /\ Init0 \in Procs /\ PGSIZE \in Nat /\ MAXPAGE \in Nat /\ MAXPAGE > 2
      /\ Boot \in [First -> Frames] /\ \A h \in Held : h \subseteq Frames
  BY MemoryAssumption DEF MemoryAssumption
<1>2. TRAPFRAME \in Nat /\ TRAMPOLINE = TRAPFRAME + 1 /\ 0 \in UserPages
  BY <1>1, SMT DEF TRAPFRAME, TRAMPOLINE, UserPages
<1>3. Idle \in ThreadTypes /\ Idle.op = "none" /\ Idle.pc = "user"
  BY IdleFacts
<1>4. First \subseteq Places
  <2>1. Tf(Init0) \in Places /\ Root(Init0, 1) \in Places /\ Leaf(Init0, 1, 0) \in Places
        /\ \A v \in 0..(MAXPAGE - 1) : Mid(Init0, 1, v) \in Places /\ Low(Init0, 1, v) \in Places
    BY <1>1, <1>2, PlacesOf
  <2>2. {0, TRAPFRAME, TRAMPOLINE} \subseteq 0..(MAXPAGE - 1)
    BY <1>1, SMT DEF TRAPFRAME, TRAMPOLINE
  <2> QED BY <2>1, <2>2 DEF First
<1>5. TypeOK
  <2>1. own \in [Places -> Frames \cup {0}]
    BY <1>1 DEF Init
  <2> QED BY <1>1, <1>3, <2>1 DEF Init, TypeOK
<1>6. \A z \in Places : own[z] = IF z \in First THEN Boot[z] ELSE 0
  BY DEF Init
<1>7. NoneLost
  <2> SUFFICES ASSUME NEW f \in Frames, f \notin free, f \notin held PROVE f \in Owned
    BY DEF NoneLost
  <2>1. PICK z \in First : Boot[z] = f
    BY DEF Init
  <2>2. z \in Places /\ own[z] = f /\ f # 0
    BY <1>1, <1>4, <1>6, <2>1
  <2> QED BY <2>2 DEF Owned, InUse
<1>8. ASSUME NEW p \in Procs PROVE SlotKept(p, Idle)
  <2>1. /\ cur[p] = 1 /\ state[p] = (IF p = Init0 THEN "live" ELSE "unused")
        /\ sz[p] = IF p = Init0 THEN PGSIZE ELSE 0
    BY DEF Init
  <2>2. Pages(sz[p]) = IF p = Init0 THEN 1 ELSE 0
    BY <2>1, PagesWhole
  <2>3. Pages(sz[p]) <= TRAPFRAME
    <3>1. Pages(MaxSz) \in Nat
      BY PagesBounds, MemoryAssumption DEF MemoryAssumption
    <3> QED BY <1>2, <2>2, <3>1, RoomAssumption, SMT DEF RoomAssumption
  <2>4. /\ Mem(p) \in Places /\ Mem(p) \notin First
        /\ \A k \in 1..MAXARG : Arg(p, k) \in Places /\ Arg(p, k) \notin First
    <3>1. Mem(p) \notin First /\ \A k : Arg(p, k) \notin First
      BY DEF First, Mem, Arg, Tf, Root, Leaf, Mid, Low
    <3> QED BY <3>1, PlacesOf
  <2>5. own[Mem(p)] = 0 /\ \A k \in 1..MAXARG : own[Arg(p, k)] = 0
    BY <1>6, <2>4
  <2>6. ASSUME NEW u \in {1, 2}, u = 2 \/ p # Init0 PROVE Clear(p, u)
    <3>1. Root(p, u) \notin First /\ \A v : Leaf(p, u, v) \notin First
      BY <2>6, SMT DEF First, Tf, Root, Leaf, Mid, Low
    <3>2. Root(p, u) \in Places /\ \A v \in UserPages : Leaf(p, u, v) \in Places
      BY PlacesOf
    <3> QED BY <1>6, <3>1, <3>2 DEF Clear, Mapped
  <2>7. p # Init0 => own[Tf(p)] = 0
    <3>1. p # Init0 => Tf(p) \notin First
      BY DEF First, Tf, Root, Leaf, Mid, Low
    <3> QED BY <1>6, <3>1, PlacesOf
  <2>8. p = Init0 => Fixed(p, 1)
    BY DEF Init, Fixed
  <2>9. ASSUME p = Init0 PROVE Mapped(p, 1) = Below(1)
    <3>1. \A v \in UserPages : Leaf(p, 1, v) \in First <=> v = 0
      BY <2>9 DEF First, Tf, Root, Leaf, Mid, Low
    <3>2. \A v \in UserPages : Leaf(p, 1, v) \in Places
      BY PlacesOf
    <3>3. \A v \in UserPages : own[Leaf(p, 1, v)] # 0 <=> v = 0
      BY <1>1, <1>6, <3>1, <3>2, SMT
    <3> QED BY <3>3, SMT DEF Mapped, Below, UserPages
  <2> QED BY <1>3, <2>1, <2>2, <2>3, <2>5, <2>6, <2>7, <2>8, <2>9, SMT DEF SlotKept, InExec
<1> QED BY <1>5, <1>7, <1>8, IdleFacts DEF IInv, Init, NoPanic

\* Every step keeps it.
LEMMA NextInv == IInv /\ [Next]_vars => IInv'
<1> SUFFICES ASSUME IInv, [Next]_vars PROVE IInv'
  OBVIOUS
<1>1. CASE UNCHANGED vars
  <2>1. UNCHANGED <<own, free, fixed, state, sz, cur, th, held, calls, panicked>>
    BY <1>1 DEF vars
  <2>2. TypeOK' /\ NoneLost' /\ NoPanic'
    BY <2>1, StillKeeps, PlacesConstant DEF IInv, TypeOK
  <2>3. \A q \in Procs : SameSlot(q)
    BY <2>1, Still DEF SameSlot, SameTables
  <2>4. \A p \in Procs : SlotInv(p, th[p])'
    <3> DEFINE A == {}
    <3>1. /\ A \in SUBSET Procs
          /\ \A r \in Procs \ A : SameSlot(r) /\ (th[r].op # "none" => th[r].q \notin A)
          /\ \A r \in A : th'[r].op = "fork" => th'[r].q \in A
      BY <2>3
    <3> HIDE DEF A
    <3>2. \A r \in Procs \ A : SlotInv(r, th[r])'
      BY <3>1, Others
    <3> QED BY <3>2 DEF A
  <2> QED BY <2>2, <2>4 DEF IInv, SlotInv
<1>2. ASSUME NEW p \in Procs,
             \/ Fork(p) \/ Exec(p) \/ SbrkGrow(p) \/ SbrkShrink(p) \/ Exit(p) \/ Reap(p)
             \/ Kalloc(p) \/ OutOfMemory(p) \/ MapPage(p) \/ MapFixed(p) \/ ForkDone(p) \/ SbrkDone(p)
             \/ ExecStart(p) \/ ExecSeg(p) \/ ExecSegDone(p) \/ ExecStack(p) \/ ExecStackDone(p)
             \/ ExecCommit(p) \/ ExecBad(p)
      PROVE  IInv'
  BY <1>2, ForkCall, ExecCall, SbrkGrowCall, SbrkShrinkCall, ExitCall, ReapStep, KallocStep, OutOfMemoryStep,
     MapPageStep, MapFixedStep, ForkDoneStep, SbrkDoneStep, ExecStartStep, ExecSegStep, ExecLoopDoneStep,
     ExecStackStep, ExecCommitStep, ExecBadStep
<1> QED BY <1>1, <1>2 DEF Next

\* IInv holds in every state, whatever calls fail and in whatever order the
\* processes take their steps.
THEOREM Invariance == Spec => []IInv
<1>1. Init => IInv
  BY InitInv
<1>2. IInv /\ [Next]_vars => IInv'
  BY NextInv
<1> QED BY <1>1, <1>2, PTL DEF Spec

\* kalloc.c, and the error paths of fork(), exec(), growproc() and wait(): a
\* page that nobody holds is on the free list.
THEOREM NoPageIsLost == Spec => []NoneLost
<1>1. IInv => NoneLost
  BY DEF IInv
<1> QED BY <1>1, Invariance, PTL

\* vm.c: "uvmunmap: not mapped", "freewalk: leaf", "mappages: remap" and
\* "uvmcopy: page not present" are never reached.
THEOREM NoPanicIsReached == Spec => []NoPanic
<1>1. IInv => NoPanic
  BY DEF IInv
<1> QED BY <1>1, Invariance, PTL

=============================================================================
