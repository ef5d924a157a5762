------------------------------ MODULE UserCopy ------------------------------
(***************************************************************************)
(* How the kernel reads and writes user memory: walkaddr, copyout, copyin    *)
(* and copyinstr of kernel/vm.c, fetchaddr and fetchstr of kernel/syscall.c. *)
(*                                                                         *)
(* A page table pt says of each page below MAXVA whether it is mapped and   *)
(* whether user code may touch it; nuls is the set of addresses that hold a  *)
(* zero byte.  Addresses wrap at ADDRS (2^64 in the code).  A copy returns   *)
(* whether it succeeded and the addresses of the bytes moved, in order.      *)
(***************************************************************************)
EXTENDS Memory, Sequences

CONSTANTS
    ADDRS,          \* number of addresses
    WORD,           \* sizeof(uint64), in units
    CopyPages       \* pages below MAXVA of the tables that are tried

ASSUME UserCopyAssumption ==
    /\ WORD \in Nat /\ CopyPages \in 1..MAXPAGE
    /\ ADDRS \in Nat /\ CopyPages * PGSIZE < ADDRS /\ MAXPAGE * PGSIZE <= ADDRS

Addrs == 0..(ADDRS - 1)

\* The page tables: a page is not mapped, mapped without PTE_U (the trapframe, the
\* guard page under the stack), or the user's.
PageTables == [0..(CopyPages - 1) -> {"none", "kernel", "user"}]

PGROUNDDOWN(va) == va - (va % PGSIZE)

\* walkaddr() finds a page.
walkaddr(pt, va) == va \div PGSIZE \in DOMAIN pt /\ pt[va \div PGSIZE] = "user"

Fewer(a, b) == IF a < b THEN a ELSE b

\* The bytes from va to the end of its page, at most len.
InPage(va, len) == Fewer(PGSIZE - (va - PGROUNDDOWN(va)), len)
Bytes(va, n) == [i \in 1..n |-> va + i - 1]

\* The loop of copyout() and copyin(), which differ in the direction of memmove().
RECURSIVE copy(_, _, _, _)
copy(pt, va, len, moved) ==
    IF len = 0 THEN [ok |-> TRUE, moved |-> moved]
    ELSE IF ~walkaddr(pt, PGROUNDDOWN(va)) THEN [ok |-> FALSE, moved |-> moved]
    ELSE copy(pt, (PGROUNDDOWN(va) + PGSIZE) % ADDRS, len - InPage(va, len),
              moved \o Bytes(va, InPage(va, len)))

copyout(pt, dstva, len) == copy(pt, dstva, len, <<>>)
copyin(pt, srcva, len)  == copy(pt, srcva, len, <<>>)

\* The zero bytes in the n bytes from va, and the first of them.
NulsIn(nuls, va, n) == {a \in nuls : va <= a /\ a < va + n}
FirstNul(S) == CHOOSE a \in S : \A b \in S : a <= b

\* copyinstr(): page by page until a zero byte, or max.
RECURSIVE copyinstr(_, _, _, _, _)
copyinstr(pt, nuls, va, max, moved) ==
    LET n == InPage(va, max)
        S == NulsIn(nuls, va, n)
    IN
    IF max = 0 \/ ~walkaddr(pt, PGROUNDDOWN(va)) THEN [ok |-> FALSE, moved |-> moved]
    ELSE IF S # {} THEN [ok |-> TRUE, moved |-> moved \o Bytes(va, FirstNul(S) - va + 1)]
    ELSE copyinstr(pt, nuls, (PGROUNDDOWN(va) + PGSIZE) % ADDRS, max - n, moved \o Bytes(va, n))

\* Mutant of fetchaddr: only the first test; the word may end after size.
fetchaddrStart(pt, size, addr) == addr < size /\ copyin(pt, addr, WORD).ok

\* fetchaddr(): the word at addr, of a process of that size.
fetchaddr(pt, size, addr) ==
    /\ addr < size /\ (addr + WORD) % ADDRS <= size
    /\ copyin(pt, addr, WORD).ok

\* fetchstr(): the length of the string at addr, or -1.
fetchstr(pt, nuls, addr, max) ==
    LET r == copyinstr(pt, nuls, addr, max, <<>>) IN IF r.ok THEN Len(r.moved) - 1 ELSE -1

-----------------------------------------------------------------------------
(* What they promise *)

\* The n addresses from va are user memory.
Accessible(pt, va, n) == \A a \in va..(va + n - 1) : walkaddr(pt, a)

\* copyout/copyin: they succeed exactly when every byte is user memory, and
\* then move those bytes in order; a copy that fails has moved the bytes before
\* the first page it may not touch and nothing else.
CopySound(pt, va, len) ==
    LET r == copyin(pt, va, len) IN
    /\ r = copyout(pt, va, len)
    /\ r.ok <=> Accessible(pt, va, len)
    /\ r.moved = Bytes(va, Len(r.moved)) /\ Accessible(pt, va, Len(r.moved))
    /\ Len(r.moved) < len => ~walkaddr(pt, va + Len(r.moved))
    /\ Len(r.moved) <= len

\* fetchstr: the length is that of the zero-terminated string, when it is all user
\* memory and, with its end, not longer than max.
StringSound(pt, nuls, va, max) ==
    LET ends == {n \in 0..(max - 1) : va + n \in nuls /\ Accessible(pt, va, n + 1)
                                       /\ \A k \in 0..(n - 1) : va + k \notin nuls}
    IN  ends = IF fetchstr(pt, nuls, va, max) = -1 THEN {} ELSE {fetchstr(pt, nuls, va, max)}

\* fetchaddr: a word is fetched exactly when it lies below the size of the process
\* and in user memory, however close to the end of the address space it starts.
WordSound(pt, size, va) ==
    fetchaddr(pt, size, va) <=> va + WORD <= size /\ Accessible(pt, va, WORD)

OnEveryTable == \A pt \in PageTables : \A va \in Addrs :
    /\ \A len \in Addrs : CopySound(pt, va, len)
    /\ \A size \in 0..(CopyPages * PGSIZE) : WordSound(pt, size, va)
    /\ \A nuls \in SUBSET (0..(CopyPages * PGSIZE - 1)) : \A max \in 0..(CopyPages * PGSIZE) :
            StringSound(pt, nuls, va, max)

\* The table p runs on.
TableOf(p) == [v \in 0..(MAXPAGE - 1) |->
                 IF <<p, cur[p], v>> \in fixed \cup guards THEN "kernel"
                 ELSE IF v \in Mapped(p, cur[p]) THEN "user" ELSE "none"]

\* The pages of which copyin() gives p every byte.
Reached(p) == {v \in 0..(MAXPAGE - 1) : copyin(TableOf(p), v * PGSIZE, PGSIZE).ok}

\* copyin, copyout, copyinstr, fetchaddr and fetchstr, on every page table,
\* address and length: they move what a loop over single bytes that asks for
\* permission at each of them would move, also across pages and where the
\* address wraps; and whatever fork, sbrk and exec did, a system call of a process
\* reaches its memory up to the end of the page p->sz is in, but for at most one
\* page, the guard under its stack, and nothing above.
CopiesExact ==
    /\ OnEveryTable
    /\ \A p \in Procs : state[p] = "live" /\ th[p] = Idle =>
         /\ Reached(p) \subseteq 0..(Pages(sz[p]) - 1)
         /\ Cardinality(0..(Pages(sz[p]) - 1) \ Reached(p)) <= 1

=============================================================================
