----------------------------- MODULE PipeProofs -----------------------------
(* Proofs about Pipe. *)
EXTENDS Pipe, TLAPS

\* Most leaves are first-order: Zenon proves them. The others name SMT.
USE Zenon

\* A multiple of m that is smaller than m is 0.
LEMMA SmallMultiple ==
    ASSUME NEW m \in Int, m > 0, NEW k \in Int, -m < k * m, k * m < m
    PROVE  k = 0
<1>1. ASSUME k >= 1 PROVE FALSE
  <2>1. k * m = (k - 1) * m + m
    BY SMT
  <2>2. (k - 1) * m >= 0
    BY <1>1, SMT
  <2> QED BY <2>1, <2>2, SMT
<1>2. ASSUME k <= -1 PROVE FALSE
  <2>1. k * m = -m - (-1 - k) * m
    BY SMT
  <2>2. (-1 - k) * m >= 0
    BY <1>2, SMT
  <2> QED BY <2>1, <2>2, SMT
<1> QED BY <1>1, <1>2, SMT

\* Quotient and remainder.
LEMMA Division ==
    ASSUME NEW a \in Int, NEW m \in Int, m > 0
    PROVE  a % m \in 0..m-1 /\ \E q \in Int : a = q * m + (a % m)
<1>1. m \in Int /\ m > 0 /\ a \div m \in Int
  BY SMT
<1>2. a = m * (a \div m) + (a % m)
  BY SMT
<1>3. a % m \in 0..m-1
  BY SMT
<1>4. \A d \in Int : m * d = d * m
  BY SMT
<1> QED BY <1>1, <1>2, <1>3, <1>4

\* There is only one remainder.
LEMMA SameRemainder ==
    ASSUME NEW m \in Int, m > 0, NEW q \in Int, NEW k \in Int,
           NEW r \in 0..m-1, NEW s \in 0..m-1, q * m + r = k * m + s
    PROVE  r = s
<1>1. (q - k) * m = s - r
  <2>1. (q - k) * m = q * m - k * m /\ q * m \in Int /\ k * m \in Int
    BY SMT
  <2> QED BY <2>1, SMT
<1>2. q - k = 0
  <2> DEFINE d == q - k
  <2>1. d \in Int /\ -m < s - r /\ s - r < m
    BY SMT
  <2> HIDE DEF d
  <2>2. d * m = s - r
    BY <1>1 DEF d
  <2>3. d = 0
    BY <2>1, <2>2, SmallMultiple
  <2> QED BY <2>3 DEF d
<1>3. (q - k) * m = 0
  BY <1>2, SMT
<1> QED BY <1>1, <1>3, SMT

\* The remainder is the only one in its range.
LEMMA RemainderUnique ==
    ASSUME NEW m \in Int, m > 0, NEW a \in Int, NEW q \in Int, NEW r \in 0..m-1, a = q * m + r
    PROVE  a % m = r
<1>1. PICK k \in Int : a = k * m + (a % m)
  BY Division
<1>2. a % m \in 0..m-1
  BY Division
<1> DEFINE s == a % m
<1> HIDE DEF s
<1>3. s \in 0..m-1 /\ q * m + r = k * m + s
  BY <1>1, <1>2 DEF s
<1>4. r = s
  BY <1>3, SameRemainder
<1> QED BY <1>4 DEF s

\* Adding a multiple of m changes nothing.
LEMMA RemainderShift ==
    ASSUME NEW m \in Int, m > 0, NEW a \in Int, NEW k \in Int
    PROVE  (a + k * m) % m = a % m
<1>1. PICK q \in Int : a = q * m + (a % m)
  BY Division
<1>2. a % m \in 0..m-1
  BY Division
<1> DEFINE s == a % m
           b == a + k * m
<1>3. b = (q + k) * m + s /\ b \in Int /\ q + k \in Int
  <2> HIDE DEF s
  <2>1. a = q * m + s
    BY <1>1 DEF s
  <2>2. (q + k) * m = q * m + k * m /\ q * m \in Int /\ k * m \in Int
    BY SMT
  <2>3. s \in Int
    BY <1>2, SMT DEF s
  <2> QED BY <2>1, <2>2, <2>3, SMT
<1> HIDE DEF s, b
<1>4. b % m = s
  BY <1>2, <1>3, RemainderUnique DEF s
<1> QED BY <1>4 DEF s, b

-----------------------------------------------------------------------------
(* The counters *)

\* The counters run from 0 to UintMod - 1 and wrap around.
LEMMA Counters ==
    ASSUME NEW r \in 0..UintMod-1, NEW w \in 0..UintMod-1
    PROVE  /\ (w - r) % UintMod = IF r <= w THEN w - r ELSE w - r + UintMod
           /\ (r + 1) % UintMod = IF r + 1 = UintMod THEN 0 ELSE r + 1
           /\ (r + PIPESIZE) % UintMod =
                IF r + PIPESIZE < UintMod THEN r + PIPESIZE ELSE (r + PIPESIZE) - UintMod
<1>1. UintMod \in Int /\ UintMod > 0 /\ PIPESIZE \in Nat /\ PIPESIZE > 0 /\ PIPESIZE < UintMod
  BY PipeAssumption, SMT
<1>2. \A x \in Int : /\ x \in 0..UintMod-1 => x % UintMod = x
                     /\ x + UintMod \in 0..UintMod-1 => x % UintMod = x + UintMod
                     /\ x - UintMod \in 0..UintMod-1 => x % UintMod = x - UintMod
  <2> SUFFICES ASSUME NEW x \in Int, NEW k \in {-1, 0, 1}, NEW y \in 0..UintMod-1,
                      x = k * UintMod + y
               PROVE  x % UintMod = y
    BY <1>1, SMT
  <2> QED BY <1>1, RemainderUnique, SMT
<1>3. w - r \in Int /\ r + 1 \in Int /\ r + PIPESIZE \in Int
  BY <1>1, SMT
<1>4. (w - r) % UintMod = IF r <= w THEN w - r ELSE w - r + UintMod
  <2>1. IF r <= w THEN w - r \in 0..UintMod-1 ELSE w - r + UintMod \in 0..UintMod-1
    BY <1>1, SMT
  <2> QED BY <1>2, <1>3, <2>1
<1>5. (r + 1) % UintMod = IF r + 1 = UintMod THEN 0 ELSE r + 1
  <2>1. IF r + 1 = UintMod THEN (r + 1) - UintMod = 0 /\ 0 \in 0..UintMod-1
                           ELSE r + 1 \in 0..UintMod-1
    BY <1>1, SMT
  <2> QED BY <1>2, <1>3, <2>1
<1>6. (r + PIPESIZE) % UintMod =
        IF r + PIPESIZE < UintMod THEN r + PIPESIZE ELSE (r + PIPESIZE) - UintMod
  <2> DEFINE x == r + PIPESIZE
  <2>1. x \in Int /\ IF x < UintMod THEN x \in 0..UintMod-1 ELSE x - UintMod \in 0..UintMod-1
    BY <1>1, SMT
  <2> HIDE DEF x
  <2>2. x % UintMod = IF x < UintMod THEN x ELSE x - UintMod
    BY <1>2, <2>1
  <2> QED BY <2>2 DEF x
<1> QED BY <1>4, <1>5, <1>6

\* How many bytes the counters r and w say there are.
Count(r, w) == (w - r) % UintMod

\* One more byte fits, or one can be taken.
LEMMA CountFacts ==
    ASSUME NEW r \in 0..UintMod-1, NEW w \in 0..UintMod-1, Count(r, w) <= PIPESIZE
    PROVE  /\ Count(r, w) \in Nat
           /\ r = w => Count(r, w) = 0
           /\ (r + 1) % UintMod \in 0..UintMod-1 /\ (w + 1) % UintMod \in 0..UintMod-1
           /\ w # (r + PIPESIZE) % UintMod =>
                Count(r, w) < PIPESIZE /\ Count(r, (w + 1) % UintMod) = Count(r, w) + 1
           /\ r # w =>
                Count(r, w) > 0 /\ Count((r + 1) % UintMod, w) = Count(r, w) - 1
<1>1. UintMod \in Int /\ UintMod > 0 /\ PIPESIZE \in Nat /\ PIPESIZE > 0 /\ PIPESIZE < UintMod
  BY PipeAssumption, SMT
<1> DEFINE u == (r + 1) % UintMod
           v == (w + 1) % UintMod
           f == (r + PIPESIZE) % UintMod
<1>2. /\ u = IF r + 1 = UintMod THEN 0 ELSE r + 1
      /\ v = IF w + 1 = UintMod THEN 0 ELSE w + 1
      /\ f = IF r + PIPESIZE < UintMod THEN r + PIPESIZE ELSE (r + PIPESIZE) - UintMod
  BY Counters
<1> HIDE DEF u, v, f
<1>3. u \in 0..UintMod-1 /\ v \in 0..UintMod-1
  BY <1>1, <1>2, SMT
<1>4. \A x, y \in 0..UintMod-1 : Count(x, y) = IF x <= y THEN y - x ELSE y - x + UintMod
  BY Counters DEF Count
<1> DEFINE c == Count(r, w)
           cv == Count(r, v)
           cu == Count(u, w)
<1>5. /\ c = IF r <= w THEN w - r ELSE w - r + UintMod
      /\ cv = IF r <= v THEN v - r ELSE v - r + UintMod
      /\ cu = IF u <= w THEN w - u ELSE w - u + UintMod
      /\ c <= PIPESIZE
  BY <1>3, <1>4
<1> HIDE DEF c, cv, cu
<1>6. /\ c \in Nat
      /\ r = w => c = 0
      /\ w # f => c < PIPESIZE /\ cv = c + 1
      /\ r # w => c > 0 /\ cu = c - 1
  BY <1>1, <1>2, <1>3, <1>5, SMT
<1> QED BY <1>3, <1>6 DEF u, v, f, c, cv, cu

-----------------------------------------------------------------------------
(* The ring *)

\* Positions less than PIPESIZE apart are different places of the ring.
LEMMA PlacesDiffer ==
    ASSUME NEW x \in Int, NEW y \in Int, x < y, y < x + PIPESIZE
    PROVE  x % PIPESIZE # y % PIPESIZE
<1> SUFFICES ASSUME x % PIPESIZE = y % PIPESIZE PROVE FALSE
  OBVIOUS
<1>1. PIPESIZE \in Int /\ PIPESIZE > 0
  BY PipeAssumption, SMT
<1> DEFINE s == x % PIPESIZE
<1>2. PICK i \in Int : x = i * PIPESIZE + s
  BY <1>1, Division
<1>3. PICK j \in Int : y = j * PIPESIZE + s
  BY <1>1, Division
<1>4. s \in Int
  BY <1>1, Division, SMT
<1> HIDE DEF s
<1>5. y - x = (j - i) * PIPESIZE
  <2>1. (j - i) * PIPESIZE = j * PIPESIZE - i * PIPESIZE
    BY <1>1, SMT
  <2>2. j * PIPESIZE \in Int /\ i * PIPESIZE \in Int
    BY <1>1, SMT
  <2> QED BY <1>2, <1>3, <1>4, <2>1, <2>2, SMT
<1> DEFINE d == j - i
<1>6. d \in Int /\ -PIPESIZE < y - x /\ y - x < PIPESIZE
  BY <1>1, SMT
<1>7. d * PIPESIZE = y - x
  BY <1>5
<1> HIDE DEF d
<1>8. d = 0
  BY <1>1, <1>6, <1>7, SmallMultiple
<1>9. y - x = 0
  BY <1>1, <1>7, <1>8, SMT
<1> QED BY <1>9, SMT

\* The place of a position does not change when its counter wraps around, since
\* PIPESIZE divides 2^32.
LEMMA PlaceWraps ==
    ASSUME NEW x \in Int
    PROVE  (x - UintMod) % PIPESIZE = x % PIPESIZE
<1>1. PIPESIZE \in Int /\ PIPESIZE > 0 /\ UintMod \in Int /\ UintMod % PIPESIZE = 0
  BY PipeAssumption, SMT
<1>2. PICK c \in Int : UintMod = c * PIPESIZE + (UintMod % PIPESIZE)
  BY <1>1, Division
<1>3. UintMod = c * PIPESIZE
  <2>1. c * PIPESIZE \in Int
    BY <1>1, SMT
  <2> QED BY <1>1, <1>2, <2>1, SMT
<1>4. -c \in Int /\ (-c) * PIPESIZE = -(c * PIPESIZE) /\ c * PIPESIZE \in Int
  BY <1>1, SMT
<1>5. x + (-c) * PIPESIZE = x - UintMod
  BY <1>3, <1>4
<1>6. (x + (-c) * PIPESIZE) % PIPESIZE = x % PIPESIZE
  BY <1>1, <1>4, RemainderShift
<1> QED BY <1>5, <1>6

\* The next byte goes behind the last one, and the k-th one is the next one of
\* the reader that took one.
LEMMA Places ==
    ASSUME NEW r \in 0..UintMod-1, NEW w \in 0..UintMod-1, NEW k \in Int
    PROVE  /\ w % PIPESIZE = (r + Count(r, w)) % PIPESIZE
           /\ (((r + 1) % UintMod) + k) % PIPESIZE = (r + 1 + k) % PIPESIZE
<1>1. UintMod \in Int
  BY PipeAssumption, SMT
<1>2. w % PIPESIZE = (r + Count(r, w)) % PIPESIZE
  <2>1. r + Count(r, w) = IF r <= w THEN w ELSE w + UintMod
    BY <1>1, Counters, SMT DEF Count
  <2>2. w = (w + UintMod) - UintMod /\ w + UintMod \in Int
    BY <1>1, SMT
  <2>3. w % PIPESIZE = (w + UintMod) % PIPESIZE
    BY <2>2, PlaceWraps
  <2> QED BY <2>1, <2>3
<1>3. (((r + 1) % UintMod) + k) % PIPESIZE = (r + 1 + k) % PIPESIZE
  <2>1. (r + 1) % UintMod = IF r + 1 = UintMod THEN r + 1 - UintMod ELSE r + 1
    BY <1>1, Counters, SMT
  <2>2. ((r + 1) % UintMod) + k = r + 1 + k \/ ((r + 1) % UintMod) + k = (r + 1 + k) - UintMod
    BY <1>1, <2>1, SMT
  <2>3. ((r + 1 + k) - UintMod) % PIPESIZE = (r + 1 + k) % PIPESIZE
    BY PlaceWraps, SMT
  <2> QED BY <2>2, <2>3
<1> QED BY <1>2, <1>3

-----------------------------------------------------------------------------
(* The invariant *)

Positions == [pc : Pcs, i : Nat, n : Nat]

\* p goes to a, and of the others some sleepers may be woken.
Moves(p, a) ==
    /\ proc' \in [Procs -> Positions] /\ proc'[p] = a
    /\ \A q \in Procs \ {p} :
        /\ proc'[q].i = proc[q].i
        /\ proc'[q].pc \in Holding <=> proc[q].pc \in Holding
        /\ proc'[q].pc \in Writing <=> proc[q].pc \in Writing
        /\ proc'[q].pc \in Reading <=> proc[q].pc \in Reading
        /\ proc'[q].pc = "none" <=> proc[q].pc = "none"
        /\ proc'[q].pc = "close" <=> proc[q].pc = "close"

\* Goto() and the two wakeups move p.
LEMMA MoveFacts ==
    ASSUME IInv, NEW p \in Procs, NEW a \in Positions,
           Goto(p, a) \/ WakeReaders(p, a) \/ WakeWriters(p, a)
    PROVE  Moves(p, a)
<1>1. proc \in [Procs -> Positions]
  BY DEF IInv, TypeOK, Positions
<1>2. CASE Goto(p, a)
  BY <1>1, <1>2 DEF Goto, Moves
<1>3. CASE WakeReaders(p, a)
  <2>1. proc' = [q \in Procs |-> IF q = p THEN a ELSE
                    IF proc[q].pc = "rsleep" THEN [proc[q] EXCEPT !.pc = "rready"] ELSE proc[q]]
    BY <1>3 DEF WakeReaders, GotoAndWake
  <2> QED BY <1>1, <2>1 DEF Moves, Positions, Pcs, Writing, Reading, Holding
<1>4. CASE WakeWriters(p, a)
  <2>1. proc' = [q \in Procs |-> IF q = p THEN a ELSE
                    IF proc[q].pc = "wsleep" THEN [proc[q] EXCEPT !.pc = "wready"] ELSE proc[q]]
    BY <1>4 DEF WakeWriters, GotoAndWake
  <2> QED BY <1>1, <2>1 DEF Moves, Positions, Pcs, Writing, Reading, Holding
<1> QED BY <1>2, <1>3, <1>4

\* A step of a read() or write() keeps the invariant: it leaves the ends alone,
\* goes on with the end that its process has, and takes or releases the lock.
LEMMA CallInv ==
    ASSUME IInv, NEW p \in Procs, NEW a \in Positions, Moves(p, a),
           UNCHANGED <<readopen, writeopen, freed, fds, killed>>,
           proc[p].pc \notin {"none", "close"}, a.pc \notin {"none", "close"},
           a.pc \in Writing => "w" \in fds[p],
           a.pc \in Reading => "r" \in fds[p],
           lock \in {NoProc, p}, lock' = IF a.pc \in Holding THEN p ELSE NoProc,
           data' \in [0..PIPESIZE-1 -> Bytes],
           nread' \in 0..UintMod-1, nwrite' \in 0..UintMod-1, Fits'
    PROVE  IInv'
<1>1. TypeOK'
  BY DEF IInv, TypeOK, Moves, Positions
<1>2. LockHeld'
  <2> SUFFICES ASSUME NEW q \in Procs PROVE proc'[q].pc \in Holding <=> lock' = q
    BY DEF LockHeld
  <2>1. CASE q = p
    BY <2>1, PipeAssumption DEF Moves
  <2>2. CASE q # p
    <3>1. proc[q].pc \notin Holding
      BY <2>2, PipeAssumption DEF IInv, LockHeld
    <3> QED BY <2>2, <3>1, PipeAssumption DEF Moves
  <2> QED BY <2>1, <2>2
<1>3. \A q \in Procs, e \in Ends : Closes(q, e)' => Closes(q, e)
  BY DEF Closes, Moves
<1>4. EndsKept'
  BY <1>3 DEF IInv, EndsKept, IsOpen
<1>5. EndsUsed'
  BY DEF IInv, EndsUsed, Moves
<1> QED BY <1>1, <1>2, <1>4, <1>5 DEF IInv

\* What a process at pc knows of the end that it uses and of its position.
LEMMA AtFacts ==
    ASSUME IInv, NEW p \in Procs
    PROVE  /\ proc[p] \in Positions /\ proc[p].i \in Nat /\ proc[p].n \in Nat
           /\ proc[p].pc \in Writing => "w" \in fds[p]
           /\ proc[p].pc \in Reading => "r" \in fds[p]
BY DEF IInv, TypeOK, EndsUsed, Positions

\* A call, or a sleeper that was woken, takes the lock.
LEMMA EnterInv ==
    ASSUME IInv, NEW p \in Procs,
           \/ WriteAwake(p) \/ ReadAwake(p)
           \/ \E n \in Counts : WriteCall(p, n) \/ ReadCall(p, n)
    PROVE  IInv'
<1>1. PICK from \in Pcs, a \in Positions :
        /\ Enter(p, from, a) /\ from \notin {"none", "close"} /\ a.pc \in Holding
        /\ a.pc \in Writing => "w" \in fds[p]
        /\ a.pc \in Reading => "r" \in fds[p]
  <2>1. ASSUME NEW n \in Counts, WriteCall(p, n)
        PROVE  Enter(p, "idle", At("write", 0, n)) /\ "w" \in fds[p] /\ At("write", 0, n) \in Positions
    BY <2>1, PipeAssumption DEF WriteCall, At, Positions, Pcs, Writing
  <2>2. ASSUME NEW n \in Counts, ReadCall(p, n)
        PROVE  Enter(p, "idle", At("rwait", 0, n)) /\ "r" \in fds[p] /\ At("rwait", 0, n) \in Positions
    BY <2>2, PipeAssumption DEF ReadCall, At, Positions, Pcs, Reading
  <2>3. ASSUME WriteAwake(p)
        PROVE  LET a == At("write", proc[p].i, proc[p].n)
               IN  Enter(p, "wready", a) /\ "w" \in fds[p] /\ a \in Positions
    BY <2>3, AtFacts DEF WriteAwake, Enter, At, Positions, Pcs, Writing
  <2>4. ASSUME ReadAwake(p)
        PROVE  LET a == At("rwait", 0, proc[p].n)
               IN  Enter(p, "rready", a) /\ "r" \in fds[p] /\ a \in Positions
    BY <2>4, AtFacts DEF ReadAwake, Enter, At, Positions, Pcs, Reading
  <2>5. /\ {"idle", "wready", "rready"} \subseteq Pcs
        /\ {"write", "rwait"} \subseteq Holding /\ "write" \notin Reading /\ "rwait" \notin Writing
    BY DEF Pcs, Holding, Writing, Reading
  <2>6. \A pc, i, n : At(pc, i, n).pc = pc
    BY DEF At
  <2> QED BY <2>1, <2>2, <2>3, <2>4, <2>5, <2>6, SMT
<1>2. /\ proc[p].pc = from /\ lock = NoProc /\ lock' = p /\ Goto(p, a)
      /\ UNCHANGED <<data, nread, nwrite, readopen, writeopen, freed, fds, killed>>
  BY <1>1 DEF Enter, pipe
<1>3. Moves(p, a)
  BY <1>2, MoveFacts
<1>4. a.pc \notin {"none", "close"}
  BY <1>1 DEF Holding
<1>5. Fits' /\ TypeOK
  BY <1>2 DEF IInv, Fits
<1> QED BY <1>1, <1>2, <1>3, <1>4, <1>5, CallInv DEF TypeOK

\* A step that leaves the ring alone, in a region of the lock.
LEMMA InsideInv ==
    ASSUME IInv, NEW p \in Procs,
           \/ WriteAbort(p) \/ WriteSleep(p) \/ WriteDone(p)
           \/ ReadAbort(p) \/ ReadSleep(p) \/ ReadStart(p) \/ ReadDone(p)
    PROVE  IInv'
<1>1. /\ UNCHANGED <<data, nread, nwrite, readopen, writeopen, freed, fds, killed>>
      /\ lock = p /\ proc[p].pc \in Holding
  BY DEF WriteAbort, WriteSleep, WriteDone, ReadAbort, ReadSleep, ReadStart, ReadDone,
         WriteMore, WriteGoes, Running, pipe, Holding
<1>2. PICK a \in Positions :
        /\ Goto(p, a) \/ WakeReaders(p, a) \/ WakeWriters(p, a)
        /\ a.pc \notin {"none", "close"}
        /\ a.pc \in Writing => proc[p].pc \in Writing
        /\ a.pc \in Reading => proc[p].pc \in Reading
        /\ lock' = IF a.pc \in Holding THEN p ELSE NoProc
  <2>1. /\ Idle \in Positions /\ Idle.pc = "idle"
        /\ "idle" \notin {"none", "close"} \cup Writing \cup Reading \cup Holding
    BY DEF Idle, At, Positions, Pcs, Writing, Reading, Holding
  <2>2. CASE WriteAbort(p) \/ ReadAbort(p)
    BY <2>1, <2>2 DEF WriteAbort, ReadAbort
  <2>3. CASE WriteDone(p)
    BY <2>1, <2>3 DEF WriteDone
  <2>4. CASE ReadDone(p)
    BY <2>1, <2>4 DEF ReadDone
  <2>5. CASE WriteSleep(p)
    <3> DEFINE a == At("wsleep", proc[p].i, proc[p].n)
    <3>1. a \in Positions /\ a.pc = "wsleep"
      BY AtFacts DEF At, Positions, Pcs, Writing
    <3>2. WakeReaders(p, a) /\ lock' = NoProc /\ proc[p].pc = "write"
      BY <2>5 DEF WriteSleep, WriteGoes, WriteMore, Running
    <3> HIDE DEF a
    <3> QED BY <3>1, <3>2 DEF Writing, Reading, Holding
  <2>6. CASE ReadSleep(p)
    <3> DEFINE a == At("rsleep", 0, proc[p].n)
    <3>1. a \in Positions /\ a.pc = "rsleep"
      BY AtFacts DEF At, Positions, Pcs, Reading
    <3>2. Goto(p, a) /\ lock' = NoProc /\ proc[p].pc = "rwait"
      BY <2>6 DEF ReadSleep, Running
    <3> HIDE DEF a
    <3> QED BY <3>1, <3>2 DEF Writing, Reading, Holding
  <2>7. CASE ReadStart(p)
    <3> DEFINE a == At("read", 0, proc[p].n)
    <3>1. a \in Positions /\ a.pc = "read"
      BY AtFacts DEF At, Positions, Pcs, Reading
    <3>2. Goto(p, a) /\ lock' = p /\ proc[p].pc = "rwait"
      BY <2>7 DEF ReadStart, Running
    <3> HIDE DEF a
    <3> QED BY <3>1, <3>2 DEF Writing, Reading, Holding
  <2> QED BY <2>2, <2>3, <2>4, <2>5, <2>6, <2>7
<1>3. Moves(p, a)
  BY <1>2, MoveFacts
<1>4. Fits' /\ TypeOK
  BY <1>1 DEF IInv, Fits
<1>5. proc[p].pc \notin {"none", "close"}
  BY <1>1 DEF Holding
<1> QED BY <1>1, <1>2, <1>3, <1>4, <1>5, AtFacts, CallInv DEF TypeOK

\* pipewrite() puts a byte into the ring.
LEMMA WriteByteInv ==
    ASSUME IInv, NEW p \in Procs, NEW b \in Bytes, WriteByte(p, b)
    PROVE  IInv'
<1> DEFINE a == At("write", proc[p].i + 1, proc[p].n)
<1>1. a \in Positions /\ a.pc = "write"
  BY AtFacts, SMT DEF At, Positions, Pcs, Writing
<1>2. /\ UNCHANGED <<nread, readopen, writeopen, freed, fds, killed, lock>>
      /\ lock = p /\ proc[p].pc = "write" /\ Goto(p, a)
      /\ data' = [data EXCEPT ![nwrite % PIPESIZE] = b]
      /\ nwrite # (nread + PIPESIZE) % UintMod /\ nwrite' = (nwrite + 1) % UintMod
  BY DEF WriteByte, WriteGoes, WriteMore, Running, Full
<1> HIDE DEF a
<1>3. Moves(p, a)
  BY <1>1, <1>2, MoveFacts
<1>4. TypeOK /\ Count(nread, nwrite) <= PIPESIZE
  BY DEF IInv, Fits, Count
<1>5. /\ nwrite' \in 0..UintMod-1
      /\ Count(nread, nwrite) < PIPESIZE /\ Count(nread, nwrite') = Count(nread, nwrite) + 1
      /\ Count(nread, nwrite) \in Nat
  BY <1>2, <1>4, CountFacts DEF TypeOK
<1>6. Fits'
  BY <1>2, <1>5, PipeAssumption, SMT DEF Fits, Count
<1>7. data' \in [0..PIPESIZE-1 -> Bytes]
  BY <1>2, <1>4 DEF TypeOK
<1>8. proc[p].pc \in Writing /\ "write" \notin Reading /\ "write" \in Holding
  BY <1>2 DEF Writing, Reading, Holding
<1>9. "w" \in fds[p]
  BY <1>8, AtFacts
<1> QED BY <1>1, <1>2, <1>3, <1>4, <1>5, <1>6, <1>7, <1>8, <1>9, CallInv DEF TypeOK

\* piperead() takes a byte out of the ring.
LEMMA ReadByteInv ==
    ASSUME IInv, NEW p \in Procs, ReadByte(p)
    PROVE  IInv'
<1>1. /\ UNCHANGED <<data, nwrite, readopen, writeopen, freed, fds, killed>>
      /\ lock = p /\ proc[p].pc = "read"
      /\ nread # nwrite /\ nread' = (nread + 1) % UintMod
  BY DEF ReadByte, Running, Empty
<1>2. PICK a \in Positions :
        /\ Goto(p, a) \/ WakeWriters(p, a)
        /\ \/ a.pc = "read" /\ lock' = p
           \/ a.pc = "idle" /\ lock' = NoProc
  <2>1. Idle \in Positions /\ Idle.pc = "idle"
    BY DEF Idle, At, Positions, Pcs
  <2> DEFINE a == At("read", proc[p].i + 1, proc[p].n)
  <2>2. a \in Positions /\ a.pc = "read"
    BY AtFacts, SMT DEF At, Positions, Pcs, Reading
  <2>3. (Goto(p, a) /\ lock' = lock) \/ (WakeWriters(p, Idle) /\ lock' = NoProc)
    BY DEF ReadByte
  <2> HIDE DEF a
  <2> QED BY <1>1, <2>1, <2>2, <2>3
<1>3. Moves(p, a)
  BY <1>2, MoveFacts
<1>4. TypeOK /\ Count(nread, nwrite) <= PIPESIZE
  BY DEF IInv, Fits, Count
<1>5. /\ nread' \in 0..UintMod-1
      /\ Count(nread, nwrite) > 0 /\ Count(nread', nwrite) = Count(nread, nwrite) - 1
      /\ Count(nread, nwrite) \in Nat
  BY <1>1, <1>4, CountFacts DEF TypeOK
<1>6. Fits'
  BY <1>1, <1>4, <1>5, PipeAssumption, SMT DEF Fits, Count
<1>7. /\ proc[p].pc \in Reading
      /\ a.pc \notin Writing \cup {"none", "close"} /\ (a.pc \in Holding <=> a.pc = "read")
  BY <1>1, <1>2 DEF Writing, Reading, Holding
<1>8. "r" \in fds[p]
  BY <1>7, AtFacts
<1> QED BY <1>1, <1>2, <1>3, <1>4, <1>5, <1>6, <1>7, <1>8, CallInv DEF TypeOK

\* fileclose() drops a reference, fork() copies them, kill() wakes, and
\* pipeclose() closes an end: none of them touches the ring or the lock.
LEMMA OutsideInv ==
    ASSUME IInv, NEW p \in Procs, NEW a \in Positions, Moves(p, a),
           UNCHANGED <<data, nread, nwrite, lock>>,
           a.pc \in Holding <=> proc[p].pc \in Holding,
           readopen' \in BOOLEAN, writeopen' \in BOOLEAN,
           fds' \in [Procs -> SUBSET Ends], killed' \in [Procs -> BOOLEAN]
    PROVE  TypeOK' /\ LockHeld' /\ Fits'
<1>1. TypeOK'
  BY DEF IInv, TypeOK, Moves, Positions
<1>2. LockHeld'
  BY DEF IInv, LockHeld, Moves
<1>3. Fits'
  BY DEF IInv, Fits
<1> QED BY <1>1, <1>2, <1>3

\* fileclose()
LEMMA FileCloseInv ==
    ASSUME IInv, NEW p \in Procs, NEW e \in Ends, FileClose(p, e)
    PROVE  IInv'
<1> DEFINE last == ~\E q \in Procs \ {p} : e \in fds[q]
           a == IF last THEN At("close", IF e = "w" THEN 1 ELSE 0, 0) ELSE Idle
<1>1. /\ UNCHANGED <<data, nread, nwrite, readopen, writeopen, freed, lock, killed>>
      /\ proc[p].pc = "idle" /\ e \in fds[p] /\ fds' = [fds EXCEPT ![p] = @ \ {e}]
      /\ Goto(p, a)
  BY DEF FileClose, pipe
<1>2. /\ a \in Positions /\ a.pc = (IF last THEN "close" ELSE "idle")
      /\ a.i = (IF last /\ e = "w" THEN 1 ELSE 0)
  BY DEF At, Idle, Positions, Pcs
<1> HIDE DEF a
<1>3. Moves(p, a)
  BY <1>1, <1>2, MoveFacts
<1>4. TypeOK
  BY DEF IInv
<1>5. \A q \in Procs : fds'[q] = IF q = p THEN fds[p] \ {e} ELSE fds[q]
  BY <1>1, <1>4 DEF TypeOK
<1>6. TypeOK' /\ LockHeld' /\ Fits'
  <2>1. fds' \in [Procs -> SUBSET Ends]
    BY <1>1, <1>4 DEF TypeOK
  <2>2. a.pc \notin Holding /\ proc[p].pc \notin Holding
    BY <1>1, <1>2 DEF Holding
  <2> HIDE DEF last
  <2> QED BY <1>1, <1>2, <1>3, <1>4, <2>1, <2>2, OutsideInv DEF TypeOK
<1>7. ASSUME NEW q \in Procs, NEW f \in Ends, Closes(q, f)'
      PROVE  IF q = p THEN last /\ f = e ELSE Closes(q, f)
  BY <1>2, <1>3, <1>7, SMT DEF Closes, Moves, Ends
<1>8. EndsKept'
  <2> SUFFICES ASSUME NEW f \in Ends, NEW q \in Procs
               PROVE  /\ f \in fds'[q] => IsOpen(f)
                      /\ Closes(q, f)' =>
                            /\ IsOpen(f)
                            /\ \A r \in Procs : f \notin fds'[r] /\ (Closes(r, f)' => r = q)
    BY <1>1 DEF EndsKept, IsOpen
  <2>1. EndsKept
    BY DEF IInv
  <2>2. f \in fds'[q] => IsOpen(f)
    BY <1>5, <2>1 DEF EndsKept
  <2>3. ASSUME Closes(q, f)', q = p
        PROVE  IsOpen(f) /\ \A r \in Procs : f \notin fds'[r] /\ (Closes(r, f)' => r = q)
    <3>1. last /\ f = e
      BY <1>7, <2>3
    <3>2. \A r \in Procs : ~Closes(r, e)
      BY <1>1, <2>1 DEF EndsKept
    <3>3. IsOpen(e)
      BY <1>1, <2>1 DEF EndsKept
    <3> QED BY <1>5, <1>7, <2>3, <3>1, <3>2, <3>3
  <2>4. ASSUME Closes(q, f)', q # p
        PROVE  IsOpen(f) /\ \A r \in Procs : f \notin fds'[r] /\ (Closes(r, f)' => r = q)
    <3>1. Closes(q, f)
      BY <1>7, <2>4
    <3>2. IsOpen(f) /\ \A r \in Procs : f \notin fds[r] /\ (Closes(r, f) => r = q)
      BY <2>1, <3>1 DEF EndsKept
    <3> QED BY <1>1, <1>5, <1>7, <3>1, <3>2, SMT
  <2> QED BY <2>2, <2>3, <2>4
<1>9. EndsUsed'
  <2>1. EndsUsed /\ "idle" \notin Writing \cup Reading /\ "close" \notin Writing \cup Reading
    BY DEF IInv, Writing, Reading
  <2> QED BY <1>1, <1>2, <1>3, <1>5, <2>1, SMT DEF EndsUsed, Moves
<1> QED BY <1>6, <1>8, <1>9 DEF IInv

\* pipeclose()
LEMMA PipeCloseInv ==
    ASSUME IInv, NEW p \in Procs, PipeClose(p)
    PROVE  IInv'
<1>1. PICK e \in Ends : Closes(p, e)
  BY DEF PipeClose, IInv, EndsUsed, Closes, Ends
<1>2. /\ UNCHANGED <<data, nread, nwrite, lock, fds, killed>>
      /\ proc[p].pc = "close" /\ (WakeReaders(p, Idle) \/ WakeWriters(p, Idle))
      /\ IF e = "w" THEN writeopen' = FALSE /\ readopen' = readopen
                    ELSE readopen' = FALSE /\ writeopen' = writeopen
      /\ freed' = (freed \/ (~readopen' /\ ~writeopen'))
  BY <1>1, SMT DEF PipeClose, Closes
<1>3. Idle \in Positions /\ Idle.pc = "idle"
  BY DEF Idle, At, Positions, Pcs
<1>4. Moves(p, Idle)
  BY <1>2, <1>3, MoveFacts
<1>5. TypeOK /\ EndsKept /\ EndsUsed
  BY DEF IInv
<1>6. readopen' \in BOOLEAN /\ writeopen' \in BOOLEAN
  BY <1>2, <1>5 DEF TypeOK
<1>7. TypeOK' /\ LockHeld' /\ Fits'
  <2>1. Idle.pc \notin Holding /\ proc[p].pc \notin Holding
    BY <1>2, <1>3 DEF Holding
  <2> QED BY <1>2, <1>3, <1>4, <1>5, <1>6, <2>1, OutsideInv DEF TypeOK
<1>8. \A q \in Procs, f \in Ends : Closes(q, f)' => q # p /\ Closes(q, f)
  BY <1>3, <1>4 DEF Closes, Moves
<1>9. \A f \in Ends : f # e => IsOpen(f)' = IsOpen(f)
  BY <1>2 DEF IsOpen, Ends
<1>10. \A q \in Procs : e \notin fds[q] /\ (Closes(q, e) => q = p)
  BY <1>1, <1>5 DEF EndsKept
<1>11. EndsKept'
  <2> SUFFICES ASSUME NEW f \in Ends, NEW q \in Procs
               PROVE  /\ f \in fds[q] => IsOpen(f)'
                      /\ Closes(q, f)' =>
                            /\ IsOpen(f)'
                            /\ \A r \in Procs : f \notin fds[r] /\ (Closes(r, f)' => r = q)
    BY <1>2 DEF EndsKept
  <2>1. CASE f = e
    BY <1>8, <1>10, <2>1
  <2>2. CASE f # e
    BY <1>5, <1>8, <1>9, <2>2 DEF EndsKept
  <2> QED BY <2>1, <2>2
<1>12. EndsUsed'
  <2>1. freed' = (~readopen' /\ ~writeopen')
    <3>1. freed = (~readopen /\ ~writeopen) /\ IsOpen(e)
      BY <1>1, <1>5 DEF EndsUsed, EndsKept
    <3> QED BY <1>2, <3>1 DEF IsOpen
  <2>2. "idle" \notin Writing \cup Reading
    BY DEF Writing, Reading
  <2> QED BY <1>2, <1>3, <1>4, <1>5, <2>1, <2>2 DEF EndsUsed, Moves
<1> QED BY <1>7, <1>11, <1>12 DEF IInv

\* fork()
LEMMA ForkInv ==
    ASSUME IInv, NEW p \in Procs, NEW q \in Procs, Fork(p, q)
    PROVE  IInv'
<1>1. /\ UNCHANGED <<data, nread, nwrite, readopen, writeopen, freed, lock, killed>>
      /\ proc[p].pc = "idle" /\ proc[q].pc = "none" /\ fds' = [fds EXCEPT ![q] = fds[p]]
      /\ Goto(q, Idle)
  BY DEF Fork, pipe
<1>2. Idle \in Positions /\ Idle.pc = "idle"
  BY DEF Idle, At, Positions, Pcs
<1>3. Moves(q, Idle)
  BY <1>1, <1>2, MoveFacts
<1>4. TypeOK /\ EndsKept /\ EndsUsed
  BY DEF IInv
<1>5. TypeOK' /\ LockHeld' /\ Fits'
  <2>1. Idle.pc \notin Holding /\ proc[q].pc \notin Holding
    BY <1>1, <1>2 DEF Holding
  <2>2. fds' \in [Procs -> SUBSET Ends]
    BY <1>1, <1>4 DEF TypeOK
  <2> QED BY <1>1, <1>2, <1>3, <1>4, <2>1, <2>2, OutsideInv DEF TypeOK
<1>6. \A r \in Procs : fds'[r] = IF r = q THEN fds[p] ELSE fds[r]
  BY <1>1, <1>4 DEF TypeOK
<1>7. \A r \in Procs, e \in Ends : Closes(r, e)' => Closes(r, e)
  BY <1>2, <1>3 DEF Closes, Moves
<1>8. EndsKept'
  BY <1>1, <1>4, <1>6, <1>7, SMT DEF EndsKept, IsOpen
<1>9. EndsUsed'
  <2>1. "idle" \notin Writing \cup Reading
    BY DEF Writing, Reading
  <2> QED BY <1>1, <1>2, <1>3, <1>4, <1>6, <2>1, SMT DEF EndsUsed, Moves
<1> QED BY <1>5, <1>8, <1>9 DEF IInv

\* kill()
LEMMA KillInv ==
    ASSUME IInv, NEW p \in Procs, Kill(p)
    PROVE  IInv'
<1> DEFINE pc == CASE proc[p].pc = "wsleep" -> "wready" [] proc[p].pc = "rsleep" -> "rready"
                   [] OTHER -> proc[p].pc
           a == [proc[p] EXCEPT !.pc = pc]
<1>1. /\ UNCHANGED <<data, nread, nwrite, readopen, writeopen, freed, lock, fds>>
      /\ killed' = [killed EXCEPT ![p] = TRUE] /\ Goto(p, a)
  BY DEF Kill, pipe
<1>2. TypeOK /\ EndsKept /\ EndsUsed
  BY DEF IInv
<1>3. /\ a \in Positions /\ a.i = proc[p].i
      /\ a.pc \in Holding <=> proc[p].pc \in Holding
      /\ a.pc \in Writing <=> proc[p].pc \in Writing
      /\ a.pc \in Reading <=> proc[p].pc \in Reading
      /\ a.pc = "none" <=> proc[p].pc = "none"
      /\ a.pc = "close" <=> proc[p].pc = "close"
  <2>1. proc[p] \in Positions
    BY AtFacts
  <2> QED BY <2>1 DEF Positions, Pcs, Writing, Reading, Holding
<1> HIDE DEF a
<1>4. Moves(p, a)
  BY <1>1, <1>3, MoveFacts
<1>5. TypeOK' /\ LockHeld' /\ Fits'
  <2>1. killed' \in [Procs -> BOOLEAN]
    BY <1>1, <1>2 DEF TypeOK
  <2> QED BY <1>1, <1>2, <1>3, <1>4, <2>1, OutsideInv DEF TypeOK
<1>6. \A r \in Procs, e \in Ends : Closes(r, e)' => Closes(r, e)
  BY <1>3, <1>4 DEF Closes, Moves
<1>7. EndsKept'
  BY <1>1, <1>2, <1>6 DEF EndsKept, IsOpen
<1>8. EndsUsed'
  BY <1>1, <1>2, <1>3, <1>4 DEF EndsUsed, Moves
<1> QED BY <1>5, <1>7, <1>8 DEF IInv

\* The start.
LEMMA InitInv == Init => IInv
<1> SUFFICES ASSUME Init PROVE IInv
  OBVIOUS
<1>1. /\ PIPESIZE \in Nat /\ UintMod \in Nat /\ UintMod > PIPESIZE /\ PIPESIZE # 0
      /\ NoProc \notin Procs
  BY PipeAssumption
<1>2. PICK p \in Procs :
        /\ fds  = [q \in Procs |-> IF q = p THEN Ends ELSE {}]
        /\ proc = [q \in Procs |-> IF q = p THEN Idle ELSE At("none", 0, 0)]
  BY DEF Init
<1>3. \A q \in Procs : /\ proc[q] \in Positions
                       /\ proc[q].pc \in {"none", "idle"} /\ (proc[q].pc = "none" <=> q # p)
  BY <1>2 DEF At, Idle, Positions, Pcs
<1>4. TypeOK
  <2>1. proc \in [Procs -> Positions]
    BY <1>2, <1>3
  <2>2. nread = 0 /\ 0 \in 0..UintMod-1 /\ nwrite = 0
    BY <1>1, SMT DEF Init
  <2> QED BY <1>2, <2>1, <2>2, SMT DEF Init, TypeOK, Positions
<1>5. LockHeld
  BY <1>1, <1>3 DEF Init, LockHeld, Holding
<1>6. EndsKept
  BY <1>3 DEF Init, EndsKept, Closes, IsOpen
<1>7. EndsUsed
  BY <1>2, <1>3 DEF Init, EndsUsed, Writing, Reading
<1>8. Fits
  <2>1. nread = 0 /\ nwrite = 0 /\ 0 \in 0..UintMod-1
    BY <1>1, SMT DEF Init
  <2> QED BY <1>1, <2>1, Counters, SMT DEF Fits
<1> QED BY <1>4, <1>5, <1>6, <1>7, <1>8 DEF IInv

\* Every step.
LEMMA NextInv == IInv /\ [Next]_vars => IInv'
<1> SUFFICES ASSUME IInv, [Next]_vars PROVE IInv'
  OBVIOUS
<1>1. CASE UNCHANGED vars
  <2>1. /\ UNCHANGED <<data, nread, nwrite, readopen, writeopen, freed>>
        /\ UNCHANGED <<lock, fds, proc, killed>>
    BY <1>1 DEF vars, pipe
  <2>2. TypeOK' /\ LockHeld' /\ Fits'
    BY <2>1 DEF IInv, TypeOK, LockHeld, Fits
  <2>3. EndsKept'
    BY <2>1, SMT DEF IInv, EndsKept, Closes, IsOpen
  <2>4. EndsUsed'
    BY <2>1 DEF IInv, EndsUsed
  <2> QED BY <2>2, <2>3, <2>4 DEF IInv
<1>2. CASE Next
  <2>1. PICK p \in Procs :
            \/ InCall(p)
            \/ \E n \in Counts : WriteCall(p, n) \/ ReadCall(p, n)
            \/ \E e \in Ends : FileClose(p, e)
            \/ \E q \in Procs : Fork(p, q)
            \/ Kill(p)
    BY <1>2 DEF Next
  <2>2. CASE InCall(p)
    BY <2>2, EnterInv, InsideInv, WriteByteInv, ReadByteInv, PipeCloseInv DEF InCall
  <2>3. CASE \E n \in Counts : WriteCall(p, n) \/ ReadCall(p, n)
    BY <2>3, EnterInv
  <2>4. CASE \E e \in Ends : FileClose(p, e)
    BY <2>4, FileCloseInv
  <2>5. CASE \E q \in Procs : Fork(p, q)
    BY <2>5, ForkInv
  <2>6. CASE Kill(p)
    BY <2>6, KillInv
  <2> QED BY <2>1, <2>2, <2>3, <2>4, <2>5, <2>6
<1> QED BY <1>1, <1>2

\* The lock of the pipe has one holder, its ends are open as long as they are in
\* use, and the counters stay within PIPESIZE of each other.
THEOREM Invariance == Spec => []IInv
BY InitInv, NextInv, PTL DEF Spec

\* Nobody is in the pipe code, or has an end of the pipe, when its page is freed.
THEOREM PageStaysInUse == Spec => []PageInUse
<1>1. IInv => PageInUse
  <2> SUFFICES ASSUME IInv, freed, NEW p \in Procs
               PROVE  proc[p].pc \in {"none", "idle"} /\ fds[p] = {}
    BY DEF PageInUse
  <2>1. /\ proc[p].pc \in Pcs /\ fds[p] \subseteq Ends
        /\ \A e \in Ends : ~IsOpen(e)
    BY DEF IInv, TypeOK, EndsUsed, IsOpen
  <2>2. fds[p] = {} /\ \A e \in Ends : ~Closes(p, e)
    BY <2>1 DEF IInv, EndsKept
  <2>3. proc[p].pc \notin Writing /\ proc[p].pc \notin Reading /\ proc[p].pc # "close"
    BY <2>2 DEF IInv, EndsUsed, Closes, Ends
  <2> QED BY <2>1, <2>2, <2>3 DEF Pcs
<1> QED BY <1>1, Invariance, PTL

-----------------------------------------------------------------------------
(* Sleeping readers and writers *)

\* Why the sleepers may sleep: while a writer holds the lock the readers may not
\* know of its bytes yet, and the other way round.
LEMMA Reasons ==
    ASSUME IInv, WakesOwed, NEW q \in Procs
    PROVE  /\ proc[q].pc = "rsleep" =>
                /\ writeopen /\ readopen /\ ~killed[q]
                /\ Empty \/ (proc[lock].pc = "write" /\ lock \in Procs /\ ~killed[lock])
           /\ proc[q].pc = "wsleep" =>
                /\ readopen /\ ~killed[q]
                /\ Full \/ (proc[lock].pc = "read" /\ lock \in Procs)
<1>1. proc[q].pc = "rsleep" => readopen
  BY DEF IInv, EndsUsed, EndsKept, Reading, Ends, IsOpen
<1> QED BY <1>1 DEF WakesOwed, Running

\* A step that leaves the pipe alone and puts nobody to sleep, at a time when
\* the holder of the lock owes no wakeup.
LEMMA OwesNothing ==
    ASSUME IInv, WakesOwed, UNCHANGED <<nread, nwrite, readopen, writeopen, killed>>,
           \A q \in Procs : proc'[q].pc \in {"rsleep", "wsleep"} => proc'[q].pc = proc[q].pc,
           lock = NoProc \/ proc[lock].pc \notin {"write", "read"}
    PROVE  WakesOwed'
<1> SUFFICES ASSUME NEW q \in Procs, proc'[q].pc \in {"rsleep", "wsleep"}
             PROVE  /\ proc'[q].pc = "rsleep" => writeopen /\ ~killed[q] /\ Empty'
                    /\ proc'[q].pc = "wsleep" => readopen /\ ~killed[q] /\ Full'
  BY DEF WakesOwed
<1>1. UNCHANGED <<Empty, Full>>
  BY DEF Empty, Full
<1> QED BY <1>1, Reasons, PipeAssumption

\* acquire()
LEMMA EnterWakes ==
    ASSUME IInv, WakesOwed, NEW p \in Procs,
           \/ WriteAwake(p) \/ ReadAwake(p)
           \/ \E n \in Counts : WriteCall(p, n) \/ ReadCall(p, n)
    PROVE  WakesOwed'
<1>1. PICK from, a : Enter(p, from, a) /\ a.pc \in Holding
  <2>1. \A i, n : At("write", i, n).pc \in Holding /\ At("rwait", i, n).pc \in Holding
    BY DEF At, Holding
  <2> QED BY <2>1 DEF WriteAwake, ReadAwake, WriteCall, ReadCall
<1>2. /\ UNCHANGED <<nread, nwrite, readopen, writeopen, killed>>
      /\ lock = NoProc /\ proc' = [proc EXCEPT ![p] = a]
  BY <1>1 DEF Enter, Goto, pipe
<1>3. \A q \in Procs : proc'[q].pc \in {"rsleep", "wsleep"} => proc'[q].pc = proc[q].pc
  BY <1>1, <1>2 DEF IInv, TypeOK, Holding
<1> QED BY <1>2, <1>3, OwesNothing

\* Goto() and the wakeups put nobody else to sleep, and a wakeup leaves no sleeper.
LEMMA WakeFacts ==
    ASSUME IInv, NEW p \in Procs, NEW a
    PROVE  /\ Goto(p, a) \/ WakeReaders(p, a) \/ WakeWriters(p, a) =>
                /\ proc'[p] = a
                /\ \A q \in Procs \ {p} : proc'[q].pc \in {"rsleep", "wsleep"} => proc'[q] = proc[q]
           /\ WakeReaders(p, a) => \A q \in Procs \ {p} : proc'[q].pc # "rsleep"
           /\ WakeWriters(p, a) => \A q \in Procs \ {p} : proc'[q].pc # "wsleep"
<1>1. proc \in [Procs -> Positions]
  BY DEF IInv, TypeOK, Positions
<1>2. ASSUME Goto(p, a), NEW q \in Procs
      PROVE  IF q = p THEN proc'[q] = a
             ELSE proc'[q].pc \in {"rsleep", "wsleep"} => proc'[q] = proc[q]
  BY <1>1, <1>2 DEF Goto, Positions
<1>3. ASSUME WakeReaders(p, a), NEW q \in Procs
      PROVE  IF q = p THEN proc'[q] = a
             ELSE proc'[q].pc \in {"rsleep", "wsleep"} => proc'[q] = proc[q]
  BY <1>1, <1>3 DEF WakeReaders, GotoAndWake, Positions
<1>4. ASSUME WakeWriters(p, a), NEW q \in Procs
      PROVE  IF q = p THEN proc'[q] = a
             ELSE proc'[q].pc \in {"rsleep", "wsleep"} => proc'[q] = proc[q]
  BY <1>1, <1>4 DEF WakeWriters, GotoAndWake, Positions
<1>5. WakeReaders(p, a) => \A q \in Procs \ {p} : proc'[q].pc # "rsleep"
  BY <1>1 DEF WakeReaders, GotoAndWake, Positions
<1>6. WakeWriters(p, a) => \A q \in Procs \ {p} : proc'[q].pc # "wsleep"
  BY <1>1 DEF WakeWriters, GotoAndWake, Positions
<1> QED BY <1>2, <1>3, <1>4, <1>5, <1>6

\* A writer that holds the lock keeps the writers' reason, and wakes the readers
\* before it lets go of the lock unless it has nothing to tell them.
LEMMA WriteWakes ==
    ASSUME IInv, WakesOwed, NEW p \in Procs,
           \/ WriteAbort(p) \/ WriteSleep(p) \/ WriteDone(p)
           \/ \E b \in Bytes : WriteByte(p, b)
    PROVE  WakesOwed'
<1>1. /\ UNCHANGED <<nread, readopen, writeopen, killed>>
      /\ lock = p /\ proc[p].pc = "write"
  BY DEF WriteAbort, WriteSleep, WriteDone, WriteByte, WriteMore, WriteGoes, Running, pipe
<1>2. \A q \in Procs :
        /\ proc[q].pc = "rsleep" =>
            writeopen /\ readopen /\ ~killed[q] /\ (Empty \/ ~killed[p])
        /\ proc[q].pc = "wsleep" => readopen /\ ~killed[q] /\ Full
  BY <1>1, Reasons
<1>3. Idle.pc = "idle"
  BY DEF Idle, At
<1>4. CASE WriteAbort(p)
  <2>1. /\ UNCHANGED <<nwrite, Empty, Full>> /\ (~readopen \/ killed[p]) /\ Goto(p, Idle)
    BY <1>4 DEF WriteAbort, pipe, Empty, Full
  <2>2. \A q \in Procs : proc'[q].pc \in {"rsleep", "wsleep"} => proc'[q] = proc[q]
    BY <1>3, <2>1, WakeFacts
  <2>3. \A q \in Procs :
            /\ proc'[q].pc = "rsleep" => writeopen /\ ~killed[q] /\ Empty
            /\ proc'[q].pc = "wsleep" => readopen /\ ~killed[q] /\ Full
    BY <1>2, <2>1, <2>2
  <2> QED BY <1>1, <2>1, <2>3 DEF WakesOwed
<1>5. CASE WriteSleep(p) \/ WriteDone(p)
  <2>1. PICK a : /\ UNCHANGED <<nwrite, Empty, Full>> /\ WakeReaders(p, a)
                 /\ a.pc = "idle" \/ (a.pc = "wsleep" /\ Full /\ readopen /\ ~killed[p])
    BY <1>3, <1>5, SMT DEF WriteSleep, WriteDone, WriteGoes, pipe, Empty, Full, At
  <2>2. /\ \A q \in Procs : proc'[q].pc # "rsleep"
        /\ \A q \in Procs : proc'[q].pc = "wsleep" => readopen /\ ~killed[q] /\ Full
    BY <1>2, <2>1, WakeFacts, SMT
  <2> QED BY <1>1, <2>1, <2>2 DEF WakesOwed
<1>6. ASSUME NEW b \in Bytes, WriteByte(p, b) PROVE WakesOwed'
  <2>1. PICK a : Goto(p, a) /\ a.pc = "write" /\ ~Full /\ ~killed[p] /\ lock' = p
    BY <1>1, <1>6 DEF WriteByte, WriteGoes, At
  <2>2. \A q \in Procs : /\ proc'[q].pc = "rsleep" => writeopen /\ ~killed[q]
                         /\ proc'[q].pc # "wsleep"
    BY <1>2, <2>1, WakeFacts
  <2>3. Running(p, "write")' /\ ~killed'[p]
    BY <1>1, <2>1, WakeFacts DEF Running
  <2> QED BY <1>1, <2>2, <2>3 DEF WakesOwed
<1> QED BY <1>4, <1>5, <1>6

\* A reader that holds the lock keeps the readers' reason, and wakes the writers
\* before it lets go of the lock.
LEMMA ReadWakes ==
    ASSUME IInv, WakesOwed, NEW p \in Procs,
           ReadAbort(p) \/ ReadSleep(p) \/ ReadStart(p) \/ ReadByte(p) \/ ReadDone(p)
    PROVE  WakesOwed'
<1>1. /\ UNCHANGED <<nwrite, readopen, writeopen, killed>>
      /\ lock = p /\ proc[p].pc \in {"rwait", "read"}
  BY DEF ReadAbort, ReadSleep, ReadStart, ReadByte, ReadDone, Running, pipe
<1>2. \A q \in Procs :
        /\ proc[q].pc = "rsleep" => writeopen /\ ~killed[q] /\ Empty
        /\ proc[q].pc = "wsleep" => readopen /\ ~killed[q] /\ (Full \/ proc[p].pc = "read")
  BY <1>1, Reasons
<1>3. Idle.pc = "idle"
  BY DEF Idle, At
<1>4. CASE ReadAbort(p) \/ ReadSleep(p) \/ ReadStart(p)
  <2>1. PICK a : /\ UNCHANGED <<nread, Empty, Full>> /\ Goto(p, a) /\ proc[p].pc = "rwait"
                 /\ \/ a.pc \in {"idle", "read"}
                    \/ a.pc = "rsleep" /\ Empty /\ writeopen /\ ~killed[p]
    BY <1>3, <1>4, SMT DEF ReadAbort, ReadSleep, ReadStart, Running, pipe, Empty, Full, At
  <2>2. \A q \in Procs :
            /\ proc'[q].pc = "rsleep" => writeopen /\ ~killed[q] /\ Empty
            /\ proc'[q].pc = "wsleep" => readopen /\ ~killed[q] /\ Full
    BY <1>2, <2>1, WakeFacts, SMT
  <2> QED BY <1>1, <2>1, <2>2 DEF WakesOwed
<1>5. CASE ReadByte(p)
  <2>1. PICK a : /\ ~Empty
                 /\ \/ Goto(p, a) /\ a.pc = "read" /\ lock' = p
                    \/ WakeWriters(p, a) /\ a.pc = "idle"
    BY <1>1, <1>3, <1>5 DEF ReadByte, At
  <2>2. \A q \in Procs : /\ proc'[q].pc # "rsleep"
                         /\ proc'[q].pc = "wsleep" => readopen /\ ~killed[q]
    BY <1>2, <2>1, WakeFacts, SMT
  <2>3. \/ Running(p, "read")'
        \/ \A q \in Procs : proc'[q].pc # "wsleep"
    BY <2>1, WakeFacts DEF Running
  <2> QED BY <1>1, <2>2, <2>3 DEF WakesOwed
<1>6. CASE ReadDone(p)
  <2>1. UNCHANGED <<nread, Empty>> /\ WakeWriters(p, Idle)
    BY <1>6 DEF ReadDone, pipe, Empty
  <2>2. \A q \in Procs : /\ proc'[q].pc = "rsleep" => writeopen /\ ~killed[q] /\ Empty
                         /\ proc'[q].pc # "wsleep"
    BY <1>2, <1>3, <2>1, WakeFacts, SMT
  <2> QED BY <1>1, <2>1, <2>2 DEF WakesOwed
<1> QED BY <1>4, <1>5, <1>6

\* pipeclose() wakes the sleepers of the other end.
LEMMA PipeCloseWakes ==
    ASSUME IInv, WakesOwed, NEW p \in Procs, PipeClose(p)
    PROVE  WakesOwed'
<1>1. /\ UNCHANGED <<nread, nwrite, killed, Empty, Full>> /\ lock = NoProc
      /\ \/ writeopen' = FALSE /\ readopen' = readopen /\ WakeReaders(p, Idle)
         \/ readopen' = FALSE /\ writeopen' = writeopen /\ WakeWriters(p, Idle)
  BY DEF PipeClose, Empty, Full
<1>2. \A q \in Procs :
        /\ proc[q].pc = "rsleep" => writeopen /\ ~killed[q] /\ Empty
        /\ proc[q].pc = "wsleep" => readopen /\ ~killed[q] /\ Full
  BY <1>1, Reasons, PipeAssumption
<1>3. Idle.pc = "idle"
  BY DEF Idle, At
<1>4. \A q \in Procs :
        /\ proc'[q].pc = "rsleep" => writeopen' /\ ~killed[q] /\ Empty
        /\ proc'[q].pc = "wsleep" => readopen' /\ ~killed[q] /\ Full
  BY <1>1, <1>2, <1>3, WakeFacts, SMT
<1> QED BY <1>1, <1>4 DEF WakesOwed

\* Outside the pipe code nobody starts or stops to hold the lock or to sleep.
LEMMA OutsideWakes ==
    ASSUME IInv, WakesOwed, NEW p \in Procs, NEW a, Goto(p, a),
           proc[p].pc \in {"none", "idle"}, a.pc \in {"idle", "close"},
           UNCHANGED <<nread, nwrite, readopen, writeopen, lock, killed>>
    PROVE  WakesOwed'
<1>1. UNCHANGED <<Empty, Full>>
  BY DEF Empty, Full
<1>2. \A q \in Procs : proc'[q] = IF q = p THEN a ELSE proc[q]
  BY DEF Goto, IInv, TypeOK
<1>3. \A q \in Procs, pc \in {"write", "read"} : Running(q, pc) => Running(q, pc)'
  BY <1>2 DEF Running
<1> QED BY <1>1, <1>2, <1>3 DEF WakesOwed

\* kill() when nobody holds the lock.
LEMMA KillWakes ==
    ASSUME ~KillInside, IInv, WakesOwed, NEW p \in Procs, Kill(p)
    PROVE  WakesOwed'
<1>1. /\ UNCHANGED <<nread, nwrite, readopen, writeopen, Empty, Full>> /\ lock = NoProc
      /\ killed' = [killed EXCEPT ![p] = TRUE]
  BY DEF Kill, pipe, Empty, Full
<1>2. PICK a : Goto(p, a) /\ a.pc \notin {"rsleep", "wsleep"}
  <2> DEFINE a == [proc[p] EXCEPT !.pc =
                    CASE @ = "wsleep" -> "wready" [] @ = "rsleep" -> "rready" [] OTHER -> @]
  <2>1. Goto(p, a)
    BY DEF Kill
  <2>2. a.pc \notin {"rsleep", "wsleep"}
    BY AtFacts DEF Positions
  <2> QED BY <2>1, <2>2
<1>3. \A q \in Procs :
        /\ proc[q].pc = "rsleep" => writeopen /\ ~killed[q] /\ Empty
        /\ proc[q].pc = "wsleep" => readopen /\ ~killed[q] /\ Full
  BY <1>1, Reasons, PipeAssumption
<1>4. \A q \in Procs : q # p => killed'[q] = killed[q]
  BY <1>1 DEF IInv, TypeOK
<1>5. \A q \in Procs :
        /\ proc'[q].pc = "rsleep" => writeopen /\ ~killed'[q] /\ Empty
        /\ proc'[q].pc = "wsleep" => readopen /\ ~killed'[q] /\ Full
  BY <1>2, <1>3, <1>4, WakeFacts, SMT
<1> QED BY <1>1, <1>5 DEF WakesOwed

\* Every step.
LEMMA NextWakes ==
    ASSUME ~KillInside
    PROVE  IInv /\ WakesOwed /\ [Next]_vars => WakesOwed'
<1> SUFFICES ASSUME IInv, WakesOwed, [Next]_vars PROVE WakesOwed'
  OBVIOUS
<1>1. CASE UNCHANGED vars
  BY <1>1 DEF vars, pipe, WakesOwed, Running, Empty, Full
<1>2. CASE Next
  <2>1. PICK p \in Procs :
            \/ InCall(p)
            \/ \E n \in Counts : WriteCall(p, n) \/ ReadCall(p, n)
            \/ \E e \in Ends : FileClose(p, e)
            \/ \E q \in Procs : Fork(p, q)
            \/ Kill(p)
    BY <1>2 DEF Next
  <2>2. CASE InCall(p)
    BY <2>2, EnterWakes, WriteWakes, ReadWakes, PipeCloseWakes DEF InCall
  <2>3. CASE \E n \in Counts : WriteCall(p, n) \/ ReadCall(p, n)
    BY <2>3, EnterWakes
  <2>4. ASSUME NEW e \in Ends, FileClose(p, e) PROVE WakesOwed'
    <3>1. PICK a : Goto(p, a) /\ a.pc \in {"idle", "close"}
      BY <2>4, SMT DEF FileClose, Idle, At
    <3> QED BY <2>4, <3>1, OutsideWakes DEF FileClose, pipe
  <2>5. ASSUME NEW q \in Procs, Fork(p, q) PROVE WakesOwed'
    <3>1. Goto(q, Idle) /\ Idle.pc = "idle"
      BY <2>5 DEF Fork, Idle, At
    <3> QED BY <2>5, <3>1, OutsideWakes DEF Fork, pipe
  <2>6. CASE Kill(p)
    BY <2>6, KillWakes
  <2> QED BY <2>1, <2>2, <2>3, <2>4, <2>5, <2>6
<1> QED BY <1>1, <1>2

\* No wakeup of the pipe is lost, for any number of readers and writers, when
\* kill() does not come between two bytes of a write: on one hart, whose
\* interrupts are off while it holds pi->lock.
THEOREM SleepersHaveAReason ==
    ASSUME ~KillInside
    PROVE  Spec => []SleepsForAReason
<1>1. Init => WakesOwed
  BY SMT DEF Init, WakesOwed, Idle, At
<1>2. IInv /\ WakesOwed /\ [Next]_vars => WakesOwed'
  BY NextWakes
<1>3. WakesOwed => SleepsForAReason
  BY PipeAssumption DEF WakesOwed, SleepsForAReason, Running
<1> QED BY <1>1, <1>2, <1>3, Invariance, PTL DEF Spec

-----------------------------------------------------------------------------
(* The pipe is a channel *)

\* Sequences of the same length with the same entries are the same.
LEMMA SameSequence ==
    ASSUME NEW S, NEW s \in Seq(S), NEW t \in Seq(S), Len(s) = Len(t),
           \A k \in 1..Len(s) : s[k] = t[k]
    PROVE  s = t
BY SMT

\* The ring as a sequence.
LEMMA QueueFacts ==
    ASSUME IInv
    PROVE  /\ queue \in Seq(Bytes) /\ Len(queue) = Count(nread, nwrite)
           /\ Len(queue) \in 0..PIPESIZE
           /\ \A k \in 1..Len(queue) : queue[k] = data[(nread + (k - 1)) % PIPESIZE]
<1>1. TypeOK /\ Count(nread, nwrite) <= PIPESIZE
  BY DEF IInv, Fits, Count
<1> DEFINE c == Count(nread, nwrite)
<1>2. c \in Nat /\ c <= PIPESIZE
  BY <1>1, CountFacts DEF TypeOK
<1>3. queue = [k \in 1..c |-> data[(nread + (k - 1)) % PIPESIZE]]
  BY DEF queue, Count
<1> HIDE DEF c
<1>4. \A k \in 1..c : data[(nread + (k - 1)) % PIPESIZE] \in Bytes
  <2> SUFFICES ASSUME NEW k \in 1..c PROVE (nread + (k - 1)) % PIPESIZE \in 0..PIPESIZE-1
    BY <1>1 DEF TypeOK
  <2>1. nread + (k - 1) \in Int /\ PIPESIZE \in Int /\ PIPESIZE > 0
    BY <1>1, <1>2, PipeAssumption, SMT DEF TypeOK
  <2> QED BY <2>1, Division
<1>5. queue \in Seq(Bytes) /\ Len(queue) = c
  BY <1>2, <1>3, <1>4, SMT
<1> QED BY <1>1, <1>2, <1>3, <1>5, PipeAssumption, SMT DEF c

\* pipewrite() puts the byte at the end of the queue.
LEMMA WriteByteAppends ==
    ASSUME IInv, NEW p \in Procs, NEW b \in Bytes, WriteByte(p, b)
    PROVE  Len(queue) < PIPESIZE /\ queue' = Append(queue, b)
<1>1. /\ UNCHANGED nread
      /\ data' = [data EXCEPT ![nwrite % PIPESIZE] = b]
      /\ nwrite # (nread + PIPESIZE) % UintMod /\ nwrite' = (nwrite + 1) % UintMod
  BY DEF WriteByte, Full
<1>2. TypeOK /\ Count(nread, nwrite) <= PIPESIZE
  BY DEF IInv, Fits, Count
<1> DEFINE c == Count(nread, nwrite)
<1>3. c \in Nat /\ c < PIPESIZE /\ Count(nread, nwrite') = c + 1
  BY <1>1, <1>2, CountFacts DEF TypeOK
<1>4. queue \in Seq(Bytes) /\ Len(queue) = c
      /\ \A k \in 1..c : queue[k] = data[(nread + (k - 1)) % PIPESIZE]
  BY QueueFacts
<1>5. queue' = [k \in 1..(c + 1) |-> data'[(nread + (k - 1)) % PIPESIZE]]
  BY <1>1, <1>3, SMT DEF queue, Count
<1> DEFINE place(k) == (nread + (k - 1)) % PIPESIZE
<1>6. nread \in Int /\ PIPESIZE \in Int /\ PIPESIZE > 0
  BY <1>2, PipeAssumption, SMT DEF TypeOK
<1>7. nwrite % PIPESIZE = place(c + 1)
  <2>1. nwrite % PIPESIZE = (nread + c) % PIPESIZE
    BY <1>2, Places, SMT DEF TypeOK
  <2>2. nread + ((c + 1) - 1) = nread + c
    BY <1>3, <1>6, SMT
  <2> QED BY <2>1, <2>2
<1>8. \A k \in 1..c : place(k) # place(c + 1)
  <2> SUFFICES ASSUME NEW k \in 1..c PROVE place(k) # place(c + 1)
    OBVIOUS
  <2> DEFINE x == nread + (k - 1)
             y == nread + ((c + 1) - 1)
  <2>1. x \in Int /\ y \in Int /\ x < y /\ y < x + PIPESIZE
    BY <1>3, <1>6, SMT
  <2> HIDE DEF x, y
  <2>2. x % PIPESIZE # y % PIPESIZE
    BY <2>1, PlacesDiffer
  <2> QED BY <2>2 DEF x, y
<1>9. \A k \in 1..(c + 1) : place(k) \in 0..PIPESIZE-1
  <2> SUFFICES ASSUME NEW k \in 1..(c + 1) PROVE place(k) \in 0..PIPESIZE-1
    OBVIOUS
  <2>1. nread + (k - 1) \in Int
    BY <1>3, <1>6, SMT
  <2> QED BY <1>6, <2>1, Division
<1>10. /\ \A k \in 1..c : data'[place(k)] = data[place(k)]
       /\ data'[place(c + 1)] = b
  <2>1. 1..c \subseteq 1..(c + 1) /\ c + 1 \in 1..(c + 1)
    BY <1>3, SMT
  <2> HIDE DEF place, c
  <2> QED BY <1>1, <1>2, <1>7, <1>8, <1>9, <2>1 DEF TypeOK
<1>11. \A k \in 1..(c + 1) : data'[place(k)] = IF k = c + 1 THEN b ELSE queue[k]
  <2> HIDE DEF place, c
  <2>1. \A k \in 1..(c + 1) : k # c + 1 => k \in 1..c
    BY <1>3, SMT
  <2> QED BY <1>4, <1>10, <2>1 DEF place
<1> HIDE DEF c
<1>12. queue' = [k \in 1..(c + 1) |-> IF k = c + 1 THEN b ELSE queue[k]]
  BY <1>5, <1>11
<1>13. /\ queue' \in Seq(Bytes) /\ Len(queue') = c + 1
       /\ \A k \in 1..(c + 1) : queue'[k] = IF k = c + 1 THEN b ELSE queue[k]
  BY <1>3, <1>4, <1>12, SMT
<1>14. /\ Append(queue, b) \in Seq(Bytes) /\ Len(Append(queue, b)) = c + 1
       /\ \A k \in 1..(c + 1) : Append(queue, b)[k] = IF k = c + 1 THEN b ELSE queue[k]
  BY <1>3, <1>4, SMT
<1>15. queue' = Append(queue, b)
  BY <1>13, <1>14, SameSequence
<1> QED BY <1>3, <1>4, <1>15

\* piperead() takes the first byte of the queue.
LEMMA ReadByteTakes ==
    ASSUME IInv, NEW p \in Procs, ReadByte(p)
    PROVE  queue # <<>> /\ got' = Head(queue) /\ queue' = Tail(queue)
<1>1. /\ UNCHANGED <<data, nwrite>> /\ got' = data[nread % PIPESIZE]
      /\ nread # nwrite /\ nread' = (nread + 1) % UintMod
  BY DEF ReadByte, Empty
<1>2. TypeOK /\ Count(nread, nwrite) <= PIPESIZE
  BY DEF IInv, Fits, Count
<1> DEFINE c == Count(nread, nwrite)
<1>3. c \in Nat /\ c > 0 /\ Count(nread', nwrite) = c - 1
  BY <1>1, <1>2, CountFacts DEF TypeOK
<1>4. queue \in Seq(Bytes) /\ Len(queue) = c
      /\ \A k \in 1..c : queue[k] = data[(nread + (k - 1)) % PIPESIZE]
  BY QueueFacts
<1>5. queue' = [k \in 1..(c - 1) |-> data[(nread' + (k - 1)) % PIPESIZE]]
  BY <1>1, <1>3 DEF queue, Count
<1>6. nread \in Int
  BY <1>2, SMT DEF TypeOK
<1>7. \A k \in 1..(c - 1) : data[(nread' + (k - 1)) % PIPESIZE] = queue[k + 1]
  <2> SUFFICES ASSUME NEW k \in 1..(c - 1)
               PROVE  (nread' + (k - 1)) % PIPESIZE = (nread + ((k + 1) - 1)) % PIPESIZE
    <3>1. \A k \in 1..(c - 1) : k + 1 \in 1..c
      BY <1>3, SMT
    <3> QED BY <1>4, <3>1
  <2>1. (nread' + (k - 1)) % PIPESIZE = (nread + 1 + (k - 1)) % PIPESIZE
    <3>1. k - 1 \in Int
      BY <1>3, SMT
    <3> QED BY <1>1, <1>2, <3>1, Places DEF TypeOK
  <2>2. nread + 1 + (k - 1) = nread + ((k + 1) - 1)
    BY <1>3, <1>6, SMT
  <2> QED BY <2>1, <2>2
<1> HIDE DEF c
<1>8. queue' = [k \in 1..(c - 1) |-> queue[k + 1]]
  BY <1>5, <1>7
<1>9. queue # <<>> /\ Head(queue) = queue[1] /\ Tail(queue) = queue'
  <2>1. queue # <<>> /\ Head(queue) = queue[1]
    BY <1>3, <1>4, SMT
  <2>2. /\ Tail(queue) \in Seq(Bytes) /\ Len(Tail(queue)) = c - 1
        /\ \A k \in 1..(c - 1) : Tail(queue)[k] = queue[k + 1]
    BY <1>3, <1>4, <2>1, SMT
  <2>3. /\ queue' \in Seq(Bytes) /\ Len(queue') = c - 1
        /\ \A k \in 1..(c - 1) : queue'[k] = queue[k + 1]
    BY <1>3, <1>4, <1>8, SMT
  <2>4. Tail(queue) = queue'
    BY <2>2, <2>3, SameSequence
  <2> QED BY <2>1, <2>4
<1>10. queue[1] = data[nread % PIPESIZE]
  <2>1. 1 \in 1..c /\ nread + (1 - 1) = nread
    BY <1>3, <1>6, SMT
  <2>2. queue[1] = data[(nread + (1 - 1)) % PIPESIZE]
    BY <1>4, <2>1
  <2> QED BY <2>1, <2>2
<1> QED BY <1>1, <1>9, <1>10

\* Every step of the pipe is a step of the channel, or leaves it as it was.
LEMMA StepRefines == IInv /\ [Next]_vars => [PipeChannel!Next]_PipeChannel!vars
<1> SUFFICES ASSUME IInv, [Next]_vars PROVE PipeChannel!Next \/ UNCHANGED PipeChannel!vars
  OBVIOUS
<1>1. ASSUME UNCHANGED <<data, nread, nwrite, got, readopen, writeopen>>
      PROVE  UNCHANGED PipeChannel!vars
  BY <1>1 DEF queue, PipeChannel!vars
<1>2. CASE UNCHANGED vars
  BY <1>1, <1>2 DEF vars, pipe
<1>3. ASSUME NEW p \in Procs, NEW b \in Bytes, WriteByte(p, b) PROVE PipeChannel!Put(b)
  <2>1. UNCHANGED <<got, readopen, writeopen>> /\ readopen /\ proc[p].pc \in Writing
    BY <1>3 DEF WriteByte, WriteGoes, WriteMore, Running, Writing
  <2>2. writeopen
    BY <2>1, AtFacts DEF IInv, EndsKept, Ends, IsOpen
  <2> QED BY <1>3, <2>1, <2>2, WriteByteAppends DEF PipeChannel!Put
<1>4. ASSUME NEW p \in Procs, ReadByte(p) PROVE PipeChannel!Get
  <2>1. UNCHANGED <<readopen, writeopen>> /\ proc[p].pc \in Reading
    BY <1>4 DEF ReadByte, Running, Reading
  <2>2. readopen
    BY <2>1, AtFacts DEF IInv, EndsKept, Ends, IsOpen
  <2> QED BY <1>4, <2>1, <2>2, ReadByteTakes DEF PipeChannel!Get
<1>5. ASSUME NEW p \in Procs, PipeClose(p) PROVE PipeChannel!CloseRead \/ PipeChannel!CloseWrite
  <2>1. UNCHANGED <<data, nread, nwrite, got>>
    BY <1>5 DEF PipeClose
  <2>2. queue' = queue
    BY <2>1 DEF queue
  <2>3. PICK e \in Ends : Closes(p, e)
    BY <1>5 DEF PipeClose, IInv, EndsUsed, Closes, Ends
  <2>4. IsOpen(e)
    BY <2>3 DEF IInv, EndsKept
  <2>5. IF e = "w" THEN writeopen' = FALSE /\ readopen' = readopen
                   ELSE readopen' = FALSE /\ writeopen' = writeopen
    BY <1>5, <2>3, SMT DEF PipeClose, Closes
  <2> QED BY <2>1, <2>2, <2>4, <2>5 DEF IsOpen, PipeChannel!CloseRead, PipeChannel!CloseWrite
<1>6. CASE Next
  <2>1. PICK p \in Procs :
            \/ InCall(p)
            \/ \E n \in Counts : WriteCall(p, n) \/ ReadCall(p, n)
            \/ \E e \in Ends : FileClose(p, e)
            \/ \E q \in Procs : Fork(p, q)
            \/ Kill(p)
    BY <1>6 DEF Next
  <2>2. CASE InCall(p)
    <3>1. CASE \/ WriteAwake(p) \/ WriteAbort(p) \/ WriteSleep(p) \/ WriteDone(p)
               \/ ReadAwake(p) \/ ReadAbort(p) \/ ReadSleep(p) \/ ReadStart(p) \/ ReadDone(p)
      BY <1>1, <3>1 DEF WriteAwake, WriteAbort, WriteSleep, WriteDone, ReadAwake, ReadAbort,
                        ReadSleep, ReadStart, ReadDone, Enter, pipe
    <3> QED BY <1>3, <1>4, <1>5, <2>2, <3>1 DEF InCall, PipeChannel!Next
  <2>3. CASE \E n \in Counts : WriteCall(p, n) \/ ReadCall(p, n)
    BY <1>1, <2>3 DEF WriteCall, ReadCall, Enter, pipe
  <2>4. CASE \E e \in Ends : FileClose(p, e)
    BY <1>1, <2>4 DEF FileClose, pipe
  <2>5. CASE (\E q \in Procs : Fork(p, q)) \/ Kill(p)
    BY <1>1, <2>5 DEF Fork, Kill, pipe
  <2> QED BY <2>1, <2>2, <2>3, <2>4, <2>5
<1> QED BY <1>2, <1>6

\* The pipe implements the channel: through the wrap-around of the ring and of
\* the counters, for any number of readers and writers and any size, bytes come
\* out once, in order, and never exceed PIPESIZE.
THEOREM Refinement == Spec => ImplementsChannel
<1>1. Init => PipeChannel!Init
  <2> SUFFICES ASSUME Init PROVE PipeChannel!Init
    OBVIOUS
  <2>1. IInv /\ nread = 0 /\ nwrite = 0 /\ 0 \in 0..UintMod-1
    BY InitInv, PipeAssumption, SMT DEF Init
  <2>2. Count(nread, nwrite) = 0
    BY <2>1, Counters, PipeAssumption, SMT DEF Count
  <2>3. queue \in Seq(Bytes) /\ Len(queue) = 0
    BY <2>1, <2>2, QueueFacts
  <2>4. queue = <<>>
    BY <2>3, SMT
  <2> QED BY <2>4 DEF Init, PipeChannel!Init
<1> QED BY <1>1, StepRefines, Invariance, PTL DEF Spec, ImplementsChannel, PipeChannel!Spec

=============================================================================
