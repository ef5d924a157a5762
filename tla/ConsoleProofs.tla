---------------------------- MODULE ConsoleProofs ---------------------------
(***************************************************************************)
(* Console: the input ring stays sound for any size of the buffer and any   *)
(* range of the unsigned indices, through every wrap around; interrupts are *)
(* off exactly as long as something keeps them off, and whoever sleeps on   *)
(* the console does so for a reason, for any number of harts and threads.   *)
(* The ring implements the edited line and the queue of Terminal.           *)
(***************************************************************************)
EXTENDS Console, TLAPS

\* Most leaves are first-order: Zenon proves them. The others name SMT.
USE Zenon

\* The values of the unsigned indices.
Index == 0..(WRAP - 1)

\* The indices are unsigned integers, and the ring is sound.
PInv ==
    /\ cons = [buf |-> cons.buf, r |-> cons.r, w |-> cons.w, e |-> cons.e]
    /\ cons.r \in Index /\ cons.w \in Index /\ cons.e \in Index
    /\ Ring(cons)

\* cons.r++ of a ring that is not empty: r stays behind w and e.
LEMMA Forward ==
    ASSUME ConsoleAssumption, NEW r \in Index, NEW x \in Index, x # r
    PROVE  Inc(r) \in Index /\ Dist(x, Inc(r)) = Dist(x, r) - 1
BY SMT DEF ConsoleAssumption, Index, Inc, Dist, Back

\* cons.e++ of a ring that is not full: e moves one away from r.
LEMMA Grows ==
    ASSUME ConsoleAssumption, NEW r \in Index, NEW e \in Index, Dist(e, r) < INPUT_BUF_SIZE
    PROVE  Inc(e) \in Index /\ Dist(Inc(e), r) = Dist(e, r) + 1
BY SMT DEF ConsoleAssumption, Index, Inc, Dist, Back

\* cons.e -= k, no further than w: e comes k closer to r.
LEMMA Shrinks ==
    ASSUME ConsoleAssumption, NEW r \in Index, NEW w \in Index, NEW e \in Index, NEW k \in Nat,
           Dist(w, r) <= Dist(e, r), k <= Dist(e, w)
    PROVE  /\ Back(e, k) \in Index /\ Dist(Back(e, k), r) = Dist(e, r) - k
           /\ Dist(w, r) <= Dist(e, r) - k
BY SMT DEF ConsoleAssumption, Index, Dist, Back

\* The distances are natural numbers, and 0 only between equal indices.
LEMMA Distances ==
    ASSUME ConsoleAssumption, NEW a \in Index, NEW b \in Index
    PROVE  Dist(a, b) \in Index /\ (Dist(a, b) = 0 <=> a = b)
BY SMT DEF ConsoleAssumption, Index, Dist, Back

\* What is erased lies after cons.w.
LEMMA ErasedIsEdited ==
    ASSUME ConsoleAssumption, PInv, NEW c, NEW k \in Erased(c)
    PROVE  k \in Nat /\ k <= Dist(cons.e, cons.w)
<1>1. Dist(cons.e, cons.w) \in Nat /\ (cons.e # cons.w => Dist(cons.e, cons.w) >= 1)
  BY Distances, SMT DEF PInv, Index, ConsoleAssumption
<1>2. CASE c = "U"
  BY <1>1, <1>2, SMT DEF Erased, Line
<1>3. CASE c = "H"
  BY <1>1, <1>3, SMT DEF Erased
<1>4. CASE c # "U" /\ c # "H"
  BY <1>1, <1>4, SMT DEF Erased
<1>. QED BY <1>2, <1>3, <1>4

\* consoleintr() keeps the ring sound.
LEMMA StoreKeeps ==
    ASSUME ConsoleAssumption, PInv, NEW c, NEW k \in Erased(c), cons' = Stored(c, k)
    PROVE  PInv'
<1>1. CASE Stores(c)
  <2>1. Dist(cons.e, cons.r) < INPUT_BUF_SIZE
    BY <1>1, Distances, SMT DEF Stores, Full, PInv, Index, ConsoleAssumption
  <2>2. /\ cons'.r = cons.r /\ cons'.e = Inc(cons.e)
        /\ cons'.w \in {cons.w, Inc(cons.e)}
        /\ Dist(Inc(cons.e), cons.r) = INPUT_BUF_SIZE => cons'.w = Inc(cons.e)
        /\ cons' = [buf |-> cons'.buf, r |-> cons'.r, w |-> cons'.w, e |-> cons'.e]
    BY <1>1 DEF Stored, PInv
  <2>3. Inc(cons.e) \in Index /\ Dist(Inc(cons.e), cons.r) = Dist(cons.e, cons.r) + 1
    BY <2>1, Grows DEF PInv
  <2>4. /\ Dist(cons.w, cons.r) \in Nat /\ Dist(cons.e, cons.r) \in Nat
        /\ Dist(cons.w, cons.r) <= Dist(cons.e, cons.r)
    BY Distances, SMT DEF PInv, Ring, Index
  <2>5. Dist(cons'.w, cons.r) <= Dist(cons'.e, cons.r)
    BY <2>2, <2>3, <2>4, SMT
  <2>6. Dist(cons'.e, cons.r) <= INPUT_BUF_SIZE
    BY <2>1, <2>2, <2>3, <2>4, SMT DEF ConsoleAssumption
  <2>. QED BY <2>2, <2>3, <2>5, <2>6 DEF PInv, Ring
<1>2. CASE ~Stores(c)
  <2>1. /\ cons'.r = cons.r /\ cons'.e = Back(cons.e, k) /\ cons'.w = cons.w
        /\ cons' = [buf |-> cons'.buf, r |-> cons'.r, w |-> cons'.w, e |-> cons'.e]
    BY <1>2 DEF Stored, PInv
  <2>2. k \in Nat /\ k <= Dist(cons.e, cons.w)
    BY ErasedIsEdited
  <2>3. /\ Back(cons.e, k) \in Index /\ Dist(Back(cons.e, k), cons.r) = Dist(cons.e, cons.r) - k
        /\ Dist(cons.w, cons.r) <= Dist(cons.e, cons.r) - k
    BY <2>2, Shrinks DEF PInv, Ring
  <2>4. /\ Dist(cons.e, cons.r) \in Nat /\ Dist(cons.e, cons.r) <= INPUT_BUF_SIZE
        /\ Dist(cons.e, cons.w) = 0 <=> cons.e = cons.w
        /\ Dist(cons.e, cons.r) = INPUT_BUF_SIZE => cons.w = cons.e
    BY Distances, SMT DEF PInv, Ring, Index
  <2>5. Dist(cons'.e, cons.r) <= INPUT_BUF_SIZE
    BY <2>1, <2>2, <2>3, <2>4, SMT DEF ConsoleAssumption
  <2>6. Dist(cons'.e, cons.r) = INPUT_BUF_SIZE => cons.w = cons'.e
    <3>. SUFFICES ASSUME Dist(cons'.e, cons.r) = INPUT_BUF_SIZE PROVE cons.w = cons'.e
      OBVIOUS
    <3>1. k = 0 /\ Dist(cons.e, cons.r) = INPUT_BUF_SIZE
      BY <2>1, <2>2, <2>3, <2>4, SMT DEF ConsoleAssumption
    <3>2. Back(cons.e, 0) = cons.e BY SMT DEF Back, PInv, Index
    <3>. QED BY <2>1, <2>4, <3>1, <3>2
  <2>. QED BY <2>1, <2>3, <2>5, <2>6 DEF PInv, Ring
<1>. QED BY <1>1, <1>2

\* consoleread() keeps the ring sound when it takes a character.
LEMMA TakeKeeps ==
    ASSUME ConsoleAssumption, PInv, cons.r # cons.w, cons' = [cons EXCEPT !.r = Inc(@)]
    PROVE  PInv'
<1>1. /\ cons'.r = Inc(cons.r) /\ cons'.e = cons.e /\ cons'.w = cons.w
      /\ cons' = [buf |-> cons'.buf, r |-> cons'.r, w |-> cons'.w, e |-> cons'.e]
  BY DEF PInv
<1>2. cons.e # cons.r
  BY Distances, SMT DEF PInv, Ring, Index, ConsoleAssumption
<1>3. Inc(cons.r) \in Index /\ Dist(cons.w, Inc(cons.r)) = Dist(cons.w, cons.r) - 1
  BY Forward DEF PInv
<1>4. Dist(cons.e, Inc(cons.r)) = Dist(cons.e, cons.r) - 1
  BY <1>2, Forward DEF PInv
<1>5. Dist(cons.w, cons.r) \in Nat /\ Dist(cons.e, cons.r) \in Nat
  BY Distances, SMT DEF PInv, Index
<1>6. Ring(cons')
  BY <1>1, <1>3, <1>4, <1>5, SMT DEF PInv, Ring, ConsoleAssumption
<1>. QED BY <1>1, <1>3, <1>6 DEF PInv, Ring

\* The buffer is sound at the start.
LEMMA InitKeeps == ConsoleAssumption /\ Init => PInv
BY DEF ConsoleAssumption, Init, PInv, Buffers, Index

\* Every step keeps the ring sound.
LEMMA NextKeeps == ConsoleAssumption /\ PInv /\ [Next]_vars => PInv'
<1>. SUFFICES ASSUME ConsoleAssumption, PInv, [Next]_vars PROVE PInv'
  OBVIOUS
<1>1. ASSUME UNCHANGED cons PROVE PInv'
  BY <1>1 DEF PInv, Ring
<1>2. ASSUME NEW h \in Harts, Store(h) PROVE PInv'
  <2>1. PICK k \in Erased(act[h].c) : cons' = Stored(act[h].c, k)
    BY <1>2 DEF Store
  <2>. QED BY <2>1, StoreKeeps
<1>3. ASSUME NEW h \in Harts, ReadMore(h) PROVE PInv'
  BY <1>3, TakeKeeps DEF ReadMore
<1>4. ASSUME NEW h \in Harts, ReadDone(h) PROVE PInv'
  <2>1. CASE act[run[h]].n > 0 /\ Consumed(run[h])
    BY <1>4, <2>1, TakeKeeps DEF ReadDone, Consumed
  <2>2. CASE ~(act[run[h]].n > 0 /\ Consumed(run[h]))
    BY <1>1, <1>4, <2>2 DEF ReadDone
  <2>. QED BY <2>1, <2>2
<1>5. ASSUME NEW h \in Harts,
             \/ Acquire(h) \/ PutSync(h) \/ WriteThr(h) \/ Key(h) \/ Dumped(h) \/ Poll(h)
             \/ Put(h) \/ Start(h) \/ Send(h) \/ Started(h) \/ Report(h) \/ Reported(h) \/ Faulted(h)
             \/ Written(h) \/ Write(h) \/ ReadTest(h) \/ ReadWait(h) \/ Dispatch(h) \/ Interrupt(h) \/ Call(h)
      PROVE  PInv'
  <2>1. UNCHANGED cons
    BY <1>5 DEF Acquire, PutSync, WriteThr, Key, Dumped, Poll, Put, Start, Send, Started, Report,
                Reported, Faulted, Written, Write, ReadTest, ReadWait, Dispatch, Interrupt, Call
  <2>. QED BY <1>1, <2>1
<1>6. ASSUME NEW p \in Threads, Kill(p) PROVE PInv'
  BY <1>1, <1>6 DEF Kill
<1>7. CASE Type \/ Transmit \/ Halted \/ UNCHANGED vars
  BY <1>1, <1>7 DEF Type, Transmit, Halted, vars
<1>. QED BY <1>2, <1>3, <1>4, <1>5, <1>6, <1>7 DEF Next, Hart

\* console.c: in every reachable state r, w and e are in order, no further apart than
\* the buffer is large, and a full buffer is committed, for every INPUT_BUF_SIZE and
\* every range of the indices.
THEOREM RingStaysSound == Spec => []RingSound
<1>1. Init => PInv BY InitKeeps, ConsoleAssumption
<1>2. PInv /\ [Next]_vars => PInv' BY NextKeeps, ConsoleAssumption
<1>3. PInv => RingSound BY DEF PInv, RingSound
<1>. QED BY <1>1, <1>2, <1>3, PTL DEF Spec

-----------------------------------------------------------------------------
(* Harts, locks and interrupts: IInv *)

\* struct cpu, and what runs: handlers (one per hart) and threads.
Cpus == [sie : BOOLEAN, noff : Int, intena : BOOLEAN]
Contexts == Harts \cup Threads

\* A context is a handler or a thread, not both.
LEMMA ContextsApart ==
    /\ \A h \in Harts : h # None /\ h \notin Threads
    /\ \A p \in Threads : p # None /\ p \notin Harts
BY ConsoleAssumption DEF ConsoleAssumption

\* What runs on a hart: its handler, or else its thread.
LEMMA RunsOn ==
    ASSUME IInv, NEW h \in Harts
    PROVE  /\ run[h] \in Threads \cup {None} /\ run[h] # h /\ h \in Contexts
           /\ InHandler(h) => Running(h) = h /\ Doing(h) = act[h]
           /\ ~InHandler(h) => Running(h) = run[h]
           /\ ~InHandler(h) /\ run[h] # None => Doing(h) = act[run[h]] /\ run[h] \in Contexts
           /\ ~InHandler(h) /\ run[h] = None => Doing(h) = Quiet
           /\ InHandler(h) \in BOOLEAN
<1>1. run[h] \in Threads \cup {None}
  BY DEF IInv, TypeOK
<1> QED BY <1>1, ContextsApart DEF Running, InHandler, Doing, Contexts

\* A step on h changes what h and its thread do, and no lock of another hart:
\* the other harts keep the invariant.
LEMMA OtherHarts ==
    ASSUME IInv, NEW h \in Harts,
           \A g \in Harts \ {h} : run'[g] = run[g] /\ cpu'[g] = cpu[g],
           \A y \in Contexts \ {h, run[h]} : act'[y] = act[y],
           \A l \in Locks : lock'[l] = lock[l] \/ (lock[l] \in {h, None} /\ lock'[l] \in {h, None}),
           cons' = cons \/ lock["cons"] = h,
           NEW g \in Harts, g # h
    PROVE  /\ act'[g] = act[g] /\ (run[g] # None => act'[run[g]] = act[run[g]])
           /\ Doing(g)' = Doing(g) /\ InHandler(g)' = InHandler(g)
           /\ \A l \in Locks : lock'[l] = g <=> lock[l] = g
           /\ HartKept(g, Doing(g), cpu[g], InHandler(g))'
<1>1. g # run[h] /\ g \in Contexts /\ g # None
  BY RunsOn, ContextsApart
<1>2. run[g] # None => run[g] # run[h] /\ run[g] # h /\ run[g] \in Contexts
  <2>1. run[g] # None => run[g] \in Threads /\ run[g] # run[h]
    BY SMT DEF IInv, TypeOK, Placed
  <2> QED BY <2>1, ContextsApart DEF Contexts
<1>3. act'[g] = act[g] /\ (run[g] # None => act'[run[g]] = act[run[g]])
  BY <1>1, <1>2
<1>4. InHandler(g)' = InHandler(g)
  BY <1>3 DEF InHandler
<1>5. Doing(g)' = Doing(g)
  <2>1. Running(g)' = Running(g)
    BY <1>3 DEF Running
  <2>2. Running(g) # None => act'[Running(g)] = act[Running(g)]
    BY <1>3 DEF Running
  <2> QED BY <2>1, <2>2 DEF Doing
<1>6. \A l \in Locks : lock'[l] = g <=> lock[l] = g
  BY <1>1
<1>7. Mine(g, "cons")' = Mine(g, "cons") /\ Mine(g, "tx")' = Mine(g, "tx") /\ Mine(g, "pr")' = Mine(g, "pr")
  BY <1>6 DEF Mine, Locks
<1>8. PICK a, u, i : a = Doing(g) /\ u = cpu[g] /\ i = InHandler(g)
  OBVIOUS
<1>9. HartKept(g, a, u, i)
  BY <1>8 DEF IInv
<1>10. HartKept(g, a, u, i)'
  <2>1. /\ lock'["cons"] = g <=> lock["cons"] = g
        /\ lock'["tx"] = g <=> lock["tx"] = g
        /\ lock'["pr"] = g <=> lock["pr"] = g
    BY <1>6 DEF Locks
  <2>2. a.pc = "wait" => cons'.r = cons'.w
    <3>1. a.pc = "wait" => lock["cons"] = g /\ cons.r = cons.w
      BY <1>9 DEF HartKept
    <3>2. cons' = cons \/ lock["cons"] # g
      OBVIOUS
    <3> QED BY <3>1, <3>2
  <2> QED BY <1>7, <1>9, <2>1, <2>2 DEF HartKept
<1>11. Doing(g)' = a /\ cpu'[g] = u /\ InHandler(g)' = i
  BY <1>4, <1>5, <1>8
<1> QED BY <1>3, <1>4, <1>5, <1>6, <1>10, <1>11 DEF HartKept

\* A step of context x on hart h, which stays on its hart; d is what h does then.
ContextMoves(h, x, b, u, d, i) ==
    /\ x \in {h, run[h]} /\ x # None /\ Record(b) /\ act' = [act EXCEPT ![x] = b]
    /\ x # h => ~InHandler(h) /\ b.pc # "none"
    /\ x = h /\ b.pc # "none" => InHandler(h) \/ run[h] = None \/ act[run[h]].pc \in {"user", "write"}
    /\ u \in Cpus /\ cpu' = [cpu EXCEPT ![h] = u]
    /\ run' = run /\ st' \in [Threads -> {"ready", "run", "dead", "cons", "tx"}]
    /\ \A p \in Threads : st'[p] # st[p] => st[p] \in {"cons", "tx"} /\ st'[p] = "ready"
    /\ lock' \in [Locks -> Harts \cup {None}]
    /\ \A l \in Locks : lock'[l] = lock[l] \/ (lock[l] \in {h, None} /\ lock'[l] \in {h, None})
    /\ cons' = cons \/ lock["cons"] = h
    /\ i = (x = h /\ b.pc # "none")
    /\ d = IF x = h /\ b.pc = "none" THEN (IF run[h] = None THEN Quiet ELSE act[run[h]]) ELSE b

\* What such a step leaves.
LEMMA ContextStep ==
    ASSUME IInv, NEW h \in Harts, NEW x, NEW b, NEW u, NEW d, NEW i, ContextMoves(h, x, b, u, d, i),
           HartKept(h, d, u, i)'
    PROVE  /\ Placed' /\ \A g \in Harts : HartKept(g, Doing(g), cpu[g], InHandler(g))'
           /\ act' = [y \in Contexts |-> act'[y]] /\ \A y \in Contexts : Record(act'[y])
           /\ cpu' \in [Harts -> Cpus] /\ act'[x] = b
           /\ \A y \in Contexts \ {x} : act'[y] = act[y]
           /\ Doing(h)' = d /\ InHandler(h)' = i
           /\ \A g \in Harts \ {h} : Doing(g)' = Doing(g) /\ InHandler(g)' = InHandler(g)
<1>1. /\ x \in {h, run[h]} /\ x # None /\ Record(b) /\ act' = [act EXCEPT ![x] = b]
      /\ x # h => ~InHandler(h) /\ b.pc # "none"
      /\ x = h /\ b.pc # "none" => InHandler(h) \/ run[h] = None \/ act[run[h]].pc \in {"user", "write"}
      /\ u \in Cpus /\ cpu' = [cpu EXCEPT ![h] = u] /\ run' = run
      /\ \A p \in Threads : st'[p] # st[p] => st[p] \in {"cons", "tx"} /\ st'[p] = "ready"
      /\ \A l \in Locks : lock'[l] = lock[l] \/ (lock[l] \in {h, None} /\ lock'[l] \in {h, None})
      /\ cons' = cons \/ lock["cons"] = h
      /\ i = (x = h /\ b.pc # "none")
      /\ d = IF x = h /\ b.pc = "none" THEN (IF run[h] = None THEN Quiet ELSE act[run[h]]) ELSE b
  BY DEF ContextMoves
<1>2. /\ act = [y \in Contexts |-> act[y]] /\ (\A y \in Contexts : Record(act[y])) /\ cpu \in [Harts -> Cpus]
      /\ Placed
  BY DEF IInv, TypeOK, Contexts, Cpus
<1>3. x \in Contexts /\ run[h] \in Threads \cup {None} /\ h \notin Threads /\ h # None /\ run[h] # h
  BY <1>1, RunsOn, ContextsApart, SMT DEF Contexts
<1>4. /\ act' = [y \in Contexts |-> act'[y]] /\ act'[x] = b /\ \A y \in Contexts \ {x} : act'[y] = act[y]
  BY <1>1, <1>2, <1>3
<1>5. \A y \in Contexts : Record(act'[y])
  BY <1>1, <1>2, <1>4
<1>6. cpu' \in [Harts -> Cpus] /\ cpu'[h] = u /\ \A g \in Harts \ {h} : cpu'[g] = cpu[g]
  BY <1>1, <1>2
<1>7. \A g \in Harts \ {h} : /\ Doing(g)' = Doing(g) /\ InHandler(g)' = InHandler(g)
                             /\ HartKept(g, Doing(g), cpu[g], InHandler(g))'
                             /\ act'[g] = act[g] /\ (run[g] # None => act'[run[g]] = act[run[g]])
  <2>1. \A y \in Contexts \ {h, run[h]} : act'[y] = act[y]
    BY <1>1, <1>4
  <2>2. \A g \in Harts \ {h} : run'[g] = run[g] /\ cpu'[g] = cpu[g]
    BY <1>1, <1>6
  <2> QED BY <1>1, <2>1, <2>2, OtherHarts, SMT
<1>8. InHandler(h)' = i
  <2>1. CASE x = h
    BY <1>1, <1>4, <2>1, SMT DEF InHandler
  <2>2. CASE x # h
    <3>1. act'[h] = act[h]
      BY <1>3, <1>4, <2>2 DEF Contexts
    <3> QED BY <1>1, <2>2, <3>1 DEF InHandler
  <2> QED BY <2>1, <2>2
<1>9. Doing(h)' = d
  <2>1. CASE x = h
    <3>1. act'[h] = b /\ (run[h] # None => act'[run[h]] = act[run[h]])
      BY <1>3, <1>4, <2>1 DEF Contexts
    <3> QED BY <1>1, <1>3, <2>1, <3>1 DEF Doing, Running, Quiet
  <2>2. CASE x # h
    <3>1. act'[h] = act[h] /\ x = run[h] /\ act[h].pc = "none" /\ act'[run[h]] = b
      BY <1>1, <1>3, <1>4, <2>2 DEF Contexts, InHandler
    <3> QED BY <1>1, <2>2, <3>1 DEF Doing, Running
  <2> QED BY <2>1, <2>2
<1>10. HartKept(h, Doing(h), cpu[h], InHandler(h))'
  BY <1>6, <1>8, <1>9 DEF HartKept
<1>11. Placed'
  <2>1. ASSUME NEW g \in Harts, run[g] # None
        PROVE  /\ st'[run[g]] = "run" /\ act'[run[g]].pc # "none"
               /\ InHandler(g)' => act'[run[g]].pc \in {"user", "write"}
    <3>1. st[run[g]] = "run" /\ act[run[g]].pc # "none" /\ run[g] \in Threads
          /\ (InHandler(g) => act[run[g]].pc \in {"user", "write"})
      <4>1. run[g] \in Threads
        BY <2>1 DEF IInv, TypeOK
      <4>2. st[run[g]] = "run" /\ act[run[g]].pc # "none"
        BY <1>2, <2>1 DEF Placed
      <4>3. InHandler(g) => act[run[g]].pc \in {"user", "write"}
        BY <1>2, <2>1 DEF Placed
      <4> QED BY <4>1, <4>2, <4>3
    <3>2. st'[run[g]] = "run"
      BY <1>1, <3>1
    <3>3. CASE g # h
      BY <1>7, <2>1, <3>1, <3>2, <3>3
    <3>4. CASE g = h /\ x = h
      <4>1. act'[run[h]] = act[run[h]]
        BY <1>3, <1>4, <2>1, <3>4 DEF Contexts
      <4> QED BY <1>1, <1>8, <2>1, <3>1, <3>2, <3>4, <4>1
    <3>5. CASE g = h /\ x # h
      <4>1. act'[run[h]] = b
        BY <1>1, <1>4, <3>5
      <4>2. b.pc # "none" /\ ~InHandler(h)'
        BY <1>1, <1>8, <3>5
      <4> QED BY <3>2, <3>5, <4>1, <4>2
    <3> QED BY <3>3, <3>4, <3>5
  <2>2. ASSUME NEW p \in Threads, st'[p] \notin {"run", "dead"}
        PROVE  /\ act'[p].pc \in {"user", "spin"}
               /\ act'[p].pc = "spin" => <<act'[p].lk, act'[p].then>> \in {<<"cons", "read">>, <<"tx", "put">>}
    <3>1. st[p] \notin {"run", "dead"}
      BY <1>1, <2>2
    <3>2. p # x
      BY <1>1, <1>2, <1>3, <3>1, SMT DEF Placed
    <3>3. act'[p] = act[p]
      BY <1>4, <3>2 DEF Contexts
    <3> QED BY <1>2, <3>1, <3>3 DEF Placed
  <2>3. \A g, k \in Harts : run'[g] = run'[k] /\ run'[g] # None => g = k
    BY <1>1, <1>2 DEF Placed
  <2> QED BY <1>1, <2>1, <2>2, <2>3, SMT DEF Placed
<1>12. \A g \in Harts : HartKept(g, Doing(g), cpu[g], InHandler(g))'
  BY <1>7, <1>10
<1> QED BY <1>4, <1>5, <1>6, <1>7, <1>8, <1>9, <1>11, <1>12

\* A record of what a context does, with other fields.
LEMMA NewPc ==
    ASSUME NEW a, Record(a), NEW v, NEW b, b = [a EXCEPT !.pc = v]
    PROVE  Record(b) /\ b.pc = v /\ b.lk = a.lk /\ b.then = a.then /\ b.c = a.c /\ b.echo = a.echo /\ b.n = a.n
BY DEF Record

\* Assigning the fields that hold data keeps a context a record and where it was.
LEMMA OtherFields ==
    ASSUME NEW a, Record(a), NEW v, NEW w
    PROVE  /\ Record([a EXCEPT !.echo = v]) /\ Record([a EXCEPT !.c = v]) /\ Record([a EXCEPT !.n = v, !.target = w])
           /\ Record([a EXCEPT !.n = v]) /\ [a EXCEPT !.n = v].pc = a.pc
<1>1. Record([a EXCEPT !.echo = v]) /\ Record([a EXCEPT !.c = v])
  BY SMT DEF Record
<1>2. Record([a EXCEPT !.n = v, !.target = w])
  <2>1. PICK b : b = [a EXCEPT !.n = v, !.target = w]
    OBVIOUS
  <2>2. b = [pc |-> a.pc, lk |-> a.lk, then |-> a.then, c |-> a.c, echo |-> a.echo, n |-> v, target |-> w]
    BY <2>1 DEF Record
  <2>3. Record(b)
    BY <2>2 DEF Record
  <2> QED BY <2>1, <2>3
<1>3. Record([a EXCEPT !.n = v]) /\ [a EXCEPT !.n = v].pc = a.pc
  BY SMT DEF Record
<1> QED BY <1>1, <1>2, <1>3

\* A context at rest, one at user level and one that polls the UART are records.
LEMMA Resting == /\ Record(Quiet) /\ Quiet.pc = "none" /\ Record(AtUser) /\ AtUser.pc = "user"
                 /\ Record([Quiet EXCEPT !.pc = "poll"]) /\ [Quiet EXCEPT !.pc = "poll"].pc = "poll"
BY SMT DEF Record, Quiet, AtUser

\* What a context does on its hart.
LEMMA Acts ==
    ASSUME IInv, NEW h \in Harts, Running(h) # None, NEW x, x = Running(h)
    PROVE  /\ x \in {h, run[h]} /\ x \in Contexts /\ Doing(h) = act[x] /\ InHandler(h) = (x = h)
           /\ HartKept(h, act[x], cpu[h], x = h) /\ Record(act[x]) /\ act[x].pc # "none"
           /\ cpu[h] \in Cpus /\ cpu \in [Harts -> Cpus] /\ act = [y \in Contexts |-> act[y]]
           /\ lock \in [Locks -> Harts \cup {None}]
           /\ st \in [Threads -> {"ready", "run", "dead", "cons", "tx"}]
           /\ h # None /\ run[h] # h /\ run[h] \in Threads \cup {None}
<1>1. /\ cpu \in [Harts -> Cpus] /\ act = [y \in Contexts |-> act[y]] /\ lock \in [Locks -> Harts \cup {None}]
      /\ st \in [Threads -> {"ready", "run", "dead", "cons", "tx"}] /\ \A y \in Contexts : Record(act[y])
  BY DEF IInv, TypeOK, Cpus, Contexts
<1>2. x \in {h, run[h]} /\ x \in Contexts /\ Doing(h) = act[x] /\ InHandler(h) = (x = h)
  BY RunsOn
<1>3. HartKept(h, Doing(h), cpu[h], InHandler(h))
  BY DEF IInv
<1>4. act[x].pc # "none"
  <2>1. CASE x = h
    BY <1>2, <2>1 DEF InHandler
  <2>2. CASE x = run[h]
    BY <2>2 DEF IInv, Placed
  <2> QED BY <1>2, <2>1, <2>2
<1> QED BY <1>1, <1>2, <1>3, <1>4, RunsOn, ContextsApart

\* A step that takes no interrupt and ends no handler leaves someone to look at
\* the UART.
LEMMA StillAttended ==
    ASSUME IInv, NEW h \in Harts, NEW x, NEW b, NEW u, NEW d, NEW i, ContextMoves(h, x, b, u, d, i),
           HartKept(h, d, u, i)', i = InHandler(h), UNCHANGED <<irq, claim>>,
           rx' # <<>> => rx # <<>>, fifo # <<>> => fifo' # <<>>,
           x = h /\ rx' # <<>> /\ WillPoll(act[h]) => WillPoll(b),
           tx'.w # tx'.r /\ fifo' = <<>> => \/ d.pc \in {"start", "send"}
                                            \/ tx.w # tx.r /\ Doing(h).pc \notin {"start", "send"}
    PROVE  Attended'
<1>1. /\ act'[x] = b /\ (\A y \in Contexts \ {x} : act'[y] = act[y])
      /\ Doing(h)' = d /\ InHandler(h)' = i
      /\ \A g \in Harts \ {h} : Doing(g)' = Doing(g) /\ InHandler(g)' = InHandler(g)
  BY ContextStep
<1>2. x \in {h, run[h]} /\ (x # h => ~InHandler(h))
      /\ \A l \in Locks : lock'[l] = lock[l] \/ (lock[l] \in {h, None} /\ lock'[l] \in {h, None})
  BY DEF ContextMoves
<1>3. Attended /\ claim \in Harts \cup {None}
  BY DEF IInv, TypeOK
<1>4. \A g \in Harts : claim' = g <=> InHandler(g)'
  BY <1>1, <1>3 DEF Attended
<1>5. rx' # <<>> => irq' \/ (claim' # None /\ WillPoll(act[claim])')
  <2>1. ASSUME claim # None, WillPoll(act[claim]), rx' # <<>>
        PROVE  WillPoll(act[claim])'
    <3>1. claim \in Harts /\ InHandler(claim) /\ claim \in Contexts
      BY <1>3, <2>1 DEF Attended, Contexts
    <3>2. CASE claim = h
      <4>1. x = h
        BY <1>2, <3>1, <3>2
      <4>2. act'[claim'] = b
        BY <1>1, <3>2, <4>1
      <4> QED BY <2>1, <3>2, <4>1, <4>2 DEF WillPoll
    <3>3. CASE claim # h
      <4>1. claim # x
        BY <1>2, <3>1, <3>3, RunsOn, ContextsApart
      <4>2. act'[claim'] = act[claim]
        BY <1>1, <3>1, <4>1
      <4> QED BY <2>1, <4>2 DEF WillPoll
    <3> QED BY <3>2, <3>3
  <2> QED BY <1>3, <2>1 DEF Attended
<1>6. ASSUME tx'.w # tx'.r, fifo' = <<>>, ~irq', claim' = None
      PROVE  \E k \in Harts : lock'["tx"] = k /\ Doing(k)'.pc \in {"start", "send"}
  <2>1. CASE d.pc \in {"start", "send"}
    <3>1. lock'["tx"] = h
      BY <2>1 DEF HartKept
    <3> QED BY <1>1, <2>1, <3>1
  <2>2. CASE tx.w # tx.r /\ Doing(h).pc \notin {"start", "send"}
    <3>1. PICK k \in Harts : lock["tx"] = k /\ Doing(k).pc \in {"start", "send"}
      BY <1>3, <1>6, <2>2 DEF Attended
    <3>2. k # h /\ "tx" \in Locks /\ k # None
      BY <2>2, <3>1, ContextsApart DEF Locks
    <3>3. lock'["tx"] = k /\ Doing(k)' = Doing(k)
      BY <1>1, <1>2, <3>1, <3>2
    <3> QED BY <3>1, <3>3
  <2> QED BY <1>6, <2>1, <2>2
<1>7. tx'.w # tx'.r => \/ fifo' # <<>> \/ irq' \/ claim' # None
                       \/ \E k \in Harts : lock'["tx"] = k /\ Doing(k)'.pc \in {"start", "send"}
  BY <1>6
<1> QED BY <1>4, <1>5, <1>7 DEF Attended

\* Putting together: the parts that a step of a context on its hart has to keep.
LEMMA StepKeeps ==
    ASSUME IInv, NEW h \in Harts, NEW x, NEW b, NEW u, NEW d, NEW i, ContextMoves(h, x, b, u, d, i),
           HartKept(h, d, u, i)', Attended',
           tx' \in [buf : [0..(UART_TX_BUF_SIZE - 1) -> Int], r : Int, w : Int],
           fifo' \in Seq(Int), irq' \in BOOLEAN, claim' \in Harts \cup {None}, killed' = killed,
           \A p \in Threads : st'[p] = "cons" => cons'.r = cons'.w,
           \A p \in Threads : st'[p] = "tx" => TxFull'
    PROVE  IInv'
<1>1. /\ Placed' /\ \A g \in Harts : HartKept(g, Doing(g), cpu[g], InHandler(g))'
      /\ act' = [y \in Contexts |-> act'[y]] /\ (\A y \in Contexts : Record(act'[y]))
      /\ cpu' \in [Harts -> Cpus]
  BY ContextStep
<1>2. /\ run' = run /\ st' \in [Threads -> {"ready", "run", "dead", "cons", "tx"}]
      /\ lock' \in [Locks -> Harts \cup {None}]
      /\ \A p \in Threads : st'[p] # st[p] => st[p] \in {"cons", "tx"} /\ st'[p] = "ready"
  BY DEF ContextMoves
<1>3. TypeOK'
  <2>1. run' \in [Harts -> Threads \cup {None}] /\ killed' \in [Threads -> BOOLEAN]
    BY <1>2 DEF IInv, TypeOK
  <2> QED BY <1>1, <1>2, <2>1 DEF TypeOK, Contexts, Cpus, Record
<1>4. \A p \in Threads : st'[p] = "cons" => cons'.r = cons'.w
  BY <1>2 DEF IInv
<1> QED BY <1>1, <1>3, <1>4 DEF IInv

\* The same for a step that leaves buffers and UART alone.
LEMMA PlainStep ==
    ASSUME IInv, NEW h \in Harts, NEW x, NEW b, NEW u, NEW d, NEW i, ContextMoves(h, x, b, u, d, i),
           HartKept(h, d, u, i)', i = InHandler(h),
           UNCHANGED <<rx, fifo, irq, claim, tx, cons, killed>>,
           x = h /\ WillPoll(act[h]) => WillPoll(b),
           Doing(h).pc \in {"start", "send"} => d.pc \in {"start", "send"}
    PROVE  IInv'
<1>1. Attended'
  <2>1. tx'.w # tx'.r /\ fifo' = <<>> => \/ d.pc \in {"start", "send"}
                                         \/ tx.w # tx.r /\ Doing(h).pc \notin {"start", "send"}
    OBVIOUS
  <2>2. x = h /\ rx' # <<>> /\ WillPoll(act[h]) => WillPoll(b)
    OBVIOUS
  <2> QED BY <2>1, <2>2, StillAttended
<1>2. \A p \in Threads : st'[p] # st[p] => st[p] \in {"cons", "tx"} /\ st'[p] = "ready"
  BY DEF ContextMoves
<1>3. \A p \in Threads : st'[p] = "cons" => cons'.r = cons'.w
  BY <1>2 DEF IInv
<1>4. \A p \in Threads : st'[p] = "tx" => TxFull'
  BY <1>2 DEF IInv, TxFull
<1>5. /\ tx' \in [buf : [0..(UART_TX_BUF_SIZE - 1) -> Int], r : Int, w : Int]
      /\ fifo' \in Seq(Int) /\ irq' \in BOOLEAN /\ claim' \in Harts \cup {None}
  BY DEF IInv, TypeOK
<1> QED BY <1>1, <1>3, <1>4, <1>5, StepKeeps

\* Two fields of struct cpu assigned one after the other.
LEMMA CpuFields ==
    ASSUME NEW u, NEW n, NEW e, u = [sie |-> u.sie, noff |-> u.noff, intena |-> u.intena]
    PROVE  [u EXCEPT !.noff = n, !.sie = e] = [sie |-> e, noff |-> n, intena |-> u.intena]
<1>1. PICK v : v = [u EXCEPT !.noff = n]
  OBVIOUS
<1>2. v = [sie |-> u.sie, noff |-> n, intena |-> u.intena]
  BY <1>1
<1>3. [v EXCEPT !.sie = e] = [sie |-> e, noff |-> n, intena |-> u.intena]
  BY <1>2, SMT
<1> QED BY <1>1, <1>3

\* What push_off() and pop_off() give.
LEMMA PushPop ==
    ASSUME NEW u \in Cpus
    PROVE  /\ push_off(u) \in Cpus /\ push_off(u).noff = u.noff + 1 /\ push_off(u).sie = FALSE
           /\ push_off(u).intena = IF u.noff = 0 THEN u.sie ELSE u.intena
           /\ pop_off(u) \in Cpus /\ pop_off(u).noff = u.noff - 1 /\ pop_off(u).intena = u.intena
           /\ pop_off(u).sie = (u.noff = 1 /\ u.intena)
<1>1. u = [sie |-> u.sie, noff |-> u.noff, intena |-> u.intena] /\ u.noff \in Int
      /\ u.sie \in BOOLEAN /\ u.intena \in BOOLEAN
  BY DEF Cpus
<1>2. /\ push_off(u) \in Cpus /\ push_off(u).noff = u.noff + 1 /\ push_off(u).sie = FALSE
      /\ push_off(u).intena = IF u.noff = 0 THEN u.sie ELSE u.intena
  <2>1. PICK e \in BOOLEAN : e = IF u.noff = 0 THEN u.sie ELSE u.intena
    BY <1>1
  <2>2. push_off(u) = [sie |-> FALSE, noff |-> u.noff + 1, intena |-> e]
    BY <2>1 DEF push_off
  <2>3. /\ push_off(u) \in Cpus /\ push_off(u).noff = u.noff + 1 /\ push_off(u).sie = FALSE
        /\ push_off(u).intena = e
    BY <1>1, <2>2, SMT DEF Cpus
  <2> QED BY <2>1, <2>3
<1>3. PICK e \in BOOLEAN : e = (u.noff = 1 /\ u.intena)
  BY <1>1
<1>4. pop_off(u) = [sie |-> e, noff |-> u.noff - 1, intena |-> u.intena]
  <2>1. pop_off(u) = [u EXCEPT !.noff = u.noff - 1, !.sie = e]
    BY <1>3 DEF pop_off
  <2>2. PICK n : n = u.noff - 1
    OBVIOUS
  <2>3. [u EXCEPT !.noff = n, !.sie = e] = [sie |-> e, noff |-> n, intena |-> u.intena]
    BY <1>1, CpuFields
  <2> QED BY <2>1, <2>2, <2>3
<1>5. pop_off(u) \in Cpus /\ pop_off(u).noff = u.noff - 1 /\ pop_off(u).intena = u.intena
      /\ pop_off(u).sie = e
  BY <1>1, <1>4, SMT DEF Cpus
<1> QED BY <1>2, <1>3, <1>5

\* acquire() gets its lock.
LEMMA AcquireStep ==
    ASSUME IInv, NEW h \in Harts, Acquire(h)
    PROVE  IInv'
<1>1. PICK x, a, u, i, b : /\ x = Running(h) /\ a = act[x] /\ u = cpu[h] /\ i = (x = h)
                           /\ b = [a EXCEPT !.pc = a.then, !.lk = "cons", !.then = "none"]
  OBVIOUS
<1>2. /\ x # None /\ a.pc = "spin" /\ lock[a.lk] = None /\ lock' = [lock EXCEPT ![a.lk] = h]
      /\ act' = [act EXCEPT ![x] = b]
      /\ UNCHANGED <<cons, tx, cpu, run, st, killed, rx, fifo, irq, claim>>
  BY <1>1 DEF Acquire, device
<1>3. /\ x \in {h, run[h]} /\ x \in Contexts /\ Doing(h) = a /\ InHandler(h) = i
      /\ HartKept(h, a, u, i) /\ Record(a) /\ u \in Cpus /\ cpu \in [Harts -> Cpus]
      /\ lock \in [Locks -> Harts \cup {None}] /\ h # None
      /\ st \in [Threads -> {"ready", "run", "dead", "cons", "tx"}]
  BY <1>1, <1>2, Acts, SMT
<1>4. Record(b) /\ b.pc = a.then /\ b.c = a.c
  BY <1>1, <1>3 DEF Record
<1>5. <<a.lk, a.then>> \in IF i THEN {<<"cons", "key">>, <<"tx", "start">>, <<"pr", "echo">>}
                           ELSE {<<"cons", "read">>, <<"tx", "put">>, <<"pr", "echo">>}
  BY <1>2, <1>3 DEF HartKept
<1>6. /\ a.lk \in Locks /\ lock' \in [Locks -> Harts \cup {None}] /\ lock'[a.lk] = h
      /\ \A l \in Locks \ {a.lk} : lock'[l] = lock[l]
  BY <1>2, <1>3, <1>5 DEF Locks
<1>7. ContextMoves(h, x, b, u, b, i)
  <2>1. cpu' = [cpu EXCEPT ![h] = u] /\ b.pc # "none"
    BY <1>1, <1>2, <1>3, <1>4, <1>5
  <2> QED BY <1>1, <1>2, <1>3, <1>4, <1>6, <2>1 DEF ContextMoves
<1>8. HartKept(h, b, u, i)'
  <2>1. CASE a.lk = "cons"
    <3>1. b.pc = IF i THEN "key" ELSE "read"
      BY <1>4, <1>5, <2>1
    <3> QED BY <1>2, <1>3, <1>6, <2>1, <3>1, SMT DEF HartKept, Mine, Printing, Locks, Cpus
  <2>2. CASE a.lk = "tx"
    <3>1. b.pc = IF i THEN "start" ELSE "put"
      BY <1>4, <1>5, <2>2
    <3> QED BY <1>2, <1>3, <1>6, <2>2, <3>1, SMT DEF HartKept, Mine, Printing, Locks, Cpus
  <2>3. CASE a.lk = "pr"
    <3>1. b.pc = "echo"
      BY <1>4, <1>5, <2>3
    <3> QED BY <1>2, <1>3, <1>4, <1>6, <2>3, <3>1, SMT DEF HartKept, Mine, Printing, Locks, Cpus
  <2> QED BY <1>6, <2>1, <2>2, <2>3 DEF Locks
<1>9. x = h /\ WillPoll(act[h]) => WillPoll(b)
  BY <1>1, <1>2, <1>4, <1>5 DEF WillPoll
<1> QED BY <1>2, <1>3, <1>7, <1>8, <1>9, PlainStep

\* uartputc_sync() starts.
LEMMA PutSyncStep ==
    ASSUME IInv, NEW h \in Harts, PutSync(h)
    PROVE  IInv'
<1>1. PICK x, a, u, v, i, b : /\ x = Running(h) /\ a = act[x] /\ u = cpu[h] /\ v = push_off(u) /\ i = (x = h)
                              /\ b = [a EXCEPT !.pc = "thr"]
  OBVIOUS
<1>2. /\ x # None /\ a.pc = "echo" /\ act' = [act EXCEPT ![x] = b] /\ cpu' = [cpu EXCEPT ![h] = v]
      /\ UNCHANGED <<cons, tx, lock, run, st, killed, rx, fifo, irq, claim>>
  BY <1>1 DEF PutSync, device
<1>3. /\ x \in {h, run[h]} /\ x \in Contexts /\ Doing(h) = a /\ InHandler(h) = i
      /\ HartKept(h, a, u, i) /\ Record(a) /\ u \in Cpus /\ cpu \in [Harts -> Cpus]
      /\ lock \in [Locks -> Harts \cup {None}] /\ h # None
      /\ st \in [Threads -> {"ready", "run", "dead", "cons", "tx"}]
  BY <1>1, <1>2, Acts, SMT
<1>4. Record(b) /\ b.pc = "thr" /\ b.lk = a.lk /\ b.c = a.c
  BY <1>1, <1>3, NewPc, SMT
<1>5. v \in Cpus /\ v.noff = u.noff + 1 /\ v.sie = FALSE /\ v.intena = IF u.noff = 0 THEN u.sie ELSE u.intena
  BY <1>1, <1>3, PushPop
<1>6. ContextMoves(h, x, b, v, b, i)
  BY <1>1, <1>2, <1>3, <1>4, <1>5 DEF ContextMoves
<1>7. HartKept(h, b, v, i)'
  BY <1>2, <1>3, <1>4, <1>5, SMT DEF HartKept, Mine, Printing, Cpus
<1>8. x = h /\ WillPoll(act[h]) => WillPoll(b)
  BY <1>1, <1>2, <1>4 DEF WillPoll
<1> QED BY <1>2, <1>3, <1>4, <1>6, <1>7, <1>8, PlainStep

\* Two fields of what one context does are changed one after the other.
LEMMA TwoFields ==
    ASSUME act = [y \in Contexts |-> act[y]], NEW x \in Contexts, NEW v, NEW w, Record(act[x])
    PROVE  /\ [act EXCEPT ![x].pc = v, ![x].echo = w] = [act EXCEPT ![x] = [act[x] EXCEPT !.pc = v, !.echo = w]]
           /\ [act EXCEPT ![x].pc = v, ![x].n = w] = [act EXCEPT ![x] = [act[x] EXCEPT !.pc = v, !.n = w]]
<1>1. PICK b : b = [act[x] EXCEPT !.pc = v]
  OBVIOUS
<1>2. PICK f : f = [act EXCEPT ![x] = b]
  OBVIOUS
<1>3. f[x] = b /\ f = [y \in Contexts |-> IF y = x THEN b ELSE act[y]]
  BY <1>2
<1>4. ASSUME NEW c PROVE [f EXCEPT ![x] = c] = [act EXCEPT ![x] = c]
  BY <1>2, <1>3
<1>5. [f EXCEPT ![x].echo = w] = [f EXCEPT ![x] = [b EXCEPT !.echo = w]]
  BY <1>3
<1>6. [f EXCEPT ![x].n = w] = [f EXCEPT ![x] = [b EXCEPT !.n = w]]
  BY <1>3
<1>7. [act EXCEPT ![x].pc = v, ![x].echo = w] = [act EXCEPT ![x] = [act[x] EXCEPT !.pc = v, !.echo = w]]
  <2>1. [f EXCEPT ![x] = [b EXCEPT !.echo = w]] = [act EXCEPT ![x] = [b EXCEPT !.echo = w]]
    BY <1>4
  <2> QED BY <1>1, <1>2, <1>5, <2>1
<1>8. [act EXCEPT ![x].pc = v, ![x].n = w] = [act EXCEPT ![x] = [act[x] EXCEPT !.pc = v, !.n = w]]
  <2>1. [f EXCEPT ![x] = [b EXCEPT !.n = w]] = [act EXCEPT ![x] = [b EXCEPT !.n = w]]
    BY <1>4
  <2> QED BY <1>1, <1>2, <1>6, <2>1
<1> QED BY <1>7, <1>8

\* What is true of a step on h while its context x does a.
Before(h, x, a, u, i) ==
    /\ x \in {h, run[h]} /\ x \in Contexts /\ Doing(h) = a /\ InHandler(h) = i /\ i = (x = h) /\ a = act[x]
    /\ x = Running(h) /\ x # None
    /\ HartKept(h, a, u, i) /\ Record(a) /\ u \in Cpus /\ cpu \in [Harts -> Cpus] /\ u = cpu[h]
    /\ cpu = [cpu EXCEPT ![h] = u]
    /\ act = [y \in Contexts |-> act[y]]
    /\ lock \in [Locks -> Harts \cup {None}] /\ h # None
    /\ st \in [Threads -> {"ready", "run", "dead", "cons", "tx"}]

\* What the running context of a hart finds before it acts.
LEMMA ThreadActs ==
    ASSUME IInv, NEW h \in Harts, Running(h) # None
    PROVE  \E x, a, u, i : Before(h, x, a, u, i)
<1>1. PICK x, a, u, i : x = Running(h) /\ a = act[x] /\ u = cpu[h] /\ i = (x = h)
  OBVIOUS
<1>2. /\ x \in {h, run[h]} /\ x \in Contexts /\ Doing(h) = a /\ InHandler(h) = i
      /\ HartKept(h, a, u, i) /\ Record(a) /\ u \in Cpus /\ cpu \in [Harts -> Cpus]
      /\ act = [y \in Contexts |-> act[y]]
      /\ lock \in [Locks -> Harts \cup {None}] /\ h # None
      /\ st \in [Threads -> {"ready", "run", "dead", "cons", "tx"}]
  BY <1>1, Acts, SMT
<1>3. cpu = [cpu EXCEPT ![h] = u]
  BY <1>1, <1>2
<1>4. Before(h, x, a, u, i)
  BY <1>1, <1>2, <1>3 DEF Before
<1> QED BY <1>4

\* The same of an interrupt handler.
LEMMA HandlerActs ==
    ASSUME IInv, NEW h \in Harts, act[h].pc # "none"
    PROVE  \E a, u : Before(h, h, a, u, TRUE)
<1>1. Running(h) = h /\ h # None
  BY ContextsApart DEF Running
<1>2. PICK x, a, u, i : Before(h, x, a, u, i)
  BY <1>1, ThreadActs
<1>3. x = h /\ i = TRUE
  BY <1>1, <1>2 DEF Before
<1> QED BY <1>2, <1>3

\* Such a step, which stays in the handler or out of it.
LEMMA Moves ==
    ASSUME NEW h \in Harts, NEW x, NEW a, NEW u, NEW i, Before(h, x, a, u, i), NEW b, NEW v,
           Record(b), b.pc # "none", act' = [act EXCEPT ![x] = b], v \in Cpus, cpu' = [cpu EXCEPT ![h] = v],
           run' = run, st' \in [Threads -> {"ready", "run", "dead", "cons", "tx"}],
           \A p \in Threads : st'[p] # st[p] => st[p] \in {"cons", "tx"} /\ st'[p] = "ready",
           lock' \in [Locks -> Harts \cup {None}],
           \A l \in Locks : lock'[l] = lock[l] \/ (lock[l] \in {h, None} /\ lock'[l] \in {h, None}),
           cons' = cons \/ lock["cons"] = h
    PROVE  ContextMoves(h, x, b, v, b, i)
BY DEF ContextMoves, Before

\* release() of a lock of this hart.
LEMMA Releases ==
    ASSUME NEW h \in Harts, lock \in [Locks -> Harts \cup {None}], NEW l \in Locks, lock[l] = h,
           lock' = [lock EXCEPT ![l] = None]
    PROVE  /\ lock' \in [Locks -> Harts \cup {None}] /\ lock'[l] = None
           /\ \A m \in Locks \ {l} : lock'[m] = lock[m]
           /\ \A m \in Locks : lock'[m] = lock[m] \/ (lock[m] \in {h, None} /\ lock'[m] \in {h, None})
OBVIOUS

\* uartputc_sync() writes.
LEMMA WriteThrStep ==
    ASSUME IInv, NEW h \in Harts, WriteThr(h)
    PROVE  IInv'
<1>1. PICK x, a, u, i : Before(h, x, a, u, i)
  BY ThreadActs DEF WriteThr
<1>2. PICK b, v : b = [a EXCEPT !.pc = "echo", !.echo = Tail(a.echo)] /\ v = pop_off(u)
  OBVIOUS
<1>3. Record(b) /\ b.pc = "echo" /\ b.c = a.c
  <2>1. Record(a)
    BY <1>1 DEF Before
  <2> QED BY <1>2, <2>1 DEF Record
<1>4. v \in Cpus /\ v.noff = u.noff - 1 /\ v.intena = u.intena /\ v.sie = (u.noff = 1 /\ u.intena)
  BY <1>1, <1>2, PushPop DEF Before
<1>5. /\ a.pc = "thr" /\ cpu' = [cpu EXCEPT ![h] = v] /\ fifo' = Append(fifo, -1)
      /\ act' = [act EXCEPT ![x].pc = "echo", ![x].echo = Tail(act[x].echo)]
      /\ UNCHANGED <<cons, tx, lock, run, st, killed, rx, irq, claim>>
  <2>1. act' = [act EXCEPT ![x].pc = "echo", ![x].echo = Tail(act[x].echo)]
    BY <1>1 DEF WriteThr, Before
  <2> QED BY <1>1, <1>2, <2>1 DEF WriteThr, Before
<1>6. act' = [act EXCEPT ![x] = b]
  BY <1>1, <1>2, <1>5, TwoFields DEF Before
<1>7. ContextMoves(h, x, b, v, b, i)
  <2>1. /\ st' \in [Threads -> {"ready", "run", "dead", "cons", "tx"}] /\ lock' \in [Locks -> Harts \cup {None}]
    BY <1>1, <1>5 DEF Before
  <2> QED BY <1>1, <1>3, <1>4, <1>5, <1>6, <2>1, Moves
<1>8. HartKept(h, b, v, i)'
  BY <1>1, <1>3, <1>4, <1>5, SMT DEF HartKept, Mine, Printing, Cpus, Before
<1>9. fifo' # <<>> /\ fifo' \in Seq(Int)
  BY <1>5, SMT DEF IInv, TypeOK
<1>10. Attended'
  <2>1. x = h /\ rx' # <<>> /\ WillPoll(act[h]) => WillPoll(b)
    BY <1>3 DEF WillPoll
  <2>2. i = InHandler(h) /\ (rx' # <<>> => rx # <<>>)
    BY <1>1, <1>5 DEF Before
  <2> QED BY <1>5, <1>7, <1>8, <1>9, <2>1, <2>2, StillAttended
<1>11. /\ tx' \in [buf : [0..(UART_TX_BUF_SIZE - 1) -> Int], r : Int, w : Int]
       /\ irq' \in BOOLEAN /\ claim' \in Harts \cup {None}
       /\ \A p \in Threads : st'[p] = "cons" => cons'.r = cons'.w
       /\ \A p \in Threads : st'[p] = "tx" => TxFull'
  BY <1>5 DEF IInv, TypeOK, TxFull
<1> QED BY <1>5, <1>7, <1>8, <1>9, <1>10, <1>11, StepKeeps

\* consoleintr() decides what to echo.
LEMMA KeyStep ==
    ASSUME IInv, NEW h \in Harts, Key(h)
    PROVE  IInv'
<1>1. PICK a, u : Before(h, h, a, u, TRUE)
  BY HandlerActs DEF Key
<1>2. a = act[h] /\ Record(a) /\ u \in Cpus /\ HartKept(h, a, u, TRUE) /\ Doing(h) = a /\ InHandler(h) = TRUE
      /\ u = cpu[h] /\ cpu = [cpu EXCEPT ![h] = u] /\ lock \in [Locks -> Harts \cup {None}]
      /\ st \in [Threads -> {"ready", "run", "dead", "cons", "tx"}]
  BY <1>1 DEF Before
<1>3. PICK k : k \in Erased(a.c) /\ a.pc = "key"
        /\ act' = [act EXCEPT ![h] = IF a.c = "P" THEN Spin([a EXCEPT !.echo = <<"ps">>], "pr", "echo")
                                     ELSE [a EXCEPT !.pc = "echo", !.echo = Echo(a.c, k)]]
        /\ cpu' = [cpu EXCEPT ![h] = IF a.c = "P" THEN push_off(u) ELSE u]
        /\ UNCHANGED <<cons, tx, lock, run, st, killed, rx, fifo, irq, claim>>
  BY <1>2 DEF Key, device
<1>4. PICK b, v : /\ b = IF a.c = "P" THEN Spin([a EXCEPT !.echo = <<"ps">>], "pr", "echo")
                         ELSE [a EXCEPT !.pc = "echo", !.echo = Echo(a.c, k)]
                  /\ v = IF a.c = "P" THEN push_off(u) ELSE u
  OBVIOUS
<1>5. act' = [act EXCEPT ![h] = b] /\ cpu' = [cpu EXCEPT ![h] = v]
  BY <1>3, <1>4
<1>6. Record(b) /\ (a.c = "P" => b.pc = "spin" /\ b.lk = "pr" /\ b.then = "echo" /\ b.c = "P") /\ (a.c # "P" => b.pc = "echo")
  <2>1. CASE a.c = "P"
    <3>1. PICK e : e = [a EXCEPT !.echo = <<"ps">>]
      OBVIOUS
    <3>2. Record(e) /\ e.c = "P" /\ b = [e EXCEPT !.pc = "spin", !.lk = "pr", !.then = "echo"]
      <4>1. Record(e) /\ e.c = a.c
        BY <1>2, <3>1 DEF Record
      <4> QED BY <1>4, <2>1, <3>1, <4>1 DEF Spin
    <3>3. Record(b) /\ b.pc = "spin" /\ b.lk = "pr" /\ b.then = "echo" /\ b.c = "P"
      BY <3>2 DEF Record
    <3> QED BY <2>1, <3>3
  <2>2. CASE a.c # "P"
    <3>1. PICK w : w = Echo(a.c, k)
      OBVIOUS
    <3>2. b = [a EXCEPT !.pc = "echo", !.echo = w]
      BY <1>4, <2>2, <3>1
    <3>3. Record(b) /\ b.pc = "echo"
      BY <1>2, <3>2 DEF Record
    <3> QED BY <2>2, <3>3
  <2> QED BY <2>1, <2>2
<1>7. v \in Cpus /\ (a.c # "P" => v = u)
      /\ (a.c = "P" => /\ v.noff = u.noff + 1 /\ v.sie = FALSE
                       /\ v.intena = IF u.noff = 0 THEN u.sie ELSE u.intena)
  BY <1>2, <1>4, PushPop
<1>8. ContextMoves(h, h, b, v, b, TRUE)
  <2>1. b.pc # "none"
    BY <1>6
  <2> QED BY <1>1, <1>2, <1>3, <1>5, <1>6, <1>7, <2>1, Moves
<1>9. HartKept(h, b, v, TRUE)'
  <2>1. CASE a.c = "P"
    BY <1>2, <1>3, <1>6, <1>7, <2>1, SMT DEF HartKept, Mine, Printing, Cpus
  <2>2. CASE a.c # "P"
    BY <1>2, <1>3, <1>6, <1>7, <2>2 DEF HartKept, Mine, Printing, Cpus
  <2> QED BY <2>1, <2>2
<1>10. WillPoll(b)
  BY <1>6 DEF WillPoll
<1> QED BY <1>2, <1>3, <1>8, <1>9, <1>10, PlainStep

\* procdump() gives back the lock of printf().
LEMMA DumpedStep ==
    ASSUME IInv, NEW h \in Harts, Dumped(h)
    PROVE  IInv'
<1>1. PICK a, u : Before(h, h, a, u, TRUE)
  BY HandlerActs DEF Dumped
<1>2. a = act[h] /\ Record(a) /\ u \in Cpus /\ HartKept(h, a, u, TRUE) /\ Doing(h) = a /\ InHandler(h) = TRUE
      /\ u = cpu[h] /\ lock \in [Locks -> Harts \cup {None}] /\ h \in Contexts
      /\ st \in [Threads -> {"ready", "run", "dead", "cons", "tx"}] /\ act = [y \in Contexts |-> act[y]] /\ h # None
  BY <1>1 DEF Before
<1>3. PICK v : v = pop_off(u)
  OBVIOUS
<1>4. v \in Cpus /\ v.noff = u.noff - 1 /\ v.intena = u.intena /\ v.sie = (u.noff = 1 /\ u.intena)
  BY <1>2, <1>3, PushPop
<1>5. /\ a.pc = "echo" /\ lock["pr"] = h /\ lock' = [lock EXCEPT !["pr"] = None] /\ cpu' = [cpu EXCEPT ![h] = v]
      /\ UNCHANGED <<cons, tx, run, st, killed, act, rx, fifo, irq, claim>>
  BY <1>2, <1>3 DEF Dumped, release, device
<1>6. /\ lock' \in [Locks -> Harts \cup {None}] /\ lock'["pr"] = None
      /\ \A m \in Locks \ {"pr"} : lock'[m] = lock[m]
      /\ \A m \in Locks : lock'[m] = lock[m] \/ (lock[m] \in {h, None} /\ lock'[m] \in {h, None})
  BY <1>2, <1>5, Releases DEF Locks
<1>7. ContextMoves(h, h, a, v, a, TRUE)
  <2>1. act' = [act EXCEPT ![h] = a] /\ a.pc # "none"
    BY <1>2, <1>5
  <2> QED BY <1>1, <1>2, <1>4, <1>5, <1>6, <2>1, Moves
<1>8. HartKept(h, a, v, TRUE)'
  BY <1>2, <1>4, <1>5, <1>6, SMT DEF HartKept, Mine, Printing, Cpus, Locks
<1> QED BY <1>2, <1>5, <1>7, <1>8, PlainStep

\* consoleintr() stores or erases the character.
LEMMA StoreStep ==
    ASSUME IInv, PInv, NEW h \in Harts, Store(h)
    PROVE  IInv'
<1>1. PICK a, u : Before(h, h, a, u, TRUE)
  BY HandlerActs DEF Store
<1>2. a = act[h] /\ Record(a) /\ u \in Cpus /\ HartKept(h, a, u, TRUE) /\ Doing(h) = a /\ InHandler(h) = TRUE
      /\ u = cpu[h] /\ lock \in [Locks -> Harts \cup {None}] /\ h \in Contexts
      /\ st \in [Threads -> {"ready", "run", "dead", "cons", "tx"}] /\ act = [y \in Contexts |-> act[y]] /\ h # None
  BY <1>1 DEF Before
<1>3. PICK v, b : v = pop_off(u) /\ b = [Quiet EXCEPT !.pc = "poll"]
  OBVIOUS
<1>4. v \in Cpus /\ v.noff = u.noff - 1 /\ v.intena = u.intena /\ v.sie = (u.noff = 1 /\ u.intena)
  BY <1>2, <1>3, PushPop
<1>5. Record(b) /\ b.pc = "poll"
  BY <1>3, Resting
<1>6. PICK k \in Erased(a.c) :
        /\ a.pc = "echo" /\ (a.c = "P" => lock["pr"] # h) /\ cons' = Stored(a.c, k)
        /\ st' = (IF cons'.w # cons.w THEN Woken(st, "cons") ELSE st)
        /\ lock' = [lock EXCEPT !["cons"] = None] /\ cpu' = [cpu EXCEPT ![h] = v]
        /\ act' = [act EXCEPT ![h] = b] /\ UNCHANGED <<tx, run, killed, rx, fifo, irq, claim>>
  BY <1>2, <1>3 DEF Store, release, device
<1>7. /\ lock["cons"] = h /\ lock' \in [Locks -> Harts \cup {None}] /\ lock'["cons"] = None
      /\ \A m \in Locks \ {"cons"} : lock'[m] = lock[m]
      /\ \A m \in Locks : lock'[m] = lock[m] \/ (lock[m] \in {h, None} /\ lock'[m] \in {h, None})
  <2>1. lock["cons"] = h
    BY <1>2, <1>6 DEF HartKept, Printing
  <2> QED BY <1>2, <1>6, <2>1, Releases DEF Locks
<1>8. /\ st' \in [Threads -> {"ready", "run", "dead", "cons", "tx"}]
      /\ \A p \in Threads : st'[p] # st[p] => st[p] \in {"cons", "tx"} /\ st'[p] = "ready"
      /\ cons'.w # cons.w => \A p \in Threads : st'[p] # "cons"
      /\ cons'.w = cons.w => st' = st
  BY <1>2, <1>6 DEF Woken
<1>9. ContextMoves(h, h, b, v, b, TRUE)
  <2>1. b.pc # "none"
    BY <1>5
  <2> QED BY <1>1, <1>4, <1>5, <1>6, <1>7, <1>8, <2>1, Moves
<1>10. lock["pr"] # h
  BY <1>2, <1>6 DEF HartKept
<1>11. HartKept(h, b, v, TRUE)'
  BY <1>2, <1>4, <1>5, <1>6, <1>7, <1>10, SMT DEF HartKept, Mine, Printing, Cpus, Locks
<1>12. Attended'
  <2>1. WillPoll(b)
    BY <1>5 DEF WillPoll
  <2>2. Doing(h).pc = "echo"
    BY <1>2, <1>6
  <2> QED BY <1>2, <1>6, <1>9, <1>11, <2>1, <2>2, StillAttended
<1>13. \A p \in Threads : st'[p] = "cons" => cons'.r = cons'.w
  <2>1. cons'.r = cons.r
    <3>1. CASE Stores(a.c)
      BY <1>6, <3>1 DEF Stored, PInv
    <3>2. CASE ~Stores(a.c)
      BY <1>6, <3>2 DEF Stored, PInv
    <3> QED BY <3>1, <3>2
  <2> QED BY <1>8, <2>1 DEF IInv
<1>14. \A p \in Threads : st'[p] = "tx" => TxFull'
  <2>1. \A p \in Threads : st'[p] = "tx" => st[p] = "tx"
    BY <1>8
  <2> QED BY <1>6, <2>1 DEF IInv, TxFull
<1>15. /\ tx' \in [buf : [0..(UART_TX_BUF_SIZE - 1) -> Int], r : Int, w : Int]
       /\ fifo' \in Seq(Int) /\ irq' \in BOOLEAN /\ claim' \in Harts \cup {None}
  BY <1>6 DEF IInv, TypeOK
<1> QED BY <1>6, <1>9, <1>11, <1>12, <1>13, <1>14, <1>15, StepKeeps

\* uartgetc() in the handler.
LEMMA PollStep ==
    ASSUME IInv, NEW h \in Harts, Poll(h)
    PROVE  IInv'
<1>1. PICK a, u : Before(h, h, a, u, TRUE)
  BY HandlerActs DEF Poll
<1>2. a = act[h] /\ Record(a) /\ u \in Cpus /\ HartKept(h, a, u, TRUE) /\ Doing(h) = a /\ InHandler(h) = TRUE
      /\ u = cpu[h] /\ lock \in [Locks -> Harts \cup {None}] /\ h \in Contexts
      /\ st \in [Threads -> {"ready", "run", "dead", "cons", "tx"}] /\ act = [y \in Contexts |-> act[y]] /\ h # None
  BY <1>1 DEF Before
<1>3. PICK v, e, l, w : /\ v = push_off(u) /\ e = (IF rx # <<>> THEN [a EXCEPT !.c = Head(rx)] ELSE a)
                        /\ l = (IF rx # <<>> THEN "cons" ELSE "tx") /\ w = (IF rx # <<>> THEN "key" ELSE "start")
  OBVIOUS
<1>4. v \in Cpus /\ v.noff = u.noff + 1 /\ v.sie = FALSE /\ v.intena = IF u.noff = 0 THEN u.sie ELSE u.intena
  BY <1>2, <1>3, PushPop
<1>5. PICK b : b = [e EXCEPT !.pc = "spin", !.lk = l, !.then = w]
  OBVIOUS
<1>6. Record(b) /\ b.pc = "spin" /\ b.lk = l /\ b.then = w
  <2>1. Record(e)
    BY <1>2, <1>3, OtherFields
  <2> QED BY <1>5, <2>1 DEF Record
<1>7. /\ a.pc = "poll" /\ cpu' = [cpu EXCEPT ![h] = v] /\ act' = [act EXCEPT ![h] = b]
      /\ rx' # <<>> => rx # <<>>
      /\ UNCHANGED <<cons, tx, lock, run, st, killed, fifo, irq, claim>>
  <2>1. CASE rx # <<>>
    BY <1>2, <1>3, <1>5, <2>1 DEF Poll, Spin
  <2>2. CASE rx = <<>>
    BY <1>2, <1>3, <1>5, <2>2 DEF Poll, Spin
  <2> QED BY <2>1, <2>2
<1>8. ContextMoves(h, h, b, v, b, TRUE)
  <2>1. b.pc # "none"
    BY <1>6
  <2> QED BY <1>1, <1>2, <1>4, <1>6, <1>7, <2>1, Moves
<1>9. HartKept(h, b, v, TRUE)'
  BY <1>2, <1>3, <1>4, <1>6, <1>7, SMT DEF HartKept, Mine, Printing, Cpus
<1>10. Attended'
  <2>1. rx' # <<>> => WillPoll(b)
    BY <1>3, <1>6, <1>7 DEF WillPoll
  <2>2. Doing(h).pc = "poll"
    BY <1>2, <1>7
  <2> QED BY <1>2, <1>7, <1>8, <1>9, <2>1, <2>2, StillAttended
<1>11. /\ tx' \in [buf : [0..(UART_TX_BUF_SIZE - 1) -> Int], r : Int, w : Int]
       /\ fifo' \in Seq(Int) /\ irq' \in BOOLEAN /\ claim' \in Harts \cup {None}
       /\ \A p \in Threads : st'[p] = "cons" => cons'.r = cons'.w
       /\ \A p \in Threads : st'[p] = "tx" => TxFull'
  BY <1>7 DEF IInv, TypeOK, TxFull
<1> QED BY <1>7, <1>8, <1>9, <1>10, <1>11, StepKeeps

\* The same of a thread, which runs outside any handler.
LEMMA UserActs ==
    ASSUME IInv, NEW h \in Harts, Running(h) = run[h], run[h] # None
    PROVE  \E a, u : Before(h, run[h], a, u, FALSE)
<1>1. PICK x, a, u, i : Before(h, x, a, u, i)
  BY ThreadActs
<1>2. x = run[h] /\ i = FALSE
  BY <1>1, RunsOn DEF Before
<1> QED BY <1>1, <1>2

\* uartstart() has found a character and the UART idle.
LEMMA StartStep ==
    ASSUME IInv, NEW h \in Harts, Start(h)
    PROVE  IInv'
<1>1. PICK x, a, u, i : Before(h, x, a, u, i)
  BY ThreadActs DEF Start
<1>2. PICK b : b = [a EXCEPT !.pc = "send"]
  OBVIOUS
<1>3. Record(b) /\ b.pc = "send"
  BY <1>1, <1>2, NewPc, SMT DEF Before
<1>4. /\ a.pc = "start" /\ act' = [act EXCEPT ![x] = b]
      /\ UNCHANGED <<cons, tx, lock, cpu, run, st, killed, rx, fifo, irq, claim>>
  BY <1>1, <1>2 DEF Start, device, Before
<1>5. ContextMoves(h, x, b, u, b, i)
  <2>1. /\ st' \in [Threads -> {"ready", "run", "dead", "cons", "tx"}] /\ lock' \in [Locks -> Harts \cup {None}]
        /\ u \in Cpus /\ cpu' = [cpu EXCEPT ![h] = u] /\ b.pc # "none"
    BY <1>1, <1>3, <1>4 DEF Before
  <2> QED BY <1>1, <1>3, <1>4, <2>1, Moves
<1>6. HartKept(h, b, u, i)'
  BY <1>1, <1>3, <1>4 DEF HartKept, Mine, Printing, Cpus, Before
<1>7. i = InHandler(h) /\ ~(x = h /\ WillPoll(act[h]))
  BY <1>1, <1>4 DEF WillPoll, Before
<1> QED BY <1>3, <1>4, <1>5, <1>6, <1>7, PlainStep

\* uartstart() sends it.
LEMMA SendStep ==
    ASSUME IInv, NEW h \in Harts, Send(h)
    PROVE  IInv'
<1>1. PICK x, a, u, i : Before(h, x, a, u, i)
  BY ThreadActs DEF Send
<1>2. PICK b : b = [a EXCEPT !.pc = "start"]
  OBVIOUS
<1>3. Record(b) /\ b.pc = "start"
  BY <1>1, <1>2, NewPc, SMT DEF Before
<1>4. /\ a.pc = "send" /\ act' = [act EXCEPT ![x] = b] /\ st' = Woken(st, "tx")
      /\ tx' = [tx EXCEPT !.r = @ + 1] /\ fifo' = Append(fifo, tx.buf[tx.r % UART_TX_BUF_SIZE])
      /\ UNCHANGED <<cons, lock, cpu, run, killed, rx, irq, claim>>
  BY <1>1, <1>2 DEF Send, Before
<1>5. /\ st' \in [Threads -> {"ready", "run", "dead", "cons", "tx"}]
      /\ \A p \in Threads : st'[p] # st[p] => st[p] \in {"cons", "tx"} /\ st'[p] = "ready"
      /\ \A p \in Threads : st'[p] # "tx"
  BY <1>1, <1>4 DEF Woken, Before
<1>6. ContextMoves(h, x, b, u, b, i)
  <2>1. /\ lock' \in [Locks -> Harts \cup {None}]
        /\ u \in Cpus /\ cpu' = [cpu EXCEPT ![h] = u] /\ b.pc # "none"
    BY <1>1, <1>3, <1>4 DEF Before
  <2> QED BY <1>1, <1>3, <1>4, <1>5, <2>1, Moves
<1>7. HartKept(h, b, u, i)'
  BY <1>1, <1>3, <1>4 DEF HartKept, Mine, Printing, Cpus, Before
<1>8. /\ tx' \in [buf : [0..(UART_TX_BUF_SIZE - 1) -> Int], r : Int, w : Int]
      /\ fifo' \in Seq(Int) /\ fifo' # <<>>
  <2>1. tx \in [buf : [0..(UART_TX_BUF_SIZE - 1) -> Int], r : Int, w : Int] /\ fifo \in Seq(Int)
    BY DEF IInv, TypeOK
  <2>2. UART_TX_BUF_SIZE \in Nat \ {0}
    BY ConsoleAssumption DEF ConsoleAssumption
  <2>3. tx.buf[tx.r % UART_TX_BUF_SIZE] \in Int
    BY <2>1, <2>2, SMT
  <2>4. fifo' \in Seq(Int) /\ fifo' # <<>>
    BY <1>4, <2>1, <2>3, SMT
  <2>5. tx' = [buf |-> tx.buf, r |-> tx.r + 1, w |-> tx.w]
    BY <1>4, <2>1
  <2> QED BY <2>1, <2>4, <2>5, SMT
<1>9. Attended'
  <2>1. i = InHandler(h) /\ ~(x = h /\ WillPoll(act[h]))
    BY <1>1, <1>4 DEF WillPoll, Before
  <2> QED BY <1>3, <1>4, <1>6, <1>7, <1>8, <2>1, StillAttended
<1>10. /\ irq' \in BOOLEAN /\ claim' \in Harts \cup {None}
       /\ \A p \in Threads : st'[p] = "cons" => cons'.r = cons'.w
  <2>1. \A p \in Threads : st'[p] = "cons" => st[p] = "cons"
    BY <1>5
  <2> QED BY <1>4, <2>1 DEF IInv, TypeOK
<1> QED BY <1>4, <1>5, <1>6, <1>7, <1>8, <1>9, <1>10, StepKeeps

\* uartputc() has room for the character.
LEMMA PutRoomStep ==
    ASSUME IInv, NEW h \in Harts, Put(h), ~TxFull
    PROVE  IInv'
<1>1. PICK a, u : Before(h, run[h], a, u, FALSE)
  BY UserActs DEF Put
<1>2. PICK b, x : b = [a EXCEPT !.pc = "start"] /\ x = run[h]
  OBVIOUS
<1>3. Record(b) /\ b.pc = "start"
  BY <1>1, <1>2, NewPc, SMT DEF Before
<1>4. /\ a.pc = "put" /\ act' = [act EXCEPT ![x] = b]
      /\ tx' = [tx EXCEPT !.buf[tx.w % UART_TX_BUF_SIZE] = tx.w, !.w = @ + 1]
      /\ UNCHANGED <<cons, lock, st, cpu, run, killed, rx, fifo, irq, claim>>
  BY <1>1, <1>2 DEF Put, Before, device
<1>5. Before(h, x, a, u, FALSE) /\ x # h
  <2>1. x # h
    BY <1>1, <1>2, RunsOn DEF Before
  <2> QED BY <1>1, <1>2, <2>1
<1>6. ContextMoves(h, x, b, u, b, FALSE)
  <2>1. /\ st' \in [Threads -> {"ready", "run", "dead", "cons", "tx"}] /\ lock' \in [Locks -> Harts \cup {None}]
        /\ u \in Cpus /\ cpu' = [cpu EXCEPT ![h] = u] /\ b.pc # "none"
    BY <1>1, <1>3, <1>4 DEF Before
  <2> QED BY <1>3, <1>4, <1>5, <2>1, Moves
<1>7. HartKept(h, b, u, FALSE)'
  BY <1>5, <1>3, <1>4 DEF HartKept, Mine, Printing, Cpus, Before
<1>8. tx' \in [buf : [0..(UART_TX_BUF_SIZE - 1) -> Int], r : Int, w : Int]
  <2>1. tx \in [buf : [0..(UART_TX_BUF_SIZE - 1) -> Int], r : Int, w : Int]
    BY DEF IInv, TypeOK
  <2>2. UART_TX_BUF_SIZE \in Nat \ {0}
    BY ConsoleAssumption DEF ConsoleAssumption
  <2>3. tx.w % UART_TX_BUF_SIZE \in 0..(UART_TX_BUF_SIZE - 1)
    BY <2>1, <2>2, SMT
  <2>4. PICK f : f = [tx.buf EXCEPT ![tx.w % UART_TX_BUF_SIZE] = tx.w]
    OBVIOUS
  <2>5. f \in [0..(UART_TX_BUF_SIZE - 1) -> Int]
    BY <2>1, <2>3, <2>4
  <2>6. tx' = [buf |-> f, r |-> tx.r, w |-> tx.w + 1]
    BY <1>4, <2>1, <2>4
  <2> QED BY <2>1, <2>5, <2>6, SMT
<1>9. Attended'
  <2>1. FALSE = InHandler(h)
    BY <1>5 DEF Before
  <2> QED BY <1>3, <1>4, <1>5, <1>6, <1>7, <2>1, StillAttended
<1>10. /\ irq' \in BOOLEAN /\ claim' \in Harts \cup {None} /\ fifo' \in Seq(Int)
       /\ \A p \in Threads : st'[p] = "cons" => cons'.r = cons'.w
       /\ \A p \in Threads : st'[p] # "tx"
  BY <1>4 DEF IInv, TypeOK
<1> QED BY <1>4, <1>6, <1>7, <1>8, <1>9, <1>10, StepKeeps

\* uartputc() returns from uartstart().
LEMMA StartedThreadStep ==
    ASSUME IInv, NEW h \in Harts, Started(h), Running(h) # h
    PROVE  IInv'
<1>1. PICK x, a, u, i : Before(h, x, a, u, i)
  BY ThreadActs DEF Started
<1>2. x # h /\ i = FALSE
  BY <1>1 DEF Before
<1>3. PICK b, v : b = [a EXCEPT !.pc = "write", !.n = a.n - 1] /\ v = pop_off(u)
  OBVIOUS
<1>4. Record(b) /\ b.pc = "write"
  <2>1. Record(a)
    BY <1>1 DEF Before
  <2>2. PICK n : n = a.n - 1
    OBVIOUS
  <2> QED BY <1>3, <2>1, <2>2 DEF Record
<1>5. v \in Cpus /\ v.noff = u.noff - 1 /\ v.intena = u.intena /\ v.sie = (u.noff = 1 /\ u.intena)
  BY <1>1, <1>3, PushPop DEF Before
<1>6. /\ a.pc = "start" /\ (tx.w = tx.r \/ fifo # <<>>) /\ lock' = [lock EXCEPT !["tx"] = None]
      /\ cpu' = [cpu EXCEPT ![h] = v]
      /\ act' = [act EXCEPT ![x].pc = "write", ![x].n = act[x].n - 1]
      /\ UNCHANGED <<cons, tx, run, st, killed, rx, fifo, irq, claim>>
  <2>1. x = Running(h) /\ a = act[x] /\ u = cpu[h]
    BY <1>1 DEF Before
  <2>2. act' = [act EXCEPT ![x].pc = "write", ![x].n = @ - 1]
    BY <1>2, <2>1 DEF Started
  <2>3. [act EXCEPT ![x].pc = "write", ![x].n = @ - 1] = [act EXCEPT ![x].pc = "write", ![x].n = act[x].n - 1]
    <3>1. PICK e : e = [a EXCEPT !.pc = "write"]
      OBVIOUS
    <3>2. e.n = a.n
      BY <1>1, <3>1, NewPc, SMT DEF Before
    <3>3. [act EXCEPT ![x] = e][x] = e
      BY <1>1 DEF Before
    <3> QED BY <2>1, <3>1, <3>2, <3>3
  <2> QED BY <1>2, <1>3, <2>1, <2>2, <2>3 DEF Started
<1>7. act' = [act EXCEPT ![x] = b]
  BY <1>1, <1>3, <1>6, TwoFields DEF Before
<1>8. /\ lock["tx"] = h /\ lock' \in [Locks -> Harts \cup {None}] /\ lock'["tx"] = None
      /\ \A m \in Locks \ {"tx"} : lock'[m] = lock[m]
      /\ \A m \in Locks : lock'[m] = lock[m] \/ (lock[m] \in {h, None} /\ lock'[m] \in {h, None})
  <2>1. lock["tx"] = h /\ lock \in [Locks -> Harts \cup {None}]
    BY <1>1, <1>6 DEF HartKept, Before
  <2> QED BY <1>6, <2>1, Releases DEF Locks
<1>9. ContextMoves(h, x, b, v, b, i)
  <2>1. st' \in [Threads -> {"ready", "run", "dead", "cons", "tx"}] /\ b.pc # "none"
    BY <1>1, <1>4, <1>6 DEF Before
  <2> QED BY <1>1, <1>4, <1>5, <1>6, <1>7, <1>8, <2>1, Moves
<1>10. HartKept(h, b, v, i)'
  <2>1. HartKept(h, a, u, i) /\ u \in Cpus /\ h # None
    BY <1>1 DEF Before
  <2> QED BY <1>2, <1>4, <1>5, <1>6, <1>8, <2>1, SMT DEF HartKept, Mine, Printing, Cpus, Locks
<1>11. Attended'
  <2>1. i = InHandler(h)
    BY <1>1 DEF Before
  <2> QED BY <1>2, <1>6, <1>9, <1>10, <2>1, StillAttended
<1>12. /\ tx' \in [buf : [0..(UART_TX_BUF_SIZE - 1) -> Int], r : Int, w : Int]
       /\ irq' \in BOOLEAN /\ claim' \in Harts \cup {None} /\ fifo' \in Seq(Int)
       /\ \A p \in Threads : st'[p] = "cons" => cons'.r = cons'.w
       /\ \A p \in Threads : st'[p] = "tx" => TxFull'
  BY <1>6 DEF IInv, TypeOK, TxFull
<1> QED BY <1>6, <1>9, <1>10, <1>11, <1>12, StepKeeps

\* uartintr() returns: what it had interrupted goes on, with interrupts.
LEMMA StartedHandlerStep ==
    ASSUME IInv, NEW h \in Harts, Started(h), Running(h) = h
    PROVE  IInv'
<1>1. PICK x, a, u, i : Before(h, x, a, u, i)
  BY ThreadActs DEF Started
<1>2. x = h /\ i = TRUE /\ h # None /\ a = act[h] /\ HartKept(h, a, u, TRUE) /\ u \in Cpus /\ InHandler(h)
      /\ u = cpu[h] /\ lock \in [Locks -> Harts \cup {None}] /\ cpu \in [Harts -> Cpus]
      /\ st \in [Threads -> {"ready", "run", "dead", "cons", "tx"}]
  BY <1>1 DEF Before
<1>3. PICK v : v = [pop_off(u) EXCEPT !.sie = TRUE]
  OBVIOUS
<1>4. v \in Cpus /\ v.noff = u.noff - 1 /\ v.sie = TRUE
  <2>1. PICK w : w = pop_off(u)
    OBVIOUS
  <2>2. w \in Cpus /\ w.noff = u.noff - 1
    BY <1>2, <2>1, PushPop
  <2> QED BY <1>3, <2>1, <2>2 DEF Cpus
<1>5. /\ a.pc = "start" /\ (tx.w = tx.r \/ fifo # <<>>) /\ lock' = [lock EXCEPT !["tx"] = None]
      /\ cpu' = [cpu EXCEPT ![h] = v] /\ act' = [act EXCEPT ![h] = Quiet] /\ claim' = None
      /\ UNCHANGED <<cons, tx, run, st, killed, rx, fifo, irq>>
  BY <1>2, <1>3 DEF Started
<1>6. /\ lock["tx"] = h /\ lock' \in [Locks -> Harts \cup {None}] /\ lock'["tx"] = None
      /\ \A m \in Locks \ {"tx"} : lock'[m] = lock[m]
      /\ \A m \in Locks : lock'[m] = lock[m] \/ (lock[m] \in {h, None} /\ lock'[m] \in {h, None})
  <2>1. lock["tx"] = h
    BY <1>2, <1>5 DEF HartKept
  <2> QED BY <1>2, <1>5, <2>1, Releases DEF Locks
<1>7. PICK d : d = IF run[h] = None THEN Quiet ELSE act[run[h]]
  OBVIOUS
<1>8. d.pc \in {"none", "user", "write"}
  <2>1. run[h] # None => act[run[h]].pc \in {"user", "write"}
    BY <1>2 DEF IInv, Placed
  <2> QED BY <1>7, <2>1, Resting
<1>9. ContextMoves(h, h, Quiet, v, d, FALSE)
  <2>1. Record(Quiet) /\ Quiet.pc = "none"
    BY Resting
  <2> QED BY <1>2, <1>4, <1>5, <1>6, <1>7, <2>1 DEF ContextMoves
<1>10. HartKept(h, d, v, FALSE)'
  BY <1>2, <1>4, <1>5, <1>6, <1>8, SMT DEF HartKept, Mine, Printing, Cpus, Locks
<1>11. InHandler(h)' = FALSE /\ \A g \in Harts \ {h} : InHandler(g)' = InHandler(g)
  BY <1>9, <1>10, ContextStep
<1>12. Attended'
  <2>1. claim = h /\ Attended
    BY <1>2 DEF IInv, Attended
  <2>2. \A g \in Harts : claim' = g <=> InHandler(g)'
    <3>1. \A g \in Harts : ~InHandler(g)'
      BY <1>11, <2>1 DEF Attended
    <3> QED BY <1>5, <3>1, ContextsApart
  <2>3. rx # <<>> => irq
    <3>1. ~WillPoll(act[claim])
      BY <1>2, <1>5, <2>1 DEF WillPoll
    <3> QED BY <2>1, <3>1 DEF Attended
  <2> QED BY <1>5, <2>2, <2>3 DEF Attended
<1>13. /\ tx' \in [buf : [0..(UART_TX_BUF_SIZE - 1) -> Int], r : Int, w : Int]
       /\ irq' \in BOOLEAN /\ claim' \in Harts \cup {None} /\ fifo' \in Seq(Int)
       /\ \A p \in Threads : st'[p] = "cons" => cons'.r = cons'.w
       /\ \A p \in Threads : st'[p] = "tx" => TxFull'
  BY <1>5 DEF IInv, TypeOK, TxFull
<1> QED BY <1>5, <1>9, <1>10, <1>12, <1>13, StepKeeps

\* A step of a thread at user level or in the kernel, outside uartstart().
LEMMA ThreadStep ==
    ASSUME IInv, NEW h \in Harts, NEW a, NEW u, Before(h, run[h], a, u, FALSE), NEW b, NEW v,
           Record(b), b.pc # "none", act' = [act EXCEPT ![run[h]] = b], v \in Cpus, cpu' = [cpu EXCEPT ![h] = v],
           UNCHANGED <<run, st, rx, fifo, irq, claim, tx, killed>>,
           lock' \in [Locks -> Harts \cup {None}],
           \A l \in Locks : lock'[l] = lock[l] \/ (lock[l] \in {h, None} /\ lock'[l] \in {h, None}),
           cons' = cons \/ lock["cons"] = h, HartKept(h, b, v, FALSE)', a.pc \notin {"start", "send"},
           \A p \in Threads : st[p] = "cons" => cons'.r = cons'.w
    PROVE  IInv'
<1>1. PICK x : x = run[h]
  OBVIOUS
<1>2. Before(h, x, a, u, FALSE)
  BY <1>1
<1>3. x # h /\ InHandler(h) = FALSE /\ Doing(h) = a /\ st \in [Threads -> {"ready", "run", "dead", "cons", "tx"}]
  BY <1>2 DEF Before
<1>4. ContextMoves(h, x, b, v, b, FALSE)
  BY <1>1, <1>2, <1>3, Moves
<1>5. Attended'
  BY <1>3, <1>4, StillAttended
<1>6. /\ tx' \in [buf : [0..(UART_TX_BUF_SIZE - 1) -> Int], r : Int, w : Int]
      /\ irq' \in BOOLEAN /\ claim' \in Harts \cup {None} /\ fifo' \in Seq(Int)
      /\ \A p \in Threads : st'[p] = "tx" => TxFull'
  BY DEF IInv, TypeOK, TxFull
<1> QED BY <1>4, <1>5, <1>6, StepKeeps

\* consolewrite() calls uartputc().
LEMMA WriteStep ==
    ASSUME IInv, NEW h \in Harts, Write(h)
    PROVE  IInv'
<1>1. PICK a, u : Before(h, run[h], a, u, FALSE)
  BY UserActs DEF Write
<1>2. a = act[run[h]] /\ Record(a) /\ u \in Cpus /\ HartKept(h, a, u, FALSE) /\ u = cpu[h]
      /\ lock \in [Locks -> Harts \cup {None}]
  BY <1>1 DEF Before
<1>3. PICK b, v : b = [a EXCEPT !.pc = "spin", !.lk = "tx", !.then = "put"] /\ v = push_off(u)
  OBVIOUS
<1>4. Record(b) /\ b.pc = "spin" /\ b.lk = "tx" /\ b.then = "put"
  BY <1>2, <1>3 DEF Record
<1>5. v \in Cpus /\ v.noff = u.noff + 1 /\ v.sie = FALSE /\ v.intena = IF u.noff = 0 THEN u.sie ELSE u.intena
  BY <1>2, <1>3, PushPop
<1>6. /\ a.pc = "write" /\ act' = [act EXCEPT ![run[h]] = b] /\ cpu' = [cpu EXCEPT ![h] = v]
      /\ UNCHANGED <<cons, tx, lock, run, st, killed, rx, fifo, irq, claim>>
  BY <1>2, <1>3 DEF Write, Spin, device
<1>7. HartKept(h, b, v, FALSE)'
  BY <1>2, <1>4, <1>5, <1>6, SMT DEF HartKept, Mine, Printing, Cpus
<1>8. \A p \in Threads : st[p] = "cons" => cons'.r = cons'.w
  BY <1>6 DEF IInv
<1>9. b.pc # "none" /\ a.pc \notin {"start", "send"}
  BY <1>4, <1>6
<1> QED BY <1>1, <1>2, <1>4, <1>5, <1>6, <1>7, <1>8, <1>9, ThreadStep

\* usertrap() reports a fault.
LEMMA ReportStep ==
    ASSUME IInv, NEW h \in Harts, Report(h)
    PROVE  IInv'
<1>1. PICK a, u : Before(h, run[h], a, u, FALSE)
  BY UserActs DEF Report
<1>2. a = act[run[h]] /\ Record(a) /\ u \in Cpus /\ HartKept(h, a, u, FALSE) /\ u = cpu[h]
      /\ lock \in [Locks -> Harts \cup {None}]
  BY <1>1 DEF Before
<1>3. PICK n, e, v : n = a.n - 1 /\ e = [a EXCEPT !.echo = <<"trap">>, !.n = n] /\ v = push_off(u)
  OBVIOUS
<1>4. PICK b : b = [e EXCEPT !.pc = "spin", !.lk = "pr", !.then = "echo"]
  OBVIOUS
<1>5. Record(b) /\ b.pc = "spin" /\ b.lk = "pr" /\ b.then = "echo"
  <2>1. Record(e)
    BY <1>2, <1>3 DEF Record
  <2> QED BY <1>4, <2>1 DEF Record
<1>6. v \in Cpus /\ v.noff = u.noff + 1 /\ v.sie = FALSE /\ v.intena = IF u.noff = 0 THEN u.sie ELSE u.intena
  BY <1>2, <1>3, PushPop
<1>7. /\ a.pc = "trap" /\ act' = [act EXCEPT ![run[h]] = b] /\ cpu' = [cpu EXCEPT ![h] = v]
      /\ UNCHANGED <<cons, tx, lock, run, st, killed, rx, fifo, irq, claim>>
  <2>1. act' = [act EXCEPT ![run[h]] = Spin(e, "pr", "echo")]
    BY <1>2, <1>3 DEF Report
  <2>2. act' = [act EXCEPT ![run[h]] = b]
    BY <1>4, <2>1 DEF Spin
  <2> QED BY <1>2, <1>3, <2>2 DEF Report, device
<1>8. HartKept(h, b, v, FALSE)'
  BY <1>2, <1>5, <1>6, <1>7, SMT DEF HartKept, Mine, Printing, Cpus
<1>9. \A p \in Threads : st[p] = "cons" => cons'.r = cons'.w
  BY <1>7 DEF IInv
<1>10. b.pc # "none" /\ a.pc \notin {"start", "send"}
  BY <1>5, <1>7
<1> QED BY <1>1, <1>2, <1>5, <1>6, <1>7, <1>8, <1>9, <1>10, ThreadStep

\* The message is printed.
LEMMA ReportedStep ==
    ASSUME IInv, NEW h \in Harts, Reported(h)
    PROVE  IInv'
<1>1. PICK a, u : Before(h, run[h], a, u, FALSE)
  BY UserActs DEF Reported
<1>2. a = act[run[h]] /\ Record(a) /\ u \in Cpus /\ HartKept(h, a, u, FALSE) /\ u = cpu[h] /\ h # None
      /\ lock \in [Locks -> Harts \cup {None}]
  BY <1>1 DEF Before
<1>3. PICK b, v : b = [a EXCEPT !.pc = "trap"] /\ v = pop_off(u)
  OBVIOUS
<1>4. Record(b) /\ b.pc = "trap"
  BY <1>2, <1>3, NewPc, SMT
<1>5. v \in Cpus /\ v.noff = u.noff - 1 /\ v.intena = u.intena /\ v.sie = (u.noff = 1 /\ u.intena)
  BY <1>2, <1>3, PushPop
<1>6. /\ a.pc = "echo" /\ act' = [act EXCEPT ![run[h]] = b] /\ cpu' = [cpu EXCEPT ![h] = v]
      /\ lock' = [lock EXCEPT !["pr"] = None]
      /\ UNCHANGED <<cons, tx, run, st, killed, rx, fifo, irq, claim>>
  BY <1>2, <1>3 DEF Reported, release, device
<1>7. /\ lock["pr"] = h /\ lock' \in [Locks -> Harts \cup {None}] /\ lock'["pr"] = None
      /\ \A m \in Locks \ {"pr"} : lock'[m] = lock[m]
      /\ \A m \in Locks : lock'[m] = lock[m] \/ (lock[m] \in {h, None} /\ lock'[m] \in {h, None})
  <2>1. lock["pr"] = h
    BY <1>2, <1>6 DEF HartKept
  <2> QED BY <1>2, <1>6, <2>1, Releases DEF Locks
<1>8. HartKept(h, b, v, FALSE)'
  BY <1>2, <1>4, <1>5, <1>6, <1>7, SMT DEF HartKept, Mine, Printing, Cpus, Locks
<1>9. \A p \in Threads : st[p] = "cons" => cons'.r = cons'.w
  BY <1>6 DEF IInv
<1>10. b.pc # "none" /\ a.pc \notin {"start", "send"}
  BY <1>4, <1>6
<1> QED BY <1>1, <1>4, <1>5, <1>6, <1>7, <1>8, <1>9, <1>10, ThreadStep

\* consoleread() finds nothing to read.
LEMMA ReadTestStep ==
    ASSUME IInv, NEW h \in Harts, ReadTest(h)
    PROVE  IInv'
<1>1. PICK a, u : Before(h, run[h], a, u, FALSE)
  BY UserActs DEF ReadTest
<1>2. a = act[run[h]] /\ Record(a) /\ u \in Cpus /\ HartKept(h, a, u, FALSE) /\ u = cpu[h]
      /\ lock \in [Locks -> Harts \cup {None}] /\ cpu = [cpu EXCEPT ![h] = u]
  BY <1>1 DEF Before
<1>3. PICK b : b = [a EXCEPT !.pc = "wait"]
  OBVIOUS
<1>4. Record(b) /\ b.pc = "wait"
  BY <1>2, <1>3, NewPc, SMT
<1>5. /\ a.pc = "read" /\ act' = [act EXCEPT ![run[h]] = b] /\ cons.r = cons.w
      /\ UNCHANGED <<cons, tx, lock, cpu, run, st, killed, rx, fifo, irq, claim>>
  BY <1>2, <1>3 DEF ReadTest, device
<1>6. HartKept(h, b, u, FALSE)'
  BY <1>2, <1>4, <1>5 DEF HartKept, Mine, Printing, Cpus
<1>7. \A p \in Threads : st[p] = "cons" => cons'.r = cons'.w
  BY <1>5 DEF IInv
<1>8. b.pc # "none" /\ a.pc \notin {"start", "send"}
  BY <1>4, <1>5
<1> QED BY <1>1, <1>2, <1>4, <1>5, <1>6, <1>7, <1>8, ThreadStep

\* write() returns to user space.
LEMMA WrittenStep ==
    ASSUME IInv, NEW h \in Harts, Written(h), ~killed[run[h]]
    PROVE  IInv'
<1>1. PICK a, u : Before(h, run[h], a, u, FALSE)
  BY UserActs DEF Written
<1>2. a = act[run[h]] /\ u \in Cpus /\ HartKept(h, a, u, FALSE) /\ u = cpu[h]
      /\ lock \in [Locks -> Harts \cup {None}]
  BY <1>1 DEF Before
<1>3. PICK b : b = AtUser
  OBVIOUS
<1>4. Record(b) /\ b.pc = "user"
  BY <1>3, Resting
<1>5. /\ a.pc = "write" /\ act' = [act EXCEPT ![run[h]] = b] /\ cpu' = [cpu EXCEPT ![h] = u]
      /\ UNCHANGED <<cons, tx, lock, run, st, killed, rx, fifo, irq, claim>>
  BY <1>2, <1>3 DEF Written, Leave, device
<1>6. HartKept(h, b, u, FALSE)'
  BY <1>2, <1>4, <1>5 DEF HartKept, Mine, Printing, Cpus
<1>7. \A p \in Threads : st[p] = "cons" => cons'.r = cons'.w
  BY <1>5 DEF IInv
<1>8. b.pc # "none" /\ a.pc \notin {"start", "send"}
  BY <1>4, <1>5
<1> QED BY <1>1, <1>2, <1>4, <1>5, <1>6, <1>7, <1>8, ThreadStep

\* consoleread() takes a character and goes on.
LEMMA ReadMoreStep ==
    ASSUME IInv, NEW h \in Harts, ReadMore(h)
    PROVE  IInv'
<1>1. PICK a, u : Before(h, run[h], a, u, FALSE)
  BY UserActs DEF ReadMore
<1>2. a = act[run[h]] /\ Record(a) /\ u \in Cpus /\ HartKept(h, a, u, FALSE) /\ u = cpu[h]
      /\ lock \in [Locks -> Harts \cup {None}] /\ cpu = [cpu EXCEPT ![h] = u]
  BY <1>1 DEF Before
<1>3. PICK n, b : n = a.n - 1 /\ b = [a EXCEPT !.n = n]
  OBVIOUS
<1>4. Record(b) /\ b.pc = a.pc
  BY <1>2, <1>3 DEF Record
<1>5. /\ a.pc = "read" /\ act' = [act EXCEPT ![run[h]] = b] /\ cons.r # cons.w
      /\ UNCHANGED <<tx, lock, cpu, run, st, killed, rx, fifo, irq, claim>>
  BY <1>2, <1>3 DEF ReadMore, device
<1>6. HartKept(h, b, u, FALSE)'
  BY <1>2, <1>4, <1>5 DEF HartKept, Mine, Printing, Cpus
<1>7. (\A p \in Threads : st[p] # "cons") /\ lock["cons"] = h
  BY <1>2, <1>5 DEF IInv, HartKept
<1>8. b.pc # "none" /\ a.pc \notin {"start", "send"}
  BY <1>4, <1>5
<1> QED BY <1>1, <1>2, <1>4, <1>5, <1>6, <1>7, <1>8, ThreadStep

\* read() returns to user space.
LEMMA ReadDoneStep ==
    ASSUME IInv, NEW h \in Harts, ReadDone(h), ~killed[run[h]]
    PROVE  IInv'
<1>1. PICK a, u : Before(h, run[h], a, u, FALSE)
  BY UserActs DEF ReadDone
<1>2. a = act[run[h]] /\ u \in Cpus /\ HartKept(h, a, u, FALSE) /\ u = cpu[h] /\ h # None
      /\ lock \in [Locks -> Harts \cup {None}]
  BY <1>1 DEF Before
<1>3. PICK b, v : b = AtUser /\ v = pop_off(u)
  OBVIOUS
<1>4. Record(b) /\ b.pc = "user"
  BY <1>3, Resting
<1>5. v \in Cpus /\ v.noff = u.noff - 1 /\ v.intena = u.intena /\ v.sie = (u.noff = 1 /\ u.intena)
  BY <1>2, <1>3, PushPop
<1>6. /\ a.pc = "read" /\ act' = [act EXCEPT ![run[h]] = b] /\ cpu' = [cpu EXCEPT ![h] = v]
      /\ lock' = [lock EXCEPT !["cons"] = None]
      /\ cons' = cons \/ cons.r # cons.w
      /\ UNCHANGED <<tx, run, st, killed, rx, fifo, irq, claim>>
  BY <1>2, <1>3 DEF ReadDone, Leave, device, Consumed
<1>7. /\ lock["cons"] = h /\ lock' \in [Locks -> Harts \cup {None}] /\ lock'["cons"] = None
      /\ \A m \in Locks \ {"cons"} : lock'[m] = lock[m]
      /\ \A m \in Locks : lock'[m] = lock[m] \/ (lock[m] \in {h, None} /\ lock'[m] \in {h, None})
  <2>1. lock["cons"] = h
    BY <1>2, <1>6 DEF HartKept
  <2> QED BY <1>2, <1>6, <2>1, Releases DEF Locks
<1>8. HartKept(h, b, v, FALSE)'
  BY <1>2, <1>4, <1>5, <1>6, <1>7, SMT DEF HartKept, Mine, Printing, Cpus, Locks
<1>9. \A p \in Threads : st[p] = "cons" => cons'.r = cons'.w
  BY <1>6 DEF IInv
<1>10. b.pc # "none" /\ a.pc \notin {"start", "send"}
  BY <1>4, <1>6
<1> QED BY <1>1, <1>4, <1>5, <1>6, <1>7, <1>8, <1>9, <1>10, ThreadStep

\* What the parts come to when the thread of h changes.
LEMMA HandOver ==
    ASSUME IInv, NEW h \in Harts, NEW r, NEW u \in Cpus, ~InHandler(h), r \in Threads \cup {None},
           run' = [run EXCEPT ![h] = r], cpu' = [cpu EXCEPT ![h] = u],
           act' = [y \in Contexts |-> act'[y]], \A y \in Contexts : Record(act'[y]),
           \A y \in Contexts \ {run[h]} : act'[y] = act[y],
           lock' \in [Locks -> Harts \cup {None}],
           \A l \in Locks : lock'[l] = lock[l] \/ (lock[l] \in {h, None} /\ lock'[l] \in {h, None}),
           st' \in [Threads -> {"ready", "run", "dead", "cons", "tx"}], killed' \in [Threads -> BOOLEAN],
           \A q \in Threads : q # run[h] /\ q # r => st'[q] = st[q],
           r # None => st[r] = "ready" /\ st'[r] = "run" /\ run[h] = None,
           run[h] # None => /\ st'[run[h]] # "run"
                            /\ st'[run[h]] # "dead" => /\ act'[run[h]].pc = "spin"
                                 /\ <<act'[run[h]].lk, act'[run[h]].then>> \in {<<"cons", "read">>, <<"tx", "put">>},
           NEW a, a = (IF r = None THEN Quiet ELSE act'[r]), HartKept(h, a, u, FALSE)',
           UNCHANGED <<rx, fifo, irq, claim, tx>>, Doing(h).pc \notin {"start", "send"},
           cons' = cons \/ lock["cons"] = h, \A q \in Threads : st'[q] = "cons" => cons'.r = cons'.w,
           \A q \in Threads : st'[q] = "tx" => TxFull
    PROVE  IInv'
<1>1. /\ run \in [Harts -> Threads \cup {None}] /\ cpu \in [Harts -> Cpus] /\ Placed /\ Attended
      /\ tx \in [buf : [0..(UART_TX_BUF_SIZE - 1) -> Int], r : Int, w : Int]
      /\ fifo \in Seq(Int) /\ irq \in BOOLEAN /\ claim \in Harts \cup {None}
  BY DEF IInv, TypeOK, Cpus
<1>2. run' \in [Harts -> Threads \cup {None}] /\ cpu' \in [Harts -> Cpus] /\ run'[h] = r /\ cpu'[h] = u
      /\ \A g \in Harts \ {h} : run'[g] = run[g] /\ cpu'[g] = cpu[g]
  BY <1>1
<1>3. TypeOK'
  BY <1>1, <1>2 DEF TypeOK, Contexts, Cpus, Record
<1>4. \A g \in Harts \ {h} : /\ Doing(g)' = Doing(g) /\ InHandler(g)' = InHandler(g)
                             /\ HartKept(g, Doing(g), cpu[g], InHandler(g))'
                             /\ act'[g] = act[g] /\ (run[g] # None => act'[run[g]] = act[run[g]])
  BY <1>2, OtherHarts, SMT
<1>5. act'[h] = act[h] /\ InHandler(h)' = FALSE
  <2>1. h \in Contexts \ {run[h]}
    BY RunsOn
  <2>2. act'[h] = act[h]
    BY <2>1
  <2> QED BY <2>2 DEF InHandler
<1>6. Doing(h)' = a
  <2>1. Running(h)' = r
    BY <1>2, <1>5 DEF Running, InHandler
  <2> QED BY <2>1 DEF Doing, Quiet
<1>7. HartKept(h, Doing(h), cpu[h], InHandler(h))'
  BY <1>2, <1>5, <1>6 DEF HartKept
<1>8. Placed'
  <2>1. ASSUME NEW g \in Harts, run'[g] # None
        PROVE  /\ st'[run'[g]] = "run" /\ act'[run'[g]].pc # "none"
               /\ InHandler(g)' => act'[run'[g]].pc \in {"user", "write"}
    <3>1. CASE g = h
      <4>1. r # None /\ r \in Threads /\ st[r] = "ready" /\ st'[r] = "run" /\ run[h] = None
        BY <1>2, <2>1, <3>1
      <4>2. act[r].pc \in {"user", "spin"}
        BY <1>1, <4>1 DEF Placed
      <4>3. act'[r] = act[r]
        BY <4>1, ContextsApart DEF Contexts
      <4> QED BY <1>2, <1>5, <3>1, <4>1, <4>2, <4>3
    <3>2. CASE g # h
      <4>1. run'[g] = run[g] /\ run[g] \in Threads /\ st[run[g]] = "run" /\ act[run[g]].pc # "none"
        BY <1>1, <1>2, <2>1, <3>2 DEF Placed
      <4>2. run[g] # run[h] /\ run[g] # r
        <5>1. run[g] # run[h]
          BY <1>1, <3>2, <4>1, ContextsApart, SMTT(30) DEF Placed
        <5>2. run[g] # r
          BY <4>1, ContextsApart
        <5> QED BY <5>1, <5>2
      <4>3. st'[run[g]] = "run"
        BY <4>1, <4>2
      <4>4. InHandler(g) => act[run[g]].pc \in {"user", "write"}
        BY <1>1, <2>1, <4>1 DEF Placed
      <4> QED BY <1>4, <2>1, <3>2, <4>1, <4>3, <4>4, SMT
    <3> QED BY <3>1, <3>2
  <2>2. ASSUME NEW g \in Harts, NEW k \in Harts, run'[g] = run'[k], run'[g] # None
        PROVE  g = k
    <3>1. ASSUME NEW e \in Harts, e # h, r # None PROVE run[e] # r
      BY <1>1, <3>1, ContextsApart DEF Placed
    <3>2. CASE g # h /\ k # h
      BY <1>1, <1>2, <2>2, <3>2, SMT DEF Placed
    <3>3. CASE g = h /\ k # h
      BY <1>2, <2>2, <3>1, <3>3
    <3>4. CASE g # h /\ k = h
      BY <1>2, <2>2, <3>1, <3>4
    <3> QED BY <3>2, <3>3, <3>4
  <2>3. ASSUME NEW q \in Threads, st'[q] \notin {"run", "dead"}
        PROVE  /\ act'[q].pc \in {"user", "spin"}
               /\ act'[q].pc = "spin" => <<act'[q].lk, act'[q].then>> \in {<<"cons", "read">>, <<"tx", "put">>}
    <3>1. CASE q = run[h]
      BY <2>3, <3>1, ContextsApart
    <3>2. CASE q # run[h]
      <4>1. q # r
        BY <2>3, ContextsApart
      <4>2. st'[q] = st[q] /\ act'[q] = act[q]
        BY <3>2, <4>1 DEF Contexts
      <4> QED BY <1>1, <2>3, <4>2 DEF Placed
    <3> QED BY <3>1, <3>2
  <2> QED BY <2>1, <2>2, <2>3, SMT DEF Placed
<1>9. Attended'
  <2>1. \A g \in Harts : claim' = g <=> InHandler(g)'
    BY <1>1, <1>4, <1>5, ZenonT(40) DEF Attended
  <2>2. rx' # <<>> => irq' \/ (claim' # None /\ WillPoll(act[claim])')
    <3>1. claim # None => act'[claim'] = act[claim]
      BY <1>1, <1>4, <1>5
    <3> QED BY <1>1, <3>1 DEF Attended, WillPoll
  <2>3. ASSUME NEW k \in Harts, lock["tx"] = k, Doing(k).pc \in {"start", "send"}
        PROVE  lock'["tx"] = k /\ Doing(k)'.pc \in {"start", "send"}
    <3>1. k # h /\ k # None /\ "tx" \in Locks
      BY <2>3, ContextsApart DEF Locks
    <3>2. lock'["tx"] = k
      BY <2>3, <3>1
    <3> QED BY <1>4, <2>3, <3>1, <3>2
  <2>4. tx'.w # tx'.r => \/ fifo' # <<>> \/ irq' \/ claim' # None
                         \/ \E k \in Harts : lock'["tx"] = k /\ Doing(k)'.pc \in {"start", "send"}
    BY <1>1, <2>3 DEF Attended
  <2> QED BY <2>1, <2>2, <2>4 DEF Attended
<1>10. \A g \in Harts : HartKept(g, Doing(g), cpu[g], InHandler(g))'
  BY <1>4, <1>7
<1>11. \A q \in Threads : st'[q] = "tx" => TxFull'
  BY DEF TxFull
<1> QED BY <1>3, <1>8, <1>9, <1>10, <1>11 DEF IInv

\* struct cpu of a hart in its scheduler: interrupts on, nothing nested.
LEMMA IdleCpu == Idle \in Cpus /\ Idle.sie = TRUE /\ Idle.noff = 0 /\ Idle.intena = TRUE
BY SMT DEF Idle, Cpus

\* A hart without a thread and without a lock.
LEMMA IdleHart ==
    ASSUME NEW h \in Harts, \A l \in Locks : lock'[l] # h
    PROVE  HartKept(h, Quiet, Idle, FALSE)'
<1>1. lock'["cons"] # h /\ lock'["tx"] # h /\ lock'["pr"] # h
  BY DEF Locks
<1>2. PICK a, u : a = Quiet /\ u = Idle
  OBVIOUS
<1>3. a.pc = "none" /\ u.sie = TRUE /\ u.noff = 0
  BY <1>2, Resting, IdleCpu
<1>4. HartKept(h, a, u, FALSE)'
  BY <1>1, <1>3, SMT DEF HartKept, Mine, Printing
<1> QED BY <1>2, <1>4 DEF HartKept, Quiet, Idle

\* Where a thread sleeps on channel c, and where it goes on.
SleepsAt(c, at, pc) == \/ c = "cons" /\ at = "wait" /\ pc = "read" /\ cons.r = cons.w
                       \/ c = "tx" /\ at = "put" /\ pc = "put" /\ TxFull

\* sleep(): only the lock that is given back was held.
LEMMA SleepStep ==
    ASSUME IInv, NEW h \in Harts, NEW a, NEW u, Before(h, run[h], a, u, FALSE),
           NEW c, NEW pc, SleepsAt(c, a.pc, pc), sleep(h, c, c, pc),
           UNCHANGED <<cons, tx, killed, rx, fifo, irq, claim>>
    PROVE  IInv'
<1>0. c \in {"cons", "tx"}
  BY DEF SleepsAt
<1>1. PICK p, b : p = run[h] /\ b = [a EXCEPT !.pc = "spin", !.lk = c, !.then = pc]
  OBVIOUS
<1>2. /\ p \in Threads /\ p \in Contexts /\ ~InHandler(h) /\ Doing(h) = a /\ a = act[p] /\ Record(a)
      /\ HartKept(h, a, u, FALSE) /\ h # None
      /\ act = [y \in Contexts |-> act[y]] /\ lock \in [Locks -> Harts \cup {None}]
      /\ st \in [Threads -> {"ready", "run", "dead", "cons", "tx"}]
  <2>1. p \in Threads
    BY <1>1, RunsOn DEF Before
  <2> QED BY <1>1, <2>1 DEF Before
<1>3. /\ lock' = [lock EXCEPT ![c] = None] /\ st' = [st EXCEPT ![p] = c] /\ act' = [act EXCEPT ![p] = b]
      /\ run' = [run EXCEPT ![h] = None] /\ cpu' = [cpu EXCEPT ![h] = Idle]
  BY <1>1, <1>2 DEF sleep, Spin
<1>4. Record(b) /\ b.pc = "spin" /\ b.lk = c /\ b.then = pc
  BY <1>1, <1>2 DEF Record
<1>5. /\ act' = [y \in Contexts |-> act'[y]] /\ (\A y \in Contexts \ {p} : act'[y] = act[y]) /\ act'[p] = b
      /\ \A y \in Contexts : Record(act'[y])
  <2>1. /\ act' = [y \in Contexts |-> act'[y]] /\ (\A y \in Contexts \ {p} : act'[y] = act[y]) /\ act'[p] = b
    BY <1>2, <1>3
  <2>2. \A y \in Contexts : Record(act[y])
    BY DEF IInv, TypeOK, Contexts
  <2> QED BY <1>4, <2>1, <2>2
<1>6. /\ lock' \in [Locks -> Harts \cup {None}] /\ \A l \in Locks : lock'[l] # h
      /\ \A l \in Locks : lock'[l] = lock[l] \/ (lock[l] \in {h, None} /\ lock'[l] \in {h, None})
  <2>1. lock[c] = h /\ c \in Locks /\ \A l \in Locks \ {c} : lock[l] # h
    BY <1>2 DEF HartKept, Locks, SleepsAt
  <2> QED BY <1>2, <1>3, <2>1
<1>7. HartKept(h, Quiet, Idle, FALSE)'
  BY <1>6, IdleHart
<1>8. /\ st' \in [Threads -> {"ready", "run", "dead", "cons", "tx"}] /\ st'[p] = c
      /\ \A q \in Threads : q # p => st'[q] = st[q]
  BY <1>0, <1>2, <1>3
<1>9. killed' \in [Threads -> BOOLEAN]
  BY DEF IInv, TypeOK
<1>10. /\ \A q \in Threads : st'[q] = "cons" => cons'.r = cons'.w
       /\ \A q \in Threads : st'[q] = "tx" => TxFull
  BY <1>1, <1>2, <1>8 DEF IInv, SleepsAt
<1>11. <<b.lk, b.then>> \in {<<"cons", "read">>, <<"tx", "put">>}
  BY <1>4 DEF SleepsAt
<1>12. PICK r : r = None
  OBVIOUS
<1>13. PICK e : e = (IF r = None THEN Quiet ELSE act'[r]) /\ HartKept(h, e, Idle, FALSE)'
  BY <1>7, <1>12
<1>14. a.pc \notin {"start", "send"} /\ st'[run[h]] # "run"
  BY <1>0, <1>1, <1>8 DEF SleepsAt
<1> QED BY <1>1, <1>2, <1>3, <1>4, <1>5, <1>6, <1>8, <1>9, <1>10, <1>11, <1>12, <1>13, <1>14, IdleCpu, HandOver

\* exit(): the thread is gone, with the lock it gave back.
LEMMA DieStep ==
    ASSUME IInv, NEW h \in Harts, NEW a, NEW u, Before(h, run[h], a, u, FALSE),
           a.pc \in {"trap", "write", "read"}, Die(h, run[h]),
           \A l \in Locks : lock'[l] # h, lock' \in [Locks -> Harts \cup {None}],
           \A l \in Locks : lock'[l] = lock[l] \/ (lock[l] \in {h, None} /\ lock'[l] \in {h, None}),
           killed' \in [Threads -> BOOLEAN], \A q \in Threads : q # run[h] => killed'[q] = killed[q],
           UNCHANGED <<tx, rx, fifo, irq, claim>>, cons' = cons \/ (cons.r # cons.w /\ lock["cons"] = h)
    PROVE  IInv'
<1>1. PICK p, r : p = run[h] /\ r = None
  OBVIOUS
<1>2. /\ p \in Threads /\ p \in Contexts /\ ~InHandler(h) /\ Doing(h) = a
      /\ act = [y \in Contexts |-> act[y]] /\ st \in [Threads -> {"ready", "run", "dead", "cons", "tx"}]
  <2>1. p \in Threads
    BY <1>1, RunsOn DEF Before
  <2> QED BY <1>1, <2>1 DEF Before
<1>3. /\ st' = [st EXCEPT ![p] = "dead"] /\ act' = [act EXCEPT ![p] = Quiet]
      /\ run' = [run EXCEPT ![h] = r] /\ cpu' = [cpu EXCEPT ![h] = Idle]
  BY <1>1 DEF Die
<1>4. /\ act' = [y \in Contexts |-> act'[y]] /\ (\A y \in Contexts \ {p} : act'[y] = act[y])
      /\ \A y \in Contexts : Record(act'[y])
  <2>1. /\ act' = [y \in Contexts |-> act'[y]] /\ (\A y \in Contexts \ {p} : act'[y] = act[y]) /\ act'[p] = Quiet
    BY <1>2, <1>3
  <2>2. (\A y \in Contexts : Record(act[y])) /\ Record(Quiet)
    BY Resting DEF IInv, TypeOK, Contexts
  <2> QED BY <2>1, <2>2
<1>5. /\ st' \in [Threads -> {"ready", "run", "dead", "cons", "tx"}] /\ st'[p] = "dead"
      /\ \A q \in Threads : q # p => st'[q] = st[q]
  BY <1>2, <1>3
<1>6. /\ \A q \in Threads : st'[q] = "cons" => cons'.r = cons'.w
      /\ \A q \in Threads : st'[q] = "tx" => TxFull
  BY <1>1, <1>5, SMT DEF IInv
<1>7. HartKept(h, Quiet, Idle, FALSE)'
  BY IdleHart
<1>8. PICK e : e = (IF r = None THEN Quiet ELSE act'[r]) /\ HartKept(h, e, Idle, FALSE)'
  BY <1>1, <1>7
<1>9. a.pc \notin {"start", "send"} /\ st'[run[h]] = "dead"
  BY <1>1, <1>5
<1> QED BY <1>1, <1>2, <1>3, <1>4, <1>5, <1>6, <1>8, <1>9, IdleCpu, HandOver

\* uartputc() waits for room.
LEMMA PutFullStep ==
    ASSUME IInv, NEW h \in Harts, Put(h), TxFull
    PROVE  IInv'
<1>1. PICK a, u : Before(h, run[h], a, u, FALSE)
  BY UserActs DEF Put
<1>2. a.pc = "put" /\ sleep(h, "tx", "tx", "put") /\ UNCHANGED <<cons, tx, killed, rx, fifo, irq, claim>>
  BY <1>1 DEF Put, Before, device
<1>3. SleepsAt("tx", a.pc, "put")
  BY <1>2 DEF SleepsAt
<1> QED BY <1>1, <1>2, <1>3, SleepStep

\* consoleread() waits for input.
LEMMA ReadWaitStep ==
    ASSUME IInv, NEW h \in Harts, ReadWait(h)
    PROVE  IInv'
<1>1. PICK a, u : Before(h, run[h], a, u, FALSE)
  BY UserActs DEF ReadWait
<1>2. /\ a.pc = "wait" /\ sleep(h, "cons", "cons", "read")
      /\ UNCHANGED <<cons, tx, killed, rx, fifo, irq, claim>>
  BY <1>1 DEF ReadWait, Before, device
<1>3. cons.r = cons.w
  BY <1>1, <1>2 DEF Before, HartKept
<1>4. SleepsAt("cons", a.pc, "read")
  BY <1>2, <1>3 DEF SleepsAt
<1> QED BY <1>1, <1>2, <1>4, SleepStep

\* A process that faulted exits.
LEMMA FaultedStep ==
    ASSUME IInv, NEW h \in Harts, Faulted(h)
    PROVE  IInv'
<1>1. PICK a, u : Before(h, run[h], a, u, FALSE)
  BY UserActs DEF Faulted
<1>2. /\ a.pc = "trap" /\ killed' = [killed EXCEPT ![run[h]] = TRUE]
      /\ Die(h, run[h]) /\ UNCHANGED <<cons, tx, lock, rx, fifo, irq, claim>>
  BY <1>1 DEF Faulted, Before, device
<1>3. /\ HartKept(h, a, u, FALSE) /\ lock \in [Locks -> Harts \cup {None}]
  BY <1>1 DEF Before
<1>4. lock["pr"] # h /\ lock["cons"] # h /\ lock["tx"] # h
  BY <1>2, <1>3 DEF HartKept
<1>5. /\ lock' \in [Locks -> Harts \cup {None}] /\ \A l \in Locks : lock'[l] # h /\ lock'[l] = lock[l]
  BY <1>2, <1>3, <1>4 DEF Locks
<1>6. killed' \in [Threads -> BOOLEAN] /\ \A q \in Threads : q # run[h] => killed'[q] = killed[q]
  BY <1>2 DEF IInv, TypeOK
<1> QED BY <1>1, <1>2, <1>4, <1>5, <1>6, DieStep

\* A killed process exits when its write() is done...
LEMMA WrittenKilledStep ==
    ASSUME IInv, NEW h \in Harts, Written(h), killed[run[h]]
    PROVE  IInv'
<1>1. PICK a, u : Before(h, run[h], a, u, FALSE)
  BY UserActs DEF Written
<1>2. /\ a.pc = "write" /\ Die(h, run[h]) /\ UNCHANGED <<cons, tx, lock, killed, rx, fifo, irq, claim>>
  BY <1>1 DEF Written, Leave, Before, device
<1>3. /\ HartKept(h, a, u, FALSE) /\ lock \in [Locks -> Harts \cup {None}]
  BY <1>1 DEF Before
<1>4. /\ lock' \in [Locks -> Harts \cup {None}] /\ \A l \in Locks : lock'[l] # h
  BY <1>2, <1>3 DEF HartKept, Locks
<1>5. killed' \in [Threads -> BOOLEAN]
  BY <1>2 DEF IInv, TypeOK
<1> QED BY <1>1, <1>2, <1>4, <1>5, DieStep

\* ...or its read().
LEMMA ReadDoneKilledStep ==
    ASSUME IInv, NEW h \in Harts, ReadDone(h), killed[run[h]]
    PROVE  IInv'
<1>1. PICK a, u : Before(h, run[h], a, u, FALSE)
  BY UserActs DEF ReadDone
<1>2. /\ a.pc = "read" /\ Die(h, run[h]) /\ lock' = [lock EXCEPT !["cons"] = None]
      /\ cons' = cons \/ cons.r # cons.w
      /\ UNCHANGED <<tx, killed, rx, fifo, irq, claim>>
  BY <1>1 DEF ReadDone, Leave, Before, device, Consumed
<1>3. /\ HartKept(h, a, u, FALSE) /\ h # None /\ lock \in [Locks -> Harts \cup {None}]
  BY <1>1 DEF Before
<1>4. lock["cons"] = h /\ lock["pr"] # h /\ lock["tx"] # h
  BY <1>2, <1>3 DEF HartKept
<1>5. /\ lock' \in [Locks -> Harts \cup {None}] /\ \A l \in Locks : lock'[l] # h
      /\ \A l \in Locks : lock'[l] = lock[l] \/ (lock[l] \in {h, None} /\ lock'[l] \in {h, None})
  BY <1>2, <1>3, <1>4 DEF Locks
<1>6. killed' \in [Threads -> BOOLEAN]
  BY <1>2 DEF IInv, TypeOK
<1> QED BY <1>1, <1>2, <1>4, <1>5, <1>6, DieStep

\* The scheduler gives the hart a thread.
LEMMA DispatchStep ==
    ASSUME IInv, NEW h \in Harts, Dispatch(h)
    PROVE  IInv'
<1>1. PICK r \in Threads :
        /\ Running(h) = None /\ st[r] = "ready" /\ st' = [st EXCEPT ![r] = "run"] /\ run' = [run EXCEPT ![h] = r]
        /\ cpu' = [cpu EXCEPT ![h] = IF act[r].pc = "spin" THEN push_off(Idle) ELSE Idle]
        /\ UNCHANGED <<cons, tx, lock, killed, act, rx, fifo, irq, claim>>
  BY DEF Dispatch, device
<1>2. PICK a, u : a = act[r] /\ u = (IF a.pc = "spin" THEN push_off(Idle) ELSE Idle)
  OBVIOUS
<1>3. /\ u \in Cpus /\ (a.pc = "spin" => u.noff = 1 /\ u.sie = FALSE /\ u.intena = TRUE)
      /\ a.pc # "spin" => u.noff = 0 /\ u.sie = TRUE
  <2>1. CASE a.pc = "spin"
    <3>1. u = push_off(Idle)
      BY <1>2, <2>1
    <3>2. push_off(Idle) \in Cpus /\ push_off(Idle).noff = 0 + 1 /\ push_off(Idle).sie = FALSE
          /\ push_off(Idle).intena = TRUE
      BY IdleCpu, PushPop
    <3> QED BY <2>1, <3>1, <3>2, SMT
  <2>2. CASE a.pc # "spin"
    <3>1. u = Idle
      BY <1>2, <2>2
    <3> QED BY <2>2, <3>1, IdleCpu
  <2> QED BY <2>1, <2>2
<1>4. ~InHandler(h) /\ run[h] = None /\ r # None /\ Doing(h) = Quiet
  BY <1>1, RunsOn, ContextsApart
<1>5. lock["cons"] # h /\ lock["tx"] # h /\ lock["pr"] # h
  <2>1. HartKept(h, Quiet, cpu[h], FALSE)
    <3>1. HartKept(h, Doing(h), cpu[h], InHandler(h)) /\ InHandler(h) = FALSE
      BY <1>4, RunsOn DEF IInv
    <3> QED BY <1>4, <3>1
  <2> QED BY <2>1, Resting DEF HartKept, Printing
<1>6. a.pc \in {"user", "spin"}
      /\ (a.pc = "spin" => <<a.lk, a.then>> \in {<<"cons", "read">>, <<"tx", "put">>})
  BY <1>1, <1>2 DEF IInv, Placed
<1>7. HartKept(h, a, u, FALSE)'
  BY <1>1, <1>3, <1>5, <1>6, SMT DEF HartKept, Mine, Printing, Cpus
<1>8. a = (IF r = None THEN Quiet ELSE act'[r])
  BY <1>1, <1>2, <1>4
<1>9. /\ act = [y \in Contexts |-> act[y]] /\ (\A y \in Contexts : Record(act[y]))
      /\ lock \in [Locks -> Harts \cup {None}] /\ killed \in [Threads -> BOOLEAN]
      /\ st \in [Threads -> {"ready", "run", "dead", "cons", "tx"}]
  BY DEF IInv, TypeOK, Contexts
<1>10. /\ st' \in [Threads -> {"ready", "run", "dead", "cons", "tx"}] /\ st'[r] = "run"
       /\ \A q \in Threads : q # r => st'[q] = st[q]
  BY <1>1, <1>9
<1>11. /\ \A q \in Threads : st'[q] = "cons" => cons'.r = cons'.w
       /\ \A q \in Threads : st'[q] = "tx" => TxFull
  BY <1>1, <1>10 DEF IInv
<1>12. Doing(h).pc \notin {"start", "send"} /\ cpu' = [cpu EXCEPT ![h] = u]
  BY <1>1, <1>2, <1>4, Resting
<1>13. UNCHANGED <<rx, fifo, irq, claim, tx>> /\ lock' = lock /\ act' = act /\ killed' = killed
  BY <1>1, SMT
<1>14. /\ act' = [y \in Contexts |-> act'[y]] /\ (\A y \in Contexts : Record(act'[y]))
       /\ (\A y \in Contexts \ {run[h]} : act'[y] = act[y]) /\ (\A l \in Locks : lock'[l] = lock[l])
       /\ lock' \in [Locks -> Harts \cup {None}] /\ killed' \in [Threads -> BOOLEAN]
  BY <1>9, <1>13
<1> QED BY <1>1, <1>3, <1>4, <1>7, <1>8, <1>10, <1>11, <1>12, <1>13, <1>14, HandOver, ZenonT(40)

\* devintr(): interrupts are on, so that no lock is held and none spun for.
LEMMA InterruptStep ==
    ASSUME IInv, NEW h \in Harts, Interrupt(h)
    PROVE  IInv'
<1>1. PICK a, u, b, v : /\ a = act[h] /\ u = cpu[h] /\ b = [a EXCEPT !.pc = "poll"] /\ v = [u EXCEPT !.sie = FALSE]
  OBVIOUS
<1>2. /\ a.pc = "none" /\ u.sie /\ claim = None /\ claim' = h /\ irq' = FALSE
      /\ cpu' = [cpu EXCEPT ![h] = v] /\ act' = [act EXCEPT ![h] = b]
      /\ UNCHANGED <<cons, tx, lock, run, st, killed, rx, fifo>>
  BY <1>1 DEF Interrupt
<1>3. u \in Cpus /\ Record(a) /\ h # None /\ lock \in [Locks -> Harts \cup {None}]
      /\ st \in [Threads -> {"ready", "run", "dead", "cons", "tx"}]
  BY <1>1, ContextsApart DEF IInv, TypeOK, Cpus
<1>4. Record(b) /\ b.pc = "poll"
  BY <1>1, <1>3, NewPc, SMT
<1>5. v \in Cpus /\ v.noff = u.noff /\ v.sie = FALSE
  BY <1>1, <1>3 DEF Cpus
<1>6. InHandler(h) = FALSE
  BY <1>1, <1>2 DEF InHandler
<1>7. HartKept(h, Doing(h), u, FALSE)
  BY <1>1, <1>6 DEF IInv
<1>8. u.noff = 0
  BY <1>2, <1>7 DEF HartKept
<1>9. /\ lock["cons"] # h /\ lock["tx"] # h /\ lock["pr"] # h /\ Doing(h).pc \notin {"spin", "thr"}
  BY <1>7, <1>8, SMT DEF HartKept, Mine
<1>10. run[h] # None => act[run[h]].pc \in {"user", "write"}
  <2>1. run[h] # None => Doing(h) = act[run[h]] /\ act[run[h]].pc # "none"
    BY <1>6, RunsOn DEF IInv, Placed
  <2>2. Doing(h).pc \in {"none", "user", "write"}
    BY <1>2, <1>7, <1>9 DEF HartKept
  <2> QED BY <2>1, <2>2
<1>11. ContextMoves(h, h, b, v, b, TRUE)
  BY <1>1, <1>2, <1>3, <1>4, <1>5, <1>10 DEF ContextMoves
<1>12. HartKept(h, b, v, TRUE)'
  BY <1>2, <1>4, <1>5, <1>8, <1>9, SMT DEF HartKept, Mine, Printing
<1>13. InHandler(h)' = TRUE /\ act'[h] = b /\ \A g \in Harts \ {h} : InHandler(g)' = InHandler(g)
  BY <1>11, <1>12, ContextStep
<1>14. Attended'
  <2>1. \A g \in Harts : ~InHandler(g)
    BY <1>2, ContextsApart DEF IInv, Attended
  <2>2. \A g \in Harts : claim' = g <=> InHandler(g)'
    BY <1>2, <1>13, <2>1
  <2>3. WillPoll(act[claim])'
    BY <1>2, <1>4, <1>13 DEF WillPoll
  <2> QED BY <1>2, <1>3, <2>2, <2>3 DEF Attended
<1>15. /\ tx' \in [buf : [0..(UART_TX_BUF_SIZE - 1) -> Int], r : Int, w : Int]
       /\ irq' \in BOOLEAN /\ claim' \in Harts \cup {None} /\ fifo' \in Seq(Int)
       /\ \A p \in Threads : st'[p] = "cons" => cons'.r = cons'.w
       /\ \A p \in Threads : st'[p] = "tx" => TxFull'
  BY <1>2 DEF IInv, TypeOK, TxFull
<1> QED BY <1>2, <1>11, <1>12, <1>14, <1>15, StepKeeps

\* A thread calls read() or write(), or faults.
LEMMA CallStep ==
    ASSUME IInv, NEW h \in Harts, Call(h)
    PROVE  IInv'
<1>1. PICK a, u : Before(h, run[h], a, u, FALSE)
  BY UserActs DEF Call
<1>2. a = act[run[h]] /\ Record(a) /\ u \in Cpus /\ HartKept(h, a, u, FALSE) /\ u = cpu[h]
      /\ lock \in [Locks -> Harts \cup {None}] /\ cpu = [cpu EXCEPT ![h] = u]
      /\ act = [y \in Contexts |-> act[y]] /\ run[h] \in Contexts
  BY <1>1 DEF Before
<1>3. a.pc = "user" /\ UNCHANGED <<cons, tx, lock, run, st, killed, rx, fifo, irq, claim>>
  BY <1>2 DEF Call, device
<1>3a. /\ lock'["tx"] # h /\ lock'["cons"] # h /\ lock'["pr"] # h /\ lock' = lock
       /\ Mine(h, "cons")' = 0 /\ Mine(h, "tx")' = 0 /\ Mine(h, "pr")' = 0
  BY <1>2, <1>3 DEF HartKept, Mine, Printing
<1>4. u.noff = 0 /\ u.sie = TRUE
  <2>1. u.noff = 0 + 0 + 0 + 0
    BY <1>2, <1>3, <1>3a DEF HartKept, Mine
  <2>2. u.noff = 0
    BY <2>1, SMT
  <2> QED BY <1>2, <1>3, <2>2 DEF HartKept, Cpus
<1>5. ASSUME NEW b, NEW v, Record(b), b.pc # "none", act' = [act EXCEPT ![run[h]] = b], v \in Cpus,
             cpu' = [cpu EXCEPT ![h] = v], HartKept(h, b, v, FALSE)'
      PROVE  IInv'
  <2>1. \A p \in Threads : st[p] = "cons" => cons'.r = cons'.w
    BY <1>3 DEF IInv
  <2>2. lock' \in [Locks -> Harts \cup {None}] /\ a.pc \notin {"start", "send"}
    BY <1>2, <1>3
  <2> QED BY <1>1, <1>3, <1>5, <2>1, <2>2, ThreadStep
<1>6. PICK n \in Counts :
        \/ /\ act' = [act EXCEPT ![run[h]] = Spin([a EXCEPT !.n = n, !.target = n], "cons", "read")]
           /\ cpu' = [cpu EXCEPT ![h] = push_off(u)]
        \/ /\ act' = [act EXCEPT ![run[h]].pc = "write", ![run[h]].n = n]
           /\ UNCHANGED cpu
        \/ /\ act' = [act EXCEPT ![run[h]].pc = "trap", ![run[h]].n = 2]
           /\ cpu' = [cpu EXCEPT ![h].sie = FALSE]
  BY <1>2 DEF Call
<1>7. ASSUME act' = [act EXCEPT ![run[h]] = Spin([a EXCEPT !.n = n, !.target = n], "cons", "read")],
             cpu' = [cpu EXCEPT ![h] = push_off(u)]
      PROVE  IInv'
  <2>1. PICK e, v : e = [a EXCEPT !.n = n, !.target = n] /\ v = push_off(u)
    OBVIOUS
  <2>2. PICK b : b = [e EXCEPT !.pc = "spin", !.lk = "cons", !.then = "read"]
    OBVIOUS
  <2>3. Record(e)
    BY <1>2, <2>1, OtherFields
  <2>4. Record(b) /\ b.pc = "spin" /\ b.lk = "cons" /\ b.then = "read"
    BY <2>2, <2>3 DEF Record
  <2>5. v \in Cpus /\ v.noff = u.noff + 1 /\ v.sie = FALSE /\ v.intena = IF u.noff = 0 THEN u.sie ELSE u.intena
    BY <1>2, <2>1, PushPop
  <2>6. act' = [act EXCEPT ![run[h]] = b] /\ cpu' = [cpu EXCEPT ![h] = v]
    BY <1>7, <2>1, <2>2 DEF Spin
  <2>7. HartKept(h, b, v, FALSE)'
    <3>1. v.noff = 1 /\ v.noff > 0 /\ v.noff # 0
      BY <1>4, <2>5, SMT
    <3>2. v.noff = Mine(h, "cons")' + Mine(h, "tx")' + Mine(h, "pr")' + 1
      BY <1>3a, <3>1, SMT
    <3> QED BY <1>4, <1>3a, <2>4, <2>5, <3>1, <3>2 DEF HartKept, Mine, Printing
  <2>8. b.pc # "none"
    BY <2>4
  <2> QED BY <1>5, <2>4, <2>5, <2>6, <2>7, <2>8
<1>8. ASSUME act' = [act EXCEPT ![run[h]].pc = "write", ![run[h]].n = n], UNCHANGED cpu
      PROVE  IInv'
  <2>1. PICK b : b = [a EXCEPT !.pc = "write", !.n = n]
    OBVIOUS
  <2>2. Record(b) /\ b.pc = "write"
    BY <1>2, <2>1 DEF Record
  <2>3. act' = [act EXCEPT ![run[h]] = b]
    BY <1>2, <1>8, <2>1, TwoFields
  <2>4. HartKept(h, b, u, FALSE)'
    BY <1>2, <1>3, <1>4, <2>2 DEF HartKept, Mine, Printing
  <2>5. b.pc # "none" /\ cpu' = [cpu EXCEPT ![h] = u]
    BY <1>2, <1>8, <2>2
  <2> QED BY <1>2, <1>5, <2>2, <2>3, <2>4, <2>5
<1>9. ASSUME act' = [act EXCEPT ![run[h]].pc = "trap", ![run[h]].n = 2],
             cpu' = [cpu EXCEPT ![h].sie = FALSE]
      PROVE  IInv'
  <2>1. PICK b, v : b = [a EXCEPT !.pc = "trap", !.n = 2] /\ v = [u EXCEPT !.sie = FALSE]
    OBVIOUS
  <2>2. Record(b) /\ b.pc = "trap"
    BY <1>2, <2>1 DEF Record
  <2>3. act' = [act EXCEPT ![run[h]] = b] /\ cpu' = [cpu EXCEPT ![h] = v]
    BY <1>2, <1>9, <2>1, TwoFields
  <2>4. v \in Cpus /\ v.noff = 0 /\ v.sie = FALSE
    BY <1>2, <1>4, <2>1 DEF Cpus
  <2>5. HartKept(h, b, v, FALSE)'
    BY <1>3a, <2>2, <2>4, SMT DEF HartKept, Printing
  <2>6. b.pc # "none"
    BY <2>2
  <2> QED BY <1>5, <2>2, <2>3, <2>4, <2>5, <2>6
<1> QED BY <1>6, <1>7, <1>8, <1>9

\* A step of nobody's hart leaves the harts.
LEMMA HartsUndisturbed ==
    ASSUME IInv, UNCHANGED <<act, run, cpu, lock, cons>>
    PROVE  /\ \A g \in Harts : HartKept(g, Doing(g), cpu[g], InHandler(g))'
           /\ \A g \in Harts : Doing(g)' = Doing(g) /\ InHandler(g)' = InHandler(g)
<1>1. \A g \in Harts : Doing(g)' = Doing(g) /\ InHandler(g)' = InHandler(g)
  BY DEF Doing, InHandler, Running, Quiet
<1>2. ASSUME NEW g \in Harts
      PROVE  HartKept(g, Doing(g), cpu[g], InHandler(g))'
  <2>1. PICK a, u, i : a = Doing(g) /\ u = cpu[g] /\ i = InHandler(g)
    OBVIOUS
  <2>2. HartKept(g, a, u, i)
    BY <2>1 DEF IInv
  <2>3. HartKept(g, a, u, i)'
    BY <2>2 DEF HartKept, Mine
  <2>4. a = Doing(g)' /\ u = cpu'[g] /\ i = InHandler(g)'
    BY <1>1, <2>1
  <2> QED BY <2>3, <2>4 DEF HartKept
<1> QED BY <1>1, <1>2

\* kill() wakes up whoever sleeps.
LEMMA KillStep ==
    ASSUME IInv, NEW p \in Threads, Kill(p)
    PROVE  IInv'
<1>1. /\ killed' = [killed EXCEPT ![p] = TRUE]
      /\ st' = (IF st[p] \in {"cons", "tx"} THEN [st EXCEPT ![p] = "ready"] ELSE st)
      /\ UNCHANGED <<cons, tx, lock, cpu, run, act, rx, fifo, irq, claim>>
  BY DEF Kill, device
<1>2. /\ \A g \in Harts : HartKept(g, Doing(g), cpu[g], InHandler(g))'
      /\ \A g \in Harts : Doing(g)' = Doing(g) /\ InHandler(g)' = InHandler(g)
  BY <1>1, HartsUndisturbed
<1>3. TypeOK /\ Placed /\ Attended
  BY DEF IInv
<1>4. /\ st' \in [Threads -> {"ready", "run", "dead", "cons", "tx"}]
      /\ \A q \in Threads : st'[q] # st[q] => st[q] \in {"cons", "tx"} /\ st'[q] = "ready"
      /\ st'[p] \notin {"cons", "tx"} /\ killed' \in [Threads -> BOOLEAN]
      /\ \A q \in Threads : q # p => killed'[q] = killed[q]
  BY <1>1, <1>3 DEF TypeOK
<1>5. TypeOK'
  BY <1>1, <1>3, <1>4 DEF TypeOK, Record
<1>6. Placed'
  <2>1. ASSUME NEW g \in Harts, run[g] # None PROVE st'[run[g]] = "run"
    <3>1. run[g] \in Threads
      BY <1>3, <2>1 DEF TypeOK
    <3>2. st[run[g]] = "run"
      BY <1>3, <2>1 DEF Placed
    <3> QED BY <1>4, <3>1, <3>2
  <2>2. \A q \in Threads : st'[q] \notin {"run", "dead"} => st[q] \notin {"run", "dead"}
    BY <1>4
  <2> QED BY <1>1, <1>2, <1>3, <2>1, <2>2 DEF Placed
<1>7. Attended'
  BY <1>1, <1>2, <1>3 DEF Attended, WillPoll
<1>8. /\ \A q \in Threads : st'[q] = "cons" => cons'.r = cons'.w
      /\ \A q \in Threads : st'[q] = "tx" => TxFull'
  BY <1>1, <1>4 DEF IInv, TxFull
<1> QED BY <1>2, <1>5, <1>6, <1>7, <1>8 DEF IInv

\* The UART: input raises the interrupt, and so does the end of its output.
LEMMA UartStep ==
    ASSUME IInv, Type \/ Transmit
    PROVE  IInv'
<1>1. UNCHANGED <<cons, tx, lock, cpu, run, st, killed, act, claim>>
  BY DEF Type, Transmit
<1>2. /\ \A g \in Harts : HartKept(g, Doing(g), cpu[g], InHandler(g))'
      /\ \A g \in Harts : Doing(g)' = Doing(g) /\ InHandler(g)' = InHandler(g)
  BY <1>1, HartsUndisturbed
<1>3. TypeOK /\ Placed /\ Attended
  BY DEF IInv
<1>4. irq' \in BOOLEAN /\ fifo' \in Seq(Int) /\ (irq => irq') /\ (rx' # rx => irq')
      /\ (fifo # <<>> /\ fifo' = <<>> => irq')
  <2>1. CASE Type
    BY <1>3, <2>1 DEF Type, TypeOK
  <2>2. CASE Transmit
    <3>1. fifo # <<>> /\ fifo' = Tail(fifo) /\ irq' = (irq \/ Len(fifo) = 1) /\ rx' = rx
      BY <2>2 DEF Transmit
    <3>2. fifo \in Seq(Int) /\ irq \in BOOLEAN
      BY <1>3 DEF TypeOK
    <3>3. fifo' \in Seq(Int) /\ Len(fifo') = Len(fifo) - 1 /\ Len(fifo) \in Nat
      BY <3>1, <3>2, SMT
    <3>4. fifo' = <<>> => Len(fifo') = 0
      BY SMT
    <3>5. fifo' = <<>> => Len(fifo) = 1
      BY <3>3, <3>4, SMT
    <3> QED BY <3>1, <3>2, <3>3, <3>5
  <2> QED BY <2>1, <2>2
<1>5. TypeOK'
  BY <1>1, <1>3, <1>4 DEF TypeOK, Record
<1>6. Placed'
  BY <1>1, <1>2, <1>3 DEF Placed
<1>7. Attended'
  BY <1>1, <1>2, <1>3, <1>4 DEF Attended, WillPoll
<1>8. /\ \A q \in Threads : st'[q] = "cons" => cons'.r = cons'.w
      /\ \A q \in Threads : st'[q] = "tx" => TxFull'
  BY <1>1 DEF IInv, TxFull
<1> QED BY <1>2, <1>5, <1>6, <1>7, <1>8 DEF IInv

\* At the start every hart is at user level.
LEMMA InitInv == Init => IInv
<1> SUFFICES ASSUME Init PROVE IInv
  OBVIOUS
<1>1. act = [x \in Contexts |-> act[x]] /\ (\A h \in Harts : act[h] = Quiet) /\ (\A p \in Threads : act[p] = AtUser)
  BY ContextsApart DEF Init, Contexts
<1>2. \A h \in Harts : run[h] \in Threads /\ run[h] # None /\ st[run[h]] = "run"
  BY ContextsApart DEF Init
<1>3. \A x \in Contexts : Record(act[x])
  BY <1>1, Resting DEF Contexts
<1>4. TypeOK
  <2>1. UART_TX_BUF_SIZE \in Nat
    BY ConsoleAssumption DEF ConsoleAssumption
  <2>2. tx \in [buf : [0..(UART_TX_BUF_SIZE - 1) -> Int], r : Int, w : Int]
    BY <2>1, SMT DEF Init
  <2>3. cpu \in [Harts -> [sie : BOOLEAN, noff : Int, intena : BOOLEAN]]
    BY IdleCpu DEF Init, Cpus
  <2>4. run \in [Harts -> Threads \cup {None}] /\ st \in [Threads -> {"ready", "run", "dead", "cons", "tx"}]
    BY DEF Init
  <2>5. /\ lock \in [Locks -> Harts \cup {None}] /\ killed \in [Threads -> BOOLEAN]
        /\ irq \in BOOLEAN /\ claim \in Harts \cup {None}
    BY DEF Init
  <2>6. fifo \in Seq(Int)
    <3>1. fifo = <<>>
      BY DEF Init
    <3> QED BY <3>1, SMT
  <2> QED BY <1>1, <1>3, <2>2, <2>3, <2>4, <2>5, <2>6 DEF TypeOK, Contexts
<1>5. \A h \in Harts : ~InHandler(h) /\ InHandler(h) = FALSE /\ Doing(h) = AtUser
  BY <1>1, <1>2, Resting DEF InHandler, Doing, Running
<1>6. Placed
  <2>1. \A h \in Harts : act[run[h]].pc = "user"
    BY <1>1, <1>2, Resting
  <2>2. \A p \in Threads : act[p].pc = "user"
    BY <1>1, Resting
  <2>3. \A g, h \in Harts : run[g] = run[h] => g = h
    BY DEF Init
  <2> QED BY <1>2, <1>5, <2>1, <2>2, <2>3 DEF Placed
<1>7. Attended
  BY <1>5, ContextsApart DEF Attended, Init
<1>8. ASSUME NEW h \in Harts
      PROVE  HartKept(h, Doing(h), cpu[h], InHandler(h))
  <2>1. lock["cons"] # h /\ lock["tx"] # h /\ lock["pr"] # h
    BY ContextsApart DEF Init, Locks
  <2>2. cpu[h] = Idle
    BY DEF Init
  <2> QED BY <1>5, <2>1, <2>2, Resting, IdleCpu, SMT DEF HartKept, Mine, Printing
<1>9. \A p \in Threads : st[p] # "cons" /\ st[p] # "tx"
  BY DEF Init
<1> QED BY <1>4, <1>6, <1>7, <1>8, <1>9 DEF IInv

\* Every step keeps it.
LEMMA NextInv == PInv /\ IInv /\ [Next]_vars => IInv'
<1> SUFFICES ASSUME PInv, IInv, [Next]_vars PROVE IInv'
  OBVIOUS
<1>1. ASSUME NEW h \in Harts, Hart(h) PROVE IInv'
  <2>1. CASE Acquire(h) \/ PutSync(h) \/ WriteThr(h) \/ Key(h) \/ Dumped(h) \/ Store(h) \/ Poll(h)
    BY <2>1, AcquireStep, PutSyncStep, WriteThrStep, KeyStep, DumpedStep, StoreStep, PollStep
  <2>2. CASE Put(h) \/ Start(h) \/ Send(h) \/ Started(h)
    BY <2>2, PutRoomStep, PutFullStep, StartStep, SendStep, StartedThreadStep, StartedHandlerStep
  <2>3. CASE Report(h) \/ Reported(h) \/ Faulted(h) \/ Written(h) \/ Write(h) \/ Dispatch(h)
    BY <2>3, ReportStep, ReportedStep, FaultedStep, WrittenStep, WrittenKilledStep, WriteStep, DispatchStep
  <2>4. CASE ReadTest(h) \/ ReadWait(h) \/ ReadMore(h) \/ ReadDone(h)
    BY <2>4, ReadTestStep, ReadWaitStep, ReadMoreStep, ReadDoneStep, ReadDoneKilledStep
  <2> QED BY <1>1, <2>1, <2>2, <2>3, <2>4 DEF Hart
<1>2. CASE UNCHANGED vars
  <2>1. UNCHANGED <<cons, tx, lock, cpu, run, st, killed, act, rx, fifo, irq, claim>>
    BY <1>2 DEF vars
  <2>2. /\ \A g \in Harts : HartKept(g, Doing(g), cpu[g], InHandler(g))'
        /\ \A g \in Harts : Doing(g)' = Doing(g) /\ InHandler(g)' = InHandler(g)
    BY <2>1, HartsUndisturbed
  <2>3. TypeOK'
    BY <2>1 DEF IInv, TypeOK, Record
  <2>4. Placed'
    BY <2>1, <2>2 DEF IInv, Placed
  <2>5. Attended'
    BY <2>1, <2>2 DEF IInv, Attended, WillPoll
  <2>6. /\ \A q \in Threads : st'[q] = "cons" => cons'.r = cons'.w
        /\ \A q \in Threads : st'[q] = "tx" => TxFull'
    BY <2>1 DEF IInv, TxFull
  <2> QED BY <2>2, <2>3, <2>4, <2>5, <2>6 DEF IInv
<1>3. CASE Halted
  BY <1>2, <1>3 DEF Halted
<1> QED BY <1>1, <1>2, <1>3, InterruptStep, CallStep, KillStep, UartStep DEF Next

\* spinlock.c, console.c, uart.c: the inductive invariant, for any number of harts
\* and threads and any sizes of the buffers.
THEOREM Invariance == Spec => [](PInv /\ IInv)
<1>1. Init => PInv /\ IInv
  BY InitKeeps, InitInv, ConsoleAssumption
<1>2. PInv /\ IInv /\ [Next]_vars => PInv' /\ IInv'
  BY NextKeeps, NextInv, ConsoleAssumption
<1> QED BY <1>1, <1>2, PTL DEF Spec

\* spinlock.c: on every hart noff counts what keeps interrupts off, and they are on
\* again exactly when it is 0, no handler runs and no fault is being reported.
THEOREM InterruptsAreNested == Spec => []InterruptsNest
<1>1. IInv => InterruptsNest
  <2> SUFFICES ASSUME IInv, NEW h \in Harts
               PROVE  LET x == Running(h)
                          pc == IF x = None THEN "none" ELSE act[x].pc
                      IN  /\ cpu[h].noff = Mine(h, "cons") + Mine(h, "tx") + Mine(h, "pr")
                                           + (IF pc \in {"spin", "thr"} THEN 1 ELSE 0)
                          /\ cpu[h].sie <=> (cpu[h].noff = 0 /\ act[h].pc = "none" /\ pc # "trap")
    BY DEF InterruptsNest
  <2>1. HartKept(h, Doing(h), cpu[h], InHandler(h))
    BY DEF IInv
  <2>2. Doing(h).pc = IF Running(h) = None THEN "none" ELSE act[Running(h)].pc
    BY Resting DEF Doing
  <2> QED BY <2>1, <2>2 DEF HartKept, InHandler
<1> QED BY <1>1, Invariance, PTL

\* console.c, uart.c: readers and writers sleep only for a reason, and what has
\* arrived or is to be sent has someone to look at it.
THEOREM SleepersHaveAReason == Spec => []SleepsForAReason
<1>1. IInv => SleepsForAReason
  BY ContextsApart DEF IInv, Attended, SleepsForAReason
<1> QED BY <1>1, Invariance, PTL

-----------------------------------------------------------------------------
(* Remainders: where an index finds its slot of the buffer *)

\* A multiple of m that is smaller than m is 0.
LEMMA SmallMultiple ==
    ASSUME NEW m \in Int, m > 0, NEW k \in Int, -m < k * m, k * m < m
    PROVE  k = 0
<1>1. ASSUME k >= 1 PROVE FALSE
  <2>1. k * m = (k - 1) * m + m
    BY SMT
  <2>2. (k - 1) * m >= 0
    BY <1>1, SMT
  <2> QED BY <2>1, <2>2, SMT
<1>2. ASSUME k <= -1 PROVE FALSE
  <2>1. k * m = -m - (-1 - k) * m
    BY SMT
  <2>2. (-1 - k) * m >= 0
    BY <1>2, SMT
  <2> QED BY <2>1, <2>2, SMT
<1> QED BY <1>1, <1>2, SMT

\* Quotient and remainder.
LEMMA Division ==
    ASSUME NEW a \in Int, NEW m \in Int, m > 0
    PROVE  a % m \in 0..m-1 /\ \E q \in Int : a = q * m + (a % m)
<1>1. m \in Int /\ m > 0 /\ a \div m \in Int
  BY SMT
<1>2. a = m * (a \div m) + (a % m)
  BY SMT
<1>3. a % m \in 0..m-1
  BY SMT
<1>4. \A d \in Int : m * d = d * m
  BY SMT
<1> QED BY <1>1, <1>2, <1>3, <1>4

\* There is only one remainder.
LEMMA SameRemainder ==
    ASSUME NEW m \in Int, m > 0, NEW q \in Int, NEW k \in Int,
           NEW r \in 0..m-1, NEW s \in 0..m-1, q * m + r = k * m + s
    PROVE  r = s
<1>1. (q - k) * m = s - r
  <2>1. (q - k) * m = q * m - k * m /\ q * m \in Int /\ k * m \in Int
    BY SMT
  <2> QED BY <2>1, SMT
<1>2. q - k = 0
  <2> DEFINE d == q - k
  <2>1. d \in Int /\ -m < s - r /\ s - r < m
    BY SMT
  <2> HIDE DEF d
  <2>2. d * m = s - r
    BY <1>1 DEF d
  <2>3. d = 0
    BY <2>1, <2>2, SmallMultiple
  <2> QED BY <2>3 DEF d
<1>3. (q - k) * m = 0
  BY <1>2, SMT
<1> QED BY <1>1, <1>3, SMT

\* The remainder is the only one in its range.
LEMMA RemainderUnique ==
    ASSUME NEW m \in Int, m > 0, NEW a \in Int, NEW q \in Int, NEW r \in 0..m-1, a = q * m + r
    PROVE  a % m = r
<1>1. PICK k \in Int : a = k * m + (a % m)
  BY Division
<1>2. a % m \in 0..m-1
  BY Division
<1> DEFINE s == a % m
<1> HIDE DEF s
<1>3. s \in 0..m-1 /\ q * m + r = k * m + s
  BY <1>1, <1>2 DEF s
<1>4. r = s
  BY <1>3, SameRemainder
<1> QED BY <1>4 DEF s

\* Adding a multiple of m changes nothing.
LEMMA RemainderShift ==
    ASSUME NEW m \in Int, m > 0, NEW a \in Int, NEW k \in Int
    PROVE  (a + k * m) % m = a % m
<1>1. PICK q \in Int : a = q * m + (a % m)
  BY Division
<1>2. a % m \in 0..m-1
  BY Division
<1> DEFINE s == a % m
           b == a + k * m
<1>3. b = (q + k) * m + s /\ b \in Int /\ q + k \in Int
  <2> HIDE DEF s
  <2>1. a = q * m + s
    BY <1>1 DEF s
  <2>2. (q + k) * m = q * m + k * m /\ q * m \in Int /\ k * m \in Int
    BY SMT
  <2>3. s \in Int
    BY <1>2, SMT DEF s
  <2> QED BY <2>1, <2>2, <2>3, SMT
<1> HIDE DEF s, b
<1>4. b % m = s
  BY <1>2, <1>3, RemainderUnique DEF s
<1> QED BY <1>4 DEF s, b

\* The slot of an index is the same after the index has wrapped around.
LEMMA SlotWraps ==
    ASSUME NEW x \in Int
    PROVE  /\ x % INPUT_BUF_SIZE \in 0..(INPUT_BUF_SIZE - 1)
           /\ (x + WRAP) % INPUT_BUF_SIZE = x % INPUT_BUF_SIZE
           /\ (x - WRAP) % INPUT_BUF_SIZE = x % INPUT_BUF_SIZE
<1> DEFINE N == INPUT_BUF_SIZE
<1>1. N \in Int /\ N > 0 /\ WRAP \in Int /\ WRAP % N = 0
  BY ConsoleAssumption, SMT DEF ConsoleAssumption
<1> HIDE DEF N
<1>2. PICK q \in Int : WRAP = q * N + (WRAP % N)
  BY <1>1, Division
<1>3. /\ q * N = WRAP /\ (0 - q) * N = 0 - WRAP /\ 0 - q \in Int
  <2>1. q * N \in Int /\ (0 - q) * N = 0 - q * N
    BY <1>1, SMT
  <2>2. q * N = WRAP
    BY <1>1, <1>2, <2>1, SMT
  <2> QED BY <2>1, <2>2, SMT
<1>4. (x + q * N) % N = x % N /\ (x + (0 - q) * N) % N = x % N
  BY <1>1, <1>3, RemainderShift
<1>5. x + (0 - WRAP) = x - WRAP
  BY <1>1, SMT
<1>6. x % N \in 0..(N - 1)
  BY <1>1, Division
<1> QED BY <1>3, <1>4, <1>5, <1>6 DEF N

\* Indices less than a buffer apart have different slots.
LEMMA SlotsDiffer ==
    ASSUME NEW x \in Int, NEW y \in Int, x < y, y - x < INPUT_BUF_SIZE
    PROVE  x % INPUT_BUF_SIZE # y % INPUT_BUF_SIZE
<1> DEFINE N == INPUT_BUF_SIZE
<1>1. N \in Int /\ N > 0
  BY ConsoleAssumption, SMT DEF ConsoleAssumption
<1> HIDE DEF N
<1> SUFFICES ASSUME x % N = y % N PROVE FALSE
  BY DEF N
<1>2. PICK q \in Int : x = q * N + (x % N)
  BY <1>1, Division
<1>3. PICK k \in Int : y = k * N + (y % N)
  BY <1>1, Division
<1>4. x % N \in Int
  BY <1>1, Division, SMT
<1> DEFINE s == x % N
           d == k - q
<1>5. d \in Int /\ d * N = y - x
  <2> HIDE DEF s
  <2>1. x = q * N + s /\ y = k * N + s /\ s \in Int
    BY <1>2, <1>3, <1>4 DEF s
  <2>2. (k - q) * N = k * N - q * N /\ q * N \in Int /\ k * N \in Int
    BY <1>1, SMT
  <2> QED BY <2>1, <2>2, SMT
<1> HIDE DEF d
<1>6. -N < d * N /\ d * N < N
  BY <1>1, <1>5, SMT DEF N
<1>7. d = 0
  BY <1>1, <1>5, <1>6, SmallMultiple
<1>8. d * N = 0
  BY <1>1, <1>7, SMT
<1> QED BY <1>5, <1>8, SMT

-----------------------------------------------------------------------------
(* The input ring is a terminal: ImplementsTerminal *)

\* The slots of the buffer, and what can be in them.
Slots == 0..(INPUT_BUF_SIZE - 1)
Texts == [Slots -> Chars]

\* Two sequences with the same length and the same elements.
LEMMA SameSequence ==
    ASSUME NEW S, NEW s \in Seq(S), NEW t \in Seq(S), Len(s) = Len(t),
           \A i \in 1..Len(s) : s[i] = t[i]
    PROVE  s = t
BY SMT

\* The elements of two sequences one after the other.
LEMMA ConcatAt ==
    ASSUME NEW s \in Seq(Chars), NEW t \in Seq(Chars), NEW i \in 1..(Len(s) + Len(t))
    PROVE  (s \o t)[i] = IF i <= Len(s) THEN s[i] ELSE t[i - Len(s)]
BY SMT

\* The elements of a sequence with one more.
LEMMA AppendAt ==
    ASSUME NEW s \in Seq(Chars), NEW x \in Chars
    PROVE  /\ Append(s, x) \in Seq(Chars) /\ Len(Append(s, x)) = Len(s) + 1
           /\ \A i \in 1..(Len(s) + 1) : Append(s, x)[i] = IF i = Len(s) + 1 THEN x ELSE s[i]
BY SMT

\* Appending to the second of two sequences is appending to both.
LEMMA AppendConcat ==
    ASSUME NEW s \in Seq(Chars), NEW t \in Seq(Chars), NEW x \in Chars
    PROVE  Append(s \o t, x) = s \o Append(t, x)
<1>1. PICK n, m, p, q : n = Len(s) /\ m = Len(t) /\ p = Append(s \o t, x) /\ q = s \o Append(t, x)
  OBVIOUS
<1>2. n \in Nat /\ m \in Nat
  BY <1>1, SMT
<1>3. s \o t \in Seq(Chars) /\ Len(s \o t) = n + m /\ Append(t, x) \in Seq(Chars) /\ Len(Append(t, x)) = m + 1
  BY <1>1, SMT
<1>4. p \in Seq(Chars) /\ Len(p) = n + m + 1 /\ q \in Seq(Chars) /\ Len(q) = n + m + 1
  <2>1. p \in Seq(Chars) /\ Len(p) = n + m + 1
    BY <1>1, <1>2, <1>3, SMT
  <2>2. q \in Seq(Chars) /\ Len(q) = n + (m + 1)
    BY <1>1, <1>2, <1>3, SMT
  <2> QED BY <1>2, <2>1, <2>2, SMT
<1>5. ASSUME NEW i \in 1..(n + m + 1) PROVE p[i] = q[i]
  <2>1. p[i] = IF i = n + m + 1 THEN x ELSE (s \o t)[i]
    BY <1>1, <1>2, <1>3, SMT
  <2>0. i \in 1..(n + (m + 1)) /\ (i # n + m + 1 => i \in 1..(n + m))
    BY <1>2, SMT
  <2>2. i # n + m + 1 => (s \o t)[i] = IF i <= n THEN s[i] ELSE t[i - n]
    BY <1>1, <2>0, ConcatAt
  <2>3. q[i] = IF i <= n THEN s[i] ELSE Append(t, x)[i - n]
    BY <1>1, <1>3, <2>0, ConcatAt
  <2>4. ~(i <= n) => Append(t, x)[i - n] = IF i - n = m + 1 THEN x ELSE t[i - n]
    BY <1>1, <1>2, SMT
  <2>5. (i - n = m + 1 <=> i = n + m + 1) /\ (i = n + m + 1 => ~(i <= n))
    BY <1>2, SMT
  <2> QED BY <2>1, <2>2, <2>3, <2>4, <2>5
<1> QED BY <1>1, <1>4, <1>5, SameSequence

\* A line with a character more, alone and after what is ready.
Typed(R, E, a) ==
    /\ Append(R \o E, a) = R \o Append(E, a) /\ Len(Append(E, a)) = Len(E) + 1
    /\ \A i \in 1..(Len(E) + 1) : Append(E, a)[i] = IF i = Len(E) + 1 THEN a ELSE E[i]

LEMMA TypedFacts ==
    ASSUME NEW R \in Seq(Chars), NEW E \in Seq(Chars), NEW a \in Chars
    PROVE  Typed(R, E, a)
<1>1. Append(R \o E, a) = R \o Append(E, a)
  BY AppendConcat
<1>2. /\ Len(Append(E, a)) = Len(E) + 1
      /\ \A i \in 1..(Len(E) + 1) : Append(E, a)[i] = IF i = Len(E) + 1 THEN a ELSE E[i]
  BY AppendAt
<1> QED BY <1>1, <1>2 DEF Typed

\* s is what u holds in the n slots from index a on.
Spells(s, u, a, n) ==
    /\ s \in Seq(Chars) /\ Len(s) = n
    /\ \A i \in 1..n : s[i] = u.buf[(a + i - 1) % INPUT_BUF_SIZE]

\* The characters between two indices are a sequence of characters.
LEMMA SegmentFacts ==
    ASSUME NEW u, u.buf \in Texts, NEW a \in Index, NEW b \in Index
    PROVE  Spells(Segment(u, a, b), u, a, Dist(b, a))
<1> DEFINE n == Dist(b, a)
           s == [i \in 1..n |-> u.buf[(a + i - 1) % INPUT_BUF_SIZE]]
<1>1. n \in Nat /\ a \in Int
  BY ConsoleAssumption, Distances, SMT DEF Index
<1> HIDE DEF n
<1>2. \A i \in 1..n : a + i - 1 \in Int
  BY <1>1, SMT
<1>3. \A i \in 1..n : (a + i - 1) % INPUT_BUF_SIZE \in Slots
  BY <1>2, SlotWraps DEF Slots
<1>4. \A i \in 1..n : s[i] \in Chars
  BY <1>3 DEF Texts
<1>5. s \in [1..n -> Chars] /\ \A i \in 1..n : s[i] = u.buf[(a + i - 1) % INPUT_BUF_SIZE]
  BY <1>4
<1>6. Segment(u, a, b) = s
  BY DEF Segment, n
<1> HIDE DEF s
<1>7. s \in Seq(Chars) /\ Len(s) = n
  BY <1>1, <1>5, SMT
<1> QED BY <1>5, <1>6, <1>7 DEF n, Spells

\* Nothing is between an index and itself.
LEMMA SegmentEmpty ==
    ASSUME NEW u, u.buf \in Texts, NEW a \in Index
    PROVE  Segment(u, a, a) = <<>>
<1>1. Dist(a, a) = 0
  BY ConsoleAssumption, Distances
<1>2. Segment(u, a, a) \in Seq(Chars) /\ Len(Segment(u, a, a)) = 0
  BY <1>1, SegmentFacts DEF Spells
<1> QED BY <1>2, SMT

\* The slot that lies d after index a, in both of the ways to say it.
LEMMA SlotAfter ==
    ASSUME NEW a \in Index, NEW b \in Index, NEW j \in Int
    PROVE  (b + j) % INPUT_BUF_SIZE = (a + Dist(b, a) + j) % INPUT_BUF_SIZE
<1> DEFINE x == b + j
           y == a + Dist(b, a) + j
<1>1. x \in Int /\ y \in Int /\ (y = x \/ y = x + WRAP)
  BY ConsoleAssumption, SMT DEF ConsoleAssumption, Index, Dist, Back
<1> HIDE DEF x, y
<1>2. (x + WRAP) % INPUT_BUF_SIZE = x % INPUT_BUF_SIZE
  BY <1>1, SlotWraps
<1> QED BY <1>1, <1>2 DEF x, y

\* cons.r++ takes the first character.
LEMMA SegmentTail ==
    ASSUME NEW u, u.buf \in Texts, NEW a \in Index, NEW b \in Index, a # b
    PROVE  Segment(u, a, b) # <<>> /\ Segment(u, Inc(a), b) = Tail(Segment(u, a, b))
<1>1. PICK n, m, c : n = Dist(b, a) /\ m = n - 1 /\ c = Inc(a)
  OBVIOUS
<1>2. c \in Index /\ Dist(b, c) = m
  BY <1>1, ConsoleAssumption, Forward
<1>3. Dist(b, a) \in Index /\ ~(Dist(b, a) = 0)
  BY ConsoleAssumption, Distances
<1>4. n \in Nat /\ n # 0 /\ m \in Nat /\ m = n - 1 /\ a \in Int /\ c \in Int
  BY <1>1, <1>2, <1>3, SMT DEF Index
<1>5. PICK s, t : s = Segment(u, a, b) /\ t = Segment(u, c, b)
  OBVIOUS
<1>6. Spells(s, u, a, n)
  BY <1>1, <1>5, SegmentFacts
<1>7. Spells(t, u, c, m)
  BY <1>2, <1>5, SegmentFacts
<1>8. Dist(c, a) = 1
  BY <1>1, ConsoleAssumption, SMT DEF ConsoleAssumption, Index, Dist, Back, Inc
<1>9. ASSUME NEW i \in 1..m PROVE t[i] = s[i + 1]
  <2>1. i - 1 \in Int /\ c + i - 1 = c + (i - 1) /\ a + 1 + (i - 1) = a + (i + 1) - 1 /\ i + 1 \in 1..n
    BY <1>4, SMT
  <2>2. (c + (i - 1)) % INPUT_BUF_SIZE = (a + Dist(c, a) + (i - 1)) % INPUT_BUF_SIZE
    BY <1>2, <2>1, SlotAfter
  <2>3. (c + (i - 1)) % INPUT_BUF_SIZE = (a + 1 + (i - 1)) % INPUT_BUF_SIZE
    BY <1>8, <2>2
  <2> QED BY <1>6, <1>7, <2>1, <2>3 DEF Spells
<1>10. Tail(s) \in Seq(Chars) /\ Len(Tail(s)) = m /\ (\A i \in 1..m : Tail(s)[i] = s[i + 1]) /\ s # <<>>
  BY <1>4, <1>6, SMT DEF Spells
<1>11. t = Tail(s)
  BY <1>7, <1>9, <1>10, SameSequence DEF Spells
<1> QED BY <1>1, <1>5, <1>10, <1>11

\* The buffer of v is that of u with c in slot k.
Differs(u, v, k, c) ==
    /\ u.buf \in Texts /\ v.buf \in Texts /\ v.buf[k] = c
    /\ \A j \in Slots \ {k} : v.buf[j] = u.buf[j]

\* From a on, v has c at e, and before it what u has.
Longer(u, v, a, e, c) ==
    /\ Segment(v, a, Inc(e)) = Append(Segment(u, a, e), c)
    /\ \A b \in Index : Dist(b, a) <= Dist(e, a) => Segment(v, a, b) = Segment(u, a, b)

\* cons.e++ with a character in its slot appends it, and changes nothing before it.
LEMMA SegmentAppend ==
    ASSUME NEW u, NEW v, NEW c \in Chars, NEW a \in Index, NEW e \in Index,
           Dist(e, a) < INPUT_BUF_SIZE, Differs(u, v, e % INPUT_BUF_SIZE, c)
    PROVE  Longer(u, v, a, e, c)
<1>1. PICK n, m, z, k : n = Dist(e, a) /\ m = n + 1 /\ z = Inc(e) /\ k = e % INPUT_BUF_SIZE
  OBVIOUS
<1>2. z \in Index /\ Dist(z, a) = m
  BY <1>1, ConsoleAssumption, Grows
<1>3. n \in Index
  BY <1>1, ConsoleAssumption, Distances
<1>4. n \in Nat /\ m \in Nat /\ m = n + 1 /\ n < INPUT_BUF_SIZE /\ INPUT_BUF_SIZE \in Int
      /\ a \in Int /\ e \in Int
  BY <1>1, <1>3, ConsoleAssumption, SMT DEF Index, ConsoleAssumption
<1>6. /\ u.buf \in Texts /\ v.buf \in Texts /\ v.buf[k] = c
      /\ \A j \in Slots \ {k} : v.buf[j] = u.buf[j]
  BY <1>1 DEF Differs
<1>7. k = (a + n) % INPUT_BUF_SIZE
  <2>0. 0 \in Int
    BY SMT
  <2>1. (e + 0) % INPUT_BUF_SIZE = (a + Dist(e, a) + 0) % INPUT_BUF_SIZE
    BY <2>0, SlotAfter
  <2>2. e + 0 = e /\ a + n + 0 = a + n
    BY <1>4, SMT
  <2> QED BY <1>1, <2>1, <2>2
<1>8. ASSUME NEW i \in 1..n
      PROVE  v.buf[(a + i - 1) % INPUT_BUF_SIZE] = u.buf[(a + i - 1) % INPUT_BUF_SIZE]
  <2>1. a + i - 1 \in Int /\ a + n \in Int /\ a + i - 1 < a + n /\ (a + n) - (a + i - 1) < INPUT_BUF_SIZE
    BY <1>4, SMT
  <2>2. (a + i - 1) % INPUT_BUF_SIZE # (a + n) % INPUT_BUF_SIZE
    BY <2>1, SlotsDiffer
  <2>3. (a + i - 1) % INPUT_BUF_SIZE \in Slots
    BY <2>1, SlotWraps DEF Slots
  <2> QED BY <1>6, <1>7, <2>2, <2>3
<1>9. ASSUME NEW b \in Index, Dist(b, a) <= Dist(e, a) PROVE Segment(v, a, b) = Segment(u, a, b)
  <2>1. PICK l, s, t : l = Dist(b, a) /\ s = Segment(u, a, b) /\ t = Segment(v, a, b)
    OBVIOUS
  <2>2. Spells(s, u, a, l)
    BY <1>6, <1>9, <2>1, SegmentFacts
  <2>3. Spells(t, v, a, l)
    BY <1>6, <1>9, <2>1, SegmentFacts
  <2>4. l \in Index /\ l <= n
    BY <1>1, <1>9, <2>1, ConsoleAssumption, Distances
  <2>5. \A i \in 1..l : i \in 1..n
    BY <1>4, <2>4, SMT DEF Index
  <2>6. t = s
    BY <1>8, <2>2, <2>3, <2>5, SameSequence DEF Spells
  <2> QED BY <2>1, <2>6
<1>10. Segment(v, a, z) = Append(Segment(u, a, e), c)
  <2>1. PICK s, t : s = Segment(u, a, e) /\ t = Segment(v, a, z)
    OBVIOUS
  <2>2. Spells(s, u, a, n)
    BY <1>1, <1>6, <2>1, SegmentFacts
  <2>3. Spells(t, v, a, m)
    BY <1>2, <1>6, <2>1, SegmentFacts
  <2>4. /\ Append(s, c) \in Seq(Chars) /\ Len(Append(s, c)) = m
        /\ \A i \in 1..m : Append(s, c)[i] = IF i = m THEN c ELSE s[i]
    BY <1>4, <2>2, SMT DEF Spells
  <2>5. a + m - 1 = a + n /\ m \in 1..m /\ \A i \in 1..m : i # m => i \in 1..n
    BY <1>4, SMT
  <2>6. ASSUME NEW i \in 1..m PROVE t[i] = Append(s, c)[i]
    <3>1. CASE i = m
      BY <1>6, <1>7, <2>3, <2>4, <2>5, <3>1 DEF Spells
    <3>2. CASE i # m
      BY <1>8, <2>2, <2>3, <2>4, <2>5, <3>2 DEF Spells
    <3> QED BY <3>1, <3>2
  <2>7. t = Append(s, c)
    BY <2>3, <2>4, <2>6, SameSequence DEF Spells
  <2> QED BY <2>1, <2>7
<1> QED BY <1>1, <1>9, <1>10 DEF Longer

\* What is committed and what is edited lie one after the other.
LEMMA SegmentJoin ==
    ASSUME NEW u, u.buf \in Texts, NEW r \in Index, NEW w \in Index, NEW e \in Index,
           Dist(w, r) <= Dist(e, r)
    PROVE  /\ Dist(e, r) = Dist(w, r) + Dist(e, w)
           /\ Segment(u, r, e) = Segment(u, r, w) \o Segment(u, w, e)
<1>1. PICK n, m, l : n = Dist(w, r) /\ m = Dist(e, w) /\ l = Dist(e, r)
  OBVIOUS
<1>2. Dist(e, r) = Dist(w, r) + Dist(e, w)
  BY ConsoleAssumption, SMT DEF ConsoleAssumption, Index, Dist, Back
<1>3. n \in Index /\ m \in Index
  BY <1>1, ConsoleAssumption, Distances
<1>4. n \in Nat /\ m \in Nat /\ l = n + m /\ r \in Int /\ w \in Int
  BY <1>1, <1>2, <1>3, SMT DEF Index
<1>5. PICK s, t, q : s = Segment(u, r, w) /\ t = Segment(u, w, e) /\ q = Segment(u, r, e)
  OBVIOUS
<1>6. Spells(s, u, r, n) /\ Spells(t, u, w, m) /\ Spells(q, u, r, l)
  BY <1>1, <1>5, SegmentFacts
<1>7. /\ s \o t \in Seq(Chars) /\ Len(s \o t) = l
      /\ \A i \in 1..l : (s \o t)[i] = IF i <= n THEN s[i] ELSE t[i - n]
  <2>1. s \in Seq(Chars) /\ t \in Seq(Chars) /\ Len(s) = n /\ Len(t) = m
    BY <1>6 DEF Spells
  <2> QED BY <1>4, <2>1, SMT
<1>8. ASSUME NEW i \in 1..l PROVE q[i] = (s \o t)[i]
  <2>1. CASE i <= n
    <3>1. i \in 1..n
      BY <1>4, <2>1, SMT
    <3> QED BY <1>6, <1>7, <2>1, <3>1 DEF Spells
  <2>2. CASE ~(i <= n)
    <3>1. /\ i - n \in 1..m /\ w + (i - n) - 1 = w + (i - n - 1) /\ i - n - 1 \in Int
          /\ r + n + (i - n - 1) = r + i - 1
      BY <1>4, <2>2, SMT
    <3>2. (w + (i - n - 1)) % INPUT_BUF_SIZE = (r + Dist(w, r) + (i - n - 1)) % INPUT_BUF_SIZE
      BY <3>1, SlotAfter
    <3>3. (w + (i - n) - 1) % INPUT_BUF_SIZE = (r + i - 1) % INPUT_BUF_SIZE
      BY <1>1, <3>1, <3>2
    <3> QED BY <1>6, <1>7, <2>2, <3>1, <3>3 DEF Spells
  <2> QED BY <2>1, <2>2
<1>9. q = s \o t
  BY <1>6, <1>7, <1>8, SameSequence DEF Spells
<1> QED BY <1>2, <1>5, <1>9

\* From w on, u has k characters less at k before e.
Shorter(u, w, e, k) ==
    /\ Back(e, k) \in Index /\ Dist(Back(e, k), w) = Dist(e, w) - k
    /\ Segment(u, w, Back(e, k)) = SubSeq(Segment(u, w, e), 1, Dist(e, w) - k)

\* cons.e -= k takes the last k characters away.
LEMMA SegmentCut ==
    ASSUME NEW u, u.buf \in Texts, NEW w \in Index, NEW e \in Index, NEW k \in Nat, k <= Dist(e, w)
    PROVE  Shorter(u, w, e, k)
<1>1. PICK n, m, z : n = Dist(e, w) /\ m = n - k /\ z = Back(e, k)
  OBVIOUS
<1>2. n \in Index
  BY <1>1, ConsoleAssumption, Distances
<1>3. n \in Nat /\ m \in Nat /\ m = n - k
  BY <1>1, <1>2, SMT DEF Index
<1>5. z \in Index /\ Dist(z, w) = m
  <2>1. Back(e, k) \in Index /\ Dist(Back(e, k), w) = Dist(e, w) - k
    BY ConsoleAssumption, SMT DEF ConsoleAssumption, Index, Dist, Back
  <2> QED BY <1>1, <2>1
<1>6. PICK s, t : s = Segment(u, w, e) /\ t = Segment(u, w, z)
  OBVIOUS
<1>7. Spells(s, u, w, n) /\ Spells(t, u, w, m)
  BY <1>1, <1>5, <1>6, SegmentFacts
<1>8. /\ SubSeq(s, 1, m) \in Seq(Chars) /\ Len(SubSeq(s, 1, m)) = m
      /\ \A i \in 1..m : SubSeq(s, 1, m)[i] = s[i] /\ i \in 1..n
  <2>1. s \in Seq(Chars) /\ Len(s) = n
    BY <1>7 DEF Spells
  <2>2. m <= n /\ \A i \in 1..m : i \in 1..n /\ 1 + i - 1 = i
    BY <1>3, SMT
  <2>3. SubSeq(s, 1, m) = [i \in 1..m |-> s[i]]
    BY <1>3, <2>1, <2>2, SMT
  <2>4. \A i \in 1..m : s[i] \in Chars
    BY <2>1, <2>2, SMT
  <2>5. [i \in 1..m |-> s[i]] \in Seq(Chars) /\ Len([i \in 1..m |-> s[i]]) = m
    BY <1>3, <2>4, SMT
  <2> QED BY <2>2, <2>3, <2>5
<1>9. t = SubSeq(s, 1, m)
  <2>1. \A i \in 1..m : t[i] = SubSeq(s, 1, m)[i]
    BY <1>7, <1>8 DEF Spells
  <2>2. t \in Seq(Chars) /\ Len(t) = m
    BY <1>7 DEF Spells
  <2> QED BY <1>8, <2>1, <2>2, SameSequence
<1> QED BY <1>1, <1>5, <1>6, <1>9 DEF Shorter

\* Characters everywhere, and no end of a line in what is edited.
LineKept ==
    /\ cons.buf \in Texts /\ input \in Seq(Chars) /\ rx \in Seq(Chars)
    /\ \A h \in Harts : act[h].c \in Chars
    /\ \A i \in 1..Dist(cons.e, cons.w) : Seg(cons.w, cons.e)[i] \notin LineEnds

\* What is in the ring, and how much.
LEMMA RingFacts ==
    ASSUME PInv, LineKept
    PROVE  /\ Seg(cons.r, cons.w) \in Seq(Chars) /\ Len(Seg(cons.r, cons.w)) = Dist(cons.w, cons.r)
           /\ Seg(cons.w, cons.e) \in Seq(Chars) /\ Len(Seg(cons.w, cons.e)) = Dist(cons.e, cons.w)
           /\ Dist(cons.e, cons.r) = Dist(cons.w, cons.r) + Dist(cons.e, cons.w)
           /\ Dist(cons.w, cons.r) \in Nat /\ Dist(cons.e, cons.w) \in Nat
           /\ Dist(cons.e, cons.r) <= INPUT_BUF_SIZE /\ INPUT_BUF_SIZE \in Nat
           /\ Segment(cons, cons.r, cons.e) = Seg(cons.r, cons.w) \o Seg(cons.w, cons.e)
<1>1. /\ cons.r \in Index /\ cons.w \in Index /\ cons.e \in Index /\ cons.buf \in Texts
      /\ Dist(cons.w, cons.r) <= Dist(cons.e, cons.r) /\ Dist(cons.e, cons.r) <= INPUT_BUF_SIZE
  BY DEF PInv, Ring, LineKept
<1>2. /\ Spells(Segment(cons, cons.r, cons.w), cons, cons.r, Dist(cons.w, cons.r))
      /\ Spells(Segment(cons, cons.w, cons.e), cons, cons.w, Dist(cons.e, cons.w))
  BY <1>1, SegmentFacts
<1>3. /\ Dist(cons.e, cons.r) = Dist(cons.w, cons.r) + Dist(cons.e, cons.w)
      /\ Segment(cons, cons.r, cons.e) = Segment(cons, cons.r, cons.w) \o Segment(cons, cons.w, cons.e)
  BY <1>1, SegmentJoin
<1>4. Dist(cons.w, cons.r) \in Index /\ Dist(cons.e, cons.w) \in Index
  BY <1>1, ConsoleAssumption, Distances
<1>5. Index \subseteq Nat /\ INPUT_BUF_SIZE \in Nat
  BY ConsoleAssumption, SMT DEF Index, ConsoleAssumption
<1> QED BY <1>1, <1>2, <1>3, <1>4, <1>5 DEF Spells, Seg

\* consoleintr() stores a character: it is typed.
LEMMA StoreInserts ==
    ASSUME PInv, LineKept, NEW c \in Chars, NEW k, cons' = Stored(c, k), Stores(c)
    PROVE  /\ Input!Insert /\ cons'.buf \in Texts
           /\ \A i \in 1..Dist(cons'.e, cons'.w) : Segment(cons', cons'.w, cons'.e)[i] \notin LineEnds
<1>1. PICK r, w, e, a, z, R, E : /\ r = cons.r /\ w = cons.w /\ e = cons.e /\ a = Ascii(c) /\ z = Inc(cons.e)
                                 /\ R = Seg(cons.r, cons.w) /\ E = Seg(cons.w, cons.e)
  OBVIOUS
<1>2. /\ r \in Index /\ w \in Index /\ e \in Index /\ cons.buf \in Texts
      /\ Dist(w, r) <= Dist(e, r)
  BY <1>1 DEF PInv, Ring, LineKept
<1>3. /\ R \in Seq(Chars) /\ Len(R) = Dist(w, r) /\ E \in Seq(Chars) /\ Len(E) = Dist(e, w)
      /\ Dist(e, r) = Dist(w, r) + Dist(e, w) /\ Dist(w, r) \in Nat /\ Dist(e, w) \in Nat
      /\ Dist(e, r) <= INPUT_BUF_SIZE /\ INPUT_BUF_SIZE \in Nat
      /\ Segment(cons, r, e) = R \o E
  BY <1>1, RingFacts
<1>4. ~(Dist(e, r) >= INPUT_BUF_SIZE)
  BY <1>1 DEF Stores, Full
<1>5. Dist(e, r) < INPUT_BUF_SIZE /\ Dist(e, w) < INPUT_BUF_SIZE
  BY <1>3, <1>4, SMT
<1>6. a \in Chars
  BY <1>1 DEF Ascii, Chars
<1>7. e % INPUT_BUF_SIZE \in Slots
  <2>1. e \in Int
    BY <1>2, SMT DEF Index
  <2> QED BY <2>1, SlotWraps DEF Slots
<1>8. /\ cons'.buf = [cons.buf EXCEPT ![e % INPUT_BUF_SIZE] = a] /\ cons'.r = r /\ cons'.e = z
      /\ cons'.w = IF a \in LineEnds \/ Dist(z, r) = INPUT_BUF_SIZE THEN z ELSE w
  BY <1>1 DEF Stored, PInv
<1>9. cons'.buf \in Texts /\ Differs(cons, cons', e % INPUT_BUF_SIZE, a)
  BY <1>2, <1>6, <1>7, <1>8 DEF Texts, Differs
<1>10. z \in Index /\ Dist(z, r) = Dist(e, r) + 1 /\ Dist(z, w) = Dist(e, w) + 1
  BY <1>1, <1>2, <1>5, ConsoleAssumption, Grows
<1>11. /\ Segment(cons', r, z) = Append(R \o E, a) /\ Segment(cons', w, z) = Append(E, a)
       /\ Segment(cons', r, w) = R
  <2>0. Longer(cons, cons', r, e, a) /\ Longer(cons, cons', w, e, a)
    BY <1>2, <1>5, <1>6, <1>9, SegmentAppend
  <2>1. /\ Segment(cons', r, Inc(e)) = Append(Segment(cons, r, e), a)
        /\ \A b \in Index : Dist(b, r) <= Dist(e, r) => Segment(cons', r, b) = Segment(cons, r, b)
    BY <2>0 DEF Longer
  <2>2. Segment(cons', w, Inc(e)) = Append(Segment(cons, w, e), a)
    BY <2>0 DEF Longer
  <2>3. R = Segment(cons, r, w) /\ E = Segment(cons, w, e)
    BY <1>1 DEF Seg
  <2>4. z = Inc(e) /\ Segment(cons', r, w) = Segment(cons, r, w)
    BY <1>1, <1>2, <2>1
  <2> QED BY <1>3, <2>1, <2>2, <2>3, <2>4
<1>12. /\ Len(R) + Len(E) < INPUT_BUF_SIZE /\ Append(R \o E, a) = R \o Append(E, a)
       /\ Len(Append(E, a)) = Len(E) + 1
       /\ \A i \in 1..(Len(E) + 1) : Append(E, a)[i] = IF i = Len(E) + 1 THEN a ELSE E[i]
       /\ Len(R) + Len(Append(E, a)) = Dist(e, r) + 1
       /\ \A i \in 1..(Len(E) + 1) : i # Len(E) + 1 => i \in 1..Len(E)
  <2>0. R \in Seq(Chars) /\ E \in Seq(Chars)
    BY <1>3
  <2>1. Typed(R, E, a)
    BY <1>6, <2>0, TypedFacts
  <2>3. Len(R) + Len(E) < INPUT_BUF_SIZE /\ Len(R) + (Len(E) + 1) = Dist(e, r) + 1
    BY <1>3, <1>5, SMT
  <2>4. \A i \in 1..(Len(E) + 1) : i # Len(E) + 1 => i \in 1..Len(E)
    BY <1>3, SMT
  <2> QED BY <2>1, <2>3, <2>4 DEF Typed
<1>13. PICK line : line = Append(E, a)
  OBVIOUS
<1>14. CASE a \in LineEnds \/ Dist(z, r) = INPUT_BUF_SIZE
  <2>1. cons'.w = z
    BY <1>8, <1>14
  <2>2. Segment(cons', z, z) = <<>> /\ Dist(z, z) = 0
    BY <1>9, <1>10, SegmentEmpty, ConsoleAssumption, Distances
  <2>3. /\ Seg(cons.r, cons.w)' = R \o line /\ Seg(cons.w, cons.e)' = <<>>
    BY <1>8, <1>11, <1>12, <1>13, <2>1, <2>2 DEF Seg
  <2>4. Input!Insert
    <3> USE DEF Input!Insert
    <3> QED BY <1>1, <1>6, <1>10, <1>12, <1>13, <1>14, <2>3
  <2>5. 1..0 = {}
    BY SMT
  <2> QED BY <1>8, <1>9, <2>1, <2>2, <2>4, <2>5
<1>15. CASE ~(a \in LineEnds \/ Dist(z, r) = INPUT_BUF_SIZE)
  <2>1. cons'.w = w
    BY <1>8, <1>15
  <2>2. Seg(cons.r, cons.w)' = R /\ Seg(cons.w, cons.e)' = line
    BY <1>8, <1>11, <1>13, <2>1 DEF Seg
  <2>3. Input!Insert
    <3> USE DEF Input!Insert
    <3> QED BY <1>1, <1>6, <1>10, <1>12, <1>13, <1>15, <2>2
  <2>4. \A i \in 1..Len(E) : E[i] \notin LineEnds
    BY <1>1, <1>3 DEF LineKept
  <2>5. \A i \in 1..(Len(E) + 1) : Append(E, a)[i] \notin LineEnds
    BY <1>12, <1>15, <2>4
  <2>6. Dist(z, w) = Len(E) + 1
    BY <1>3, <1>10
  <2> QED BY <1>8, <1>9, <1>11, <2>1, <2>3, <2>5, <2>6
<1> QED BY <1>14, <1>15

\* consoleintr() erases: the last character, or the line.
LEMMA StoreErases ==
    ASSUME PInv, LineKept, NEW c, NEW k \in Erased(c), cons' = Stored(c, k), ~Stores(c)
    PROVE  /\ \/ Input!Erase \/ Input!EraseLine
              \/ UNCHANGED <<Seg(cons.r, cons.w), Seg(cons.w, cons.e)>>
           /\ cons'.buf \in Texts
           /\ \A i \in 1..Dist(cons'.e, cons'.w) : Segment(cons', cons'.w, cons'.e)[i] \notin LineEnds
<1>1. PICK w, e, z, n, R, E : /\ w = cons.w /\ e = cons.e /\ z = Back(cons.e, k) /\ n = Dist(cons.e, cons.w)
                              /\ R = Seg(cons.r, cons.w) /\ E = Seg(cons.w, cons.e)
  OBVIOUS
<1>2. w \in Index /\ e \in Index /\ cons.buf \in Texts
  BY <1>1 DEF PInv, LineKept
<1>3. E \in Seq(Chars) /\ Len(E) = n /\ n \in Nat /\ n = Dist(e, w) /\ E = Segment(cons, w, e)
  BY <1>1, RingFacts DEF Seg
<1>4. k \in Nat /\ k <= n
  BY <1>1, ConsoleAssumption, ErasedIsEdited
<1>5. /\ cons'.buf = cons.buf /\ cons'.r = cons.r /\ cons'.w = w /\ cons'.e = z
  BY <1>1 DEF Stored, PInv
<1>6. /\ z \in Index /\ Dist(z, w) = n - k /\ Segment(cons, w, z) = SubSeq(E, 1, n - k)
  <2>1. k <= Dist(e, w) /\ z = Back(e, k)
    BY <1>1, <1>3, <1>4
  <2>2. Shorter(cons, w, e, k)
    BY <1>2, <1>4, <2>1, SegmentCut
  <2> QED BY <1>3, <2>1, <2>2 DEF Shorter
<1>7. /\ Seg(cons.r, cons.w)' = R /\ Seg(cons.w, cons.e)' = SubSeq(E, 1, n - k)
      /\ Segment(cons', cons'.w, cons'.e) = SubSeq(E, 1, n - k)
  <2>1. \A a, b : Segment(cons', a, b) = Segment(cons, a, b)
    BY <1>5 DEF Segment
  <2>2. Segment(cons', cons'.r, cons'.w) = R
    BY <1>1, <1>5, <2>1 DEF Seg
  <2>3. Segment(cons', cons'.w, cons'.e) = SubSeq(E, 1, n - k)
    BY <1>5, <1>6, <2>1
  <2> QED BY <2>2, <2>3 DEF Seg
<1>8. \A i \in 1..(n - k) : SubSeq(E, 1, n - k)[i] \notin LineEnds
  <2>1. \A i \in 1..(n - k) : SubSeq(E, 1, n - k)[i] = E[i] /\ i \in 1..n
    BY <1>3, <1>4, SMT
  <2>2. \A i \in 1..n : E[i] \notin LineEnds
    BY <1>1 DEF LineKept
  <2> QED BY <2>1, <2>2
<1>9. k = 0 => z = e
  BY <1>1, <1>2, SMT DEF Back, Index
<1>10. k = 0 => UNCHANGED <<Seg(cons.r, cons.w), Seg(cons.w, cons.e)>>
  <2>1. k = 0 => Segment(cons, w, z) = E
    BY <1>3, <1>9
  <2> QED BY <1>1, <1>6, <1>7, <2>1
<1>11. CASE c = "U"
  <2>1. k \in Line
    BY <1>11 DEF Erased
  <2>2. k < Len(E) => E[Len(E) - k] = "nl"
    BY <1>1, <2>1 DEF Line
  <2>3. ~(k < Len(E))
    <3>1. k < Len(E) => Len(E) - k \in 1..n
      BY <1>3, <1>4, SMT
    <3>2. \A i \in 1..n : E[i] # "nl"
      BY <1>1 DEF LineKept, LineEnds
    <3> QED BY <2>2, <3>1, <3>2
  <2>4. SubSeq(E, 1, n - k) = <<>>
    BY <1>3, <1>4, <2>3, SMT
  <2>5. Input!EraseLine
    BY <1>1, <1>7, <2>4 DEF Input!EraseLine
  <2> QED BY <1>5, <1>2, <1>6, <1>7, <1>8, <2>5
<1>12. CASE c = "H"
  <2>1. k = IF e # w THEN 1 ELSE 0
    BY <1>1, <1>12 DEF Erased
  <2>2. CASE e # w
    <3>1. n # 0
      BY <1>2, <1>3, <2>2, ConsoleAssumption, Distances
    <3>2. E # <<>> /\ SubSeq(E, 1, n - k) = SubSeq(E, 1, Len(E) - 1)
      BY <1>3, <2>1, <2>2, <3>1, SMT
    <3>3. Input!Erase
      BY <1>1, <1>7, <3>2 DEF Input!Erase
    <3> QED BY <1>5, <1>2, <1>6, <1>7, <1>8, <3>3
  <2>3. CASE e = w
    BY <1>2, <1>5, <1>6, <1>7, <1>8, <1>10, <2>1, <2>3
  <2> QED BY <2>2, <2>3
<1>13. CASE c # "U" /\ c # "H"
  <2>1. k = 0
    BY <1>13 DEF Erased
  <2> QED BY <1>2, <1>5, <1>6, <1>7, <1>8, <1>10, <2>1
<1> QED BY <1>11, <1>12, <1>13

\* consoleread() takes the first of what is ready.
LEMMA ReadTakes ==
    ASSUME PInv, LineKept, cons.r # cons.w, cons' = [cons EXCEPT !.r = Inc(@)]
    PROVE  Input!Take /\ cons'.buf = cons.buf /\ cons'.w = cons.w /\ cons'.e = cons.e
<1>1. cons'.buf = cons.buf /\ cons'.r = Inc(cons.r) /\ cons'.w = cons.w /\ cons'.e = cons.e
  BY DEF PInv
<1>2. cons.r \in Index /\ cons.w \in Index /\ cons.buf \in Texts
  BY DEF PInv, LineKept
<1>3. /\ Segment(cons, cons.r, cons.w) # <<>>
      /\ Segment(cons, Inc(cons.r), cons.w) = Tail(Segment(cons, cons.r, cons.w))
  BY <1>2, SegmentTail
<1>4. \A a, b : Segment(cons', a, b) = Segment(cons, a, b)
  BY <1>1, SMT DEF Segment
<1>5. /\ Seg(cons.r, cons.w) # <<>> /\ Seg(cons.r, cons.w)' = Tail(Seg(cons.r, cons.w))
      /\ Seg(cons.w, cons.e)' = Seg(cons.w, cons.e)
  BY <1>1, <1>3, <1>4 DEF Seg
<1>6. Input!Take
  BY <1>5 DEF Input!Take
<1> QED BY <1>1, <1>6

\* LineKept, when a step leaves the ring and what will be typed alone, and whoever
\* has a character in hand keeps it or drops it.
LEMMA RestKeepsLine ==
    ASSUME LineKept, cons' = cons, input' = input, rx' = rx,
           \A h \in Harts : act'[h].c \in {act[h].c, "nul"}
    PROVE  LineKept'
<1>1. "nul" \in Chars
  BY DEF Chars
<1> QED BY <1>1 DEF LineKept, Seg

\* A step on h of context x, which then does b.
LEMMA HandKept ==
    ASSUME IInv, NEW x, NEW b, act' = [act EXCEPT ![x] = b], x \in Harts => b.c \in {act[x].c, "nul"}
    PROVE  \A h \in Harts : act'[h].c \in {act[h].c, "nul"}
<1>1. act = [y \in Harts \cup Threads |-> act[y]]
  BY DEF IInv, TypeOK
<1>2. ASSUME NEW h \in Harts PROVE act'[h].c \in {act[h].c, "nul"}
  <2>1. CASE h = x
    <3>1. act'[h] = b
      BY <1>1, <2>1
    <3> QED BY <2>1, <3>1
  <2>2. CASE h # x
    <3>1. act'[h] = act[h]
      BY <1>1, <2>2
    <3> QED BY <3>1
  <2> QED BY <2>1, <2>2
<1> QED BY <1>2

\* Changes of a context that leave its character alone.
LEMMA FieldsKept ==
    ASSUME NEW t, Record(t)
    PROVE  /\ \A a : [t EXCEPT !.pc = a].c = t.c
           /\ \A a : [t EXCEPT !.n = a].c = t.c
           /\ \A a, b : [t EXCEPT !.pc = a, !.n = b].c = t.c
           /\ \A a, b : [t EXCEPT !.pc = a, !.echo = b].c = t.c
           /\ \A a, b, d : [t EXCEPT !.pc = a, !.lk = b, !.then = d].c = t.c
           /\ Quiet.c = "nul" /\ AtUser.c = "nul"
BY SMT DEF Record, Quiet, AtUser

\* No handler gets another character in hand, except from uartgetc().
HandsKept == \A h \in Harts : act'[h].c \in {act[h].c, "nul"}

\* Steps of threads.
LEMMA ThreadHands ==
    ASSUME IInv, NEW h \in Harts,
           \/ Put(h) \/ Report(h) \/ Reported(h) \/ Faulted(h) \/ Written(h) \/ Write(h)
           \/ ReadTest(h) \/ ReadWait(h) \/ ReadMore(h) \/ ReadDone(h)
           \/ Call(h)
    PROVE  HandsKept
<1>1. PICK p : p = run[h]
  OBVIOUS
<1>2. p \notin Harts
  BY <1>1, RunsOn, ContextsApart, ConsoleAssumption DEF ConsoleAssumption
<1>3. act = [y \in Harts \cup Threads |-> act[y]]
  BY DEF IInv, TypeOK
<1>4. \E b : act' = [act EXCEPT ![p] = b]
  <2>1. CASE Put(h)
    BY <1>1, <2>1 DEF Put, sleep
  <2>2. CASE Report(h) \/ Faulted(h) \/ Written(h)
    BY <1>1, <2>2 DEF Report, Faulted, Written, Leave, Die
  <2>3. CASE Write(h) \/ ReadWait(h) \/ ReadMore(h)
    BY <1>1, <2>3 DEF Write, ReadWait, ReadMore, sleep
  <2>3a. CASE Reported(h) \/ ReadTest(h)
    <3>1. PICK l : act' = [act EXCEPT ![p].pc = l]
      BY <1>1, <2>3a DEF Reported, ReadTest
    <3>2. act' = [act EXCEPT ![p] = [act[p] EXCEPT !.pc = l]]
      BY <3>1
    <3> QED BY <3>2
  <2>4. CASE ReadDone(h)
    BY <1>1, <2>4 DEF ReadDone, Leave, Die
  <2>5. CASE Call(h)
    <3>1. PICK n : \/ act' = [act EXCEPT ![p] = Spin([@ EXCEPT !.n = n, !.target = n], "cons", "read")]
                   \/ act' = [act EXCEPT ![p].pc = "write", ![p].n = n]
                   \/ act' = [act EXCEPT ![p].pc = "trap", ![p].n = 2]
      BY <1>1, <2>5 DEF Call
    <3>2. ASSUME NEW l, NEW m, act' = [act EXCEPT ![p].pc = l, ![p].n = m]
          PROVE  \E b : act' = [act EXCEPT ![p] = b]
      <4>1. p \in Contexts /\ Record(act[p])
        BY <1>1, <2>5, RunsOn DEF Call, Contexts, IInv, TypeOK
      <4>2. act' = [act EXCEPT ![p] = [act[p] EXCEPT !.pc = l, !.n = m]]
        BY <1>3, <3>2, <4>1, TwoFields DEF Contexts
      <4> QED BY <4>2
    <3> QED BY <3>1, <3>2
  <2> QED BY <2>1, <2>2, <2>3, <2>3a, <2>4, <2>5
<1> QED BY <1>2, <1>4, HandKept DEF HandsKept

\* Steps of what runs on h, and of its scheduler.
LEMMA HartHands ==
    ASSUME IInv, NEW h \in Harts,
           \/ Acquire(h) \/ PutSync(h) \/ WriteThr(h) \/ Key(h) \/ Dumped(h) \/ Store(h)
           \/ Start(h) \/ Send(h) \/ Started(h) \/ Dispatch(h) \/ Interrupt(h)
    PROVE  HandsKept
<1>1. PICK x, a : x = Running(h) /\ a = act[x]
  OBVIOUS
<1>2. /\ act = [y \in Harts \cup Threads |-> act[y]] /\ (x \in Harts => Record(a))
      /\ Record(act[h])
  BY <1>1 DEF IInv, TypeOK
<1>3. (\A g \in Harts : act'[g] = act[g]) => HandsKept
  BY DEF HandsKept
<1>4. CASE Acquire(h)
  <2>1. PICK b : b = [a EXCEPT !.pc = a.then, !.lk = "cons", !.then = "none"]
    OBVIOUS
  <2>2. act' = [act EXCEPT ![x] = b]
    BY <1>1, <1>4, <2>1 DEF Acquire
  <2>3. x \in Harts => b.c = a.c
    BY <1>2, <2>1, SMT DEF Record
  <2> QED BY <1>1, <2>2, <2>3, HandKept DEF HandsKept
<1>5. CASE PutSync(h) \/ Start(h) \/ Send(h)
  <2>1. PICK l : act' = [act EXCEPT ![x] = [a EXCEPT !.pc = l]]
    BY <1>1, <1>5 DEF PutSync, Start, Send
  <2>2. PICK b : b = [a EXCEPT !.pc = l]
    OBVIOUS
  <2>3. x \in Harts => b.c = a.c
    BY <1>2, <2>2, FieldsKept
  <2> QED BY <1>1, <2>1, <2>2, <2>3, HandKept DEF HandsKept
<1>6. CASE WriteThr(h)
  <2>1. x \in Contexts /\ Record(act[x])
    <3>1. Running(h) # None
      BY <1>6 DEF WriteThr
    <3>2. PICK y, t, u, i : Before(h, y, t, u, i)
      BY <3>1, ThreadActs
    <3> QED BY <1>1, <3>2 DEF Before
  <2>2. PICK b : b = [a EXCEPT !.pc = "echo", !.echo = Tail(a.echo)]
    OBVIOUS
  <2>3. [act EXCEPT ![x].pc = "echo"][x].echo = a.echo
    BY <1>1, <1>2, <2>1, SMT DEF Record, Contexts
  <2>4. act' = [act EXCEPT ![x].pc = "echo", ![x].echo = Tail(a.echo)]
    BY <1>1, <1>6, <2>3 DEF WriteThr
  <2>5. act' = [act EXCEPT ![x] = b]
    BY <1>1, <1>2, <2>1, <2>2, <2>4, TwoFields DEF Contexts
  <2>6. b.c = a.c
    BY <1>1, <2>1, <2>2, SMT DEF Record
  <2> QED BY <1>1, <2>5, <2>6, HandKept DEF HandsKept
<1>7. CASE Key(h)
  <2>1. PICK k : act' = [act EXCEPT ![h] = IF act[h].c = "P" THEN Spin([act[h] EXCEPT !.echo = <<"ps">>], "pr", "echo")
                                           ELSE [act[h] EXCEPT !.pc = "echo", !.echo = Echo(act[h].c, k)]]
    BY <1>7 DEF Key
  <2>2. Spin([act[h] EXCEPT !.echo = <<"ps">>], "pr", "echo").c = act[h].c
    BY <1>2, SMT DEF Spin, Record
  <2>3. [act[h] EXCEPT !.pc = "echo", !.echo = Echo(act[h].c, k)].c = act[h].c
    BY <1>2, SMT DEF Record
  <2> QED BY <2>1, <2>2, <2>3, HandKept DEF HandsKept
<1>8. CASE Store(h)
  <2>1. act' = [act EXCEPT ![h] = [Quiet EXCEPT !.pc = "poll"]]
    BY <1>8 DEF Store
  <2>2. [Quiet EXCEPT !.pc = "poll"].c = "nul"
    BY SMT DEF Quiet
  <2> QED BY <2>1, <2>2, HandKept DEF HandsKept
<1>9. CASE Dumped(h) \/ Dispatch(h)
  BY <1>3, <1>9 DEF Dumped, Dispatch
<1>10. CASE Interrupt(h)
  <2>1. act' = [act EXCEPT ![h] = [act[h] EXCEPT !.pc = "poll"]]
    BY <1>10 DEF Interrupt
  <2>2. [act[h] EXCEPT !.pc = "poll"].c = act[h].c
    BY <1>2, SMT DEF Record
  <2> QED BY <2>1, <2>2, HandKept DEF HandsKept
<1>11. CASE Started(h)
  <2>1. CASE x = h
    <3>1. act' = [act EXCEPT ![h] = Quiet]
      BY <1>1, <1>11, <2>1 DEF Started
    <3> QED BY <1>2, <3>1, HandKept, FieldsKept DEF HandsKept
  <2>2. CASE x # h
    <3>1. act' = [act EXCEPT ![x].pc = "write", ![x].n = @ - 1]
      BY <1>1, <1>11, <2>2 DEF Started
    <3>2. x \notin Harts
      BY <1>1, <2>2, RunsOn, ContextsApart, ConsoleAssumption DEF ConsoleAssumption
    <3>3. x \in Contexts /\ Record(act[x])
      <4>1. Running(h) # None
        BY <1>11 DEF Started
      <4>2. PICK y, t, u, i : Before(h, y, t, u, i)
        BY <4>1, ThreadActs
      <4> QED BY <1>1, <4>2 DEF Before
    <3>4. act' = [act EXCEPT ![x].pc = "write", ![x].n = a.n - 1]
      <4>1. [act EXCEPT ![x].pc = "write"][x].n = a.n
        BY <1>1, <1>2, <3>3, SMT DEF Record, Contexts
      <4> QED BY <3>1, <4>1
    <3>5. act' = [act EXCEPT ![x] = [act[x] EXCEPT !.pc = "write", !.n = a.n - 1]]
      BY <1>2, <3>3, <3>4, TwoFields DEF Contexts
    <3> QED BY <3>2, <3>5, HandKept DEF HandsKept
  <2> QED BY <2>1, <2>2
<1> QED BY <1>4, <1>5, <1>6, <1>7, <1>8, <1>9, <1>10, <1>11

\* What a step does to the terminal that the ring stands for.
TerminalMoves == [Input!Next]_<<Seg(cons.r, cons.w), Seg(cons.w, cons.e)>>

\* Nothing, when the ring stays as it is.
LEMMA RingStays ==
    ASSUME cons' = cons
    PROVE  TerminalMoves
BY DEF TerminalMoves, Seg

\* console.c, consoleintr(): a character inserts, erases, or does nothing.
LEMMA StoreLine ==
    ASSUME PInv, IInv, LineKept, NEW h \in Harts, Store(h)
    PROVE  LineKept' /\ TerminalMoves
<1>1. PICK c, k : /\ c = act[h].c /\ k \in Erased(c) /\ cons' = Stored(c, k)
                  /\ UNCHANGED <<input, rx>>
  BY DEF Store, device
<1>2. c \in Chars
  BY <1>1 DEF LineKept
<1>3. /\ TerminalMoves /\ cons'.buf \in Texts
      /\ \A i \in 1..Dist(cons'.e, cons'.w) : Segment(cons', cons'.w, cons'.e)[i] \notin LineEnds
  <2>1. CASE Stores(c)
    <3>1. /\ Input!Insert /\ cons'.buf \in Texts
          /\ \A i \in 1..Dist(cons'.e, cons'.w) : Segment(cons', cons'.w, cons'.e)[i] \notin LineEnds
      BY <1>1, <1>2, <2>1, StoreInserts
    <3> QED BY <3>1 DEF TerminalMoves, Input!Next
  <2>2. CASE ~Stores(c)
    <3>1. /\ \/ Input!Erase \/ Input!EraseLine
             \/ UNCHANGED <<Seg(cons.r, cons.w), Seg(cons.w, cons.e)>>
          /\ cons'.buf \in Texts
          /\ \A i \in 1..Dist(cons'.e, cons'.w) : Segment(cons', cons'.w, cons'.e)[i] \notin LineEnds
      BY <1>1, <2>2, StoreErases
    <3> QED BY <3>1 DEF TerminalMoves, Input!Next
  <2> QED BY <2>1, <2>2
<1>4. \A g \in Harts : act'[g].c \in Chars
  <2>1. HandsKept
    BY HartHands
  <2>2. "nul" \in Chars
    BY DEF Chars
  <2> QED BY <2>1, <2>2 DEF HandsKept, LineKept
<1>5. input' \in Seq(Chars) /\ rx' \in Seq(Chars)
  BY <1>1 DEF LineKept
<1>6. LineKept'
  BY <1>3, <1>4, <1>5 DEF LineKept, Seg
<1> QED BY <1>3, <1>6

\* console.c, consoleread(): it takes the next character, or none.
LEMMA ReadLine ==
    ASSUME PInv, IInv, LineKept, NEW h \in Harts, ReadMore(h) \/ ReadDone(h)
    PROVE  LineKept' /\ TerminalMoves
<1>1. HandsKept
  BY ThreadHands
<1>2. UNCHANGED <<input, rx>>
  BY DEF ReadMore, ReadDone, device
<1>3. \/ cons.r # cons.w /\ cons' = [cons EXCEPT !.r = Inc(@)]
      \/ cons' = cons
  BY DEF ReadMore, ReadDone, Consumed
<1>4. CASE cons' = cons
  BY <1>1, <1>2, <1>4, RestKeepsLine, RingStays DEF HandsKept
<1>5. CASE cons.r # cons.w /\ cons' = [cons EXCEPT !.r = Inc(@)]
  <2>1. Input!Take /\ cons'.buf = cons.buf /\ cons'.w = cons.w /\ cons'.e = cons.e
    BY <1>5, ReadTakes
  <2>2. Seg(cons.w, cons.e)' = Seg(cons.w, cons.e)
    BY <2>1 DEF Input!Take
  <2>3. \A g \in Harts : act'[g].c \in Chars
    <3>1. "nul" \in Chars
      BY DEF Chars
    <3> QED BY <1>1, <3>1 DEF HandsKept, LineKept
  <2>4. LineKept'
    BY <1>2, <2>1, <2>2, <2>3 DEF LineKept
  <2> QED BY <2>1, <2>4 DEF TerminalMoves, Input!Next
<1> QED BY <1>3, <1>4, <1>5

\* Sequences of characters.
LEMMA TextFacts ==
    /\ <<>> \in Seq(Chars)
    /\ \A s \in Seq(Chars) : s # <<>> => Head(s) \in Chars /\ Tail(s) \in Seq(Chars)
    /\ \A s \in Seq(Chars) : \A c \in Chars : Append(s, c) \in Seq(Chars)
BY SMT

\* uart.c: characters that come from the line are characters.
LEMMA PollLine ==
    ASSUME IInv, LineKept, NEW h \in Harts, Poll(h)
    PROVE  LineKept' /\ TerminalMoves
<1>1. PICK t : t = act[h]
  OBVIOUS
<1>2. Record(t) /\ t.c \in Chars /\ rx \in Seq(Chars)
  BY <1>1 DEF IInv, TypeOK, LineKept
<1>3. act = [y \in Harts \cup Threads |-> act[y]]
  BY DEF IInv, TypeOK
<1>4. cons' = cons /\ input' = input
  BY DEF Poll
<1>5. PICK b : act' = [act EXCEPT ![h] = b] /\ b.c \in Chars /\ rx' \in Seq(Chars)
  <2>1. CASE rx # <<>>
    <3>1. Head(rx) \in Chars /\ Tail(rx) \in Seq(Chars)
      BY <1>2, <2>1, TextFacts
    <3>2. Spin([t EXCEPT !.c = Head(rx)], "cons", "key").c = Head(rx)
      BY <1>2, SMT DEF Spin, Record
    <3>3. act' = [act EXCEPT ![h] = Spin([t EXCEPT !.c = Head(rx)], "cons", "key")] /\ rx' = Tail(rx)
      BY <1>1, <2>1 DEF Poll
    <3> QED BY <3>1, <3>2, <3>3
  <2>2. CASE rx = <<>>
    <3>1. Spin(t, "tx", "start").c = t.c
      BY <1>2, SMT DEF Spin, Record
    <3>2. act' = [act EXCEPT ![h] = Spin(t, "tx", "start")] /\ rx' = rx
      BY <1>1, <2>2 DEF Poll
    <3> QED BY <1>2, <3>1, <3>2
  <2> QED BY <2>1, <2>2
<1>6. ASSUME NEW g \in Harts PROVE act'[g].c \in Chars
  <2>1. CASE g = h
    BY <1>3, <1>5, <2>1
  <2>2. CASE g # h
    <3>1. act'[g] = act[g]
      BY <1>3, <1>5, <2>2
    <3> QED BY <3>1 DEF LineKept
  <2> QED BY <2>1, <2>2
<1>7. LineKept'
  BY <1>4, <1>5, <1>6 DEF LineKept, Seg
<1> QED BY <1>4, <1>7, RingStays

LEMMA TypeLine ==
    ASSUME LineKept, Type
    PROVE  LineKept' /\ TerminalMoves
<1>1. input \in Seq(Chars) /\ rx \in Seq(Chars) /\ input # <<>>
  BY DEF LineKept, Type
<1>2. rx' = Append(rx, Head(input)) /\ input' = Tail(input) /\ cons' = cons /\ act' = act
  BY DEF Type
<1>3. rx' \in Seq(Chars) /\ input' \in Seq(Chars)
  BY <1>1, <1>2, TextFacts
<1>4. LineKept'
  BY <1>2, <1>3 DEF LineKept, Seg
<1> QED BY <1>2, <1>4, RingStays

\* Every step of the console is a step of the terminal, or none.
LEMMA NextLine ==
    ASSUME PInv, IInv, LineKept, [Next]_vars
    PROVE  LineKept' /\ TerminalMoves
<1>1. ASSUME act' = act, cons' = cons, rx' = rx, input' = input
      PROVE  LineKept' /\ TerminalMoves
  BY <1>1, RestKeepsLine, RingStays
<1>2. CASE UNCHANGED vars \/ Halted
  BY <1>1, <1>2 DEF vars, Halted
<1>3. CASE Transmit \/ \E p \in Threads : Kill(p)
  BY <1>1, <1>3 DEF Transmit, Kill, device
<1>4. CASE Type
  BY <1>4, TypeLine
<1>5. ASSUME NEW h \in Harts, Hart(h) \/ Interrupt(h) \/ Call(h)
      PROVE  LineKept' /\ TerminalMoves
  <2>1. CASE Store(h)
    BY <2>1, StoreLine
  <2>2. CASE ReadMore(h) \/ ReadDone(h)
    BY <2>2, ReadLine
  <2>3. CASE Poll(h)
    BY <2>3, PollLine
  <2>4. ASSUME HandsKept, cons' = cons, rx' = rx, input' = input
        PROVE  LineKept' /\ TerminalMoves
    BY <2>4, RestKeepsLine, RingStays DEF HandsKept
  <2>5. CASE \/ Put(h) \/ Report(h) \/ Reported(h) \/ Faulted(h) \/ Written(h) \/ Write(h)
             \/ ReadTest(h) \/ ReadWait(h) \/ Call(h)
    <3>1. HandsKept
      BY <2>5, ThreadHands
    <3>2. cons' = cons /\ rx' = rx /\ input' = input
      BY <2>5 DEF Put, Report, Reported, Faulted, Written, Write, ReadTest, ReadWait, Call, device
    <3> QED BY <2>4, <3>1, <3>2
  <2>6. CASE \/ Acquire(h) \/ PutSync(h) \/ WriteThr(h) \/ Key(h) \/ Dumped(h)
             \/ Start(h) \/ Send(h) \/ Started(h) \/ Dispatch(h) \/ Interrupt(h)
    <3>1. HandsKept
      BY <2>6, HartHands
    <3>2. cons' = cons /\ rx' = rx /\ input' = input
      BY <2>6 DEF Acquire, PutSync, WriteThr, Key, Dumped, Start, Send, Started, Dispatch, Interrupt, device
    <3> QED BY <2>4, <3>1, <3>2
  <2> QED BY <1>5, <2>1, <2>2, <2>3, <2>5, <2>6 DEF Hart
<1> QED BY <1>2, <1>3, <1>4, <1>5 DEF Next

\* The first line is an uncommitted one that any earlier input may have left.
LEMMA InitLine ==
    ASSUME Init, PInv
    PROVE  LineKept /\ Input!Init
<1>1. cons.buf \in Texts
  BY ConsoleAssumption DEF Init, ConsoleAssumption, Buffers, Texts, Slots
<1>2. input \in Seq(Chars) /\ rx \in Seq(Chars)
  BY InputAssumption, TextFacts DEF Init, InputAssumption
<1>3. \A h \in Harts : act[h].c \in Chars
  <2>1. \A h \in Harts : act[h] = Quiet
    BY DEF Init
  <2>2. Quiet.c = "nul" /\ "nul" \in Chars
    BY DEF Quiet, Chars
  <2> QED BY <2>1, <2>2
<1>4. \A i \in 1..Dist(cons.e, cons.w) : Seg(cons.w, cons.e)[i] \notin LineEnds
  BY InputAssumption DEF Init, InputAssumption, Seg
<1>5. LineKept
  BY <1>1, <1>2, <1>3, <1>4 DEF LineKept
<1>6. Len(Seg(cons.r, cons.w)) + Len(Seg(cons.w, cons.e)) <= INPUT_BUF_SIZE
  BY <1>5, RingFacts
<1> QED BY <1>5, <1>6 DEF Input!Init

\* console.c: the ring of cons.buf with its three wrapping indices, changed by the
\* interrupt handlers of all harts and by readers, is an edited line and a queue of
\* committed characters, each read once and in order: for every size of the buffer,
\* every place of the wrap-around, any input and any number of harts and threads.
THEOREM RefinesTerminal == Spec => ImplementsTerminal
<1>1. Init /\ PInv => LineKept /\ Input!Init
  BY InitLine
<1>2. PInv /\ IInv /\ LineKept /\ [Next]_vars => LineKept' /\ TerminalMoves
  BY NextLine
<1>3. TerminalMoves => [Input!Next]_<<Seg(cons.r, cons.w), Seg(cons.w, cons.e)>>
  BY DEF TerminalMoves
<1> QED BY <1>1, <1>2, <1>3, Invariance, PTL DEF Spec, ImplementsTerminal, Input!Spec

=============================================================================
