----------------------------- MODULE LogProofs -----------------------------
(***************************************************************************)
(* Proofs about the redo log: IInv is an invariant, and the log implements *)
(* the atomic disk.                                                        *)
(***************************************************************************)
EXTENDS Log, FiniteSetTheorems, TLAPS

\* Most leaves are first-order: Zenon proves them. The others name SMT.
USE Zenon

\* What the sequence operators of the log mean, entry by entry.
LEMMA SeqFacts ==
    ASSUME NEW S, NEW q \in Seq(S)
    PROVE  /\ Len(q) \in Nat
           /\ \A k \in 1..Len(q) : q[k] \in S
           /\ \A b : b \in Range(q) <=> \E k \in 1..Len(q) : q[k] = b
           /\ IsInjective(q) <=> \A i, j \in 1..Len(q) : q[i] = q[j] => i = j
BY SMT DEF Range, IsInjective

\* Appending a new block number to an injective sequence.
LEMMA AppendFacts ==
    ASSUME NEW S, NEW q \in Seq(S), NEW b \in S
    PROVE  /\ Append(q, b) \in Seq(S)
           /\ Len(Append(q, b)) = Len(q) + 1
           /\ \A k \in 1..Len(q) : Append(q, b)[k] = q[k]
           /\ Append(q, b)[Len(q) + 1] = b
BY SMT

\* The empty sequence has no entries and is injective.
LEMMA EmptyFacts ==
    ASSUME NEW S
    PROVE  /\ <<>> \in Seq(S) /\ Len(<<>>) = 0
           /\ IsInjective(<<>>)
           /\ \A b : b \notin Range(<<>>)
BY SMT DEF Range, IsInjective

\* At most one process commits, so a commit is in one phase only, and there is
\* none during recovery.
LEMMA PhaseFacts ==
    ASSUME OneCommitter
    PROVE  /\ \A p \in Procs : op[p].pc \in Committers =>
                /\ boot \in {"up", "panic"} \/ boot \notin {"read_head", "recover"}
                /\ committing
                /\ \A pc \in Committers : Phase(pc) <=> pc = op[p].pc
           /\ \A p \in Procs : op[p].pc = "in" => ~committing
           /\ ~committing => \A pc \in Committers : ~Phase(pc)
           /\ boot \in {"read_head", "recover"} =>
                ~committing /\ \A pc \in Committers : ~Phase(pc)
<1> USE DEF OneCommitter, Phase, Committers, Out
<1>1. ASSUME NEW p \in Procs, op[p].pc \in Committers
      PROVE  /\ boot \notin {"read_head", "recover"} /\ committing
             /\ \A pc \in Committers : Phase(pc) <=> pc = op[p].pc
  BY <1>1, SMT
<1>2. ~committing => \A pc \in Committers : ~Phase(pc)
  OBVIOUS
<1>3. boot \in {"read_head", "recover"} => ~committing
  BY SMT
<1>4. \A p \in Procs : op[p].pc = "in" => ~committing
  OBVIOUS
<1> QED BY <1>1, <1>2, <1>3, <1>4

\* Steps that leave the processes alone leave the phases alone.
LEMMA SameProcs ==
    ASSUME OneCommitter, UNCHANGED <<outstanding, committing, op, boot>>
    PROVE  OneCommitter' /\ \A pc : Phase(pc)' <=> Phase(pc)
BY DEF OneCommitter, active, Phase, Committers, Out

\* The pending blocks change only with the log, or once a commit installs them.
LEMMA SamePending ==
    ASSUME lh' = lh, ~Phase("install"), ~Phase("install")'
    PROVE  Pending' = Pending
BY DEF Pending

\* The buffers of the pending blocks stay as they are.
LEMMA SamePins ==
    ASSUME Pins, home' = home, buf' = buf, pinned' = pinned, boot' = boot, Pending' = Pending
    PROVE  Pins'
BY DEF Pins

\* bread() of an uncached block, and bget() for another block.
LEMMA CacheInv ==
    ASSUME IInv, NEW b \in Blocks, Read(b) \/ Recycle(b)
    PROVE  IInv'
<1> USE DEF IInv
<1>1. /\ UNCHANGED <<home, logdata, head, pinned, lh, outstanding, committing, op, tail, boot>>
      /\ \E v \in {NoBuf, home[b]} : buf' = [buf EXCEPT ![b] = v]
  BY DEF Read, Recycle, disk
<1>2. OneCommitter' /\ \A pc : Phase(pc)' <=> Phase(pc)
  BY <1>1, SameProcs
<1>3. TypeOK'
  BY <1>1, NoBufAssumption DEF TypeOK
<1>4. Pending' = Pending
  BY <1>1, <1>2 DEF Pending
<1>5. LogShape'
  BY <1>1, <1>2 DEF LogShape
<1>6. b \notin Pending \/ boot \in {"read_head", "recover"}
  BY SMT DEF Read, Recycle, Pins, TypeOK
<1>7. \A c \in Blocks : c # b => buf'[c] = buf[c]
  BY <1>1 DEF TypeOK
<1>8. buf'[b] \in {NoBuf, home[b]}
  BY <1>1 DEF TypeOK
<1>9. Pins'
  BY <1>1, <1>4, <1>6, <1>7, <1>8, SMT DEF Pins, TypeOK
<1>10. Copies'
  <2>1. CASE boot \in {"read_head", "recover"}
    BY <2>1, <1>1, <1>2, PhaseFacts DEF Copies, Committers
  <2>2. CASE b \notin Pending
    <3>1. ASSUME NEW k \in 1..Len(lh), Phase("write_log") \/ (Phase("install") /\ k > tail)
          PROVE  buf'[lh[k]] = buf[lh[k]]
      <4>1. lh[k] \in Blocks
        BY SeqFacts DEF TypeOK
      <4>2. ~(Phase("write_log") /\ Phase("install"))
        BY PhaseFacts DEF Phase, Committers
      <4>3. lh[k] \in Pending
        BY <3>1, <4>1, <4>2 DEF Pending
      <4> QED BY <2>2, <4>1, <4>3, <1>7
    <3>2. tail \in Nat /\ tail <= Len(lh) /\ Len(lh) \in Nat
      BY SeqFacts DEF LogShape, TypeOK
    <3>3. \A k \in 1..tail : k \in 1..Len(lh)
      BY <3>2, SMT
    <3> QED BY <3>1, <3>3, <1>1, <1>2 DEF Copies
  <2> QED BY <2>1, <2>2, <1>6
<1> QED BY <1>2, <1>3, <1>5, <1>9, <1>10

\* There are finitely many operations.
LEMMA ActiveFinite == IsFiniteSet(active) /\ Cardinality(active) \in Nat
<1>1. active \subseteq Procs
  BY DEF active
<1> QED BY <1>1, ProcsAssumption, FS_Subset, FS_CardinalityType

\* begin_op()
LEMMA BeginOpInv ==
    ASSUME IInv, NEW p \in Procs, BeginOp(p)
    PROVE  IInv'
<1> USE DEF IInv
<1>1. /\ UNCHANGED <<home, logdata, head, buf, pinned, lh, committing, tail, boot>>
      /\ boot = "up" /\ op[p].pc \in {"out", "begin"}
      /\ \/ op' = [op EXCEPT ![p] = [pc |-> "asleep", wrote |-> {}]] /\ outstanding' = outstanding
         \/ /\ op' = [op EXCEPT ![p] = [pc |-> "in", wrote |-> {}]]
            /\ outstanding' = outstanding + 1 /\ ~committing
  BY DEF BeginOp, Goto, disk
<1>2. /\ \A q \in Procs : q # p => op'[q] = op[q]
      /\ op'[p].pc \in {"asleep", "in"}
      /\ op \in Ops
  BY <1>1, SMT DEF TypeOK, Ops
<1>3. TypeOK'
  <2>1. op' \in Ops
    BY <1>1, <1>2, SMT DEF Ops, Pcs
  <2> QED BY <2>1, <1>1, SMT DEF TypeOK
<1>4. \A q \in Procs, pc \in Committers : op'[q].pc = pc <=> op[q].pc = pc
  BY <1>1, <1>2 DEF Committers
<1>5. \A pc \in Committers : Phase(pc)' <=> Phase(pc)
  BY <1>4 DEF Phase
<1>6. OneCommitter'
  <2>1. IsFiniteSet(active) /\ p \notin active
    BY <1>1, ActiveFinite DEF active
  <2>2. CASE op'[p].pc = "asleep"
    <3>1. \A q \in Procs : op'[q].pc = "in" <=> op[q].pc = "in"
      BY <2>2, <1>1, <1>2
    <3>2. active' = active /\ outstanding' = outstanding
      BY <3>1, <2>2, <1>1, <1>2, SMT DEF active, Ops
    <3> QED BY <3>1, <3>2, <1>1, <1>4, SMT DEF OneCommitter
  <2>3. CASE op'[p].pc = "in"
    <3>1. outstanding' = outstanding + 1 /\ ~committing
      BY <2>3, <1>1, <1>2, SMT DEF Ops
    <3>2. active' = active \cup {p}
      BY <2>3, <1>2 DEF active
    <3>3. Cardinality(active') = Cardinality(active) + 1
      BY <3>2, <2>1, FS_AddElement
    <3>4. \A q \in Procs : op[q].pc \notin Committers
      BY <3>1 DEF OneCommitter
    <3>5. \A q \in Procs : op'[q].pc \notin Committers
      BY <3>4, <1>4
    <3> QED BY <3>1, <3>3, <3>5, <1>1 DEF OneCommitter
  <2> QED BY <2>2, <2>3, <1>2
<1>7. Pending' = Pending
  BY <1>1, <1>5 DEF Pending, Committers
<1>8. LogShape' /\ Pins' /\ Copies'
  BY <1>1, <1>5, <1>7 DEF LogShape, Pins, Copies, Committers
<1> QED BY <1>3, <1>6, <1>8

\* While an operation is in progress nothing is being committed.
LEMMA InOperation ==
    ASSUME IInv, NEW p \in Procs, At(p, "in")
    PROVE  /\ ~committing /\ \A pc \in Committers : ~Phase(pc)
           /\ \A q \in Procs : op[q].pc \notin Committers
           /\ head = <<>> /\ Pending = Range(lh)
<1>1. ~committing /\ (\A pc \in Committers : ~Phase(pc))
  <2>1. OneCommitter /\ op[p].pc = "in"
    BY DEF IInv, At
  <2> QED BY <2>1, PhaseFacts
<1>2. Range(lh) \subseteq Blocks /\ \A b : b \in Range(lh) <=> \E k \in 1..Len(lh) : lh[k] = b
  <2>1. lh \in Seq(Blocks)
    BY DEF IInv, TypeOK
  <2> QED BY <2>1, SeqFacts, SMT
<1>3. Pending = Range(lh)
  BY <1>1, <1>2 DEF Pending, Committers
<1> QED BY <1>1, <1>3 DEF IInv, LogShape, At, Committers, Phase

\* log_write() of a block the process has just changed.
LEMMA LogWriteInv ==
    ASSUME IInv, NEW p \in Procs, NEW b \in Blocks, NEW d \in Data, LogWritten(p, b, d)
    PROVE  IInv'
<1> USE DEF IInv
<1>1. /\ UNCHANGED <<home, logdata, head, outstanding, committing, tail, boot>>
      /\ boot = "up" /\ At(p, "in") /\ op[p].pc = "in"
      /\ ~(Len(lh) >= LOGSIZE)
      /\ buf' = [buf EXCEPT ![b] = d]
      /\ op' = [op EXCEPT ![p] = [pc |-> "in", wrote |-> op[p].wrote \cup {b}]]
      /\ \/ b \in Range(lh) /\ lh' = lh /\ pinned' = pinned
         \/ /\ b \notin Range(lh) /\ lh' = Append(lh, b)
            /\ pinned' = [pinned EXCEPT ![b] = pinned[b] + 1]
  BY DEF LogWritten, MayWrite, LogWritePanics, At, disk
<1>2. /\ ~committing /\ \A pc \in Committers : ~Phase(pc)
      /\ \A q \in Procs : op[q].pc \notin Committers
      /\ head = <<>> /\ Pending = Range(lh)
  BY <1>1, InOperation
<1>3. /\ Len(lh) \in Nat /\ \A k \in 1..Len(lh) : lh[k] \in Blocks
      /\ \A c : c \in Range(lh) <=> \E k \in 1..Len(lh) : lh[k] = c
      /\ \A i, j \in 1..Len(lh) : lh[i] = lh[j] => i = j
  <2>1. lh \in Seq(Blocks) /\ IsInjective(lh)
    BY DEF TypeOK, LogShape
  <2> QED BY <2>1, SeqFacts
<1>4. /\ op \in Ops
      /\ \A q \in Procs : op'[q].pc = op[q].pc
  BY <1>1 DEF TypeOK, Ops
<1>5. lh' \in Seq(Blocks) /\ Len(lh') \in Nat /\ Len(lh) <= Len(lh') /\ Len(lh') <= LOGSIZE
  <2>1. lh \in Seq(Blocks) /\ Append(lh, b) \in Seq(Blocks)
        /\ Len(Append(lh, b)) = Len(lh) + 1
    BY AppendFacts DEF TypeOK
  <2>2. Len(lh) + 1 <= LOGSIZE /\ LOGSIZE \in Nat
    BY <1>1, <1>3, SizesAssumption, SMT
  <2>3. lh' = lh \/ lh' = Append(lh, b)
    BY <1>1
  <2> QED BY <2>1, <2>2, <2>3, <1>3, SMT
<1>6. \A i, j \in 1..Len(lh') : lh'[i] = lh'[j] => i = j
  <2>1. CASE lh' = lh
    BY <2>1, <1>3
  <2>2. CASE b \notin Range(lh) /\ lh' = Append(lh, b)
    <3>1. /\ Len(lh') = Len(lh) + 1 /\ lh'[Len(lh) + 1] = b
          /\ \A k \in 1..Len(lh) : lh'[k] = lh[k] /\ lh[k] # b
      <4>1. /\ Len(Append(lh, b)) = Len(lh) + 1 /\ Append(lh, b)[Len(lh) + 1] = b
            /\ \A k \in 1..Len(lh) : Append(lh, b)[k] = lh[k]
        BY AppendFacts, SMT DEF TypeOK
      <4> QED BY <2>2, <1>3, <4>1
    <3>2. \A i \in 1..Len(lh') : i \in 1..Len(lh) \/ i = Len(lh) + 1
      BY <3>1, <1>3, SMT
    <3> QED BY <3>1, <3>2, <1>3
  <2> QED BY <2>1, <2>2, <1>1
<1>7. \A c \in Blocks : (\E k \in 1..Len(lh') : lh'[k] = c) <=> c \in Range(lh) \/ c = b
  <2>1. CASE b \in Range(lh) /\ lh' = lh
    BY <2>1, <1>3
  <2>2. CASE b \notin Range(lh) /\ lh' = Append(lh, b)
    <3>1. /\ Len(lh') = Len(lh) + 1 /\ lh'[Len(lh) + 1] = b
          /\ \A k \in 1..Len(lh) : lh'[k] = lh[k]
      BY <2>2, <1>3, AppendFacts, SMT DEF TypeOK
    <3>2. \A i \in 1..Len(lh') : i \in 1..Len(lh) \/ i = Len(lh) + 1
      BY <3>1, <1>3, SMT
    <3>3. Len(lh) + 1 \in 1..Len(lh') /\ \A i \in 1..Len(lh) : i \in 1..Len(lh')
      BY <3>1, <1>3, SMT
    <3> QED BY <3>1, <3>2, <3>3, <1>3
  <2> QED BY <2>1, <2>2, <1>1
<1>8. TypeOK'
  <2>1. op' \in Ops
    BY <1>1, <1>4 DEF Ops, Pcs
  <2> QED BY <2>1, <1>1, <1>5, SMT DEF TypeOK
<1>9. OneCommitter' /\ \A pc \in Committers : ~Phase(pc)'
  <2>1. active' = active
    BY <1>4 DEF active
  <2>2. outstanding' = Cardinality(active')
    BY <2>1, <1>1 DEF OneCommitter
  <2>3. \A q \in Procs : op'[q].pc \notin Committers
    BY <1>2, <1>4
  <2> QED BY <2>2, <2>3, <1>1, <1>2 DEF OneCommitter, Phase
<1>10. LogShape'
  <2>1. IsInjective(lh')
    BY <1>5, <1>6, SeqFacts
  <2> QED BY <2>1, <1>1, <1>2, <1>5, <1>9, SMT DEF LogShape, Committers, TypeOK
<1>11. \A c \in Blocks : c \in Pending' <=> c \in Range(lh) \/ c = b
  BY <1>7, <1>9 DEF Pending, Committers
<1>12. Pins'
  <2>1. pinned'[b] = 1 /\ \A c \in Blocks : c # b => pinned'[c] = pinned[c]
    BY <1>1, <1>2, SMT DEF Pins, TypeOK
  <2>2. buf'[b] = d /\ d # NoBuf /\ \A c \in Blocks : c # b => buf'[c] = buf[c]
    BY <1>1, NoBufAssumption DEF TypeOK
  <2>3. Pending' \subseteq Blocks
    BY DEF Pending
  <2> QED BY <2>1, <2>2, <2>3, <1>1, <1>2, <1>11 DEF Pins
<1>13. Copies'
  BY <1>1, <1>9 DEF Copies, Committers
<1> QED BY <1>8, <1>9, <1>10, <1>12, <1>13

\* wakeup() touches sleepers only.
LEMMA WokenFacts ==
    ASSUME NEW f \in Ops
    PROVE  /\ Woken(f) \in Ops
           /\ \A q \in Procs : \A pc \in Committers \cup {"in"} :
                    Woken(f)[q].pc = pc <=> f[q].pc = pc
BY DEF Ops, Woken, Pcs, Committers

\* log_write() that panics.
LEMMA LogWritePanicInv ==
    ASSUME IInv, NEW p \in Procs, NEW b \in Blocks, LogWritePanic(p, b)
    PROVE  IInv'
<1> USE DEF IInv
<1>1. /\ UNCHANGED <<home, logdata, head, buf, pinned, lh, outstanding, committing, op, tail>>
      /\ boot = "up" /\ boot' = "panic"
  BY SMTT(20) DEF LogWritePanic, MayWrite, At, disk
<1>2. OneCommitter' /\ \A pc : Phase(pc)' <=> Phase(pc)
  BY <1>1 DEF OneCommitter, active, Phase, Committers
<1>3. Pending' = Pending
  BY <1>1, <1>2 DEF Pending
<1>4. TypeOK'
  BY <1>1 DEF TypeOK
<1>5. LogShape'
  BY <1>1, <1>2 DEF LogShape
<1>6. Pins'
  BY <1>1, <1>3 DEF Pins
<1>7. Copies'
  BY <1>1, <1>2 DEF Copies
<1> QED BY <1>2, <1>4, <1>5, <1>6, <1>7

\* The end_op() of the last operation, which starts the commit.
LEMMA EndOpLastInv ==
    ASSUME IInv, NEW p \in Procs, EndOpLast(p)
    PROVE  IInv'
<1> USE DEF IInv
<1> DEFINE npc == IF lh = <<>> THEN "done" ELSE "write_log"
<1>1. At(p, "in") /\ boot = "up" /\ op[p].pc = "in" /\ outstanding = 1
  BY DEF EndOpLast, At
<1>2. /\ ~committing /\ \A pc \in Committers : ~Phase(pc)
      /\ \A q \in Procs : op[q].pc \notin Committers
      /\ head = <<>> /\ Pending = Range(lh)
  BY <1>1, InOperation
<1>3. /\ UNCHANGED <<home, logdata, head, buf, pinned, lh, boot>>
      /\ op' = [op EXCEPT ![p] = [pc |-> npc, wrote |-> {}]]
      /\ tail' = 0 /\ outstanding' = 0 /\ committing' = TRUE
  BY <1>2 DEF EndOpLast, Goto, disk
<1>4. active = {p}
  <2>1. IsFiniteSet(active) /\ Cardinality(active) = 1 /\ p \in active
    BY <1>1, ActiveFinite DEF OneCommitter, active
  <2>2. PICK x : active = {x}
    BY <2>1, FS_Singleton
  <2> QED BY <2>1, <2>2
<1>5. /\ op \in Ops
      /\ op'[p].pc = npc /\ \A q \in Procs : q # p => op'[q] = op[q] /\ op[q].pc # "in"
  BY <1>3, <1>4 DEF TypeOK, Ops, active
<1>6. npc \in {"done", "write_log"} /\ (npc = "done" => lh = <<>>)
  OBVIOUS
<1> HIDE DEF npc
<1>7. TypeOK'
  <2>1. op' \in Ops
    BY <1>3, <1>5, <1>6 DEF Ops, Pcs, Committers
  <2> QED BY <2>1, <1>3 DEF TypeOK
<1>8. OneCommitter'
  <2>1. active' = {}
    BY <1>5, <1>6 DEF active
  <2>2. outstanding' = Cardinality(active')
    BY <2>1, <1>3, FS_EmptySet
  <2>3. \A q \in Procs : op'[q].pc \in Committers <=> q = p
    BY <1>2, <1>5, <1>6 DEF Committers
  <2>4. \A q \in Procs : op'[q].pc # "in"
    BY <1>5, <1>6
  <2> QED BY <2>2, <2>3, <2>4, <1>1, <1>3 DEF OneCommitter
<1>9. ~Phase("install")' /\ (Phase("done")' => lh = <<>>)
  BY <1>2, <1>5, <1>6 DEF Phase, Committers
<1>10. Pending' = Pending
  BY <1>2, <1>3, <1>9 DEF Pending, Committers
<1>11. Len(lh) \in Nat
  BY SeqFacts DEF TypeOK
<1>12. LogShape'
  BY <1>1, <1>2, <1>3, <1>9, <1>11, SMT DEF LogShape
<1>13. Pins'
  BY <1>3, <1>10, SamePins
<1>14. Copies'
  BY <1>1, <1>3, <1>9, SMT DEF Copies
<1> QED BY <1>7, <1>8, <1>12, <1>13, <1>14

\* The end_op() of an operation that leaves others in progress.
LEMMA EndOpEarlyInv ==
    ASSUME IInv, NEW p \in Procs, EndOpEarly(p)
    PROVE  IInv'
<1> USE DEF IInv
<1> DEFINE f == [op EXCEPT ![p] = Out]
<1>1. At(p, "in") /\ boot = "up" /\ op[p].pc = "in"
  BY DEF EndOpEarly, At
<1>2. /\ ~committing /\ \A pc \in Committers : ~Phase(pc)
      /\ \A q \in Procs : op[q].pc \notin Committers
      /\ head = <<>> /\ Pending = Range(lh)
  BY <1>1, InOperation
<1>3. /\ UNCHANGED <<home, logdata, head, buf, pinned, lh, committing, tail, boot>>
      /\ op' = Woken(f) /\ outstanding' = outstanding - 1
  BY <1>2 DEF EndOpEarly, disk
<1>4. /\ f \in Ops
      /\ f[p].pc = "out" /\ \A q \in Procs : q # p => f[q] = op[q]
  BY DEF TypeOK, Ops, Out, Pcs
<1> HIDE DEF f
<1>5. /\ op' \in Ops
      /\ \A q \in Procs : \A pc \in Committers \cup {"in"} : op'[q].pc = pc <=> f[q].pc = pc
  BY <1>3, <1>4, WokenFacts, SMT
<1>6. \A q \in Procs : op'[q].pc \notin Committers
  BY <1>2, <1>4, <1>5, SMT DEF Committers
<1>7. /\ outstanding' = Cardinality(active') /\ outstanding' \in Nat
  <2>1. IsFiniteSet(active) /\ p \in active /\ outstanding = Cardinality(active)
    BY <1>1, ActiveFinite DEF OneCommitter, active
  <2>2. active' = active \ {p}
    BY <1>4, <1>5 DEF active
  <2>3. Cardinality(active \ {p}) = Cardinality(active) - 1 /\ IsFiniteSet(active \ {p})
    BY <2>1, FS_RemoveElement
  <2> QED BY <2>1, <2>2, <2>3, <1>3, FS_CardinalityType
<1>8. OneCommitter' /\ \A pc \in Committers : ~Phase(pc)'
  BY <1>1, <1>2, <1>3, <1>6, <1>7 DEF OneCommitter, Phase
<1>9. TypeOK'
  BY <1>3, <1>5, <1>7 DEF TypeOK
<1>10. Pending' = Pending
  <2>1. ~Phase("install") /\ ~Phase("install")'
    BY <1>2, <1>8 DEF Committers
  <2> QED BY <2>1, <1>3, SamePending
<1>11. LogShape'
  BY <1>1, <1>2, <1>3, <1>8 DEF LogShape, Committers
<1>12. Pins'
  BY <1>3, <1>10, SamePins
<1>13. Copies'
  BY <1>1, <1>3, <1>8 DEF Copies, Committers
<1> QED BY <1>8, <1>9, <1>11, <1>12, <1>13

\* The entries of the log, as block numbers.
LEMMA LogEntries ==
    ASSUME IInv
    PROVE  /\ lh \in Seq(Blocks) /\ Len(lh) \in Nat /\ Len(lh) <= LOGSIZE
           /\ \A k \in 1..Len(lh) : lh[k] \in Blocks
           /\ \A i, j \in 1..Len(lh) : lh[i] = lh[j] => i = j
           /\ \A b : b \in Range(lh) <=> \E k \in 1..Len(lh) : lh[k] = b
           /\ tail \in Nat /\ tail <= Len(lh) /\ LOGSIZE \in Nat
<1>1. lh \in Seq(Blocks) /\ IsInjective(lh) /\ Len(lh) <= LOGSIZE
      /\ tail \in Nat /\ tail <= Len(lh)
  BY DEF IInv, TypeOK, LogShape
<1>2. LOGSIZE \in Nat
  BY SizesAssumption, SMTT(20)
<1> QED BY <1>1, <1>2, SeqFacts

\* While p commits, the phase is p's and the system is up.
LEMMA InCommit ==
    ASSUME IInv, NEW p \in Procs, NEW pc \in Committers, At(p, pc)
    PROVE  /\ boot = "up" /\ committing
           /\ \A c \in Committers : Phase(c) <=> c = pc
           /\ \A q \in Procs : op[q].pc # "in" /\ (q # p => op[q].pc \notin Committers)
<1>1. boot = "up" /\ op[p].pc = pc /\ OneCommitter
  BY DEF At, IInv
<1>2. committing /\ \A c \in Committers : Phase(c) <=> c = pc
  BY <1>1, PhaseFacts
<1> QED BY <1>1, <1>2 DEF OneCommitter

\* write_log() copies one more block.
LEMMA WriteLogInv ==
    ASSUME IInv, NEW p \in Procs, WriteLog(p)
    PROVE  IInv'
<1> USE DEF IInv
<1> DEFINE b == lh[tail + 1]
<1>1. /\ boot = "up" /\ Phase("write_log") /\ ~Phase("install") /\ ~Phase("done")
  <2>1. At(p, "write_log") /\ "write_log" \in Committers
    BY DEF WriteLog, Committers
  <2> QED BY <2>1, InCommit DEF Committers
<1>2. /\ UNCHANGED <<home, head, pinned, lh, outstanding, committing, op, boot>>
      /\ tail < Len(lh) /\ tail' = tail + 1
      /\ logdata' = [logdata EXCEPT ![tail + 1] = bread(b)]
      /\ buf' = [buf EXCEPT ![b] = bread(b)]
  BY DEF WriteLog
<1>3. tail + 1 \in 1..Len(lh) /\ tail + 1 \in 1..LOGSIZE /\ b \in Blocks
  BY <1>2, LogEntries, SMT
<1>4. b \in Pending
  BY <1>1, <1>3 DEF Pending
<1>5. bread(b) = buf[b] /\ buf[b] \in Data
  BY <1>1, <1>3, <1>4 DEF Pins, bread, TypeOK
<1>6. buf' = buf /\ logdata' = [logdata EXCEPT ![tail + 1] = buf[b]]
  BY <1>2, <1>3, <1>5 DEF TypeOK
<1>7. TypeOK'
  BY <1>2, <1>3, <1>5, <1>6, SMT DEF TypeOK
<1>8. OneCommitter' /\ \A pc : Phase(pc)' <=> Phase(pc)
  BY <1>2, SameProcs
<1>9. Pending' = Pending
  BY <1>1, <1>2, <1>8 DEF Pending
<1>10. LogShape'
  BY <1>1, <1>2, <1>3, <1>8, LogEntries, SMT DEF LogShape
<1>11. Pins'
  BY <1>2, <1>6, <1>9 DEF Pins
<1>12. Copies'
  <2>1. ASSUME NEW k \in 1..tail' PROVE logdata'[k] = buf[lh[k]]
    <3>1. k \in 1..tail \/ k = tail + 1
      BY <1>2, LogEntries, SMT
    <3>2. k \in 1..LOGSIZE
      BY <3>1, <1>3, LogEntries, SMT
    <3> QED BY <3>1, <3>2, <1>1, <1>3, <1>6, LogEntries DEF Copies, TypeOK
  <2> QED BY <2>1, <1>1, <1>2, <1>6, <1>8 DEF Copies
<1> QED BY <1>7, <1>8, <1>10, <1>11, <1>12

\* How the phases move when the committing process goes on to npc.
LEMMA CommitterMoves ==
    ASSUME IInv, NEW p \in Procs, NEW pc \in Committers, At(p, pc), NEW npc \in Committers,
           Goto(p, npc), UNCHANGED <<outstanding, committing, boot>>
    PROVE  /\ OneCommitter' /\ \A c \in Committers : Phase(c)' <=> c = npc
           /\ op' \in Ops
<1>1. /\ boot = "up" /\ committing /\ op[p].pc = pc
      /\ \A q \in Procs : op[q].pc # "in" /\ (q # p => op[q].pc \notin Committers)
  BY InCommit DEF At
<1>2. op \in Ops
  BY DEF IInv, TypeOK
<1>3. op'[p].pc = npc /\ \A q \in Procs : q # p => op'[q] = op[q]
  BY <1>2 DEF Goto, Ops
<1>4. \A q \in Procs : op'[q].pc # "in" /\ (op'[q].pc \in Committers <=> q = p)
  BY <1>1, <1>3 DEF Committers
<1>5. active' = active
  BY <1>1, <1>4 DEF active
<1>6. outstanding' = Cardinality(active')
  BY <1>5 DEF IInv, OneCommitter
<1>7. OneCommitter'
  BY <1>1, <1>4, <1>6 DEF OneCommitter
<1>8. \A c \in Committers : Phase(c)' <=> c = npc
  BY <1>3, <1>4 DEF Phase
<1>9. op' \in Ops
  BY <1>2 DEF Goto, Ops, Pcs
<1> QED BY <1>7, <1>8, <1>9

\* write_head(): the commit point.
LEMMA WriteHeadInv ==
    ASSUME IInv, NEW p \in Procs, WriteHead(p)
    PROVE  IInv'
<1> USE DEF IInv
<1>1. /\ At(p, "write_log") /\ tail = Len(lh) /\ head' = lh /\ tail' = 0
      /\ Goto(p, "install")
      /\ UNCHANGED <<home, logdata, buf, pinned, lh, outstanding, committing, boot>>
  BY DEF WriteHead
<1>2. "write_log" \in Committers /\ "install" \in Committers
  BY DEF Committers
<1>3. boot = "up" /\ Phase("write_log") /\ ~Phase("install")
  BY <1>1, <1>2, InCommit
<1>4. /\ OneCommitter' /\ op' \in Ops
      /\ Phase("install")' /\ ~Phase("write_log")' /\ ~Phase("done")'
  BY <1>1, <1>2, CommitterMoves DEF Committers
<1>5. TypeOK'
  BY <1>1, <1>4 DEF TypeOK
<1>6. Pending' = Pending
  BY <1>1, <1>3, <1>4, SMT DEF Pending
<1>7. LogShape'
  BY <1>1, <1>3, <1>4, LogEntries, SMT DEF LogShape
<1>8. Pins'
  BY <1>1, <1>6, SamePins
<1>9. Copies'
  BY <1>1, <1>3, <1>4, SMT DEF Copies
<1> QED BY <1>4, <1>5, <1>7, <1>8, <1>9

\* install_trans() after a commit: one more block goes home.
LEMMA InstallTransInv ==
    ASSUME IInv, NEW p \in Procs, InstallTrans(p)
    PROVE  IInv'
<1> USE DEF IInv
<1> DEFINE b == lh[tail + 1]
           v == logdata[tail + 1]
<1>1. boot = "up" /\ Phase("install") /\ ~Phase("write_log") /\ ~Phase("done")
  <2>1. At(p, "install") /\ "install" \in Committers
    BY DEF InstallTrans, Committers
  <2> QED BY <2>1, InCommit DEF Committers
<1>2. /\ UNCHANGED <<logdata, head, lh, outstanding, committing, op, boot>>
      /\ tail < Len(lh) /\ tail' = tail + 1
      /\ home' = [home EXCEPT ![b] = v]
      /\ buf' = [buf EXCEPT ![b] = v]
      /\ pinned' = [pinned EXCEPT ![b] = pinned[b] - 1]
  BY DEF InstallTrans, InstallBlock
<1>3. tail + 1 \in 1..Len(lh) /\ tail + 1 \in 1..LOGSIZE /\ b \in Blocks
  BY <1>2, LogEntries, SMT
<1>4. v \in Data /\ v # NoBuf
  BY <1>3, NoBufAssumption DEF TypeOK
<1>5. b \in Pending /\ pinned[b] = 1
  <2>1. tail + 1 > tail
    BY LogEntries, SMT
  <2>2. b \in Pending
    BY <2>1, <1>3 DEF Pending
  <2> QED BY <2>2, <1>1 DEF Pins
<1>6. OneCommitter' /\ \A pc : Phase(pc)' <=> Phase(pc)
  BY <1>2, SameProcs
<1>7. TypeOK'
  BY <1>2, <1>3, <1>4, <1>5, SMT DEF TypeOK
<1>8. \A c \in Blocks : c \in Pending' <=> c \in Pending /\ c # b
  <2>1. ASSUME NEW c \in Blocks, c \in Pending' PROVE c \in Pending /\ c # b
    <3>1. PICK k \in 1..Len(lh) : lh[k] = c /\ k > tail + 1
      BY <2>1, <1>1, <1>2, <1>6 DEF Pending
    <3>2. k > tail /\ k # tail + 1
      BY <3>1, LogEntries, SMT
    <3> QED BY <3>1, <3>2, <1>3, LogEntries DEF Pending
  <2>2. ASSUME NEW c \in Blocks, c \in Pending, c # b PROVE c \in Pending'
    <3>1. PICK k \in 1..Len(lh) : lh[k] = c /\ k > tail
      BY <2>2, <1>1 DEF Pending
    <3>2. k > tail + 1
      BY <3>1, <2>2, LogEntries, SMT
    <3> QED BY <3>1, <3>2, <1>2 DEF Pending
  <2> QED BY <2>1, <2>2
<1>9. /\ home'[b] = v /\ buf'[b] = v /\ pinned'[b] = 0
      /\ \A c \in Blocks : c # b => home'[c] = home[c] /\ buf'[c] = buf[c] /\ pinned'[c] = pinned[c]
  BY <1>2, <1>3, <1>5, SMT DEF TypeOK
<1>10. LogShape'
  <2>1. tail' <= Len(lh)
    BY <1>2, <1>3, LogEntries, SMT
  <2> QED BY <2>1, <1>1, <1>2, <1>6 DEF LogShape
<1>11. Pins'
  <2>1. Pending' \subseteq Blocks
    BY DEF Pending
  <2>2. boot = "up" /\ boot' = "up"
    BY <1>1, <1>2
  <2>3. \A c \in Blocks : buf'[c] \in {NoBuf, home'[c]} \/ (c \in Pending' /\ boot' \in {"up", "panic"})
    BY <2>2, <1>8, <1>9 DEF Pins
  <2>4. \A c \in Pending' : buf'[c] # NoBuf /\ pinned'[c] = 1
    BY <2>1, <2>2, <1>8, <1>9 DEF Pins
  <2>5. \A c \in Blocks : c \notin Pending' => pinned'[c] = 0
    BY <2>2, <1>8, <1>9 DEF Pins
  <2> QED BY <2>2, <2>3, <2>4, <2>5 DEF Pins
<1>12. Copies'
  <2>1. ASSUME NEW k \in 1..Len(lh)
        PROVE  IF k > tail' THEN buf'[lh[k]] = logdata[k] ELSE home'[lh[k]] = logdata[k]
    <3>1. CASE k = tail + 1
      BY <3>1, <1>2, <1>9, LogEntries
    <3>2. CASE k # tail + 1
      <4>1. lh[k] # b /\ lh[k] \in Blocks
        BY <3>2, <1>3, LogEntries
      <4>2. k > tail' <=> k > tail
        BY <3>2, <1>2, LogEntries, SMT
      <4>3. IF k > tail THEN buf[lh[k]] = logdata[k] ELSE home[lh[k]] = logdata[k]
        BY <1>1 DEF Copies
      <4> QED BY <4>1, <4>2, <4>3, <1>9
    <3> QED BY <3>1, <3>2
  <2>2. lh' = lh /\ logdata' = logdata /\ boot' # "recover" /\ ~Phase("write_log")'
    BY <1>1, <1>2, <1>6
  <2> QED BY <2>1, <2>2 DEF Copies
<1> QED BY <1>6, <1>7, <1>10, <1>11, <1>12

\* The committed transaction leaves the log.
LEMMA ClearHeadInv ==
    ASSUME IInv, NEW p \in Procs, ClearHead(p)
    PROVE  IInv'
<1> USE DEF IInv
<1>1. /\ At(p, "install") /\ tail = Len(lh) /\ lh' = <<>> /\ head' = <<>> /\ tail' = 0
      /\ Goto(p, "done")
      /\ UNCHANGED <<home, logdata, buf, pinned, outstanding, committing, boot>>
  BY DEF ClearHead, EraseLog
<1>2. "done" \in Committers /\ "install" \in Committers
  BY DEF Committers
<1>3. boot = "up" /\ Phase("install")
  BY <1>1, <1>2, InCommit
<1>4. /\ OneCommitter' /\ op' \in Ops
      /\ ~Phase("install")' /\ ~Phase("write_log")'
  BY <1>1, <1>2, CommitterMoves DEF Committers
<1>5. TypeOK'
  BY <1>1, <1>4, EmptyFacts DEF TypeOK
<1>6. Pending = {} /\ Pending' = {}
  BY <1>1, <1>3, LogEntries, EmptyFacts, SMT DEF Pending
<1>7. LogShape'
  BY <1>1, <1>3, <1>4, EmptyFacts, SizesAssumption, SMT DEF LogShape
<1>8. Pins'
  BY <1>1, <1>3, <1>6 DEF Pins
<1>9. Copies'
  BY <1>1, <1>3, <1>4 DEF Copies
<1> QED BY <1>4, <1>5, <1>7, <1>8, <1>9

\* The end of the commit.
LEMMA CommitDoneInv ==
    ASSUME IInv, NEW p \in Procs, CommitDone(p)
    PROVE  IInv'
<1> USE DEF IInv
<1> DEFINE f == [op EXCEPT ![p] = Out]
<1>1. /\ At(p, "done") /\ "done" \in Committers
      /\ UNCHANGED <<home, logdata, head, buf, pinned, lh, outstanding, tail, boot>>
      /\ op' = Woken(f) /\ committing' = FALSE
  BY DEF CommitDone, disk, Committers
<1>2. /\ boot = "up" /\ Phase("done") /\ ~Phase("install")
      /\ \A q \in Procs : op[q].pc # "in" /\ (q # p => op[q].pc \notin Committers)
  BY <1>1, InCommit DEF Committers
<1>3. lh = <<>> /\ head = <<>>
  BY <1>2 DEF LogShape
<1>4. /\ f \in Ops
      /\ f[p].pc = "out" /\ \A q \in Procs : q # p => f[q] = op[q]
  BY DEF TypeOK, Ops, Out, Pcs
<1> HIDE DEF f
<1>5. /\ op' \in Ops
      /\ \A q \in Procs : \A pc \in Committers \cup {"in"} : op'[q].pc = pc <=> f[q].pc = pc
  BY <1>1, <1>4, WokenFacts, SMT
<1>6. \A q \in Procs : op'[q].pc \notin Committers /\ op'[q].pc # "in"
  BY <1>2, <1>4, <1>5, SMT DEF Committers
<1>7. outstanding' = Cardinality(active')
  <2>1. active' = active
    BY <1>2, <1>6 DEF active
  <2> QED BY <2>1, <1>1 DEF OneCommitter
<1>8. OneCommitter' /\ \A pc \in Committers : ~Phase(pc)'
  BY <1>1, <1>2, <1>6, <1>7 DEF OneCommitter, Phase
<1>9. TypeOK'
  BY <1>1, <1>5 DEF TypeOK
<1>10. Pending' = Pending
  <2>1. ~Phase("install")'
    BY <1>8 DEF Committers
  <2> QED BY <2>1, <1>1, <1>2, SamePending
<1>11. LogShape'
  BY <1>1, <1>2, <1>3, <1>8 DEF LogShape, Committers
<1>12. Pins'
  BY <1>1, <1>10, SamePins
<1>13. Copies'
  BY <1>1, <1>2, <1>8 DEF Copies, Committers
<1> QED BY <1>8, <1>9, <1>11, <1>12, <1>13

\* A crash, and the machine comes up again.
LEMMA CrashInv ==
    ASSUME IInv, Crash
    PROVE  IInv'
<1> USE DEF IInv
<1>1. /\ UNCHANGED <<home, logdata, head>>
      /\ buf' = [b \in Blocks |-> NoBuf] /\ pinned' = [b \in Blocks |-> 0]
      /\ lh' = <<>> /\ outstanding' = 0 /\ committing' = FALSE /\ tail' = 0
      /\ op' = [p \in Procs |-> Out] /\ boot' = "read_head"
  BY DEF Crash, disk
<1>2. \A p \in Procs : op'[p] = Out /\ op'[p].pc = "out"
  BY <1>1 DEF Out
<1>3. TypeOK'
  BY <1>1, EmptyFacts DEF TypeOK, Ops, Out, Pcs
<1>4. OneCommitter' /\ \A pc \in Committers : ~Phase(pc)'
  <2>1. active' = {}
    BY <1>2 DEF active
  <2>2. outstanding' = Cardinality(active')
    BY <2>1, <1>1, FS_EmptySet
  <2>3. \A p \in Procs : op'[p] = Out /\ op'[p].pc \notin Committers
    BY <1>2 DEF Committers
  <2>4. \A pc \in Committers : ~Phase(pc)'
    BY <2>3 DEF Phase
  <2> QED BY <2>2, <2>3, <2>4, <1>1 DEF OneCommitter
<1>5. LogShape'
  BY <1>1, <1>4, EmptyFacts, SizesAssumption, SMT DEF LogShape, Committers
<1>6. Pending' = {}
  BY <1>1, EmptyFacts, SMT DEF Pending
<1>7. Pins'
  BY <1>1, <1>6 DEF Pins
<1>8. Copies'
  BY <1>1, <1>4 DEF Copies, Committers
<1> QED BY <1>3, <1>4, <1>5, <1>7, <1>8

\* read_head()
LEMMA ReadHeadInv ==
    ASSUME IInv, ReadHead
    PROVE  IInv'
<1> USE DEF IInv
<1>1. /\ UNCHANGED <<home, logdata, head, buf, pinned, outstanding, committing, op>>
      /\ boot = "read_head" /\ lh' = head /\ tail' = 0 /\ boot' = "recover"
  BY DEF ReadHead, disk
<1>2. ~committing /\ \A pc \in Committers : ~Phase(pc)
  BY <1>1, PhaseFacts
<1>3. OneCommitter' /\ \A pc : Phase(pc)' <=> Phase(pc)
  BY <1>1 DEF OneCommitter, active, Phase, Committers, Out
<1>4. TypeOK'
  BY <1>1 DEF TypeOK
<1>5. Len(head) \in Nat
  BY SeqFacts DEF TypeOK
<1>6. LogShape'
  BY <1>1, <1>2, <1>3, <1>5, SMT DEF LogShape, Committers
<1>7. Pins'
  BY <1>1 DEF Pins
<1>8. Copies'
  BY <1>1, <1>2, <1>3, SMT DEF Copies, Committers
<1> QED BY <1>3, <1>4, <1>6, <1>7, <1>8

\* install_trans(1)
LEMMA RecoverInstallInv ==
    ASSUME IInv, RecoverInstall
    PROVE  IInv'
<1> USE DEF IInv
<1> DEFINE b == lh[tail + 1]
           v == logdata[tail + 1]
<1>1. /\ UNCHANGED <<logdata, head, pinned, lh, outstanding, committing, op, boot>>
      /\ boot = "recover" /\ tail < Len(lh) /\ tail' = tail + 1
      /\ home' = [home EXCEPT ![b] = v]
      /\ buf' = [buf EXCEPT ![b] = v]
  BY DEF RecoverInstall, InstallBlock
<1>2. ~committing /\ \A pc \in Committers : ~Phase(pc)
  BY <1>1, PhaseFacts
<1>3. tail + 1 \in 1..Len(lh) /\ tail + 1 \in 1..LOGSIZE /\ b \in Blocks
  BY <1>1, LogEntries, SMT
<1>4. v \in Data
  BY <1>3 DEF TypeOK
<1>5. OneCommitter' /\ \A pc : Phase(pc)' <=> Phase(pc)
  BY <1>1, SameProcs
<1>6. TypeOK'
  BY <1>1, <1>3, <1>4, SMT DEF TypeOK
<1>7. /\ home'[b] = v /\ buf'[b] = v
      /\ \A c \in Blocks : c # b => home'[c] = home[c] /\ buf'[c] = buf[c]
  BY <1>1, <1>3 DEF TypeOK
<1>8. LogShape'
  <2>1. ~Phase("install")' /\ ~Phase("done")'
    BY <1>2, <1>5 DEF Committers
  <2>2. tail' <= Len(lh)
    BY <1>1, LogEntries, SMT
  <2> QED BY <2>1, <2>2, <1>1 DEF LogShape
<1>9. Pins'
  BY <1>1, <1>3, <1>7 DEF Pins
<1>10. Copies'
  <2>1. ASSUME NEW k \in 1..tail' PROVE home'[lh[k]] = logdata[k]
    <3>1. CASE k = tail + 1
      BY <3>1, <1>7
    <3>2. CASE k # tail + 1
      <4>1. k \in 1..tail /\ k \in 1..Len(lh)
        BY <3>2, <1>1, LogEntries, SMT
      <4>2. lh[k] # b /\ lh[k] \in Blocks
        BY <3>2, <4>1, <1>3, LogEntries
      <4> QED BY <4>1, <4>2, <1>1, <1>7 DEF Copies
    <3> QED BY <3>1, <3>2
  <2> QED BY <2>1, <1>1, <1>2, <1>5 DEF Copies, Committers
<1> QED BY <1>5, <1>6, <1>8, <1>9, <1>10

\* The end of recovery.
LEMMA RecoverClearInv ==
    ASSUME IInv, RecoverClear
    PROVE  IInv'
<1> USE DEF IInv
<1>1. /\ UNCHANGED <<home, logdata, buf, pinned, outstanding, committing, op>>
      /\ boot = "recover" /\ boot' = "up" /\ lh' = <<>> /\ head' = <<>> /\ tail' = 0
  BY DEF RecoverClear, EraseLog
<1>2. ~committing /\ \A pc \in Committers : ~Phase(pc)
  BY <1>1, PhaseFacts
<1>3. OneCommitter' /\ \A pc : Phase(pc)' <=> Phase(pc)
  BY <1>1 DEF OneCommitter, active, Phase, Committers, Out
<1>4. TypeOK'
  BY <1>1, EmptyFacts DEF TypeOK
<1>5. LogShape'
  BY <1>1, <1>2, <1>3, EmptyFacts, SizesAssumption, SMT DEF LogShape, Committers
<1>6. Pending' = {}
  BY <1>1, EmptyFacts, SMT DEF Pending
<1>7. Pins'
  BY <1>1, <1>6 DEF Pins
<1>8. Copies'
  BY <1>1, <1>2, <1>3 DEF Copies, Committers
<1> QED BY <1>3, <1>4, <1>5, <1>7, <1>8

-----------------------------------------------------------------------------
\* A machine that comes up with an erased log.
LEMMA InitInv == Init => IInv
<1> SUFFICES ASSUME Init PROVE IInv
  OBVIOUS
<1>1. \A p \in Procs : op[p] = Out /\ op[p].pc = "out"
  BY SMTT(20) DEF Init, Out
<1>2. TypeOK
  BY EmptyFacts DEF Init, TypeOK, Ops, Out, Pcs
<1>3. OneCommitter /\ \A pc \in Committers : ~Phase(pc)
  <2>1. active = {}
    BY <1>1 DEF active
  <2>2. outstanding = Cardinality(active)
    BY <2>1, FS_EmptySet DEF Init
  <2> QED BY <2>2, <1>1 DEF Init, OneCommitter, Phase, Committers
<1>4. LogShape
  BY <1>3, EmptyFacts, SizesAssumption, SMT DEF Init, LogShape, Committers
<1>5. Pending = {}
  BY EmptyFacts, SMT DEF Init, Pending
<1>6. Pins
  BY <1>5 DEF Init, Pins
<1>7. Copies
  BY <1>3 DEF Init, Copies, Committers
<1> QED BY <1>2, <1>3, <1>4, <1>6, <1>7 DEF IInv

\* Every step keeps the invariant.
LEMMA NextInv == IInv /\ [Next]_vars => IInv'
<1> SUFFICES ASSUME IInv, [Next]_vars PROVE IInv'
  OBVIOUS
<1>1. CASE UNCHANGED vars
  <2>1. /\ home' = home /\ logdata' = logdata /\ head' = head /\ buf' = buf /\ pinned' = pinned
        /\ lh' = lh /\ outstanding' = outstanding /\ committing' = committing /\ op' = op
        /\ tail' = tail /\ boot' = boot
    BY <1>1 DEF vars, disk
  <2>2. TypeOK'
    BY <2>1 DEF IInv, TypeOK
  <2>3. OneCommitter' /\ \A pc : Phase(pc)' <=> Phase(pc)
    BY <2>1, SameProcs DEF IInv
  <2>4. LogShape'
    BY <2>1, <2>3 DEF IInv, LogShape
  <2>5. Pending' = Pending
    BY <2>1, <2>3 DEF Pending
  <2>6. Pins'
    BY <2>1, <2>5, SamePins DEF IInv
  <2>7. Copies'
    BY <2>1, <2>3 DEF IInv, Copies
  <2> QED BY <2>2, <2>3, <2>4, <2>6, <2>7 DEF IInv
<1>2. ASSUME NEW p \in Procs, BeginOp(p) \/ Operation(p) \/ Commit(p) PROVE IInv'
  <2>1. CASE BeginOp(p)
    BY <2>1, BeginOpInv
  <2>2. CASE Operation(p)
    BY <2>2, EndOpLastInv, EndOpEarlyInv, LogWritePanicInv, LogWriteInv DEF Operation, LogWrite
  <2>3. CASE Commit(p)
    BY <2>3, WriteLogInv, WriteHeadInv, InstallTransInv, ClearHeadInv, CommitDoneInv DEF Commit
  <2> QED BY <1>2, <2>1, <2>2, <2>3
<1>3. ASSUME NEW b \in Blocks, Read(b) \/ Recycle(b) PROVE IInv'
  BY <1>3, CacheInv
<1>4. CASE Recovery
  BY <1>4, ReadHeadInv, RecoverInstallInv, RecoverClearInv DEF Recovery
<1>5. CASE Crash
  BY <1>5, CrashInv
<1> QED BY <1>1, <1>2, <1>3, <1>4, <1>5 DEF Next

\* The inductive invariant holds in every reachable state of the log.
THEOREM Invariance == Spec => []IInv
BY InitInv, NextInv, PTL DEF Spec

-----------------------------------------------------------------------------
\* Replaying the log, block by block.
LEMMA ReplayFacts ==
    ASSUME IInv, NEW b \in Blocks
    PROVE  /\ b \notin Range(lh) => Replay(lh, logdata, home)[b] = home[b]
           /\ \A k \in 1..Len(lh) : lh[k] = b => Replay(lh, logdata, home)[b] = logdata[k]
<1>1. ASSUME b \notin Range(lh) PROVE Replay(lh, logdata, home)[b] = home[b]
  BY <1>1 DEF Replay
<1>2. ASSUME NEW k \in 1..Len(lh), lh[k] = b PROVE Replay(lh, logdata, home)[b] = logdata[k]
  <2>1. b \in Range(lh)
    BY <1>2, LogEntries
  <2>2. (CHOOSE j \in 1..Len(lh) : lh[j] = b) = k
    BY <1>2, LogEntries
  <2> QED BY <2>1, <2>2 DEF Replay
<1> QED BY <1>1, <1>2

\* What a restart finds, block by block, when the header is erased and when it
\* names the blocks of lh.
LEMMA StableFacts ==
    ASSUME IInv
    PROVE  /\ head = <<>> => stable = home
           /\ head = lh => \A b \in Blocks :
                /\ b \notin Range(lh) => stable[b] = home[b]
                /\ \A k \in 1..Len(lh) : lh[k] = b => stable[b] = logdata[k]
<1>1. home \in [Blocks -> Data]
  BY DEF IInv, TypeOK
<1>2. ASSUME head = <<>> PROVE stable = home
  BY <1>1, <1>2, EmptyFacts DEF stable, Replay
<1>3. ASSUME head = lh, NEW b \in Blocks, NEW k \in 1..Len(lh), lh[k] = b
      PROVE  stable[b] = logdata[k]
  BY <1>3, ReplayFacts DEF stable
<1>4. ASSUME head = lh, NEW b \in Blocks, b \notin Range(lh) PROVE stable[b] = home[b]
  BY <1>4, ReplayFacts DEF stable
<1> QED BY <1>2, <1>3, <1>4

\* The initial states of the log are initial states of the atomic disk.
LEMMA InitRefines == Init => Atomic!Init
<1> SUFFICES ASSUME Init PROVE Atomic!Init
  OBVIOUS
<1>1. stable = home
  BY InitInv, StableFacts DEF Init
<1>2. current = stable
  BY DEF Init, current
<1>3. active = {}
  BY DEF Init, active, Out
<1> QED BY <1>1, <1>2, <1>3 DEF Init, Atomic!Init

\* What a restart finds depends on the disk alone.
LEMMA SameDisk ==
    ASSUME UNCHANGED <<home, logdata, head>>
    PROVE  stable' = stable
BY DEF stable

\* While the system is up, current depends on what bread() returns.
LEMMA SameView ==
    ASSUME boot \in {"up", "panic"}, boot' \in {"up", "panic"},
           \A b \in Blocks : bread(b)' = bread(b)
    PROVE  current' = current
BY DEF current

\* The cache may fetch and drop clean blocks: the atomic disk does not move.
LEMMA CacheRefines ==
    ASSUME IInv, NEW b \in Blocks, Read(b) \/ Recycle(b)
    PROVE  UNCHANGED <<stable, current, active>>
<1>1. /\ UNCHANGED <<home, logdata, head, op, boot>>
      /\ \/ buf[b] = NoBuf /\ buf' = [buf EXCEPT ![b] = home[b]] /\ boot = "up"
         \/ buf[b] # NoBuf /\ pinned[b] = 0 /\ buf' = [buf EXCEPT ![b] = NoBuf] /\ boot # "panic"
  BY DEF Read, Recycle, disk
<1>2. stable' = stable /\ active' = active /\ boot' = boot
  <2>1. stable' = stable
    BY <1>1, SameDisk
  <2> QED BY <2>1, <1>1 DEF active
<1>3. CASE boot \in {"read_head", "recover"}
  BY <1>2, <1>3 DEF current
<1>4. CASE boot = "up"
  <2>1. buf[b] \in {NoBuf, home[b]}
    <3>1. CASE buf[b] = NoBuf
      BY <3>1
    <3>2. CASE pinned[b] = 0
      BY <3>2, <1>4, SMT DEF IInv, Pins
    <3> QED BY <3>1, <3>2, <1>1
  <2>2. home[b] # NoBuf /\ buf \in [Blocks -> Data \cup {NoBuf}]
    BY NoBufAssumption DEF IInv, TypeOK
  <2>3. \A c \in Blocks : bread(c)' = bread(c)
    BY <1>1, <2>1, <2>2 DEF bread
  <2> QED BY <1>1, <1>2, <1>4, <2>3, SameView
<1> QED BY <1>1, <1>3, <1>4 DEF IInv, TypeOK

\* begin_op() starts an operation of the atomic disk or sleeps.
LEMMA BeginOpRefines ==
    ASSUME IInv, NEW p \in Procs, BeginOp(p)
    PROVE  Atomic!Begin(p) \/ UNCHANGED <<stable, current, active>>
<1>1. /\ UNCHANGED <<home, logdata, head, buf, boot>>
      /\ op[p].pc \in {"out", "begin"}
      /\ \/ op' = [op EXCEPT ![p] = [pc |-> "asleep", wrote |-> {}]]
         \/ op' = [op EXCEPT ![p] = [pc |-> "in", wrote |-> {}]]
  BY DEF BeginOp, Goto, disk
<1>2. stable' = stable /\ current' = current
  BY <1>1, SameDisk DEF current, bread
<1>3. op \in Ops
  BY DEF IInv, TypeOK
<1>4. p \notin active /\ (active' = active \/ active' = active \cup {p})
  <2>1. p \notin active
    BY <1>1 DEF active
  <2>2. CASE op' = [op EXCEPT ![p] = [pc |-> "asleep", wrote |-> {}]]
    BY <2>1, <2>2, <1>3 DEF active, Ops
  <2>3. CASE op' = [op EXCEPT ![p] = [pc |-> "in", wrote |-> {}]]
    BY <2>1, <2>3, <1>3 DEF active, Ops
  <2> QED BY <1>1, <2>1, <2>2, <2>3
<1> QED BY <1>2, <1>4 DEF Atomic!Begin

\* A logged write is a write of the atomic disk.
LEMMA LogWriteRefines ==
    ASSUME IInv, NEW p \in Procs, NEW b \in Blocks, NEW d \in Data, LogWritten(p, b, d)
    PROVE  Atomic!Write(p, b, d)
<1>1. /\ UNCHANGED <<home, logdata, head, boot>> /\ boot = "up" /\ op[p].pc = "in"
      /\ buf' = [buf EXCEPT ![b] = d]
      /\ op' = [op EXCEPT ![p] = [pc |-> "in", wrote |-> op[p].wrote \cup {b}]]
  BY DEF LogWritten, MayWrite, At, disk
<1>2. /\ op \in Ops
      /\ buf \in [Blocks -> Data \cup {NoBuf}] /\ d # NoBuf
  BY NoBufAssumption DEF IInv, TypeOK
<1>3. p \in active /\ active' = active
  BY <1>1, <1>2 DEF active, Ops
<1>4. bread(b)' = d /\ \A c \in Blocks : c # b => bread(c)' = bread(c)
  BY <1>1, <1>2 DEF bread
<1>5. current' = [current EXCEPT ![b] = d]
  BY <1>1, <1>4 DEF current
<1> QED BY <1>1, <1>3, <1>5, SameDisk DEF Atomic!Write

\* A panic leaves disk and memory as they are.
LEMMA LogWritePanicRefines ==
    ASSUME IInv, NEW p \in Procs, NEW b \in Blocks, LogWritePanic(p, b)
    PROVE  UNCHANGED <<stable, current, active>>
<1>1. UNCHANGED <<home, logdata, head, buf, op>> /\ boot = "up" /\ boot' = "panic"
  BY DEF LogWritePanic, MayWrite, At, disk
<1>2. \A c \in Blocks : bread(c)' = bread(c)
  BY <1>1 DEF bread
<1> QED BY <1>1, <1>2, SameDisk, SameView DEF active

\* end_op() ends the operation of the atomic disk.
LEMMA EndOpRefines ==
    ASSUME IInv, NEW p \in Procs, EndOpLast(p) \/ EndOpEarly(p)
    PROVE  Atomic!End(p)
<1>1. At(p, "in") /\ op[p].pc = "in"
  BY DEF EndOpLast, EndOpEarly, At
<1>2. /\ home' = home /\ logdata' = logdata /\ head' = head /\ buf' = buf
      /\ boot' = IF committing THEN "panic" ELSE boot
  BY DEF EndOpLast, EndOpEarly, disk
<1>3. boot' = boot
  BY <1>1, <1>2, InOperation
<1>4. stable' = stable /\ current' = current
  BY <1>2, <1>3, SameDisk DEF current, bread
<1>5. op \in Ops
  BY DEF IInv, TypeOK
<1>6. p \in active
  BY <1>1 DEF active
<1>7. active' = active \ {p}
  <2>1. CASE EndOpLast(p)
    <3>1. PICK pc \in {"done", "write_log"} : op' = [op EXCEPT ![p] = [pc |-> pc, wrote |-> {}]]
      BY <2>1 DEF EndOpLast, Goto
    <3> QED BY <3>1, <1>5 DEF active, Ops
  <2>2. CASE EndOpEarly(p)
    <3> DEFINE f == [op EXCEPT ![p] = Out]
    <3>1. op' = Woken(f)
      BY <2>2 DEF EndOpEarly
    <3>2. /\ f \in Ops
          /\ f[p].pc = "out" /\ \A q \in Procs : q # p => f[q] = op[q]
      BY <1>5 DEF Ops, Out, Pcs
    <3> HIDE DEF f
    <3>3. \A q \in Procs : op'[q].pc = "in" <=> f[q].pc = "in"
      BY <3>1, <3>2, WokenFacts, SMT
    <3>4. \A q \in Procs : op'[q].pc = "in" <=> op[q].pc = "in" /\ q # p
      BY <3>2, <3>3
    <3> QED BY <3>4 DEF active
  <2> QED BY <2>1, <2>2
<1> QED BY <1>4, <1>6, <1>7 DEF Atomic!End

\* Copying into the log changes nothing a restart would find.
LEMMA WriteLogRefines ==
    ASSUME IInv, NEW p \in Procs, WriteLog(p)
    PROVE  UNCHANGED <<stable, current, active>>
<1> DEFINE b == lh[tail + 1]
<1>1. boot = "up" /\ ~Phase("install")
  <2>1. At(p, "write_log") /\ "write_log" \in Committers
    BY DEF WriteLog, Committers
  <2> QED BY <2>1, InCommit DEF Committers
<1>2. /\ UNCHANGED <<home, head, op, boot>> /\ tail < Len(lh)
      /\ buf' = [buf EXCEPT ![b] = bread(b)]
  BY DEF WriteLog
<1>3. head = <<>>
  BY <1>1 DEF IInv, LogShape
<1>4. stable = home /\ stable' = home'
  <2>1. stable = home
    BY <1>3, StableFacts
  <2>2. \A c \in Blocks : c \notin Range(head')
    BY <1>2, <1>3, EmptyFacts
  <2>3. stable' = [c \in Blocks |-> home'[c]]
    BY <2>2 DEF stable, Replay
  <2> QED BY <2>1, <2>3, <1>2 DEF IInv, TypeOK
<1>5. b \in Blocks /\ buf \in [Blocks -> Data \cup {NoBuf}] /\ home[b] # NoBuf
  <2>1. b \in Blocks
    BY <1>2, LogEntries, SMT
  <2> QED BY <2>1, NoBufAssumption DEF IInv, TypeOK
<1>6. \A c \in Blocks : bread(c)' = bread(c)
  BY <1>2, <1>5 DEF bread
<1>7. current' = current
  BY <1>1, <1>2, <1>6, SameView
<1> QED BY <1>2, <1>4, <1>7 DEF active

\* The write of the header is the commit of the atomic disk.
LEMMA WriteHeadRefines ==
    ASSUME IInv, NEW p \in Procs, WriteHead(p)
    PROVE  Atomic!Commit
<1>1. /\ At(p, "write_log") /\ tail = Len(lh) /\ head' = lh /\ Goto(p, "install")
      /\ UNCHANGED <<home, logdata, buf, boot>>
  BY DEF WriteHead
<1>2. /\ boot = "up" /\ Phase("write_log") /\ ~Phase("install")
      /\ \A q \in Procs : op[q].pc # "in"
  <2>1. "write_log" \in Committers
    BY SMTT(20) DEF Committers
  <2> QED BY <2>1, <1>1, InCommit DEF Committers
<1>3. active = {} /\ active' = {}
  <2>1. op \in Ops /\ op' = [op EXCEPT ![p] = [pc |-> "install", wrote |-> {}]]
    BY <1>1 DEF Goto, IInv, TypeOK
  <2>2. \A q \in Procs : op'[q].pc # "in"
    BY <2>1, <1>2 DEF Ops
  <2> QED BY <2>2, <1>2 DEF active
<1>4. \A c \in Blocks : bread(c)' = bread(c)
  BY <1>1 DEF bread
<1>5. current' = current /\ current = [c \in Blocks |-> bread(c)]
  BY <1>1, <1>2, <1>4, SameView DEF current
<1>6. ASSUME NEW c \in Blocks PROVE stable'[c] = bread(c)
  <2>1. stable' = Replay(lh, logdata, home)
    BY <1>1 DEF stable
  <2>2. CASE c \in Range(lh)
    <3>1. PICK k \in 1..Len(lh) : lh[k] = c
      BY <2>2, LogEntries
    <3>2. Replay(lh, logdata, home)[c] = logdata[k]
      BY <3>1, ReplayFacts
    <3>3. logdata[k] = buf[c]
      BY <3>1, <1>1, <1>2 DEF IInv, Copies
    <3>4. c \in Pending
      BY <3>1, <1>2 DEF Pending
    <3>5. buf[c] # NoBuf
      BY <3>4, <1>2 DEF IInv, Pins
    <3> QED BY <2>1, <2>2, <3>2, <3>3, <3>5 DEF bread
  <2>3. CASE c \notin Range(lh)
    <3>1. c \notin Pending
      BY <2>3, LogEntries DEF Pending
    <3>2. buf[c] \in {NoBuf, home[c]}
      BY <3>1 DEF IInv, Pins
    <3>3. Replay(lh, logdata, home)[c] = home[c]
      BY <2>3, ReplayFacts
    <3> QED BY <2>1, <3>2, <3>3 DEF bread
  <2> QED BY <2>2, <2>3
<1>7. stable' = current
  <2>1. stable' = [c \in Blocks |-> stable'[c]]
    BY SMT DEF stable, Replay
  <2> QED BY <2>1, <1>5, <1>6
<1> QED BY <1>3, <1>5, <1>7 DEF Atomic!Commit

\* Installing a block that the header names changes nothing a restart would find.
LEMMA InstallKeepsStable ==
    ASSUME IInv, head = lh, InstallBlock, UNCHANGED <<logdata, head>>
    PROVE  stable' = stable
<1>1. tail + 1 \in 1..Len(lh) /\ home' = [home EXCEPT ![lh[tail + 1]] = logdata[tail + 1]]
  BY LogEntries, SMT DEF InstallBlock
<1>2. \A c \in Blocks : c \notin Range(head) => home'[c] = home[c]
  <2>1. lh[tail + 1] \in Range(head)
    BY <1>1, LogEntries
  <2> QED BY <2>1, <1>1 DEF IInv, TypeOK
<1> QED BY <1>2, SMT DEF stable, Replay

\* install_trans() after the commit.
LEMMA InstallTransRefines ==
    ASSUME IInv, NEW p \in Procs, InstallTrans(p)
    PROVE  UNCHANGED <<stable, current, active>>
<1> DEFINE b == lh[tail + 1]
           v == logdata[tail + 1]
<1>1. boot = "up" /\ Phase("install")
  <2>1. At(p, "install") /\ "install" \in Committers
    BY DEF InstallTrans, Committers
  <2> QED BY <2>1, InCommit
<1>2. /\ UNCHANGED <<logdata, head, op, boot>> /\ InstallBlock /\ tail < Len(lh)
      /\ home' = [home EXCEPT ![b] = v] /\ buf' = [buf EXCEPT ![b] = v]
  BY DEF InstallTrans, InstallBlock
<1>3. head = lh
  BY <1>1 DEF IInv, LogShape
<1>4. stable' = stable
  BY <1>2, <1>3, InstallKeepsStable
<1>5. /\ tail + 1 \in 1..Len(lh) /\ tail + 1 \in 1..LOGSIZE /\ b \in Blocks
      /\ tail + 1 > tail
  BY <1>2, LogEntries, SMT
<1>6. v \in Data /\ v # NoBuf /\ buf[b] = v
  <2>1. v \in Data
    BY <1>5 DEF IInv, TypeOK
  <2>2. buf[b] = v
    BY <1>1, <1>5 DEF IInv, Copies
  <2> QED BY <2>1, <2>2, NoBufAssumption
<1>7. \A c \in Blocks : bread(c)' = bread(c)
  BY <1>2, <1>5, <1>6 DEF bread, IInv, TypeOK
<1>8. current' = current
  BY <1>1, <1>2, <1>7, SameView
<1> QED BY <1>2, <1>4, <1>8 DEF active

\* Erasing the header once every block it names is at home.
LEMMA EraseKeepsStable ==
    ASSUME IInv, head = lh, EraseLog, UNCHANGED <<home, logdata>>,
           \A k \in 1..Len(lh) : home[lh[k]] = logdata[k]
    PROVE  stable' = stable /\ stable = home
<1>1. \A c \in Blocks : stable[c] = home[c]
  BY StableFacts, LogEntries, SMT
<1>2. stable = home
  <2>1. stable = [c \in Blocks |-> stable[c]]
    BY SMT DEF stable, Replay
  <2> QED BY <2>1, <1>1 DEF IInv, TypeOK
<1>3. \A c \in Blocks : c \notin Range(head')
  BY EmptyFacts DEF EraseLog
<1>4. stable' = [c \in Blocks |-> home'[c]]
  BY <1>3 DEF stable, Replay
<1> QED BY <1>2, <1>4 DEF IInv, TypeOK

\* The erased header of commit().
LEMMA ClearHeadRefines ==
    ASSUME IInv, NEW p \in Procs, ClearHead(p)
    PROVE  UNCHANGED <<stable, current, active>>
<1>1. /\ boot = "up" /\ Phase("install") /\ \A q \in Procs : op[q].pc # "in"
  <2>1. At(p, "install") /\ "install" \in Committers
    BY DEF ClearHead, Committers
  <2> QED BY <2>1, InCommit
<1>2. /\ UNCHANGED <<home, logdata, buf, boot>> /\ EraseLog /\ tail = Len(lh)
      /\ op' = [op EXCEPT ![p] = [pc |-> "done", wrote |-> {}]]
  BY DEF ClearHead, EraseLog, Goto
<1>3. head = lh /\ \A k \in 1..Len(lh) : ~(k > tail)
  BY <1>1, <1>2, LogEntries, SMT DEF IInv, LogShape
<1>4. \A k \in 1..Len(lh) : home[lh[k]] = logdata[k]
  BY <1>1, <1>3 DEF IInv, Copies
<1>5. stable' = stable
  BY <1>2, <1>3, <1>4, EraseKeepsStable
<1>6. \A c \in Blocks : bread(c)' = bread(c)
  BY <1>2 DEF bread
<1>7. current' = current
  BY <1>1, <1>2, <1>6, SameView, SMTT(20)
<1>8. active' = active
  <2>1. op \in Ops
    BY DEF IInv, TypeOK
  <2> QED BY <2>1, <1>1, <1>2 DEF active, Ops
<1> QED BY <1>5, <1>7, <1>8

\* The end of the commit wakes sleepers; nobody is in an operation.
LEMMA CommitDoneRefines ==
    ASSUME IInv, NEW p \in Procs, CommitDone(p)
    PROVE  UNCHANGED <<stable, current, active>>
<1>1. \A q \in Procs : op[q].pc # "in"
  <2>1. At(p, "done") /\ "done" \in Committers
    BY DEF CommitDone, Committers
  <2> QED BY <2>1, InCommit
<1>2. /\ UNCHANGED <<home, logdata, head, buf, boot>>
      /\ op' = Woken([op EXCEPT ![p] = Out])
  BY SMTT(20) DEF CommitDone, disk
<1>3. \A q \in Procs : op'[q].pc # "in"
  BY <1>1, <1>2 DEF Woken, Out, IInv, TypeOK, Ops
<1>4. active = {} /\ active' = {}
  BY <1>1, <1>3 DEF active
<1>5. stable' = stable /\ current' = current
  BY <1>2, SameDisk DEF current, bread
<1> QED BY <1>4, <1>5

\* A crash takes the atomic disk back to its last commit.
LEMMA CrashRefines ==
    ASSUME IInv, Crash
    PROVE  Atomic!Crash
<1>1. UNCHANGED <<home, logdata, head>> /\ boot' = "read_head" /\ op' = [p \in Procs |-> Out]
  BY DEF Crash, disk
<1>2. stable' = stable
  BY <1>1, SameDisk
<1>3. current' = stable'
  BY <1>1 DEF current
<1>4. active' = {}
  BY <1>1 DEF active, Out
<1> QED BY <1>2, <1>3, <1>4 DEF Atomic!Crash

\* Recovery shows the committed disk before and after each of its steps.
LEMMA RecoveryRefines ==
    ASSUME IInv, Recovery
    PROVE  UNCHANGED <<stable, current, active>>
<1>1. boot \in {"read_head", "recover"} /\ op' = op
  BY DEF Recovery, ReadHead, RecoverInstall, RecoverClear
<1>2. current = stable /\ active' = active
  BY <1>1 DEF current, active
<1>3. CASE ReadHead
  <2>1. UNCHANGED <<home, logdata, head>> /\ boot' = "recover"
    BY <1>3 DEF ReadHead, disk
  <2>2. stable' = stable /\ current' = stable'
    BY <2>1, SameDisk DEF current
  <2> QED BY <1>2, <2>2
<1>4. CASE RecoverInstall
  <2>1. head = lh /\ InstallBlock /\ UNCHANGED <<logdata, head>> /\ boot' = "recover"
    BY <1>4 DEF RecoverInstall, IInv, LogShape
  <2>2. stable' = stable /\ current' = stable'
    BY <2>1, InstallKeepsStable DEF current
  <2> QED BY <1>2, <2>2
<1>5. CASE RecoverClear
  <2>1. /\ boot = "recover" /\ boot' = "up" /\ UNCHANGED <<home, logdata, buf>>
        /\ EraseLog /\ tail = Len(lh)
    BY <1>5 DEF RecoverClear, EraseLog
  <2>2. head = lh /\ \A k \in 1..Len(lh) : k \in 1..tail
    BY <2>1 DEF IInv, LogShape
  <2>3. \A k \in 1..Len(lh) : home[lh[k]] = logdata[k]
    BY <2>1, <2>2 DEF IInv, Copies
  <2>4. stable' = stable /\ stable = home
    BY <2>1, <2>2, <2>3, EraseKeepsStable
  <2>5. \A c \in Blocks : bread(c)' = home[c]
    <3>1. \A c \in Blocks : buf[c] \in {NoBuf, home[c]}
      BY <2>1 DEF IInv, Pins
    <3> QED BY <2>1, <3>1 DEF bread
  <2>6. current' = [c \in Blocks |-> home[c]]
    BY <2>1, <2>5 DEF current
  <2>7. current' = home
    BY <2>6 DEF IInv, TypeOK
  <2> QED BY <1>2, <2>4, <2>7
<1> QED BY <1>3, <1>4, <1>5 DEF Recovery

\* Every step of the log is a step of the atomic disk or leaves it unchanged.
LEMMA StepRefines == IInv /\ [Next]_vars => [Atomic!Next]_(Atomic!vars)
<1> SUFFICES ASSUME IInv, [Next]_vars PROVE Atomic!Next \/ UNCHANGED <<stable, current, active>>
  BY DEF Atomic!vars
<1>1. CASE UNCHANGED vars
  BY <1>1, SameDisk DEF vars, disk, current, active, bread
<1>2. ASSUME NEW p \in Procs, BeginOp(p) \/ Operation(p) \/ Commit(p)
      PROVE  Atomic!Next \/ UNCHANGED <<stable, current, active>>
  <2>1. CASE BeginOp(p)
    BY <2>1, BeginOpRefines DEF Atomic!Next
  <2>2. CASE EndOpLast(p) \/ EndOpEarly(p)
    BY <2>2, EndOpRefines DEF Atomic!Next
  <2>3. ASSUME NEW b \in Blocks, LogWritePanic(p, b)
        PROVE  UNCHANGED <<stable, current, active>>
    BY <2>3, LogWritePanicRefines
  <2>4. ASSUME NEW b \in Blocks, NEW d \in Data, LogWritten(p, b, d)
        PROVE  Atomic!Next
    BY <2>4, LogWriteRefines DEF Atomic!Next
  <2>5. CASE Commit(p)
    <3>1. CASE WriteHead(p)
      BY <3>1, WriteHeadRefines DEF Atomic!Next
    <3>2. CASE WriteLog(p) \/ InstallTrans(p)
      BY <3>2, WriteLogRefines, InstallTransRefines
    <3>3. CASE ClearHead(p) \/ CommitDone(p)
      BY <3>3, ClearHeadRefines, CommitDoneRefines
    <3> QED BY <2>5, <3>1, <3>2, <3>3 DEF Commit
  <2> QED BY <1>2, <2>1, <2>2, <2>3, <2>4, <2>5 DEF Operation, LogWrite
<1>3. ASSUME NEW b \in Blocks, Read(b) \/ Recycle(b)
      PROVE  UNCHANGED <<stable, current, active>>
  BY <1>3, CacheRefines
<1>4. CASE Recovery
  BY <1>4, RecoveryRefines
<1>5. CASE Crash
  BY <1>5, CrashRefines DEF Atomic!Next
<1> QED BY <1>1, <1>2, <1>3, <1>4, <1>5 DEF Next

\* The log of log.c implements the atomic disk, whatever the number of
\* processes and blocks and however often the machine crashes, also while
\* recover_from_log() runs: the disk after recovery is the disk of the last
\* write_head() of a commit.
THEOREM Refinement == Spec => ImplementsAtomicDisk
<1>1. Init /\ [][Next]_vars /\ []IInv => Atomic!Init /\ [][Atomic!Next]_(Atomic!vars)
  BY InitRefines, StepRefines, PTL
<1> QED BY <1>1, Invariance, PTL DEF Spec, ImplementsAtomicDisk, Atomic!Spec

-----------------------------------------------------------------------------
\* More operations and a longer log exhaust the space all the more.
LEMMA ExhaustGrows ==
    ASSUME NEW x \in Nat, NEW y \in Nat, x <= y, NEW m \in Nat, NEW n \in Nat, m <= n,
           x + (m + 1) * MAXOPBLOCKS > LOGSIZE
    PROVE  y + (n + 1) * MAXOPBLOCKS > LOGSIZE
<1>1. MAXOPBLOCKS \in Nat /\ LOGSIZE \in Nat
  BY SizesAssumption
<1>2. PICK k \in Nat : n = m + k
  <2>1. n - m \in Nat /\ n = m + (n - m)
    BY SMT
  <2> QED BY <2>1
<1>3. (n + 1) * MAXOPBLOCKS = (m + 1) * MAXOPBLOCKS + k * MAXOPBLOCKS
  BY <1>1, <1>2, SMT
<1>4. k * MAXOPBLOCKS \in Nat /\ (m + 1) * MAXOPBLOCKS \in Nat
  BY <1>1, SMT
<1> QED BY <1>1, <1>3, <1>4, SMT

\* Nobody falls asleep, and the log and the operations in it only grow: whoever
\* sleeps goes on sleeping for a reason.
LEMMA KeepsReason ==
    ASSUME IInv, SleepsForAReason, boot = "up", lh' \in Seq(Blocks), Len(lh) <= Len(lh'),
           outstanding' \in Nat, outstanding <= outstanding', committing => committing',
           \A q \in Procs : op'[q].pc = "asleep" => op[q].pc = "asleep"
    PROVE  SleepsForAReason'
<1> SUFFICES ASSUME \E q \in Procs : op'[q].pc = "asleep", ~committing'
             PROVE  MightExhaust'
  BY DEF SleepsForAReason
<1>1. \E q \in Procs : op[q].pc = "asleep"
  OBVIOUS
<1>2. MightExhaust
  BY <1>1 DEF SleepsForAReason
<1>3. Len(lh) \in Nat /\ Len(lh') \in Nat /\ outstanding \in Nat
  BY SeqFacts DEF IInv, TypeOK
<1> QED BY <1>2, <1>3, ExhaustGrows DEF MightExhaust

\* wakeup() leaves no sleeper.
LEMMA NobodyAsleep ==
    ASSUME NEW f
    PROVE  \A q \in Procs : Woken(f)[q].pc # "asleep"
BY DEF Woken

\* Every step keeps a reason to sleep, or wakes the sleepers.
LEMMA NextSleeps == IInv /\ SleepsForAReason /\ [Next]_vars => SleepsForAReason'
<1> SUFFICES ASSUME IInv, SleepsForAReason, [Next]_vars PROVE SleepsForAReason'
  OBVIOUS
<1>1. lh \in Seq(Blocks) /\ Len(lh) \in Nat /\ outstanding \in Nat /\ op \in Ops
  BY SeqFacts DEF IInv, TypeOK
<1>2. ASSUME UNCHANGED <<lh, outstanding, committing, op>>, boot' = "up" => boot = "up"
      PROVE  SleepsForAReason'
  BY <1>2 DEF SleepsForAReason, MightExhaust
<1>3. ASSUME boot' # "up" \/ committing' \/ \A q \in Procs : op'[q].pc # "asleep"
      PROVE  SleepsForAReason'
  BY <1>3 DEF SleepsForAReason
<1>4. CASE UNCHANGED vars
  BY <1>2, <1>4 DEF vars
<1>5. ASSUME NEW p \in Procs, BeginOp(p) PROVE SleepsForAReason'
  <2>1. CASE committing \/ MightExhaust
    <3>1. UNCHANGED <<lh, outstanding, committing>>
      BY <1>5, <2>1 DEF BeginOp
    <3> QED BY <2>1, <3>1 DEF SleepsForAReason, MightExhaust
  <2>2. CASE ~(committing \/ MightExhaust)
    <3>1. /\ boot = "up" /\ lh' = lh /\ outstanding' = outstanding + 1 /\ committing' = committing
          /\ op' = [op EXCEPT ![p] = [pc |-> "in", wrote |-> {}]]
      BY <1>5, <2>2 DEF BeginOp, Goto
    <3>2. \A q \in Procs : op'[q].pc = "asleep" => op[q].pc = "asleep"
      BY <3>1, <1>1 DEF Ops
    <3> QED BY <3>1, <3>2, <1>1, KeepsReason, SMT
  <2> QED BY <2>1, <2>2
<1>6. ASSUME NEW p \in Procs, NEW b \in Blocks, NEW d \in Data, LogWritten(p, b, d)
      PROVE  SleepsForAReason'
  <2>1. /\ boot = "up" /\ outstanding' = outstanding /\ committing' = committing
        /\ op' = [op EXCEPT ![p] = [pc |-> "in", wrote |-> op[p].wrote \cup {b}]]
        /\ lh' = lh \/ lh' = Append(lh, b)
    BY <1>6 DEF LogWritten, MayWrite, At
  <2>2. lh' \in Seq(Blocks) /\ Len(lh) <= Len(lh')
    BY <2>1, <1>1, AppendFacts, SMT
  <2>3. \A q \in Procs : op'[q].pc = "asleep" => op[q].pc = "asleep"
    BY <2>1, <1>1 DEF Ops
  <2> QED BY <2>1, <2>2, <2>3, <1>1, KeepsReason, SMT
<1>7. ASSUME NEW p \in Procs, NEW b \in Blocks, LogWritePanic(p, b) PROVE SleepsForAReason'
  BY <1>3, <1>7 DEF LogWritePanic
<1>8. ASSUME NEW p \in Procs, EndOpLast(p) PROVE SleepsForAReason'
  BY <1>3, <1>8 DEF EndOpLast
<1>9. ASSUME NEW p \in Procs, EndOpEarly(p) \/ CommitDone(p) PROVE SleepsForAReason'
  <2>1. \E f : op' = Woken(f)
    BY <1>9 DEF EndOpEarly, CommitDone
  <2> QED BY <2>1, <1>3, NobodyAsleep
<1>10. ASSUME NEW p \in Procs, WriteLog(p) \/ WriteHead(p) \/ InstallTrans(p) \/ ClearHead(p)
       PROVE  SleepsForAReason'
  <2>1. At(p, "write_log") \/ At(p, "install")
    BY <1>10 DEF WriteLog, WriteHead, InstallTrans, ClearHead
  <2>2. committing
    BY <2>1, InCommit DEF Committers
  <2>3. committing' = committing
    BY <1>10 DEF WriteLog, WriteHead, InstallTrans, ClearHead
  <2> QED BY <2>2, <2>3, <1>3
<1>11. ASSUME NEW b \in Blocks, Read(b) \/ Recycle(b) PROVE SleepsForAReason'
  BY <1>2, <1>11 DEF Read, Recycle
<1>12. CASE Recovery
  <2>1. CASE ReadHead
    BY <2>1, <1>3 DEF ReadHead
  <2>2. CASE RecoverInstall
    BY <2>2, <1>3 DEF RecoverInstall
  <2>3. CASE RecoverClear
    <3>1. boot = "recover" /\ op' = op
      BY <2>3 DEF RecoverClear
    <3>2. \A q \in Procs : op'[q].pc # "asleep"
      BY <3>1, SMT DEF IInv, OneCommitter, Out
    <3> QED BY <3>2, <1>3
  <2> QED BY <1>12, <2>1, <2>2, <2>3 DEF Recovery
<1>13. CASE Crash
  BY <1>3, <1>13 DEF Crash
<1> QED
  BY <1>4, <1>5, <1>6, <1>7, <1>8, <1>9, <1>10, <1>11, <1>12, <1>13
  DEF Next, Operation, LogWrite, Commit

\* No wakeup of the log is lost: while a process sleeps in begin_op() the log
\* is being committed or is still short of space, for any number of processes.
THEOREM SleepersHaveAReason == Spec => []SleepsForAReason
<1>1. Init => SleepsForAReason
  BY DEF Init, SleepsForAReason
<1> QED BY <1>1, Invariance, NextSleeps, PTL DEF Spec

-----------------------------------------------------------------------------
\* The reservations of the operations of f.
UnwrittenOf(f) ==
    {pk \in {p \in Procs : f[p].pc = "in"} \X (1..MAXOPBLOCKS) : pk[2] > Cardinality(f[pk[1]].wrote)}

\* Every operation in progress reserves at most MAXOPBLOCKS blocks.
LEMMA UnwrittenFacts ==
    ASSUME NEW f
    PROVE  LET acts == {p \in Procs : f[p].pc = "in"}
           IN  /\ IsFiniteSet(UnwrittenOf(f)) /\ Cardinality(UnwrittenOf(f)) \in Nat
               /\ Cardinality(UnwrittenOf(f)) <= Cardinality(acts) * MAXOPBLOCKS
<1> DEFINE acts == {p \in Procs : f[p].pc = "in"}
<1>1. IsFiniteSet(acts) /\ Cardinality(acts) \in Nat
  BY ProcsAssumption, FS_Subset, FS_CardinalityType
<1>2. IsFiniteSet(1..MAXOPBLOCKS) /\ Cardinality(1..MAXOPBLOCKS) = MAXOPBLOCKS
  BY SizesAssumption, FS_Interval, SMT
<1> HIDE DEF acts
<1>3. /\ IsFiniteSet(acts \X (1..MAXOPBLOCKS))
      /\ Cardinality(acts \X (1..MAXOPBLOCKS)) = Cardinality(acts) * MAXOPBLOCKS
  BY <1>1, <1>2, FS_Product
<1>4. UnwrittenOf(f) \subseteq acts \X (1..MAXOPBLOCKS)
  BY DEF UnwrittenOf, acts
<1> HIDE DEF UnwrittenOf
<1>5. /\ IsFiniteSet(UnwrittenOf(f))
      /\ Cardinality(UnwrittenOf(f)) <= Cardinality(acts \X (1..MAXOPBLOCKS))
  BY <1>3, <1>4, FS_Subset
<1>6. Cardinality(UnwrittenOf(f)) \in Nat
  BY <1>5, FS_CardinalityType
<1> QED BY <1>3, <1>5, <1>6 DEF acts

\* With nobody in an operation there is nothing to reserve.
LEMMA NoneActive ==
    ASSUME IInv', active' = {}
    PROVE  WritesLogged' /\ Reserved'
<1>1. WritesLogged'
  BY DEF WritesLogged
<1>2. unwritten' = {}
  BY DEF unwritten
<1>3. Cardinality(unwritten') = 0
  BY <1>2, FS_EmptySet
<1>4. Len(lh)' <= LOGSIZE /\ Len(lh)' \in Nat
  <2>1. lh' \in Seq(Blocks) /\ Len(lh)' <= LOGSIZE
    BY DEF IInv, TypeOK, LogShape
  <2> QED BY <2>1, SeqFacts
<1> QED BY <1>1, <1>3, <1>4, SMT DEF Reserved

\* The log and the reservations do not grow.
LEMMA ReservationsShrink ==
    ASSUME IInv, WritesLogged, Reserved, UNCHANGED <<lh, committing>>,
           active' \subseteq active, \A q \in active' : op'[q] = op[q]
    PROVE  WritesLogged' /\ Reserved'
<1>1. WritesLogged'
  BY DEF WritesLogged
<1>2. unwritten' \subseteq unwritten
  BY DEF unwritten
<1>3. unwritten = UnwrittenOf(op)
  BY DEF unwritten, UnwrittenOf, active
<1>4. IsFiniteSet(unwritten) /\ Cardinality(unwritten) \in Nat
  BY <1>3, UnwrittenFacts
<1>5. IsFiniteSet(unwritten') /\ Cardinality(unwritten') <= Cardinality(unwritten)
  BY <1>2, <1>4, FS_Subset
<1>6. Cardinality(unwritten') \in Nat
  BY <1>5, FS_CardinalityType
<1>7. Len(lh) \in Nat /\ LOGSIZE \in Nat
  BY SeqFacts, SizesAssumption DEF IInv, TypeOK
<1> QED BY <1>1, <1>4, <1>5, <1>6, <1>7, SMT DEF Reserved

\* begin_op() admits an operation: its reservation fits.
LEMMA AdmitReserves ==
    ASSUME IInv, IInv', WritesLogged, Reserved, NEW p \in Procs, BeginOp(p)
    PROVE  WritesLogged' /\ Reserved'
<1>1. op \in Ops /\ op[p].pc \in {"out", "begin"} /\ UNCHANGED <<lh, committing>>
  BY DEF IInv, TypeOK, BeginOp
<1>2. CASE committing \/ MightExhaust
  <2>1. op' = [op EXCEPT ![p] = [pc |-> "asleep", wrote |-> {}]]
    BY <1>2 DEF BeginOp, Goto
  <2>2. active' \subseteq active /\ \A q \in active' : op'[q] = op[q]
    BY <1>1, <2>1 DEF active, Ops
  <2> QED BY <1>1, <2>2, ReservationsShrink
<1>3. CASE ~(committing \/ MightExhaust)
  <2>1. op' = [op EXCEPT ![p] = [pc |-> "in", wrote |-> {}]] /\ outstanding' = outstanding + 1
    BY <1>3 DEF BeginOp, Goto
  <2>2. WritesLogged'
    <3>1. \A q \in active' : IF q = p THEN op'[q].wrote = {} ELSE q \in active /\ op'[q] = op[q]
      BY <1>1, <2>1 DEF active, Ops
    <3> QED BY <1>1, <3>1, FS_EmptySet DEF WritesLogged
  <2>3. Cardinality(active') = outstanding + 1
    BY <2>1 DEF IInv, OneCommitter
  <2>4. unwritten' = UnwrittenOf(op') /\ active' = {q \in Procs : op'[q].pc = "in"}
    BY DEF unwritten, UnwrittenOf, active
  <2>5. /\ Cardinality(unwritten') \in Nat
        /\ Cardinality(unwritten') <= (outstanding + 1) * MAXOPBLOCKS
    BY <2>3, <2>4, UnwrittenFacts
  <2>6. /\ Len(lh) \in Nat /\ LOGSIZE \in Nat /\ outstanding \in Nat
        /\ (outstanding + 1) * MAXOPBLOCKS \in Nat
    BY SeqFacts, SizesAssumption, SMT DEF IInv, TypeOK
  <2>7. Len(lh) + (outstanding + 1) * MAXOPBLOCKS <= LOGSIZE
    BY <1>3, <2>6, SMT DEF MightExhaust
  <2> HIDE DEF unwritten
  <2> QED BY <1>1, <2>2, <2>5, <2>6, <2>7, SMT DEF Reserved
<1> QED BY <1>2, <1>3

\* log_write(): a block that is new to the log is new to the operation, which
\* uses up one of its reserved blocks.
LEMMA WriteUsesReserve ==
    ASSUME OpBlocks <= MAXOPBLOCKS,
           IInv, WritesLogged, Reserved,
           NEW p \in Procs, NEW b \in Blocks, NEW d \in Data, LogWritten(p, b, d)
    PROVE  WritesLogged' /\ Reserved'
<1> DEFINE w == op[p].wrote
           c == Cardinality(w)
<1>1. /\ op \in Ops /\ lh \in Seq(Blocks) /\ committing' = committing
      /\ op[p].pc = "in" /\ Cardinality(w \cup {b}) <= OpBlocks
      /\ op' = [op EXCEPT ![p] = [pc |-> "in", wrote |-> w \cup {b}]]
      /\ lh' = IF b \in Range(lh) THEN lh ELSE Append(lh, b)
  BY DEF LogWritten, MayWrite, At, IInv, TypeOK
<1>2. active' = active /\ p \in active
  BY <1>1 DEF active, Ops
<1>3. op'[p].wrote = w \cup {b} /\ \A q \in active : q # p => op'[q] = op[q]
  BY <1>1 DEF active, Ops
<1>4. b \in Range(lh)' /\ Range(lh) \subseteq Range(lh)'
  <2>1. CASE b \in Range(lh)
    BY <1>1, <2>1
  <2>2. CASE b \notin Range(lh)
    <3>1. lh' \in Seq(Blocks) /\ Len(lh') = Len(lh) + 1 /\ lh'[Len(lh) + 1] = b
          /\ \A k \in 1..Len(lh) : lh'[k] = lh[k]
      BY <1>1, <2>2, AppendFacts, SMT
    <3>2. Len(lh) \in Nat
      BY <1>1, SeqFacts
    <3>3. \A q \in Seq(Blocks) : \A x : x \in Range(q) <=> \E k \in 1..Len(q) : q[k] = x
      BY SeqFacts
    <3>4. \A k \in 1..Len(lh) : k \in 1..Len(lh')
      BY <3>1, <3>2, SMT
    <3>5. Len(lh) + 1 \in 1..Len(lh')
      BY <3>1, <3>2, SMT
    <3>6. b \in Range(lh')
      BY <3>1, <3>3, <3>5
    <3>7. ASSUME NEW x \in Range(lh) PROVE x \in Range(lh')
      <4>1. PICK k \in 1..Len(lh) : lh[k] = x
        BY <1>1, <3>3, <3>7
      <4>2. k \in 1..Len(lh') /\ lh'[k] = x
        BY <3>1, <3>4, <4>1
      <4> QED BY <3>1, <3>3, <4>2
    <3> QED BY <3>6, <3>7
  <2> QED BY <2>1, <2>2
<1>5. IsFiniteSet(w) /\ w \subseteq Range(lh) /\ c \in Nat
  BY <1>2, FS_CardinalityType DEF WritesLogged
<1>6. /\ IsFiniteSet(w \cup {b}) /\ Cardinality(w \cup {b}) \in Nat /\ c <= Cardinality(w \cup {b})
      /\ b \notin w => Cardinality(w \cup {b}) = c + 1
  <2>1. IsFiniteSet(w \cup {b}) /\ (b \notin w => Cardinality(w \cup {b}) = c + 1)
    BY <1>5, FS_AddElement
  <2>2. Cardinality(w \cup {b}) \in Nat
    BY <2>1, FS_CardinalityType
  <2>3. c <= Cardinality(w \cup {b})
    <3>1. w \subseteq w \cup {b}
      OBVIOUS
    <3> QED BY <2>1, <3>1, FS_Subset
  <2> QED BY <2>1, <2>2, <2>3
<1> HIDE DEF w, c
<1>7. WritesLogged'
  BY <1>2, <1>3, <1>4, <1>5, <1>6 DEF WritesLogged
<1>8. unwritten = UnwrittenOf(op)
  BY DEF unwritten, UnwrittenOf, active
<1>9. IsFiniteSet(unwritten) /\ Cardinality(unwritten) \in Nat
  BY <1>8, UnwrittenFacts
<1>10. Len(lh) \in Nat /\ LOGSIZE \in Nat
  BY <1>1, SeqFacts, SizesAssumption
<1>11. CASE b \in Range(lh)
  <2>1. unwritten' \subseteq unwritten
    <3> SUFFICES ASSUME NEW q \in active, NEW k \in 1..MAXOPBLOCKS, k > Cardinality(op'[q].wrote)
                 PROVE  k > Cardinality(op[q].wrote)
      BY <1>2 DEF unwritten
    <3>1. CASE q = p
      <4>1. op'[q].wrote = w \cup {b} /\ Cardinality(op[q].wrote) = c
        BY <1>3, <3>1 DEF c, w
      <4> QED BY <1>5, <1>6, <4>1, SMT
    <3>2. CASE q # p
      BY <1>3, <3>2
    <3> QED BY <3>1, <3>2
  <2>2. IsFiniteSet(unwritten') /\ Cardinality(unwritten') <= Cardinality(unwritten)
    BY <2>1, <1>9, FS_Subset
  <2>3. Cardinality(unwritten') \in Nat
    BY <2>2, FS_CardinalityType
  <2> HIDE DEF unwritten
  <2> QED BY <1>1, <1>7, <1>9, <1>10, <1>11, <2>2, <2>3, SMT DEF Reserved
<1>12. CASE b \notin Range(lh)
  <2>1. b \notin w /\ Cardinality(w \cup {b}) = c + 1 /\ c + 1 \in 1..MAXOPBLOCKS
    BY <1>1, <1>5, <1>6, <1>12, SizesAssumption, SMT
  <2>2. <<p, c + 1>> \in unwritten
    BY <1>2, <1>5, <2>1, SMT DEF unwritten, c, w
  <2>3. unwritten' \subseteq unwritten \ {<<p, c + 1>>}
    <3> SUFFICES ASSUME NEW q \in active, NEW k \in 1..MAXOPBLOCKS, k > Cardinality(op'[q].wrote)
                 PROVE  k > Cardinality(op[q].wrote) /\ <<q, k>> # <<p, c + 1>>
      BY <1>2, SMT DEF unwritten
    <3>1. CASE q = p
      <4>1. Cardinality(op'[q].wrote) = c + 1 /\ Cardinality(op[q].wrote) = c
        BY <1>3, <2>1, <3>1 DEF c, w
      <4> QED BY <1>5, <4>1, SMT
    <3>2. CASE q # p
      BY <1>3, <3>2
    <3> QED BY <3>1, <3>2
  <2> HIDE DEF unwritten
  <2>4. /\ IsFiniteSet(unwritten \ {<<p, c + 1>>})
        /\ Cardinality(unwritten \ {<<p, c + 1>>}) = Cardinality(unwritten) - 1
    BY <1>9, <2>2, FS_RemoveElement
  <2>5. IsFiniteSet(unwritten') /\ Cardinality(unwritten') <= Cardinality(unwritten) - 1
    BY <2>3, <2>4, FS_Subset, SMT
  <2>6. Cardinality(unwritten') \in Nat
    BY <2>5, FS_CardinalityType
  <2>7. Len(lh') = Len(lh) + 1
    BY <1>1, <1>12, AppendFacts
  <2> QED BY <1>1, <1>7, <1>9, <1>10, <2>5, <2>6, <2>7, SMT DEF Reserved
<1> QED BY <1>11, <1>12

\* Every step keeps the reservations.
LEMMA NextReserved ==
    ASSUME OpBlocks <= MAXOPBLOCKS
    PROVE  IInv /\ WritesLogged /\ Reserved /\ [Next]_vars => WritesLogged' /\ Reserved'
<1> SUFFICES ASSUME IInv, WritesLogged, Reserved, [Next]_vars
             PROVE  WritesLogged' /\ Reserved'
  OBVIOUS
<1>1. IInv' /\ op \in Ops
  BY NextInv DEF IInv, TypeOK
<1>2. ASSUME UNCHANGED <<lh, committing, op>> PROVE WritesLogged' /\ Reserved'
  BY <1>2 DEF WritesLogged, Reserved, unwritten, active
<1>3. ASSUME \A q \in Procs : op'[q].pc # "in" PROVE WritesLogged' /\ Reserved'
  <2>1. active' = {}
    BY <1>3 DEF active
  <2> QED BY <1>1, <2>1, NoneActive
<1>4. CASE UNCHANGED vars
  BY <1>2, <1>4 DEF vars
<1>5. ASSUME NEW p \in Procs, BeginOp(p) PROVE WritesLogged' /\ Reserved'
  BY <1>1, <1>5, AdmitReserves
<1>6. ASSUME NEW p \in Procs, NEW b \in Blocks, NEW d \in Data, LogWritten(p, b, d)
      PROVE  WritesLogged' /\ Reserved'
  BY <1>6, WriteUsesReserve
<1>7. ASSUME NEW p \in Procs, NEW b \in Blocks, LogWritePanic(p, b)
      PROVE  WritesLogged' /\ Reserved'
  BY <1>2, <1>7 DEF LogWritePanic
<1>8. ASSUME NEW p \in Procs, EndOpLast(p) PROVE WritesLogged' /\ Reserved'
  <2>1. Cardinality(active') = 0
    BY <1>1, <1>8 DEF EndOpLast, IInv, OneCommitter
  <2>2. IsFiniteSet(active')
    BY ProcsAssumption, FS_Subset DEF active
  <2>3. active' = {}
    BY <2>1, <2>2, FS_EmptySet
  <2> QED BY <1>1, <2>3, NoneActive
<1>9. ASSUME NEW p \in Procs, EndOpEarly(p) PROVE WritesLogged' /\ Reserved'
  <2>1. UNCHANGED <<lh, committing>> /\ op' = Woken([op EXCEPT ![p] = Out])
    BY <1>9 DEF EndOpEarly
  <2>2. \A q \in Procs : op'[q].pc = "in" => op'[q] = op[q]
    BY <1>1, <2>1 DEF Woken, Out, Ops
  <2>3. active' \subseteq active /\ \A q \in active' : op'[q] = op[q]
    BY <2>2 DEF active
  <2> QED BY <2>1, <2>3, ReservationsShrink
<1>10. ASSUME NEW p \in Procs, WriteLog(p) \/ WriteHead(p) \/ InstallTrans(p) \/ ClearHead(p)
                               \/ CommitDone(p)
       PROVE  WritesLogged' /\ Reserved'
  <2>1. \E pc \in Committers : At(p, pc)
    BY <1>10 DEF WriteLog, WriteHead, InstallTrans, ClearHead, CommitDone, Committers
  <2>2. \A q \in Procs : op[q].pc # "in"
    BY <2>1, InCommit
  <2>3. \/ op' = op
        \/ \E pc \in Committers : op' = [op EXCEPT ![p] = [pc |-> pc, wrote |-> {}]]
        \/ op' = Woken([op EXCEPT ![p] = Out])
    BY <1>10 DEF WriteLog, WriteHead, InstallTrans, ClearHead, CommitDone, Goto, Committers
  <2>4. \A q \in Procs : op'[q].pc # "in"
    <3>1. ASSUME NEW pc \in Committers, op' = [op EXCEPT ![p] = [pc |-> pc, wrote |-> {}]]
          PROVE  \A q \in Procs : op'[q].pc # "in"
      BY <1>1, <2>2, <3>1 DEF Ops, Committers
    <3>2. CASE op' = Woken([op EXCEPT ![p] = Out])
      BY <1>1, <2>2, <3>2 DEF Ops, Woken, Out
    <3> QED BY <2>2, <2>3, <3>1, <3>2
  <2> QED BY <1>3, <2>4
<1>11. ASSUME NEW b \in Blocks, Read(b) \/ Recycle(b) PROVE WritesLogged' /\ Reserved'
  BY <1>2, <1>11 DEF Read, Recycle
<1>12. CASE Recovery
  <2>1. boot \in {"read_head", "recover"} /\ op' = op
    BY <1>12 DEF Recovery, ReadHead, RecoverInstall, RecoverClear
  <2>2. \A q \in Procs : op'[q].pc # "in"
    BY <2>1, SMT DEF IInv, OneCommitter, Out
  <2> QED BY <1>3, <2>2
<1>13. CASE Crash
  BY <1>3, <1>13 DEF Crash, Out
<1> QED
  BY <1>4, <1>5, <1>6, <1>7, <1>8, <1>9, <1>10, <1>11, <1>12, <1>13
  DEF Next, Operation, LogWrite, Commit

\* Nothing is reserved at the start.
LEMMA InitReserved == Init => WritesLogged /\ Reserved
<1> SUFFICES ASSUME Init PROVE WritesLogged /\ Reserved
  OBVIOUS
<1>1. active = {} /\ lh = <<>>
  BY DEF Init, active, Out
<1>2. WritesLogged /\ unwritten = {}
  BY <1>1 DEF WritesLogged, unwritten
<1>3. Cardinality(unwritten) = 0 /\ Len(lh) = 0
  BY <1>1, <1>2, FS_EmptySet
<1> QED BY <1>2, <1>3, SizesAssumption, SMT DEF Reserved

\* With operations that keep to MAXOPBLOCKS blocks the reservations hold throughout.
LEMMA ReservedInvariance ==
    ASSUME OpBlocks <= MAXOPBLOCKS
    PROVE  Spec => [](WritesLogged /\ Reserved)
<1>1. IInv /\ WritesLogged /\ Reserved /\ [Next]_vars => WritesLogged' /\ Reserved'
  BY NextReserved
<1> QED BY <1>1, InitReserved, Invariance, PTL DEF Spec

\* What begin_op()'s "this op might exhaust log space" keeps: the blocks in the
\* log and the ones that the operations may still write are at most LOGSIZE.
\* That is not yet enough for log_write(), which compares with size - 1
\* (LogNeverPanics).
THEOREM SpaceIsReserved ==
    ASSUME OpBlocks <= MAXOPBLOCKS
    PROVE  Spec => []Reserved
<1>1. Spec => [](WritesLogged /\ Reserved)
  BY ReservedInvariance
<1> QED BY <1>1, PTL

\* log_write() finds the log neither full nor outside of a transaction when the
\* operation leaves two of its MAXOPBLOCKS blocks unused.
LEMMA NoLogWritePanic ==
    ASSUME OpBlocks + 2 <= MAXOPBLOCKS, LOGSIZE <= nlog,
           IInv, WritesLogged, Reserved, NEW p \in Procs, NEW b \in Blocks, MayWrite(p, b)
    PROVE  ~LogWritePanics
<1> DEFINE w == op[p].wrote
           last == <<p, MAXOPBLOCKS>>
           two == {<<p, MAXOPBLOCKS - 1>>} \cup {last}
<1>1. /\ At(p, "in") /\ p \in active /\ ~committing /\ Cardinality(w \cup {b}) <= OpBlocks
      /\ Len(lh) \in Nat /\ outstanding = Cardinality(active)
  BY InOperation, SeqFacts DEF MayWrite, At, active, IInv, TypeOK, OneCommitter
<1>2. MAXOPBLOCKS \in Nat /\ LOGSIZE \in Nat /\ nlog \in Nat /\ OpBlocks \in Nat
  BY SizesAssumption
<1>3. Cardinality(w) \in Nat /\ Cardinality(w) <= OpBlocks
  <2>1. IsFiniteSet(w)
    BY <1>1 DEF WritesLogged
  <2>2. IsFiniteSet(w \cup {b})
    BY <2>1, FS_AddElement
  <2>3. w \subseteq w \cup {b}
    OBVIOUS
  <2>4. Cardinality(w) <= Cardinality(w \cup {b})
    BY <2>2, <2>3, FS_Subset
  <2>5. Cardinality(w) \in Nat /\ Cardinality(w \cup {b}) \in Nat
    BY <2>1, <2>2, FS_CardinalityType
  <2> HIDE DEF w
  <2> QED BY <1>1, <1>2, <2>4, <2>5, SMT
<1>4. two \subseteq unwritten
  BY <1>1, <1>2, <1>3, SMT DEF unwritten
<1>5. Cardinality(two) = 2
  <2>1. last \notin {<<p, MAXOPBLOCKS - 1>>}
    BY <1>2, SMT
  <2>2. /\ IsFiniteSet({<<p, MAXOPBLOCKS - 1>>})
        /\ Cardinality({<<p, MAXOPBLOCKS - 1>>}) = 1
    BY FS_Singleton
  <2> HIDE DEF last
  <2>3. Cardinality(two) = Cardinality({<<p, MAXOPBLOCKS - 1>>}) + 1
    BY <2>1, <2>2, FS_AddElement
  <2> QED BY <2>2, <2>3, SMT
<1> HIDE DEF two
<1>6. unwritten = UnwrittenOf(op)
  BY DEF unwritten, UnwrittenOf, active
<1>7. IsFiniteSet(unwritten) /\ Cardinality(unwritten) \in Nat
  BY <1>6, UnwrittenFacts
<1>8. 2 <= Cardinality(unwritten)
  BY <1>4, <1>5, <1>7, FS_Subset
<1>9. outstanding \in Nat /\ outstanding # 0
  BY <1>1, ActiveFinite, FS_EmptySet
<1>10. Len(lh) + Cardinality(unwritten) <= LOGSIZE
  BY <1>1 DEF Reserved
<1> QED BY <1>1, <1>2, <1>7, <1>8, <1>9, <1>10, SMT DEF LogWritePanics

\* The log never panics: no "too big a transaction", no "log_write outside of
\* trans" and no "log.committing", when an operation writes at most
\* MAXOPBLOCKS - 2 blocks.  log_write() compares the length with size - 1, and
\* does so before it looks whether the block is in the log already: one spare
\* block is too few when LOGSIZE is MAXOPBLOCKS.
THEOREM LogNeverPanics ==
    ASSUME OpBlocks + 2 <= MAXOPBLOCKS, LOGSIZE <= nlog
    PROVE  Spec => []NoLogPanic
<1>1. OpBlocks <= MAXOPBLOCKS
  BY SizesAssumption, SMT
<1>2. Init => NoLogPanic
  BY DEF Init, NoLogPanic
<1>3. IInv /\ WritesLogged /\ Reserved /\ NoLogPanic /\ [Next]_vars => NoLogPanic'
  <2> SUFFICES ASSUME IInv, WritesLogged, Reserved, boot # "panic", [Next]_vars, boot' = "panic"
               PROVE  FALSE
    BY DEF NoLogPanic
  <2>1. ASSUME NEW p \in Procs, NEW b \in Blocks, LogWritePanic(p, b) PROVE FALSE
    BY <2>1, NoLogWritePanic DEF LogWritePanic
  <2>2. ASSUME NEW p \in Procs, EndOpLast(p) \/ EndOpEarly(p) PROVE FALSE
    <3>1. At(p, "in") /\ boot' = IF committing THEN "panic" ELSE boot
      BY <2>2 DEF EndOpLast, EndOpEarly
    <3> QED BY <3>1, InOperation
  <2>3. CASE UNCHANGED boot
    BY <2>3
  <2>4. ASSUME NEW p \in Procs, BeginOp(p) \/ Commit(p) PROVE FALSE
    BY <2>3, <2>4
    DEF BeginOp, Commit, WriteLog, WriteHead, InstallTrans, ClearHead, CommitDone
  <2>5. ASSUME NEW p \in Procs, NEW b \in Blocks, NEW d \in Data, LogWritten(p, b, d) PROVE FALSE
    BY <2>3, <2>5 DEF LogWritten
  <2>6. ASSUME NEW b \in Blocks, Read(b) \/ Recycle(b) PROVE FALSE
    BY <2>3, <2>6 DEF Read, Recycle
  <2>7. CASE Recovery \/ Crash
    BY <2>7 DEF Recovery, ReadHead, RecoverInstall, RecoverClear, Crash
  <2>8. CASE UNCHANGED vars
    BY <2>3, <2>8 DEF vars
  <2> QED BY <2>1, <2>2, <2>4, <2>5, <2>6, <2>7, <2>8 DEF Next, Operation, LogWrite
<1>4. Spec => [](WritesLogged /\ Reserved)
  BY <1>1, ReservedInvariance
<1> QED BY <1>2, <1>3, <1>4, Invariance, PTL DEF Spec

=============================================================================
