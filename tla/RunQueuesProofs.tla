-------------------------- MODULE RunQueuesProofs --------------------------
(***************************************************************************)
(* What the queue operations of RunQueues do to QueuesHold, for any number  *)
(* of slots and any slices.  First the sequences: which entries the         *)
(* operations on one queue keep, and that they introduce no duplicate.      *)
(***************************************************************************)
EXTENDS RunQueues, FiniteSetTheorems, TLAPS

\* A sequence is a function on 1..Len(q).
LEMMA SeqEntries ==
    ASSUME NEW S, NEW q \in Seq(S)
    PROVE  /\ Len(q) \in Nat /\ DOMAIN q = 1..Len(q)
           /\ \A i \in 1..Len(q) : q[i] \in S
OBVIOUS

\* The entries of a sequence, by position.
LEMMA EntriesOfSeq ==
    ASSUME NEW S, NEW q \in Seq(S)
    PROVE  /\ Range(q) = {q[i] : i \in 1..Len(q)}
           /\ Range(q) \subseteq S
<1>1. DOMAIN q = 1..Len(q) /\ \A i \in 1..Len(q) : q[i] \in S
  BY SeqEntries
<1>2. Range(q) = {q[i] : i \in 1..Len(q)}
  BY <1>1 DEF Range
<1>3. QED
  BY <1>1, <1>2

\* A sequence without duplicates, by position.
LEMMA InjectiveSeq ==
    ASSUME NEW S, NEW q \in Seq(S)
    PROVE  IsInjective(q) <=> \A i, j \in 1..Len(q) : q[i] = q[j] => i = j
<1>1. DOMAIN q = 1..Len(q)
  BY SeqEntries
<1>2. QED
  BY <1>1 DEF IsInjective

\* Append adds one entry.
LEMMA AppendEntries ==
    ASSUME NEW S, NEW q \in Seq(S), NEW p \in S
    PROVE  /\ Append(q, p) \in Seq(S)
           /\ Range(Append(q, p)) = Range(q) \cup {p}
           /\ IsInjective(q) /\ p \notin Range(q) => IsInjective(Append(q, p))
<1> DEFINE r == Append(q, p)
<1>1. Len(q) \in Nat
  BY SeqEntries
<1>2. /\ r \in Seq(S) /\ Len(r) = Len(q) + 1 /\ r[Len(q) + 1] = p
      /\ \A i \in 1..Len(q) : r[i] = q[i]
  OBVIOUS
<1> HIDE DEF r
<1>3. Range(q) = {q[i] : i \in 1..Len(q)} /\ Range(r) = {r[i] : i \in 1..Len(r)}
  BY <1>2, EntriesOfSeq
<1>inj. /\ IsInjective(q) <=> \A i, j \in 1..Len(q) : q[i] = q[j] => i = j
        /\ IsInjective(r) <=> \A i, j \in 1..Len(r) : r[i] = r[j] => i = j
  BY <1>2, InjectiveSeq
<1>4. \A i \in 1..Len(r) : i \in 1..Len(q) \/ i = Len(q) + 1
  BY <1>1, <1>2
<1>5. Range(r) = Range(q) \cup {p}
  BY <1>1, <1>2, <1>3, <1>4
<1>6. IsInjective(q) /\ p \notin Range(q) => IsInjective(r)
  BY <1>1, <1>2, <1>3, <1>inj, <1>4
<1> QED
  BY <1>2, <1>5, <1>6 DEF r

\* without: the entries after position h move down by one.
LEMMA WithoutEntries ==
    ASSUME NEW S, NEW q \in Seq(S), NEW h \in 1..Len(q)
    PROVE  /\ without(q, h) \in Seq(S)
           /\ Len(without(q, h)) = Len(q) - 1
           /\ \A k \in 1..(Len(q) - 1) :
                 without(q, h)[k] = IF k < h THEN q[k] ELSE q[k + 1]
<1> DEFINE f(k) == IF k < h THEN q[k] ELSE q[k + 1]
<1>1. Len(q) \in Nat /\ h \in 1..Len(q) /\ \A i \in 1..Len(q) : q[i] \in S
  BY SeqEntries
<1>2. \A k \in 1..(Len(q) - 1) : f(k) \in S
  BY <1>1
<1>3. without(q, h) = [k \in 1..(Len(q) - 1) |-> f(k)]
  BY DEF without
<1> HIDE DEF f
<1>4. Len(q) - 1 \in Nat
  BY <1>1
<1>5. without(q, h) \in Seq(S) /\ Len(without(q, h)) = Len(q) - 1
  BY <1>2, <1>3, <1>4
<1> QED
  BY <1>3, <1>5 DEF f

\* without on a queue without duplicates drops one entry.
LEMMA WithoutRange ==
    ASSUME NEW S, NEW q \in Seq(S), NEW h \in 1..Len(q), IsInjective(q)
    PROVE  /\ without(q, h) \in Seq(S)
           /\ Range(without(q, h)) = Range(q) \ {q[h]}
           /\ IsInjective(without(q, h))
<1> DEFINE r == without(q, h)
<1>1. Len(q) \in Nat /\ h \in 1..Len(q)
  BY SeqEntries
<1>2. /\ r \in Seq(S) /\ Len(r) = Len(q) - 1
      /\ \A k \in 1..(Len(q) - 1) : r[k] = IF k < h THEN q[k] ELSE q[k + 1]
  BY WithoutEntries
<1> HIDE DEF r
<1>3. Range(q) = {q[i] : i \in 1..Len(q)} /\ Range(r) = {r[i] : i \in 1..Len(r)}
  BY <1>2, EntriesOfSeq
<1>inj. /\ \A i, j \in 1..Len(q) : q[i] = q[j] => i = j
        /\ IsInjective(r) <=> \A i, j \in 1..Len(r) : r[i] = r[j] => i = j
  BY <1>2, InjectiveSeq, Zenon
<1>4. \A k \in 1..Len(r) : \E i \in 1..Len(q) : i # h /\ r[k] = q[i]
  <2> SUFFICES ASSUME NEW k \in 1..Len(r)
               PROVE  \E i \in 1..Len(q) : i # h /\ r[k] = q[i]
    OBVIOUS
  <2>1. CASE k < h
    BY <2>1, <1>1, <1>2
  <2>2. CASE k >= h
    BY <2>2, <1>1, <1>2
  <2> QED BY <2>1, <2>2, <1>1, <1>2
<1>5. \A i \in 1..Len(q) : i # h => \E k \in 1..Len(r) : r[k] = q[i]
  <2> SUFFICES ASSUME NEW i \in 1..Len(q), i # h
               PROVE  \E k \in 1..Len(r) : r[k] = q[i]
    OBVIOUS
  <2>1. CASE i < h
    BY <2>1, <1>1, <1>2
  <2>2. CASE i > h
    <3>1. i - 1 \in 1..Len(r) /\ r[i - 1] = q[i]
      BY <2>2, <1>1, <1>2
    <3> QED BY <3>1
  <2> QED BY <2>1, <2>2, <1>1
<1>6. Range(r) = Range(q) \ {q[h]}
  <2>1. ASSUME NEW x \in Range(r) PROVE x \in Range(q) \ {q[h]}
    <3>1. PICK k \in 1..Len(r) : x = r[k]
      BY <1>3
    <3>2. PICK i \in 1..Len(q) : i # h /\ r[k] = q[i]
      BY <1>4
    <3> QED BY <3>1, <3>2, <1>1, <1>3, <1>inj
  <2>2. ASSUME NEW x \in Range(q) \ {q[h]} PROVE x \in Range(r)
    <3>1. PICK i \in 1..Len(q) : x = q[i]
      BY <1>3
    <3> QED BY <3>1, <1>3, <1>5
  <2> QED BY <2>1, <2>2
<1>7. IsInjective(r)
  BY <1>1, <1>2, <1>inj
<1> QED
  BY <1>2, <1>6, <1>7 DEF r

\* Concatenation unites the entries.
LEMMA ConcatEntries ==
    ASSUME NEW S, NEW a \in Seq(S), NEW b \in Seq(S)
    PROVE  /\ a \o b \in Seq(S)
           /\ Range(a \o b) = Range(a) \cup Range(b)
           /\ IsInjective(a) /\ IsInjective(b) /\ Range(a) \cap Range(b) = {}
                => IsInjective(a \o b)
<1> DEFINE r == a \o b
<1>1. Len(a) \in Nat /\ Len(b) \in Nat
  BY SeqEntries
<1>2. /\ r \in Seq(S) /\ Len(r) = Len(a) + Len(b)
      /\ \A i \in 1..(Len(a) + Len(b)) :
            r[i] = IF i <= Len(a) THEN a[i] ELSE b[i - Len(a)]
  BY <1>1
<1> HIDE DEF r
<1>3. /\ Range(a) = {a[i] : i \in 1..Len(a)}
      /\ Range(b) = {b[i] : i \in 1..Len(b)}
      /\ Range(r) = {r[i] : i \in 1..Len(r)}
  BY <1>2, EntriesOfSeq, Zenon
<1>inj. /\ IsInjective(a) <=> \A i, j \in 1..Len(a) : a[i] = a[j] => i = j
        /\ IsInjective(b) <=> \A i, j \in 1..Len(b) : b[i] = b[j] => i = j
        /\ IsInjective(r) <=> \A i, j \in 1..Len(r) : r[i] = r[j] => i = j
  BY <1>2, InjectiveSeq, Zenon
<1>4. \A i \in 1..Len(a) : i \in 1..Len(r) /\ r[i] = a[i]
  BY <1>1, <1>2
<1>5. \A i \in 1..Len(b) : Len(a) + i \in 1..Len(r) /\ r[Len(a) + i] = b[i]
  <2> TAKE i \in 1..Len(b)
  <2>1. Len(a) + i \in 1..(Len(a) + Len(b)) /\ ~(Len(a) + i <= Len(a))
        /\ (Len(a) + i) - Len(a) = i
    BY <1>1
  <2> QED BY <2>1, <1>2
<1>6. \A i \in 1..Len(r) :
          \/ i \in 1..Len(a) /\ r[i] = a[i]
          \/ i - Len(a) \in 1..Len(b) /\ r[i] = b[i - Len(a)]
  BY <1>1, <1>2
<1>7. Range(r) = Range(a) \cup Range(b)
  <2>1. Range(a) \subseteq Range(r)
    BY <1>3, <1>4
  <2>2. Range(b) \subseteq Range(r)
    BY <1>3, <1>5
  <2>3. Range(r) \subseteq Range(a) \cup Range(b)
    BY <1>3, <1>6
  <2> QED BY <2>1, <2>2, <2>3
<1>8. ASSUME IsInjective(a), IsInjective(b), Range(a) \cap Range(b) = {}
      PROVE  IsInjective(r)
  <2> SUFFICES ASSUME NEW i \in 1..Len(r), NEW j \in 1..Len(r), r[i] = r[j]
               PROVE  i = j
    BY <1>inj
  <2>1. CASE i \in 1..Len(a) /\ r[i] = a[i]
    <3>1. r[i] \in Range(a)
      BY <2>1, <1>3
    <3>2. r[j] \notin Range(b)
      BY <3>1, <1>8
    <3>3. j \in 1..Len(a) /\ r[j] = a[j]
      BY <3>2, <1>3, <1>6, Zenon
    <3> QED BY <2>1, <3>3, <1>inj, <1>8, Zenon
  <2>2. CASE i - Len(a) \in 1..Len(b) /\ r[i] = b[i - Len(a)]
    <3>1. r[i] \in Range(b)
      BY <2>2, <1>3
    <3>2. r[j] \notin Range(a)
      BY <3>1, <1>8
    <3>3. j - Len(a) \in 1..Len(b) /\ r[j] = b[j - Len(a)]
      BY <3>2, <1>3, <1>6
    <3>4. i - Len(a) = j - Len(a)
      BY <2>2, <3>3, <1>inj, <1>8, Zenon
    <3> QED BY <3>4, <1>1, <1>2
  <2> QED BY <2>1, <2>2, <1>6
<1> QED
  BY <1>2, <1>7, <1>8 DEF r

\* The boost loop splits a level: every entry is either taken or passed over.
LEMMA TakenPassed ==
    ASSUME NEW S, NEW q \in Seq(S), IsInjective(q)
    PROVE  /\ Taken(q) \in Seq(S) /\ IsInjective(Taken(q))
           /\ Passed(q) \in Seq(S) /\ IsInjective(Passed(q))
           /\ Range(Taken(q)) \cup Range(Passed(q)) = Range(q)
           /\ Range(Taken(q)) \cap Range(Passed(q)) = {}
<1> DEFINE n == Len(q)
           t == Taken(q)
           u == Passed(q)
           m == (n + 1) \div 2
           w == n \div 2
<1>1. n \in Nat /\ \A i \in 1..n : q[i] \in S
  BY SeqEntries
<1>2. /\ m \in Nat /\ w \in Nat
      /\ \A k \in 1..m : 2 * k - 1 \in 1..n
      /\ \A k \in 1..w : 2 * k \in 1..n
      /\ \A i \in 1..n : \/ \E k \in 1..m : i = 2 * k - 1
                         \/ \E k \in 1..w : i = 2 * k
  <2>1. m \in Nat /\ w \in Nat /\ 2 * m \in n..(n + 1) /\ 2 * w \in (n - 1)..n
    BY <1>1
  <2>2. ASSUME NEW i \in 1..n
        PROVE  \/ \E k \in 1..m : i = 2 * k - 1
               \/ \E k \in 1..w : i = 2 * k
    <3>1. \E k \in Nat : i = 2 * k - 1 \/ i = 2 * k
      <4>1. ((i + 1) \div 2) \in Nat /\ 2 * ((i + 1) \div 2) \in i..(i + 1)
        BY <1>1
      <4> QED BY <4>1, <1>1
    <3>2. PICK k \in Nat : i = 2 * k - 1 \/ i = 2 * k
      BY <3>1
    <3> HIDE DEF m, w, n
    <3>3. CASE i = 2 * k - 1
      <4>1. k \in 1..m
        BY <3>3, <2>1, <1>1
      <4> QED BY <4>1, <3>3
    <3>4. CASE i = 2 * k
      <4>1. k \in 1..w
        BY <3>4, <2>1, <1>1
      <4> QED BY <4>1, <3>4
    <3> QED BY <3>2, <3>3, <3>4
  <2> HIDE DEF m, w, n
  <2> QED BY <2>1, <2>2, <1>1
<1>3. t = [k \in 1..m |-> q[2 * k - 1]] /\ u = [k \in 1..w |-> q[2 * k]]
  BY DEF Taken, Passed
<1> HIDE DEF n, m, w, t, u
<1>4. t \in Seq(S) /\ Len(t) = m /\ \A k \in 1..m : t[k] = q[2 * k - 1]
  BY <1>1, <1>2, <1>3
<1>5. u \in Seq(S) /\ Len(u) = w /\ \A k \in 1..w : u[k] = q[2 * k]
  BY <1>1, <1>2, <1>3
<1>6. /\ Range(q) = {q[i] : i \in 1..n}
      /\ Range(t) = {t[i] : i \in 1..m}
      /\ Range(u) = {u[i] : i \in 1..w}
  BY <1>4, <1>5, EntriesOfSeq DEF n
<1>7. \A i, j \in 1..n : q[i] = q[j] => i = j
  BY InjectiveSeq DEF n
<1>8. IsInjective(t)
  <2>1. ASSUME NEW i \in 1..m, NEW j \in 1..m, t[i] = t[j] PROVE i = j
    <3>1. 2 * i - 1 \in 1..n /\ 2 * j - 1 \in 1..n
      BY <1>2
    <3>2. q[2 * i - 1] = q[2 * j - 1]
      BY <2>1, <1>4
    <3>3. 2 * i - 1 = 2 * j - 1
      BY <3>1, <3>2, <1>7
    <3> QED BY <3>3, <1>1
  <2> QED BY <2>1, <1>4, InjectiveSeq
<1>9. IsInjective(u)
  <2>1. ASSUME NEW i \in 1..w, NEW j \in 1..w, u[i] = u[j] PROVE i = j
    <3>1. 2 * i \in 1..n /\ 2 * j \in 1..n
      BY <1>2
    <3>2. q[2 * i] = q[2 * j]
      BY <2>1, <1>5, Zenon
    <3>3. 2 * i = 2 * j
      BY <3>1, <3>2, <1>7
    <3> QED BY <3>3, <1>1
  <2> QED BY <2>1, <1>5, InjectiveSeq
<1>10. Range(t) \cup Range(u) = Range(q)
  <2>1. Range(t) \subseteq Range(q)
    BY <1>2, <1>4, <1>6
  <2>2. Range(u) \subseteq Range(q)
    BY <1>2, <1>5, <1>6
  <2>3. ASSUME NEW i \in 1..n PROVE q[i] \in Range(t) \cup Range(u)
    <3>1. CASE \E k \in 1..m : i = 2 * k - 1
      BY <3>1, <1>4, <1>6
    <3>2. CASE \E k \in 1..w : i = 2 * k
      BY <3>2, <1>5, <1>6
    <3> QED BY <3>1, <3>2, <1>2, Zenon
  <2> QED BY <2>1, <2>2, <2>3, <1>6, Zenon
<1>11. Range(t) \cap Range(u) = {}
  <2> SUFFICES ASSUME NEW i \in 1..m, NEW k \in 1..w, t[i] = u[k] PROVE FALSE
    BY <1>6
  <2>1. q[2 * i - 1] = q[2 * k] /\ 2 * i - 1 \in 1..n /\ 2 * k \in 1..n
    BY <1>2, <1>4, <1>5
  <2>2. 2 * i - 1 = 2 * k
    BY <2>1, <1>7
  <2> QED BY <2>2, <1>2
<1> QED
  BY <1>4, <1>5, <1>8, <1>9, <1>10, <1>11 DEF t, u

\* TableOrder lists every member of a set of slots once.
LEMMA TableOrderLists ==
    ASSUME NEW S \in SUBSET Slots
    PROVE  /\ TableOrder(S) \in Seq(Slots)
           /\ Range(TableOrder(S)) = S
           /\ IsInjective(TableOrder(S))
<1> DEFINE n == Cardinality(S)
           below(s) == {x \in S : x <= s}
           rank == [s \in S |-> Cardinality(below(s))]
           t == TableOrder(S)
<1>1. IsFiniteSet(S) /\ n \in Nat /\ S \subseteq Nat
  <2>1. S \subseteq Nat
    BY NPROCAssumption DEF Slots
  <2>2. IsFiniteSet(Slots)
    BY NPROCAssumption, FS_Interval DEF Slots
  <2>3. IsFiniteSet(S)
    BY <2>2, FS_Subset
  <2> QED BY <2>1, <2>3, FS_CardinalityType
<1>2. \A s \in S : /\ IsFiniteSet(below(s)) /\ rank[s] \in 1..n
                   /\ rank[s] = Cardinality(below(s))
  <2> SUFFICES ASSUME NEW s \in S
               PROVE  IsFiniteSet(below(s)) /\ Cardinality(below(s)) \in 1..n
    OBVIOUS
  <2>1. IsFiniteSet(below(s)) /\ Cardinality(below(s)) <= n
    BY <1>1, FS_Subset
  <2>2. Cardinality(below(s)) \in Nat
    BY <2>1, FS_CardinalityType
  <2>3. s \in below(s)
    BY <1>1
  <2>4. Cardinality(below(s)) # 0
    BY <2>1, <2>3, FS_EmptySet
  <2> QED BY <2>1, <2>2, <2>4, <1>1
<1>3. \A r, s \in S : r < s => rank[r] # rank[s]
  <2> SUFFICES ASSUME NEW r \in S, NEW s \in S, r < s
               PROVE  Cardinality(below(r)) # Cardinality(below(s))
    BY <1>2
  <2>0. r \in Nat /\ s \in Nat
    BY <1>1
  <2>a. below(r) \subseteq below(s)
    <3> SUFFICES ASSUME NEW x \in S, x <= r PROVE x <= s
      OBVIOUS
    <3> QED BY <2>0, <1>1
  <2>b. s <= s /\ ~(s <= r)
    BY <2>0
  <2>1. below(r) \subseteq below(s) /\ s \in below(s) /\ s \notin below(r)
    BY <2>a, <2>b
  <2>2. below(r) # below(s)
    BY <2>1
  <2>3. IsFiniteSet(below(s)) /\ below(r) \in SUBSET below(s)
    BY <2>1, <1>2
  <2> HIDE DEF below
  <2> QED BY <2>2, <2>3, FS_Subset
<1>4. \A r, s \in S : rank[r] = rank[s] => r = s
  BY <1>1, <1>3
<1>5. \A k \in 1..n : \E s \in S : rank[s] = k
  <2>1. rank \in Injection(S, 1..n)
    <3>1. rank \in [S -> 1..n]
      BY <1>2
    <3>2. IsInjective(rank)
      BY <1>4 DEF IsInjective
    <3> HIDE DEF rank
    <3> QED BY <3>1, <3>2 DEF Injection
  <2>2. IsFiniteSet(1..n) /\ Cardinality(1..n) = n
    BY <1>1, FS_Interval
  <2>3. rank \in Surjection(S, 1..n)
    BY <2>1, <2>2, FS_Injection
  <2> HIDE DEF rank, n
  <2> QED BY <2>3 DEF Surjection
<1>6. t = [k \in 1..n |-> CHOOSE s \in S : Cardinality(below(s)) = k]
  BY DEF TableOrder
<1>7. \A k \in 1..n : t[k] \in S /\ rank[t[k]] = k
  <2> SUFFICES ASSUME NEW k \in 1..n
               PROVE  LET c == CHOOSE s \in S : Cardinality(below(s)) = k
                      IN  c \in S /\ rank[c] = k
    BY <1>6, Zenon
  <2>1. \E s \in S : Cardinality(below(s)) = k
    BY <1>5, <1>2, Zenon
  <2> HIDE DEF below
  <2> QED BY <2>1
<1> HIDE DEF t, rank, n
<1>8. t \in Seq(Slots) /\ Len(t) = n
  <2>1. \A k \in 1..n : t[k] \in Slots
    BY <1>7
  <2>2. t = [k \in 1..n |-> t[k]]
    <3> DEFINE pick(k) == CHOOSE s \in S : Cardinality(below(s)) = k
    <3>1. t = [k \in 1..n |-> pick(k)]
      BY <1>6
    <3> HIDE DEF pick
    <3> QED BY <3>1
  <2>3. n \in Nat
    BY <1>1
  <2> QED BY <2>1, <2>2, <2>3
<1>9. Range(t) = S
  <2>1. Range(t) = {t[k] : k \in 1..n}
    BY <1>8, EntriesOfSeq
  <2>2. ASSUME NEW s \in S PROVE s \in Range(t)
    <3>1. rank[s] \in 1..n /\ rank[t[rank[s]]] = rank[s] /\ t[rank[s]] \in S
      BY <1>2, <1>7, Zenon
    <3> QED BY <3>1, <2>1, <1>4
  <2> QED BY <2>1, <2>2, <1>7
<1>10. IsInjective(t)
  <2>1. \A i, j \in 1..n : t[i] = t[j] => i = j
    BY <1>7
  <2> QED BY <2>1, <1>8, InjectiveSeq
<1> QED
  BY <1>8, <1>9, <1>10 DEF t

-----------------------------------------------------------------------------
(* What the queue operations do to queues that hold a set A.                *)

\* The duplicate test of enqueue() answers the question it asks.
LEMMA QueuedMeansHeld ==
    ASSUME NEW Q \in QueueStates, NEW A \in SUBSET Slots, QueuesHold(Q, A),
           NEW pd \in [Slots -> Nat], NEW p \in Slots, NEW l \in Levels,
           \A s \in A : pd[s] = pd[p] => s = p
    PROVE  Queued(Q, pd, p, l) <=> p \in A /\ Q.queue_number[p] = l
<1> DEFINE q == Q.multique[l]
<1>1. q \in Seq(Slots)
  BY DEF QueueStates
<1>2. Range(q) = {q[i] : i \in 1..Len(q)}
  BY <1>1, EntriesOfSeq
<1>3. Range(q) = {s \in A : Q.queue_number[s] = l}
  BY DEF QueuesHold
<1>4. Queued(Q, pd, p, l) <=> \E i \in 1..Len(q) : pd[q[i]] = pd[p]
  BY DEF Queued
<1> HIDE DEF q
<1>5. ASSUME NEW i \in 1..Len(q), pd[q[i]] = pd[p]
      PROVE  p \in A /\ Q.queue_number[p] = l
  <2>1. q[i] \in A /\ Q.queue_number[q[i]] = l
    BY <1>2, <1>3
  <2>2. q[i] = p
    BY <2>1, <1>5
  <2> QED BY <2>1, <2>2
<1>6. ASSUME p \in A, Q.queue_number[p] = l
      PROVE  \E i \in 1..Len(q) : pd[q[i]] = pd[p]
  <2>1. p \in Range(q)
    BY <1>3, <1>6
  <2> QED BY <2>1, <1>2
<1> QED BY <1>4, <1>5, <1>6

\* enqueue() of a process that is not queued adds exactly it.
LEMMA EnqueueHolds ==
    ASSUME NEW Q \in QueueStates, NEW A \in SUBSET Slots, QueuesHold(Q, A),
           NEW pd \in [Slots -> Nat], NEW p \in Slots, p \notin A, NEW l \in Levels,
           \A s \in A : pd[s] # pd[p],
           NEW C \in SUBSET Slots, \A s \in Slots : s \in C <=> s \in A \/ s = p
    PROVE  LET R == enqueue(Q, pd, p, l)
           IN  /\ R \in QueueStates
               /\ QueuesHold(R, C)
               /\ R.queue_number[p] = l /\ R.queueticks[p] = 0
               /\ \A s \in Slots \ {p} :
                    /\ R.queue_number[s] = Q.queue_number[s]
                    /\ R.queueticks[s] = Q.queueticks[s]
<1> DEFINE R == enqueue(Q, pd, p, l)
           q == Q.multique[l]
<1>1. ~Queued(Q, pd, p, l)
  BY QueuedMeansHeld
<1>2. R = [multique     |-> [Q.multique EXCEPT ![l] = Append(@, p)],
           queue_number |-> [Q.queue_number EXCEPT ![p] = l],
           queueticks   |-> [Q.queueticks EXCEPT ![p] = 0]]
  BY <1>1 DEF enqueue
<1> HIDE DEF R
<1>3. /\ Q.multique \in [Levels -> Seq(Slots)]
      /\ Q.queue_number \in [Slots -> Levels]
      /\ Q.queueticks \in [Slots -> Nat]
  BY DEF QueueStates
<1>4. R \in QueueStates
  BY <1>2, <1>3 DEF QueueStates
<1>5. ASSUME NEW m \in Levels
      PROVE  /\ IsInjective(R.multique[m])
             /\ Range(R.multique[m]) = {s \in C : R.queue_number[s] = m}
  <2>1. IsInjective(Q.multique[m]) /\ Range(Q.multique[m]) = {s \in A : Q.queue_number[s] = m}
    BY DEF QueuesHold
  <2>2. CASE m = l
    <3>1. R.multique[m] = Append(q, p)
      BY <1>2, <1>3, <2>2
    <3>2. q \in Seq(Slots) /\ p \notin Range(q) /\ IsInjective(q)
      BY <1>3, <2>1, <2>2
    <3>3. Range(R.multique[m]) = Range(q) \cup {p} /\ IsInjective(R.multique[m])
      BY <3>1, <3>2, AppendEntries
    <3>4. {s \in C : R.queue_number[s] = m} = {s \in A : Q.queue_number[s] = m} \cup {p}
      BY <1>2, <1>3, <2>2
    <3> QED BY <3>3, <3>4, <2>1, <2>2
  <2>3. CASE m # l
    <3>1. R.multique[m] = Q.multique[m]
      BY <1>2, <1>3, <2>3
    <3>2. {s \in C : R.queue_number[s] = m} = {s \in A : Q.queue_number[s] = m}
      BY <1>2, <1>3, <2>3
    <3> QED BY <3>1, <3>2, <2>1
  <2> QED BY <2>2, <2>3
<1>6. /\ R.queue_number[p] = l /\ R.queueticks[p] = 0
      /\ \A s \in Slots \ {p} : /\ R.queue_number[s] = Q.queue_number[s]
                                /\ R.queueticks[s] = Q.queueticks[s]
  BY <1>2, <1>3
<1>7. QueuesHold(R, C)
  BY <1>5 DEF QueuesHold
<1> QED BY <1>4, <1>6, <1>7 DEF R

\* R is Q without the entry of p at its level.
EntryGone(Q, R, p) ==
    \E h \in 1..Len(Q.multique[Q.queue_number[p]]) :
        /\ Q.multique[Q.queue_number[p]][h] = p
        /\ R = [Q EXCEPT !.multique =
                   [@ EXCEPT ![Q.queue_number[p]] = without(Q.multique[Q.queue_number[p]], h)]]

\* dequeue() of a process from its own level finds its only entry.
LEMMA DequeueOne ==
    ASSUME NEW Q \in QueueStates, NEW A \in SUBSET Slots, QueuesHold(Q, A),
           NEW pd \in [Slots -> Nat], NEW p \in A,
           \A s \in A : pd[s] = pd[p] => s = p
    PROVE  EntryGone(Q, dequeue(Q, pd, p, Q.queue_number[p]), p)
<1> DEFINE l == Q.queue_number[p]
           R == dequeue(Q, pd, p, l)
           q == Q.multique[l]
           hits == {i \in 1..Len(q) : pd[q[i]] = pd[p]}
<1>1. /\ Q.multique \in [Levels -> Seq(Slots)]
      /\ Q.queue_number \in [Slots -> Levels]
      /\ Q.queueticks \in [Slots -> Nat]
      /\ Q = [multique |-> Q.multique, queue_number |-> Q.queue_number,
              queueticks |-> Q.queueticks]
  BY DEF QueueStates
<1>2. l \in Levels /\ q \in Seq(Slots)
  BY <1>1
<1>3. IsInjective(q) /\ Range(q) = {s \in A : Q.queue_number[s] = l}
  BY <1>2 DEF QueuesHold
<1>4. /\ Range(q) = {q[i] : i \in 1..Len(q)}
      /\ \A i, j \in 1..Len(q) : q[i] = q[j] => i = j
      /\ Len(q) \in Nat
  <2> HIDE DEF q
  <2>1. Range(q) = {q[i] : i \in 1..Len(q)} /\ Len(q) \in Nat
    BY <1>2, EntriesOfSeq, SeqEntries
  <2>2. \A i, j \in 1..Len(q) : q[i] = q[j] => i = j
    BY <1>2, <1>3, InjectiveSeq
  <2> QED BY <2>1, <2>2
<1>5. PICK h \in 1..Len(q) : q[h] = p
  BY <1>3, <1>4
<1>6. hits = {h}
  <2>1. ASSUME NEW i \in 1..Len(q), pd[q[i]] = pd[p] PROVE i = h
    <3>1. q[i] \in A
      BY <1>3, <1>4, Zenon
    <3>2. q[i] = p
      BY <3>1, <2>1, Zenon
    <3> QED BY <3>2, <1>4, <1>5, Zenon
  <2> QED BY <2>1, <1>5, Zenon
<1>7. First(hits) = h
  <2>1. h \in Int
    BY <1>4
  <2>2. First({h}) = h
    BY <2>1 DEF First
  <2> QED BY <2>2, <1>6, Zenon
<1>8. R = [Q EXCEPT !.multique = [@ EXCEPT ![l] = without(q, h)]]
  BY <1>6, <1>7, Zenon DEF dequeue
<1> QED BY <1>5, <1>8 DEF EntryGone

\* dequeue() of a process from its own level removes exactly it.
LEMMA DequeueHolds ==
    ASSUME NEW Q \in QueueStates, NEW A \in SUBSET Slots, QueuesHold(Q, A),
           NEW pd \in [Slots -> Nat], NEW p \in A,
           \A s \in A : pd[s] = pd[p] => s = p,
           NEW C \in SUBSET Slots, \A s \in Slots : s \in C <=> s \in A /\ s # p
    PROVE  LET R == dequeue(Q, pd, p, Q.queue_number[p])
           IN  /\ R \in QueueStates
               /\ QueuesHold(R, C)
               /\ R.queue_number = Q.queue_number
               /\ R.queueticks = Q.queueticks
<1> DEFINE l == Q.queue_number[p]
           R == dequeue(Q, pd, p, l)
           q == Q.multique[l]
<1>1. /\ Q.multique \in [Levels -> Seq(Slots)]
      /\ Q.queue_number \in [Slots -> Levels]
      /\ Q.queueticks \in [Slots -> Nat]
      /\ Q = [multique |-> Q.multique, queue_number |-> Q.queue_number,
              queueticks |-> Q.queueticks]
  BY DEF QueueStates
<1>2. l \in Levels /\ q \in Seq(Slots)
  BY <1>1
<1>3. IsInjective(q) /\ Range(q) = {s \in A : Q.queue_number[s] = l}
  BY <1>2 DEF QueuesHold
<1>5. PICK h \in 1..Len(q) :
        q[h] = p /\ R = [Q EXCEPT !.multique = [@ EXCEPT ![l] = without(q, h)]]
  BY DequeueOne DEF EntryGone
<1> HIDE DEF R, q, l
<1>9. /\ R.multique = [Q.multique EXCEPT ![l] = without(q, h)]
      /\ R.queue_number = Q.queue_number
      /\ R.queueticks = Q.queueticks
      /\ R = [multique |-> R.multique, queue_number |-> R.queue_number,
              queueticks |-> R.queueticks]
  BY <1>1, <1>5, Zenon
<1>10. /\ without(q, h) \in Seq(Slots)
       /\ IsInjective(without(q, h))
       /\ Range(without(q, h)) = Range(q) \ {p}
  <2>1. without(q, h) \in Seq(Slots)
    BY <1>2, <1>5, WithoutEntries, Zenon
  <2>2. /\ IsInjective(without(q, h))
        /\ Range(without(q, h)) = Range(q) \ {q[h]}
    BY <1>2, <1>3, <1>5, WithoutRange, Zenon
  <2> QED BY <2>1, <2>2, <1>5, Zenon
<1>11. R \in QueueStates
  <2>1. R.multique \in [Levels -> Seq(Slots)]
    <3> DEFINE rest == without(q, h)
               M == Q.multique
               QS == Seq(Slots)
    <3>1. M \in [Levels -> QS] /\ rest \in QS /\ R.multique = [M EXCEPT ![l] = rest]
      BY <1>1, <1>9, <1>10
    <3> HIDE DEF rest, M, QS
    <3>2. R.multique \in [Levels -> QS]
      BY <3>1, Zenon
    <3> QED BY <3>2 DEF QS
  <2>2. R.queue_number \in [Slots -> Levels] /\ R.queueticks \in [Slots -> Nat]
    BY <1>1, <1>9
  <2> QED BY <2>1, <2>2, <1>9, Zenon DEF QueueStates
<1>12. ASSUME NEW m \in Levels
       PROVE  /\ IsInjective(R.multique[m])
              /\ Range(R.multique[m]) = {s \in C : R.queue_number[s] = m}
  <2>1. IsInjective(Q.multique[m]) /\ Range(Q.multique[m]) = {s \in A : Q.queue_number[s] = m}
    BY DEF QueuesHold
  <2>2. CASE m = l
    <3>1. R.multique[m] = without(q, h)
      BY <1>1, <1>9, <2>2
    <3> QED BY <3>1, <2>2, <1>3, <1>9, <1>10
  <2>3. CASE m # l
    <3>1. R.multique[m] = Q.multique[m]
      BY <1>1, <1>9, <2>3
    <3>2. Q.queue_number[p] # m
      BY <2>3 DEF l
    <3> QED BY <3>1, <3>2, <2>1, <1>9
  <2> QED BY <2>2, <2>3
<1> QED BY <1>9, <1>11, <1>12 DEF R, l, QueuesHold

\* dequeue() of a process whose pid is on no queue changes nothing.
LEMMA DequeueAbsent ==
    ASSUME NEW Q \in QueueStates, NEW A \in SUBSET Slots, QueuesHold(Q, A),
           NEW pd, NEW p \in Slots, NEW l \in Levels,
           \A s \in A : pd[s] # pd[p]
    PROVE  dequeue(Q, pd, p, l) = Q
<1> DEFINE q == Q.multique[l]
<1>1. q \in Seq(Slots)
  BY DEF QueueStates
<1>2. \A i \in 1..Len(q) : q[i] \in A
  BY <1>1, EntriesOfSeq DEF QueuesHold
<1>3. {i \in 1..Len(q) : pd[q[i]] = pd[p]} = {}
  BY <1>2
<1> QED BY <1>3 DEF dequeue

\* Putting back a process that is queued changes nothing.
LEMMA RequeueSame ==
    ASSUME NEW Q \in QueueStates, NEW A \in SUBSET Slots, QueuesHold(Q, A),
           NEW pd \in [Slots -> Nat], NEW p \in A,
           \A s \in A : pd[s] = pd[p] => s = p
    PROVE  requeue(Q, pd, p) = Q
<1>1. Q.queue_number[p] \in Levels
  BY DEF QueueStates
<1>2. Queued(Q, pd, p, Q.queue_number[p])
  BY <1>1, QueuedMeansHeld
<1>3. requeue(Q, pd, p) = [Q EXCEPT !.queueticks = Q.queueticks]
  BY <1>2 DEF requeue, enqueue
<1> QED BY <1>3 DEF QueueStates

\* R, which holds A, is Q with the ticks of p set to n.
TicksSet(Q, R, A, p, n) ==
    /\ R \in QueueStates /\ QueuesHold(R, A)
    /\ R.multique = Q.multique /\ R.queue_number = Q.queue_number
    /\ R.queueticks[p] = n
    /\ \A s \in Slots \ {p} : R.queueticks[s] = Q.queueticks[s]

\* Setting the ticks of one process moves nobody.
LEMMA SetTicksHolds ==
    ASSUME NEW Q \in QueueStates, NEW A \in SUBSET Slots, QueuesHold(Q, A),
           NEW p \in Slots, NEW n \in Nat
    PROVE  TicksSet(Q, setticks(Q, p, n), A, p, n)
<1> DEFINE R == setticks(Q, p, n)
<1>1. /\ Q.multique \in [Levels -> Seq(Slots)]
      /\ Q.queue_number \in [Slots -> Levels]
      /\ Q.queueticks \in [Slots -> Nat]
  BY DEF QueueStates
<1>2. [Q.queueticks EXCEPT ![p] = n] \in [Slots -> Nat]
  BY <1>1
<1>3. R = [multique |-> Q.multique, queue_number |-> Q.queue_number,
           queueticks |-> [Q.queueticks EXCEPT ![p] = n]]
  BY DEF setticks
<1> HIDE DEF R
<1>4. R \in QueueStates
  BY <1>1, <1>2, <1>3, Zenon DEF QueueStates
<1>5. /\ R.multique = Q.multique /\ R.queue_number = Q.queue_number
      /\ R.queueticks[p] = n
      /\ \A s \in Slots \ {p} : R.queueticks[s] = Q.queueticks[s]
  BY <1>1, <1>3
<1>6. QueuesHold(R, A)
  BY <1>5 DEF QueuesHold
<1>7. TicksSet(Q, R, A, p, n)
  BY <1>4, <1>5, <1>6 DEF TicksSet
<1> QED BY <1>7 DEF R

\* wakeup() adds exactly the sleepers it wakes, each to its own level, and
\* leaves queue_number and queueticks alone.
LEMMA WakeHolds ==
    ASSUME NEW Q \in QueueStates, NEW A \in SUBSET Slots, QueuesHold(Q, A),
           NEW pd \in [Slots -> Nat], NEW W \in SUBSET Slots, W \cap A = {},
           \A s \in A, t \in W : pd[s] # pd[t],
           NEW C \in SUBSET Slots, \A s \in Slots : s \in C <=> s \in A \/ s \in W
    PROVE  LET R == wake(Q, pd, W)
           IN  /\ R \in QueueStates
               /\ QueuesHold(R, C)
               /\ R.queue_number = Q.queue_number
               /\ R.queueticks = Q.queueticks
<1> DEFINE R == wake(Q, pd, W)
           new(l) == WokenAt(Q, pd, W, l)
<1>1. /\ Q.multique \in [Levels -> Seq(Slots)]
      /\ Q.queue_number \in [Slots -> Levels]
      /\ Q.queueticks \in [Slots -> Nat]
      /\ Q = [multique |-> Q.multique, queue_number |-> Q.queue_number,
              queueticks |-> Q.queueticks]
  BY DEF QueueStates
<1>2. ASSUME NEW l \in Levels
      PROVE  new(l) = {s \in W : Q.queue_number[s] = l}
  <2>1. ASSUME NEW s \in W PROVE ~Queued(Q, pd, s, l)
    BY QueuedMeansHeld
  <2> QED BY <2>1 DEF WokenAt
<1>3. R = [Q EXCEPT !.multique = [l \in Levels |-> Q.multique[l] \o TableOrder(new(l))]]
  BY DEF wake
<1> HIDE DEF R, new
<1>4. /\ R.multique = [l \in Levels |-> Q.multique[l] \o TableOrder(new(l))]
      /\ R.queue_number = Q.queue_number
      /\ R.queueticks = Q.queueticks
      /\ R = [multique |-> R.multique, queue_number |-> R.queue_number,
              queueticks |-> R.queueticks]
  BY <1>1, <1>3
<1>5. ASSUME NEW l \in Levels
      PROVE  /\ R.multique[l] \in Seq(Slots)
             /\ IsInjective(R.multique[l])
             /\ Range(R.multique[l]) = {s \in C : R.queue_number[s] = l}
  <2> DEFINE q == Q.multique[l]
             t == TableOrder(new(l))
  <2>1. q \in Seq(Slots) /\ IsInjective(q) /\ Range(q) = {s \in A : Q.queue_number[s] = l}
    BY <1>1 DEF QueuesHold
  <2>2. new(l) \in SUBSET Slots
    BY <1>2
  <2>3. t \in Seq(Slots) /\ IsInjective(t) /\ Range(t) = new(l)
    BY <2>2, TableOrderLists
  <2>4. R.multique[l] = q \o t
    BY <1>4
  <2> HIDE DEF q, t
  <2>5. Range(q) \cap Range(t) = {}
    BY <2>1, <2>3, <1>2
  <2>6. q \o t \in Seq(Slots) /\ IsInjective(q \o t) /\ Range(q \o t) = Range(q) \cup Range(t)
    BY <2>1, <2>3, <2>5, ConcatEntries
  <2>7. Range(q) \cup Range(t) = {s \in C : R.queue_number[s] = l}
    BY <2>1, <2>3, <1>2, <1>4
  <2> QED BY <2>4, <2>6, <2>7
<1>6. R \in QueueStates
  <2>1. R.multique \in [Levels -> Seq(Slots)]
    BY <1>4, <1>5
  <2> QED BY <2>1, <1>1, <1>4, Zenon DEF QueueStates
<1> QED BY <1>4, <1>5, <1>6 DEF R, QueuesHold

\* The boost loses and duplicates nobody; whoever it moves starts level 0
\* with no ticks, and it leaves the others alone.
LEMMA BoostHolds ==
    ASSUME NEW Q \in QueueStates, NEW A \in SUBSET Slots, QueuesHold(Q, A)
    PROVE  LET R == boost(Q)
           IN  /\ R \in QueueStates
               /\ QueuesHold(R, A)
               /\ \A s \in Slots :
                    \/ R.queue_number[s] = 0 /\ R.queueticks[s] = 0
                    \/ /\ R.queue_number[s] = Q.queue_number[s]
                       /\ R.queueticks[s] = Q.queueticks[s]
<1> DEFINE R == boost(Q)
           q(l) == Q.multique[l]
           t(l) == Taken(q(l))
           u(l) == Passed(q(l))
           B == Boosted(Q)
<1>1. /\ Q.multique \in [Levels -> Seq(Slots)]
      /\ Q.queue_number \in [Slots -> Levels]
      /\ Q.queueticks \in [Slots -> Nat]
  BY DEF QueueStates
<1>2. 0 \in Levels /\ 1 \in Levels /\ 2 \in Levels /\ 3 \in Levels /\ 1..3 = {1, 2, 3}
      /\ Levels = {0, 1, 2, 3}
  BY DEF Levels
<1>3. \A l \in Levels : /\ q(l) \in Seq(Slots) /\ IsInjective(q(l))
                         /\ Range(q(l)) = {s \in A : Q.queue_number[s] = l}
  BY <1>1 DEF QueuesHold
<1>4. ASSUME NEW l \in Levels
      PROVE  /\ t(l) \in Seq(Slots) /\ IsInjective(t(l))
             /\ u(l) \in Seq(Slots) /\ IsInjective(u(l))
             /\ Range(t(l)) \cup Range(u(l)) = Range(q(l))
             /\ Range(t(l)) \cap Range(u(l)) = {}
  BY <1>3, TakenPassed
<1>5. R = [multique |-> [l \in Levels |-> IF l = 0
                                         THEN q(0) \o (t(1) \o (t(2) \o t(3))) ELSE u(l)],
           queue_number |-> [s \in Slots |-> IF s \in B THEN 0 ELSE Q.queue_number[s]],
           queueticks |-> [s \in Slots |-> IF s \in B THEN 0 ELSE Q.queueticks[s]]]
  BY DEF boost
<1>6. B = Range(t(1)) \cup Range(t(2)) \cup Range(t(3))
  <2>1. B = {s \in Slots : \E l \in 1..3 : \E k \in 1..Len(t(l)) : t(l)[k] = s}
    BY DEF Boosted
  <2> HIDE DEF B, t
  <2>2. \A l \in {1, 2, 3} : Range(t(l)) = {t(l)[k] : k \in 1..Len(t(l))} /\ Range(t(l)) \subseteq Slots
    BY <1>2, <1>4, EntriesOfSeq, Zenon
  <2> QED BY <2>1, <2>2, <1>2
<1> HIDE DEF R, q, t, u, B
<1>7. /\ R.multique = [l \in Levels |-> IF l = 0
                                       THEN q(0) \o (t(1) \o (t(2) \o t(3))) ELSE u(l)]
      /\ R.queue_number = [s \in Slots |-> IF s \in B THEN 0 ELSE Q.queue_number[s]]
      /\ R.queueticks = [s \in Slots |-> IF s \in B THEN 0 ELSE Q.queueticks[s]]
      /\ R = [multique |-> R.multique, queue_number |-> R.queue_number,
              queueticks |-> R.queueticks]
  BY <1>5, Zenon
<1>8. \A l \in Levels : \A s \in Range(q(l)) : s \in A /\ Q.queue_number[s] = l
  BY <1>3
<1>9. \A l \in Levels : Range(t(l)) \subseteq Range(q(l))
  BY <1>4
<1>10. \A k, l \in Levels : k # l => Range(q(k)) \cap Range(q(l)) = {}
  BY <1>8
<1>11. /\ q(0) \o (t(1) \o (t(2) \o t(3))) \in Seq(Slots)
       /\ IsInjective(q(0) \o (t(1) \o (t(2) \o t(3))))
       /\ Range(q(0) \o (t(1) \o (t(2) \o t(3)))) = Range(q(0)) \cup B
  <2>1. /\ Range(t(2)) \cap Range(t(3)) = {}
        /\ Range(t(1)) \cap (Range(t(2)) \cup Range(t(3))) = {}
        /\ Range(q(0)) \cap (Range(t(1)) \cup (Range(t(2)) \cup Range(t(3)))) = {}
    BY <1>2, <1>9, <1>10
  <2> DEFINE a == t(2) \o t(3)
             b == t(1) \o a
  <2>2. a \in Seq(Slots) /\ IsInjective(a) /\ Range(a) = Range(t(2)) \cup Range(t(3))
    BY <2>1, <1>2, <1>4, ConcatEntries
  <2> HIDE DEF a
  <2>3. b \in Seq(Slots) /\ IsInjective(b) /\ Range(b) = Range(t(1)) \cup Range(a)
    BY <2>1, <2>2, <1>2, <1>4, ConcatEntries
  <2> HIDE DEF b
  <2>4. q(0) \o b \in Seq(Slots) /\ IsInjective(q(0) \o b) /\ Range(q(0) \o b) = Range(q(0)) \cup Range(b)
    BY <2>1, <2>2, <2>3, <1>2, <1>3, ConcatEntries
  <2>5. Range(q(0)) \cup Range(b) = Range(q(0)) \cup B
    BY <2>2, <2>3, <1>6
  <2> QED BY <2>4, <2>5 DEF a, b
<1>12. ASSUME NEW l \in Levels
       PROVE  /\ R.multique[l] \in Seq(Slots)
              /\ IsInjective(R.multique[l])
              /\ Range(R.multique[l]) = {s \in A : R.queue_number[s] = l}
  <2>1. CASE l = 0
    <3>1. R.multique[l] = q(0) \o (t(1) \o (t(2) \o t(3)))
      BY <2>1, <1>2, <1>7, Zenon
    <3>2. B \subseteq A
      BY <1>2, <1>6, <1>8, <1>9
    <3>3. {s \in A : R.queue_number[s] = l} = Range(q(0)) \cup B
      BY <3>2, <2>1, <1>2, <1>3, <1>7
    <3> QED BY <3>1, <3>3, <1>11
  <2>2. CASE l # 0
    <3>1. R.multique[l] = u(l)
      BY <2>2, <1>7
    <3>2. {s \in A : R.queue_number[s] = l} = Range(q(l)) \ B
      BY <2>2, <1>3, <1>7
    <3>3. Range(q(l)) \cap B = Range(t(l))
      BY <2>2, <1>2, <1>6, <1>9, <1>10
    <3>4. Range(u(l)) = Range(q(l)) \ B
      BY <3>3, <1>4
    <3> QED BY <3>1, <3>2, <3>4, <1>4
  <2> QED BY <2>1, <2>2
<1>13. R \in QueueStates
  <2>1. R.multique \in [Levels -> Seq(Slots)]
    BY <1>7, <1>12
  <2>2. R.queue_number \in [Slots -> Levels] /\ R.queueticks \in [Slots -> Nat]
    BY <1>1, <1>2, <1>7
  <2> QED BY <2>1, <2>2, <1>7, Zenon DEF QueueStates
<1>14. \A s \in Slots : \/ R.queue_number[s] = 0 /\ R.queueticks[s] = 0
                        \/ /\ R.queue_number[s] = Q.queue_number[s]
                           /\ R.queueticks[s] = Q.queueticks[s]
  BY <1>7
<1> QED BY <1>12, <1>13, <1>14 DEF R, QueuesHold

\* Demotion keeps the process queued, once, one level down and with no ticks.
LEMMA DemoteHolds ==
    ASSUME NEW Q \in QueueStates, NEW A \in SUBSET Slots, QueuesHold(Q, A),
           NEW pd \in [Slots -> Nat], NEW p \in A,
           \A s \in A : pd[s] = pd[p] => s = p
    PROVE  LET R == demote(Q, pd, p)
           IN  /\ R \in QueueStates
               /\ QueuesHold(R, A)
               /\ R.queueticks[p] = 0
               /\ \A s \in Slots \ {p} :
                    /\ R.queue_number[s] = Q.queue_number[s]
                    /\ R.queueticks[s] = Q.queueticks[s]
<1> DEFINE D == dequeue(Q, pd, p, Q.queue_number[p])
           l == npriority(Q.queue_number[p])
           R == enqueue(D, pd, p, l)
           B == A \ {p}
<1>0. R = demote(Q, pd, p)
  BY DEF demote
<1>1. /\ D \in QueueStates /\ QueuesHold(D, B)
      /\ D.queue_number = Q.queue_number /\ D.queueticks = Q.queueticks
  BY DequeueHolds
<1>2. l \in Levels
  BY DEF npriority, Levels, QueueStates
<1>3. p \in Slots /\ p \notin B /\ B \in SUBSET Slots /\ \A s \in B : pd[s] # pd[p]
  OBVIOUS
<1>4. \A s \in Slots : s \in A <=> s \in B \/ s = p
  OBVIOUS
<1> HIDE DEF D, l, B
<1>5. /\ R \in QueueStates /\ QueuesHold(R, A)
      /\ R.queueticks[p] = 0
      /\ \A s \in Slots \ {p} :
           /\ R.queue_number[s] = D.queue_number[s]
           /\ R.queueticks[s] = D.queueticks[s]
  BY <1>1, <1>2, <1>3, <1>4, EnqueueHolds, SMTT(20)
<1> HIDE DEF R
<1> QED BY <1>1, <1>4, <1>5, <1>0


\* The levels of R are those of Q, but for p.
LevelsKept(Q, R, p) == \A s \in Slots : s # p => R.queue_number[s] = Q.queue_number[s]

LEMMA DemoteKeeps ==
    ASSUME NEW Q \in QueueStates, NEW A \in SUBSET Slots, QueuesHold(Q, A),
           NEW pd \in [Slots -> Nat], NEW p \in A,
           \A s \in A : pd[s] = pd[p] => s = p
    PROVE  LevelsKept(Q, demote(Q, pd, p), p)
BY DemoteHolds DEF LevelsKept

-----------------------------------------------------------------------------
(* Positions: nobody on a lower level falls back. *)

\* s is among the first n entries of level l.
Within(Q, l, s, n) == \E k \in 1..n : k <= Len(Q.multique[l]) /\ Q.multique[l][k] = s

\* wakeup() appends: nobody's position changes.
LEMMA WakePlaces ==
    ASSUME NEW Q \in QueueStates, NEW pd, NEW W \in SUBSET Slots, NEW l \in Levels,
           NEW s, NEW n \in Nat, Within(Q, l, s, n)
    PROVE  Within(wake(Q, pd, W), l, s, n)
<1> DEFINE R == wake(Q, pd, W)
           q == Q.multique[l]
           t == TableOrder(WokenAt(Q, pd, W, l))
<1>1. q \in Seq(Slots)
  BY DEF QueueStates
<1>2. WokenAt(Q, pd, W, l) \in SUBSET Slots
  BY DEF WokenAt
<1>3. t \in Seq(Slots)
  BY <1>2, TableOrderLists
<1>4. R.multique[l] = q \o t
  BY DEF wake, QueueStates
<1>5. PICK k \in 1..n : k <= Len(q) /\ q[k] = s
  BY DEF Within
<1> HIDE DEF q, t, R
<1>6. k <= Len(q \o t) /\ (q \o t)[k] = s
  BY <1>1, <1>3, <1>5
<1>7. Within(R, l, s, n)
  BY <1>4, <1>5, <1>6 DEF Within
<1> QED BY <1>7 DEF R

\* The boost takes a process to level 0 or halves its position.
LEMMA BoostPlaces ==
    ASSUME NEW Q \in QueueStates, NEW l \in 1..3, NEW s, NEW n \in Nat, Within(Q, l, s, n)
    PROVE  boost(Q).queue_number[s] = 0 \/ Within(boost(Q), l, s, n \div 2)
<1> DEFINE R == boost(Q)
           q == Q.multique[l]
           m == (Len(q) + 1) \div 2
           w == Len(q) \div 2
<1>1. q \in Seq(Slots) /\ l \in Levels /\ l # 0
  BY DEF QueueStates, Levels
<1>2. R.multique[l] = Passed(q)
  BY <1>1 DEF boost
<1>3. R.queue_number = [z \in Slots |-> IF z \in Boosted(Q) THEN 0 ELSE Q.queue_number[z]]
  BY DEF boost
<1>4. PICK k \in 1..n : k <= Len(q) /\ q[k] = s
  BY DEF Within
<1> HIDE DEF q, R
<1>5. s \in Slots /\ Len(q) \in Nat /\ k \in 1..Len(q) /\ k \in Nat
  BY <1>1, <1>4, SeqEntries
<1>6. /\ Taken(q) = [j \in 1..m |-> q[2 * j - 1]] /\ Passed(q) = [j \in 1..w |-> q[2 * j]]
      /\ m \in Nat /\ w \in Nat
  BY <1>5 DEF Taken, Passed
<1>7. Len(Taken(q)) = m /\ Len(Passed(q)) = w
  <2> HIDE DEF m, w
  <2> QED BY <1>6
<1>8. PICK j \in Nat : k = 2 * j - 1 \/ k = 2 * j
  <2>1. ((k + 1) \div 2) \in Nat /\ 2 * ((k + 1) \div 2) \in k..(k + 1)
    BY <1>5
  <2> QED BY <2>1, <1>5
<1>9. CASE k = 2 * j - 1
  <2>1. j \in 1..m
    BY <1>5, <1>9
  <2>2. Taken(q)[j] = s
    BY <1>4, <1>6, <1>9, <2>1
  <2>3. s \in Boosted(Q)
    BY <1>5, <1>7, <2>1, <2>2 DEF Boosted, q
  <2> QED BY <1>3, <1>5, <2>3 DEF R
<1>10. CASE k = 2 * j
  <2>1. j \in 1..w /\ j \in 1..(n \div 2)
    BY <1>4, <1>5, <1>10
  <2>2. Passed(q)[j] = s /\ j <= w
    BY <1>4, <1>6, <1>10, <2>1
  <2>3. Within(R, l, s, n \div 2)
    BY <1>2, <1>7, <2>1, <2>2 DEF Within
  <2> QED BY <2>3 DEF R
<1> QED BY <1>8, <1>9, <1>10

\* The demotion of p lets the others at most move up.
LEMMA DemotePlaces ==
    ASSUME NEW Q \in QueueStates, NEW A \in SUBSET Slots, QueuesHold(Q, A),
           NEW pd \in [Slots -> Nat], NEW p \in A, \A s \in A : pd[s] = pd[p] => s = p,
           NEW l \in Levels, NEW s, s # p, NEW n \in Nat, Within(Q, l, s, n)
    PROVE  Within(demote(Q, pd, p), l, s, n)
<1> DEFINE d == Q.queue_number[p]
           D == dequeue(Q, pd, p, d)
           e == npriority(d)
           R == enqueue(D, pd, p, e)
           q == Q.multique[l]
<1>1. Q.multique \in [Levels -> Seq(Slots)] /\ q \in Seq(Slots) /\ d \in Levels /\ e \in Levels
  BY DEF QueueStates, npriority, Levels
<1>2. PICK h \in 1..Len(Q.multique[d]) :
        /\ Q.multique[d][h] = p
        /\ D = [Q EXCEPT !.multique = [@ EXCEPT ![d] = without(Q.multique[d], h)]]
  <2>1. EntryGone(Q, D, p)
    BY DequeueOne
  <2> HIDE DEF D
  <2> QED BY <2>1 DEF EntryGone
<1>3. D.multique = [Q.multique EXCEPT ![d] = without(Q.multique[d], h)]
  <2>1. Q = [multique |-> Q.multique, queue_number |-> Q.queue_number, queueticks |-> Q.queueticks]
    BY DEF QueueStates
  <2> HIDE DEF D
  <2> QED BY <1>2, <2>1, Zenon
<1>4. PICK k \in 1..n : k <= Len(q) /\ q[k] = s
  BY DEF Within
<1>5. PICK j \in 1..n : D.multique[l] \in Seq(Slots) /\ j <= Len(D.multique[l]) /\ D.multique[l][j] = s
  <2>1. CASE l # d
    <3>1. D.multique[l] = q
      BY <1>1, <1>3, <2>1
    <3> QED BY <1>1, <1>4, <3>1
  <2>2. CASE l = d
    <3>1. D.multique[l] = without(q, h) /\ h \in 1..Len(q) /\ q[h] = p
      BY <1>1, <1>2, <1>3, <2>2
    <3> HIDE DEF q, D
    <3>2. /\ without(q, h) \in Seq(Slots) /\ Len(without(q, h)) = Len(q) - 1 /\ Len(q) \in Nat
          /\ \A i \in 1..(Len(q) - 1) : without(q, h)[i] = IF i < h THEN q[i] ELSE q[i + 1]
      BY <1>1, <3>1, WithoutEntries, SeqEntries
    <3>3. k # h
      BY <1>4, <3>1
    <3>4. CASE k < h
      <4>1. k \in 1..(Len(q) - 1)
        BY <1>4, <3>1, <3>2, <3>4
      <4>2. without(q, h)[k] = s /\ k <= Len(q) - 1
        BY <1>4, <3>2, <3>4, <4>1
      <4> QED BY <3>1, <3>2, <4>2
    <3>5. CASE k > h
      <4>1. k - 1 \in 1..(Len(q) - 1) /\ ~(k - 1 < h) /\ (k - 1) + 1 = k /\ k - 1 \in 1..n
        BY <1>4, <3>1, <3>2, <3>5
      <4>2. PICK m : m = k - 1
        OBVIOUS
      <4>3. m \in 1..(Len(q) - 1) /\ ~(m < h) /\ m + 1 = k /\ m \in 1..n
        BY <4>1, <4>2, Zenon
      <4>4. without(q, h)[m] = s
        BY <1>4, <3>2, <4>3, Zenon
      <4>5. m <= Len(q) - 1
        BY <3>2, <4>3
      <4> QED BY <3>1, <3>2, <4>3, <4>4, <4>5, Zenon
    <3> QED BY <1>4, <3>1, <3>3, <3>4, <3>5
  <2> QED BY <2>1, <2>2
<1> HIDE DEF D
<1>6. R.multique = D.multique \/ R.multique = [D.multique EXCEPT ![e] = Append(@, p)]
  <2>1. CASE Queued(D, pd, p, e)
    BY <2>1 DEF enqueue
  <2>2. CASE ~Queued(D, pd, p, e)
    <3>1. R = [multique     |-> [D.multique EXCEPT ![e] = Append(@, p)],
               queue_number |-> [D.queue_number EXCEPT ![p] = e],
               queueticks   |-> [D.queueticks EXCEPT ![p] = 0]]
      BY <2>2 DEF enqueue
    <3> HIDE DEF R
    <3> QED BY <3>1
  <2> QED BY <2>1, <2>2
<1>7. D.multique \in [Levels -> Seq(Slots)]
  <2> DEFINE f == without(Q.multique[d], h)
             M == Q.multique
             QS == Seq(Slots)
  <2>1. M \in [Levels -> QS] /\ f \in QS /\ D.multique = [M EXCEPT ![d] = f]
    BY <1>1, <1>2, <1>3, WithoutEntries
  <2> HIDE DEF f, M, QS
  <2>2. D.multique \in [Levels -> QS]
    BY <2>1, Zenon
  <2> QED BY <2>2 DEF QS
<1> HIDE DEF R, e
<1>8. R.multique[l] = D.multique[l] \/ R.multique[l] = Append(D.multique[l], p)
  <2>1. CASE e = l
    BY <1>6, <1>7, <2>1
  <2>2. CASE e # l
    BY <1>6, <1>7, <2>2
  <2> QED BY <2>1, <2>2
<1>9. j <= Len(R.multique[l]) /\ R.multique[l][j] = s
  <2>1. PICK x : x = D.multique[l]
    OBVIOUS
  <2>2. x \in Seq(Slots) /\ j <= Len(x) /\ x[j] = s /\ p \in Slots
    BY <1>5, <2>1
  <2>3. j <= Len(Append(x, p)) /\ Append(x, p)[j] = s
    BY <2>2
  <2> QED BY <1>8, <2>1, <2>2, <2>3
<1>10. Within(R, l, s, n)
  BY <1>9 DEF Within
<1> QED BY <1>10 DEF R, D, e, demote
=============================================================================
