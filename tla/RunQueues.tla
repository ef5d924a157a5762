----------------------------- MODULE RunQueues -----------------------------
(***************************************************************************)
(* The multi-level feedback queues of kernel/proc.c (enqueue, dequeue) and  *)
(* of the timer branch of usertrap() in kernel/trap.c (priority boost,      *)
(* demotion), as operators on one value Q with three fields:                *)
(*   multique     for each level, the slots queued there, front first       *)
(*                (sizeofq[l] is Len(Q.multique[l]))                        *)
(*   queue_number for each slot, struct proc's queue_number                 *)
(*   queueticks   for each slot, struct proc's queueticks                   *)
(* A struct proc pointer is its index in proc[], a member of Slots.  pd is  *)
(* the pid of every slot: the code compares queue entries by pid.           *)
(***************************************************************************)
EXTENDS Integers, Sequences, FiniteSets, Functions

CONSTANTS
    NPROC,          \* number of slots of proc[] (param.h)
    timesliceq      \* timer ticks a process may use at each level

Slots == 1..NPROC

\* multique[4][NPROC]: level 0 is the most urgent.
Levels == 0..3

ASSUME NPROCAssumption == NPROC \in Nat \ {0}
ASSUME TimesliceAssumption == timesliceq \in [Levels -> Nat \ {0}]

-----------------------------------------------------------------------------
\* The duplicate test of enqueue(): some entry of level l has p's pid.
Queued(Q, pd, p, l) ==
    \E i \in 1..Len(Q.multique[l]) : pd[Q.multique[l][i]] = pd[p]

\* enqueue(p, l): a process already queued at l keeps its place and its ticks.
enqueue(Q, pd, p, l) ==
    IF Queued(Q, pd, p, l)
    THEN Q
    ELSE [multique     |-> [Q.multique EXCEPT ![l] = Append(@, p)],
          queue_number |-> [Q.queue_number EXCEPT ![p] = l],
          queueticks   |-> [Q.queueticks EXCEPT ![p] = 0]]

\* The first position of H, and q with the entries after position h moved down.
First(H) == CHOOSE i \in H : \A j \in H : i <= j
without(q, h) == [k \in 1..(Len(q) - 1) |-> IF k < h THEN q[k] ELSE q[k + 1]]

\* dequeue(p, l): the first entry with p's pid leaves, the later ones shift.
dequeue(Q, pd, p, l) ==
    LET q    == Q.multique[l]
        hits == {i \in 1..Len(q) : pd[q[i]] = pd[p]}
    IN  IF hits = {}
        THEN Q
        ELSE [Q EXCEPT !.multique = [@ EXCEPT ![l] = without(q, First(hits))]]

\* p->queueticks = n.
setticks(Q, p, n) ==
    [multique     |-> Q.multique,
     queue_number |-> Q.queue_number,
     queueticks   |-> [Q.queueticks EXCEPT ![p] = n]]

\* scheduler() and wakeup() put a process back on its own level and restore
\* the queueticks that enqueue() cleared.
requeue(Q, pd, p) ==
    [enqueue(Q, pd, p, Q.queue_number[p]) EXCEPT !.queueticks = Q.queueticks]

-----------------------------------------------------------------------------
\* The members of S in the order of the process table: the k-th one is the
\* member with k members at or before it.
TableOrder(S) ==
    [k \in 1..Cardinality(S) |->
        CHOOSE s \in S : Cardinality({x \in S : x <= s}) = k]

\* The sleepers of W that the loop of wakeup() appends to level l.
WokenAt(Q, pd, W, l) ==
    {s \in W : Q.queue_number[s] = l /\ ~Queued(Q, pd, s, l)}

\* wakeup()'s loop over proc[] for the set W of sleepers on its channel:
\* requeue() of each, in table order.
wake(Q, pd, W) ==
    [Q EXCEPT !.multique =
        [l \in Levels |-> Q.multique[l] \o TableOrder(WokenAt(Q, pd, W, l))]]

-----------------------------------------------------------------------------
\* Mutant of Taken: the loop takes every entry.
TakenAll(q) == q

\* The boost loop runs j over a level while dequeue() shifts the level under
\* it: it takes the 1st, 3rd, 5th... entry and steps over the others.
Taken(q)  == [k \in 1..((Len(q) + 1) \div 2) |-> q[2 * k - 1]]
Passed(q) == [k \in 1..(Len(q) \div 2) |-> q[2 * k]]

Boosted(Q) ==
    {s \in Slots : \E l \in 1..3 : \E k \in 1..Len(Taken(Q.multique[l])) :
                        Taken(Q.multique[l])[k] = s}

\* Mutant of boost: the loop over the levels begins with level 2.
boostFromTwo(Q) ==
    [multique |->
        [l \in Levels |-> CASE l = 0 -> Q.multique[0] \o (Taken(Q.multique[2]) \o Taken(Q.multique[3]))
                            [] l = 1 -> Q.multique[1]
                            [] OTHER -> Passed(Q.multique[l])],
     queue_number |->
        [s \in Slots |-> IF s \in Boosted(Q) /\ Q.queue_number[s] > 1 THEN 0 ELSE Q.queue_number[s]],
     queueticks |->
        [s \in Slots |-> IF s \in Boosted(Q) /\ Q.queue_number[s] > 1 THEN 0 ELSE Q.queueticks[s]]]

\* The priority boost of usertrap(): levels 1, 2 and 3 in turn.
boost(Q) ==
    [multique |->
        [l \in Levels |->
            IF l = 0
            THEN Q.multique[0] \o (Taken(Q.multique[1])
                   \o (Taken(Q.multique[2]) \o Taken(Q.multique[3])))
            ELSE Passed(Q.multique[l])],
     queue_number |->
        [s \in Slots |-> IF s \in Boosted(Q) THEN 0 ELSE Q.queue_number[s]],
     queueticks |->
        [s \in Slots |-> IF s \in Boosted(Q) THEN 0 ELSE Q.queueticks[s]]]

\* One level down, the last level stays: int npriority = ..., if > 3 then --.
npriority(l) == IF l + 1 > 3 THEN l ELSE l + 1

\* A process that used its slice leaves its level for the tail of the next.
demote(Q, pd, p) ==
    enqueue(dequeue(Q, pd, p, Q.queue_number[p]), pd, p,
            npriority(Q.queue_number[p]))

-----------------------------------------------------------------------------
QueueStates ==
    [multique     : [Levels -> Seq(Slots)],
     queue_number : [Slots -> Levels],
     queueticks   : [Slots -> Nat]]

\* Q holds exactly the slots of A, each once, at the level it is marked with.
QueuesHold(Q, A) ==
    \A l \in Levels :
        /\ IsInjective(Q.multique[l])
        /\ Range(Q.multique[l]) = {s \in A : Q.queue_number[s] = l}

=============================================================================
