----------------------------- MODULE QueueLoops -----------------------------
(***************************************************************************)
(* The loops of enqueue(), dequeue(), wakeup() and the priority boost as    *)
(* kernel/proc.c and kernel/trap.c write them, to compare with the closed   *)
(* forms of RunQueues.                                                      *)
(***************************************************************************)
EXTENDS RunQueues

\* for (i = i0; i < sizeofq; i++) if (multique[i]->pid == p->pid): the index
\* of the first match from position i on, 0 for none.
RECURSIVE find(_, _, _, _)
find(q, pd, p, i) ==
    IF i > Len(q) THEN 0
    ELSE IF pd[q[i]] = pd[p] THEN i
    ELSE find(q, pd, p, i + 1)

\* for (j = i; j < sizeofq - 1; j++) multique[j] = multique[j + 1].
RECURSIVE shift(_, _)
shift(q, j) == IF j >= Len(q) THEN q ELSE shift([q EXCEPT ![j] = q[j + 1]], j + 1)

dequeueLoop(Q, pd, p, l) ==
    LET q == Q.multique[l]
        i == find(q, pd, p, 1)
    IN  IF i = 0 THEN Q
        ELSE [Q EXCEPT !.multique[l] = SubSeq(shift(q, i), 1, Len(q) - 1)]

enqueueLoop(Q, pd, p, l) ==
    IF find(Q.multique[l], pd, p, 1) # 0 THEN Q
    ELSE [Q EXCEPT !.multique[l] = Append(@, p), !.queue_number[p] = l, !.queueticks[p] = 0]

\* wakeup(): for (p = proc; p < &proc[NPROC]; p++), from slot s on; W are the
\* slots that sleep on the channel.
RECURSIVE wakeLoop(_, _, _, _)
wakeLoop(Q, pd, W, s) ==
    IF s > NPROC THEN Q
    ELSE IF s \notin W THEN wakeLoop(Q, pd, W, s + 1)
    ELSE LET old == Q.queueticks[s]
             R   == enqueueLoop(Q, pd, s, Q.queue_number[s])
         IN  wakeLoop([R EXCEPT !.queueticks[s] = old], pd, W, s + 1)

\* The boost: for (level = 1; level < 4; level++) for (j = 0; j < sizeofq[level];
\* j++), with j counted from 1 and the size read again on every iteration.
RECURSIVE boostLoop(_, _, _, _)
boostLoop(Q, pd, level, j) ==
    IF level > 3 THEN Q
    ELSE IF j > Len(Q.multique[level]) THEN boostLoop(Q, pd, level + 1, 1)
    ELSE LET temp == Q.multique[level][j]
             R    == dequeueLoop(Q, pd, temp, Q.queue_number[temp])
         IN  boostLoop(enqueueLoop(R, pd, temp, 0), pd, level, j + 1)

=============================================================================
