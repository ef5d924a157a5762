---------------------------- MODULE MCMlfqKernel ----------------------------
(***************************************************************************)
(* Small instances of MlfqKernel.                                           *)
(***************************************************************************)
EXTENDS MlfqKernel, QueueLoops

\* The slices 1, 4, 8, 16, cut down.
MCSlices == [l \in Levels |-> IF l = 0 THEN 1 ELSE 2]

\* init forks and waits (user/init.c); its child makes the calls that concern
\* other processes, and the third program those that concern itself alone.
Programs ==
    [s \in Slots |-> CASE s = initproc -> {"fork", "wait"}
                       [] s = 2 -> {"fork", "wait", "kill", "sleep", "exit"}
                       [] OTHER -> {"sleep", "io", "fault", "exit"}]

\* Processes that fork and then only compute.
Computing == [s \in Slots |-> {"fork"}]

\* In every state of the queues that the kernel brings about, the closed forms
\* of RunQueues are what the loops do: the boost, which indexes a level while
\* dequeue() shifts it, the wakeup of one or two processes that have left their
\* queues, enqueue() and dequeue().
LoopsAgree ==
    /\ boost(rq) = boostLoop(rq, pid, 1, 1)
    /\ \A s, t \in Active :
        LET Q == dequeueLoop(dequeueLoop(rq, pid, s, rq.queue_number[s]),
                             pid, t, rq.queue_number[t])
        IN  wake(Q, pid, {s, t}) = wakeLoop(Q, pid, {s, t}, 1)
    /\ \A s \in Active, l \in Levels :
        /\ dequeue(rq, pid, s, l) = dequeueLoop(rq, pid, s, l)
        /\ enqueue(rq, pid, s, l) = enqueueLoop(rq, pid, s, l)

=============================================================================
