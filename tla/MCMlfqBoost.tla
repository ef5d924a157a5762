----------------------------- MODULE MCMlfqBoost -----------------------------
(***************************************************************************)
(* MlfqKernel with a history variable that counts the boosts a process has  *)
(* been passed over by, one after the other, while it waited on its level.  *)
(***************************************************************************)
EXTENDS MCMlfqKernel

VARIABLE missed

\* The step is a timer interrupt that boosts.
Boosts == /\ cproc # 0 /\ thread[cproc].pc = "user" /\ ~killed[cproc]
          /\ ticks' # ticks /\ ticks' % BoostPeriod = 0

\* s waits on the same level below level 0 before and after the step.
Waits(s) == /\ state[s] = "RUNNABLE" /\ state'[s] = "RUNNABLE"
            /\ rq'.queue_number[s] = rq.queue_number[s] /\ rq.queue_number[s] > 0

BoostNext ==
    /\ Next
    /\ missed' = [s \in Slots |-> IF ~Waits(s) THEN 0
                                  ELSE IF Boosts THEN missed[s] + 1 ELSE missed[s]]

BoostSpec ==
    /\ Init /\ missed = [s \in Slots |-> 0]
    /\ [][BoostNext]_<<vars, missed>>
    /\ WF_vars(Scheduler) /\ WF_vars(Tick)
    /\ SF_vars(\E p \in Slots : KernelStep(p))

\* usertrap()'s boost steps over every second entry of a level, and between two boosts
\* processes leave and join the level.  Still nobody is passed over for long: each
\* boost that passes a waiting process halves its position, so with NPROC slots it is
\* passed over by at most log2(NPROC) boosts in a row; with three slots, the next boost
\* lifts it unless it runs before.
LiftedSoon == \A s \in Slots : 2^missed[s] <= NPROC

=============================================================================
