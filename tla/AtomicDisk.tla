----------------------------- MODULE AtomicDisk -----------------------------
(***************************************************************************)
(* What the log of kernel/log.c promises to the file system: the updates   *)
(* of the operations between begin_op() and end_op() reach the disk all at *)
(* once, when no operation is in progress, and a crash takes the disk back *)
(* to the last time they did.                                              *)
(***************************************************************************)
CONSTANTS Procs, Blocks, Data

VARIABLES
    stable,     \* what a restart would find in each block
    current,    \* what bread() returns for each block
    active      \* the processes between begin_op() and end_op()

vars == <<stable, current, active>>

Init ==
    /\ stable \in [Blocks -> Data]
    /\ current = stable
    /\ active = {}

Begin(p) ==
    /\ p \notin active
    /\ active' = active \cup {p}
    /\ UNCHANGED <<stable, current>>

Write(p, b, d) ==
    /\ p \in active
    /\ current' = [current EXCEPT ![b] = d]
    /\ UNCHANGED <<stable, active>>

End(p) ==
    /\ p \in active
    /\ active' = active \ {p}
    /\ UNCHANGED <<stable, current>>

Commit ==
    /\ active = {}
    /\ stable' = current
    /\ UNCHANGED <<current, active>>

Crash ==
    /\ current' = stable
    /\ active' = {}
    /\ UNCHANGED stable

Next ==
    \/ \E p \in Procs : Begin(p) \/ End(p) \/ \E b \in Blocks, d \in Data : Write(p, b, d)
    \/ Commit
    \/ Crash

Spec == Init /\ [][Next]_vars

=============================================================================
