----------------------------- MODULE BlockStore -----------------------------
(***************************************************************************)
(* What the buffer cache and the driver promise together: every block has   *)
(* one current content, only the process that has locked the block changes  *)
(* it, and the block is on the disk as its last user left it.               *)
(***************************************************************************)
CONSTANTS Procs, Blocks, Data, NoProc

VARIABLES
    content,    \* what a process that has the block sees
    stored,     \* what is on the disk
    holder      \* the process that has the block

vars == <<content, stored, holder>>

Init ==
    /\ content \in [Blocks -> Data] /\ stored = content
    /\ holder = [k \in Blocks |-> NoProc]

Acquire(p, k) ==
    /\ holder[k] = NoProc
    /\ holder' = [holder EXCEPT ![k] = p]
    /\ UNCHANGED <<content, stored>>

Write(p, k, v) ==
    /\ holder[k] = p
    /\ content' = [content EXCEPT ![k] = v]
    /\ UNCHANGED <<stored, holder>>

Store(p, k) ==
    /\ holder[k] = p
    /\ stored' = [stored EXCEPT ![k] = content[k]]
    /\ UNCHANGED <<content, holder>>

Release(p, k) ==
    /\ holder[k] = p /\ stored[k] = content[k]
    /\ holder' = [holder EXCEPT ![k] = NoProc]
    /\ UNCHANGED <<content, stored>>

Next == \E p \in Procs, k \in Blocks :
    Acquire(p, k) \/ (\E v \in Data : Write(p, k, v)) \/ Store(p, k) \/ Release(p, k)

Spec == Init /\ [][Next]_vars

=============================================================================
