------------------------------ MODULE MCMemory ------------------------------
(* Memory with two slots, page tables of three levels and few pages. *)
EXTENDS UserCopy, SequencesExt

CONSTANTS N,        \* number of pages
          Spare     \* how many of them the rest of the kernel may hold

MCFrames == 1..N

BootOrder == SetToSeq(First)
MCBoot == [x \in First |-> CHOOSE i \in 1..Len(BootOrder) : BootOrder[i] = x]

MCHeld == {(N - k + 1)..N : k \in Spare}

=============================================================================
