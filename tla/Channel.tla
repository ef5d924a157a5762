------------------------------ MODULE Channel ------------------------------
(***************************************************************************)
(* What a pipe promises to the programs at its two ends: a queue of at     *)
(* most Size bytes, which leave it in the order in which they came, and    *)
(* two ends that close once.                                               *)
(***************************************************************************)
EXTENDS Naturals, Sequences

CONSTANTS Bytes, Size, NoByte

VARIABLES queue, got, readopen, writeopen

vars == <<queue, got, readopen, writeopen>>

Init ==
    /\ queue = <<>>
    /\ got = NoByte
    /\ readopen = TRUE /\ writeopen = TRUE

\* Bytes enter only while both ends are open.
Put(b) ==
    /\ readopen /\ writeopen /\ Len(queue) < Size
    /\ queue' = Append(queue, b)
    /\ UNCHANGED <<got, readopen, writeopen>>

\* The oldest byte leaves; the writers may have gone.
Get ==
    /\ readopen /\ queue # <<>>
    /\ got' = Head(queue)
    /\ queue' = Tail(queue)
    /\ UNCHANGED <<readopen, writeopen>>

CloseRead ==
    /\ readopen /\ readopen' = FALSE
    /\ UNCHANGED <<queue, got, writeopen>>

CloseWrite ==
    /\ writeopen /\ writeopen' = FALSE
    /\ UNCHANGED <<queue, got, readopen>>

Next == Get \/ CloseRead \/ CloseWrite \/ \E b \in Bytes : Put(b)

Spec == Init /\ [][Next]_vars

=============================================================================
