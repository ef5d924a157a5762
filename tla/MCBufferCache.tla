--------------------------- MODULE MCBufferCache ---------------------------
(***************************************************************************)
(* A small instance of BufferCache.  Processes, buffers, blocks and data    *)
(* are interchangeable.                                                     *)
(***************************************************************************)
EXTENDS BufferCache, TLC

Symmetry ==
    Permutations(Procs) \cup Permutations(Bufs) \cup Permutations(Blocks)
        \cup Permutations(Data)

=============================================================================
