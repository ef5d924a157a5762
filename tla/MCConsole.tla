------------------------------ MODULE MCConsole -----------------------------
(***************************************************************************)
(* Console for TLC: what is typed, and the symmetry of harts and threads.  *)
(***************************************************************************)
EXTENDS Console, TLC

\* A character waits to be edited, and the edit index has just wrapped around.
MCStarts == {[buf |-> (0 :> "nul") @@ (1 :> "a"), r |-> 3, w |-> 3, e |-> 0]}

\* A line that fills the buffer, one that ends, one erased, one killed, end of file after
\* a character, the process list.
MCInputs == {<<"a", "a">>, <<"cr", "H">>, <<"H">>, <<"U", "nul">>, <<"eof">>, <<"P">>}

Symmetry == Permutations(Harts) \cup Permutations(Threads)

=============================================================================
