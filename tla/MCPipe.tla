------------------------------- MODULE MCPipe -------------------------------
(* Model values for Pipe. *)
EXTENDS Pipe, TLC

Symmetry == Permutations(Procs)

=============================================================================
