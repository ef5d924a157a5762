------------------------------- MODULE MCLog -------------------------------
EXTENDS Log, TLC

\* The log treats processes and blocks alike.
Symmetry == Permutations(Procs) \cup Permutations(Blocks)

=============================================================================
