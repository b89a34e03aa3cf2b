------------------------------ MODULE MCMicroVM ------------------------------
EXTENDS MicroVM, TLC

Symmetry == Permutations(Boxes) \cup Permutations(Procs)
=============================================================================
