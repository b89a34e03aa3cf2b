------------------------------ MODULE MCBoxFleet ------------------------------
EXTENDS BoxFleet, TLC

Symmetry == Permutations(Boxes) \cup Permutations(Sessions) \cup Permutations(Conns)
=============================================================================
