------------------------------ MODULE MCServer ------------------------------
EXTENDS Server, TLC
Symmetry == Permutations(Sessions) \cup Permutations(Peers)
=============================================================================
