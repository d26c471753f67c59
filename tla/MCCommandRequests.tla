------------------------- MODULE MCCommandRequests -------------------------
EXTENDS CommandRequests, TLC

Symmetry == Permutations(Names) \cup Permutations(Texts) \cup Permutations(Offsets)
===========================================================================
