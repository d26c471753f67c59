---------------------------- MODULE MCRowStore ----------------------------
EXTENDS RowStore, TLC

Symmetry == Permutations(Threads) \cup Permutations(Keys) \cup Permutations(Values)
===========================================================================
