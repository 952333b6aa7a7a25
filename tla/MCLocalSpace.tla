---------------------------- MODULE MCLocalSpace ----------------------------
EXTENDS LocalTable, TLC
Sym == Permutations(Handles) \cup Permutations(Spks) \cup Permutations(Operators)
=============================================================================
