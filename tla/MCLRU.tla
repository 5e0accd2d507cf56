------------------------------- MODULE MCLRU -------------------------------
EXTENDS LRURefinement, TLC

Symmetry == Permutations(Key) \cup Permutations(Value) \cup Permutations(Item)
=============================================================================
