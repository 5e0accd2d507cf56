---------------------------- MODULE MCDictCache ----------------------------
EXTENDS DictCache
CONSTANTS w1, w2, w3, q1, q2

\* Workers are alike.
Symmetry == Permutations(Worker)
=============================================================================
