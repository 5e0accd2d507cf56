-------------------------- MODULE MCGQLStatistics --------------------------
EXTENDS GQLStatistics
CONSTANTS h1, h2, a1, a2, q1

\* Alike: handlers, and administrators.
Symmetry == Permutations(Handler) \cup Permutations(Admin)
=============================================================================
