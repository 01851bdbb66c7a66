----------------------------- MODULE MCCachedFields -----------------------------
EXTENDS CachedFields
CONSTANTS t1, t2, r1, g1
Symmetry == Permutations({t1, t2})
=============================================================================
