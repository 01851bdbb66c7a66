---------------------------- MODULE MCTwitterClient ----------------------------
EXTENDS TwitterClient, TLC
CONSTANTS g1, g2

Symmetry == Permutations(Threads)
=============================================================================
