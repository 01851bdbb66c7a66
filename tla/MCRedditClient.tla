---------------------------- MODULE MCRedditClient ----------------------------
EXTENDS RedditClient, TLC
CONSTANTS t1, t2, about

Symmetry == Permutations(Threads)
=============================================================================
