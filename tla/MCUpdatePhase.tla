----------------------------- MODULE MCUpdatePhase -----------------------------
(* Small instances of UpdatePhase for TLC.                                 *)
EXTENDS UpdatePhase, TLC

(* Developers of one type are interchangeable, and so are the workers, in  *)
(* the runs in which nobody was discovered.                                *)
Symmetry == Permutations(TwitterDevs) \cup Permutations(RedditDevs) \cup Permutations(Workers)

=============================================================================
