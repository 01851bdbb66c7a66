--------------------------------- MODULE Ranks ---------------------------------
(***************************************************************************)
(* What a query with ORDER BY and LIMIT returns.  A ranking is a sequence  *)
(* without repetition, in the order of the query; a query selects the rows *)
(* of S.                                                                   *)
(***************************************************************************)
EXTENDS Naturals, Sequences, FiniteSets

Rank(ranking, S, i) == Cardinality({j \in 1 .. i : ranking[j] \in S})

(* The first n rows of S, or all of them if there are no more than n.      *)
FirstOf(n, S, ranking) ==
    {ranking[i] : i \in {k \in 1 .. Len(ranking) : ranking[k] \in S /\ Rank(ranking, S, k) <= n}}
================================================================================
