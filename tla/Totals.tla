--------------------------------- MODULE Totals ---------------------------------
(***************************************************************************)
(* A sum as the size of a set, from which more can be concluded than from  *)
(* a fold.                                                                 *)
(***************************************************************************)
EXTENDS Naturals, FiniteSets

(* The sum of count[x] over S: count[x] things are told apart for each x.  *)
Total(count, S) == Cardinality(UNION {{x} \X (1 .. count[x]) : x \in S})
=================================================================================
