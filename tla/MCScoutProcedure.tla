---------------------------- MODULE MCScoutProcedure ----------------------------
(* Model checking of ScoutProcedure.                                       *)
EXTENDS ScoutProcedure, TLC

(* The developers are alike.  (Only for runs without liveness.)            *)
DevSymmetry == Permutations(Devs)
=================================================================================
