---------------------------- MODULE MCDatabasePhases ----------------------------
EXTENDS DatabasePhases
CONSTANTS e1, e2, d1, d2, d3, s1, g1, g2

(* Two enabled developers who share a game, four disabled ones, of whom    *)
(* two share a game and one of these is stale; one of the enabled has no   *)
(* trend before the Snapshot phase.                                        *)
MCSnapshots == [d \in {e1, e2, d1, d2, d3, s1} |-> IF d \in {s1, e1} THEN 1 ELSE 2]
MCAdvocates == [g \in {g1, g2} |-> IF g = g1 THEN {e1, e2} ELSE {d2, s1}]
MCScore == <<s1, d3, d1, d2, e1, e2>>
MCTrend == <<e1, e2, d1, d2, d3>>
=============================================================================
