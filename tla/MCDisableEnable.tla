---------------------------- MODULE MCDisableEnable ----------------------------
EXTENDS DisableEnable
CONSTANTS t1, t2, t3, r1, r2

(* Worst first; r2 is a developer of Reddit without a snapshot.            *)
MCRanking == <<t1, r1, t2, t3>>
=============================================================================
