------------------------- MODULE MCOvertakenAnalyses -------------------------
(* A small instance of OvertakenAnalyses for TLC. *)
EXTENDS OvertakenAnalyses
CONSTANTS t1, t2, j1, j2
==============================================================================
