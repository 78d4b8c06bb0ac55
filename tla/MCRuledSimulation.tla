-------------------------- MODULE MCRuledSimulation --------------------------
(* Small instances of RuledSimulation for TLC. *)
EXTENDS RuledSimulation, TLC

CONSTANTS o1, o2, o3, i1, b1

Timings == {-1, 1}
OneBlock == i1 :> b1
PairOfObjects == Permutations({o1, o2})
=============================================================================
