--------------------------- MODULE MCOperatingChain ---------------------------
(* A small instance of OperatingChain for TLC. *)
EXTENDS OperatingChain, TLC

CONSTANTS o1, o2, o3, i1, b1

OneBlock == i1 :> b1
Objects == Permutations({o1, o2, o3})
=============================================================================
