---------------------------- MODULE MCVmSequencing ----------------------------
(* Two objects, and one block entered twice. *)
EXTENDS VmSequencing, TLC

CONSTANTS o1, o2, i1, i2, b1

OneBlock == [s \in Instance |-> b1]
Objects == Permutations(Object)
=============================================================================
