----------------------------- MODULE MCSequencing -----------------------------
(* Small instances of Sequencing for TLC. *)
EXTENDS Sequencing, TLC

CONSTANTS o1, o2, i1, i2, i3, b1

OneBlock == [i \in Instance |-> b1]
ObjectsAndBlocks == Permutations({o1, o2}) \cup Permutations({i1, i2, i3})
=============================================================================
