---------------------------- MODULE MCSpillStacks ----------------------------
(* A main program, two components and a procedure. *)
EXTENDS SpillStacks

CONSTANTS m, x, y, body, p

MCCoroutines == {m, x, y}
MCFunctions == {body, p}
MCRefSlots == [fn \in MCFunctions |-> IF fn = body THEN 1 ELSE 2]
=============================================================================
