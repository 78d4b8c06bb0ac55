---------------------------- MODULE MCDebugProbe ----------------------------
(* A small instance of DebugProbe for TLC: the editor may set either kind of
   breakpoint on one line; the variable belongs to the procedure, or is an
   attribute of `this`, and may be set through either list that allows it.  *)
EXTENDS DebugProbe, TLC
CONSTANTS l1, l2, zero, one
MCKinds == l1 :> {"plain", "conditional"} @@ l2 :> {}
MCListings == {{"locals", "frame"}, {"locals", "object"}}
MCAsked == [list : {"locals", "object"}, value : {one}]
=============================================================================
