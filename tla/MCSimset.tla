------------------------------- MODULE MCSimset -------------------------------
(* Small instances of Simset for TLC. *)
EXTENDS Simset

CONSTANTS l1, l2, l3, l4, h1, h2
=============================================================================
