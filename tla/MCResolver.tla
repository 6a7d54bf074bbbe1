----------------------------- MODULE MCResolver -----------------------------
(* Small instances of Resolver for TLC: two spellings of one name. *)
EXTENDS Resolver

CONSTANTS c1, c2, lower, upper

MCFold == [n \in Names |-> lower]
=============================================================================
