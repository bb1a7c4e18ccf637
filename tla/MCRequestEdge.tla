---------------------------- MODULE MCRequestEdge ----------------------------
(* RequestEdge for TLC: the requests are alike.                             *)
EXTENDS RequestEdge, TLC

Symmetry == Permutations(Requests)
=============================================================================
