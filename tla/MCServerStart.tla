---------------------------- MODULE MCServerStart ----------------------------
(* A small instance of ServerStart: two overlapping server processes. *)
EXTENDS ServerStart, TLC

CONSTANTS p1, p2

TwoProcs == {p1, p2}
Symmetry == Permutations(TwoProcs)
=============================================================================
