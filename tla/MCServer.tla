------------------------------- MODULE MCServer -------------------------------
(* Model checking of Server on small instances. *)
EXTENDS Server, TLC

Symmetry == Permutations(Conns)
=============================================================================
