----------------------------- MODULE MCSession -----------------------------
(* Model checking of Session. *)
EXTENDS Session, TLC
=============================================================================
