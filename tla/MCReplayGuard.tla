--------------------------- MODULE MCReplayGuard ---------------------------
(* Model checking of ReplayGuard on a bounded stretch of time. *)
EXTENDS ReplayGuard, TLC

CONSTANTS Start,        \* the clock's value when the server starts
          Horizon       \* the last second that is explored

MCInit == now = Start /\ Init

MCSpec == MCInit /\ [][Next]_vars

BeforeHorizon == now <= Horizon

Symmetry == Permutations(Attempts) \cup Permutations(Spellings)
=============================================================================
