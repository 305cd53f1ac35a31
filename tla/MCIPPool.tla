------------------------------- MODULE MCIPPool -------------------------------
(***************************************************************************)
(* Model checking of IPPool.  The history variable last remembers the      *)
(* address handed out most recently, which the code does not keep.         *)
(***************************************************************************)
EXTENDS IPPool

VARIABLE last           \* the address of the last successful Allocate

mcVars == <<next, assigned, refused, last>>

NoneYet == Word

MCInit == PoolInit /\ last = NoneYet

MCNext ==
  \/ \E a \in Uint32 : Allocate(a) /\ last' = a
  \/ AllocateFails /\ UNCHANGED last
  \/ \E a \in assigned : Release(a) /\ UNCHANGED last

MCSpec == MCInit /\ [][MCNext]_mcVars

\* Round robin: Allocate hands the most recently allocated address out again
\* only when no other address is free, so late replies to a client that has
\* just left do not reach its successor while the pool has room.
NoImmediateReuse ==
  [][ \A a \in assigned' \ assigned : a = last => Usable \ assigned = {a} ]_mcVars
=============================================================================
