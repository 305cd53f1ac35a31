----------------------------- MODULE AddressPool -----------------------------
(***************************************************************************)
(* What an address pool promises, without saying how it searches: every    *)
(* address it hands out is one of its own and is not in use, and it refuses *)
(* only when all of them are in use.  src/internal/server/pool.go is shown *)
(* to implement this (module IPPool).                                      *)
(***************************************************************************)
CONSTANT Addresses      \* the addresses the pool may hand out

VARIABLES inUse,        \* the addresses handed out and not yet returned
          refused       \* TRUE when the last request was refused

vars == <<inUse, refused>>

Init == inUse = {} /\ refused = FALSE

\* A request is granted with any address not in use.
Grant == \E a \in Addresses \ inUse : inUse' = inUse \cup {a} /\ refused' = FALSE

\* A request is refused, which needs every address to be in use.
Refuse == Addresses \subseteq inUse /\ refused' = TRUE /\ UNCHANGED inUse

\* An address comes back; returning one that is not in use changes nothing.
Return == \E a \in Addresses : inUse' = inUse \ {a} /\ UNCHANGED refused

Next == Grant \/ Refuse \/ Return

Spec == Init /\ [][Next]_vars
=============================================================================
