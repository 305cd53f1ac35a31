-------------------------------- MODULE IPPool --------------------------------
(***************************************************************************)
(* The tunnel address pool of the server, src/internal/server/pool.go: a   *)
(* round-robin scan over the usable addresses of the tunnel CIDR with the  *)
(* arithmetic of Go's uint32.  Addresses are numbers modulo Word (2^32 in  *)
(* the code; TLC uses a small power of two, so that the CIDR can end at    *)
(* the last address and every sum of the scan meets the wrap).             *)
(*                                                                         *)
(* Both methods hold p.mu for their whole body, so each is one step.       *)
(***************************************************************************)
EXTENDS Integers

CONSTANTS Word,         \* number of values of a uint32
          Base,         \* the CIDR's network address
          Size,         \* uint32(1) << (bits-ones); 0 for a /0
          Gateway       \* the gateway's address, configured separately

\* What newIPPool establishes.  The CIDR lies inside the address space
\* because net.ParseCIDR masks the network address, and its size, a power of
\* two that fits a uint32, is at most half of the space.
ASSUME PoolAssumption ==
  /\ Word \in Nat \ {0}
  /\ Base \in 0 .. Word - 1
  /\ Size \in Nat /\ 2 * Size <= Word
  /\ Gateway \in 0 .. Word - 1
  /\ Base + Size <= Word

VARIABLES next,         \* p.next: where the next scan begins
          assigned,     \* p.assigned: the keys of the map
          refused       \* TRUE when the last Allocate returned the error

poolVars == <<next, assigned, refused>>

Uint32 == 0 .. Word - 1

\* A CIDR with at least two host addresses: a /30 or wider, and not a /0.
Routable == Size >= 4

\* The addresses the type's comment promises to hand out: the CIDR without
\* its network, gateway and broadcast addresses.
Usable == (Base + 1 .. Base + Size - 2) \ {Gateway}
-----------------------------------------------------------------------------
\* Faulty variant of Cand: the usable range is taken one address too short.
ShortRangeCand(i) ==
  (Base + 1 + (((next - Base - 1 + i) % Word) % ((Size - 3) % Word))) % Word

\* The i-th candidate of a scan, in uint32 arithmetic.
Cand(i) ==
  (Base + 1 + (((next - Base - 1 + i) % Word) % ((Size - 2) % Word))) % Word

\* Faulty variant of Free: an address still assigned is handed out again.
ForgetsAssignedFree(a) == a # Gateway

\* The test that skips the gateway and the addresses in use.
Free(a) == a # Gateway /\ a \notin assigned

\* The scan takes candidate i: the first of the Size candidates that is free.
Takes(i) == Free(Cand(i)) /\ \A j \in 0 .. i - 1 : ~Free(Cand(j))

\* The scan runs through all Size candidates without finding a free one.
Exhausted == \A i \in 0 .. Size - 1 : ~Free(Cand(i))

\* On a /31 the modulus p.size-2 is zero and the division panics.  The
\* deferred Unlock runs and nothing has been changed.
DivisionPanics == Size = 2

\* newIPPool: nothing is assigned and the scan begins after the network
\* address.
PoolInit ==
  /\ next = (Base + 1) % Word
  /\ assigned = {}
  /\ refused = FALSE

\* Faulty variant of Allocate: the cursor is not advanced.
CursorNotAdvancedAllocate(a) ==
  /\ ~DivisionPanics
  /\ \E i \in 0 .. Size - 1 : Takes(i) /\ a = Cand(i)
  /\ assigned' = assigned \cup {a}
  /\ refused' = FALSE
  /\ UNCHANGED next

\* Allocate returning address a.
Allocate(a) ==
  /\ ~DivisionPanics
  /\ \E i \in 0 .. Size - 1 : Takes(i) /\ a = Cand(i)
  /\ assigned' = assigned \cup {a}
  /\ next' = (a + 1) % Word
  /\ refused' = FALSE

\* Allocate returning "tunnel address pool exhausted".
AllocateFails ==
  /\ ~DivisionPanics
  /\ Exhausted
  /\ refused' = TRUE
  /\ UNCHANGED <<next, assigned>>

\* Release of address a.  Deleting a key the map does not hold is a no-op.
Release(a) ==
  /\ assigned' = assigned \ {a}
  /\ UNCHANGED <<next, refused>>

\* Callers release only addresses that Allocate gave them.
PoolNext ==
  \/ \E a \in Uint32 : Allocate(a)
  \/ AllocateFails
  \/ \E a \in assigned : Release(a)

PoolSpec == PoolInit /\ [][PoolNext]_poolVars
-----------------------------------------------------------------------------
\* The pool's variables hold uint32 values and a set of them.
PoolTypeOK ==
  /\ next \in Uint32
  /\ assigned \subseteq Uint32
  /\ refused \in BOOLEAN

\* The cursor p.next stays on an address one past a usable one (or on the
\* first usable one), so that p.next-p.base-1 never wraps below zero and the
\* sum with the loop index stays below twice the range.
CursorInRange == next \in Base + 1 .. Base + Size - 1

\* Every address handed out by Allocate is a usable address of the CIDR:
\* never the network, gateway or broadcast address (comment of ipPool).
OnlyUsable == assigned \subseteq Usable

\* Allocate reports exhaustion only when every usable address is assigned:
\* the scan from any cursor position meets each usable address.
ExhaustedMeansFull == Exhausted => Usable \subseteq assigned

\* The pool implements the abstract address pool.
Abstract == INSTANCE AddressPool WITH Addresses <- Usable, inUse <- assigned
AbstractSpec == Abstract!Spec
=============================================================================
