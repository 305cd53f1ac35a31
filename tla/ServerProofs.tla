----------------------------- MODULE ServerProofs -----------------------------
(***************************************************************************)
(* Machine-checked proofs about the address pool, for any routable CIDR,   *)
(* and about Server, for any number of connections and any queue capacity. *)
(***************************************************************************)
EXTENDS Server, MCIPPool, TLAPS

(* The address pool, for every routable CIDR anywhere in the address space *)

\* Modulo leaves a number that is small enough alone.
LEMMA ModSmall ==
  ASSUME NEW m \in Nat \ {0}, NEW x \in 0 .. m - 1
  PROVE  x % m = x
OBVIOUS

\* A number between m and 2m loses one m.
LEMMA ModOnce ==
  ASSUME NEW m \in Nat \ {0}, NEW x \in m .. 2 * m - 1
  PROVE  x % m = x - m
OBVIOUS

\* With a cursor in range, no sum of the scan wraps, and candidate i is the
\* usable address i places after the cursor, counted round the usable range.
LEMMA CandidateValue ==
  ASSUME Routable, CursorInRange, NEW i \in 0 .. Size - 1
  PROVE  Cand(i) = Base + 1 + ((next - Base - 1 + i) % (Size - 2))
<1> USE PoolAssumption DEF Routable, CursorInRange
<1> DEFINE x == next - Base - 1 + i
           M == Size - 2
<1>1. next \in Int /\ x \in 0 .. Word - 1 /\ M \in 1 .. Word - 1
  OBVIOUS
<1>2. x % Word = x /\ M % Word = M
  BY <1>1, ModSmall
<1>3. x % M \in 0 .. M - 1
  BY <1>1
<1>4. Base + 1 + (x % M) \in 0 .. Word - 1
  BY <1>1, <1>3
<1>5. (Base + 1 + (x % M)) % Word = Base + 1 + (x % M)
  BY <1>4, ModSmall
<1> QED BY <1>2, <1>5 DEF Cand

\* A scan meets every address of the usable range: from wherever the cursor
\* is, some candidate is that address.
LEMMA ScanCovers ==
  ASSUME Routable, CursorInRange, NEW a \in Base + 1 .. Base + Size - 2
  PROVE  \E i \in 0 .. Size - 1 : Cand(i) = a
<1> USE PoolAssumption DEF Routable, CursorInRange
<1> DEFINE M == Size - 2
           off == next - Base - 1
           t == a - Base - 1
<1>1. M \in Nat \ {0} /\ off \in 0 .. M /\ t \in 0 .. M - 1
  OBVIOUS
<1>2. CASE off <= t
  <2>1. t - off \in 0 .. Size - 1 /\ off + (t - off) = t
    BY <1>1, <1>2
  <2>2. t % M = t
    BY <1>1, ModSmall
  <2>3. Cand(t - off) = Base + 1 + ((next - Base - 1 + (t - off)) % (Size - 2))
    BY <2>1, CandidateValue
  <2>4. Cand(t - off) = a
    BY <2>1, <2>2, <2>3
  <2> QED BY <2>1, <2>4
<1>3. CASE off > t
  <2>1. t + M - off \in 0 .. Size - 1 /\ off + (t + M - off) = t + M
    BY <1>1, <1>3
  <2>2. t + M \in M .. 2 * M - 1
    BY <1>1
  <2>3. (t + M) % M = t
    BY <1>1, <2>2, ModOnce
  <2>4. Cand(t + M - off) = Base + 1 + ((next - Base - 1 + (t + M - off)) % (Size - 2))
    BY <2>1, CandidateValue
  <2>5. Cand(t + M - off) = a
    BY <2>1, <2>3, <2>4
  <2> QED BY <2>1, <2>5
<1> QED BY <1>1, <1>2, <1>3

\* The pool reports exhaustion only when it is full, given a cursor in range.
LEMMA ExhaustionIsReal == Routable /\ CursorInRange => ExhaustedMeansFull
BY ScanCovers DEF ExhaustedMeansFull, Exhausted, Usable, Free

\* An address that Allocate returns is usable, is not in use, and leaves the
\* cursor in range.
LEMMA AllocateResult ==
  ASSUME Routable, CursorInRange, NEW a \in Uint32, Allocate(a)
  PROVE  a \in Usable \ assigned /\ next' = a + 1 /\ CursorInRange'
<1> USE PoolAssumption DEF Routable
<1>1. PICK i \in 0 .. Size - 1 : Takes(i) /\ a = Cand(i)
  BY DEF Allocate
<1>2. a = Base + 1 + ((next - Base - 1 + i) % (Size - 2))
  BY <1>1, CandidateValue
<1>3. (next - Base - 1 + i) % (Size - 2) \in 0 .. Size - 3
  BY DEF CursorInRange
<1>4. a \in Base + 1 .. Base + Size - 2
  BY <1>2, <1>3
<1>5. a \in Usable \ assigned
  BY <1>1, <1>4 DEF Takes, Free, Usable
<1>6. a + 1 \in 0 .. Word - 1
  BY <1>4
<1>7. next' = a + 1
  BY <1>6, ModSmall DEF Allocate
<1> QED BY <1>4, <1>5, <1>7 DEF CursorInRange

\* What the pool keeps true: types, a cursor in range, usable addresses only.
PoolInv == PoolTypeOK /\ CursorInRange /\ OnlyUsable

\* PoolInv holds at the start.
LEMMA PoolInvInit == Routable /\ PoolInit => PoolInv
<1> SUFFICES ASSUME Routable, PoolInit PROVE PoolInv
  OBVIOUS
<1> USE PoolAssumption DEF Routable
<1>1. Base + 1 \in 0 .. Word - 1
  OBVIOUS
<1>2. next = Base + 1
  BY <1>1, ModSmall DEF PoolInit
<1>3. next \in Uint32 /\ CursorInRange
  BY <1>1, <1>2 DEF Uint32, CursorInRange
<1>4. assigned = {} /\ refused \in BOOLEAN
  BY ZenonT(30) DEF PoolInit
<1> QED BY <1>3, <1>4 DEF PoolInv, PoolTypeOK, OnlyUsable

\* Every step of the pool keeps PoolInv.
LEMMA PoolInvStep == Routable /\ PoolInv /\ [PoolNext]_poolVars => PoolInv'
<1> SUFFICES ASSUME Routable, PoolInv, [PoolNext]_poolVars PROVE PoolInv'
  OBVIOUS
<1> USE DEF PoolInv, PoolTypeOK
<1>1. ASSUME NEW a \in Uint32, Allocate(a) PROVE PoolInv'
  <2>1. a \in Usable \ assigned /\ CursorInRange'
    BY <1>1, AllocateResult
  <2>2. next' \in Uint32
    BY <2>1, PoolAssumption DEF CursorInRange, Uint32, Routable
  <2>3. assigned' = assigned \cup {a} /\ refused' = FALSE
    BY <1>1 DEF Allocate
  <2>4. assigned' \subseteq Uint32 /\ OnlyUsable'
    BY <2>1, <2>3 DEF OnlyUsable
  <2> QED BY <2>1, <2>2, <2>3, <2>4, ZenonT(30)
<1>2. CASE AllocateFails
  BY <1>2 DEF AllocateFails, CursorInRange, OnlyUsable
<1>3. ASSUME NEW a \in assigned, Release(a) PROVE PoolInv'
  BY <1>3 DEF Release, CursorInRange, OnlyUsable
<1>4. CASE UNCHANGED poolVars
  BY <1>4 DEF poolVars, CursorInRange, OnlyUsable
<1> QED BY <1>1, <1>2, <1>3, <1>4 DEF PoolNext

\* Every address the pool hands out is a host address of the CIDR other than
\* the gateway, for every CIDR from /30 up and wherever it lies.
THEOREM OnlyUsableHandedOut == ASSUME Routable PROVE PoolSpec => []OnlyUsable
<1>1. PoolInv => OnlyUsable
  BY DEF PoolInv
<1> QED BY <1>1, PoolInvInit, PoolInvStep, PTL DEF PoolSpec

\* The cursor never leaves the range from which the scan's subtraction cannot
\* wrap, for every CIDR from /30 up and wherever it lies.
THEOREM CursorStaysInRange == ASSUME Routable PROVE PoolSpec => []CursorInRange
<1>1. PoolInv => CursorInRange
  BY DEF PoolInv
<1> QED BY <1>1, PoolInvInit, PoolInvStep, PTL DEF PoolSpec

\* "tunnel address pool exhausted" is reported only when every usable address
\* is assigned, whatever the history of the cursor.
THEOREM ExhaustionMeansFull == ASSUME Routable PROVE PoolSpec => []ExhaustedMeansFull
<1>1. PoolInv => ExhaustedMeansFull
  BY ExhaustionIsReal DEF PoolInv
<1> QED BY <1>1, PoolInvInit, PoolInvStep, PTL DEF PoolSpec

\* The pool implements the abstract address pool: each Allocate is a grant of
\* a free address or a refusal by a full pool, each Release a return.
THEOREM PoolRefinesAddressPool == ASSUME Routable PROVE PoolSpec => AbstractSpec
<1>1. PoolInit => Abstract!Init
  BY DEF PoolInit, Abstract!Init
<1>2. PoolInv /\ [PoolNext]_poolVars => [Abstract!Next]_(Abstract!vars)
  <2> SUFFICES ASSUME PoolInv, [PoolNext]_poolVars
               PROVE  Abstract!Next \/ UNCHANGED Abstract!vars
    OBVIOUS
  <2>1. ASSUME NEW a \in Uint32, Allocate(a) PROVE Abstract!Grant
    <3>1. a \in Usable \ assigned
      BY <2>1, AllocateResult DEF PoolInv
    <3> QED BY <2>1, <3>1 DEF Allocate, Abstract!Grant
  <2>2. ASSUME AllocateFails PROVE Abstract!Refuse
    BY <2>2, ExhaustionIsReal DEF AllocateFails, ExhaustedMeansFull, PoolInv, Abstract!Refuse
  <2>3. ASSUME NEW a \in assigned, Release(a) PROVE Abstract!Return
    BY <2>3 DEF Release, PoolInv, OnlyUsable, Abstract!Return
  <2>4. CASE UNCHANGED poolVars
    BY <2>4 DEF poolVars, Abstract!vars
  <2> QED BY <2>1, <2>2, <2>3, <2>4 DEF PoolNext, Abstract!Next
<1> QED
  BY <1>1, <1>2, PoolInvInit, PoolInvStep, PTL DEF PoolSpec, AbstractSpec, Abstract!Spec
-----------------------------------------------------------------------------
(* The server *)

\* A scan that begins one past the address it takes has gone all the way round:
\* every other usable address was in use.
LEMMA ScanEndsAtLast ==
  ASSUME Routable, PoolInv, NEW a \in Usable, next = a + 1, Allocate(a)
  PROVE  Usable \subseteq assigned \cup {a}
<1> USE PoolAssumption DEF Routable
<1> DEFINE M == Size - 2
           t == a - Base - 1
<1>0. CursorInRange /\ a \in Base + 1 .. Base + Size - 2
  BY DEF PoolInv, Usable
<1>1. M \in Nat \ {0} /\ t \in 0 .. M - 1 /\ next - Base - 1 = t + 1
  BY <1>0
<1>2. PICK i \in 0 .. Size - 1 : Takes(i) /\ a = Cand(i)
  BY DEF Allocate
<1>3. (t + 1 + i) % M = t
  <2>1. a = Base + 1 + ((next - Base - 1 + i) % (Size - 2))
    BY <1>0, <1>2, CandidateValue
  <2>2. (next - Base - 1 + i) % M \in Int
    BY <1>1
  <2> QED BY <1>1, <2>1, <2>2
<1>4. i >= M - 1
  <2> SUFFICES ASSUME i < M - 1 PROVE FALSE
    BY <1>1
  <2>1. CASE t + 1 + i <= M - 1
    <3>1. (t + 1 + i) % M = t + 1 + i
      BY <1>1, <2>1, ModSmall
    <3> QED BY <1>1, <1>3, <3>1
  <2>2. CASE t + 1 + i > M - 1
    <3>1. t + 1 + i \in M .. 2 * M - 1
      BY <1>1, <2>2
    <3>2. (t + 1 + i) % M = t + 1 + i - M
      BY <1>1, <3>1, ModOnce
    <3> QED BY <1>1, <1>3, <3>2
  <2> QED BY <1>1, <2>1, <2>2
<1>5. ASSUME NEW u \in Usable, u # a PROVE u \in assigned
  <2> DEFINE v == u - Base - 1
  <2>1. v \in 0 .. M - 1 /\ v # t /\ u \in Int
    BY <1>1, <1>5 DEF Usable
  <2>2. \E j \in 0 .. M - 2 : Cand(j) = u
    <3>1. CASE v > t
      <4>1. v - t - 1 \in 0 .. M - 2 /\ v - t - 1 \in 0 .. Size - 1 /\ t + 1 + (v - t - 1) = v
        BY <1>1, <2>1, <3>1
      <4>2. v % M = v
        BY <1>1, <2>1, ModSmall
      <4>3. Cand(v - t - 1) = Base + 1 + ((next - Base - 1 + (v - t - 1)) % (Size - 2))
        BY <1>0, <4>1, CandidateValue
      <4>4. Cand(v - t - 1) = u
        BY <1>1, <2>1, <4>1, <4>2, <4>3
      <4> QED BY <4>1, <4>4
    <3>2. CASE v < t
      <4>1. /\ v + M - t - 1 \in 0 .. M - 2 /\ v + M - t - 1 \in 0 .. Size - 1
            /\ t + 1 + (v + M - t - 1) = v + M
        BY <1>1, <2>1, <3>2
      <4>2. (v + M) % M = v
        <5>1. v + M \in M .. 2 * M - 1
          BY <1>1, <2>1
        <5> HIDE DEF M, v
        <5>2. (v + M) % M = (v + M) - M
          BY <1>1, <5>1, ModOnce
        <5> QED BY <1>1, <2>1, <5>2
      <4>3. Cand(v + M - t - 1) = Base + 1 + ((next - Base - 1 + (v + M - t - 1)) % (Size - 2))
        BY <1>0, <4>1, CandidateValue
      <4>4. Cand(v + M - t - 1) = u
        BY <1>1, <2>1, <4>1, <4>2, <4>3
      <4> QED BY <4>1, <4>4
    <3> QED BY <1>1, <2>1, <3>1, <3>2
  <2>3. PICK j \in 0 .. M - 2 : Cand(j) = u
    BY <2>2
  <2>4. j \in 0 .. i - 1
    BY <1>1, <1>4, <2>3
  <2>5. ~Free(u)
    BY <1>2, <2>3, <2>4 DEF Takes
  <2> QED BY <1>5, <2>5 DEF Free, Usable
<1> QED BY <1>5

\* Round robin: whatever is released in between, the address that was handed out
\* last is handed out again at once only if no other usable address is free.
THEOREM NoImmediateReuseOfAddress == ASSUME Routable PROVE MCSpec => NoImmediateReuse
<1> DEFINE LastInv == last # NoneYet => last \in Usable /\ next = last + 1
           Fresh == \A a \in assigned' \ assigned : a = last => Usable \ assigned = {a}
<1>1. MCInit => PoolInit /\ LastInv
  BY DEF MCInit
<1>2. [MCNext]_mcVars => [PoolNext]_poolVars
  BY DEF MCNext, PoolNext, mcVars, poolVars
<1>3. PoolInv /\ LastInv /\ [MCNext]_mcVars => LastInv'
  <2> SUFFICES ASSUME PoolInv, LastInv, [MCNext]_mcVars PROVE LastInv'
    OBVIOUS
  <2>1. ASSUME NEW a \in Uint32, Allocate(a), last' = a PROVE LastInv'
    BY <2>1, AllocateResult DEF PoolInv
  <2>2. CASE UNCHANGED <<next, last>>
    BY <2>2
  <2> QED BY <2>1, <2>2 DEF MCNext, mcVars, AllocateFails, Release
<1>4. PoolInv /\ LastInv /\ [MCNext]_mcVars => Fresh
  <2> SUFFICES ASSUME PoolInv, LastInv, [MCNext]_mcVars,
                      NEW a \in assigned' \ assigned, a = last
               PROVE  Usable \ assigned = {a}
    OBVIOUS
  <2>1. PICK b \in Uint32 : Allocate(b)
    BY DEF MCNext, mcVars, AllocateFails, Release
  <2>2. b = a /\ a \in Usable \ assigned
    BY <2>1, AllocateResult DEF Allocate, PoolInv
  <2>3. a # NoneYet
    BY <2>1, <2>2, PoolAssumption DEF NoneYet, Uint32
  <2>4. Usable \subseteq assigned \cup {a}
    BY <2>1, <2>2, <2>3, ScanEndsAtLast
  <2> QED BY <2>2, <2>4
<1>5. PoolInv /\ [PoolNext]_poolVars => PoolInv'
  BY PoolInvStep
<1>6. PoolInit => PoolInv
  BY PoolInvInit
<1> QED BY <1>1, <1>2, <1>3, <1>4, <1>5, <1>6, PTL DEF MCSpec, NoImmediateReuse

\* Reducing any integer modulo Word gives a uint32.
LEMMA Reduced == \A x \in Int : x % Word \in Uint32
BY PoolAssumption DEF Uint32

\* The server starts well typed.
LEMMA TypeInit == Init => TypeOK
<1> USE PoolAssumption, ServerAssumption DEF Routable
<1> SUFFICES ASSUME Init PROVE TypeOK
  OBVIOUS
<1>1. Base + 1 \in Int
  OBVIOUS
<1>2. next \in Uint32
  BY <1>1, Reduced, ZenonT(30) DEF Init, PoolInit
<1>3. queue \in [Conns -> Seq(Uint32 \cup {Pong})] /\ \A c \in Conns : Len(queue[c]) <= QueueCap
  BY DEF Init
<1>4. tunOut \in [src : Uint32 \cup {NoAddress}, from : Conns \cup {NoConn}]
  BY DEF Init, NoPacket
<1>5. PoolTypeOK
  BY <1>2, ZenonT(30) DEF Init, PoolTypeOK, PoolInit
<1> QED
  BY <1>3, <1>4, <1>5 DEF Init, TypeOK, HandlerPc, WriterPc

\* Every step of every goroutine keeps the types.
LEMMA TypeStep == TypeOK /\ [Next]_vars => TypeOK'
<1> USE PoolAssumption, ServerAssumption DEF Routable
<1> SUFFICES ASSUME TypeOK, [Next]_vars PROVE TypeOK'
  OBVIOUS
<1> USE DEF TypeOK, PoolTypeOK, poolVars, connVars, tunVars
<1>1. ASSUME NEW c \in Conns, Handshake(c) PROVE TypeOK'
  <2>1. CASE Accept(c) BY <2>1 DEF Accept, Goto, HandlerPc
  <2>2. CASE HelloAccepted(c) BY <2>2 DEF HelloAccepted, Goto, HandlerPc
  <2>3. CASE HelloRejected(c) BY <2>3 DEF HelloRejected, Goto, HandlerPc
  <2>4. CASE AddressGranted(c)
    <3>1. PICK a \in Uint32 : Allocate(a) /\ ip' = [ip EXCEPT ![c] = a]
      BY <2>4, ZenonT(30) DEF AddressGranted
    <3>2. a + 1 \in Int
      BY DEF Uint32
    <3>3. next' \in Uint32
      BY <3>1, <3>2, Reduced DEF Allocate
    <3> QED BY <2>4, <3>1, <3>3, ZenonT(30) DEF AddressGranted, Allocate, Goto, HandlerPc, Holding
  <2>5. CASE AddressRefused(c) BY <2>5 DEF AddressRefused, AllocateFails, Goto, HandlerPc
  <2>6. CASE WelcomeSent(c) BY <2>6 DEF WelcomeSent, Goto, HandlerPc, Holding
  <2>7. CASE WelcomeFails(c) BY <2>7 DEF WelcomeFails, Release, Goto, HandlerPc
  <2>8. CASE Reject(c) BY <2>8 DEF Reject, Goto, HandlerPc
  <2>9. CASE Register(c) BY <2>9, ZenonT(30) DEF Register, Goto, HandlerPc, Holding, WriterPc
  <2> QED BY <1>1, <2>1, <2>2, <2>3, <2>4, <2>5, <2>6, <2>7, <2>8, <2>9, ZenonT(60) DEF Handshake
<1>2. ASSUME NEW c \in Conns, ReadLoop(c) PROVE TypeOK'
  <2>1. CASE ReadPacket(c) BY <2>1 DEF ReadPacket
  <2>2. CASE ReadPing(c) BY <2>2 DEF ReadPing, Pong
  <2>3. CASE ReadFails(c) BY <2>3 DEF ReadFails, Goto, HandlerPc, Holding
  <2>4. CASE FrameRejected(c) BY <2>4 DEF FrameRejected, Goto, HandlerPc, Holding
  <2> QED BY <1>2, <2>1, <2>2, <2>3, <2>4, ZenonT(60) DEF ReadLoop
<1>3. ASSUME NEW c \in Conns, Deregistration(c) PROVE TypeOK'
  <2>1. CASE Deregister(c) BY <2>1, ZenonT(30) DEF Deregister, Goto, HandlerPc, Holding
  <2>2. CASE ReleaseAddress(c) BY <2>2 DEF ReleaseAddress, Release, Goto, HandlerPc
  <2>3. CASE CloseClient(c) BY <2>3 DEF CloseClient, Goto, HandlerPc
  <2> QED BY <1>3, <2>1, <2>2, <2>3, ZenonT(60) DEF Deregistration
<1>4. ASSUME NEW c \in Conns, WriteLoop(c) PROVE TypeOK'
  <2>1. CASE WriterStops(c) BY <2>1 DEF WriterStops, WriterPc
  <2>2. CASE WriterTakes(c) BY <2>2 DEF WriterTakes, WriterPc
  <2>3. CASE WriterPings(c) BY <2>3 DEF WriterPings, WriterPc
  <2>4. CASE WriteSucceeds(c) BY <2>4 DEF WriteSucceeds, WriterPc
  <2>5. CASE WriteFails(c) BY <2>5 DEF WriteFails, WriterPc
  <2>6. CASE PongFails(c) BY <2>6 DEF PongFails, WriterPc
  <2> QED BY <1>4, <2>1, <2>2, <2>3, <2>4, <2>5, <2>6, ZenonT(60) DEF WriteLoop
<1>5. ASSUME NEW c \in Conns, Break(c) PROVE TypeOK'
  BY <1>5 DEF Break
<1>6. ASSUME NEW c \in Conns, Forget(c) PROVE TypeOK'
  BY <1>6 DEF Forget, HandlerPc, WriterPc
<1>7. CASE TunReadLoop
  <2>1. CASE TunRead BY <2>1 DEF TunRead, TunnelNet, Uint32
  <2>2. CASE TunReadFails BY <2>2 DEF TunReadFails
  <2>3. CASE TunLookup BY <2>3 DEF TunLookup
  <2>4. CASE TunSend BY <2>4 DEF TunSend
  <2> QED BY <1>7, <2>1, <2>2, <2>3, <2>4, ZenonT(60) DEF TunReadLoop
<1>8. CASE TunTaken BY <1>8 DEF TunTaken, NoPacket
<1>9. CASE UNCHANGED vars BY <1>9 DEF vars
<1> QED BY <1>1, <1>2, <1>3, <1>4, <1>5, <1>6, <1>7, <1>8, <1>9, ZenonT(60) DEF Next

\* Every variable keeps its type on every path of the handlers, the writers
\* and tunReadLoop; in particular c.send never exceeds its capacity.
THEOREM TypeCorrect == Spec => []TypeOK
BY TypeInit, TypeStep, PTL DEF Spec
-----------------------------------------------------------------------------
\* The part of the invariant that is about addresses and the registry.
AddressInv ==
  HoldersHaveAddress /\ AddressExclusive /\ AddressAccounting /\ RegistryExact

\* The handlers that the registry must list.
Listed == {"running", "deregister"}

\* A step that moves no handler into or out of the two groups of labels, and
\* changes no address, pool or registry, keeps the address invariant.
LEMMA AddressesUntouched ==
  ASSUME AddressInv,
         UNCHANGED <<ip, assigned, clients>>,
         \A d \in Conns : /\ pc'[d] \in Holding <=> pc[d] \in Holding
                          /\ pc'[d] \in Listed <=> pc[d] \in Listed
  PROVE  AddressInv'
<1>1. Holders' = Holders
  BY DEF Holders
<1>2. HoldersHaveAddress' /\ AddressExclusive' /\ AddressAccounting'
  BY <1>1 DEF AddressInv, HoldersHaveAddress, AddressExclusive, AddressAccounting
<1>3. RegistryExact'
  BY DEF AddressInv, RegistryExact, Listed
<1> QED BY <1>2, <1>3 DEF AddressInv

\* pool.Allocate gives a connection an address that nobody holds.
LEMMA GrantKeepsAddresses ==
  ASSUME TypeOK, AddressInv, NEW c \in Conns, AddressGranted(c)
  PROVE  AddressInv'
<1>1. PICK a \in Uint32 : Allocate(a) /\ ip' = [ip EXCEPT ![c] = a]
  BY ZenonT(30) DEF AddressGranted
<1>2. a \notin assigned /\ assigned' = assigned \cup {a}
  BY <1>1 DEF Allocate, Takes, Free
<1>3. pc[c] = "allocate" /\ pc' = [pc EXCEPT ![c] = "welcome"] /\ clients' = clients
  BY DEF AddressGranted, Goto
<1>4. c \notin Holders /\ Holders' = Holders \cup {c}
  BY <1>3 DEF Holders, Holding, TypeOK
<1>5. \A d \in Holders : ip'[d] = ip[d] /\ ip[d] # a
  BY <1>1, <1>2, <1>4 DEF TypeOK, AddressInv, AddressAccounting, Holders
<1>6. ip'[c] = a
  BY <1>1 DEF TypeOK
<1>7. HoldersHaveAddress' /\ AddressExclusive'
  BY <1>4, <1>5, <1>6 DEF AddressInv, HoldersHaveAddress, AddressExclusive
<1>8. AddressAccounting'
  BY <1>2, <1>4, <1>5, <1>6 DEF AddressInv, AddressAccounting
<1>9. RegistryExact'
  BY <1>1, <1>3 DEF AddressInv, RegistryExact, TypeOK
<1> QED BY <1>7, <1>8, <1>9 DEF AddressInv

\* A handler that gives its address back was its only holder.
LEMMA ReleaseKeepsAddresses ==
  ASSUME TypeOK, AddressInv, NEW c \in Conns, NEW label \in {"reject", "close"},
         pc[c] \in {"welcome", "release"},
         Release(ip[c]), pc' = [pc EXCEPT ![c] = label], UNCHANGED <<ip, clients>>
  PROVE  AddressInv'
<1>1. c \in Holders /\ Holders' = Holders \ {c}
  BY DEF Holders, Holding, TypeOK
<1>2. \A d \in Holders' : ip[d] # ip[c]
  BY <1>1 DEF AddressInv, AddressExclusive
<1>3. assigned' = assigned \ {ip[c]}
  BY DEF Release
<1>4. HoldersHaveAddress' /\ AddressExclusive'
  BY <1>1 DEF AddressInv, HoldersHaveAddress, AddressExclusive
<1>5. AddressAccounting'
  BY <1>1, <1>2, <1>3 DEF AddressInv, AddressAccounting
<1>6. RegistryExact'
  BY DEF AddressInv, RegistryExact, TypeOK
<1> QED BY <1>4, <1>5, <1>6 DEF AddressInv

\* register finds no older client at the address.
LEMMA NothingToEvict == TypeOK /\ AddressInv => NeverEvicts
<1> SUFFICES ASSUME TypeOK, AddressInv, NEW c \in Conns, pc[c] = "register",
                    clients[ip[c]] # NoConn
             PROVE  FALSE
  BY DEF NeverEvicts
<1>1. c \in Holders /\ ip[c] \in Uint32
  BY DEF Holders, Holding, AddressInv, HoldersHaveAddress
<1>2. clients[ip[c]] \in Conns
  BY <1>1 DEF TypeOK
<1> DEFINE d == clients[ip[c]]
<1>3. pc[d] \in {"running", "deregister"} /\ ip[d] = ip[c]
  BY <1>1, <1>2 DEF AddressInv, RegistryExact
<1>4. d \in Holders /\ d # c
  BY <1>2, <1>3 DEF Holders, Holding
<1> QED BY <1>1, <1>3, <1>4 DEF AddressInv, AddressExclusive

\* register lists the new client under its address and nothing else changes.
LEMMA RegisterKeepsAddresses ==
  ASSUME TypeOK, AddressInv, NEW c \in Conns, Register(c)
  PROVE  AddressInv'
<1>1. pc[c] = "register" /\ pc' = [pc EXCEPT ![c] = "running"]
      /\ clients' = [clients EXCEPT ![ip[c]] = c] /\ ip' = ip /\ assigned' = assigned
  BY DEF Register, Goto, poolVars
<1>2. c \in Holders /\ Holders' = Holders
  BY <1>1 DEF Holders, Holding, TypeOK
<1>3. HoldersHaveAddress' /\ AddressExclusive' /\ AddressAccounting'
  BY <1>1, <1>2 DEF AddressInv, HoldersHaveAddress, AddressExclusive, AddressAccounting
<1>4. ip[c] \in Uint32 /\ clients[ip[c]] = NoConn
  BY <1>1, <1>2, NothingToEvict DEF NeverEvicts, AddressInv, HoldersHaveAddress
<1>5. RegistryExact'
  BY <1>1, <1>4, ServerAssumption DEF AddressInv, RegistryExact, TypeOK
<1> QED BY <1>3, <1>5 DEF AddressInv

\* deregister deletes the client's own entry, under its own address.
LEMMA DeregisterKeepsAddresses ==
  ASSUME TypeOK, AddressInv, NEW c \in Conns, Deregister(c)
  PROVE  AddressInv'
<1>1. pc[c] = "deregister" /\ pc' = [pc EXCEPT ![c] = "release"]
      /\ clients' = [clients EXCEPT ![ip[c]] = IF @ = c THEN NoConn ELSE @]
      /\ ip' = ip /\ assigned' = assigned
  BY DEF Deregister, Goto, poolVars
<1>2. c \in Holders /\ Holders' = Holders
  BY <1>1 DEF Holders, Holding, TypeOK
<1>3. HoldersHaveAddress' /\ AddressExclusive' /\ AddressAccounting'
  BY <1>1, <1>2 DEF AddressInv, HoldersHaveAddress, AddressExclusive, AddressAccounting
<1>4. ip[c] \in Uint32 /\ clients[ip[c]] = c
  BY <1>1, <1>2 DEF AddressInv, HoldersHaveAddress, RegistryExact
<1>5. RegistryExact'
  BY <1>1, <1>4, ServerAssumption DEF AddressInv, RegistryExact, TypeOK
<1> QED BY <1>3, <1>5 DEF AddressInv

\* Reusing the identity of a finished connection touches no holder.
LEMMA ForgetKeepsAddresses ==
  ASSUME TypeOK, AddressInv, NEW c \in Conns, Forget(c)
  PROVE  AddressInv'
<1>1. pc[c] = "done" /\ pc' = [pc EXCEPT ![c] = "none"]
      /\ ip' = [ip EXCEPT ![c] = NoAddress] /\ assigned' = assigned /\ clients' = clients
  BY DEF Forget, poolVars
<1>2. c \notin Holders /\ Holders' = Holders
  BY <1>1 DEF Holders, Holding, TypeOK
<1>3. \A d \in Holders : ip'[d] = ip[d]
  BY <1>1, <1>2 DEF TypeOK, Holders
<1>4. HoldersHaveAddress' /\ AddressExclusive'
  BY <1>2, <1>3 DEF AddressInv, HoldersHaveAddress, AddressExclusive
<1>5. AddressAccounting'
  BY <1>1, <1>2, <1>3 DEF AddressInv, AddressAccounting
<1>6. RegistryExact'
  BY <1>1 DEF AddressInv, RegistryExact, TypeOK
<1> QED BY <1>4, <1>5, <1>6 DEF AddressInv

\* Every step of the server keeps the address invariant.
LEMMA AddressStep == TypeOK /\ AddressInv /\ [Next]_vars => AddressInv'
<1> SUFFICES ASSUME TypeOK, AddressInv, [Next]_vars PROVE AddressInv'
  OBVIOUS
<1> USE DEF poolVars, connVars, tunVars
<1>1. ASSUME NEW c \in Conns, Handshake(c) PROVE AddressInv'
  <2>1. CASE Accept(c) \/ HelloAccepted(c) \/ HelloRejected(c) \/ AddressRefused(c)
            \/ WelcomeSent(c) \/ Reject(c)
    BY <2>1, AddressesUntouched DEF Accept, HelloAccepted, HelloRejected, AddressRefused,
       AllocateFails, WelcomeSent, Reject, Goto, Holding, Listed, TypeOK
  <2>2. CASE AddressGranted(c) BY <2>2, GrantKeepsAddresses
  <2>3. CASE WelcomeFails(c) BY <2>3, ReleaseKeepsAddresses, ZenonT(30) DEF WelcomeFails, Goto
  <2>4. CASE Register(c) BY <2>4, RegisterKeepsAddresses
  <2> QED BY <1>1, <2>1, <2>2, <2>3, <2>4, SMTT(30) DEF Handshake
<1>2. ASSUME NEW c \in Conns, ReadLoop(c) PROVE AddressInv'
  BY <1>2, AddressesUntouched DEF ReadLoop, ReadPacket, ReadPing, ReadFails, FrameRejected,
     Goto, Holding, Listed, TypeOK
<1>3. ASSUME NEW c \in Conns, Deregistration(c) PROVE AddressInv'
  <2>1. CASE Deregister(c) BY <2>1, DeregisterKeepsAddresses
  <2>2. CASE ReleaseAddress(c) BY <2>2, ReleaseKeepsAddresses, ZenonT(30) DEF ReleaseAddress, Goto
  <2>3. CASE CloseClient(c)
    BY <2>3, AddressesUntouched, ZenonT(60) DEF CloseClient, Goto, Holding, Listed, TypeOK
  <2> QED BY <1>3, <2>1, <2>2, <2>3 DEF Deregistration
<1>4. ASSUME NEW c \in Conns, WriteLoop(c) \/ Break(c) PROVE AddressInv'
  BY <1>4, AddressesUntouched DEF WriteLoop, WriterStops, WriterTakes, WriterPings,
     WriteSucceeds, WriteFails, PongFails, Break
<1>5. ASSUME NEW c \in Conns, Forget(c) PROVE AddressInv'
  BY <1>5, ForgetKeepsAddresses
<1>6. CASE TunReadLoop \/ TunTaken
  BY <1>6, AddressesUntouched DEF TunReadLoop, TunRead, TunReadFails, TunLookup, TunSend, TunTaken
<1>7. CASE UNCHANGED vars
  BY <1>7, AddressesUntouched DEF vars
<1> QED BY <1>1, <1>2, <1>3, <1>4, <1>5, <1>6, <1>7 DEF Next

\* The inductive invariant holds in every reachable state: it holds at the
\* start and every step keeps it.
THEOREM InvariantHolds == Spec => []ServerInv
<1>1. Init => AddressInv
  <2> SUFFICES ASSUME Init PROVE AddressInv
    OBVIOUS
  <2>1. Holders = {} /\ assigned = {}
    BY DEF Init, PoolInit, Holders, Holding
  <2>2. RegistryExact
    BY ServerAssumption DEF Init, RegistryExact
  <2> QED BY <2>1, <2>2 DEF AddressInv, HoldersHaveAddress, AddressExclusive, AddressAccounting
<1>2. TypeOK /\ AddressInv => ServerInv
  BY DEF AddressInv, ServerInv
<1> QED BY <1>1, <1>2, AddressStep, TypeInit, TypeStep, PTL DEF Spec

\* No two connections ever hold one tunnel address, whatever the number of
\* connections and the interleaving of their handlers.
THEOREM AddressesAreExclusive == Spec => []AddressExclusive
BY InvariantHolds, PTL DEF ServerInv

\* The pool's map lists exactly the addresses whose handlers still owe their
\* Release: nothing leaks and nothing is freed early.
THEOREM AddressesAreAccounted == Spec => []AddressAccounting
BY InvariantHolds, PTL DEF ServerInv

\* The server calls the pool only as the pool expects: what a handler releases,
\* on an error path or at its end, is assigned to it.
LEMMA ServerCallsPool == ServerInv /\ [Next]_vars => [PoolNext]_poolVars
<1> SUFFICES ASSUME ServerInv, [Next]_vars PROVE PoolNext \/ UNCHANGED poolVars
  OBVIOUS
<1>1. ASSUME NEW c \in Conns, pc[c] \in Holding, Release(ip[c]) PROVE PoolNext
  <2>1. ip[c] \in assigned
    BY <1>1 DEF ServerInv, AddressAccounting, Holders
  <2> QED BY <1>1, <2>1 DEF PoolNext
<1>2. ASSUME NEW c \in Conns, Handshake(c) PROVE PoolNext \/ UNCHANGED poolVars
  <2>1. CASE WelcomeFails(c)
    BY <1>1, <2>1 DEF WelcomeFails, Holding
  <2>2. CASE AddressGranted(c) \/ AddressRefused(c)
    BY <2>2 DEF AddressGranted, AddressRefused, PoolNext
  <2> QED BY <1>2, <2>1, <2>2 DEF Handshake, Accept, HelloAccepted, HelloRejected, WelcomeSent,
        Reject, Register
<1>3. ASSUME NEW c \in Conns, Deregistration(c) PROVE PoolNext \/ UNCHANGED poolVars
  <2>1. CASE ReleaseAddress(c)
    BY <1>1, <2>1 DEF ReleaseAddress, Holding
  <2> QED BY <1>3, <2>1 DEF Deregistration, Deregister, CloseClient
<1>4. ASSUME NEW c \in Conns, ReadLoop(c) PROVE UNCHANGED poolVars
  BY <1>4 DEF ReadLoop, ReadPacket, ReadPing, ReadFails, FrameRejected
<1>5. ASSUME NEW c \in Conns, WriteLoop(c) PROVE UNCHANGED poolVars
  BY <1>5 DEF WriteLoop, WriterStops, WriterTakes, WriterPings, WriteSucceeds, WriteFails,
     PongFails
<1>6. ASSUME NEW c \in Conns, Break(c) \/ Forget(c) PROVE UNCHANGED poolVars
  BY <1>6 DEF Break, Forget
<1>7. CASE TunReadLoop \/ TunTaken
  BY <1>7 DEF TunReadLoop, TunRead, TunReadFails, TunLookup, TunSend, TunTaken
<1>8. CASE UNCHANGED vars
  BY <1>8 DEF vars
<1> QED BY <1>2, <1>3, <1>4, <1>5, <1>6, <1>7, <1>8 DEF Next

\* The handlers of all connections together use the pool as one caller would.
THEOREM ServerUsesPool == Spec => PoolSpec
<1>1. Init => PoolInit
  BY DEF Init
<1> QED BY <1>1, ServerCallsPool, InvariantHolds, PTL DEF Spec, PoolSpec

\* So the server, too, implements the abstract address pool: whatever its
\* connections do, an address is granted only while nobody has it, and a client
\* is turned away only when all are in use.
THEOREM ServerImplementsAddressPool == Spec => AbstractSpec
<1>1. Routable
  BY ServerAssumption
<1> QED BY <1>1, ServerUsesPool, PoolRefinesAddressPool, PTL

\* Every client between its welcome and its release has a host address of the
\* CIDR, and not the gateway's.
THEOREM ClientsHaveUsableAddresses == Spec => [](\A c \in Holders : ip[c] \in Usable)
<1>1. Routable
  BY ServerAssumption
<1>2. ServerInv /\ OnlyUsable => \A c \in Holders : ip[c] \in Usable
  BY DEF ServerInv, AddressAccounting, OnlyUsable
<1> QED BY <1>1, <1>2, ServerUsesPool, OnlyUsableHandedOut, InvariantHolds, PTL

\* The registry lists exactly the clients between register and the delete in
\* deregister, each under the address its handler holds.
THEOREM RegistryIsExact == Spec => []RegistryExact
BY InvariantHolds, PTL DEF ServerInv

\* The branch of register that closes an older client is never taken.
THEOREM RegisterNeverEvicts == Spec => []NeverEvicts
<1>1. ServerInv => NeverEvicts
  BY NothingToEvict DEF ServerInv, AddressInv
<1> QED BY <1>1, InvariantHolds, PTL

\* A packet enters the TUN only from the connection registered for its source
\* address: readLoop's comparison plus the exactness of the registry.
THEOREM UplinkComesFromHolder == Spec => UplinkFromHolder
<1>1. ServerInv /\ [Next]_vars =>
        [tunOut' \notin {tunOut, NoPacket} => clients[tunOut'.src] = tunOut'.from]_vars
  <2> SUFFICES ASSUME ServerInv, Next, tunOut' \notin {tunOut, NoPacket}
               PROVE  clients[tunOut'.src] = tunOut'.from
    OBVIOUS
  <2>1. PICK c \in Conns : ReadPacket(c)
    BY ZenonT(30) DEF Next, Handshake, Accept, HelloAccepted, HelloRejected, AddressGranted,
       AddressRefused, WelcomeSent, WelcomeFails, Reject, Register, ReadLoop, ReadPing,
       ReadFails, FrameRejected, Deregistration, Deregister, ReleaseAddress, CloseClient,
       WriteLoop, WriterStops, WriterTakes, WriterPings, WriteSucceeds, WriteFails,
       PongFails, Break, Forget, TunReadLoop, TunRead, TunReadFails, TunLookup, TunSend, TunTaken,
       tunVars
  <2> QED BY <2>1 DEF ReadPacket, ServerInv, RegistryExact
<1> QED BY <1>1, InvariantHolds, PTL DEF Spec, UplinkFromHolder
-----------------------------------------------------------------------------
\* A connection that has no address yet: nothing can be on its way to it.
Early(c) == pc[c] \in {"none", "hello", "allocate"}

\* What FramesForOwnAddress needs to be inductive: tunReadLoop keeps a client
\* only between its lookup and its send, and a connection without an address
\* is neither that client nor has anything queued.
FrameInv ==
  /\ FramesForOwnAddress
  /\ tunPc # "send" => tunClient = NoConn
  /\ \A c \in Conns : Early(c) => queue[c] = <<>> /\ tunClient # c

\* What a queue holds after a frame was put in, or one taken out.
LEMMA QueueElements ==
  ASSUME NEW S, NEW T, NEW s \in Seq(S), \A i \in 1 .. Len(s) : s[i] \in T
  PROVE  /\ \A e \in S \cap T : \A i \in 1 .. Len(Append(s, e)) : Append(s, e)[i] \in T
         /\ s # <<>> => \A i \in 1 .. Len(Tail(s)) : Tail(s)[i] \in T
OBVIOUS

\* A step that leaves addresses, queues and tunReadLoop alone and brings no
\* handler back to its beginning keeps the frames' invariant.
LEMMA FramesUntouched ==
  ASSUME FrameInv, UNCHANGED <<ip, queue, tunPc, tunDst, tunClient>>,
         \A d \in Conns : Early(d)' => Early(d)
  PROVE  FrameInv'
BY DEF FrameInv, FramesForOwnAddress

\* Allocate gives an address to a connection for which nothing is on its way.
LEMMA GrantKeepsFrames ==
  ASSUME TypeOK, FrameInv, NEW c \in Conns, AddressGranted(c)
  PROVE  FrameInv'
<1>1. PICK a \in Uint32 : ip' = [ip EXCEPT ![c] = a]
  BY ZenonT(30) DEF AddressGranted
<1>2. /\ pc[c] = "allocate" /\ pc' = [pc EXCEPT ![c] = "welcome"]
      /\ UNCHANGED <<queue, tunPc, tunDst, tunClient>>
  BY DEF AddressGranted, Goto, tunVars
<1>3. queue[c] = <<>> /\ tunClient # c
  BY <1>2 DEF FrameInv, Early
<1>4. \A d \in Conns : d # c => ip'[d] = ip[d] /\ pc'[d] = pc[d]
  BY <1>1, <1>2 DEF TypeOK
<1>5. pc'[c] = "welcome"
  BY <1>2, ZenonT(60) DEF TypeOK
<1>6. FramesForOwnAddress'
  <2>1. tunPc' = "send" => ip'[tunClient'] = tunDst'
    BY <1>2, <1>3, <1>4, ZenonT(60) DEF FrameInv, FramesForOwnAddress, TypeOK
  <2>2. ASSUME NEW d \in Conns, NEW i \in 1 .. Len(queue[d])
        PROVE  queue[d][i] \in {ip'[d], Pong}
    <3>1. d # c
      BY <1>3, <2>2, SMTT(30)
    <3> QED BY <1>4, <2>2, <3>1 DEF FrameInv, FramesForOwnAddress
  <2> QED BY <1>2, <2>1, <2>2 DEF FramesForOwnAddress
<1> QED BY <1>2, <1>4, <1>5, <1>6 DEF FrameInv, Early

\* A queue changes by a pong or by the writer's taking its first frame.
LEMMA QueueKeepsFrames ==
  ASSUME TypeOK, FrameInv, NEW c \in Conns, ReadPing(c) \/ WriterTakes(c)
  PROVE  FrameInv'
<1>1. /\ UNCHANGED <<pc, ip, tunPc, tunDst, tunClient>>
      /\ queue[c] \in Seq(Uint32 \cup {Pong})
      /\ \A i \in 1 .. Len(queue[c]) : queue[c][i] \in {ip[c], Pong}
  BY ZenonT(60) DEF ReadPing, WriterTakes, tunVars, TypeOK, FrameInv, FramesForOwnAddress
<1>2. PICK q : /\ queue' = [queue EXCEPT ![c] = q]
               /\ \A i \in 1 .. Len(q) : q[i] \in {ip[c], Pong}
               /\ ~Early(c)
  <2>1. CASE ReadPing(c)
    <3>1. \A i \in 1 .. Len(Append(queue[c], Pong)) : Append(queue[c], Pong)[i] \in {ip[c], Pong}
      BY <1>1, QueueElements
    <3>2. queue' = [queue EXCEPT ![c] = Append(queue[c], Pong)] /\ ~Early(c)
      BY <2>1 DEF ReadPing, Early
    <3> QED BY <3>1, <3>2
  <2>2. CASE WriterTakes(c)
    <3>1. queue[c] # <<>> /\ queue' = [queue EXCEPT ![c] = Tail(queue[c])]
      BY <2>2 DEF WriterTakes
    <3>2. \A i \in 1 .. Len(Tail(queue[c])) : Tail(queue[c])[i] \in {ip[c], Pong}
      BY <1>1, <3>1, QueueElements
    <3>3. ~Early(c)
      BY <3>1 DEF FrameInv
    <3> QED BY <3>1, <3>2, <3>3
  <2> QED BY <2>1, <2>2, ZenonT(60)
<1>3. queue'[c] = q /\ \A d \in Conns : d # c => queue'[d] = queue[d]
  BY <1>2 DEF TypeOK
<1>4. FramesForOwnAddress'
  BY <1>1, <1>2, <1>3 DEF FrameInv, FramesForOwnAddress
<1> QED BY <1>1, <1>2, <1>3, <1>4 DEF FrameInv, Early

\* tunReadLoop looks up the owner of the destination, and sends to it.
LEMMA TunKeepsFrames ==
  ASSUME TypeOK, RegistryExact, FrameInv, TunReadLoop
  PROVE  FrameInv'
<1> USE DEF connVars
<1>1. CASE TunRead
  BY <1>1 DEF TunRead, FrameInv, FramesForOwnAddress, Early
<1>1a. CASE TunReadFails
  BY <1>1a DEF TunReadFails, FrameInv, FramesForOwnAddress, Early
<1>2. CASE TunLookup
  <2>1. /\ tunDst \in Uint32 /\ clients[tunDst] \in Conns \cup {NoConn}
        /\ tunClient' = clients[tunDst]
        /\ UNCHANGED <<pc, ip, queue>>
    BY <1>2, ZenonT(60) DEF TunLookup, TypeOK
  <2>2. CASE clients[tunDst] = NoConn
    BY <1>2, <2>1, <2>2, ServerAssumption, ZenonT(60)
       DEF TunLookup, FrameInv, FramesForOwnAddress, Early
  <2>3. CASE clients[tunDst] \in Conns
    <3>1. /\ pc[tunClient'] \in Listed /\ ip[tunClient'] = tunDst
          /\ tunPc' = "send" /\ tunDst' = tunDst
      BY <1>2, <2>1, <2>3, ServerAssumption DEF RegistryExact, Listed, TunLookup
    <3> QED BY <2>1, <3>1 DEF FrameInv, FramesForOwnAddress, Early, Listed
  <2> QED BY <2>1, <2>2, <2>3
<1>3. CASE TunSend
  <2> DEFINE c == tunClient
  <2>1. /\ c \in Conns /\ ip[c] = tunDst /\ tunDst \in Uint32
        /\ queue[c] \in Seq(Uint32 \cup {Pong})
        /\ tunPc' = "read" /\ tunClient' = NoConn /\ UNCHANGED <<pc, ip>>
        /\ ~Early(c)
    BY <1>3 DEF TunSend, TypeOK, FrameInv, FramesForOwnAddress
  <2>2. \A i \in 1 .. Len(queue[c]) : queue[c][i] \in {ip[c], Pong}
    BY <2>1 DEF FrameInv, FramesForOwnAddress
  <2>3. \A i \in 1 .. Len(Append(queue[c], tunDst)) :
          Append(queue[c], tunDst)[i] \in {ip[c], Pong}
    BY <2>1, <2>2, QueueElements
  <2>4. /\ \A d \in Conns : d # c => queue'[d] = queue[d]
        /\ queue'[c] \in {queue[c], Append(queue[c], tunDst)}
    BY <1>3, <2>1 DEF TunSend, TypeOK
  <2>5. FramesForOwnAddress'
    BY <2>1, <2>2, <2>3, <2>4 DEF FrameInv, FramesForOwnAddress
  <2> QED BY <2>1, <2>4, <2>5, ServerAssumption DEF FrameInv, Early
<1> QED BY <1>1, <1>1a, <1>2, <1>3 DEF TunReadLoop

\* Every step of the server keeps the frames' invariant.
LEMMA FrameStep == ServerInv /\ FrameInv /\ [Next]_vars => FrameInv'
<1> SUFFICES ASSUME ServerInv, FrameInv, [Next]_vars PROVE FrameInv'
  OBVIOUS
<1>0. TypeOK /\ RegistryExact
  BY DEF ServerInv
<1> USE DEF connVars, tunVars
<1>1. ASSUME NEW c \in Conns, Handshake(c) PROVE FrameInv'
  <2>1. CASE Accept(c) \/ HelloAccepted(c) \/ HelloRejected(c) \/ AddressRefused(c)
            \/ WelcomeSent(c) \/ WelcomeFails(c) \/ Reject(c) \/ Register(c)
    BY <1>0, <2>1, FramesUntouched DEF Accept, HelloAccepted, HelloRejected,
       AddressRefused, WelcomeSent, WelcomeFails, Reject, Register, Goto, Early, TypeOK
  <2>2. CASE AddressGranted(c) BY <1>0, <2>2, GrantKeepsFrames
  <2> QED BY <1>1, <2>1, <2>2 DEF Handshake
<1>2. ASSUME NEW c \in Conns, ReadLoop(c) PROVE FrameInv'
  <2>1. CASE ReadPacket(c) \/ ReadFails(c) \/ FrameRejected(c)
    BY <1>0, <2>1, FramesUntouched DEF ReadPacket, ReadFails, FrameRejected, Goto, Early, TypeOK
  <2> QED BY <1>0, <1>2, <2>1, QueueKeepsFrames DEF ReadLoop
<1>3. ASSUME NEW c \in Conns, Deregistration(c) PROVE FrameInv'
  BY <1>0, <1>3, FramesUntouched DEF Deregistration, Deregister, ReleaseAddress, CloseClient,
     Goto, Early, TypeOK
<1>4. ASSUME NEW c \in Conns, WriteLoop(c) \/ Break(c) PROVE FrameInv'
  <2>1. CASE WriterTakes(c) BY <1>0, <2>1, QueueKeepsFrames, ZenonT(60)
  <2>2. CASE ~WriterTakes(c)
    BY <1>4, <2>2, FramesUntouched, ZenonT(60) DEF WriteLoop, WriterStops, WriterPings, WriteSucceeds,
       WriteFails, PongFails, Break, Early
  <2> QED BY <2>1, <2>2
<1>5. ASSUME NEW c \in Conns, Forget(c) PROVE FrameInv'
  <2>1. /\ tunClient # c /\ queue'[c] = <<>>
        /\ \A d \in Conns : d # c => queue'[d] = queue[d] /\ ip'[d] = ip[d] /\ pc'[d] = pc[d]
        /\ UNCHANGED <<tunPc, tunDst, tunClient>>
    BY <1>0, <1>5 DEF Forget, TypeOK
  <2>2. FramesForOwnAddress'
    <3>1. tunPc' = "send" => ip'[tunClient'] = tunDst'
      BY <1>0, <2>1, ZenonT(60) DEF FrameInv, FramesForOwnAddress, TypeOK
    <3>2. ASSUME NEW d \in Conns, NEW i \in 1 .. Len(queue'[d])
          PROVE  queue'[d][i] \in {ip'[d], Pong}
      <4>1. d # c
        BY <2>1, <3>2
      <4> QED BY <2>1, <3>2, <4>1 DEF FrameInv, FramesForOwnAddress
    <3> QED BY <3>1, <3>2, ZenonT(60) DEF FramesForOwnAddress
  <2> QED BY <2>1, <2>2 DEF FrameInv, Early
<1>6. CASE TunReadLoop BY <1>0, <1>6, TunKeepsFrames
<1>7. CASE TunTaken \/ UNCHANGED vars
  BY <1>7, FramesUntouched DEF TunTaken, vars, Early
<1> QED BY <1>1, <1>2, <1>3, <1>4, <1>5, <1>6, <1>7 DEF Next

\* For any number of connections and any queue capacity, a packet from the TUN
\* is queued only for the connection that owned its destination address, also
\* when that client leaves between tunReadLoop's lookup and its send.
THEOREM FramesReachTheirOwner == Spec => []FramesForOwnAddress
<1>1. Init => FrameInv
  BY ServerAssumption DEF Init, FrameInv, FramesForOwnAddress
<1>2. FrameInv => FramesForOwnAddress
  BY DEF FrameInv
<1> QED BY <1>1, <1>2, FrameStep, InvariantHolds, PTL DEF Spec
-----------------------------------------------------------------------------
(* How a connection ends *)

\* The two goroutines of a connection: none of them goes away without closing it,
\* so that the other one's read or select returns too.
NeitherOutlives == \A c \in Conns : writer[c] = "done" \/ pc[c] = "done" => closed[c]

\* Besides, what is not accepted yet is whole.
EndInv ==
  /\ NeitherOutlives
  /\ \A c \in Conns : pc[c] = "none" => Open(c) /\ writer[c] = "off"

\* How far a handler is from its end; the handshake and readLoop end in either way.
PathLeft(l) ==
  CASE l = "hello" -> 10 [] l = "allocate" -> 9 [] l = "welcome" -> 8 [] l = "register" -> 7
    [] l = "running" -> 6 [] l = "deregister" -> 5 [] l = "release" -> 4 [] l = "close" -> 3
    [] l = "reject" -> 2 [] l = "done" -> 1 [] OTHER -> 0

\* What a step does to a connection that was lost or closed: it is forgotten when
\* its handler is done; until then it stays so, and the handler moves on or waits.
EndStep(c) ==
  ~Open(c) => \/ pc[c] = "done" /\ pc'[c] = "none"
              \/ ~Open(c)' /\ (pc'[c] = pc[c] \/ PathLeft(pc'[c]) < PathLeft(pc[c]))

\* Behind LostConnectionFreesAddress and WriterEndEndsSession: the handler of a
\* connection that was lost or closed goes only towards deregister, Release and its
\* end, whatever the other connections and tunReadLoop do.
LostOnlyEnds == [][\A c \in Conns : EndStep(c)]_vars

\* Every step of the server is of that kind for every connection.
LEMMA EndingStep ==
  ASSUME ServerInv, EndInv, [Next]_vars
  PROVE  EndInv' /\ \A d \in Conns : EndStep(d)
<1> DEFINE Goal == EndInv' /\ \A d \in Conns : EndStep(d)
<1>0. /\ pc \in [Conns -> HandlerPc] /\ alive \in [Conns -> BOOLEAN]
      /\ closed \in [Conns -> BOOLEAN] /\ writer \in [Conns -> WriterPc]
  BY DEF ServerInv, TypeOK
<1>1. ASSUME UNCHANGED <<pc, alive, closed, writer>> PROVE Goal
  <2>1. EndInv'
    BY <1>1 DEF EndInv, NeitherOutlives, Open
  <2>2. \A d \in Conns : EndStep(d)
    BY <1>1 DEF EndStep, Open
  <2> QED BY <2>1, <2>2
<1> USE <1>0 DEF EndInv, NeitherOutlives, EndStep, Open, Goto, PathLeft, Holding, HandlerPc, WriterPc
<1>2. ASSUME NEW c \in Conns, Handshake(c) PROVE Goal
  <2>1. CASE Accept(c)  BY <2>1 DEF Accept
  <2>2. CASE HelloAccepted(c)  BY <2>2 DEF HelloAccepted
  <2>3. CASE HelloRejected(c)  BY <2>3 DEF HelloRejected
  <2>4. CASE AddressGranted(c)  BY <2>4 DEF AddressGranted
  <2>5. CASE AddressRefused(c)  BY <2>5 DEF AddressRefused
  <2>6. CASE WelcomeSent(c)  BY <2>6 DEF WelcomeSent
  <2>7. CASE WelcomeFails(c)  BY <2>7 DEF WelcomeFails
  <2>8. CASE Reject(c)  BY <2>8 DEF Reject
  <2>9. CASE Register(c)
    <3>1. clients[ip[c]] \notin Conns
      BY <2>9, NothingToEvict, ServerAssumption DEF ServerInv, AddressInv, NeverEvicts, Register
    <3>2. closed' = closed
      BY <2>9, <3>1 DEF Register
    <3> QED BY <2>9, <3>2 DEF Register
  <2> QED
    BY <1>2, <2>1, <2>2, <2>3, <2>4, <2>5, <2>6, <2>7, <2>8, <2>9 DEF Handshake
<1>3. ASSUME NEW c \in Conns, ReadLoop(c) PROVE Goal
  <2>1. CASE ReadPacket(c) \/ ReadPing(c)  BY <1>1, <2>1 DEF ReadPacket, ReadPing, connVars
  <2>2. CASE ReadFails(c) \/ FrameRejected(c)  BY <2>2 DEF ReadFails, FrameRejected
  <2> QED BY <1>3, <2>1, <2>2 DEF ReadLoop
<1>4. ASSUME NEW c \in Conns, Deregistration(c) PROVE Goal
  <2>1. CASE Deregister(c)  BY <2>1 DEF Deregister
  <2>2. CASE ReleaseAddress(c)  BY <2>2 DEF ReleaseAddress
  <2>3. CASE CloseClient(c)  BY <2>3 DEF CloseClient
  <2> QED BY <1>4, <2>1, <2>2, <2>3 DEF Deregistration
<1>5. ASSUME NEW c \in Conns, WriteLoop(c) PROVE Goal
  <2>1. CASE WriterStops(c)  BY <2>1 DEF WriterStops
  <2>2. CASE WriterTakes(c)  BY <2>2 DEF WriterTakes
  <2>3. CASE WriterPings(c)  BY <2>3 DEF WriterPings
  <2>4. CASE WriteSucceeds(c)  BY <2>4 DEF WriteSucceeds
  <2>5. CASE WriteFails(c)  BY <2>5 DEF WriteFails
  <2>6. CASE PongFails(c)  BY <2>6 DEF PongFails
  <2> QED BY <1>5, <2>1, <2>2, <2>3, <2>4, <2>5, <2>6 DEF WriteLoop
<1>6. ASSUME NEW c \in Conns, Break(c) \/ Forget(c) PROVE Goal
  <2>1. CASE Break(c)  BY <2>1 DEF Break
  <2>2. CASE Forget(c)  BY <2>2 DEF Forget
  <2> QED BY <1>6, <2>1, <2>2
<1>7. CASE TunReadLoop \/ TunTaken \/ UNCHANGED vars
  BY <1>1, <1>7 DEF TunReadLoop, TunRead, TunReadFails, TunLookup, TunSend, TunTaken, connVars, vars
<1> QED
  BY <1>2, <1>3, <1>4, <1>5, <1>6, <1>7 DEF Next

\* Initially nothing has ended.
LEMMA EndInit == Init => EndInv
BY DEF Init, EndInv, NeitherOutlives, Open

\* For any number of connections, neither the handler nor the writer of a
\* connection leaves it open behind for the other one to wait on.
THEOREM GoroutinesEndTogether == Spec => []NeitherOutlives
<1>1. EndInv => NeitherOutlives
  BY DEF EndInv
<1> QED BY <1>1, EndInit, EndingStep, InvariantHolds, PTL DEF Spec

\* For any number of connections, the handler of one that was lost or closed runs
\* down in at most ten steps of its own and is never set back.
THEOREM LostConnectionsOnlyEnd == Spec => LostOnlyEnds
<1>1. ServerInv /\ EndInv /\ [Next]_vars => [\A c \in Conns : EndStep(c)]_vars
  BY EndingStep
<1> QED BY <1>1, EndInit, EndingStep, InvariantHolds, PTL DEF Spec, LostOnlyEnds
=============================================================================
