---------------------------- MODULE SessionProofs ----------------------------
(***************************************************************************)
(* Proofs about Session for every number of writers, frames and faults,    *)
(* every queue capacity and every base of the length prefix.               *)
(***************************************************************************)
EXTENDS Session, TLAPS

\* What Append returns.
LEMMA AppendFacts ==
  ASSUME NEW S, NEW s \in Seq(S), NEW x \in S
  PROVE  /\ Append(s, x) \in Seq(S)
         /\ Len(s) \in Nat
         /\ Len(Append(s, x)) = Len(s) + 1
         /\ \A i \in 1 .. Len(s) : Append(s, x)[i] = s[i]
         /\ Append(s, x)[Len(s) + 1] = x
OBVIOUS

\* An element of a sequence is of the sequence's type.
LEMMA ElementOf ==
  ASSUME NEW S, NEW s \in Seq(S), NEW i \in 1 .. Len(s)
  PROVE  s[i] \in S
OBVIOUS

\* What Head and Tail return on a sequence that is not empty.
LEMMA TailFacts ==
  ASSUME NEW S, NEW s \in Seq(S), s # <<>>
  PROVE  /\ Len(s) \in Nat /\ Len(s) > 0
         /\ Head(s) = s[1] /\ Head(s) \in S
         /\ Tail(s) \in Seq(S)
         /\ Len(Tail(s)) = Len(s) - 1
         /\ \A i \in 1 .. Len(Tail(s)) : Tail(s)[i] = s[i + 1]
OBVIOUS

\* The two bytes of the length prefix are numbers, and Open reads back the
\* length that sealRaw wrote.
LEMMA PrefixRoundTrip ==
  ASSUME NEW n \in Lengths
  PROVE  /\ n \in Nat
         /\ LengthPrefix(n) \in Nat \X Nat
         /\ RealLen(LengthPrefix(n)) = n
<1>1. n \in Nat /\ Byte \in Nat /\ Byte > 0 /\ n < Byte * Byte
  BY SessionAssumption
<1> DEFINE q == n \div Byte
           r == n % Byte
<1>2. q \in Int /\ r \in Int /\ 0 <= r /\ r < Byte /\ n = Byte * q + r
  BY <1>1
<1>3. 0 <= q /\ q < Byte
  <2> HIDE DEF q, r
  <2>1. ASSUME q >= Byte PROVE FALSE
    <3>1. Byte * q >= Byte * Byte
      BY <1>1, <1>2, <2>1
    <3> QED
      BY <1>1, <1>2, <3>1
  <2>2. ASSUME q <= -1 PROVE FALSE
    <3>1. Byte * q <= -Byte
      BY <1>1, <1>2, <2>2
    <3> QED
      BY <1>1, <1>2, <3>1
  <2> QED
    BY <1>1, <1>2, <2>1, <2>2
<1>4. q % Byte = q
  <2> HIDE DEF q, r
  <2> QED
    BY <1>1, <1>2, <1>3
<1>5. LengthPrefix(n) = <<q, r>>
  BY <1>4 DEF LengthPrefix
<1> QED
  <2> HIDE DEF q, r
  <2>1. RealLen(<<q, r>>) = q * Byte + r
    BY DEF RealLen
  <2>2. q * Byte = Byte * q
    BY <1>1, <1>2
  <2> QED
    BY <1>1, <1>2, <1>3, <1>5, <2>1, <2>2

-----------------------------------------------------------------------------
(* Types *)

\* Threads belong to ends, and the peer of an end is the other end.
LEMMA EndsAndThreads ==
  /\ \A e \in Ends : /\ Peer(e) \in Ends /\ Peer(e) # e /\ Peer(Peer(e)) = e
                     /\ RecvKey(e) = SendKey(Peer(e))
                     /\ SendKey(e) \in {"c2s", "s2c"}
  /\ \A e, d \in Ends : SendKey(e) = SendKey(d) => e = d
  /\ \A t \in Threads : EndOf(t) \in Ends
  /\ \A t \in Writers : t \in Threads /\ t # TunReader /\ EndOf(t) = "client"
  /\ TunReader \in Threads /\ EndOf(TunReader) = "server"
BY SessionAssumption DEF Ends, Peer, SendKey, RecvKey, Threads, EndOf

\* A frame that sealRaw builds is a frame.
LEMMA SealedFrame ==
  ASSUME NEW e \in Ends, NEW c \in Nat, NEW n \in Lengths, NEW p \in Pads
  PROVE  [key |-> SendKey(e), ctr |-> c, intact |-> TRUE,
          prefix |-> LengthPrefix(n), size |-> 2 + n + p] \in Frames
<1>1. p \in Nat
  BY SessionAssumption
<1>2. SendKey(e) \in {"c2s", "s2c"}
  BY EndsAndThreads
<1>3. n \in Nat /\ LengthPrefix(n) \in Nat \X Nat
  BY PrefixRoundTrip
<1> QED
  BY <1>1, <1>2, <1>3 DEF Frames

\* The length that Open reads from a frame is a number.
LEMMA FrameLength ==
  ASSUME NEW f \in Frames
  PROVE  RealLen(f.prefix) \in Nat
<1>1. f.prefix[1] \in Nat /\ f.prefix[2] \in Nat
  BY DEF Frames
<1>2. \A a, b \in Nat : a * b \in Nat
  OBVIOUS
<1>3. f.prefix[1] * Byte \in Nat
  BY <1>1, <1>2, SessionAssumption
<1> QED
  BY <1>1, <1>3 DEF RealLen

\* A damaged frame is a frame that does not verify.
LEMMA DamagedFrame ==
  ASSUME NEW f \in Frames, NEW c \in 0 .. MaxFrames
  PROVE  Damaged(f, c) \in Frames /\ ~Damaged(f, c).intact
<1>1. c \in Nat
  BY SessionAssumption
<1>2. /\ f.key \in {"c2s", "s2c"} /\ f.prefix \in Nat \X Nat
      /\ f.size \in Nat
  BY DEF Frames
<1> QED
  BY <1>1, <1>2 DEF Frames, Damaged

\* A session starts well typed.
LEMMA TypeInit == Init => TypeOK
BY SessionAssumption DEF Init, TypeOK

\* Every step keeps the types, and the send queue within its capacity.
LEMMA TypeStep == TypeOK /\ [Next]_vars => TypeOK'
<1> SUFFICES ASSUME TypeOK, [Next]_vars PROVE TypeOK'
  OBVIOUS
<1>1. ASSUME NEW t \in Threads, NEW n \in Lengths, NEW p \in Pads, Seal(t, n, p)
      PROVE  TypeOK'
  <2> DEFINE e == EndOf(t)
             f == [key |-> SendKey(e), ctr |-> sendCtr[e], intact |-> TRUE,
                   prefix |-> LengthPrefix(n), size |-> 2 + n + p]
  <2>1. e \in Ends /\ sendCtr[e] \in Nat /\ SendKey(e) \in {"c2s", "s2c"}
    BY EndsAndThreads, ZenonT(30) DEF TypeOK
  <2>2. f \in Frames
    BY <2>1, SealedFrame
  <2>3. Append(sealed[e], n) \in Seq(Nat)
    BY <2>1, PrefixRoundTrip, AppendFacts DEF TypeOK
  <2>4. /\ sendCtr' = [sendCtr EXCEPT ![e] = sendCtr[e] + 1]
        /\ held' = [held EXCEPT ![t] = f]
        /\ sealed' = [sealed EXCEPT ![e] = Append(sealed[e], n)]
        /\ used' = used \cup {<<SendKey(e), sendCtr[e]>>}
        /\ UNCHANGED <<recvMax, recvSeen, queue, wire, fate, got, faults>>
    BY <1>1 DEF Seal
  <2> HIDE DEF e, f
  <2> QED
    BY <2>1, <2>2, <2>3, <2>4, SMTT(30) DEF TypeOK
<1>2. ASSUME NEW t \in Writers, WritePacket(t) PROVE TypeOK'
  <2>1. t \in Threads /\ held[t] \in Frames
    BY <1>2, EndsAndThreads DEF WritePacket, TypeOK
  <2>2. Append(wire["client"], held[t]) \in Seq(Frames)
    BY <2>1, AppendFacts DEF TypeOK, Ends
  <2> QED
    BY <1>2, <2>1, <2>2, ZenonT(30) DEF WritePacket, TypeOK
<1>3. CASE Enqueue
  <2>1. held[TunReader] \in Frames
    BY <1>3, EndsAndThreads DEF Enqueue, TypeOK
  <2>2. /\ Append(queue, held[TunReader]) \in Seq(Frames)
        /\ Len(Append(queue, held[TunReader])) = Len(queue) + 1
        /\ Len(queue) \in Nat
    BY <2>1, AppendFacts DEF TypeOK
  <2>3. queue' \in Seq(Frames) /\ Len(queue') <= QueueCap
    BY <1>3, <2>2, SessionAssumption DEF Enqueue, TypeOK
  <2> QED
    BY <1>3, <2>3, ZenonT(30) DEF Enqueue, TypeOK
<1>4. CASE WriteLoop
  <2>1. /\ Head(queue) \in Frames /\ Tail(queue) \in Seq(Frames)
        /\ Len(Tail(queue)) <= QueueCap
    BY <1>4, TailFacts, SessionAssumption DEF WriteLoop, TypeOK
  <2>2. Append(wire["server"], Head(queue)) \in Seq(Frames)
    BY <2>1, AppendFacts DEF TypeOK, Ends
  <2> QED
    BY <1>4, <2>1, <2>2, ZenonT(30) DEF WriteLoop, TypeOK
<1>5. ASSUME NEW e \in Ends, Open(e) PROVE TypeOK'
  <2> DEFINE f == Arriving(e)
             d == [ctr |-> f.ctr, len |-> RealLen(f.prefix)]
  <2>1. Peer(e) \in Ends /\ Read(e)
    BY <1>5, EndsAndThreads DEF Open, OpenFails, OpenReplayed, OpenAdvances
  <2>2. f \in Frames /\ Tail(wire[Peer(e)]) \in Seq(Frames)
    BY <2>1, TailFacts DEF TypeOK, Read, Arriving
  <2>3. wire' \in [Ends -> Seq(Frames)]
    BY <2>1, <2>2 DEF TypeOK, Read
  <2>4. f.ctr \in Nat /\ RealLen(f.prefix) \in Nat
    BY <2>2, FrameLength DEF Frames
  <2>5. Append(got[e], d) \in Seq([ctr : Nat, len : Nat])
    BY <2>4, AppendFacts DEF TypeOK
  <2>6. /\ recvMax' \in [Ends -> Nat] /\ recvSeen' \in [Ends -> BOOLEAN]
        /\ fate' \in [Ends -> {"up", "forged", "replayed", "short"}]
        /\ got' \in [Ends -> Seq([ctr : Nat, len : Nat])]
    BY <1>5, <2>4, <2>5, ZenonT(30)
       DEF Open, OpenFails, OpenReplayed, OpenAdvances, TypeOK
  <2> QED
    BY <2>1, <2>3, <2>6, ZenonT(30) DEF TypeOK, Read
<1>6. ASSUME NEW e \in Ends, Repeat(e) PROVE TypeOK'
  <2>1. Append(wire[e], Head(wire[e])) \in Seq(Frames)
    BY <1>6, TailFacts, AppendFacts DEF TypeOK, Repeat
  <2> QED
    BY <1>6, <2>1, SMTT(30) DEF Repeat, TypeOK
<1>7. ASSUME NEW e \in Ends, NEW c \in 0 .. MaxFrames, Damage(e, c) PROVE TypeOK'
  <2> DEFINE g == Damaged(Head(wire[e]), c)
  <2>1. Head(wire[e]) \in Frames /\ Tail(wire[e]) \in Seq(Frames)
    BY <1>7, TailFacts DEF TypeOK, Damage
  <2>2. g \in Frames
    BY <2>1, DamagedFrame
  <2>3. <<g>> \o Tail(wire[e]) \in Seq(Frames)
    <3> HIDE DEF g
    <3> QED BY <2>1, <2>2
  <2>4. wire' = [wire EXCEPT ![e] = <<g>> \o Tail(wire[e])]
    BY <1>7 DEF Damage
  <2> HIDE DEF g
  <2> QED
    BY <1>7, <2>3, <2>4, SMTT(30) DEF Damage, TypeOK
<1>8. CASE UNCHANGED vars
  BY <1>8 DEF vars, TypeOK
<1> QED
  BY <1>1, <1>2, <1>3, <1>4, <1>5, <1>6, <1>7, <1>8 DEF Next

-----------------------------------------------------------------------------
(* Frames under way *)

\* What an end sealed stays sealed when it seals more.
LEMMA SealedStays ==
  ASSUME NEW e \in Ends, NEW f \in Frames, NEW log \in Seq(Nat), NEW n \in Nat,
         SealedBy(e, f, log)
  PROVE  SealedBy(e, f, Append(log, n))
<1>1. /\ Len(log) \in Nat /\ Len(Append(log, n)) = Len(log) + 1
      /\ \A i \in 1 .. Len(log) : Append(log, n)[i] = log[i]
  BY AppendFacts
<1>2. f.ctr \in Nat
  BY DEF Frames
<1>3. ASSUME f.ctr < Len(log) PROVE Append(log, n)[f.ctr + 1] = log[f.ctr + 1]
  BY <1>1, <1>2, <1>3
<1> QED
  BY <1>1, <1>2, <1>3 DEF SealedBy

\* The frame sealRaw builds is the last one that its end sealed.
LEMMA SealedNow ==
  ASSUME NEW e \in Ends, NEW log \in Seq(Nat), NEW n \in Lengths, NEW p \in Pads
  PROVE  SealedBy(e, [key |-> SendKey(e), ctr |-> Len(log), intact |-> TRUE,
                      prefix |-> LengthPrefix(n), size |-> 2 + n + p],
                  Append(log, n))
<1>1. n \in Nat /\ p \in Nat
  BY PrefixRoundTrip, SessionAssumption
<1>2. /\ Len(log) \in Nat /\ Len(Append(log, n)) = Len(log) + 1
      /\ Append(log, n)[Len(log) + 1] = n
  BY <1>1, AppendFacts
<1> QED
  BY <1>1, <1>2 DEF SealedBy

\* A session starts without frames.
LEMMA UnderWayInit == Init => UnderWay
BY EndsAndThreads DEF Init, UnderWay

\* sealRaw preserves UnderWay.
LEMMA SealKeepsUnderWay ==
  ASSUME TypeOK, UnderWay,
         NEW t \in Threads, NEW n \in Lengths, NEW p \in Pads, Seal(t, n, p)
  PROVE  UnderWay'
<1> DEFINE e == EndOf(t)
           f == [key |-> SendKey(e), ctr |-> sendCtr[e], intact |-> TRUE,
                 prefix |-> LengthPrefix(n), size |-> 2 + n + p]
<1>1. e \in Ends /\ n \in Nat /\ sealed[e] \in Seq(Nat)
  BY EndsAndThreads, PrefixRoundTrip DEF TypeOK
<1>2. /\ sendCtr' = [sendCtr EXCEPT ![e] = sendCtr[e] + 1]
      /\ held' = [held EXCEPT ![t] = f]
      /\ sealed' = [sealed EXCEPT ![e] = Append(sealed[e], n)]
      /\ queue' = queue /\ wire' = wire
  BY DEF Seal
<1>3. \A d \in Ends, g \in Frames :
        SealedBy(d, g, sealed[d]) => SealedBy(d, g, sealed'[d])
  BY <1>1, <1>2, SealedStays, ZenonT(60) DEF TypeOK
<1>4. SealedBy(e, f, sealed'[e])
  <2>1. sendCtr[e] = Len(sealed[e])
    BY <1>1 DEF UnderWay
  <2>2. sealed'[e] = Append(sealed[e], n)
    BY <1>1, <1>2 DEF TypeOK
  <2> QED
    BY <1>1, <2>1, <2>2, SealedNow
<1> HIDE DEF e, f
<1>5. \A d \in Ends : Len(sealed'[d]) = sendCtr'[d]
  <2>1. Len(Append(sealed[e], n)) = Len(sealed[e]) + 1
    BY <1>1, AppendFacts
  <2>2. Len(sealed[e]) = sendCtr[e]
    BY <1>1 DEF UnderWay
  <2>3. ASSUME NEW d \in Ends, d # e PROVE Len(sealed'[d]) = sendCtr'[d]
    BY <1>2, <2>3 DEF TypeOK, UnderWay
  <2>4. Len(sealed'[e]) = sendCtr'[e]
    BY <1>1, <1>2, <2>1, <2>2 DEF TypeOK
  <2> QED
    BY <2>3, <2>4
<1>6. \A d \in Ends : \A i \in 1 .. Len(sealed'[d]) : sealed'[d][i] \in Lengths
  BY <1>1, <1>2, AppendFacts, SMTT(30) DEF TypeOK, UnderWay
<1>7. \A u \in Threads :
        held'[u] # NoFrame => SealedBy(EndOf(u), held'[u], sealed'[EndOf(u)])
  <2> SUFFICES ASSUME NEW u \in Threads, held'[u] # NoFrame
               PROVE  SealedBy(EndOf(u), held'[u], sealed'[EndOf(u)])
    OBVIOUS
  <2>1. CASE u = t
    BY <1>2, <1>4, <2>1 DEF TypeOK, e
  <2>2. CASE u # t
    <3>1. held'[u] = held[u] /\ held[u] \in Frames /\ EndOf(u) \in Ends
      BY <1>2, <2>2, EndsAndThreads, ZenonT(60) DEF TypeOK
    <3> QED
      BY <1>3, <3>1 DEF UnderWay
  <2> QED
    BY <2>1, <2>2
<1>8. \A i \in 1 .. Len(queue') : SealedBy("server", queue'[i], sealed'["server"])
  BY <1>2, <1>3, SMTT(30) DEF UnderWay, TypeOK, Ends
<1>9. \A d \in Ends : \A i \in 1 .. Len(wire'[d]) :
        SealedBy(d, wire'[d][i], sealed'[d])
  BY <1>2, <1>3 DEF UnderWay, TypeOK
<1> QED
  BY <1>5, <1>6, <1>7, <1>8, <1>9 DEF UnderWay

\* Passing a frame on preserves UnderWay: each place takes the frame from
\* the one before it.
LEMMA UnderWayStep == TypeOK /\ UnderWay /\ [Next]_vars => UnderWay'
<1> SUFFICES ASSUME TypeOK, UnderWay, [Next]_vars PROVE UnderWay'
  OBVIOUS
<1>1. ASSUME NEW t \in Threads, NEW n \in Lengths, NEW p \in Pads, Seal(t, n, p)
      PROVE  UnderWay'
  BY <1>1, SealKeepsUnderWay
<1>2. ASSUME NEW t \in Writers, WritePacket(t) PROVE UnderWay'
  <2>1. /\ t \in Threads /\ held[t] \in Frames
        /\ SealedBy("client", held[t], sealed["client"])
    BY <1>2, EndsAndThreads DEF WritePacket, TypeOK, UnderWay
  <2>2. \A e \in Ends : \A i \in 1 .. Len(wire'[e]) :
          SealedBy(e, wire'[e][i], sealed[e])
    BY <1>2, <2>1, AppendFacts, SMTT(30) DEF WritePacket, TypeOK, UnderWay, Ends
  <2> QED
    BY <1>2, <2>2, ZenonT(60) DEF WritePacket, TypeOK, UnderWay
<1>3. CASE Enqueue
  <2>1. /\ held[TunReader] \in Frames
        /\ SealedBy("server", held[TunReader], sealed["server"])
    BY <1>3, EndsAndThreads DEF Enqueue, TypeOK, UnderWay
  <2>2. \A i \in 1 .. Len(queue') : SealedBy("server", queue'[i], sealed["server"])
    BY <1>3, <2>1, AppendFacts DEF Enqueue, TypeOK, UnderWay
  <2> QED
    BY <1>3, <2>2 DEF Enqueue, TypeOK, UnderWay
<1>4. CASE WriteLoop
  <2>1. /\ queue \in Seq(Frames) /\ Head(queue) = queue[1] /\ Len(queue) > 0
        /\ Head(queue) \in Frames /\ Len(queue) \in Nat
        /\ Len(Tail(queue)) = Len(queue) - 1
        /\ \A i \in 1 .. Len(Tail(queue)) : Tail(queue)[i] = queue[i + 1]
    BY <1>4, TailFacts DEF WriteLoop, TypeOK
  <2>2. \A i \in 1 .. Len(queue') : SealedBy("server", queue'[i], sealed["server"])
    BY <1>4, <2>1 DEF WriteLoop, UnderWay
  <2>3. SealedBy("server", Head(queue), sealed["server"])
    BY <2>1 DEF UnderWay
  <2>4. \A e \in Ends : \A i \in 1 .. Len(wire'[e]) :
          SealedBy(e, wire'[e][i], sealed[e])
    BY <1>4, <2>1, <2>3, AppendFacts, SMTT(30) DEF WriteLoop, TypeOK, UnderWay, Ends
  <2> QED
    BY <1>4, <2>2, <2>4 DEF WriteLoop, UnderWay
<1>5. ASSUME NEW e \in Ends, Open(e) PROVE UnderWay'
  <2>1. Peer(e) \in Ends /\ Read(e)
    BY <1>5, EndsAndThreads DEF Open, OpenFails, OpenReplayed, OpenAdvances
  <2>2. \A d \in Ends : \A i \in 1 .. Len(wire'[d]) :
          SealedBy(d, wire'[d][i], sealed[d])
    BY <2>1, TailFacts, SMTT(30) DEF Read, TypeOK, UnderWay
  <2> QED
    BY <2>1, <2>2 DEF Read, UnderWay
<1>6. ASSUME NEW e \in Ends, Repeat(e) PROVE UnderWay'
  <2>1. Head(wire[e]) \in Frames /\ SealedBy(e, Head(wire[e]), sealed[e])
    BY <1>6, TailFacts DEF Repeat, TypeOK, UnderWay
  <2>2. \A d \in Ends : \A i \in 1 .. Len(wire'[d]) :
          SealedBy(d, wire'[d][i], sealed[d])
    BY <1>6, <2>1, AppendFacts DEF Repeat, TypeOK, UnderWay
  <2> QED
    BY <1>6, <2>2 DEF Repeat, UnderWay
<1>7. ASSUME NEW e \in Ends, NEW c \in 0 .. MaxFrames, Damage(e, c) PROVE UnderWay'
  <2> DEFINE g == Damaged(Head(wire[e]), c)
             w == <<g>> \o Tail(wire[e])
  <2>1. g \in Frames /\ ~g.intact
    BY <1>7, TailFacts, DamagedFrame DEF Damage, TypeOK
  <2>2. SealedBy(e, g, sealed[e])
    BY <2>1 DEF SealedBy
  <2>3. wire' = [wire EXCEPT ![e] = w]
    BY <1>7 DEF Damage
  <2> HIDE DEF g
  <2>4. Len(w) = Len(wire[e]) /\ w[1] = g /\ Len(wire[e]) \in Nat
        /\ \A i \in 2 .. Len(w) : w[i] = wire[e][i]
    BY <1>7, <2>1, TailFacts DEF Damage, TypeOK
  <2> HIDE DEF w
  <2>5. \A d \in Ends : \A i \in 1 .. Len(wire'[d]) :
          SealedBy(d, wire'[d][i], sealed[d])
    <3> SUFFICES ASSUME NEW d \in Ends, NEW i \in 1 .. Len(wire'[d])
                 PROVE  SealedBy(d, wire'[d][i], sealed[d])
      OBVIOUS
    <3>1. CASE d # e
      BY <2>3, <3>1, ZenonT(30) DEF TypeOK, UnderWay
    <3>2. CASE d = e
      <4>1. wire'[d] = w /\ i \in 1 .. Len(wire[e])
        BY <2>3, <2>4, <3>2 DEF TypeOK
      <4>2. CASE i = 1
        BY <2>2, <2>4, <3>2, <4>1, <4>2
      <4>3. CASE i # 1
        <5>1. w[i] = wire[e][i]
          BY <2>4, <4>1, <4>3
        <5> QED
          BY <3>2, <4>1, <5>1 DEF UnderWay
      <4> QED
        BY <4>2, <4>3
    <3> QED
      BY <3>1, <3>2
  <2> QED
    BY <1>7, <2>5 DEF Damage, UnderWay
<1>8. CASE UNCHANGED vars
  BY <1>8 DEF vars, UnderWay
<1> QED
  BY <1>1, <1>2, <1>3, <1>4, <1>5, <1>6, <1>7, <1>8 DEF Next

-----------------------------------------------------------------------------
(* Nonces *)

\* Sealing takes the pair of the end's key and its counter, which was never
\* used, and leaves only smaller counters behind.
LEMMA UsedStep ==
  TypeOK /\ UsedBelow /\ [Next]_vars
    => /\ UsedBelow'
       /\ sealed' # sealed => used' # used
<1> SUFFICES ASSUME TypeOK, UsedBelow, [Next]_vars
             PROVE  UsedBelow' /\ (sealed' # sealed => used' # used)
  OBVIOUS
<1>1. ASSUME NEW t \in Threads, NEW n \in Lengths, NEW p \in Pads, Seal(t, n, p)
      PROVE  UsedBelow' /\ used' # used
  <2> DEFINE e == EndOf(t)
             u == <<SendKey(e), sendCtr[e]>>
  <2>1. e \in Ends /\ sendCtr[e] \in Nat
    BY EndsAndThreads DEF TypeOK
  <2>2. u \notin used
    BY <2>1 DEF UsedBelow
  <2>3. used' = used \cup {u} /\ sendCtr' = [sendCtr EXCEPT ![e] = sendCtr[e] + 1]
    BY <1>1 DEF Seal
  <2>4. UsedBelow'
    <3> SUFFICES ASSUME NEW d \in Ends, NEW v \in used', v[1] = SendKey(d)
                 PROVE  v[2] < sendCtr'[d]
      BY DEF UsedBelow
    <3>1. CASE v \in used
      <4>1. v[2] < sendCtr[d] /\ v[2] \in Nat /\ sendCtr[d] \in Nat
        BY <3>1 DEF UsedBelow, TypeOK
      <4>2. sendCtr'[d] >= sendCtr[d]
        BY <2>1, <2>3, <4>1, SMTT(30) DEF TypeOK
      <4>3. sendCtr'[d] \in Nat
        BY <2>1, <2>3 DEF TypeOK
      <4> QED
        BY <4>1, <4>2, <4>3
    <3>2. CASE v = u
      <4>1. d = e
        BY <2>1, <3>2, EndsAndThreads
      <4> QED
        BY <2>1, <2>3, <3>2, <4>1 DEF TypeOK
    <3> QED
      BY <2>3, <3>1, <3>2, ZenonT(60)
  <2> QED
    BY <2>2, <2>3, <2>4
<1>2. ASSUME UNCHANGED <<used, sendCtr, sealed>>
      PROVE  UsedBelow' /\ sealed' = sealed
  BY <1>2 DEF UsedBelow
<1>3. \/ \E t \in Threads, n \in Lengths, p \in Pads : Seal(t, n, p)
      \/ UNCHANGED <<used, sendCtr, sealed>>
  BY ZenonT(30)
     DEF Next, WritePacket, Enqueue, WriteLoop, Open, OpenFails, OpenReplayed,
         OpenAdvances, Read, Repeat, Damage, vars
<1> QED
  BY <1>1, <1>2, <1>3
-----------------------------------------------------------------------------
(* Delivery *)

\* An intact frame that arrives verifies, and its prefix is the length of the
\* packet that the peer sealed under its counter, which fits the frame.
LEMMA IntactArrival ==
  ASSUME TypeOK, UnderWay, NEW e \in Ends, wire[Peer(e)] # <<>>,
         Arriving(e).intact
  PROVE  LET f == Arriving(e)
             log == sealed[Peer(e)]
         IN  /\ f \in Frames /\ f.ctr \in Nat
             /\ Authentic(e, f)
             /\ f.ctr < Len(log) /\ Len(log) = sendCtr[Peer(e)]
             /\ RealLen(f.prefix) = log[f.ctr + 1]
             /\ ~(RealLen(f.prefix) > f.size - 2)
<1> DEFINE f == Arriving(e)
           log == sealed[Peer(e)]
<1>1. Peer(e) \in Ends /\ RecvKey(e) = SendKey(Peer(e))
  BY EndsAndThreads
<1>2. /\ f \in Frames /\ f = wire[Peer(e)][1]
      /\ Len(wire[Peer(e)]) \in Nat /\ Len(wire[Peer(e)]) > 0
  BY <1>1, TailFacts DEF TypeOK, Arriving
<1>3. SealedBy(Peer(e), f, log)
  BY <1>1, <1>2 DEF UnderWay
<1>4. f.ctr \in Nat /\ f.size \in Nat
  BY <1>2 DEF Frames
<1>5. /\ f.key = SendKey(Peer(e)) /\ f.ctr < Len(log)
      /\ f.prefix = LengthPrefix(log[f.ctr + 1])
      /\ f.size - 2 >= log[f.ctr + 1]
  BY <1>3 DEF SealedBy
<1>6. Len(log) = sendCtr[Peer(e)] /\ Len(log) \in Nat
  BY <1>1 DEF UnderWay, TypeOK
<1>7. log[f.ctr + 1] \in Lengths
  BY <1>1, <1>4, <1>5, <1>6 DEF UnderWay
<1>8. RealLen(f.prefix) = log[f.ctr + 1] /\ log[f.ctr + 1] \in Nat
  BY <1>5, <1>7, PrefixRoundTrip
<1>9. Authentic(e, f)
  BY <1>1, <1>5 DEF Authentic
<1> HIDE DEF f, log
<1>10. ~(RealLen(f.prefix) > f.size - 2)
  BY <1>4, <1>5, <1>8
<1> QED
  BY <1>2, <1>4, <1>5, <1>6, <1>8, <1>9, <1>10 DEF f, log

DeliveryInv == RecvMaxCovers /\ DeliveredInOrder /\ DeliveredAsSealed

\* An accepted frame is delivered as the last and largest of its end.
LEMMA AdvanceKeepsDelivery ==
  ASSUME TypeOK, UnderWay, DeliveryInv, NEW e \in Ends, OpenAdvances(e)
  PROVE  DeliveryInv'
<1> DEFINE f == Arriving(e)
           d == [ctr |-> f.ctr, len |-> RealLen(f.prefix)]
           g == got[e]
           log == sealed[Peer(e)]
<1>1. wire[Peer(e)] # <<>> /\ f.intact /\ ~Replayed(e, f)
  BY DEF OpenAdvances, Read, Authentic
<1>2. /\ f \in Frames /\ f.ctr \in Nat /\ f.ctr < Len(log)
      /\ RealLen(f.prefix) = log[f.ctr + 1]
      /\ ~(RealLen(f.prefix) > f.size - 2)
  BY <1>1, IntactArrival, ZenonT(60)
<1>3. /\ recvMax' = [recvMax EXCEPT ![e] = f.ctr]
      /\ recvSeen' = [recvSeen EXCEPT ![e] = TRUE]
      /\ got' = [got EXCEPT ![e] = Append(g, d)]
      /\ sealed' = sealed
  BY <1>2, ZenonT(60) DEF OpenAdvances, Read
<1>4. d \in [ctr : Nat, len : Nat] /\ d.ctr = f.ctr /\ d.len = RealLen(f.prefix)
  BY <1>2, FrameLength
<1>5. g \in Seq([ctr : Nat, len : Nat])
  BY DEF TypeOK
<1>6. /\ Len(g) \in Nat /\ Len(Append(g, d)) = Len(g) + 1
      /\ \A i \in 1 .. Len(g) : Append(g, d)[i] = g[i]
      /\ Append(g, d)[Len(g) + 1] = d
  BY <1>4, <1>5, AppendFacts, SMTT(30)
<1>7. \A i \in 1 .. Len(g) : g[i].ctr \in Nat /\ g[i].ctr < f.ctr
  <2> SUFFICES ASSUME NEW i \in 1 .. Len(g) PROVE g[i].ctr \in Nat /\ g[i].ctr < f.ctr
    OBVIOUS
  <2>1. g[i].ctr \in Nat
    <3> HIDE DEF g
    <3>1. g[i] \in [ctr : Nat, len : Nat]
      BY <1>5, ElementOf, ZenonT(30)
    <3> QED
      BY <3>1
  <2>2. recvSeen[e] /\ g[i].ctr <= recvMax[e] /\ recvMax[e] \in Nat
    BY ZenonT(60) DEF DeliveryInv, RecvMaxCovers, TypeOK
  <2> QED
    BY <1>1, <1>2, <2>1, <2>2 DEF Replayed
<1> HIDE DEF f, d
<1>8. RecvMaxCovers'
  <2> SUFFICES ASSUME NEW b \in Ends, NEW i \in 1 .. Len(got'[b])
               PROVE  recvSeen'[b] /\ got'[b][i].ctr <= recvMax'[b]
    BY DEF RecvMaxCovers
  <2>1. CASE b # e
    BY <1>3, <2>1 DEF DeliveryInv, RecvMaxCovers, TypeOK
  <2>2. CASE b = e
    <3>1. got'[b] = Append(g, d) /\ recvSeen'[b] /\ recvMax'[b] = f.ctr
      BY <1>3, <2>2 DEF TypeOK
    <3>2. i \in 1 .. Len(g) \/ i = Len(g) + 1
      BY <1>6, <3>1
    <3> QED
      BY <1>2, <1>4, <1>6, <1>7, <3>1, <3>2, SMTT(30)
  <2> QED
    BY <2>1, <2>2
<1>9. DeliveredInOrder'
  <2> SUFFICES ASSUME NEW b \in Ends, NEW i \in 1 .. Len(got'[b]),
                      NEW j \in 1 .. Len(got'[b]), i < j
               PROVE  got'[b][i].ctr < got'[b][j].ctr
    BY DEF DeliveredInOrder
  <2>1. CASE b # e
    BY <1>3, <2>1, ZenonT(30) DEF DeliveryInv, DeliveredInOrder, TypeOK
  <2>2. CASE b = e
    <3>1. got'[b] = Append(g, d)
      BY <1>3, <2>2 DEF TypeOK
    <3>2. i \in 1 .. Len(g) /\ (j \in 1 .. Len(g) \/ j = Len(g) + 1)
      BY <1>6, <3>1
    <3>3. CASE j \in 1 .. Len(g)
      BY <1>6, <3>1, <3>2, <3>3 DEF DeliveryInv, DeliveredInOrder
    <3>4. CASE j = Len(g) + 1
      BY <1>4, <1>6, <1>7, <3>1, <3>2, <3>4
    <3> QED
      BY <3>2, <3>3, <3>4
  <2> QED
    BY <2>1, <2>2
<1>10. DeliveredAsSealed'
  <2> SUFFICES ASSUME NEW b \in Ends, NEW i \in 1 .. Len(got'[b])
               PROVE  /\ got'[b][i].ctr < Len(sealed[Peer(b)])
                      /\ got'[b][i].len = sealed[Peer(b)][got'[b][i].ctr + 1]
    BY <1>3, ZenonT(60) DEF DeliveredAsSealed
  <2>1. CASE b # e
    BY <1>3, <2>1, ZenonT(60) DEF DeliveryInv, DeliveredAsSealed, TypeOK
  <2>2. CASE b = e
    <3>1. got'[b] = Append(g, d)
      BY <1>3, <2>2 DEF TypeOK
    <3>2. i \in 1 .. Len(g) \/ i = Len(g) + 1
      BY <1>6, <3>1, SMTT(30)
    <3>3. CASE i \in 1 .. Len(g)
      <4>1. got'[b][i] = got[e][i] /\ i \in 1 .. Len(got[e])
        BY <1>6, <3>1, <3>3, ZenonT(60)
      <4> QED  BY <2>2, <4>1 DEF DeliveryInv, DeliveredAsSealed
    <3>4. CASE i = Len(g) + 1
      BY <1>2, <1>4, <1>6, <2>2, <3>1, <3>4
    <3> QED
      BY <3>2, <3>3, <3>4, ZenonT(60)
  <2> QED
    BY <2>1, <2>2, ZenonT(60)
<1> QED
  BY <1>8, <1>9, <1>10 DEF DeliveryInv

\* Nothing else changes what was delivered, and sealing only adds to what was
\* sealed.
LEMMA DeliveryStep ==
  TypeOK /\ UnderWay /\ DeliveryInv /\ [Next]_vars => DeliveryInv'
<1> SUFFICES ASSUME TypeOK, UnderWay, DeliveryInv, [Next]_vars
             PROVE  DeliveryInv'
  OBVIOUS
<1>1. ASSUME NEW t \in Threads, NEW n \in Lengths, NEW p \in Pads, Seal(t, n, p)
      PROVE  DeliveryInv'
  <2> DEFINE e == EndOf(t)
  <2>1. e \in Ends /\ n \in Nat /\ sealed[e] \in Seq(Nat)
    BY EndsAndThreads, PrefixRoundTrip DEF TypeOK
  <2>2. /\ sealed' = [sealed EXCEPT ![e] = Append(sealed[e], n)]
        /\ UNCHANGED <<recvMax, recvSeen, got>>
    BY <1>1, ZenonT(60) DEF Seal
  <2> HIDE DEF e
  <2>3. RecvMaxCovers' /\ DeliveredInOrder'
    BY <2>2, ZenonT(60) DEF DeliveryInv, RecvMaxCovers, DeliveredInOrder
  <2>4. \A b \in Ends : /\ Len(sealed'[b]) >= Len(sealed[b])
                        /\ Len(sealed[b]) \in Nat /\ Len(sealed'[b]) \in Nat
                        /\ \A i \in 1 .. Len(sealed[b]) :
                             sealed'[b][i] = sealed[b][i]
    <3> SUFFICES ASSUME NEW b \in Ends
                 PROVE  /\ Len(sealed'[b]) >= Len(sealed[b])
                        /\ Len(sealed[b]) \in Nat /\ Len(sealed'[b]) \in Nat
                        /\ \A i \in 1 .. Len(sealed[b]) :
                             sealed'[b][i] = sealed[b][i]
      OBVIOUS
    <3>1. CASE b # e
      BY <2>2, <3>1 DEF TypeOK
    <3>2. CASE b = e
      <4>1. sealed'[b] = Append(sealed[b], n) /\ sealed[b] \in Seq(Nat)
        BY <2>1, <2>2, <3>2, ZenonT(60) DEF TypeOK
      <4> QED
        BY <2>1, <4>1, AppendFacts
    <3> QED
      BY <3>1, <3>2, ZenonT(60)
  <2>5. DeliveredAsSealed'
    <3> SUFFICES ASSUME NEW b \in Ends, NEW i \in 1 .. Len(got[b])
                 PROVE  /\ got[b][i].ctr < Len(sealed'[Peer(b)])
                        /\ got[b][i].len = sealed'[Peer(b)][got[b][i].ctr + 1]
      BY <2>2, ZenonT(30) DEF DeliveredAsSealed
    <3>1. /\ got[b][i].ctr < Len(sealed[Peer(b)])
          /\ got[b][i].len = sealed[Peer(b)][got[b][i].ctr + 1]
      BY ZenonT(60) DEF DeliveryInv, DeliveredAsSealed
    <3>2. got[b] \in Seq([ctr : Nat, len : Nat]) /\ Peer(b) \in Ends
      BY EndsAndThreads DEF TypeOK
    <3>3. got[b][i] \in [ctr : Nat, len : Nat]
      BY <3>2, ElementOf, ZenonT(30)
    <3>4. got[b][i].ctr \in Nat
      BY <3>3
    <3>5. /\ Len(sealed'[Peer(b)]) >= Len(sealed[Peer(b)])
          /\ Len(sealed[Peer(b)]) \in Nat /\ Len(sealed'[Peer(b)]) \in Nat
      BY <2>4, <3>2
    <3>6. got[b][i].ctr + 1 \in 1 .. Len(sealed[Peer(b)])
      BY <3>1, <3>4, <3>5, SMTT(30)
    <3>7. sealed'[Peer(b)][got[b][i].ctr + 1] = sealed[Peer(b)][got[b][i].ctr + 1]
      BY <2>4, <3>2, <3>6, ZenonT(30)
    <3> QED
      BY <3>1, <3>4, <3>5, <3>7
  <2> QED
    BY <2>3, <2>5, ZenonT(60) DEF DeliveryInv
<1>2. ASSUME NEW e \in Ends, OpenAdvances(e) PROVE DeliveryInv'
  BY <1>2, AdvanceKeepsDelivery
<1>3. ASSUME UNCHANGED <<recvMax, recvSeen, got, sealed>> PROVE DeliveryInv'
  BY <1>3 DEF DeliveryInv, RecvMaxCovers, DeliveredInOrder, DeliveredAsSealed
<1>4. \/ \E t \in Threads, n \in Lengths, p \in Pads : Seal(t, n, p)
      \/ \E e \in Ends : OpenAdvances(e)
      \/ UNCHANGED <<recvMax, recvSeen, got, sealed>>
  BY ZenonT(30)
     DEF Next, WritePacket, Enqueue, WriteLoop, Open, OpenFails, OpenReplayed,
         Read, Repeat, Damage, vars
<1> QED
  BY <1>1, <1>2, <1>3, <1>4

-----------------------------------------------------------------------------
(* Order, for one writer and a transport without faults *)

\* Adding a larger counter at the end keeps counters increasing.
LEMMA IncreasingAppend ==
  ASSUME NEW s \in Seq(Frames), NEW f \in Frames, Increasing(s),
         \A i \in 1 .. Len(s) : s[i].ctr < f.ctr
  PROVE  Increasing(Append(s, f))
<1>1. /\ Len(s) \in Nat /\ Len(Append(s, f)) = Len(s) + 1
      /\ \A i \in 1 .. Len(s) : Append(s, f)[i] = s[i]
      /\ Append(s, f)[Len(s) + 1] = f
  BY AppendFacts
<1> SUFFICES ASSUME NEW i \in 1 .. Len(s) + 1, NEW j \in 1 .. Len(s) + 1, i < j
             PROVE  Append(s, f)[i].ctr < Append(s, f)[j].ctr
  BY <1>1 DEF Increasing
<1>2. i \in 1 .. Len(s) /\ (j \in 1 .. Len(s) \/ j = Len(s) + 1)
  BY <1>1
<1> QED
  BY <1>1, <1>2 DEF Increasing

\* Taking the first frame keeps counters increasing, and the first is below
\* the others.
LEMMA IncreasingTail ==
  ASSUME NEW s \in Seq(Frames), s # <<>>, Increasing(s)
  PROVE  /\ Increasing(Tail(s))
         /\ \A i \in 1 .. Len(Tail(s)) : Head(s).ctr < Tail(s)[i].ctr
<1>1. /\ Len(s) \in Nat /\ Len(s) > 0 /\ Head(s) = s[1]
      /\ Len(Tail(s)) = Len(s) - 1
      /\ \A i \in 1 .. Len(Tail(s)) : Tail(s)[i] = s[i + 1]
  BY TailFacts
<1>2. ASSUME NEW i \in 1 .. Len(Tail(s)) PROVE Head(s).ctr < Tail(s)[i].ctr
  <2>1. i + 1 \in 1 .. Len(s) /\ 1 \in 1 .. Len(s) /\ 1 < i + 1
    BY <1>1
  <2> QED
    BY <1>1, <2>1 DEF Increasing
<1>3. ASSUME NEW i \in 1 .. Len(Tail(s)), NEW j \in 1 .. Len(Tail(s)), i < j
      PROVE  Tail(s)[i].ctr < Tail(s)[j].ctr
  <2>1. i + 1 \in 1 .. Len(s) /\ j + 1 \in 1 .. Len(s) /\ i + 1 < j + 1
    BY <1>1, <1>3, SMTT(30)
  <2> QED
    BY <1>1, <2>1 DEF Increasing
<1> QED
  BY <1>2, <1>3 DEF Increasing

\* What an intact frame under way has in common with its end's counter.
LEMMA SealedBelow ==
  ASSUME UnderWay, NEW e \in Ends, NEW f, SealedBy(e, f, sealed[e]), f.intact
  PROVE  f.ctr < sendCtr[e]
BY DEF UnderWay, SealedBy

OrderInv == OnTheWayInOrder /\ (OneWriter => NoFrameRefused)

\* sealRaw puts a counter behind all those under way.
LEMMA SealKeepsOrder ==
  ASSUME TypeOK, UnderWay, OnTheWayInOrder, OneWriter, faults = 0,
         NEW t \in Threads, NEW n \in Lengths, NEW p \in Pads, Seal(t, n, p)
  PROVE  OnTheWayInOrder'
<1> DEFINE e == EndOf(t)
           f == [key |-> SendKey(e), ctr |-> sendCtr[e], intact |-> TRUE,
                 prefix |-> LengthPrefix(n), size |-> 2 + n + p]
<1>1. e \in Ends /\ Peer(e) \in Ends /\ sendCtr[e] \in Nat
  BY EndsAndThreads DEF TypeOK
<1>2. /\ sendCtr' = [sendCtr EXCEPT ![e] = sendCtr[e] + 1]
      /\ held' = [held EXCEPT ![t] = f]
      /\ UNCHANGED <<recvMax, recvSeen, queue, wire, faults>>
  BY DEF Seal
<1>3. f.ctr = sendCtr[e] /\ f.intact
  OBVIOUS
<1> HIDE DEF f
<1>4. \A i \in 1 .. Len(wire[e]) : wire[e][i].ctr < sendCtr[e]
  BY <1>1, SealedBelow, ZenonT(30) DEF OnTheWayInOrder, UnderWay
<1>5. t = TunReader => \A j \in 1 .. Len(queue) : queue[j].ctr < sendCtr[e]
  <2> SUFFICES ASSUME t = TunReader, NEW j \in 1 .. Len(queue)
               PROVE  queue[j].ctr < sendCtr["server"]
    BY EndsAndThreads, ZenonT(60)
  <2>1. SealedBy("server", queue[j], sealed["server"]) /\ queue[j].intact
    BY ZenonT(60) DEF UnderWay, OnTheWayInOrder
  <2> QED
    BY <2>1, SealedBelow DEF Ends
<1>6. ReadBelow(Peer(e), sendCtr[e])
  BY <1>1 DEF OnTheWayInOrder
<1> HIDE DEF e
<1>7. \A j \in 1 .. Len(queue) :
        held'[TunReader] # NoFrame => queue[j].ctr < held'[TunReader].ctr
  BY <1>2, <1>3, <1>5, EndsAndThreads, ZenonT(30) DEF TypeOK, OnTheWayInOrder
<1>8. \A d \in Ends : recvSeen[Peer(d)] => recvMax[Peer(d)] < sendCtr'[d]
  <2> SUFFICES ASSUME NEW d \in Ends, recvSeen[Peer(d)]
               PROVE  recvMax[Peer(d)] < sendCtr'[d]
    BY ZenonT(60)
  <2>1. /\ recvMax[Peer(d)] < sendCtr[d] /\ recvMax[Peer(d)] \in Nat
        /\ sendCtr[d] \in Nat
    BY EndsAndThreads, ZenonT(60) DEF OnTheWayInOrder, ReadBelow, TypeOK
  <2>2. sendCtr'[d] = sendCtr[d] \/ sendCtr'[d] = sendCtr[d] + 1
    BY <1>1, <1>2, ZenonT(60) DEF TypeOK
  <2> QED
    BY <2>1, <2>2
<1>9. \A u \in Threads : held'[u] # NoFrame =>
        /\ held'[u].intact
        /\ recvSeen[Peer(EndOf(u))] => recvMax[Peer(EndOf(u))] < held'[u].ctr
        /\ \A i \in 1 .. Len(wire[EndOf(u)]) :
             wire[EndOf(u)][i].ctr < held'[u].ctr
  <2> SUFFICES ASSUME NEW u \in Threads, held'[u] # NoFrame
               PROVE  /\ held'[u].intact
                      /\ recvSeen[Peer(EndOf(u))]
                           => recvMax[Peer(EndOf(u))] < held'[u].ctr
                      /\ \A i \in 1 .. Len(wire[EndOf(u)]) :
                           wire[EndOf(u)][i].ctr < held'[u].ctr
    BY ZenonT(60)
  <2>1. CASE u = t
    <3>1. held'[u] = f /\ EndOf(u) = e
      BY <1>2, <2>1, ZenonT(30) DEF TypeOK, e
    <3> QED
      BY <1>3, <1>4, <1>6, <3>1 DEF ReadBelow
  <2>2. CASE u # t
    <3>1. held'[u] = held[u]
      BY <1>2, <2>2, ZenonT(30) DEF TypeOK
    <3> QED
      BY <3>1, ZenonT(30) DEF OnTheWayInOrder, ReadBelow
  <2> QED
    BY <2>1, <2>2, ZenonT(60)
<1> QED
  BY <1>2, <1>7, <1>8, <1>9, ZenonT(30) DEF OnTheWayInOrder, ReadBelow, Increasing

\* The only writer puts its frame behind those on the wire.
LEMMA WritePacketKeepsOrder ==
  ASSUME TypeOK, OnTheWayInOrder, OneWriter, faults = 0,
         NEW t \in Writers, WritePacket(t)
  PROVE  OnTheWayInOrder'
<1> DEFINE w == Append(wire["client"], held[t])
<1>1. /\ t \in Threads /\ EndOf(t) = "client" /\ held[t] \in Frames
      /\ held[t] # NoFrame
  BY EndsAndThreads DEF WritePacket, TypeOK
<1>2. /\ wire' = [wire EXCEPT !["client"] = w]
      /\ held' = [held EXCEPT ![t] = NoFrame]
      /\ UNCHANGED <<sendCtr, recvMax, recvSeen, queue, faults>>
  BY ZenonT(60) DEF WritePacket
<1>3. /\ held[t].intact /\ ReadBelow(Peer("client"), held[t].ctr)
      /\ \A i \in 1 .. Len(wire["client"]) : wire["client"][i].ctr < held[t].ctr
  BY <1>1 DEF OnTheWayInOrder
<1>4. wire["client"] \in Seq(Frames) /\ "client" \in Ends /\ "server" \in Ends
  BY ZenonT(60) DEF TypeOK, Ends
<1>5. Increasing(w)
  BY <1>1, <1>3, <1>4, IncreasingAppend, ZenonT(60) DEF OnTheWayInOrder
<1>6. \A i \in 1 .. Len(w) : w[i].intact /\ ReadBelow(Peer("client"), w[i].ctr)
  BY <1>1, <1>3, <1>4, AppendFacts, SMTT(30) DEF OnTheWayInOrder
<1> HIDE DEF w
<1>7. wire'["client"] = w /\ wire'["server"] = wire["server"]
  BY <1>2, <1>4, ZenonT(60) DEF TypeOK
<1>8. \A e \in Ends :
        /\ Increasing(wire'[e])
        /\ \A i \in 1 .. Len(wire'[e]) :
             wire'[e][i].intact /\ ReadBelow(Peer(e), wire'[e][i].ctr)
  BY <1>4, <1>5, <1>6, <1>7 DEF OnTheWayInOrder, Ends
<1>9. \A u \in Threads : held'[u] # NoFrame =>
        u = TunReader /\ held'[u] = held[u] /\ EndOf(u) = "server"
  <2> SUFFICES ASSUME NEW u \in Threads, held'[u] # NoFrame
               PROVE  u # t /\ u \notin Writers
    BY <1>2, EndsAndThreads, ZenonT(60) DEF Threads, TypeOK
  <2>1. u # t
    BY <1>2, ZenonT(60) DEF TypeOK
  <2> QED
    BY <2>1, ZenonT(60) DEF OneWriter
<1>10. held'[TunReader] = held[TunReader]
  BY <1>2, EndsAndThreads, ZenonT(60) DEF TypeOK
<1>11. \A u \in Threads : held'[u] # NoFrame =>
         /\ held'[u].intact
         /\ ReadBelow(Peer(EndOf(u)), held'[u].ctr)
         /\ \A i \in 1 .. Len(wire'[EndOf(u)]) :
              wire'[EndOf(u)][i].ctr < held'[u].ctr
  BY <1>7, <1>9, ZenonT(60) DEF OnTheWayInOrder
<1> QED
  BY <1>2, <1>7, <1>8, <1>10, <1>11, ZenonT(60) DEF OnTheWayInOrder, ReadBelow, Increasing

\* tunReadLoop puts its frame behind those in the queue, or drops it.
LEMMA EnqueueKeepsOrder ==
  ASSUME TypeOK, OnTheWayInOrder, OneWriter, faults = 0, Enqueue
  PROVE  OnTheWayInOrder'
<1> DEFINE f == held[TunReader]
<1>1. /\ TunReader \in Threads /\ EndOf(TunReader) = "server"
      /\ Peer("server") = "client"
      /\ f \in Frames /\ f # NoFrame /\ queue \in Seq(Frames)
  BY EndsAndThreads DEF Enqueue, TypeOK, Peer
<1>2. /\ queue' = Append(queue, f) \/ queue' = queue
      /\ held' = [held EXCEPT ![TunReader] = NoFrame]
      /\ UNCHANGED <<sendCtr, recvMax, recvSeen, wire, faults>>
  BY ZenonT(60) DEF Enqueue
<1>3. /\ f.intact /\ ReadBelow("client", f.ctr)
      /\ \A i \in 1 .. Len(wire["server"]) : wire["server"][i].ctr < f.ctr
      /\ \A j \in 1 .. Len(queue) : queue[j].ctr < f.ctr
  BY <1>1 DEF OnTheWayInOrder
<1> HIDE DEF f
<1>4. Increasing(queue')
  BY <1>1, <1>2, <1>3, IncreasingAppend, ZenonT(30) DEF OnTheWayInOrder
<1>5. \A j \in 1 .. Len(queue') :
        /\ queue'[j].intact
        /\ ReadBelow("client", queue'[j].ctr)
        /\ \A i \in 1 .. Len(wire["server"]) :
             wire["server"][i].ctr < queue'[j].ctr
  <2>1. CASE queue' = queue
    BY <2>1 DEF OnTheWayInOrder
  <2>2. CASE queue' = Append(queue, f)
    <3> SUFFICES ASSUME NEW j \in 1 .. Len(queue')
                 PROVE  queue'[j] = f \/ \E k \in 1 .. Len(queue) : queue'[j] = queue[k]
      BY <1>3 DEF OnTheWayInOrder
    <3> QED
      BY <1>1, <2>2, AppendFacts, SMTT(30)
  <2> QED
    BY <1>2, <2>1, <2>2, ZenonT(60)
<1>6. held'[TunReader] = NoFrame
      /\ \A u \in Threads : held'[u] # NoFrame => held'[u] = held[u]
  BY <1>1, <1>2, ZenonT(60) DEF TypeOK
<1> QED
  BY <1>2, <1>4, <1>5, <1>6, ZenonT(60) DEF OnTheWayInOrder, ReadBelow

\* writeLoop moves the smallest counter of the queue behind those on the wire.
LEMMA WriteLoopKeepsOrder ==
  ASSUME TypeOK, OnTheWayInOrder, OneWriter, faults = 0, WriteLoop
  PROVE  OnTheWayInOrder'
<1> DEFINE f == Head(queue)
           w == Append(wire["server"], f)
<1>1. /\ "server" \in Ends /\ "client" \in Ends /\ Peer("server") = "client"
      /\ queue \in Seq(Frames) /\ queue # <<>> /\ wire["server"] \in Seq(Frames)
  BY DEF WriteLoop, TypeOK, Peer, Ends
<1>2. /\ wire' = [wire EXCEPT !["server"] = w]
      /\ queue' = Tail(queue)
      /\ UNCHANGED <<sendCtr, recvMax, recvSeen, held, faults>>
  BY DEF WriteLoop
<1>3. /\ Len(queue) \in Nat /\ Len(queue) > 0 /\ f = queue[1] /\ f \in Frames
      /\ Len(Tail(queue)) = Len(queue) - 1
      /\ \A i \in 1 .. Len(Tail(queue)) : Tail(queue)[i] = queue[i + 1]
  BY <1>1, TailFacts
<1>4. /\ f.intact /\ ReadBelow("client", f.ctr)
      /\ \A i \in 1 .. Len(wire["server"]) : wire["server"][i].ctr < f.ctr
      /\ held[TunReader] # NoFrame => f.ctr < held[TunReader].ctr
  <2>1. 1 \in 1 .. Len(queue)
    BY <1>3
  <2>2. f = queue[1]
    BY <1>3, ZenonT(60)
  <2> HIDE DEF f, w
  <2> QED  BY <2>1, <2>2, ZenonT(30) DEF OnTheWayInOrder
<1>5. /\ Increasing(Tail(queue))
      /\ \A i \in 1 .. Len(Tail(queue)) : f.ctr < Tail(queue)[i].ctr
  BY <1>1, IncreasingTail, ZenonT(60) DEF OnTheWayInOrder
<1>6. Increasing(w)
  BY <1>1, <1>3, <1>4, IncreasingAppend DEF OnTheWayInOrder
<1>7. \A i \in 1 .. Len(w) : w[i] = f \/ \E k \in 1 .. Len(wire["server"]) :
                                           w[i] = wire["server"][k]
  BY <1>1, <1>3, AppendFacts, SMTT(30)
<1> HIDE DEF f, w
<1>8. wire'["server"] = w /\ wire'["client"] = wire["client"]
  BY <1>1, <1>2 DEF TypeOK
<1>9. \A j \in 1 .. Len(queue') : \E k \in 1 .. Len(queue) : queue'[j] = queue[k]
  BY <1>2, <1>3
<1>10. \A j \in 1 .. Len(queue') :
         /\ queue'[j].intact
         /\ ReadBelow("client", queue'[j].ctr)
         /\ \A i \in 1 .. Len(w) : w[i].ctr < queue'[j].ctr
         /\ held[TunReader] # NoFrame => queue'[j].ctr < held[TunReader].ctr
  <2> SUFFICES ASSUME NEW j \in 1 .. Len(queue')
               PROVE  /\ queue'[j].intact
                      /\ ReadBelow("client", queue'[j].ctr)
                      /\ \A i \in 1 .. Len(w) : w[i].ctr < queue'[j].ctr
                      /\ held[TunReader] # NoFrame => queue'[j].ctr < held[TunReader].ctr
    OBVIOUS
  <2>1. PICK k \in 1 .. Len(queue) : queue'[j] = queue[k]
    BY <1>9
  <2>2. /\ queue[k].intact /\ ReadBelow("client", queue[k].ctr)
        /\ \A i \in 1 .. Len(wire["server"]) : wire["server"][i].ctr < queue[k].ctr
        /\ held[TunReader] # NoFrame => queue[k].ctr < held[TunReader].ctr
    BY ZenonT(30) DEF OnTheWayInOrder
  <2>3. f.ctr < queue'[j].ctr
    BY <1>2, <1>5, ZenonT(60)
  <2> QED
    BY <1>7, <2>1, <2>2, <2>3, ZenonT(60)
<1>11. \A e \in Ends :
         /\ Increasing(wire'[e])
         /\ \A i \in 1 .. Len(wire'[e]) :
              wire'[e][i].intact /\ ReadBelow(Peer(e), wire'[e][i].ctr)
  <2>1. \A i \in 1 .. Len(w) : w[i].intact /\ ReadBelow("client", w[i].ctr)
    BY <1>1, <1>4, <1>7, ZenonT(60) DEF OnTheWayInOrder
  <2> QED
    BY <1>1, <1>6, <1>8, <2>1, ZenonT(60) DEF OnTheWayInOrder, Ends
<1>12. \A u \in Threads : held[u] # NoFrame =>
         \A i \in 1 .. Len(wire'[EndOf(u)]) : wire'[EndOf(u)][i].ctr < held[u].ctr
  <2> SUFFICES ASSUME NEW u \in Threads, held[u] # NoFrame,
                      NEW i \in 1 .. Len(wire'[EndOf(u)])
               PROVE  wire'[EndOf(u)][i].ctr < held[u].ctr
    OBVIOUS
  <2>1. CASE u = TunReader
    <3>1. \A k \in 1 .. Len(wire["server"]) : wire["server"][k].ctr < held[u].ctr
      BY <2>1, EndsAndThreads, ZenonT(30) DEF OnTheWayInOrder
    <3>2. i \in 1 .. Len(w) /\ wire'[EndOf(u)][i] = w[i]
      BY <1>8, <2>1, EndsAndThreads, ZenonT(60)
    <3> QED
      BY <1>4, <1>7, <2>1, <3>1, <3>2
  <2>2. CASE u # TunReader
    BY <1>8, <2>2, EndsAndThreads DEF OnTheWayInOrder, Threads
  <2> QED
    BY <2>1, <2>2
<1> QED
  BY <1>2, <1>5, <1>8, <1>10, <1>11, <1>12 DEF OnTheWayInOrder, ReadBelow, Increasing

\* Open accepts the frame that arrives, whose counter lies above what was
\* read and below all that follows.
LEMMA OpenKeepsOrder ==
  ASSUME TypeOK, UnderWay, OnTheWayInOrder, OneWriter, faults = 0,
         NEW e \in Ends, Open(e)
  PROVE  OnTheWayInOrder' /\ fate' = fate
<1> DEFINE b == Peer(e)
           f == Arriving(e)
           w == Tail(wire[b])
<1>1. /\ b \in Ends /\ Peer(b) = e /\ b # e
      /\ wire[b] \in Seq(Frames) /\ wire[b] # <<>> /\ Read(e)
  BY EndsAndThreads, ZenonT(30)
     DEF Open, OpenFails, OpenReplayed, OpenAdvances, Read, TypeOK
<1>2. /\ Len(wire[b]) \in Nat /\ Len(wire[b]) > 0 /\ f = wire[b][1]
      /\ Len(w) = Len(wire[b]) - 1
      /\ \A i \in 1 .. Len(w) : w[i] = wire[b][i + 1]
  BY <1>1, TailFacts, ZenonT(60) DEF Arriving
<1>first. 1 \in 1 .. Len(wire[b])
  <2> HIDE DEF b, f, w
  <2> QED  BY <1>2
<1>3. f.intact /\ ReadBelow(e, f.ctr)
  <2>1. wire[b][1].intact /\ ReadBelow(Peer(b), wire[b][1].ctr)
    <3> HIDE DEF b, f, w
    <3> QED  BY <1>1, <1>first, ZenonT(60) DEF OnTheWayInOrder
  <2> QED  BY <1>1, <1>2, <2>1, ZenonT(60)
<1>4. /\ f.ctr \in Nat /\ Authentic(e, f) /\ f.ctr < sendCtr[b]
      /\ ~(RealLen(f.prefix) > f.size - 2)
  BY <1>1, <1>3, IntactArrival, ZenonT(30)
<1>5. ~Replayed(e, f)
  <2>1. recvMax[e] \in Nat /\ (recvSeen[e] => recvMax[e] < f.ctr)
    BY <1>3 DEF ReadBelow, TypeOK
  <2> HIDE DEF f
  <2> QED  BY <1>4, <2>1, SMTT(30) DEF Replayed
<1>6. OpenAdvances(e)
  BY <1>4, <1>5, ZenonT(60) DEF Open, OpenFails, OpenReplayed
<1>7. /\ recvMax' = [recvMax EXCEPT ![e] = f.ctr]
      /\ recvSeen' = [recvSeen EXCEPT ![e] = TRUE]
      /\ fate' = fate
      /\ wire' = [wire EXCEPT ![b] = w]
      /\ UNCHANGED <<sendCtr, held, queue, faults>>
  BY <1>4, <1>6 DEF OpenAdvances, Read
<1>8. Increasing(w) /\ \A i \in 1 .. Len(w) : f.ctr < w[i].ctr
  BY <1>1, IncreasingTail, ZenonT(30) DEF OnTheWayInOrder, Arriving
<1>9. \A i \in 1 .. Len(w) : \E k \in 1 .. Len(wire[b]) : w[i] = wire[b][k]
  <2> HIDE DEF b, f, w
  <2> QED  BY <1>2, SMTT(30)
<1> HIDE DEF b, f, w
<1>10. /\ wire'[b] = w /\ wire'[e] = wire[e]
       /\ recvMax'[e] = f.ctr /\ recvSeen'[e]
       /\ recvMax'[b] = recvMax[b] /\ recvSeen'[b] = recvSeen[b]
       /\ \A d \in Ends : d = e \/ d = b
  BY <1>1, <1>7 DEF TypeOK, Ends, b, Peer
<1>11. \A d \in Ends : \A i \in 1 .. Len(wire'[d]) :
         \E k \in 1 .. Len(wire[d]) : wire'[d][i] = wire[d][k]
  BY <1>9, <1>10, ZenonT(30)
<1>12. \A j \in 1 .. Len(queue) :
         /\ recvSeen'["client"] => recvMax'["client"] < queue[j].ctr
         /\ \A i \in 1 .. Len(wire'["server"]) : wire'["server"][i].ctr < queue[j].ctr
  <2> SUFFICES ASSUME NEW j \in 1 .. Len(queue)
               PROVE  /\ recvSeen'["client"] => recvMax'["client"] < queue[j].ctr
                      /\ \A i \in 1 .. Len(wire'["server"]) :
                           wire'["server"][i].ctr < queue[j].ctr
    OBVIOUS
  <2>1. \A i \in 1 .. Len(wire["server"]) : wire["server"][i].ctr < queue[j].ctr
    BY ZenonT(30) DEF OnTheWayInOrder
  <2>2. recvSeen'["client"] => recvMax'["client"] < queue[j].ctr
    <3>1. CASE e = "client"
      <4>1. b = "server"
        BY <3>1, ZenonT(60) DEF b, Peer
      <4> QED
        BY <1>2, <1>first, <1>10, <2>1, <3>1, <4>1, ZenonT(60)
    <3>2. CASE e = "server"
      <4>1. b = "client"
        BY <3>2, ZenonT(60) DEF b, Peer
      <4> QED
        BY <1>10, <4>1, ZenonT(60) DEF OnTheWayInOrder, ReadBelow
    <3> QED
      BY <3>1, <3>2, ZenonT(60) DEF Ends
  <2> QED
    BY <1>11, <2>1, <2>2, ZenonT(30) DEF Ends
<1>13. \A d \in Ends :
         /\ Increasing(wire'[d])
         /\ recvSeen'[Peer(d)] => recvMax'[Peer(d)] < sendCtr[d]
         /\ \A i \in 1 .. Len(wire'[d]) :
              /\ wire'[d][i].intact
              /\ recvSeen'[Peer(d)] => recvMax'[Peer(d)] < wire'[d][i].ctr
  <2> SUFFICES ASSUME NEW d \in Ends
               PROVE  /\ Increasing(wire'[d])
                      /\ recvSeen'[Peer(d)] => recvMax'[Peer(d)] < sendCtr[d]
                      /\ \A i \in 1 .. Len(wire'[d]) :
                           /\ wire'[d][i].intact
                           /\ recvSeen'[Peer(d)]
                                => recvMax'[Peer(d)] < wire'[d][i].ctr
    OBVIOUS
  <2>1. CASE d = b
    BY <1>1, <1>4, <1>8, <1>9, <1>10, <2>1, ZenonT(30) DEF OnTheWayInOrder
  <2>2. CASE d = e
    <3>1. Peer(d) = b
      BY <2>2, ZenonT(60) DEF b
    <3> QED
      BY <1>10, <2>2, <3>1 DEF OnTheWayInOrder, ReadBelow
  <2> QED
    BY <1>10, <2>1, <2>2, ZenonT(60)
<1>14. \A u \in Threads : held[u] # NoFrame =>
         /\ recvSeen'[Peer(EndOf(u))] => recvMax'[Peer(EndOf(u))] < held[u].ctr
         /\ \A i \in 1 .. Len(wire'[EndOf(u)]) :
              wire'[EndOf(u)][i].ctr < held[u].ctr
  <2> SUFFICES ASSUME NEW u \in Threads, held[u] # NoFrame
               PROVE  /\ recvSeen'[Peer(EndOf(u))]
                           => recvMax'[Peer(EndOf(u))] < held[u].ctr
                      /\ \A i \in 1 .. Len(wire'[EndOf(u)]) :
                           wire'[EndOf(u)][i].ctr < held[u].ctr
    OBVIOUS
  <2>1. EndOf(u) \in Ends
    BY EndsAndThreads, ZenonT(60)
  <2>2. /\ \A i \in 1 .. Len(wire[EndOf(u)]) : wire[EndOf(u)][i].ctr < held[u].ctr
        /\ recvSeen[Peer(EndOf(u))] => recvMax[Peer(EndOf(u))] < held[u].ctr
    BY ZenonT(60) DEF OnTheWayInOrder, ReadBelow
  <2>3. CASE EndOf(u) = b
    BY <1>1, <1>2, <1>first, <1>10, <1>11, <2>1, <2>2, <2>3, ZenonT(60)
  <2>4. CASE EndOf(u) = e
    <3>1. Peer(EndOf(u)) = b
      BY <2>4 DEF b
    <3> QED
      BY <1>10, <2>2, <2>4, <3>1, ZenonT(30)
  <2> QED
    BY <1>10, <2>1, <2>3, <2>4, ZenonT(60)
<1> QED
  BY <1>7, <1>12, <1>13, <1>14, ZenonT(30) DEF OnTheWayInOrder, ReadBelow

\* Every step keeps the order, and no end stops reading.
LEMMA OrderStep == TypeOK /\ UnderWay /\ OrderInv /\ [Next]_vars => OrderInv'
<1> SUFFICES ASSUME TypeOK, UnderWay, OrderInv, [Next]_vars PROVE OrderInv'
  OBVIOUS
<1>1. ASSUME ~(OneWriter /\ faults' = 0) PROVE OrderInv'
  BY <1>1, ZenonT(30) DEF OrderInv, OnTheWayInOrder, NoFrameRefused, OneWriter
<1>2. ASSUME OneWriter, faults' = 0 PROVE OrderInv'
  <2>1. faults = 0 /\ ~(\E e \in Ends : Repeat(e))
        /\ ~(\E e \in Ends, c \in 0 .. MaxFrames : Damage(e, c))
    <3>1. faults \in Nat
      BY DEF TypeOK
    <3>2. ~(\E e \in Ends : Repeat(e))
      <4> SUFFICES ASSUME NEW e \in Ends, Repeat(e) PROVE FALSE
        OBVIOUS
      <4>1. faults' = faults + 1
        BY DEF Repeat
      <4> QED
        BY <1>2, <3>1, <4>1
    <3>3. ~(\E e \in Ends, c \in 0 .. MaxFrames : Damage(e, c))
      <4> SUFFICES ASSUME NEW e \in Ends, NEW c \in 0 .. MaxFrames, Damage(e, c)
                   PROVE  FALSE
        OBVIOUS
      <4>1. faults' = faults + 1
        BY DEF Damage
      <4> QED
        BY <1>2, <3>1, <4>1
    <3>4. faults' = faults
      BY <3>2, <3>3, ZenonT(30) DEF Next, Seal, WritePacket, Enqueue, WriteLoop, Open,
                        OpenFails, OpenReplayed, OpenAdvances, Read, vars
    <3> QED
      BY <1>2, <3>2, <3>3, <3>4
  <2>2. OnTheWayInOrder /\ NoFrameRefused
    BY <1>2 DEF OrderInv
  <2>3. SUFFICES OnTheWayInOrder' /\ fate' = fate
    BY <2>1, <2>2 DEF OrderInv, NoFrameRefused
  <2>4. ASSUME NEW t \in Threads, NEW n \in Lengths, NEW p \in Pads, Seal(t, n, p)
        PROVE  OnTheWayInOrder' /\ fate' = fate
    BY <1>2, <2>1, <2>2, <2>4, SealKeepsOrder, ZenonT(30) DEF Seal
  <2>5. ASSUME NEW t \in Writers, WritePacket(t)
        PROVE  OnTheWayInOrder' /\ fate' = fate
    BY <1>2, <2>1, <2>2, <2>5, WritePacketKeepsOrder, ZenonT(30) DEF WritePacket
  <2>6. CASE Enqueue
    BY <1>2, <2>1, <2>2, <2>6, EnqueueKeepsOrder DEF Enqueue
  <2>7. CASE WriteLoop
    BY <1>2, <2>1, <2>2, <2>7, WriteLoopKeepsOrder DEF WriteLoop
  <2>8. ASSUME NEW e \in Ends, Open(e) PROVE OnTheWayInOrder' /\ fate' = fate
    BY <1>2, <2>1, <2>2, <2>8, OpenKeepsOrder, ZenonT(30)
  <2>9. CASE UNCHANGED vars
    BY <2>2, <2>9, ZenonT(60) DEF vars, OnTheWayInOrder, ReadBelow, Increasing
  <2> QED
    BY <2>1, <2>4, <2>5, <2>6, <2>7, <2>8, <2>9 DEF Next
<1> QED
  BY <1>1, <1>2
-----------------------------------------------------------------------------
(* The theorems *)

\* A session starts in the invariant.
LEMMA SessionInit == Init => SessionInv
<1> SUFFICES ASSUME Init PROVE SessionInv
  OBVIOUS
<1>1. TypeOK /\ UnderWay
  BY TypeInit, UnderWayInit
<1>2. UsedBelow /\ RecvMaxCovers /\ DeliveredInOrder /\ DeliveredAsSealed
  <2>1. used = {} /\ \A e \in Ends : got[e] = <<>>
    BY ZenonT(60) DEF Init
  <2> QED
    BY <2>1 DEF UsedBelow, RecvMaxCovers, DeliveredInOrder, DeliveredAsSealed
<1>3. OnTheWayInOrder
  BY EndsAndThreads DEF Init, OnTheWayInOrder, Increasing, ReadBelow
<1>4. NoFrameRefused
  BY DEF Init, NoFrameRefused
<1> QED
  BY <1>1, <1>2, <1>3, <1>4 DEF SessionInv

\* The invariant is inductive.
LEMMA SessionStep == SessionInv /\ [Next]_vars => SessionInv'
BY TypeStep, UnderWayStep, UsedStep, DeliveryStep, OrderStep
   DEF SessionInv, DeliveryInv, OrderInv

\* The invariant of the data channel holds throughout.
THEOREM SessionInvariant == Spec => []SessionInv
BY SessionInit, SessionStep, PTL DEF Spec

\* sealRaw never uses a key with a counter twice, at either end, with any
\* number of writers.
THEOREM NoncesAreFresh == Spec => NonceFresh
<1>1. SessionInv /\ [Next]_vars => [sealed' # sealed => used' # used]_vars
  BY UsedStep DEF SessionInv
<1> QED
  BY <1>1, SessionInvariant, PTL DEF Spec, NonceFresh

\* Open delivers in the order of sealing, whatever frames are damaged or
\* repeated on the way.
THEOREM DeliveryInOrder == Spec => []DeliveredInOrder
<1>1. SessionInv => DeliveredInOrder
  BY DEF SessionInv
<1> QED
  BY <1>1, SessionInvariant, PTL

\* Open delivers only packets the peer sealed, at the length they had.
THEOREM DeliveryAsSealed == Spec => []DeliveredAsSealed
<1>1. SessionInv => DeliveredAsSealed
  BY DEF SessionInv
<1> QED
  BY <1>1, SessionInvariant, PTL

\* With one writer at the client and a transport without faults, Open never
\* refuses a frame, however many the server's queue dropped.
THEOREM LegitimateFramesAccepted ==
  ASSUME OneWriter
  PROVE  Spec => []NoFrameRefused
<1>1. SessionInv => NoFrameRefused
  BY OneWriter DEF SessionInv
<1> QED
  BY <1>1, SessionInvariant, PTL

=============================================================================
