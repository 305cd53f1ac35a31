------------------------------- MODULE Session -------------------------------
(***************************************************************************)
(* The data channel of one connection: protocol.Session at both ends       *)
(* (crypto.go), the way each end gets sealed frames onto the WebSocket     *)
(* (Tunnel.WritePacket at the client, the send queue and writeLoop at the  *)
(* server) and the way each end takes them off it (Tunnel.ReadPacket,      *)
(* readLoop).  The WebSocket keeps frames in order.  The cipher is         *)
(* abstract: a frame opens under the key it was sealed with, if undamaged. *)
(***************************************************************************)
EXTENDS Integers, Sequences

CONSTANTS Writers,      \* threads that call WritePacket at the client
          NoFrame,      \* not a frame
          Byte,         \* the values of a byte, 256 in the code
          Lengths,      \* lengths of the packets that are sealed
          Pads,         \* lengths of the random pads, 0 .. MaxPad in the code
          QueueCap,     \* capacity of client.send
          MaxFrames,    \* bound: frames one end seals
          MaxFaults     \* bound: frames the transport damages or repeats

Ends == {"client", "server"}

Peer(e) == IF e = "client" THEN "server" ELSE "client"

\* The server's only sealing thread.
TunReader == "tunReadLoop"

Threads == Writers \cup {TunReader}

EndOf(t) == IF t = TunReader THEN "server" ELSE "client"

ASSUME SessionAssumption ==
  /\ TunReader \notin Writers
  /\ Byte \in Nat \ {0} /\ QueueCap \in Nat \ {0}
  /\ MaxFrames \in Nat /\ MaxFaults \in Nat
  /\ Lengths \subseteq 0 .. Byte * Byte - 1
  /\ Pads \subseteq Nat

VARIABLES sendCtr,      \* Session.sendCtr of each end
          recvMax,      \* Session.recvMax
          recvSeen,     \* Session.recvSeen
          held,         \* the frame a thread has sealed and not passed on
          queue,        \* client.send at the server
          wire,         \* frames an end has sent and its peer has not read
          fate,         \* "up", or why an end stopped reading
          sealed,       \* history: packet lengths an end sealed, in order
          used,         \* history: the key and counter pairs sealed with
          got,          \* history: what an end delivered, in order
          faults        \* history: transport faults so far

vars == <<sendCtr, recvMax, recvSeen, held, queue, wire, fate, sealed, used,
          got, faults>>
-----------------------------------------------------------------------------
\* Faulty variant of SendKey: both directions are given one key.
SharedSendKey(e) == "c2s"

\* DeriveSession: the key an end sends with.
SendKey(e) == IF e = "client" THEN "c2s" ELSE "s2c"

\* DeriveSession: the key an end receives with.
RecvKey(e) == IF e = "client" THEN "s2c" ELSE "c2s"

\* Faulty variant of LengthPrefix: keeps the low byte only.
ShortLengthPrefix(n) == <<0, n % Byte>>

\* The two bytes that sealRaw puts before the payload.
LengthPrefix(n) == <<(n \div Byte) % Byte, n % Byte>>

\* What Open reads from them.
RealLen(prefix) == prefix[1] * Byte + prefix[2]

Init ==
  /\ sendCtr = [e \in Ends |-> 0]
  /\ recvMax = [e \in Ends |-> 0]
  /\ recvSeen = [e \in Ends |-> FALSE]
  /\ held = [t \in Threads |-> NoFrame]
  /\ queue = <<>>
  /\ wire = [e \in Ends |-> <<>>]
  /\ fate = [e \in Ends |-> "up"]
  /\ sealed = [e \in Ends |-> <<>>]
  /\ used = {}
  /\ got = [e \in Ends |-> <<>>]
  /\ faults = 0
-----------------------------------------------------------------------------
(* Sealing and sending *)

\* sealRaw: take the next counter and build the frame around a packet of n
\* bytes with a pad of p bytes.
Seal(t, n, p) ==
  LET e == EndOf(t)
      ctr == sendCtr[e]
  IN
  /\ held[t] = NoFrame
  /\ ctr < MaxFrames
  /\ sendCtr' = [sendCtr EXCEPT ![e] = ctr + 1]
  /\ held' = [held EXCEPT ![t] =
       [key |-> SendKey(e), ctr |-> ctr, intact |-> TRUE,
        prefix |-> LengthPrefix(n), size |-> 2 + n + p]]
  /\ sealed' = [sealed EXCEPT ![e] = Append(@, n)]
  /\ used' = used \cup {<<SendKey(e), ctr>>}
  /\ UNCHANGED <<recvMax, recvSeen, queue, wire, fate, got, faults>>

\* WritePacket takes writeMu and writes its frame.
WritePacket(t) ==
  /\ t \in Writers
  /\ held[t] # NoFrame
  /\ wire' = [wire EXCEPT !["client"] = Append(@, held[t])]
  /\ held' = [held EXCEPT ![t] = NoFrame]
  /\ UNCHANGED <<sendCtr, recvMax, recvSeen, queue, fate, sealed, used, got,
                 faults>>

\* tunReadLoop puts its frame into the client's queue or drops it when the
\* queue is full, which leaves a gap in the counters.
Enqueue ==
  /\ held[TunReader] # NoFrame
  /\ queue' = IF Len(queue) < QueueCap THEN Append(queue, held[TunReader])
              ELSE queue
  /\ held' = [held EXCEPT ![TunReader] = NoFrame]
  /\ UNCHANGED <<sendCtr, recvMax, recvSeen, wire, fate, sealed, used, got,
                 faults>>

\* writeLoop writes the oldest frame of the queue.
WriteLoop ==
  /\ queue # <<>>
  /\ wire' = [wire EXCEPT !["server"] = Append(@, Head(queue))]
  /\ queue' = Tail(queue)
  /\ UNCHANGED <<sendCtr, recvMax, recvSeen, held, fate, sealed, used, got,
                 faults>>
-----------------------------------------------------------------------------
(* Receiving *)

\* The frame that end e reads next.
Arriving(e) == Head(wire[Peer(e)])

\* The tag of a frame verifies at e.
Authentic(e, f) == f.intact /\ f.key = RecvKey(e)

\* Faulty variant of Replayed: also compares the first frame of a session.
UnguardedReplayed(e, f) == f.ctr <= recvMax[e]

\* The counter of a frame repeats or rewinds.
Replayed(e, f) == recvSeen[e] /\ f.ctr <= recvMax[e]

Read(e) ==
  /\ fate[e] = "up"
  /\ wire[Peer(e)] # <<>>
  /\ wire' = [wire EXCEPT ![Peer(e)] = Tail(@)]
  /\ UNCHANGED <<sendCtr, held, queue, sealed, used, faults>>

\* Open refuses a frame whose tag does not verify; both ends then stop.
OpenFails(e) ==
  /\ Read(e)
  /\ ~Authentic(e, Arriving(e))
  /\ fate' = [fate EXCEPT ![e] = "forged"]
  /\ UNCHANGED <<recvMax, recvSeen, got>>

\* Open refuses a frame whose counter does not advance; both ends then stop.
OpenReplayed(e) ==
  /\ Read(e)
  /\ Authentic(e, Arriving(e)) /\ Replayed(e, Arriving(e))
  /\ fate' = [fate EXCEPT ![e] = "replayed"]
  /\ UNCHANGED <<recvMax, recvSeen, got>>

\* Faulty variant of OpenAdvances: forgets to note the counter.
ForgetfulOpenAdvances(e) ==
  LET f == Arriving(e) IN
  /\ Read(e)
  /\ Authentic(e, f) /\ ~Replayed(e, f)
  /\ got' = [got EXCEPT ![e] =
               Append(@, [ctr |-> f.ctr, len |-> RealLen(f.prefix)])]
  /\ UNCHANGED <<recvMax, recvSeen, fate>>

\* Open accepts the counter, and delivers the payload if its length prefix
\* fits into the frame.
OpenAdvances(e) ==
  LET f == Arriving(e) IN
  /\ Read(e)
  /\ Authentic(e, f) /\ ~Replayed(e, f)
  /\ recvMax' = [recvMax EXCEPT ![e] = f.ctr]
  /\ recvSeen' = [recvSeen EXCEPT ![e] = TRUE]
  /\ IF RealLen(f.prefix) > f.size - 2
     THEN /\ fate' = [fate EXCEPT ![e] = "short"]
          /\ UNCHANGED got
     ELSE /\ got' = [got EXCEPT ![e] =
                       Append(@, [ctr |-> f.ctr, len |-> RealLen(f.prefix)])]
          /\ UNCHANGED fate
-----------------------------------------------------------------------------
(* Faults of the transport that Open is meant to withstand *)

\* A frame whose counter field and sealed bytes have changed.
Damaged(f, ctr) ==
  [key |-> f.key, ctr |-> ctr, intact |-> FALSE, prefix |-> f.prefix,
   size |-> f.size]

\* The frame at the head of the wire is damaged.
Damage(e, ctr) ==
  /\ faults < MaxFaults
  /\ wire[e] # <<>>
  /\ wire' = [wire EXCEPT ![e] =
       <<Damaged(Head(@), ctr)>> \o Tail(@)]
  /\ faults' = faults + 1
  /\ UNCHANGED <<sendCtr, recvMax, recvSeen, held, queue, fate, sealed, used,
                 got>>

\* The frame at the head of the wire arrives once more, after the others.
Repeat(e) ==
  /\ faults < MaxFaults
  /\ wire[e] # <<>>
  /\ wire' = [wire EXCEPT ![e] = Append(@, Head(@))]
  /\ faults' = faults + 1
  /\ UNCHANGED <<sendCtr, recvMax, recvSeen, held, queue, fate, sealed, used,
                 got>>

Open(e) == OpenFails(e) \/ OpenReplayed(e) \/ OpenAdvances(e)

Next ==
  \/ \E t \in Threads, n \in Lengths, p \in Pads : Seal(t, n, p)
  \/ \E t \in Writers : WritePacket(t)
  \/ Enqueue
  \/ WriteLoop
  \/ \E e \in Ends : Open(e) \/ Repeat(e)
  \/ \E e \in Ends, ctr \in 0 .. MaxFrames : Damage(e, ctr)

Spec == Init /\ [][Next]_vars
-----------------------------------------------------------------------------
Frames == [key : {"c2s", "s2c"}, ctr : Nat, intact : BOOLEAN,
           prefix : Nat \X Nat, size : Nat]

\* Every variable has its type.
TypeOK ==
  /\ sendCtr \in [Ends -> Nat]
  /\ recvMax \in [Ends -> Nat]
  /\ recvSeen \in [Ends -> BOOLEAN]
  /\ held \in [Threads -> Frames \cup {NoFrame}]
  /\ queue \in Seq(Frames) /\ Len(queue) <= QueueCap
  /\ wire \in [Ends -> Seq(Frames)]
  /\ fate \in [Ends -> {"up", "forged", "replayed", "short"}]
  /\ sealed \in [Ends -> Seq(Nat)]
  /\ used \in SUBSET ({"c2s", "s2c"} \X Nat)
  /\ got \in [Ends -> Seq([ctr : Nat, len : Nat])]
  /\ faults \in Nat

\* No key and counter are used for two frames: every sealRaw of either end,
\* from any thread, takes a pair that was never used before.
NonceFresh == [][sealed' # sealed => used' # used]_vars

\* What an end delivers advances strictly: nothing is delivered twice or out
\* of order, whatever the transport damages or repeats.
DeliveredInOrder ==
  \A e \in Ends : \A i, j \in 1 .. Len(got[e]) :
    i < j => got[e][i].ctr < got[e][j].ctr

\* Every delivered packet is one the peer sealed, at its full length: the
\* pad is stripped and the length prefix neither truncates nor extends it.
DeliveredAsSealed ==
  \A e \in Ends : \A i \in 1 .. Len(got[e]) :
    LET d == got[e][i] IN
    /\ d.ctr < Len(sealed[Peer(e)])
    /\ d.len = sealed[Peer(e)][d.ctr + 1]

\* One thread writes to the client's tunnel, as Tunnel's comment asks.
OneWriter == \A t, u \in Writers : t = u

\* Over a transport without faults Open never refuses a frame: dropped frames
\* leave gaps, but the counters that arrive always advance.
NoFrameRefused == faults = 0 => \A e \in Ends : fate[e] = "up"

-----------------------------------------------------------------------------
(* The inductive invariant *)

\* A frame that opens is one that end e sealed; log has the packet lengths.
SealedBy(e, f, log) ==
  f.intact =>
    /\ f.key = SendKey(e)
    /\ f.ctr < Len(log)
    /\ f.prefix = LengthPrefix(log[f.ctr + 1])
    /\ f.size - 2 >= log[f.ctr + 1]

\* Every frame under way was sealed by the end it comes from.
UnderWay ==
  /\ \A e \in Ends : Len(sealed[e]) = sendCtr[e]
  /\ \A e \in Ends : \A i \in 1 .. Len(sealed[e]) : sealed[e][i] \in Lengths
  /\ \A t \in Threads :
       held[t] # NoFrame => SealedBy(EndOf(t), held[t], sealed[EndOf(t)])
  /\ \A i \in 1 .. Len(queue) : SealedBy("server", queue[i], sealed["server"])
  /\ \A e \in Ends : \A i \in 1 .. Len(wire[e]) :
       SealedBy(e, wire[e][i], sealed[e])

\* The pairs used are the counters below sendCtr, under the key of the end.
UsedBelow ==
  \A e \in Ends : \A u \in used : u[1] = SendKey(e) => u[2] < sendCtr[e]

\* recvMax covers what was delivered.
RecvMaxCovers ==
  \A e \in Ends : \A i \in 1 .. Len(got[e]) :
    recvSeen[e] /\ got[e][i].ctr <= recvMax[e]

\* An end has read only counters below c.
ReadBelow(e, c) == recvSeen[e] => recvMax[e] < c

\* The counters of a sequence of frames increase.
Increasing(fs) ==
  \A i, j \in 1 .. Len(fs) : i < j => fs[i].ctr < fs[j].ctr

\* Without faults and with one writer the counters increase from what the
\* peer has read, over the wire and the queue, to the frame being passed on
\* and to sendCtr.
OnTheWayInOrder ==
  OneWriter /\ faults = 0 =>
    /\ Increasing(queue)
    /\ \A j \in 1 .. Len(queue) :
         /\ queue[j].intact
         /\ ReadBelow("client", queue[j].ctr)
         /\ \A i \in 1 .. Len(wire["server"]) : wire["server"][i].ctr < queue[j].ctr
         /\ held[TunReader] # NoFrame => queue[j].ctr < held[TunReader].ctr
    /\ \A e \in Ends :
         /\ Increasing(wire[e])
         /\ ReadBelow(Peer(e), sendCtr[e])
         /\ \A i \in 1 .. Len(wire[e]) :
              wire[e][i].intact /\ ReadBelow(Peer(e), wire[e][i].ctr)
    /\ \A t \in Threads : held[t] # NoFrame =>
         /\ held[t].intact
         /\ ReadBelow(Peer(EndOf(t)), held[t].ctr)
         /\ \A i \in 1 .. Len(wire[EndOf(t)]) : wire[EndOf(t)][i].ctr < held[t].ctr

SessionInv ==
  /\ TypeOK
  /\ UnderWay
  /\ UsedBelow
  /\ RecvMaxCovers
  /\ DeliveredInOrder
  /\ DeliveredAsSealed
  /\ OnTheWayInOrder
  /\ OneWriter => NoFrameRefused
=============================================================================
