-------------------------------- MODULE Server --------------------------------
(***************************************************************************)
(* The tunnel server of src/internal/server/server.go: the address pool    *)
(* (module IPPool), the registry s.clients, and for every connection the   *)
(* handler goroutine (handshake, register, readLoop, deregister), its      *)
(* writeLoop goroutine and its bounded send queue, next to the single      *)
(* goroutine tunReadLoop.                                                  *)
(*                                                                         *)
(* A step ends where the code releases a lock, blocks, or another          *)
(* goroutine can see what it did.  Packets are their addresses; what the   *)
(* checks of the handshake decide is a choice here (module ReplayGuard has *)
(* them), and frame counters are in module Session.                        *)
(***************************************************************************)
EXTENDS IPPool, Sequences

CONSTANTS Conns,        \* identities of accepted connections
          NoConn,       \* the nil *client
          QueueCap      \* capacity of c.send, 256 in the code

ASSUME ServerAssumption ==
  /\ NoConn \notin Conns
  /\ QueueCap \in Nat \ {0}
  /\ Routable          \* a narrower CIDR has no address for any client

VARIABLES
  pc,           \* where the handler goroutine of a connection is
  ip,           \* c.ip / c.ipKey
  alive,        \* the peer and the network still carry the connection
  closed,       \* c.closed is closed and conn.Close has been called
  writer,       \* where the connection's writeLoop goroutine is
  queue,        \* c.send
  clients,      \* s.clients, NoConn where the map has no key
  tunPc,        \* where tunReadLoop is
  tunDst,       \* destination of the packet tunReadLoop is routing
  tunClient,    \* the *client tunReadLoop has looked up
  tunOut        \* the last packet written to the TUN: source and connection

connVars == <<pc, ip, alive, closed, writer, queue>>
tunVars  == <<tunPc, tunDst, tunClient, tunOut>>
vars     == <<poolVars, connVars, clients, tunVars>>

\* No uint32.
NoAddress == Word

\* The nil frame that asks writeLoop for a pong.
Pong == Word

\* Nothing is on its way into the TUN device.
NoPacket == [src |-> NoAddress, from |-> NoConn]

\* The handler has an address between Allocate and Release.
Holding == {"welcome", "register", "running", "deregister", "release"}
HandlerPc == Holding \cup {"none", "hello", "allocate", "reject", "close", "done"}
WriterPc == {"off", "select", "data", "pong", "ping", "done"}

Holders == {c \in Conns : pc[c] \in Holding}

\* A write or read on the connection can still succeed.
Open(c) == alive[c] /\ ~closed[c]
-----------------------------------------------------------------------------
Init ==
  /\ PoolInit
  /\ pc = [c \in Conns |-> "none"]
  /\ ip = [c \in Conns |-> NoAddress]
  /\ alive = [c \in Conns |-> TRUE]
  /\ closed = [c \in Conns |-> FALSE]
  /\ writer = [c \in Conns |-> "off"]
  /\ queue = [c \in Conns |-> <<>>]
  /\ clients = [a \in Uint32 |-> NoConn]
  /\ tunPc = "read" /\ tunDst = NoAddress /\ tunClient = NoConn
  /\ tunOut = NoPacket

Goto(c, label) == pc' = [pc EXCEPT ![c] = label]
-----------------------------------------------------------------------------
(* handleTunnel and handshake *)

\* A WebSocket upgrade succeeds and handleTunnel begins.
Accept(c) ==
  /\ pc[c] = "none"
  /\ Goto(c, "hello")
  /\ UNCHANGED <<poolVars, ip, alive, closed, writer, queue, clients, tunVars>>

\* The hello passes every check up to and including replay.observe.
HelloAccepted(c) ==
  /\ pc[c] = "hello"
  /\ Goto(c, "allocate")
  /\ UNCHANGED <<poolVars, ip, alive, closed, writer, queue, clients, tunVars>>

\* No hello within the 15 second deadline, or one that fails a check.
HelloRejected(c) ==
  /\ pc[c] = "hello"
  /\ Goto(c, "reject")
  /\ UNCHANGED <<poolVars, ip, alive, closed, writer, queue, clients, tunVars>>

\* pool.Allocate gives the connection an address.
AddressGranted(c) ==
  /\ pc[c] = "allocate"
  /\ \E a \in Uint32 : Allocate(a) /\ ip' = [ip EXCEPT ![c] = a]
  /\ Goto(c, "welcome")
  /\ UNCHANGED <<alive, closed, writer, queue, clients, tunVars>>

\* pool.Allocate reports that the pool is exhausted.
AddressRefused(c) ==
  /\ pc[c] = "allocate"
  /\ AllocateFails
  /\ Goto(c, "reject")
  /\ UNCHANGED <<ip, alive, closed, writer, queue, clients, tunVars>>

\* The welcome is written (it may be written to a peer that is gone already).
WelcomeSent(c) ==
  /\ pc[c] = "welcome"
  /\ Goto(c, "register")
  /\ UNCHANGED <<poolVars, ip, alive, closed, writer, queue, clients, tunVars>>

\* Faulty variant of WelcomeFails: the error path forgets pool.Release.
LeakyWelcomeFails(c) ==
  /\ pc[c] = "welcome"
  /\ Goto(c, "reject")
  /\ UNCHANGED <<poolVars, ip, alive, closed, writer, queue, clients, tunVars>>

\* The welcome cannot be written within its 10 second deadline; the address
\* goes back to the pool before the handshake returns the error.
WelcomeFails(c) ==
  /\ pc[c] = "welcome"
  /\ Release(ip[c])
  /\ Goto(c, "reject")
  /\ UNCHANGED <<ip, alive, closed, writer, queue, clients, tunVars>>

\* The handshake failed: the error message is tried and the connection closed.
Reject(c) ==
  /\ pc[c] = "reject"
  /\ closed' = [closed EXCEPT ![c] = TRUE]
  /\ Goto(c, "done")
  /\ UNCHANGED <<poolVars, ip, alive, writer, queue, clients, tunVars>>

\* register under s.mu, closing a client found at the same address, and then
\* the start of the writeLoop goroutine.
Register(c) ==
  /\ pc[c] = "register"
  /\ closed' = [d \in Conns |-> closed[d] \/ d = clients[ip[c]]]
  /\ clients' = [clients EXCEPT ![ip[c]] = c]
  /\ writer' = [writer EXCEPT ![c] = "select"]
  /\ Goto(c, "running")
  /\ UNCHANGED <<poolVars, ip, alive, queue, tunVars>>
-----------------------------------------------------------------------------
(* readLoop *)

\* Faulty variant of ReadPacket: without the anti-spoofing comparison.
SpoofedReadPacket(c) ==
  /\ pc[c] = "running"
  /\ tunOut = NoPacket
  /\ \E src \in Uint32 : tunOut' = [src |-> src, from |-> c]
  /\ UNCHANGED <<poolVars, connVars, clients, tunPc, tunDst, tunClient>>

\* A frame opens to an IPv4 packet, which is written to the TUN when its
\* source is the client's address.  Any other packet is dropped: no step.
ReadPacket(c) ==
  /\ pc[c] = "running"
  /\ tunOut = NoPacket
  /\ \E src \in Uint32 :
        /\ src = ip[c]
        /\ tunOut' = [src |-> src, from |-> c]
  /\ UNCHANGED <<poolVars, connVars, clients, tunPc, tunDst, tunClient>>

\* The kernel takes the packet that was written to the TUN device.
TunTaken ==
  /\ tunOut # NoPacket
  /\ tunOut' = NoPacket
  /\ UNCHANGED <<poolVars, connVars, clients, tunPc, tunDst, tunClient>>

\* A text ping asks the writer for a pong, which is dropped when the queue
\* is full: no step.
ReadPing(c) ==
  /\ pc[c] = "running"
  /\ Len(queue[c]) < QueueCap
  /\ queue' = [queue EXCEPT ![c] = Append(@, Pong)]
  /\ UNCHANGED <<poolVars, pc, ip, alive, closed, writer, clients, tunVars>>

\* Faulty variant of ReadFails: the loop goes on after a read error and
\* notices only a local close.
StubbornReadFails(c) ==
  /\ pc[c] = "running"
  /\ closed[c]
  /\ Goto(c, "deregister")
  /\ UNCHANGED <<poolVars, ip, alive, closed, writer, queue, clients, tunVars>>

\* ReadMessage fails because the connection is gone or was closed.
ReadFails(c) ==
  /\ pc[c] = "running"
  /\ ~Open(c)
  /\ Goto(c, "deregister")
  /\ UNCHANGED <<poolVars, ip, alive, closed, writer, queue, clients, tunVars>>

\* session.Open rejects a frame, or a frame exceeds the read limit: readLoop
\* returns although the connection still works.
FrameRejected(c) ==
  /\ pc[c] = "running"
  /\ Open(c)
  /\ Goto(c, "deregister")
  /\ UNCHANGED <<poolVars, ip, alive, closed, writer, queue, clients, tunVars>>
-----------------------------------------------------------------------------
(* deregister: three steps, because s.mu is unlocked before pool.Release *)

\* Faulty variant of Deregister: the entry is left in the registry.
StaleDeregister(c) ==
  /\ pc[c] = "deregister"
  /\ Goto(c, "release")
  /\ UNCHANGED <<poolVars, ip, alive, closed, writer, queue, clients, tunVars>>

\* Under s.mu, the client's entry is deleted if it is still its own.
Deregister(c) ==
  /\ pc[c] = "deregister"
  /\ clients' = [clients EXCEPT ![ip[c]] = IF @ = c THEN NoConn ELSE @]
  /\ Goto(c, "release")
  /\ UNCHANGED <<poolVars, ip, alive, closed, writer, queue, tunVars>>

\* pool.Release.
ReleaseAddress(c) ==
  /\ pc[c] = "release"
  /\ Release(ip[c])
  /\ Goto(c, "close")
  /\ UNCHANGED <<ip, alive, closed, writer, queue, clients, tunVars>>

\* c.close(); the handler returns.
CloseClient(c) ==
  /\ pc[c] = "close"
  /\ closed' = [closed EXCEPT ![c] = TRUE]
  /\ Goto(c, "done")
  /\ UNCHANGED <<poolVars, ip, alive, writer, queue, clients, tunVars>>
-----------------------------------------------------------------------------
(* writeLoop *)

\* The select notices c.closed.
WriterStops(c) ==
  /\ writer[c] = "select" /\ closed[c]
  /\ writer' = [writer EXCEPT ![c] = "done"]
  /\ UNCHANGED <<poolVars, pc, ip, alive, closed, queue, clients, tunVars>>

\* The select may take a frame although c.closed is ready too.
WriterTakes(c) ==
  /\ writer[c] = "select" /\ queue[c] # <<>>
  /\ writer' = [writer EXCEPT ![c] = IF Head(queue[c]) = Pong THEN "pong" ELSE "data"]
  /\ queue' = [queue EXCEPT ![c] = Tail(@)]
  /\ UNCHANGED <<poolVars, pc, ip, alive, closed, clients, tunVars>>

\* The 25 second ticker fires.
WriterPings(c) ==
  /\ writer[c] = "select"
  /\ writer' = [writer EXCEPT ![c] = "ping"]
  /\ UNCHANGED <<poolVars, pc, ip, alive, closed, queue, clients, tunVars>>

\* A write to a peer that reads, or into the socket's buffer.  The write of a
\* data frame has no deadline: it may also stay blocked until close().
WriteSucceeds(c) ==
  /\ writer[c] \in {"data", "pong", "ping"} /\ ~closed[c]
  /\ writer' = [writer EXCEPT ![c] = "select"]
  /\ UNCHANGED <<poolVars, pc, ip, alive, closed, queue, clients, tunVars>>

\* Faulty variant of WriteFails: the writer goes away without c.close().
SilentWriteFails(c) ==
  /\ \/ writer[c] = "data" /\ ~Open(c)
     \/ writer[c] = "ping"
  /\ writer' = [writer EXCEPT ![c] = "done"]
  /\ UNCHANGED <<poolVars, pc, ip, alive, closed, queue, clients, tunVars>>

\* The write of a data frame fails, or a ping misses its 10 second deadline:
\* c.close() and the writer returns.
WriteFails(c) ==
  /\ \/ writer[c] = "data" /\ ~Open(c)
     \/ writer[c] = "ping"
  /\ closed' = [closed EXCEPT ![c] = TRUE]
  /\ writer' = [writer EXCEPT ![c] = "done"]
  /\ UNCHANGED <<poolVars, pc, ip, alive, queue, clients, tunVars>>

\* The error of a pong's write is ignored.
PongFails(c) ==
  /\ writer[c] = "pong" /\ ~Open(c)
  /\ writer' = [writer EXCEPT ![c] = "select"]
  /\ UNCHANGED <<poolVars, pc, ip, alive, closed, queue, clients, tunVars>>
-----------------------------------------------------------------------------
(* tunReadLoop *)

\* The addresses the kernel routes to the TUN device: configureNetwork gives
\* the device the gateway's address with the CIDR's prefix length.
TunnelNet == Base .. Base + Size - 1

\* An IPv4 packet arrives from the internet.  Shorter packets and other
\* versions are skipped: no step.
TunRead ==
  /\ tunPc = "read"
  /\ tunPc' = "lookup"
  /\ tunDst' \in TunnelNet
  /\ UNCHANGED <<poolVars, connVars, clients, tunClient, tunOut>>

\* The read fails: the loop is over, and the server goes on without it.
TunReadFails ==
  /\ tunPc = "read"
  /\ tunPc' = "end"
  /\ UNCHANGED <<poolVars, connVars, clients, tunDst, tunClient, tunOut>>

\* Faulty variant of TunLookup: any registered client is taken.
MisroutedTunLookup ==
  /\ tunPc = "lookup"
  /\ \E a \in Uint32 :
       /\ tunClient' = clients[a]
       /\ tunPc' = IF clients[a] = NoConn THEN "read" ELSE "send"
       /\ tunDst' = IF clients[a] = NoConn THEN NoAddress ELSE tunDst
  /\ UNCHANGED <<poolVars, connVars, clients, tunOut>>

\* Under the read lock, the packet's client is looked up by destination.  The
\* pointer is used after the unlock, when the client may be gone.
TunLookup ==
  /\ tunPc = "lookup"
  /\ tunClient' = clients[tunDst]
  /\ tunPc' = IF clients[tunDst] = NoConn THEN "read" ELSE "send"
  /\ tunDst' = IF clients[tunDst] = NoConn THEN NoAddress ELSE tunDst
  /\ UNCHANGED <<poolVars, connVars, clients, tunOut>>

\* Faulty variant of TunSend: waits for room in the queue.
BlockingTunSend ==
  /\ tunPc = "send"
  /\ Len(queue[tunClient]) < QueueCap
  /\ queue' = [queue EXCEPT ![tunClient] = Append(@, tunDst)]
  /\ tunPc' = "read" /\ tunClient' = NoConn /\ tunDst' = NoAddress
  /\ UNCHANGED <<poolVars, pc, ip, alive, closed, writer, clients, tunOut>>

\* The packet is sealed and queued, or dropped when the queue is full.
TunSend ==
  /\ tunPc = "send"
  /\ queue' = IF Len(queue[tunClient]) < QueueCap
              THEN [queue EXCEPT ![tunClient] = Append(@, tunDst)]
              ELSE queue
  /\ tunPc' = "read" /\ tunClient' = NoConn /\ tunDst' = NoAddress
  /\ UNCHANGED <<poolVars, pc, ip, alive, closed, writer, clients, tunOut>>
-----------------------------------------------------------------------------
\* The peer goes away or the network breaks the connection.
Break(c) ==
  /\ alive[c]
  /\ pc[c] \notin {"none", "done"}
  /\ alive' = [alive EXCEPT ![c] = FALSE]
  /\ UNCHANGED <<poolVars, pc, ip, closed, writer, queue, clients, tunVars>>

\* Nothing refers to a finished connection any more, so its identity can
\* stand for a new one.
Forget(c) ==
  /\ pc[c] = "done" /\ writer[c] \in {"off", "done"}
  /\ tunClient # c /\ tunOut.from # c
  /\ \A a \in Uint32 : clients[a] # c
  /\ pc' = [pc EXCEPT ![c] = "none"]
  /\ ip' = [ip EXCEPT ![c] = NoAddress]
  /\ alive' = [alive EXCEPT ![c] = TRUE]
  /\ closed' = [closed EXCEPT ![c] = FALSE]
  /\ writer' = [writer EXCEPT ![c] = "off"]
  /\ queue' = [queue EXCEPT ![c] = <<>>]
  /\ UNCHANGED <<poolVars, clients, tunVars>>

Handshake(c) ==
  \/ Accept(c) \/ HelloAccepted(c) \/ HelloRejected(c)
  \/ AddressGranted(c) \/ AddressRefused(c)
  \/ WelcomeSent(c) \/ WelcomeFails(c) \/ Reject(c) \/ Register(c)

ReadLoop(c) == ReadPacket(c) \/ ReadPing(c) \/ ReadFails(c) \/ FrameRejected(c)

Deregistration(c) == Deregister(c) \/ ReleaseAddress(c) \/ CloseClient(c)

WriteLoop(c) ==
  \/ WriterStops(c) \/ WriterTakes(c) \/ WriterPings(c)
  \/ WriteSucceeds(c) \/ WriteFails(c) \/ PongFails(c)

TunReadLoop == TunRead \/ TunReadFails \/ TunLookup \/ TunSend

Next ==
  \/ \E c \in Conns :
       \/ Handshake(c) \/ ReadLoop(c) \/ Deregistration(c)
       \/ WriteLoop(c) \/ Break(c) \/ Forget(c)
  \/ TunReadLoop
  \/ TunTaken

\* What the scheduler and the deadlines guarantee: a handler that is not
\* waiting for its peer goes on, a read on a dead connection fails in the
\* end, and so do the writes; tunReadLoop runs whenever it can.
HandlerProgress(c) ==
  \/ HelloAccepted(c) \/ HelloRejected(c)
  \/ AddressGranted(c) \/ AddressRefused(c)
  \/ WelcomeSent(c) \/ WelcomeFails(c) \/ Reject(c) \/ Register(c)
  \/ ReadFails(c) \/ Deregistration(c)

WriterProgress(c) ==
  WriterStops(c) \/ WriterTakes(c) \/ WriteFails(c) \/ PongFails(c)

Fairness ==
  /\ \A c \in Conns : WF_vars(HandlerProgress(c)) /\ WF_vars(WriterProgress(c))
  /\ WF_vars(TunLookup \/ TunSend)

Spec == Init /\ [][Next]_vars

FairSpec == Spec /\ Fairness
-----------------------------------------------------------------------------
\* Every variable has its type; a send queue never exceeds its capacity.
TypeOK ==
  /\ PoolTypeOK
  /\ pc \in [Conns -> HandlerPc]
  /\ ip \in [Conns -> Uint32 \cup {NoAddress}]
  /\ alive \in [Conns -> BOOLEAN]
  /\ closed \in [Conns -> BOOLEAN]
  /\ writer \in [Conns -> WriterPc]
  /\ queue \in [Conns -> Seq(Uint32 \cup {Pong})]
  /\ \A c \in Conns : Len(queue[c]) <= QueueCap
  /\ clients \in [Uint32 -> Conns \cup {NoConn}]
  /\ tunPc \in {"read", "lookup", "send", "end"}
  /\ tunDst \in Uint32 \cup {NoAddress}
  /\ tunClient \in Conns \cup {NoConn}
  /\ tunPc \in {"lookup", "send"} => tunDst \in Uint32
  /\ tunPc = "send" => tunClient \in Conns
  /\ tunOut \in [src : Uint32 \cup {NoAddress}, from : Conns \cup {NoConn}]

\* No two connections hold one tunnel address at a time, from the moment
\* Allocate returns until Release, on every path through handleTunnel.
AddressExclusive ==
  \A c, d \in Holders : c # d => ip[c] # ip[d]

\* The pool's books are exact: an address is assigned if and only if some
\* handler still owes its Release.  No error path leaks an address, and none
\* frees an address that is in use.
AddressAccounting == assigned = {ip[c] : c \in Holders}

\* The registry holds exactly the clients that are between register and the
\* delete in deregister, each under its own address.
RegistryExact ==
  \A c \in Conns, a \in Uint32 :
    clients[a] = c <=> pc[c] \in {"running", "deregister"} /\ ip[c] = a

\* A handler between Allocate and Release has a real address.
HoldersHaveAddress == \A c \in Holders : ip[c] \in Uint32

\* The inductive invariant behind the address properties.
ServerInv ==
  /\ TypeOK
  /\ HoldersHaveAddress
  /\ AddressExclusive
  /\ AddressAccounting
  /\ RegistryExact

\* register never finds an older client at the address: the branch that
\* closes it cannot cut off a live session.
NeverEvicts == \A c \in Conns : pc[c] = "register" => clients[ip[c]] = NoConn

\* A packet read from the TUN is queued only for a connection that owned the
\* packet's destination address, also when that client left between the
\* lookup and the send.
FramesForOwnAddress ==
  /\ tunPc = "send" => ip[tunClient] = tunDst
  /\ \A c \in Conns : \A i \in 1 .. Len(queue[c]) : queue[c][i] \in {ip[c], Pong}

\* A packet with source address a reaches the TUN only from the connection
\* that is registered for a at that moment (the anti-spoofing test together
\* with exclusive addresses).
UplinkFromHolder ==
  [][ tunOut' \notin {tunOut, NoPacket} => clients[tunOut'.src] = tunOut'.from ]_vars

\* When a connection is lost, its handler gives its address back in the end.
LostConnectionFreesAddress == \A c \in Conns : ~alive[c] ~> pc[c] \notin Holding

\* When the writer goes away the whole session ends: the handler finishes.
WriterEndEndsSession == \A c \in Conns : writer[c] = "done" ~> pc[c] \in {"done", "none"}

\* "Drop rather than block the whole tunnel": whatever becomes of the client that
\* a packet is for, and however full its queue, tunReadLoop is done with the packet
\* and comes back to read the next one.
SlowClientNeverBlocks == tunPc \in {"lookup", "send"} ~> tunPc = "read"

\* tunReadLoop "routes each" packet that arrives on the device: it never stops
\* reading while the server serves.
TunnelKeepsReading == []<>(tunPc = "read")
=============================================================================
