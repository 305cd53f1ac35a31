-------------------------------- MODULE TunnelIO --------------------------------
(***************************************************************************)
(* One tunnel of the desktop client from its handshake to its end          *)
(* (src/internal/client/tunnel.go, pump.go, RunTUN of tundev.go, RunProxy  *)
(* of proxy.go): the goroutines that share the connection, the device and  *)
(* the lock writeMu.                                                       *)
(*                                                                         *)
(*   run    Connect, then RunTUN or RunProxy, then Close (supervise)       *)
(*   out    pump, device to server: WritePacket                            *)
(*   in     pump, server to device: ReadPacket                             *)
(*   alive  KeepAlive                                                      *)
(*   watch  closes the device when the context ends (RunTUN only)          *)
(*   user   Disconnect of the controller: cancel, then Close               *)
(*                                                                         *)
(* Over a stalled connection (the peer does not read, or a path is dead    *)
(* that TCP has not given up) writes block until their deadline, if they   *)
(* have one, and reads block.  Module ClientTunnel puts these steps        *)
(* together with those of Routes.                                          *)
(***************************************************************************)
EXTENDS Naturals

CONSTANT NoOne

Threads == {"run", "out", "in", "alive", "watch", "user"}

VARIABLES
  mode,       \* "tun" or "proxy", for all sessions
  net,        \* the connection: "none", "up", "stalled", "lost" or "closed"
  broken,     \* a write has missed its deadline: every later one fails
  dev,        \* the device: "none", "open" or "closed"
  cancelled,  \* the context has ended
  done,       \* the channel done is closed
  errc,       \* errors in the channel of pump
  writeMu,    \* who holds the lock
  pc

vars == <<mode, net, broken, dev, cancelled, done, errc, writeMu, pc>>
Tun == mode = "tun"

Goto(t, l) == pc' = [pc EXCEPT ![t] = l]

\* A write on the connection returns at once: with success or with an error.
WriteSucceeds == net = "up" /\ ~broken
WriteErrs == broken \/ net \in {"lost", "closed"}

Lock(t, l) ==
  /\ pc[t] = "lock" /\ writeMu = NoOne
  /\ writeMu' = t
  /\ Goto(t, l)
  /\ UNCHANGED <<mode, net, broken, dev, cancelled, done, errc>>
-----------------------------------------------------------------------------
(* Connect and handshake *)

\* The dial, with its own timeouts; it ends early with the context.
Dial ==
  /\ pc["run"] = "dial"
  /\ \/ net' = "up" /\ Goto("run", "hello")
     \/ net' = net /\ Goto("run", "end")
  /\ UNCHANGED <<mode, broken, dev, cancelled, done, errc, writeMu>>

\* The hello is written within 10 s.
SendHello ==
  /\ pc["run"] = "hello" /\ WriteSucceeds
  /\ Goto("run", "welcome")
  /\ UNCHANGED <<mode, net, broken, dev, cancelled, done, errc, writeMu>>

\* Faulty variant of HandshakeFails: the connection is left open.
LeakyHandshakeFails ==
  /\ pc["run"] \in {"hello", "welcome"}
  /\ Goto("run", "end")
  /\ UNCHANGED <<mode, net, broken, dev, cancelled, done, errc, writeMu>>

\* An error, a refusal, an answer that is not a welcome, or a deadline.
HandshakeFails ==
  /\ pc["run"] \in {"hello", "welcome"}
  /\ net' = "closed"
  /\ Goto("run", "end")
  /\ UNCHANGED <<mode, broken, dev, cancelled, done, errc, writeMu>>

\* The welcome is there within 15 s; the deadlines are taken off.
Welcomed ==
  /\ pc["run"] = "welcome" /\ net = "up"
  /\ Goto("run", "start")
  /\ UNCHANGED <<mode, net, broken, dev, cancelled, done, errc, writeMu>>
-----------------------------------------------------------------------------
(* RunTUN and RunProxy *)

\* The device is there and configured: the goroutines start.
Start ==
  /\ pc["run"] = "start"
  /\ dev' = "open"
  /\ pc' = [pc EXCEPT !["run"] = "wait", !["out"] = "read", !["in"] = "read",
                      !["alive"] = "wait", !["watch"] = IF Tun THEN "wait" ELSE "end"]
  /\ UNCHANGED <<mode, net, broken, cancelled, done, errc, writeMu>>

\* The device or its configuration fails, before any of them.
StartFails ==
  /\ pc["run"] = "start"
  /\ Goto("run", "lock")
  /\ UNCHANGED <<mode, net, broken, dev, cancelled, done, errc, writeMu>>

\* pump returns the first error; RunProxy also returns with its context.  The
\* deferred calls begin.
RunReturns ==
  /\ pc["run"] = "wait"
  /\ errc > 0 \/ (~Tun /\ cancelled)
  /\ errc' = IF errc > 0 THEN errc - 1 ELSE errc
  /\ done' = TRUE
  /\ Goto("run", "defer")
  /\ UNCHANGED <<mode, net, broken, dev, cancelled, writeMu>>

\* net.Listen fails, when the goroutines are there already, or an accept loop does;
\* RunProxy returns.
ListenerFails ==
  /\ pc["run"] = "wait" /\ ~Tun
  /\ done' = TRUE
  /\ Goto("run", "defer")
  /\ UNCHANGED <<mode, net, broken, dev, cancelled, errc, writeMu>>

\* Faulty variant of DeferredClose: the device is not closed.
LeakyDeferredClose ==
  /\ pc["run"] = "defer"
  /\ Goto("run", "lock")
  /\ UNCHANGED <<mode, net, broken, dev, cancelled, done, errc, writeMu>>

\* They end: RunTUN closes the device, the user-space one of RunProxy stays.
DeferredClose ==
  /\ pc["run"] = "defer"
  /\ dev' = IF Tun THEN "closed" ELSE dev
  /\ Goto("run", "lock")
  /\ UNCHANGED <<mode, net, broken, cancelled, done, errc, writeMu>>

\* The goroutine of RunTUN that waits for the context.
Watch ==
  /\ pc["watch"] = "wait" /\ cancelled
  /\ dev' = "closed"
  /\ Goto("watch", "end")
  /\ UNCHANGED <<mode, net, broken, cancelled, done, errc, writeMu>>
-----------------------------------------------------------------------------
(* pump *)

\* A goroutine of pump ends with an error in errc, which has room for both.
PumpEnds(t) == errc' = errc + 1 /\ Goto(t, "end")

\* A packet from the device, to be sealed and written.
OutPacket ==
  /\ pc["out"] = "read" /\ dev = "open"
  /\ Goto("out", "lock")
  /\ UNCHANGED <<mode, net, broken, dev, cancelled, done, errc, writeMu>>

\* The device fails, as it does for good when it is closed.
OutErrs ==
  /\ pc["out"] = "read"
  /\ PumpEnds("out")
  /\ UNCHANGED <<mode, net, broken, dev, cancelled, done, writeMu>>

\* WritePacket, which has no deadline.
OutWrites ==
  /\ pc["out"] = "write"
  /\ \/ WriteSucceeds /\ Goto("out", "read") /\ UNCHANGED errc
     \/ WriteErrs /\ PumpEnds("out")
  /\ writeMu' = NoOne
  /\ UNCHANGED <<mode, net, broken, dev, cancelled, done>>

\* ReadPacket returns a packet; control messages are skipped.
InPacket ==
  /\ pc["in"] = "read" /\ net = "up"
  /\ Goto("in", "write")
  /\ UNCHANGED <<mode, net, broken, dev, cancelled, done, errc, writeMu>>

\* A frame that does not decrypt ends the tunnel.
InBadFrame ==
  /\ pc["in"] = "read" /\ net = "up"
  /\ PumpEnds("in")
  /\ UNCHANGED <<mode, net, broken, dev, cancelled, done, writeMu>>

InErrs ==
  /\ pc["in"] = "read" /\ net \in {"lost", "closed"}
  /\ PumpEnds("in")
  /\ UNCHANGED <<mode, net, broken, dev, cancelled, done, writeMu>>

\* The write fails on a device that is closed, and may on one that is open.
InWrites ==
  /\ pc["in"] = "write"
  /\ \/ dev = "open" /\ Goto("in", "read") /\ UNCHANGED errc
     \/ PumpEnds("in")
  /\ UNCHANGED <<mode, net, broken, dev, cancelled, done, writeMu>>
-----------------------------------------------------------------------------
(* KeepAlive *)

Tick ==
  /\ pc["alive"] = "wait"
  /\ Goto("alive", "lock")
  /\ UNCHANGED <<mode, net, broken, dev, cancelled, done, errc, writeMu>>

AliveDone ==
  /\ pc["alive"] = "wait" /\ done
  /\ Goto("alive", "end")
  /\ UNCHANGED <<mode, net, broken, dev, cancelled, done, errc, writeMu>>

\* A ping, with a deadline of 10 s; an error ends KeepAlive, and nothing else.
Ping ==
  /\ pc["alive"] = "write"
  /\ \/ WriteSucceeds /\ Goto("alive", "wait") /\ UNCHANGED broken
     \/ WriteErrs /\ Goto("alive", "end") /\ UNCHANGED broken
     \/ net = "stalled" /\ broken' = TRUE /\ Goto("alive", "end")
  /\ writeMu' = NoOne
  /\ UNCHANGED <<mode, net, dev, cancelled, done, errc>>
-----------------------------------------------------------------------------
(* Close, called by supervise and by Disconnect *)

\* The close message, written within 2 s whatever happens.
CloseMessage(t) ==
  /\ pc[t] = "control"
  /\ writeMu' = NoOne
  /\ Goto(t, "close")
  /\ UNCHANGED <<mode, net, broken, dev, cancelled, done, errc>>

CloseConn(t) ==
  /\ pc[t] = "close"
  /\ net' = "closed"
  /\ Goto(t, "end")
  /\ UNCHANGED <<mode, broken, dev, cancelled, done, errc, writeMu>>

\* Disconnect finds the tunnel of a session that was published.
Disconnect ==
  /\ pc["user"] = "none"
  /\ pc["run"] \in {"start", "wait", "defer", "lock", "control", "close"}
  /\ cancelled' = TRUE
  /\ Goto("user", "lock")
  /\ UNCHANGED <<mode, net, broken, dev, done, errc, writeMu>>

\* The command that connects is interrupted; it has no Disconnect.
Interrupt ==
  /\ pc["user"] = "none" /\ pc["run"] \in {"start", "wait", "defer"}
  /\ cancelled' = TRUE
  /\ Goto("user", "end")
  /\ UNCHANGED <<mode, net, broken, dev, done, errc, writeMu>>

\* The process ends, and with it all that it holds.
ProcessEnds ==
  /\ pc' = [t \in Threads |-> "end"]
  /\ net' = "none" /\ dev' = "none" /\ writeMu' = NoOne
  /\ broken' = FALSE /\ cancelled' = FALSE /\ done' = FALSE /\ errc' = 0
  /\ UNCHANGED mode
-----------------------------------------------------------------------------
(* The network *)

Stall ==
  /\ net = "up" /\ net' = "stalled"
  /\ UNCHANGED <<mode, broken, dev, cancelled, done, errc, writeMu, pc>>

Recover ==
  /\ net = "stalled" /\ net' = "up"
  /\ UNCHANGED <<mode, broken, dev, cancelled, done, errc, writeMu, pc>>

Lose ==
  /\ net \in {"up", "stalled"} /\ net' = "lost"
  /\ UNCHANGED <<mode, broken, dev, cancelled, done, errc, writeMu, pc>>
-----------------------------------------------------------------------------
Init ==
  /\ mode \in {"tun", "proxy"}
  /\ net = "none" /\ broken = FALSE /\ dev = "none"
  /\ cancelled = FALSE /\ done = FALSE /\ errc = 0
  /\ writeMu = NoOne
  /\ pc = [t \in Threads |-> IF t = "run" THEN "dial" ELSE "none"]

\* All goroutines have returned, but for those that need not: the one that waits
\* for the context, and the reader of RunProxy's user-space device, which nobody
\* closes.
Over ==
  /\ pc["run"] = "end"
  /\ \A t \in {"in", "alive", "user"} : pc[t] \in {"none", "end"}
  /\ Tun => pc["out"] \in {"none", "end"}

\* Then another session takes its place.
NextSession ==
  /\ Over
  /\ net' = "none" /\ broken' = FALSE /\ dev' = "none"
  /\ cancelled' = FALSE /\ done' = FALSE /\ errc' = 0
  /\ writeMu' = NoOne
  /\ pc' = [t \in Threads |-> IF t = "run" THEN "dial" ELSE "none"]
  /\ UNCHANGED mode
=============================================================================
