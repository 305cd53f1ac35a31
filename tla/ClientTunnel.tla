------------------------------ MODULE ClientTunnel ------------------------------
(***************************************************************************)
(* The desktop client's tunnel in the host's network: the goroutines of    *)
(* TunnelIO and the routing of Routes, as RunTUN, runMode and cmdConnect   *)
(* put them together (src/internal/client/tundev.go, controller.go,        *)
(* src/cmd/arnosvpn-client/main.go).                                       *)
(*                                                                         *)
(* In TUN mode the run goroutine is at "start" until the routes are set,   *)
(* and at "defer" while they are undone; in proxy mode there are none.  A  *)
(* process has one tunnel at a time.  Proxy mode is that of the panel.     *)
(***************************************************************************)
EXTENDS Naturals, Sequences

CONSTANTS NoOne, Servers, Gateway, Elsewhere, Uplinks, MaxUplinks, None

ASSUME ClientTunnelAssumption ==
  /\ Servers # {} /\ MaxUplinks \in Nat
  /\ Gateway \notin Servers /\ Elsewhere \notin Servers \cup {Gateway}
  /\ "tun" \notin Uplinks
  /\ {"0.0.0.0/1", "128.0.0.0/1"} \cap (Servers \cup {Gateway, Elsewhere}) = {}
  /\ NoOne \notin {"run", "out", "in", "alive", "watch", "user"}

VARIABLES mode, net, broken, dev, cancelled, done, errc, writeMu, pc,
          windows, panel, uplinks, table, tun, route, step, carrier, serverIP, orig,
          dirty

T == INSTANCE TunnelIO
R == INSTANCE Routes WITH pc <- route

tunnel  == <<mode, net, broken, dev, cancelled, done, errc, writeMu, pc>>
routing == <<windows, panel, uplinks, table, tun, route, step, carrier, serverIP, orig,
             dirty>>
vars == <<tunnel, routing>>

Init == T!Init /\ R!Init /\ (~T!Tun => panel) /\ (panel => ~windows)

\* A step of one of the two only.
Only(goroutine) == goroutine /\ UNCHANGED routing
OnlyRoutes(command) == command /\ UNCHANGED tunnel
-----------------------------------------------------------------------------
Dial ==
  /\ T!Dial
  /\ IF T!Tun /\ net' = "up" THEN R!Dialled ELSE UNCHANGED routing

HandshakeFails ==
  /\ T!HandshakeFails
  /\ IF T!Tun THEN R!Abandoned ELSE UNCHANGED routing

\* RunProxy starts its goroutines, or fails before; it listens after that.
StartProxy == ~T!Tun /\ Only(T!Start \/ T!StartFails)

\* CreateTUN, and the commands of configureTUN; after the last one RunTUN starts
\* its goroutines.
CreateTUN ==
  /\ T!Tun /\ pc["run"] = "start"
  /\ OnlyRoutes(R!CreateTUN) \/ (R!Abandoned /\ T!StartFails)

ConfigureTUN == OnlyRoutes(R!DefaultRoute \/ R!NoDefaultRoute \/ R!StepFails)

StepDone ==
  /\ R!StepDone
  /\ IF route' = "serving" THEN T!Start ELSE UNCHANGED tunnel

\* The context ends: the device goes, and with it the routes through it.
Watch == T!Watch /\ R!DeviceClosed

RunReturns ==
  /\ T!RunReturns
  /\ IF T!Tun THEN R!PumpReturns ELSE UNCHANGED routing

Cleanup == OnlyRoutes(R!Undo \/ R!UndoFails)

\* The deferred dev.Close, after a run or after a start that failed.
CloseDevice ==
  \/ R!CloseDevice /\ (T!DeferredClose \/ T!StartFails)
  \/ ~T!Tun /\ Only(T!DeferredClose)

\* cmdConnect reports the error and exits.
CommandEnds == ~panel /\ pc["run"] = "lock" /\ Only(T!ProcessEnds)

Close == panel /\ Only(T!Lock("run", "control"))

Killed ==
  /\ pc["run"] # "end"
  /\ T!ProcessEnds
  /\ IF route = "idle" THEN UNCHANGED routing ELSE R!Crash

User == Only((panel /\ T!Disconnect) \/ (~panel /\ T!Interrupt))

\* A connection over an interface that is gone is lost.
Roam ==
  /\ T!Tun /\ R!Roam
  /\ IF carrier' # carrier /\ net \in {"up", "stalled"} THEN T!Lose ELSE UNCHANGED tunnel

Reboot == T!Tun /\ R!Reboot /\ T!ProcessEnds

NextSession == Only(T!NextSession)

Next ==
  \/ Dial \/ Only(T!SendHello) \/ Only(T!Welcomed) \/ HandshakeFails
  \/ StartProxy \/ CreateTUN \/ ConfigureTUN \/ StepDone
  \/ Watch \/ RunReturns \/ Only(T!ListenerFails) \/ Cleanup \/ CloseDevice
  \/ Only(T!OutPacket) \/ Only(T!OutErrs) \/ Only(T!OutWrites)
  \/ Only(T!InPacket) \/ Only(T!InBadFrame) \/ Only(T!InErrs) \/ Only(T!InWrites)
  \/ Only(T!Tick) \/ Only(T!AliveDone) \/ Only(T!Ping)
  \/ Only(T!Lock("out", "write")) \/ Only(T!Lock("alive", "write"))
  \/ Only(T!Lock("user", "control")) \/ Close \/ CommandEnds
  \/ \E t \in {"run", "user"} : Only(T!CloseMessage(t)) \/ Only(T!CloseConn(t))
  \/ User \/ Killed \/ NextSession
  \/ Only(T!Stall) \/ Only(T!Recover) \/ Only(T!Lose) \/ Roam \/ Reboot

Spec == Init /\ [][Next]_vars

\* Goroutines that can go on do; a mutex of Go starves nobody, and a write
\* whose turn comes again and again gets through.
RunProgress ==
  \/ Dial \/ Only(T!SendHello) \/ Only(T!Welcomed) \/ HandshakeFails
  \/ StartProxy \/ CreateTUN \/ ConfigureTUN \/ StepDone
  \/ RunReturns \/ Cleanup \/ CloseDevice \/ CommandEnds
  \/ Only(T!CloseMessage("run")) \/ Only(T!CloseConn("run"))

FairSpec ==
  /\ Spec
  /\ WF_vars(RunProgress) /\ WF_vars(Watch)
  /\ SF_vars(Only(T!Lock("out", "write"))) /\ SF_vars(Only(T!Lock("alive", "write")))
  /\ SF_vars(Close) /\ SF_vars(Only(T!Lock("user", "control")))
  /\ WF_vars(Only(T!CloseMessage("user")) \/ Only(T!CloseConn("user")))
  /\ WF_vars(Only(dev = "closed" /\ T!OutErrs)) /\ SF_vars(Only(T!OutWrites))
  /\ WF_vars(Only(T!InErrs) \/ Only(T!InWrites))
  /\ WF_vars(Only(T!Tick) \/ Only(T!Ping)) /\ SF_vars(Only(T!AliveDone))

\* And the network does not stall for ever: it recovers, or TCP gives up.
FairNetSpec == FairSpec /\ WF_vars(Only(T!Recover) \/ Only(T!Lose))
-----------------------------------------------------------------------------
\* The types.
TunnelTypeOK ==
  /\ mode \in {"tun", "proxy"} /\ net \in {"none", "up", "stalled", "lost", "closed"}
  /\ cancelled \in BOOLEAN /\ errc \in Nat /\ writeMu \in T!Threads \cup {NoOne}
  /\ pc \in [T!Threads -> {"none", "dial", "hello", "welcome", "start", "wait", "defer",
                            "lock", "control", "close", "read", "write", "end"}]

RoutingTypeOK ==
  /\ windows \in BOOLEAN /\ panel \in BOOLEAN /\ tun \in BOOLEAN /\ dirty \in BOOLEAN
  /\ uplinks \in Seq(Uplinks) /\ step \in 0 .. 3
  /\ route \in {"idle", "create", "lookup", "setup", "serving", "undo"}

TypeOK == TunnelTypeOK /\ RoutingTypeOK

\* Until pump starts there is neither a goroutine nor an error, and until the
\* dial no connection.
NotStarted ==
  /\ pc["run"] \in {"dial", "hello", "welcome", "start"} =>
       errc = 0 /\ \A t \in {"out", "in", "alive", "watch"} : pc[t] = "none"
  /\ pc["run"] \in {"dial", "hello", "welcome"} => pc["user"] = "none"
  /\ pc["run"] = "dial" => net = "none"

\* Where RunTUN is with the routes, while the run goroutine is where it is.
InStep ==
  /\ ~T!Tun => route = "idle"
  /\ route = "idle" => pc["run"] \in {"dial", "lock", "control", "close", "end"} \/ ~T!Tun
  /\ route = "create" => pc["run"] \in {"hello", "welcome", "start"}
  /\ route \in {"lookup", "setup"} => pc["run"] = "start"
  /\ route = "serving" => pc["run"] = "wait"
  /\ route = "undo" => pc["run"] \in {"start", "defer"}

\* The routes there can be: to the server or the gateway over an interface that
\* is up, and to the halves through the device.  Of the former there is, unless
\* one was left behind, only the one that is pinned and not yet undone.
Laid ==
  /\ \A r \in table :
       /\ r = R!Route(r.dst, r.dev)
       /\ \/ r.dst \in Servers \cup {Gateway} /\ r.dev \in R!Range(uplinks)
          \/ r.dst \in R!Halves /\ r.dev = "tun"
       /\ ~dirty /\ r.dev # "tun" =>
            /\ route \in {"setup", "serving", "undo"} /\ step >= 1
            /\ r = R!Route(serverIP, orig)
  /\ route \in {"idle", "create"} => ~tun /\ \A r \in table : r.dev # "tun"
  /\ route # "idle" => serverIP \in Servers \cup {Gateway} /\ (~panel => serverIP \in Servers)
  /\ carrier # R!NoCarrier =>
       carrier.addr \in Servers /\ carrier.dev \in R!Range(uplinks)

\* The halves lead into the tunnel from their command on.
HalvesLaid ==
  /\ route = "setup" /\ step >= 2 => R!Route("0.0.0.0/1", "tun") \in table
  /\ route = "serving" /\ ~cancelled => \A x \in R!Halves : R!Route(x, "tun") \in table

\* The route that is pinned is that of the connection, and of its interface.
PinsCarrier == carrier = [addr |-> serverIP, dev |-> orig]

\* Then a connection that is alive has it from the first command on.
CarrierPinned ==
  (route = "serving" \/ (route = "setup" /\ step >= 1)) /\ PinsCarrier
    /\ carrier # R!NoCarrier => R!Route(serverIP, orig) \in table

\* RunTUN leaves no trace: when it is over, whichever command failed and
\* wherever the client has roamed, the routing table is as it was.  If the
\* process was killed or could not undo, at most the pinned route is left.
RoutesRestored ==
  route = "idle" =>
    /\ ~tun
    /\ ~dirty => table = {}
    /\ \A r \in table : r.dst \in Servers \cup {Gateway} /\ r.dev \in Uplinks

\* "Pins a host route to the server through the original gateway so the carrier
\* connection doesn't loop": a connection that is alive stays off the tunnel it
\* carries.
CarrierOffTunnel ==
  route = "serving" /\ carrier # R!NoCarrier => R!Dev(carrier.addr) # "tun"

\* If cmdConnect runs the tunnel.
CommandCarrierOffTunnel == ~panel => CarrierOffTunnel

\* A tunnel that serves is routed right, through any roaming: while nobody has
\* disconnected, all other traffic goes into it; and if the second look-up of the
\* name gave the address that was dialled, and defaultRoute the interface it was
\* dialled over, then the connection stays off the tunnel for as long as it lives.
RoutedRight ==
  /\ route = "serving" /\ ~cancelled => R!Dev(Elsewhere) = "tun"
  /\ PinsCarrier => CarrierOffTunnel

\* Whether a goroutine of pump may still put an error into errc.
Busy(t) == IF pc[t] \in {"none", "end"} THEN 0 ELSE 1

\* The lock, the channel and the connection: only a goroutine that is about to
\* write holds the lock, the two places of errc are enough for the senders that
\* are left, and when Connect has failed or supervise has closed the tunnel, its
\* connection is closed.
NothingLeaks ==
  /\ \A t \in T!Threads : (writeMu = t) <=> (pc[t] = "write" /\ t \in {"out", "alive"})
                                            \/ pc[t] = "control"
  /\ errc + Busy("out") + Busy("in") <= 2
  /\ pc["run"] = "end" => net \in {"none", "closed"}

\* The tunnel comes to an end: once it is cancelled or the connection is lost,
\* supervise gets out of it and its goroutines return (but for the two that Over
\* excepts), the routes being undone.
EndsCompletely == (cancelled \/ net = "lost") ~> (T!Over /\ route = "idle")

\* "Close terminates the tunnel": a Disconnect that has called Close gets there.
CloseReturns == pc["user"] = "lock" ~> pc["user"] = "end"

\* "On any unexpected drop, reconnect": a connection that stays stalled is given
\* up.
DropIsNoticed == <>[](net = "stalled") => <>[](pc["run"] # "wait")

\* "Discover the current default route so we can pin a host route to the server
\* through it": the route found is the one in use.
FindsCurrentRoute == [][orig' # orig /\ orig' # None => orig' = Head(uplinks)]_vars
=============================================================================
