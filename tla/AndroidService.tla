----------------------------- MODULE AndroidService -----------------------------
(***************************************************************************)
(* One instance of the Android client's VPN service (ArnosVpnService.kt,   *)
(* with the snapshot of VpnRuntime.kt): commands and stopTunnel on the     *)
(* main thread, connectWebSocket on the thread ctl, the callbacks of each  *)
(* socket on a thread of that socket, one uplink thread per device.        *)
(*                                                                         *)
(* Socket number g is the one that connectWebSocket opens with connGen =   *)
(* g.  The system keeps an instance that was told to stop while its device *)
(* is open, and an instance that is started again before it was destroyed. *)
(* Writes of one thread that no other thread waits for are one step.       *)
(***************************************************************************)
EXTENDS Naturals, Sequences, FiniteSets

CONSTANTS MayRefuse,   \* BOOLEAN: the server may refuse the hello, the user the device
          MaxStarts, MaxStops, MaxDrops,  \* bounds on commands and lost connections
          MaxPackets,  \* bound on what the uplink threads read
          None

ASSUME AndroidAssumption ==
  /\ MayRefuse \in BOOLEAN
  /\ {MaxStarts, MaxStops, MaxDrops, MaxPackets} \subseteq Nat

\* Every connection stems from a start, a drop, or a client that was shut down.
MaxSockets == MaxStarts + MaxStops + MaxDrops
Sockets == 1 .. MaxSockets
Devices == Sockets

ASSUME NoneAssumption == None \notin Sockets

VARIABLES
  running, userStopped, connGen, link, tun, uplinkGen,  \* the fields
  client,       \* httpClient: "none", "open", or "shut" down
  posted,       \* connectWebSocket messages in ctl's queue
  shown,        \* VpnRuntime: "off", "connecting", "connected" or "error"
  stopSelf,     \* the system has been asked to destroy the instance
  main, ctl,    \* where those threads are
  sock,         \* the state of each socket
  cb,           \* the callback each socket's thread is in
  new,          \* for each of them: the device it has opened
  open,         \* devices that are open
  up,           \* the uplink threads, by the device they read
  sealed,       \* sendCtr of the session of each socket
  sent,         \* frames written to each socket
  starts, stops, drops, packets,
  stopGen,      \* history: connGen when the service was last stopped
  late          \* history: a callback of a connection from before that took
                \* effect, or a start and a stop overlapped

fields == <<running, userStopped, connGen, link, tun, uplinkGen>>
system == <<client, posted, shown, stopSelf, main, ctl>>
uplink == <<up, sealed, sent>>
counts == <<starts, stops, drops, packets>>
vars == <<fields, system, sock, cb, new, open, uplink, counts, stopGen, late>>

NoLink == [session |-> None, ws |-> None]
IdleUplink == [gen |-> 0, pc |-> "none", link |-> NoLink, ctr |-> 0]
EndedUplink == [gen |-> 0, pc |-> "end", link |-> NoLink, ctr |-> 0]
Goto(s, l) == cb' = [cb EXCEPT ![s] = l]

\* The socket's thread is in the middle of a welcome.
InHand(s) == cb[s] \in {"assign", "link", "announce"}

\* The history; once something came late, stopGen is not kept any more.
Noted(lateNow, gen) == late' = lateNow /\ stopGen' = IF lateNow THEN 0 ELSE gen
TookEffect(s) == Noted(late \/ s <= stopGen, stopGen)
-----------------------------------------------------------------------------
(* stopTunnel, on the main thread or on a socket's thread *)

\* userStopped = true; if (!running.getAndSet(false)) ...
Swapped(overlap) ==
  /\ userStopped' = TRUE /\ running' = FALSE
  /\ Noted(late \/ overlap \/ ctl = "open" \/ \E s \in Sockets : InHand(s), connGen)

\* Faulty variant of Cleared: the device is left open.
HeedlessCleared ==
  /\ posted' = 0
  /\ sock' = IF link = NoLink \/ sock[link.ws] # "welcomed" THEN sock
             ELSE [sock EXCEPT ![link.ws] = "closing"]
  /\ link' = NoLink /\ uplinkGen' = uplinkGen + 1
  /\ tun' = None
  /\ UNCHANGED open

\* The queue is emptied, the socket of the link closed, the device closed.
Cleared ==
  /\ posted' = 0
  /\ sock' = IF link = NoLink \/ sock[link.ws] # "welcomed" THEN sock
             ELSE [sock EXCEPT ![link.ws] = "closing"]
  /\ link' = NoLink /\ uplinkGen' = uplinkGen + 1
  /\ open' = open \ {tun}
  /\ tun' = None

\* The client is shut down, the state broadcast, the instance told to stop.
Finished(state) == client' = "shut" /\ shown' = state /\ stopSelf' = TRUE

MainStops ==
  /\ main \in {"stop", "destroy"}
  /\ Swapped(FALSE)
  /\ IF running
     THEN main' = (IF main = "stop" THEN "clear" ELSE "clearLast") /\ UNCHANGED stopSelf
     ELSE main' = (IF main = "stop" THEN "idle" ELSE "gone") /\ stopSelf' = TRUE
  /\ UNCHANGED <<connGen, link, tun, uplinkGen, client, posted, shown, ctl,
                 sock, cb, new, open, uplink, counts>>

MainClears ==
  /\ main \in {"clear", "clearLast"}
  /\ Cleared
  /\ main' = IF main = "clear" THEN "finish" ELSE "finishLast"
  /\ UNCHANGED <<running, userStopped, connGen, client, shown, stopSelf, ctl, cb, new,
                 uplink, counts, stopGen, late>>

MainFinishes ==
  /\ main \in {"finish", "finishLast"}
  /\ Finished("off")
  /\ main' = IF main = "finish" THEN "idle" ELSE "gone"
  /\ UNCHANGED <<fields, posted, ctl, sock, cb, new, open, uplink, counts, stopGen, late>>

SocketStops(s) ==
  /\ cb[s] = "stop"
  /\ Swapped(main = "start" \/ s <= stopGen)
  /\ IF running THEN Goto(s, "clear") /\ UNCHANGED stopSelf
                ELSE Goto(s, "idle") /\ stopSelf' = TRUE
  /\ UNCHANGED <<connGen, link, tun, uplinkGen, client, posted, shown, main, ctl,
                 sock, new, open, uplink, counts>>

SocketClears(s) ==
  /\ cb[s] = "clear"
  /\ Cleared
  /\ Goto(s, "finish")
  /\ UNCHANGED <<running, userStopped, connGen, client, shown, stopSelf, main, ctl, new,
                 uplink, counts, stopGen, late>>

SocketFinishes(s) ==
  /\ cb[s] = "finish"
  /\ Finished("error")
  /\ Goto(s, "idle")
  /\ UNCHANGED <<fields, posted, main, ctl, sock, new, open, uplink, counts, stopGen, late>>
-----------------------------------------------------------------------------
(* onStartCommand, onRevoke and onDestroy, on the main thread *)

StopCommand ==
  /\ main = "idle" /\ stops < MaxStops
  /\ main' = "stop" /\ stops' = stops + 1
  /\ UNCHANGED <<fields, client, posted, shown, stopSelf, ctl, sock, cb, new, open, uplink,
                 starts, drops, packets, stopGen, late>>

\* A start the system has seen after stopSelf keeps the instance.
StartCommand ==
  /\ main = "idle" /\ starts < MaxStarts
  /\ starts' = starts + 1
  /\ stopSelf' \in {stopSelf, FALSE}
  /\ running' = TRUE
  /\ main' = IF running THEN "idle" ELSE "start"
  /\ Noted(late \/ \E s \in Sockets : cb[s] \in {"clear", "finish"}, stopGen)
  /\ UNCHANGED <<userStopped, connGen, link, tun, uplinkGen, client, posted, shown,
                 ctl, sock, cb, new, open, uplink, stops, drops, packets>>

\* The list of servers is empty.
StartWithoutProfile ==
  /\ main = "idle" /\ starts < MaxStarts
  /\ starts' = starts + 1
  /\ shown' = "error" /\ stopSelf' = TRUE
  /\ UNCHANGED <<fields, client, posted, main, ctl, sock, cb, new, open, uplink, stops, drops,
                 packets, stopGen, late>>

Started ==
  /\ main = "start"
  /\ userStopped' = FALSE /\ client' = "open"
  /\ shown' = "connecting" /\ posted' = posted + 1
  /\ main' = "idle"
  /\ UNCHANGED <<running, connGen, link, tun, uplinkGen, stopSelf, ctl, sock, cb,
                 new, open, uplink, counts, stopGen, late>>

Destroy ==
  /\ main = "idle" /\ stopSelf /\ open = {}
  /\ main' = "destroy"
  /\ UNCHANGED <<fields, client, posted, shown, stopSelf, ctl, sock, cb, new, open, uplink,
                 counts, stopGen, late>>
-----------------------------------------------------------------------------
(* connectWebSocket, on ctl *)

CtlTests ==
  /\ ctl = "idle" /\ posted > 0 /\ main # "gone"
  /\ posted' = posted - 1
  /\ ctl' = IF userStopped \/ ~running THEN "idle" ELSE "open"
  /\ UNCHANGED <<fields, client, shown, stopSelf, main, sock, cb, new, open, uplink, counts,
                 stopGen, late>>

\* A client that was shut down refuses at once.
CtlOpens ==
  /\ ctl = "open" /\ connGen < MaxSockets
  /\ connGen' = connGen + 1
  /\ sock' = [sock EXCEPT ![connGen'] = IF client = "open" THEN "dialling" ELSE "dropped"]
  /\ ctl' = "idle"
  /\ UNCHANGED <<running, userStopped, link, tun, uplinkGen, client, posted, shown,
                 stopSelf, main, cb, new, open, uplink, counts, stopGen, late>>
-----------------------------------------------------------------------------
(* The callbacks of a socket *)

\* onOpen: the hello is sent only by the current connection.
OnOpen(s) ==
  /\ cb[s] = "idle" /\ sock[s] = "dialling"
  /\ sock' = [sock EXCEPT ![s] = IF s = connGen THEN "hello" ELSE "mute"]
  /\ UNCHANGED <<fields, system, cb, new, open, uplink, counts, stopGen, late>>

\* The device has not been opened yet.
Unused(d) == up[d].pc = "none" /\ \A t \in Sockets : new[t] # d

\* onMessage, a welcome: a device is kept if it has the address that the server
\* assigns, which may be the same as before or not; otherwise one is opened.
OnWelcome(s) ==
  /\ cb[s] = "idle" /\ sock[s] = "hello"
  /\ sock' = [sock EXCEPT ![s] = "welcomed"]
  /\ IF s # connGen THEN UNCHANGED <<cb, new, open, stopGen, late>>
     ELSE /\ TookEffect(s)
          /\ \/ tun # None /\ Goto(s, "link") /\ UNCHANGED <<new, open>>
             \/ \E d \in Devices :
                  /\ Unused(d) /\ \A x \in 1 .. d - 1 : ~Unused(x)
                  /\ new' = [new EXCEPT ![s] = d] /\ open' = open \cup {d}
                  /\ Goto(s, "assign")
  /\ UNCHANGED <<fields, system, uplink, counts>>

\* The server refuses the hello, or the user the device: the end.
OnRefusal(s) ==
  /\ cb[s] = "idle" /\ sock[s] = "hello" /\ s = connGen /\ MayRefuse
  /\ sock' = [sock EXCEPT ![s] = "welcomed"]
  /\ Goto(s, "stop") /\ TookEffect(s)
  /\ UNCHANGED <<fields, system, new, open, uplink, counts>>

\* ensureTun: the old device is closed, the new one gets its uplink thread.
AssignTun(s) ==
  /\ cb[s] = "assign"
  /\ open' = open \ {tun}
  /\ tun' = new[s]
  /\ uplinkGen' = uplinkGen + 1
  /\ up' = [up EXCEPT ![new[s]] =
                [gen |-> uplinkGen', pc |-> "test", link |-> NoLink, ctr |-> 0]]
  /\ new' = [new EXCEPT ![s] = None]
  /\ Goto(s, "link")
  /\ UNCHANGED <<running, userStopped, connGen, link, system, sock, sealed, sent, counts,
                 stopGen, late>>

\* link = Link(session, ws)
SetLink(s) ==
  /\ cb[s] = "link"
  /\ link' = [session |-> s, ws |-> s]
  /\ Goto(s, "announce")
  /\ UNCHANGED <<running, userStopped, connGen, tun, uplinkGen, system, sock, new,
                 open, uplink, counts, stopGen, late>>

\* broadcast(STATE_CONNECTED), of whatever has become of the link.
Announce(s) ==
  /\ cb[s] = "announce"
  /\ shown' = "connected"
  /\ Goto(s, "idle")
  /\ UNCHANGED <<fields, client, posted, stopSelf, main, ctl, sock, new, open, uplink, counts,
                 stopGen, late>>

\* The connection breaks, the server ends it, or it gives up on a mute one.
Drop(s) ==
  /\ sock[s] \in {"dialling", "mute", "hello", "welcomed", "closing"} /\ drops < MaxDrops
  /\ sock' = [sock EXCEPT ![s] = "dropped"] /\ drops' = drops + 1
  /\ UNCHANGED <<fields, system, cb, new, open, uplink, starts, stops, packets,
                 stopGen, late>>

\* onFailure and onClosed; scheduleReconnect makes its test.
OnDropped(s) ==
  /\ cb[s] = "idle" /\ sock[s] = "dropped"
  /\ sock' = [sock EXCEPT ![s] = "gone"]
  /\ IF s = connGen /\ ~userStopped /\ running
     THEN Goto(s, "retry") /\ TookEffect(s)
     ELSE UNCHANGED <<cb, stopGen, late>>
  /\ UNCHANGED <<fields, system, new, open, uplink, counts>>

\* Faulty variant of ScheduleReconnect: nothing is posted.
IdleScheduleReconnect(s) ==
  /\ cb[s] = "retry"
  /\ link' = NoLink /\ shown' = "connecting"
  /\ Goto(s, "idle") /\ TookEffect(s)
  /\ UNCHANGED <<running, userStopped, connGen, tun, uplinkGen, client, posted,
                 stopSelf, main, ctl, sock, new, open, uplink, counts>>

\* ... and goes on.
ScheduleReconnect(s) ==
  /\ cb[s] = "retry"
  /\ link' = NoLink /\ shown' = "connecting" /\ posted' = posted + 1
  /\ Goto(s, "idle") /\ TookEffect(s)
  /\ UNCHANGED <<running, userStopped, connGen, tun, uplinkGen, client,
                 stopSelf, main, ctl, sock, new, open, uplink, counts>>
-----------------------------------------------------------------------------
(* The uplink thread of a device *)

UplinkTests(d) ==
  /\ up[d].pc = "test"
  /\ up' = [up EXCEPT ![d] = IF running /\ @.gen = uplinkGen THEN [@ EXCEPT !.pc = "read"]
                             ELSE EndedUplink]
  /\ UNCHANGED <<fields, system, sock, cb, new, open, sealed, sent, counts, stopGen, late>>

\* A packet, nothing, or the end of a closed device.
UplinkReads(d) ==
  /\ up[d].pc = "read"
  /\ IF d \in open
     THEN /\ packets < MaxPackets /\ packets' = packets + 1
          /\ \E next \in {"seal", "test"} : up' = [up EXCEPT ![d].pc = next]
     ELSE up' = [up EXCEPT ![d] = EndedUplink] /\ UNCHANGED packets
  /\ UNCHANGED <<fields, system, sock, cb, new, open, sealed, sent, starts, stops, drops,
                 stopGen, late>>

\* val l = link; l.session.seal
UplinkSeals(d) ==
  /\ up[d].pc = "seal"
  /\ IF link = NoLink THEN up' = [up EXCEPT ![d].pc = "test"] /\ UNCHANGED sealed
     ELSE /\ sealed' = [sealed EXCEPT ![link.session] = @ + 1]
          /\ up' = [up EXCEPT ![d].pc = "send", ![d].link = link, ![d].ctr = sealed[link.session]]
  /\ UNCHANGED <<fields, system, sock, cb, new, open, sent, counts, stopGen, late>>

\* Faulty variant of UplinkSends: the socket is looked up when it is needed.
UnpairedUplinkSends(d) ==
  /\ up[d].pc = "send"
  /\ IF link # NoLink /\ sock[link.ws] = "welcomed"
     THEN sent' = [sent EXCEPT ![link.ws] = Append(@, <<up[d].link.session, up[d].ctr>>)]
     ELSE UNCHANGED sent
  /\ up' = [up EXCEPT ![d].pc = "test", ![d].link = NoLink, ![d].ctr = 0]
  /\ UNCHANGED <<fields, system, sock, cb, new, open, sealed, counts, stopGen, late>>

\* l.ws.send, which does nothing on a socket that is closed.
UplinkSends(d) ==
  /\ up[d].pc = "send"
  /\ LET l == up[d].link IN
       sent' = IF sock[l.ws] = "welcomed"
               THEN [sent EXCEPT ![l.ws] = Append(@, <<l.session, up[d].ctr>>)] ELSE sent
  /\ up' = [up EXCEPT ![d].pc = "test", ![d].link = NoLink, ![d].ctr = 0]
  /\ UNCHANGED <<fields, system, sock, cb, new, open, sealed, counts, stopGen, late>>
-----------------------------------------------------------------------------
Init ==
  /\ running = FALSE /\ userStopped = FALSE /\ connGen = 0 /\ link = NoLink
  /\ tun = None /\ uplinkGen = 0
  /\ client = "none" /\ posted = 0 /\ shown = "off" /\ stopSelf = FALSE
  /\ main = "idle" /\ ctl = "idle"
  /\ sock = [s \in Sockets |-> "none"] /\ cb = [s \in Sockets |-> "idle"]
  /\ new = [s \in Sockets |-> None] /\ open = {}
  /\ up = [d \in Devices |-> IdleUplink]
  /\ sealed = [s \in Sockets |-> 0] /\ sent = [s \in Sockets |-> <<>>]
  /\ starts = 0 /\ stops = 0 /\ drops = 0 /\ packets = 0
  /\ stopGen = 0 /\ late = FALSE

Main == MainStops \/ MainClears \/ MainFinishes \/ Started \/ Destroy
Ctl == CtlTests \/ CtlOpens
Callback(s) ==
  \/ OnOpen(s) \/ OnWelcome(s) \/ OnRefusal(s) \/ AssignTun(s) \/ SetLink(s)
  \/ Announce(s) \/ OnDropped(s) \/ ScheduleReconnect(s)
  \/ SocketStops(s) \/ SocketClears(s) \/ SocketFinishes(s)
Uplink(d) == UplinkTests(d) \/ UplinkReads(d) \/ UplinkSeals(d) \/ UplinkSends(d)

Next ==
  \/ Main \/ Ctl
  \/ StopCommand \/ StartCommand \/ StartWithoutProfile
  \/ \E s \in Sockets : Callback(s) \/ Drop(s)
  \/ \E d \in Devices : Uplink(d)

Spec == Init /\ [][Next]_vars

\* The threads go on, the server answers, and the system destroys an instance
\* that may go.  That some thread goes on is enough, since none has work for ever.
FairSpec == Spec /\ WF_vars(Main \/ Ctl \/ \E s \in Sockets : Callback(s))
-----------------------------------------------------------------------------
\* A link pairs a socket with the session of that socket.
Links == {NoLink} \cup {[session |-> s, ws |-> s] : s \in Sockets}
UplinkStates == [gen : Nat, pc : {"none", "test", "read", "seal", "send", "end"},
                 link : Links, ctr : Nat]

\* The types of what the stops and the links depend on.
TypeOK ==
  /\ running \in BOOLEAN /\ late \in BOOLEAN /\ connGen \in Nat /\ stopGen \in Nat
  /\ uplinkGen \in Nat /\ link \in Links /\ sealed \in [Sockets -> Nat]
  /\ main \in {"idle", "start", "stop", "clear", "finish", "destroy", "clearLast",
               "finishLast", "gone"}
  /\ cb \in [Sockets -> {"idle", "assign", "link", "announce", "retry", "stop", "clear",
                         "finish"}]
  /\ sock \in [Sockets -> {"none", "dialling", "mute", "hello", "welcomed", "closing",
                          "dropped", "gone"}]
  /\ new \in [Sockets -> Devices \cup {None}] /\ up \in [Devices -> UplinkStates]

\* Sockets are numbered by connGen.
Numbered ==
  /\ stopGen <= connGen
  /\ \A s \in Sockets : s > connGen => sock[s] = "none" /\ cb[s] = "idle"

\* The devices that are open: the one in use, and those about to be.
DevicesKnown ==
  /\ tun = None \/ (tun \in Devices /\ up[tun].pc # "none")
  /\ \A s \in Sockets :
       IF cb[s] = "assign"
       THEN new[s] \in open \cap Devices /\ up[new[s]].pc = "none"
       ELSE new[s] = None
  /\ \A s, t \in Sockets : cb[s] = "assign" /\ new[t] = new[s] => s = t
  /\ open \subseteq Devices
  /\ \A d \in open : d = tun \/ \E s \in Sockets : cb[s] = "assign" /\ new[s] = d

\* A thread has yet to clear, or to finish, a stop.
ToClear == main \in {"clear", "clearLast"} \/ \E s \in Sockets : cb[s] = "clear"
ToFinish == main \in {"finish", "finishLast"} \/ \E s \in Sockets : cb[s] = "finish"

\* Unless something came late: a service that is not running opens no connection,
\* has no welcome in hand, and has been or is being cleared; one that is running
\* is not being cleared, and a device it has is open and has its uplink.
Orderly ==
  /\ main \in {"clear", "clearLast", "finish", "finishLast", "gone"} => ~running
  /\ ~late /\ running =>
       /\ \A s \in Sockets : cb[s] \notin {"clear", "finish"}
       /\ tun # None => tun \in open /\ up[tun].gen = uplinkGen /\ up[tun].pc # "end"
       /\ link # NoLink \/ (\E s \in Sockets : cb[s] = "link") => tun # None
  /\ ~late /\ ~running =>
       /\ connGen = stopGen /\ ctl # "open" /\ main # "start"
       /\ \A s \in Sockets : ~InHand(s)
       /\ ~ToClear => tun = None /\ link = NoLink
       /\ ~ToClear /\ ~ToFinish => shown \in {"off", "error"}
-----------------------------------------------------------------------------
\* No thread is in the middle of anything.
Settled == main \in {"idle", "gone"} /\ ctl = "idle" /\ \A s \in Sockets : cb[s] = "idle"

\* An uplink thread reads the device and will go on doing so.
Served == tun \in open /\ up[tun].gen = uplinkGen /\ up[tun].pc \notin {"none", "end"}

\* A stop is complete, and a link served: unless a callback of an older
\* connection came late, a stopped service has no device, no link and does not
\* show itself connected, and a link is never without a device and its uplink.
CompleteUnlessLate ==
  Settled /\ ~late =>
    /\ ~running => open = {} /\ link = NoLink /\ shown \in {"off", "error"}
    /\ link # NoLink => running /\ Served

\* "Link bundles the AEAD session with its socket so uplink never mixes a new
\* socket with an old session": every frame on a socket is sealed by its session.
SessionsKeepToSockets ==
  \A s \in Sockets : \A i \in DOMAIN sent[s] : sent[s][i][1] = s

\* "Any drop triggers an automatic reconnect": a service that runs gets a
\* connection that is alive, whatever was dropped before, or stops; this too
\* unless a callback of an older connection came late.
KeepsTrying ==
  running ~> (~running \/ late \/ (link # NoLink /\ sock[link.ws] = "welcomed"))

\* Disconnect drops the tunnel: a service that is stopped has no device open.
StopDropsTunnel == Settled /\ ~running => open = {}

\* "startUplink pumps packets from the TUN device into the current link": once
\* the latest connection is the link, the device has an uplink thread.
LinkIsServed ==
  Settled /\ running /\ posted = 0 /\ link.ws = connGen /\ sock[connGen] = "welcomed" => Served

\* "The ordered transport guarantees legitimate frames do" advance the counter.
FramesAdvance ==
  \A s \in Sockets : \A i \in 2 .. Len(sent[s]) : sent[s][i - 1][2] < sent[s][i][2]
=============================================================================
