------------------------------ MODULE Controller ------------------------------
(***************************************************************************)
(* The tunnel lifecycle of the desktop client: Controller.Connect,         *)
(* supervise and Disconnect (src/internal/client/controller.go), with what *)
(* supervise runs, RunProxy and its listeners or RunTUN.                   *)
(*                                                                         *)
(* A session is one Connect call that got past the guard: its context, its *)
(* current tunnel and the supervisor goroutine it starts.  A step ends     *)
(* where the code unlocks c.mu, blocks, or starts something others see.    *)
(***************************************************************************)
CONSTANTS Sessions,     \* identities of sessions
          None,         \* nil
          Free, Leaked  \* a port nobody listens on; one whose listener is
                        \* left behind by a run that is over

ASSUME ControllerAssumption ==
  /\ None \notin Sessions
  /\ {Free, Leaked} \cap (Sessions \cup {None}) = {} /\ Free # Leaked

VARIABLES connected, connecting, wantConn,      \* fields of Controller
          tunnel,       \* c.tunnel, by the session it belongs to
          cancel,       \* c.cancel, by the session it cancels
          pc,           \* where Connect or supervise is, for each session
          ctxDone,      \* the session's context has been cancelled
          open,         \* the session's tunnel is open
          mode,         \* the mode the session was started in
          port,         \* who listens on a port
          taken         \* what a Disconnect took and has not acted on yet

fields  == <<connected, connecting, wantConn, tunnel, cancel>>
session == <<pc, ctxDone, open, mode>>
vars    == <<fields, session, port, taken>>

\* No Disconnect is between its unlock and its end.
Idle == [pending |-> FALSE, cancel |-> None, tunnel |-> None]

\* What runMode tells apart.
Modes == {"proxy", "tun"}

\* The listen addresses of RunProxy, in the order it opens them.
Ports == {"socks", "http"}

Goto(s, label) == pc' = [pc EXCEPT ![s] = label]

Init ==
  /\ connected = FALSE /\ connecting = FALSE /\ wantConn = FALSE
  /\ tunnel = None /\ cancel = None
  /\ pc = [s \in Sessions |-> "idle"]
  /\ ctxDone = [s \in Sessions |-> FALSE]
  /\ open = [s \in Sessions |-> FALSE]
  /\ mode = [s \in Sessions |-> "proxy"]
  /\ port = [p \in Ports |-> Free]
  /\ taken = Idle
-----------------------------------------------------------------------------
(* Connect *)

\* Past the guard, with a profile, in the mode of the request or of the settings;
\* the guard's refusal is no step.
Connect(s) ==
  /\ pc[s] = "idle"
  /\ ~connected /\ ~connecting
  /\ connecting' = TRUE
  /\ \E m \in Modes : mode' = [mode EXCEPT ![s] = m]
  /\ Goto(s, "dial")
  /\ UNCHANGED <<connected, wantConn, tunnel, cancel, ctxDone, open, port, taken>>

\* The dial or its handshake fails, at the latest after 20 seconds.
DialFails(s) ==
  /\ pc[s] = "dial"
  /\ connecting' = FALSE
  /\ Goto(s, "idle")
  /\ UNCHANGED <<connected, wantConn, tunnel, cancel, ctxDone, open, mode, port, taken>>

DialSucceeds(s) ==
  /\ pc[s] = "dial"
  /\ open' = [open EXCEPT ![s] = TRUE]
  /\ Goto(s, "publish")
  /\ UNCHANGED <<fields, ctxDone, mode, port, taken>>

\* The new tunnel and its cancel function become the controller's, and the
\* supervisor starts.
Publish(s) ==
  /\ pc[s] = "publish"
  /\ cancel' = s /\ tunnel' = s
  /\ connected' = TRUE /\ connecting' = FALSE /\ wantConn' = TRUE
  /\ Goto(s, "start")
  /\ UNCHANGED <<ctxDone, open, mode, port, taken>>
-----------------------------------------------------------------------------
(* runMode *)

\* The assigned address cannot be parsed, or the device, the user-space one of
\* RunProxy or the real one of RunTUN, not be created or configured.
StartFails(s) ==
  /\ pc[s] = "start"
  /\ Goto(s, "close")
  /\ UNCHANGED <<fields, ctxDone, open, mode, port, taken>>

\* RunProxy listens on its ports and serves.
StartProxy(s) ==
  /\ pc[s] = "start" /\ mode[s] = "proxy"
  /\ \A p \in Ports : port[p] = Free
  /\ port' = [p \in Ports |-> s]
  /\ Goto(s, "serve")
  /\ UNCHANGED <<fields, ctxDone, open, mode, taken>>

\* net.Listen fails on a port in use and RunProxy returns; the SOCKS listener
\* stays with its accept loop when only the HTTP port is in use.
ListenFails(s) ==
  /\ pc[s] = "start" /\ mode[s] = "proxy"
  /\ \E p \in Ports : port[p] # Free
  /\ port' = IF port["socks"] = Free THEN [port EXCEPT !["socks"] = Leaked] ELSE port
  /\ Goto(s, "close")
  /\ UNCHANGED <<fields, ctxDone, open, mode, taken>>

\* The session has the device arnos0 and the routes to it, until RunTUN returns.
HasDevice(s) == pc[s] = "serve" /\ mode[s] = "tun"

\* RunTUN creates and configures the device, of which there is one, and pumps.
StartTUN(s) ==
  /\ pc[s] = "start" /\ mode[s] = "tun"
  /\ \A t \in Sessions : ~HasDevice(t)
  /\ Goto(s, "serve")
  /\ UNCHANGED <<fields, ctxDone, open, mode, port, taken>>

\* runMode returns: the pump has failed because the connection was lost (any
\* time) or closed, or the context is done.  An accept loop sits in Accept
\* and does not notice: its listener stays open.
RunEnds(s) ==
  /\ pc[s] = "serve"
  /\ port' = [p \in Ports |-> IF port[p] = s THEN Leaked ELSE port[p]]
  /\ Goto(s, "close")
  /\ UNCHANGED <<fields, ctxDone, open, mode, taken>>

\* An accept loop gets an error from Accept, closes its listener, and ends
\* the run it belongs to if that is still going.
AcceptFails(p) ==
  /\ port[p] # Free
  /\ port' = [q \in Ports |->
       IF q = p THEN Free
       ELSE IF port[q] = port[p] THEN Leaked ELSE port[q]]
  /\ pc' = [s \in Sessions |-> IF port[p] = s THEN "close" ELSE pc[s]]
  /\ UNCHANGED <<fields, ctxDone, open, mode, taken>>
-----------------------------------------------------------------------------
(* supervise, after runMode *)

\* tunnel.Close().  A Disconnect that holds this tunnel finds it closed.
CloseTunnel(s) ==
  /\ pc[s] = "close"
  /\ open' = [open EXCEPT ![s] = FALSE]
  /\ taken' = [taken EXCEPT !.tunnel = IF @ = s THEN None ELSE @]
  /\ Goto(s, "ended")
  /\ UNCHANGED <<fields, ctxDone, mode, port>>

\* Under the lock: not connected any more; go on only if that was not asked.
Ended(s) ==
  /\ pc[s] = "ended"
  /\ connected' = FALSE /\ tunnel' = None
  /\ Goto(s, IF wantConn /\ ~ctxDone[s] THEN "retry" ELSE "done")
  /\ UNCHANGED <<connecting, wantConn, cancel, ctxDone, open, mode, port, taken>>

\* Faulty variant of Retry: the loop does not look at the context.
DeafRetry(s) ==
  /\ pc[s] = "retry"
  /\ connecting' = TRUE
  /\ Goto(s, IF wantConn THEN "backoff" ELSE "done")
  /\ UNCHANGED <<connected, wantConn, tunnel, cancel, ctxDone, open, mode, port, taken>>

\* Faulty variant of Retry: a failed attempt ends the supervisor.
NoSecondRetry(s) ==
  /\ pc[s] = "retry"
  /\ connecting' = TRUE
  /\ Goto(s, IF wantConn /\ ~ctxDone[s] /\ ~connecting THEN "backoff" ELSE "done")
  /\ UNCHANGED <<connected, wantConn, tunnel, cancel, ctxDone, open, mode, port, taken>>

\* The top of the reconnect loop.
Retry(s) ==
  /\ pc[s] = "retry"
  /\ connecting' = TRUE
  /\ Goto(s, IF wantConn /\ ~ctxDone[s] THEN "backoff" ELSE "done")
  /\ UNCHANGED <<connected, wantConn, tunnel, cancel, ctxDone, open, mode, port, taken>>

\* The wait notices that the context is done and the supervisor returns.
BackoffCancelled(s) ==
  /\ pc[s] = "backoff" /\ ctxDone[s]
  /\ Goto(s, "done")
  /\ UNCHANGED <<fields, ctxDone, open, mode, port, taken>>

\* The wait is over; a dial under a context that is done fails at once.
BackoffOver(s) ==
  /\ pc[s] = "backoff"
  /\ Goto(s, IF ctxDone[s] THEN "retry" ELSE "redial")
  /\ UNCHANGED <<fields, ctxDone, open, mode, port, taken>>

RedialFails(s) ==
  /\ pc[s] = "redial"
  /\ Goto(s, "retry")
  /\ UNCHANGED <<fields, ctxDone, open, mode, port, taken>>

RedialSucceeds(s) ==
  /\ pc[s] = "redial"
  /\ open' = [open EXCEPT ![s] = TRUE]
  /\ Goto(s, "republish")
  /\ UNCHANGED <<fields, ctxDone, mode, port, taken>>

\* The tunnel is published again unless wantConn was reset meanwhile.
Republish(s) ==
  /\ pc[s] = "republish"
  /\ IF wantConn
     THEN /\ tunnel' = s /\ connected' = TRUE /\ connecting' = FALSE
          /\ Goto(s, "start")
          /\ UNCHANGED open
     ELSE /\ open' = [open EXCEPT ![s] = FALSE]
          /\ Goto(s, "done")
          /\ UNCHANGED <<tunnel, connected, connecting>>
  /\ UNCHANGED <<wantConn, cancel, ctxDone, mode, port, taken>>
-----------------------------------------------------------------------------
(* Disconnect; at most one call at a time *)

\* Faulty variant of DisconnectTakes: the cancel function stays behind.
KeepingDisconnectTakes ==
  /\ ~taken.pending
  /\ taken' = [pending |-> TRUE, cancel |-> cancel, tunnel |-> tunnel]
  /\ tunnel' = None /\ connected' = FALSE
  /\ UNCHANGED <<connecting, wantConn, cancel, session, port>>

\* Under the lock, the fields are taken and reset.
DisconnectTakes ==
  /\ ~taken.pending
  /\ taken' = [pending |-> TRUE, cancel |-> cancel, tunnel |-> tunnel]
  /\ cancel' = None /\ tunnel' = None /\ connected' = FALSE
  /\ UNCHANGED <<connecting, wantConn, session, port>>

\* After the unlock, the context is cancelled and the tunnel closed.
DisconnectActs ==
  /\ taken.pending
  /\ ctxDone' = [s \in Sessions |-> ctxDone[s] \/ s = taken.cancel]
  /\ open' = [s \in Sessions |-> open[s] /\ s # taken.tunnel]
  /\ taken' = Idle
  /\ UNCHANGED <<fields, pc, mode, port>>

\* Nothing refers to a finished session any more, so its identity can stand
\* for a new one.
Forget(s) ==
  /\ pc[s] = "done"
  /\ s \notin {cancel, tunnel, taken.cancel, taken.tunnel}
  /\ Goto(s, "idle")
  /\ ctxDone' = [ctxDone EXCEPT ![s] = FALSE]
  /\ mode' = [mode EXCEPT ![s] = "proxy"]
  /\ UNCHANGED <<fields, open, port, taken>>

ConnectSteps(s) == DialFails(s) \/ DialSucceeds(s) \/ Publish(s)

RunSteps(s) ==
  \/ StartFails(s) \/ StartProxy(s) \/ ListenFails(s) \/ StartTUN(s)
  \/ RunEnds(s)

SuperviseSteps(s) ==
  \/ CloseTunnel(s) \/ Ended(s) \/ Retry(s)
  \/ BackoffCancelled(s) \/ BackoffOver(s)
  \/ RedialFails(s) \/ RedialSucceeds(s) \/ Republish(s)

Next ==
  \/ \E s \in Sessions :
       Connect(s) \/ ConnectSteps(s) \/ RunSteps(s) \/ SuperviseSteps(s) \/ Forget(s)
  \/ \E p \in Ports : AcceptFails(p)
  \/ DisconnectTakes
  \/ DisconnectActs

Spec == Init /\ [][Next]_vars

\* Goroutines are scheduled, dials and waits end, and a run whose context is
\* done or whose tunnel is closed returns.
GoroutineProgress(s) ==
  \/ ConnectSteps(s) \/ SuperviseSteps(s)
  \/ StartFails(s) \/ StartProxy(s) \/ ListenFails(s) \/ StartTUN(s)
  \/ (ctxDone[s] \/ ~open[s]) /\ RunEnds(s)

\* A server that keeps being reachable, and a device that can be had again and
\* again: attempts do not fail for ever.
ServerReachable(s) == SF_vars(RedialSucceeds(s)) /\ SF_vars(StartTUN(s))

FairSpec ==
  /\ Spec
  /\ \A s \in Sessions : WF_vars(GoroutineProgress(s)) /\ ServerReachable(s)
  /\ WF_vars(DisconnectActs)
-----------------------------------------------------------------------------
\* Where the supervisor of a session, or Connect before it, is active.
Supervised == {"start", "serve", "close", "ended", "retry", "backoff", "redial",
               "republish"}
SessionPc == Supervised \cup {"idle", "dial", "publish", "done"}

\* Every variable has its type.
TypeOK ==
  /\ connected \in BOOLEAN /\ connecting \in BOOLEAN /\ wantConn \in BOOLEAN
  /\ tunnel \in Sessions \cup {None} /\ cancel \in Sessions \cup {None}
  /\ pc \in [Sessions -> SessionPc]
  /\ ctxDone \in [Sessions -> BOOLEAN]
  /\ open \in [Sessions -> BOOLEAN]
  /\ mode \in [Sessions -> Modes]
  /\ port \in [Ports -> Sessions \cup {Free, Leaked}]
  /\ taken \in [pending : BOOLEAN, cancel : Sessions \cup {None},
                tunnel : Sessions \cup {None}]

\* The snapshot State() returns is consistent whenever c.mu is free: the
\* client says it is connected exactly when it has a tunnel to show, and that
\* tunnel's supervisor has not finished with it.
SnapshotConsistent ==
  /\ connected <=> tunnel # None
  /\ \A s \in Sessions :
       tunnel = s => pc[s] \in {"start", "serve", "close", "ended"}

\* The cancel function that Disconnect would call always belongs to a session
\* that is still supervised and not cancelled yet: a Disconnect after Connect
\* has returned is never spent on a session that is over.
DisconnectHasTarget ==
  \A s \in Sessions : cancel = s => pc[s] \in Supervised /\ ~ctxDone[s]

\* The inductive invariant: besides, a supervisor runs only after wantConn was
\* set, a context is cancelled only after its session was published, and a
\* port is held by a session that serves.
ControllerInv ==
  /\ TypeOK
  /\ SnapshotConsistent
  /\ DisconnectHasTarget
  /\ \A s \in Sessions :
       /\ pc[s] \in Supervised => wantConn
       /\ pc[s] \in {"idle", "dial", "publish"} => ~ctxDone[s]
       /\ taken.cancel = s => pc[s] \in Supervised /\ ~ctxDone[s] /\ cancel # s
       /\ \A p \in Ports : port[p] = s => pc[s] = "serve"

\* A session whose context is cancelled ends, wherever its supervisor is.
CancelledSessionEnds ==
  \A s \in Sessions : ctxDone[s] ~> pc[s] \in {"done", "idle"}

\* "On any unexpected drop, reconnect with backoff until the user disconnects"
\* (Connect): after a drop the supervisor serves again, or is cancelled.
Reconnects(m) ==
  \A s \in Sessions : mode[s] = m /\ pc[s] = "retry" ~> pc[s] = "serve" \/ ctxDone[s]

\* In TUN mode it does, however many attempts fail and whatever sessions in proxy
\* mode have left behind, unless another session gets the device.
ReconnectServes ==
  \A s \in Sessions :
    mode[s] = "tun" /\ pc[s] = "retry" ~>
      pc[s] = "serve" \/ ctxDone[s] \/ \E t \in Sessions \ {s} : HasDevice(t)

\* In TUN mode it does, whatever another session has.
TunReconnectServes == Reconnects("tun")

\* In proxy mode too, with "a clean reconnect" (RunProxy).
ProxyReconnectServes == Reconnects("proxy")

\* The client can "connect/disconnect on demand" (Controller): connecting,
\* which makes Connect refuse, is set only while somebody is connecting.
ConnectingHasOwner ==
  connecting => \E s \in Sessions :
    pc[s] \in {"dial", "publish", "retry", "backoff", "redial", "republish"}

\* "Reconnect with backoff until the user disconnects": a supervisor that has not
\* been cancelled is one that a Disconnect would cancel, or is about to.
DisconnectReachesAll ==
  \A s \in Sessions : pc[s] \in Supervised /\ ~ctxDone[s] => s \in {cancel, taken.cancel}

\* Controller is "exposing a snapshot of state": while a session that nobody
\* asked to stop is serving, the snapshot says that the client is connected.
ServingIsShown ==
  \A s \in Sessions :
    pc[s] = "serve" /\ open[s] /\ ~ctxDone[s] /\ ~taken.pending => connected
=============================================================================
