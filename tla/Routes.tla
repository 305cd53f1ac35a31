--------------------------------- MODULE Routes ---------------------------------
(***************************************************************************)
(* The client's routing in TUN mode (src/internal/client/tun_linux.go,     *)
(* tun_windows.go, RunTUN of tundev.go, runMode of controller.go, and      *)
(* cmdConnect of src/cmd/arnosvpn-client/main.go).  configureTUN runs one  *)
(* command after the other; RunTUN undoes them when it returns; the kernel *)
(* removes the device, and the routes through it, when the device is       *)
(* closed or the process dies.                                             *)
(*                                                                         *)
(* Module ClientTunnel puts these steps together with those of TunnelIO.   *)
(* Only IPv4 is routed.  The default routes are the uplinks, in the order  *)
(* of their metrics; the routing table holds all other routes.             *)
(***************************************************************************)
EXTENDS Naturals, Sequences, Functions

CONSTANTS Servers,     \* the addresses the server's name resolves to
          Gateway,     \* the gateway inside the tunnel
          Elsewhere,   \* any other address
          Uplinks,     \* network interfaces
          MaxUplinks,  \* bound on the number that are up together
          None

VARIABLES
  windows,      \* the platform
  panel,        \* the control panel runs the tunnel, not a command
  uplinks,      \* interfaces with a default route, best metric first
  table,        \* the other routes
  tun,          \* the TUN device is there
  pc, step,     \* where RunTUN is, and the commands that are done
  carrier,      \* the address and the interface of the tunnel's connection
  serverIP,     \* the argument of RunTUN
  orig,         \* the default route that configureTUN has found
  dirty         \* history: a process died or could not undo, and left a route

setting == <<windows, panel>>
vars == <<setting, uplinks, table, tun, pc, step, carrier, serverIP, orig, dirty>>

NoCarrier == [addr |-> None, dev |-> None]
Route(dst, dev) == [dst |-> dst, dev |-> dev]
Halves == {"0.0.0.0/1", "128.0.0.0/1"}
Through(devs) == {r \in table : r.dev \in devs}

\* The interface for an address: a host route, else the tunnel if both halves
\* of the address space lead there, else the best default route.
Dev(a) ==
  CASE \E r \in table : r.dst = a -> (CHOOSE r \in table : r.dst = a).dev
    [] (\A r \in table : r.dst # a) /\ \A x \in Halves : Route(x, "tun") \in table -> "tun"
    [] OTHER -> IF uplinks = <<>> THEN None ELSE Head(uplinks)

\* Faulty variant of Steps: the carrier is not pinned.
UnpinnedSteps == <<"0.0.0.0/1", "128.0.0.0/1">>

\* The commands of configureTUN that change routes, in order.  Those before them
\* give the device its address and bring it up; they go with the device.
Steps == <<"pin", "0.0.0.0/1", "128.0.0.0/1">>

\* The route that a command adds.
Adds(s) == {IF s = "pin" THEN Route(serverIP, orig) ELSE Route(s, "tun")}

Exists(s) == \E r \in table, a \in Adds(s) : r.dst = a.dst
-----------------------------------------------------------------------------
\* Connect has dialled the server; the panel then passes the tunnel's gateway, a
\* command what the name resolves to now.
Dialled ==
  /\ pc = "idle" /\ uplinks # <<>>
  /\ \E s \in Servers : carrier' = [addr |-> s, dev |-> Dev(s)]
  /\ IF panel THEN serverIP' = Gateway ELSE serverIP' \in Servers
  /\ pc' = "create"
  /\ UNCHANGED <<setting, uplinks, table, tun, step, orig, dirty>>

\* RunTUN is over, and the tunnel closed; broke if the process died.
Ended(broke) ==
  /\ pc' = "idle" /\ carrier' = NoCarrier /\ serverIP' = None /\ orig' = None
  /\ dirty' = ((dirty \/ broke) /\ table' # {})

\* The handshake, the look-up of the server's name or CreateTUN fails.
Abandoned ==
  /\ pc = "create"
  /\ UNCHANGED <<setting, uplinks, table, tun, step>>
  /\ Ended(FALSE)

CreateTUN ==
  /\ pc = "create"
  /\ tun' = TRUE /\ pc' = "lookup"
  /\ UNCHANGED <<setting, uplinks, table, step, carrier, serverIP, orig, dirty>>

\* defaultRoute reads every line, so that the last one counts; defaultGateway
\* takes the first.
DefaultRoute ==
  /\ pc = "lookup" /\ uplinks # <<>>
  /\ orig' = IF windows THEN Head(uplinks) ELSE uplinks[Len(uplinks)]
  /\ pc' = "setup" /\ step' = 0
  /\ UNCHANGED <<setting, uplinks, table, tun, carrier, serverIP, dirty>>

NoDefaultRoute ==
  /\ pc = "lookup"
  /\ pc' = "undo" /\ step' = 0
  /\ UNCHANGED <<setting, uplinks, table, tun, carrier, serverIP, orig, dirty>>

\* The next command succeeds; a route must not exist yet.  (The name servers
\* that Windows gets at the end go with the adapter.)
StepDone ==
  /\ pc = "setup" /\ step < Len(Steps)
  /\ LET s == Steps[step + 1] IN
       /\ ~Exists(s)
       /\ s = "pin" => orig \in Range(uplinks)
       /\ table' = table \cup Adds(s)
  /\ step' = step + 1
  /\ pc' = IF step' = Len(Steps) THEN "serving" ELSE "setup"
  /\ UNCHANGED <<setting, uplinks, tun, carrier, serverIP, orig, dirty>>

\* It, or one before the first, fails: the commands before it are undone.
StepFails ==
  /\ pc = "setup" /\ step < Len(Steps)
  /\ pc' = "undo"
  /\ UNCHANGED <<setting, uplinks, table, tun, step, carrier, serverIP, orig, dirty>>

\* The device is closed at the end of the context, ahead of the undoing.
DeviceClosed ==
  /\ tun' = FALSE /\ table' = table \ Through({"tun"})
  /\ UNCHANGED <<setting, uplinks, pc, step, carrier, serverIP, orig, dirty>>

\* pump returns: the connection is lost, or the context ends.
PumpReturns ==
  /\ pc = "serving"
  /\ pc' = "undo"
  /\ UNCHANGED <<setting, uplinks, table, tun, step, carrier, serverIP, orig, dirty>>

\* Faulty variant of Removed: the pinned route is kept.
PinKept(s) == IF s = "pin" THEN {} ELSE Adds(s)

\* What undoing a command removes: on Linux the very route, on Windows all to
\* that destination.
Removed(s) ==
  IF windows THEN {r \in table : \E a \in Adds(s) : a.dst = r.dst} ELSE Adds(s)

Undo ==
  /\ pc = "undo" /\ step > 0
  /\ table' = table \ Removed(Steps[step])
  /\ step' = step - 1
  /\ UNCHANGED <<setting, uplinks, tun, pc, carrier, serverIP, orig, dirty>>

\* Its error is ignored.  (Routes through the device go with it in any case.)
UndoFails ==
  /\ pc = "undo" /\ step > 0 /\ Steps[step] = "pin"
  /\ step' = step - 1 /\ dirty' = TRUE
  /\ UNCHANGED <<setting, uplinks, table, tun, pc, carrier, serverIP, orig>>

\* dev.Close; RunTUN returns.
CloseDevice ==
  /\ pc = "undo" /\ step = 0
  /\ tun' = FALSE /\ table' = table \ Through({"tun"})
  /\ Ended(FALSE)
  /\ UNCHANGED <<setting, uplinks, step>>

\* The process is killed.
Crash ==
  /\ pc # "idle"
  /\ tun' = FALSE /\ table' = table \ Through({"tun"})
  /\ Ended(TRUE) /\ step' = 0
  /\ UNCHANGED <<setting, uplinks>>

\* Interfaces go up and down; the kernel drops the routes through those that
\* are gone, and connections over them die.
Roam ==
  /\ \E n \in 0 .. MaxUplinks :
       uplinks' \in {u \in [1 .. n -> Uplinks] : IsInjective(u)}
  /\ uplinks' # uplinks
  /\ LET gone == Uplinks \ Range(uplinks') IN
       /\ table' = table \ Through(gone)
       /\ carrier' = IF carrier.dev \in gone THEN NoCarrier ELSE carrier
  /\ dirty' = (dirty /\ (pc = "idle" => table' # {}))
  /\ UNCHANGED <<setting, tun, pc, step, serverIP, orig>>

\* The machine is restarted.
Reboot ==
  /\ tun' = FALSE /\ table' = {} /\ Ended(FALSE) /\ step' = 0
  /\ UNCHANGED <<setting, uplinks>>

Init ==
  /\ windows \in BOOLEAN /\ panel \in BOOLEAN
  /\ uplinks \in {<<u>> : u \in Uplinks}
  /\ table = {} /\ tun = FALSE /\ pc = "idle" /\ step = 0
  /\ carrier = NoCarrier /\ serverIP = None /\ orig = None
  /\ dirty = FALSE
=============================================================================
