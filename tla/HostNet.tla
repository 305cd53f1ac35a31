-------------------------------- MODULE HostNet --------------------------------
(***************************************************************************)
(* What the server does to its host (src/internal/server/nat.go, New and   *)
(* Close of server.go, src/cmd/arnosvpn-server/main.go): it opens the TUN  *)
(* device, gives it an address, turns forwarding on and adds four firewall *)
(* rules, and undoes the rules when a later step fails.                    *)
(*                                                                         *)
(* Processes of the server follow each other on one host and may overlap,  *)
(* as in a redeployment.  The device arnos0 is opened by one process at a  *)
(* time and disappears, with its address, when that process ends; rules    *)
(* and the forwarding flag stay.  Every command may fail, and a process    *)
(* may be killed between any two.  Nobody else edits these rules.          *)
(***************************************************************************)
EXTENDS Naturals

CONSTANTS Procs,        \* server processes
          NoProc,       \* nobody holds the device
          Ifaces,       \* interfaces that may carry the default route
          AnyIface,     \* in a rule that names no WAN interface
          MaxMissed     \* bound on failing look-ups of a present rule

ASSUME HostNetAssumption ==
  /\ NoProc \notin Procs
  /\ AnyIface \notin Ifaces
  /\ MaxMissed \in Nat

VARIABLES
  rules,        \* how often each rule is in the host's tables
  forward,      \* net.ipv4.ip_forward
  tun,          \* the process that holds arnos0
  device,       \* what has been set on arnos0
  pc,           \* where a process is
  wan,          \* n.wanIface
  applied,      \* len(n.applied)
  missed        \* iptables -C has failed on a present rule, so often

host == <<rules, forward, tun, device>>
vars == <<host, pc, wan, applied, missed>>

\* The rules in the order apply adds them: 1 masquerade, 2 and 3 forward from
\* and to the tunnel, 4 clamp the segment size, which names only arnos0.
RuleCount == 4
Rules == ((1 .. RuleCount - 1) \X Ifaces) \cup {<<RuleCount, AnyIface>>}
Rule(i, w) == IF i = RuleCount THEN <<i, AnyIface>> ELSE <<i, w>>

Goto(p, label) == pc' = [pc EXCEPT ![p] = label]

\* The operator may have set some of it up beforehand.
Init ==
  /\ rules \in [Rules -> {0, 1}]
  /\ forward \in BOOLEAN
  /\ tun = NoProc /\ device = {}
  /\ pc = [p \in Procs |-> "off"]
  /\ wan = [p \in Procs |-> AnyIface]
  /\ applied = [p \in Procs |-> 0]
  /\ missed = 0
-----------------------------------------------------------------------------
(* New and configureNetwork *)

\* openTUN.  The device is busy while another process holds it; the process
\* then exits before it has touched anything.
OpenTUN(p) ==
  /\ pc[p] = "off" /\ tun = NoProc
  /\ tun' = p /\ device' = {}
  /\ Goto(p, "detect")
  /\ UNCHANGED <<rules, forward, wan, applied, missed>>

\* The WAN interface: configured, or the one of the default route, which need
\* not be the one an earlier process found.
DetectWAN(p) ==
  /\ pc[p] = "detect"
  /\ \E w \in Ifaces : wan' = [wan EXCEPT ![p] = w]
  /\ Goto(p, "addr")
  /\ UNCHANGED <<host, applied, missed>>

AddAddress(p) ==
  /\ pc[p] = "addr"
  /\ device' = device \cup {"addr"}
  /\ Goto(p, "link")
  /\ UNCHANGED <<rules, forward, tun, wan, applied, missed>>

LinkUp(p) ==
  /\ pc[p] = "link"
  /\ device' = device \cup {"up"}
  /\ Goto(p, "forward")
  /\ UNCHANGED <<rules, forward, tun, wan, applied, missed>>

\* Already on, or turned on by the write.
EnsureIPForward(p) ==
  /\ pc[p] = "forward"
  /\ forward' = TRUE
  /\ Goto(p, "rule")
  /\ UNCHANGED <<rules, tun, device, wan, applied, missed>>

\* A command fails, or no WAN interface is found, or forwarding is off and
\* cannot be turned on: apply returns the error and the undoing starts.
StepFails(p) ==
  /\ pc[p] \in {"detect", "addr", "link", "rule"} \/ (pc[p] = "forward" /\ ~forward)
  /\ Goto(p, "undo")
  /\ UNCHANGED <<host, wan, applied, missed>>

\* ensureRule succeeds and its undo is recorded; after the last rule New
\* returns and the server serves.
RuleEnsured(p) ==
  /\ applied' = [applied EXCEPT ![p] = @ + 1]
  /\ Goto(p, IF applied[p] + 1 = RuleCount THEN "serving" ELSE "rule")
  /\ UNCHANGED <<forward, tun, device, wan>>

\* iptables -C finds the rule.
RuleFound(p) ==
  /\ pc[p] = "rule" /\ rules[Rule(applied[p] + 1, wan[p])] > 0
  /\ RuleEnsured(p)
  /\ UNCHANGED <<rules, missed>>

Appended(p) == [rules EXCEPT ![Rule(applied[p] + 1, wan[p])] = @ + 1]

\* Faulty variant of RuleAdded: the rule is appended without looking first.
BlindRuleAdded(p) ==
  /\ pc[p] = "rule"
  /\ rules' = Appended(p)
  /\ RuleEnsured(p)
  /\ UNCHANGED missed

\* iptables -C does not find the rule and iptables -A appends it.
RuleAdded(p) ==
  /\ pc[p] = "rule" /\ rules[Rule(applied[p] + 1, wan[p])] = 0
  /\ rules' = Appended(p)
  /\ RuleEnsured(p)
  /\ UNCHANGED missed

\* iptables -C fails for another reason, say because the tables are locked;
\* ensureRule takes any failure for absence.
RuleMissed(p) ==
  /\ pc[p] = "rule" /\ rules[Rule(applied[p] + 1, wan[p])] > 0
  /\ missed < MaxMissed
  /\ missed' = missed + 1
  /\ rules' = Appended(p)
  /\ RuleEnsured(p)
-----------------------------------------------------------------------------
(* Teardown, and the end of a process *)

\* One entry of the undo list, last first: iptables -D takes one copy away,
\* also of a rule that apply found and did not add.
Undo(p) ==
  /\ pc[p] = "undo" /\ applied[p] > 0
  /\ rules' = [rules EXCEPT ![Rule(applied[p], wan[p])] = IF @ > 0 THEN @ - 1 ELSE 0]
  /\ applied' = [applied EXCEPT ![p] = @ - 1]
  /\ UNCHANGED <<forward, tun, device, pc, wan, missed>>

\* The command fails and the rule stays; the error is ignored.
UndoFails(p) ==
  /\ pc[p] = "undo" /\ applied[p] > 0
  /\ applied' = [applied EXCEPT ![p] = @ - 1]
  /\ UNCHANGED <<host, pc, wan, missed>>

\* The process is gone and with it the device.
Ends(p) ==
  /\ Goto(p, "off")
  /\ tun' = NoProc /\ device' = {}
  /\ wan' = [wan EXCEPT ![p] = AnyIface]
  /\ applied' = [applied EXCEPT ![p] = 0]
  /\ UNCHANGED <<rules, forward, missed>>

\* Faulty variant of FailedStart: New closes the device before the teardown.
EarlyFailedStart(p) ==
  /\ pc[p] = "undo"
  /\ \/ tun = p /\ tun' = NoProc /\ device' = {} /\ UNCHANGED <<pc, wan, applied>>
     \/ /\ applied[p] = 0 /\ tun # p
        /\ Goto(p, "off") /\ wan' = [wan EXCEPT ![p] = AnyIface]
        /\ UNCHANGED <<tun, device, applied>>
  /\ UNCHANGED <<rules, forward, missed>>

\* New closes the device, returns the error, and main exits.
FailedStart(p) ==
  /\ pc[p] = "undo" /\ applied[p] = 0
  /\ Ends(p)

\* A signal, or an error of the listener: Serve returns and main leaves by
\* os.Exit or log.Fatalf, neither of which runs the deferred Close.
Shutdown(p) ==
  /\ pc[p] = "serving"
  /\ Ends(p)

\* The process is killed.
Crash(p) ==
  /\ pc[p] # "off"
  /\ Ends(p)

Next == \E p \in Procs :
  \/ OpenTUN(p) \/ DetectWAN(p) \/ AddAddress(p) \/ LinkUp(p) \/ EnsureIPForward(p)
  \/ StepFails(p) \/ RuleFound(p) \/ RuleAdded(p) \/ RuleMissed(p)
  \/ Undo(p) \/ UndoFails(p) \/ FailedStart(p)
  \/ Shutdown(p) \/ Crash(p)

Spec == Init /\ [][Next]_vars
-----------------------------------------------------------------------------
Labels == {"off", "detect", "addr", "link", "forward", "rule", "undo", "serving"}

\* Every variable has its type.
TypeOK ==
  /\ rules \in [Rules -> Nat] /\ forward \in BOOLEAN
  /\ tun \in Procs \cup {NoProc}
  /\ device \in SUBSET {"addr", "up"}
  /\ pc \in [Procs -> Labels]
  /\ wan \in [Procs -> Ifaces \cup {AnyIface}]
  /\ applied \in [Procs -> 0 .. RuleCount]
  /\ missed \in 0 .. MaxMissed

\* While a server serves, everything apply sets up is in place: address, link,
\* forwarding and all four rules.  No failing, restarted or killed process
\* takes any of it away, because New keeps the device until its teardown is
\* over and nobody edits rules without the device.
ServingIsConfigured ==
  \A p \in Procs : pc[p] = "serving" =>
    /\ tun = p /\ device = {"addr", "up"} /\ forward
    /\ \A i \in 1 .. RuleCount : rules[Rule(i, wan[p])] > 0

\* ensureRule "stays idempotent": however often servers start, fail, stop and
\* crash, a rule is in the tables once, and once more for every look-up of it
\* that failed although it was there.
RulesDoNotPileUp == \A r \in Rules : rules[r] <= 1 + missed

\* A process that is not off holds the device, and has done what it has passed.
InOrder(p) ==
  /\ tun = p <=> pc[p] # "off"
  /\ pc[p] \in {"off", "detect", "addr", "link", "forward"} => applied[p] = 0
  /\ pc[p] = "rule" => applied[p] < RuleCount
  /\ pc[p] = "serving" => applied[p] = RuleCount
  /\ pc[p] \in {"addr", "link", "forward", "rule", "serving"} => wan[p] \in Ifaces
  /\ applied[p] > 0 => wan[p] \in Ifaces
  /\ pc[p] \in {"link", "forward", "rule", "serving"} => "addr" \in device
  /\ pc[p] \in {"forward", "rule", "serving"} => "up" \in device
  /\ pc[p] \in {"rule", "serving"} => forward
  /\ pc[p] \in {"rule", "serving"} =>
       \A i \in 1 .. applied[p] : rules[Rule(i, wan[p])] > 0

\* The inductive invariant.
HostNetInv == TypeOK /\ RulesDoNotPileUp /\ \A p \in Procs : InOrder(p)
=============================================================================
