-------------------------- MODULE ServerStartProofs --------------------------
(***************************************************************************)
(* Machine-checked proofs about HostNet and ServerStart, for any number of *)
(* server processes and tools, any interfaces, any number of failing       *)
(* look-ups and any number of keys.                                        *)
(***************************************************************************)
EXTENDS ServerStart, TLAPS

\* Every rule apply names is one of the host's, and two rules of one process
\* are different ones.
LEMMA RuleFacts ==
  ASSUME NEW i \in 1 .. RuleCount, NEW w \in Ifaces
  PROVE  /\ Rule(i, w) \in Rules
         /\ \A j \in 1 .. RuleCount : Rule(i, w) = Rule(j, w) => i = j
BY HostNetAssumption DEF Rule, Rules, RuleCount

\* The host as the first server finds it satisfies the invariant.
LEMMA InitHostNetInv == Init => HostNetInv
<1> SUFFICES ASSUME Init PROVE HostNetInv
  OBVIOUS
<1> USE HostNetAssumption DEF Init
<1>1. rules \in [Rules -> Nat] /\ \A r \in Rules : rules[r] <= 1
  OBVIOUS
<1>2. TypeOK
  <2>1. missed \in 0 .. MaxMissed /\ applied \in [Procs -> 0 .. RuleCount]
    BY DEF RuleCount
  <2> QED BY <1>1, <2>1, ZenonT(30) DEF TypeOK, Labels
<1>3. RulesDoNotPileUp
  BY <1>1 DEF RulesDoNotPileUp
<1>4. ASSUME NEW p \in Procs PROVE InOrder(p)
  <2>1. tun # p /\ pc[p] = "off" /\ applied[p] = 0 /\ ~(0 > 0)
    OBVIOUS
  <2> QED BY <2>1, ZenonT(30) DEF InOrder
<1> QED BY <1>2, <1>3, <1>4 DEF HostNetInv

\* Only the process that holds the device takes a step; every other one is off
\* and its part of the invariant does not mention what the step changes.
LEMMA OthersInOrder ==
  ASSUME HostNetInv, NEW p \in Procs, NEW q \in Procs, q # p,
         tun \in {p, NoProc}, tun' \in {p, NoProc},
         pc'[q] = pc[q], applied'[q] = applied[q]
  PROVE  InOrder(q)'
<1>1. InOrder(q) /\ tun # q /\ tun' # q
  BY HostNetAssumption DEF HostNetInv
<1>2. pc[q] = "off" /\ applied[q] = 0
  BY <1>1 DEF InOrder
<1> QED BY <1>1, <1>2 DEF InOrder

\* A process that is not off holds the device.
LEMMA Holder ==
  ASSUME HostNetInv, NEW p \in Procs, pc[p] # "off"
  PROVE  tun = p
BY DEF HostNetInv, InOrder

\* The steps before the rules, and the failing of any of them.
LEMMA SetUpKeepsInv ==
  ASSUME HostNetInv, NEW p \in Procs,
         OpenTUN(p) \/ DetectWAN(p) \/ AddAddress(p) \/ LinkUp(p)
           \/ EnsureIPForward(p) \/ StepFails(p)
  PROVE  HostNetInv'
<1> USE DEF Goto, host
<1>1. TypeOK /\ RulesDoNotPileUp /\ InOrder(p)
  BY DEF HostNetInv
<1>2. /\ tun \in {p, NoProc} /\ tun' = p
      /\ rules' = rules /\ missed' = missed /\ applied' = applied
  BY Holder DEF OpenTUN, DetectWAN, AddAddress, LinkUp, EnsureIPForward, StepFails
<1>3. TypeOK'
  <2>1. CASE OpenTUN(p) BY <1>1, <2>1 DEF OpenTUN, TypeOK, Labels
  <2>2. CASE DetectWAN(p)
    <3>1. PICK w \in Ifaces : wan' = [wan EXCEPT ![p] = w]
      BY <2>2 DEF DetectWAN
    <3>2. wan' \in [Procs -> Ifaces \cup {AnyIface}] /\ pc' \in [Procs -> Labels]
      BY <1>1, <2>2, <3>1, ZenonT(30) DEF DetectWAN, TypeOK, Labels
    <3> QED BY <1>1, <2>2, <3>2, ZenonT(30) DEF DetectWAN, TypeOK
  <2>3. CASE AddAddress(p) BY <1>1, <2>3 DEF AddAddress, TypeOK, Labels
  <2>4. CASE LinkUp(p) BY <1>1, <2>4 DEF LinkUp, TypeOK, Labels
  <2>5. CASE EnsureIPForward(p) BY <1>1, <2>5, ZenonT(30) DEF EnsureIPForward, TypeOK, Labels
  <2>6. CASE StepFails(p) BY <1>1, <2>6 DEF StepFails, TypeOK, Labels
  <2> QED BY <2>1, <2>2, <2>3, <2>4, <2>5, <2>6
<1>4. RulesDoNotPileUp'
  BY <1>1, <1>2 DEF RulesDoNotPileUp
<1>5. InOrder(p)'
  <2> USE DEF InOrder, TypeOK
  <2>1. CASE OpenTUN(p) BY <1>1, <2>1 DEF OpenTUN
  <2>2. CASE DetectWAN(p) BY <1>1, <2>2 DEF DetectWAN
  <2>3. CASE AddAddress(p) BY <1>1, <2>3 DEF AddAddress
  <2>4. CASE LinkUp(p) BY <1>1, <2>4 DEF LinkUp
  <2>5. CASE EnsureIPForward(p)
    <3>1. /\ pc[p] = "forward" /\ pc'[p] = "rule" /\ forward' = TRUE
          /\ UNCHANGED <<tun, device, wan>>
      BY <1>1, <2>5, ZenonT(30) DEF EnsureIPForward
    <3>2. applied'[p] = 0
      BY <1>1, <1>2, <3>1, ZenonT(30)
    <3>3. 0 < RuleCount /\ ~(0 > 0) /\ \A i \in 1 .. 0 : FALSE
      BY DEF RuleCount
    <3> QED BY <1>1, <3>1, <3>2, <3>3, ZenonT(30)
  <2>6. CASE StepFails(p) BY <1>1, <2>6 DEF StepFails
  <2> QED BY <2>1, <2>2, <2>3, <2>4, <2>5, <2>6
<1>6. ASSUME NEW q \in Procs, q # p PROVE InOrder(q)'
  <2>1. pc'[q] = pc[q] /\ applied'[q] = applied[q]
    BY <1>1, <1>2, <1>6 DEF OpenTUN, DetectWAN, AddAddress, LinkUp, EnsureIPForward,
       StepFails, TypeOK
  <2> QED BY <1>2, <1>6, <2>1, OthersInOrder
<1> QED BY <1>3, <1>4, <1>5, <1>6 DEF HostNetInv

\* ensureRule: the rule that was looked for is there afterwards, and the ones
\* before it still are.
LEMMA RuleKeepsInv ==
  ASSUME HostNetInv, NEW p \in Procs, RuleFound(p) \/ RuleAdded(p) \/ RuleMissed(p)
  PROVE  HostNetInv'
<1> DEFINE r == Rule(applied[p] + 1, wan[p])
<1>1. TypeOK /\ RulesDoNotPileUp /\ InOrder(p)
  BY DEF HostNetInv
<1>2. pc[p] = "rule" /\ RuleEnsured(p)
  BY DEF RuleFound, RuleAdded, RuleMissed
<1>3. /\ applied[p] \in Nat /\ applied[p] + 1 \in 1 .. RuleCount
      /\ wan[p] \in Ifaces /\ rules \in [Rules -> Nat] /\ missed \in 0 .. MaxMissed
  <2>1. wan[p] \in Ifaces /\ applied[p] < RuleCount /\ applied[p] \in 0 .. RuleCount
    BY <1>1, <1>2 DEF TypeOK, InOrder
  <2>2. rules \in [Rules -> Nat] /\ missed \in 0 .. MaxMissed
    BY <1>1 DEF TypeOK
  <2> QED BY <2>1, <2>2 DEF RuleCount
<1>4. r \in Rules
  BY <1>3, RuleFacts
<1>5. /\ rules' \in [Rules -> Nat] /\ missed' \in 0 .. MaxMissed /\ missed' >= missed
      /\ rules'[r] > 0
      /\ \A x \in Rules : rules'[x] >= rules[x] /\ rules'[x] <= 1 + missed'
  <2>0. /\ \A x \in Rules : rules[x] \in Nat /\ rules[x] <= 1 + missed
        /\ MaxMissed \in Nat
    BY <1>1, <1>3, HostNetAssumption DEF RulesDoNotPileUp
  <2>1. CASE RuleFound(p)
    <3>1. rules' = rules /\ missed' = missed /\ rules[r] > 0
      BY <2>1 DEF RuleFound
    <3> QED BY <1>3, <2>0, <3>1
  <2>2. CASE RuleAdded(p)
    <3>1. rules' = [rules EXCEPT ![r] = @ + 1] /\ missed' = missed /\ rules[r] = 0
      BY <2>2 DEF RuleAdded, Appended
    <3> HIDE DEF r
    <3> QED BY <1>3, <1>4, <2>0, <3>1
  <2>3. CASE RuleMissed(p)
    <3>1. /\ rules' = [rules EXCEPT ![r] = @ + 1]
          /\ missed' = missed + 1 /\ missed < MaxMissed
      BY <2>3 DEF RuleMissed, Appended
    <3> HIDE DEF r
    <3> QED BY <1>3, <1>4, <2>0, <3>1
  <2> QED BY <2>1, <2>2, <2>3
<1>6. /\ applied' = [applied EXCEPT ![p] = @ + 1]
      /\ pc' = [pc EXCEPT ![p] = IF applied[p] + 1 = RuleCount THEN "serving" ELSE "rule"]
      /\ UNCHANGED <<forward, tun, device, wan>>
  BY <1>2 DEF RuleEnsured, Goto
<1>7. TypeOK'
  <2>1. applied[p] + 1 \in 0 .. RuleCount
    BY <1>3 DEF RuleCount
  <2>2. applied' \in [Procs -> 0 .. RuleCount] /\ pc' \in [Procs -> Labels]
    BY <1>1, <1>6, <2>1, ZenonT(30) DEF TypeOK, Labels
  <2> QED BY <1>1, <1>5, <1>6, <2>2, ZenonT(30) DEF TypeOK
<1>8. RulesDoNotPileUp'
  BY <1>5 DEF RulesDoNotPileUp
<1>9. InOrder(p)'
  <2>1. applied'[p] = applied[p] + 1 /\ wan'[p] = wan[p]
    BY <1>1, <1>6 DEF TypeOK
  <2>2. pc'[p] = IF applied[p] + 1 = RuleCount THEN "serving" ELSE "rule"
    BY <1>1, <1>6 DEF TypeOK
  <2>3. ASSUME NEW i \in 1 .. applied'[p] PROVE rules'[Rule(i, wan'[p])] > 0
    <3>1. CASE i = applied[p] + 1 BY <1>5, <2>1, <3>1
    <3>2. CASE i # applied[p] + 1
      <4>1. i \in 1 .. applied[p] /\ i \in 1 .. RuleCount
        BY <1>3, <2>1, <3>2 DEF RuleCount
      <4>2. rules[Rule(i, wan[p])] > 0 /\ Rule(i, wan[p]) \in Rules
        BY <1>1, <1>2, <1>3, <4>1, RuleFacts DEF InOrder
      <4> QED BY <1>3, <1>5, <2>1, <4>2
    <3> QED BY <3>1, <3>2
  <2>4. tun' = p /\ forward' = TRUE /\ "addr" \in device' /\ "up" \in device'
    BY <1>1, <1>2, <1>6, ZenonT(30) DEF InOrder, TypeOK
  <2>5. applied'[p] = RuleCount \/ (pc'[p] = "rule" /\ applied'[p] < RuleCount)
    BY <1>3, <2>1, <2>2 DEF RuleCount
  <2> QED BY <1>3, <2>1, <2>2, <2>3, <2>4, <2>5 DEF InOrder
<1>10. ASSUME NEW q \in Procs, q # p PROVE InOrder(q)'
  <2>1. pc'[q] = pc[q] /\ applied'[q] = applied[q] /\ tun = p /\ tun' = p
    BY <1>1, <1>2, <1>6, <1>10, Holder DEF TypeOK
  <2> QED BY <1>10, <2>1, OthersInOrder
<1> QED BY <1>7, <1>8, <1>9, <1>10 DEF HostNetInv

\* Undoing takes at most one copy away, and only while no server serves.
LEMMA UndoKeepsInv ==
  ASSUME HostNetInv, NEW p \in Procs, Undo(p) \/ UndoFails(p)
  PROVE  HostNetInv'
<1>1. TypeOK /\ RulesDoNotPileUp /\ InOrder(p)
  BY DEF HostNetInv
<1>2. /\ pc[p] = "undo" /\ applied[p] > 0
      /\ applied' = [applied EXCEPT ![p] = @ - 1]
      /\ UNCHANGED <<forward, tun, device, pc, wan, missed>>
  BY DEF Undo, UndoFails, host
<1>3. /\ applied[p] \in Nat /\ applied[p] \in 1 .. RuleCount
      /\ wan[p] \in Ifaces /\ rules \in [Rules -> Nat] /\ missed \in Nat
  <2>1. /\ wan[p] \in Ifaces /\ applied[p] \in 0 .. RuleCount
        /\ rules \in [Rules -> Nat] /\ missed \in 0 .. MaxMissed
    BY <1>1, <1>2 DEF TypeOK, InOrder
  <2> QED BY <1>2, <2>1, HostNetAssumption DEF RuleCount
<1>4. Rule(applied[p], wan[p]) \in Rules
  BY <1>3, RuleFacts
<1>5. rules' \in [Rules -> Nat] /\ \A x \in Rules : rules'[x] <= rules[x]
  <2>0. \A x \in Rules : rules[x] \in Nat
    BY <1>3
  <2>1. CASE Undo(p)
    <3> DEFINE r == Rule(applied[p], wan[p])
           n == IF rules[r] > 0 THEN rules[r] - 1 ELSE 0
    <3>1. rules' = [rules EXCEPT ![r] = n] /\ r \in Rules
      BY <1>4, <2>1 DEF Undo
    <3>2. n \in Nat /\ n <= rules[r]
      BY <2>0, <3>1
    <3> HIDE DEF n, r
    <3> QED BY <1>3, <2>0, <3>1, <3>2
  <2>2. CASE UndoFails(p)
    <3>1. rules' = rules
      BY <2>2 DEF UndoFails, host
    <3> QED BY <1>3, <2>0, <3>1
  <2> QED BY <2>1, <2>2
<1>6. TypeOK'
  <2>1. applied[p] - 1 \in 0 .. RuleCount
    BY <1>3 DEF RuleCount
  <2>2. applied' \in [Procs -> 0 .. RuleCount]
    BY <1>1, <1>2, <2>1, ZenonT(30) DEF TypeOK
  <2> QED BY <1>1, <1>2, <1>5, <2>2, ZenonT(30) DEF TypeOK
<1>7. RulesDoNotPileUp'
  BY <1>1, <1>2, <1>3, <1>5 DEF RulesDoNotPileUp
<1>8. InOrder(p)'
  BY <1>1, <1>2, <1>3 DEF InOrder
<1>9. ASSUME NEW q \in Procs, q # p PROVE InOrder(q)'
  <2>1. pc'[q] = pc[q] /\ applied'[q] = applied[q] /\ tun = p /\ tun' = p
    BY <1>1, <1>2, <1>9, Holder DEF TypeOK
  <2> QED BY <1>9, <2>1, OthersInOrder
<1> QED BY <1>6, <1>7, <1>8, <1>9 DEF HostNetInv

\* However a process ends, the device is free and the rules stay as they are.
LEMMA EndKeepsInv ==
  ASSUME HostNetInv, NEW p \in Procs, FailedStart(p) \/ Shutdown(p) \/ Crash(p)
  PROVE  HostNetInv'
<1>1. TypeOK /\ RulesDoNotPileUp /\ InOrder(p)
  BY DEF HostNetInv
<1>2. /\ pc[p] # "off"
      /\ pc' = [pc EXCEPT ![p] = "off"] /\ applied' = [applied EXCEPT ![p] = 0]
      /\ wan' = [wan EXCEPT ![p] = AnyIface]
      /\ tun' = NoProc /\ device' = {}
      /\ UNCHANGED <<rules, forward, missed>>
  BY DEF FailedStart, Shutdown, Crash, Ends, Goto
<1>3. 0 \in 0 .. RuleCount /\ ~(0 > 0)
  BY DEF RuleCount
<1>4. TypeOK'
  BY <1>1, <1>2, <1>3, ZenonT(30) DEF TypeOK, Labels
<1>5. RulesDoNotPileUp'
  BY <1>1, <1>2 DEF RulesDoNotPileUp
<1>6. InOrder(p)'
  <2>1. pc'[p] = "off" /\ applied'[p] = 0 /\ tun' # p
    BY <1>1, <1>2, HostNetAssumption DEF TypeOK
  <2> QED BY <1>3, <2>1, ZenonT(30) DEF InOrder
<1>7. ASSUME NEW q \in Procs, q # p PROVE InOrder(q)'
  <2>1. pc'[q] = pc[q] /\ applied'[q] = applied[q] /\ tun = p /\ tun' = NoProc
    BY <1>1, <1>2, <1>7, Holder DEF TypeOK
  <2> QED BY <1>7, <2>1, OthersInOrder
<1> QED BY <1>4, <1>5, <1>6, <1>7 DEF HostNetInv

\* Whatever servers do to the host, in whatever order they start, fail, stop
\* and die, the invariant holds.
THEOREM HostNetInvariant == Spec => []HostNetInv
<1>1. HostNetInv /\ [Next]_vars => HostNetInv'
  <2> SUFFICES ASSUME HostNetInv, [Next]_vars PROVE HostNetInv'
    OBVIOUS
  <2>1. CASE UNCHANGED vars
    BY <2>1 DEF vars, host, HostNetInv, TypeOK, RulesDoNotPileUp, InOrder
  <2> QED
    BY <2>1, SetUpKeepsInv, RuleKeepsInv, UndoKeepsInv, EndKeepsInv, ZenonT(30) DEF Next
<1> QED BY <1>1, InitHostNetInv, PTL DEF Spec

\* For any number of server processes and interfaces: while a server serves,
\* address, link, forwarding and all four rules are in place.
THEOREM ServingStaysConfigured == Spec => []ServingIsConfigured
<1>1. HostNetInv => ServingIsConfigured
  <2> SUFFICES ASSUME HostNetInv, NEW p \in Procs, pc[p] = "serving"
               PROVE  /\ tun = p /\ device = {"addr", "up"} /\ forward
                      /\ \A i \in 1 .. RuleCount : rules[Rule(i, wan[p])] > 0
    BY DEF ServingIsConfigured
  <2>1. InOrder(p) /\ device \in SUBSET {"addr", "up"}
    BY DEF HostNetInv, TypeOK
  <2>2. applied[p] = RuleCount /\ "addr" \in device /\ "up" \in device
    BY <2>1 DEF InOrder
  <2>3. device = {"addr", "up"}
    BY <2>1, <2>2
  <2> QED BY <2>1, <2>2, <2>3, ZenonT(30) DEF InOrder
<1> QED BY <1>1, HostNetInvariant, PTL

\* However often servers start, fail, stop and crash, no rule is there more
\* than once and once more per failing look-up.
THEOREM RulesStayFew == Spec => []RulesDoNotPileUp
<1>1. HostNetInv => RulesDoNotPileUp
  BY DEF HostNetInv
<1> QED BY <1>1, HostNetInvariant, PTL

-----------------------------------------------------------------------------
(* The whole program *)

\* What main does to the host is what HostNet allows: the configuration, the
\* listener, the profile and the tools leave the host alone.
THEOREM MainIsHostNet == StartSpec => Spec
<1>1. StartInit => Init
  BY DEF StartInit
<1>2. [StartNext]_startVars => [Next]_vars
  <2> SUFFICES ASSUME StartNext PROVE [Next]_vars
    BY DEF startVars
  <2>1. ASSUME NEW p \in Procs, New(p) PROVE Next
    BY <2>1 DEF New, Next
  <2>2. ASSUME NEW p \in Procs, EndsLate(p) PROVE Next
    BY <2>2 DEF EndsLate, Next
  <2>3. StartNext => UNCHANGED vars \/ \E p \in Procs : New(p) \/ EndsLate(p)
    BY DEF StartNext, LoadConfig, Listen, PrintProfile, EndsEarly, Tool
  <2> QED BY <2>1, <2>2, <2>3
<1> QED BY <1>1, <1>2, PTL DEF StartSpec, Spec

\* A server that has printed its profile finds its host configured as long as
\* it serves, whatever other servers and tools start, fail or die meanwhile.
THEOREM MainServesConfigured == StartSpec => []ServingIsConfigured
  BY MainIsHostNet, ServingStaysConfigured, PTL

-----------------------------------------------------------------------------
(* The key file *)

\* The steps that change the file's state, each with its effect on it.
KeyStep(p) ==
  \/ K!Start(p) \/ K!LoadFails(p) \/ K!EnvKeyUsed(p) \/ K!StateRead(p)
  \/ K!KeyMade(p) \/ K!FileTruncated(p) \/ K!FileWritten(p) \/ K!WriteFails(p)
  \/ K!Listen(p) \/ K!PrintProfile(p) \/ K!Show(p) \/ K!Exit(p)

\* Every step of main and of a tool is one of these or leaves the keys alone.
LEMMA NextIsKeyStep ==
  ASSUME [StartNext]_startVars
  PROVE  UNCHANGED keyVars \/ \E p \in K!Programs : KeyStep(p)
<1>1. CASE UNCHANGED startVars
  BY <1>1 DEF startVars
<1>2. ASSUME NEW p \in K!Programs, LoadConfig(p) PROVE KeyStep(p)
  BY <1>2 DEF LoadConfig, KeyStep
<1>3. ASSUME NEW p \in Procs, Listen(p) \/ PrintProfile(p) \/ EndsEarly(p) \/ EndsLate(p)
      PROVE  KeyStep(p) /\ p \in K!Programs
  BY <1>3 DEF Listen, PrintProfile, EndsEarly, EndsLate, KeyStep, K!Programs
<1>4. ASSUME NEW p \in Procs, New(p) PROVE UNCHANGED keyVars
  BY <1>4 DEF New
<1>5. ASSUME NEW t \in Tools, Tool(t) PROVE KeyStep(t) /\ t \in K!Programs
  BY <1>5 DEF Tool, KeyStep, K!Programs
<1> QED BY <1>1, <1>2, <1>3, <1>4, <1>5 DEF StartNext

\* Every step leaves the variables of the key file with their types.
LEMMA KeyTypes ==
  ASSUME K!TypeOK, KeysInPlace, NEW p \in K!Programs, KeyStep(p)
  PROVE  K!TypeOK'
<1> USE DEF K!TypeOK, KeysInPlace, K!Goto, K!Has, K!Leaves, K!Making
<1>1. CASE K!Start(p) BY <1>1 DEF K!Start
<1>2. CASE K!LoadFails(p) BY <1>2 DEF K!LoadFails
<1>3. CASE K!EnvKeyUsed(p) BY <1>3 DEF K!EnvKeyUsed
<1>4. CASE K!StateRead(p) BY <1>4 DEF K!StateRead
<1>5. CASE K!KeyMade(p) BY <1>5 DEF K!KeyMade
<1>6. CASE K!FileTruncated(p) BY <1>6 DEF K!FileTruncated
<1>7. CASE K!FileWritten(p) BY <1>7 DEF K!FileWritten
<1>8. CASE K!WriteFails(p) BY <1>8 DEF K!WriteFails
<1>9. CASE K!Listen(p) BY <1>9 DEF K!Listen
<1>10. CASE K!PrintProfile(p) BY <1>10 DEF K!PrintProfile
<1>11. CASE K!Show(p) BY <1>11 DEF K!Show
<1>12. CASE K!Exit(p) BY <1>12, ZenonT(60) DEF K!Exit
<1> QED
  BY <1>1, <1>2, <1>3, <1>4, <1>5, <1>6, <1>7, <1>8, <1>9, <1>10, <1>11, <1>12 DEF KeyStep

\* And every program past config.Load with a key.
LEMMA KeysStayInPlace ==
  ASSUME K!TypeOK, KeysInPlace, NEW p \in K!Programs, KeyStep(p)
  PROVE  KeysInPlace'
<1> USE ServerStartAssumption DEF K!TypeOK, KeysInPlace, K!Goto, K!Has, K!Leaves, K!Making
<1>1. CASE K!Start(p) BY <1>1 DEF K!Start
<1>2. CASE K!LoadFails(p) BY <1>2 DEF K!LoadFails
<1>3. CASE K!EnvKeyUsed(p) BY <1>3 DEF K!EnvKeyUsed
<1>4. CASE K!StateRead(p) BY <1>4 DEF K!StateRead
<1>5. CASE K!KeyMade(p) BY <1>5 DEF K!KeyMade
<1>6. CASE K!FileTruncated(p) BY <1>6 DEF K!FileTruncated
<1>7. CASE K!FileWritten(p) BY <1>7 DEF K!FileWritten
<1>8. CASE K!WriteFails(p) BY <1>8 DEF K!WriteFails
<1>9. CASE K!Listen(p) BY <1>9 DEF K!Listen
<1>10. CASE K!PrintProfile(p) BY <1>10 DEF K!PrintProfile
<1>11. CASE K!Show(p) BY <1>11 DEF K!Show
<1>12. CASE K!Exit(p) BY <1>12, ZenonT(60) DEF K!Exit
<1> QED
  BY <1>1, <1>2, <1>3, <1>4, <1>5, <1>6, <1>7, <1>8, <1>9, <1>10, <1>11, <1>12 DEF KeyStep

\* A step that is no race keeps the one key: only a program that has found none
\* makes one, alone, and has written it before it goes on.
LEMMA KeyStaysOne ==
  ASSUME K!TypeOK, KeysInPlace, OneKey, NEW p \in K!Programs, KeyStep(p),
         env.psk = NoKey, ~raced'
  PROVE  OneKey'
<1> USE ServerStartAssumption
    DEF K!TypeOK, KeysInPlace, OneKey, K!Goto, K!Has, K!Leaves, K!Making
<1>1. CASE K!Start(p) BY <1>1 DEF K!Start
<1>2. CASE K!LoadFails(p) BY <1>2 DEF K!LoadFails
<1>3. CASE K!EnvKeyUsed(p) BY <1>3 DEF K!EnvKeyUsed
<1>4. CASE K!StateRead(p) BY <1>4, ZenonT(40) DEF K!StateRead
<1>5. CASE K!KeyMade(p) BY <1>5 DEF K!KeyMade
<1>6. CASE K!FileTruncated(p) BY <1>6 DEF K!FileTruncated
<1>7. CASE K!FileWritten(p) BY <1>7 DEF K!FileWritten
<1>8. CASE K!WriteFails(p) BY <1>8 DEF K!WriteFails
<1>9. CASE K!Listen(p) BY <1>9 DEF K!Listen
<1>10. CASE K!PrintProfile(p) BY <1>10 DEF K!PrintProfile
<1>11. CASE K!Show(p) BY <1>11 DEF K!Show
<1>12. CASE K!Exit(p) BY <1>12 DEF K!Exit
<1> QED
  BY <1>1, <1>2, <1>3, <1>4, <1>5, <1>6, <1>7, <1>8, <1>9, <1>10, <1>11, <1>12 DEF KeyStep

\* For any number of servers, tools and keys, whatever is killed or fails.
THEOREM KeyInvariant == StartSpec => []KeyInv
<1>1. StartInit => KeyInv
  BY ServerStartAssumption
  DEF StartInit, K!Init, KeyInv, K!TypeOK, KeysInPlace, OneKey, K!Making, K!Environments
<1>2. KeyInv /\ [StartNext]_startVars => KeyInv'
  <2> SUFFICES ASSUME KeyInv, [StartNext]_startVars PROVE KeyInv'
    OBVIOUS
  <2>1. CASE UNCHANGED keyVars
    BY <2>1 DEF keyVars, KeyInv, K!TypeOK, KeysInPlace, OneKey
  <2>2. ASSUME NEW p \in K!Programs, KeyStep(p) PROVE KeyInv'
    <3>1. K!TypeOK' /\ KeysInPlace'
      BY <2>2, KeyTypes, KeysStayInPlace DEF KeyInv
    <3>2. env' = env /\ (raced => raced')
      <4>1. CASE K!StateRead(p)
        BY <4>1, Zenon DEF K!StateRead
      <4>2. CASE ~K!StateRead(p)
        BY <2>2, <4>2, SMTT(40)
        DEF KeyStep, K!Start, K!LoadFails, K!EnvKeyUsed, K!KeyMade, K!FileTruncated,
            K!FileWritten, K!WriteFails, K!Listen, K!PrintProfile, K!Show, K!Exit
      <4> QED BY <4>1, <4>2
    <3> QED BY <2>2, <3>1, <3>2, KeyStaysOne DEF KeyInv
  <2> QED BY <2>1, <2>2, NextIsKeyStep
<1> QED BY <1>1, <1>2, PTL DEF StartSpec

\* "restarts keep the same client profile": a key that was ever handed out is
\* the one in the file and the one every program loads, unless two programs
\* have made a key at the same time.
THEOREM IssuedKeysValid == StartSpec => []IssuedKeysStayValid
<1>1. KeyInv => IssuedKeysStayValid
  <2> SUFFICES ASSUME K!TypeOK, OneKey, NEW k \in issued, NEW p \in K!Programs
               PROVE  file = k /\ key[p] \in {k, NoKey}
    BY DEF KeyInv, IssuedKeysStayValid, OneKey
  <2>1. file = k /\ k # NoKey
    BY DEF OneKey
  <2>2. step[p] \in {"off", "load", "ready", "listening", "serving"}
    BY <2>1 DEF OneKey, K!TypeOK
  <2> QED BY <2>1, <2>2 DEF OneKey
<1> QED BY <1>1, KeyInvariant, PTL

\* Once a key is settled, no start, crash or failure of any program changes it.
THEOREM KeyIsSettled == StartSpec => SettledKeyStays
<1>1. KeyInv /\ [StartNext]_startVars => [Settled => Settled' /\ file' = file]_startVars
  <2> SUFFICES ASSUME KeyInv, [StartNext]_startVars, Settled
               PROVE  Settled' /\ file' = file
    OBVIOUS
  <2>1. CASE UNCHANGED keyVars
    BY <2>1, SMTT(30) DEF keyVars, Settled
  <2>2. ASSUME NEW p \in K!Programs, KeyStep(p) PROVE Settled' /\ file' = file
    <3> USE DEF KeyInv, K!TypeOK, Settled, K!Making, K!Goto, K!Has, K!Leaves
    <3>1. CASE K!Start(p) BY <3>1 DEF K!Start
    <3>2. CASE K!LoadFails(p) BY <3>2 DEF K!LoadFails
    <3>3. CASE K!EnvKeyUsed(p) BY <3>3 DEF K!EnvKeyUsed
    <3>4. CASE K!StateRead(p) BY <3>4 DEF K!StateRead
    <3>5. CASE K!KeyMade(p) BY <3>5 DEF K!KeyMade
    <3>6. CASE K!FileTruncated(p) BY <3>6 DEF K!FileTruncated
    <3>7. CASE K!FileWritten(p) BY <3>7 DEF K!FileWritten
    <3>8. CASE K!WriteFails(p) BY <3>8 DEF K!WriteFails
    <3>9. CASE K!Listen(p) BY <3>9 DEF K!Listen
    <3>10. CASE K!PrintProfile(p) BY <3>10 DEF K!PrintProfile
    <3>11. CASE K!Show(p) BY <3>11 DEF K!Show
    <3>12. CASE K!Exit(p) BY <3>12 DEF K!Exit
    <3> QED
      BY <2>2, <3>1, <3>2, <3>3, <3>4, <3>5, <3>6, <3>7, <3>8, <3>9, <3>10, <3>11, <3>12
      DEF KeyStep
  <2> QED BY <2>1, <2>2, NextIsKeyStep
<1> QED BY <1>1, KeyInvariant, PTL DEF StartSpec, SettledKeyStays

\* The key shown was handed out; with ARNOS_PSK no program makes a key, and the only
\* key that a program has or hands out is that one.
ShownInv ==
  /\ shown # NoKey => shown \in issued
  /\ env.psk # NoKey =>
       /\ \A p \in K!Programs : step[p] \notin K!Making /\ key[p] \in {EnvKey, NoKey}
       /\ issued \subseteq {EnvKey}

\* Every step keeps that.
LEMMA ShownStep ==
  ASSUME K!TypeOK, KeysInPlace, ShownInv, NEW p \in K!Programs, KeyStep(p)
  PROVE  ShownInv'
<1> USE DEF K!TypeOK, KeysInPlace, ShownInv, K!Goto, K!Has, K!Leaves, K!Making
<1>1. CASE K!Start(p) BY <1>1 DEF K!Start
<1>2. CASE K!LoadFails(p) BY <1>2 DEF K!LoadFails
<1>3. CASE K!EnvKeyUsed(p) BY <1>3 DEF K!EnvKeyUsed
<1>4. CASE K!StateRead(p) BY <1>4 DEF K!StateRead
<1>5. CASE K!KeyMade(p) BY <1>5 DEF K!KeyMade
<1>6. CASE K!FileTruncated(p) BY <1>6 DEF K!FileTruncated
<1>7. CASE K!FileWritten(p) BY <1>7 DEF K!FileWritten
<1>8. CASE K!WriteFails(p) BY <1>8 DEF K!WriteFails
<1>9. CASE K!Listen(p) BY <1>9 DEF K!Listen
<1>10. CASE K!PrintProfile(p) BY <1>10 DEF K!PrintProfile
<1>11. CASE K!Show(p) BY <1>11 DEF K!Show
<1>12. CASE K!Exit(p) BY <1>12 DEF K!Exit
<1> QED
  BY <1>1, <1>2, <1>3, <1>4, <1>5, <1>6, <1>7, <1>8, <1>9, <1>10, <1>11, <1>12 DEF KeyStep

\* What ToolMatchesServer needs: that no two programs have made a key at the same
\* time.  Then, with ARNOS_PSK or without, in whatever order servers and tools are
\* started, killed and fail, "arnosvpnctl uri" shows the key of every server.
THEOREM ToolMatchesUnlessRaced == StartSpec => [](~raced => ToolMatchesServer)
<1>1. StartInit => ShownInv
  BY DEF StartInit, K!Init, ShownInv, K!Making
<1>2. KeyInv /\ ShownInv /\ [StartNext]_startVars => ShownInv'
  <2> SUFFICES ASSUME KeyInv, ShownInv, [StartNext]_startVars PROVE ShownInv'
    OBVIOUS
  <2>1. CASE UNCHANGED keyVars
    BY <2>1 DEF keyVars, ShownInv
  <2>2. ASSUME NEW p \in K!Programs, KeyStep(p) PROVE ShownInv'
    BY <2>2, ShownStep DEF KeyInv
  <2> QED BY <2>1, <2>2, NextIsKeyStep
<1>3. KeyInv /\ ShownInv => (~raced => ToolMatchesServer)
  <2> SUFFICES ASSUME KeyInv, ShownInv, ~raced, NEW p \in Procs, step[p] = "serving",
                      shown # NoKey
               PROVE  shown = key[p]
    BY DEF ToolMatchesServer
  <2>1. shown \in issued /\ p \in K!Programs
    BY DEF ShownInv, K!Programs
  <2>2. key[p] # NoKey
    BY <2>1 DEF KeyInv, KeysInPlace
  <2>3. CASE env.psk = NoKey
    BY <2>1, <2>3 DEF KeyInv, OneKey
  <2>4. CASE env.psk # NoKey
    BY <2>1, <2>2, <2>4 DEF ShownInv
  <2> QED BY <2>3, <2>4
<1> QED BY <1>1, <1>2, <1>3, KeyInvariant, PTL DEF StartSpec
=============================================================================
