---------------------------- MODULE DesktopProofs ----------------------------
(***************************************************************************)
(* Machine-checked proofs about the desktop client: its controller, for    *)
(* any number of requests, and its updater, for any number of processes,   *)
(* requests and releases.                                                  *)
(***************************************************************************)
EXTENDS Controller, Updater, WellFoundedInduction, TLAPS

(* The controller *)

\* The client starts disconnected.
LEMMA ControllerInit ==
  Init => ControllerInv
<1> SUFFICES ASSUME Init PROVE ControllerInv
  OBVIOUS
<1> USE ControllerAssumption DEF Init
<1>1. TypeOK
  BY ZenonT(30) DEF TypeOK, Idle, SessionPc, Modes
<1>2. SnapshotConsistent
  BY DEF SnapshotConsistent
<1>3. DisconnectHasTarget
  BY DEF DisconnectHasTarget
<1>4. ASSUME NEW s \in Sessions
      PROVE  /\ pc[s] = "idle" /\ ~ctxDone[s] /\ taken.cancel # s
             /\ \A p \in Ports : port[p] # s
  BY ZenonT(60) DEF Idle
<1> QED
  BY <1>1, <1>2, <1>3, <1>4 DEF ControllerInv, Supervised

\* Every step of Connect, of the supervisor, of the listeners and of
\* Disconnect preserves the invariant.
LEMMA ControllerStep ==
  ASSUME ControllerInv, [Next]_vars
  PROVE  ControllerInv'
<1> USE ControllerAssumption
    DEF ControllerInv, TypeOK, SnapshotConsistent, DisconnectHasTarget,
        Supervised, SessionPc, Modes, fields, session, Goto
<1>1. ASSUME NEW s \in Sessions, Connect(s) PROVE ControllerInv'
  BY <1>1 DEF Connect
<1>2. ASSUME NEW s \in Sessions, ConnectSteps(s) PROVE ControllerInv'
  <2>1. CASE DialFails(s)
    BY <2>1, ZenonT(120) DEF DialFails
  <2>2. CASE DialSucceeds(s)
    BY <2>2 DEF DialSucceeds
  <2>3. CASE Publish(s)
    BY <2>3, ZenonT(120) DEF Publish
  <2> QED
    BY <1>2, <2>1, <2>2, <2>3 DEF ConnectSteps
<1>3. ASSUME NEW s \in Sessions, RunSteps(s) PROVE ControllerInv'
  <2>1. CASE StartProxy(s)
    BY <2>1 DEF StartProxy
  <2>2. CASE ListenFails(s)
    BY <2>2 DEF ListenFails, Ports
  <2>3. CASE StartTUN(s)
    BY <2>3 DEF StartTUN
  <2>4. CASE StartFails(s)
    BY <2>4 DEF StartFails
  <2>5. CASE RunEnds(s)
    BY <2>5, ZenonT(60) DEF RunEnds
  <2> QED
    BY <1>3, <2>1, <2>2, <2>3, <2>4, <2>5 DEF RunSteps
<1>4. ASSUME NEW s \in Sessions, SuperviseSteps(s) PROVE ControllerInv'
  <2>1. CASE CloseTunnel(s)
    BY <2>1 DEF CloseTunnel
  <2>2. CASE Ended(s)
    BY <2>2, ZenonT(120) DEF Ended
  <2>3. CASE Retry(s)
    BY <2>3 DEF Retry
  <2>4. CASE BackoffCancelled(s)
    BY <2>4 DEF BackoffCancelled
  <2>5. CASE BackoffOver(s)
    BY <2>5 DEF BackoffOver
  <2>6. CASE RedialFails(s)
    BY <2>6 DEF RedialFails
  <2>7. CASE RedialSucceeds(s)
    BY <2>7 DEF RedialSucceeds
  <2>8. CASE Republish(s)
    <3>1. /\ pc[s] = "republish"
          /\ tunnel' = s /\ connected' = TRUE /\ connecting' = FALSE
          /\ pc' = [pc EXCEPT ![s] = "start"]
          /\ UNCHANGED <<open, mode, wantConn, cancel, ctxDone, port, taken>>
      BY <2>8 DEF Republish
    <3> QED
      BY <3>1, ZenonT(120)
  <2> QED
    BY <1>4, <2>1, <2>2, <2>3, <2>4, <2>5, <2>6, <2>7, <2>8 DEF SuperviseSteps
<1>5. ASSUME NEW s \in Sessions, Forget(s) PROVE ControllerInv'
  BY <1>5 DEF Forget
<1>6. ASSUME NEW p \in Ports, AcceptFails(p) PROVE ControllerInv'
  BY <1>6 DEF AcceptFails
<1>7. CASE DisconnectTakes
  BY <1>7, ZenonT(30) DEF DisconnectTakes
<1>8. CASE DisconnectActs
  BY <1>8 DEF DisconnectActs, Idle
<1>9. CASE UNCHANGED vars
  BY <1>9 DEF vars
<1> QED
  BY <1>1, <1>2, <1>3, <1>4, <1>5, <1>6, <1>7, <1>8, <1>9 DEF Next

\* For any number of sessions, however Connect, reconnects and Disconnect
\* interleave, the snapshot shows a tunnel exactly when it says connected,
\* and never a tunnel whose supervisor is done with it.
THEOREM SnapshotIsConsistent == Spec => []SnapshotConsistent
<1>1. ControllerInv => SnapshotConsistent
  BY DEF ControllerInv
<1> QED
  BY <1>1, ControllerInit, ControllerStep, PTL DEF Spec

\* For any number of sessions, the cancel function that Disconnect calls
\* belongs to a session that is still supervised and not cancelled.
THEOREM DisconnectReachesSession == Spec => []DisconnectHasTarget
<1>1. ControllerInv => DisconnectHasTarget
  BY DEF ControllerInv
<1> QED
  BY <1>1, ControllerInit, ControllerStep, PTL DEF Spec

\* The controller's invariant as a whole holds for any number of sessions.
THEOREM ControllerInvariant == Spec => []ControllerInv
BY ControllerInit, ControllerStep, PTL DEF Spec

\* The steps a cancelled supervisor has before it at most: a run that is starting
\* or serving has to end first, and an attempt under way may still succeed.
StepsLeft(l) ==
  CASE l = "redial" -> 8 [] l = "republish" -> 7 [] l = "start" -> 6 [] l = "serve" -> 5
    [] l = "close" -> 4 [] l = "ended" -> 3 [] l = "backoff" -> 2 [] l = "retry" -> 1
    [] OTHER -> 0

\* Behind CancelledSessionEnds: once its context is cancelled a supervisor has at
\* most eight steps left, wherever it is, and nothing that other sessions, ports or
\* requests do gives it more; the context stays cancelled until it has finished.
CancelledWindsDown ==
  [][\A s \in Sessions : ctxDone[s] /\ pc[s] # "done" =>
       ctxDone'[s] /\ (pc'[s] = pc[s] \/ StepsLeft(pc'[s]) < StepsLeft(pc[s]))]_vars

\* Behind ReconnectServes: "reconnect with backoff until the user disconnects".  A
\* supervisor finishes only if its own context was cancelled: no failure to dial,
\* no port in use and no other session makes it give up.
NeverGivesUp ==
  [][\A s \in Sessions : pc[s] \in Supervised => pc'[s] \in Supervised \/ ctxDone[s]]_vars

\* What one step does to a session that is supervised or over: it moves as its own
\* step says, or stays.
LEMMA SupervisorStep ==
  ASSUME ControllerInv, [Next]_vars, NEW s \in Sessions, pc[s] \in Supervised
  PROVE  /\ ctxDone[s] => /\ ctxDone'[s]
                          /\ pc'[s] = pc[s] \/ StepsLeft(pc'[s]) < StepsLeft(pc[s])
         /\ pc'[s] \in Supervised \/ ctxDone[s]
<1> DEFINE Goal == /\ ctxDone[s] => /\ ctxDone'[s]
                                    /\ pc'[s] = pc[s] \/ StepsLeft(pc'[s]) < StepsLeft(pc[s])
                   /\ pc'[s] \in Supervised \/ ctxDone[s]
<1>0. /\ pc \in [Sessions -> SessionPc] /\ ctxDone \in [Sessions -> BOOLEAN] /\ wantConn
      /\ \A p \in Ports : port[p] = s => pc[s] = "serve"
  BY DEF ControllerInv, TypeOK
<1>1. ASSUME UNCHANGED <<pc, ctxDone>> PROVE Goal
  BY <1>1
<1> USE <1>0 DEF Goto, fields, session, Supervised, StepsLeft
<1>2. ASSUME NEW t \in Sessions, Connect(t) \/ ConnectSteps(t) PROVE Goal
  BY <1>2 DEF Connect, ConnectSteps, DialFails, DialSucceeds, Publish
<1>3. ASSUME NEW t \in Sessions, RunSteps(t) PROVE Goal
  <2>1. CASE StartProxy(t)  BY <2>1 DEF StartProxy
  <2>2. CASE ListenFails(t)  BY <2>2 DEF ListenFails
  <2>3. CASE StartTUN(t)  BY <2>3 DEF StartTUN
  <2>4. CASE StartFails(t)  BY <2>4 DEF StartFails
  <2>5. CASE RunEnds(t)  BY <2>5 DEF RunEnds
  <2> QED
    BY <1>3, <2>1, <2>2, <2>3, <2>4, <2>5 DEF RunSteps
<1>4. ASSUME NEW t \in Sessions, SuperviseSteps(t) PROVE Goal
  <2>1. CASE CloseTunnel(t)  BY <2>1 DEF CloseTunnel
  <2>2. CASE Ended(t)  BY <2>2 DEF Ended
  <2>3. CASE Retry(t)  BY <2>3 DEF Retry
  <2>4. CASE BackoffCancelled(t)  BY <2>4 DEF BackoffCancelled
  <2>5. CASE BackoffOver(t)  BY <2>5 DEF BackoffOver
  <2>6. CASE RedialFails(t)  BY <2>6 DEF RedialFails
  <2>7. CASE RedialSucceeds(t)  BY <2>7 DEF RedialSucceeds
  <2>8. CASE Republish(t)  BY <2>8 DEF Republish
  <2> QED
    BY <1>4, <2>1, <2>2, <2>3, <2>4, <2>5, <2>6, <2>7, <2>8 DEF SuperviseSteps
<1>5. ASSUME NEW t \in Sessions, Forget(t) PROVE Goal
  BY <1>5 DEF Forget
<1>6. ASSUME NEW p \in Ports, AcceptFails(p) PROVE Goal
  BY <1>6 DEF AcceptFails
<1>7. CASE DisconnectTakes
  BY <1>1, <1>7 DEF DisconnectTakes
<1>8. CASE DisconnectActs
  BY <1>8 DEF DisconnectActs
<1>9. CASE UNCHANGED vars
  BY <1>1, <1>9 DEF vars
<1> QED
  BY <1>2, <1>3, <1>4, <1>5, <1>6, <1>7, <1>8, <1>9 DEF Next

\* A context is cancelled only when its session is supervised or over.
LEMMA CancelledIsSupervised ==
  ASSUME ControllerInv, NEW s \in Sessions, ctxDone[s], pc[s] # "done"
  PROVE  pc[s] \in Supervised
BY DEF ControllerInv, TypeOK, SessionPc

\* For any number of sessions, a supervisor whose context is cancelled runs down in
\* at most eight steps of its own, and nobody else's step sets it back.
THEOREM CancelledSupervisorsWindDown == Spec => CancelledWindsDown
<1>1. ControllerInv /\ [Next]_vars =>
        [\A s \in Sessions : ctxDone[s] /\ pc[s] # "done" =>
           ctxDone'[s] /\ (pc'[s] = pc[s] \/ StepsLeft(pc'[s]) < StepsLeft(pc[s]))]_vars
  BY SupervisorStep, CancelledIsSupervised
<1> QED
  BY <1>1, ControllerInit, ControllerStep, PTL DEF Spec, CancelledWindsDown

\* For any number of sessions, a supervisor goes on until its own context is
\* cancelled.
THEOREM SupervisorsPersist == Spec => NeverGivesUp
<1>1. ControllerInv /\ [Next]_vars =>
        [\A s \in Sessions : pc[s] \in Supervised =>
           pc'[s] \in Supervised \/ ctxDone[s]]_vars
  BY SupervisorStep
<1> QED
  BY <1>1, ControllerInit, ControllerStep, PTL DEF Spec, NeverGivesUp

\* With one session at a time: its tunnel is the one shown, from the publication
\* until it is closed or somebody disconnects.
ShownInv ==
  /\ DisconnectReachesAll
  /\ ~taken.pending => taken.cancel = None
  /\ \A s \in Sessions :
       pc[s] \in {"start", "serve", "close", "ended"} /\ ~ctxDone[s] /\ taken.cancel # s =>
         tunnel = s

\* Every step keeps that, if no second session can come in between.
LEMMA ShownStep ==
  ASSUME \A s, t \in Sessions : s = t, ControllerInv, ShownInv, [Next]_vars
  PROVE  ShownInv'
<1> USE ControllerAssumption
    DEF ControllerInv, TypeOK, ShownInv, DisconnectReachesAll, Supervised, SessionPc,
        fields, session, Goto
<1>1. ASSUME NEW s \in Sessions, Connect(s) \/ ConnectSteps(s) PROVE ShownInv'
  <2>1. CASE Connect(s)  BY <2>1 DEF Connect
  <2>2. CASE DialFails(s)  BY <2>2 DEF DialFails
  <2>3. CASE DialSucceeds(s)  BY <2>3 DEF DialSucceeds
  <2>4. CASE Publish(s)  BY <2>4 DEF Publish
  <2> QED
    BY <1>1, <2>1, <2>2, <2>3, <2>4 DEF ConnectSteps
<1>2. ASSUME NEW s \in Sessions, RunSteps(s) PROVE ShownInv'
  <2>1. CASE StartProxy(s)  BY <2>1 DEF StartProxy
  <2>2. CASE ListenFails(s)  BY <2>2 DEF ListenFails
  <2>3. CASE StartTUN(s)  BY <2>3 DEF StartTUN
  <2>4. CASE StartFails(s)  BY <2>4 DEF StartFails
  <2>5. CASE RunEnds(s)  BY <2>5 DEF RunEnds
  <2> QED
    BY <1>2, <2>1, <2>2, <2>3, <2>4, <2>5 DEF RunSteps
<1>3. ASSUME NEW s \in Sessions, SuperviseSteps(s) PROVE ShownInv'
  <2>1. CASE CloseTunnel(s)  BY <2>1 DEF CloseTunnel
  <2>2. CASE Ended(s)  BY <2>2 DEF Ended
  <2>3. CASE Retry(s)  BY <2>3 DEF Retry
  <2>4. CASE BackoffCancelled(s)  BY <2>4 DEF BackoffCancelled
  <2>5. CASE BackoffOver(s)  BY <2>5 DEF BackoffOver
  <2>6. CASE RedialFails(s)  BY <2>6 DEF RedialFails
  <2>7. CASE RedialSucceeds(s)  BY <2>7 DEF RedialSucceeds
  <2>8. CASE Republish(s)  BY <2>8 DEF Republish
  <2> QED
    BY <1>3, <2>1, <2>2, <2>3, <2>4, <2>5, <2>6, <2>7, <2>8 DEF SuperviseSteps
<1>4. ASSUME NEW s \in Sessions, Forget(s) PROVE ShownInv'
  BY <1>4 DEF Forget
<1>5. ASSUME NEW p \in Ports, AcceptFails(p) PROVE ShownInv'
  BY <1>5 DEF AcceptFails
<1>6. CASE DisconnectTakes
  BY <1>6 DEF DisconnectTakes
<1>7. CASE DisconnectActs
  BY <1>7 DEF DisconnectActs, Idle
<1>8. CASE UNCHANGED vars
  BY <1>8 DEF vars
<1> QED
  BY <1>1, <1>2, <1>3, <1>4, <1>5, <1>6, <1>7, <1>8 DEF Next

\* If a Connect can begin only once the supervisor of the session before has
\* returned, which the guard of Connect does not ensure, the two promises of the
\* controller that it breaks hold: Disconnect reaches every supervisor, and a
\* session that serves is shown.
THEOREM OneSessionIsShown ==
  ASSUME \A s, t \in Sessions : s = t
  PROVE  Spec => [](DisconnectReachesAll /\ ServingIsShown)
<1>1. Init => ShownInv
  BY ControllerAssumption DEF Init, ShownInv, DisconnectReachesAll, Supervised, Idle
<1>2. ControllerInv /\ ShownInv /\ [Next]_vars => ShownInv'
  BY ShownStep
<1>3. ControllerInv /\ ShownInv => DisconnectReachesAll /\ ServingIsShown
  BY ControllerAssumption DEF ControllerInv, ShownInv, SnapshotConsistent, ServingIsShown
<1> QED
  BY <1>1, <1>2, <1>3, ControllerInit, ControllerStep, PTL DEF Spec
-----------------------------------------------------------------------------
(* Version numbers *)

\* A set of naturals that is not empty has a least element.
LEMMA LeastNat ==
  ASSUME NEW T \in SUBSET Nat, T # {}
  PROVE  \E x \in T : \A y \in T : x <= y
<1> DEFINE R == OpToRel(<, Nat)
<1>1. IsWellFoundedOn(R, Nat)
  BY NatLessThanWellFounded
<1>2. \A x, y \in Nat : <<y, x>> \in R <=> y < x
  BY SMT DEF OpToRel
<1> HIDE DEF R
<1>3. PICK x \in T : \A y \in T : ~(<<y, x>> \in R)
  BY <1>1, WFMin
<1>4. \A y \in T : ~(y < x)
  BY <1>2, <1>3
<1>5. \A y \in T : x <= y
  BY <1>4
<1> QED
  BY <1>5

Proper(v) == Parsable(v) /\ parseVersion(v) \in Seq(Nat)

\* isNewer on versions that can be parsed, with every number past the end 0.
Above(x, y) ==
  \E i \in Nat \ {0} :
    Nth(x, i) > Nth(y, i) /\ \A j \in 1 .. i - 1 : Nth(x, j) = Nth(y, j)

\* The numbers of a version are naturals, and 0 past the end.
LEMMA NthNat ==
  ASSUME NEW x \in Seq(Nat), NEW i \in Nat \ {0}
  PROVE  Nth(x, i) \in Nat /\ (Nth(x, i) > 0 => i \in DOMAIN x)
BY DEF Nth

LEMMA NewerIsAbove ==
  ASSUME NEW a, NEW b, Proper(a), Proper(b)
  PROVE  isNewer(a, b) <=> Above(parseVersion(a), parseVersion(b))
<1> DEFINE x == parseVersion(a)
           y == parseVersion(b)
           Decides(i) == Nth(x, i) > Nth(y, i) /\ \A j \in 1 .. i - 1 : Nth(x, j) = Nth(y, j)
<1>1. isNewer(a, b) <=> \E i \in DOMAIN x \cup DOMAIN y : Decides(i)
  BY DEF isNewer, Proper
<1>2. x \in Seq(Nat) /\ y \in Seq(Nat)
  BY DEF Proper
<1> HIDE DEF x, y
<1>3. \A i \in DOMAIN x \cup DOMAIN y : i \in Nat \ {0}
  BY <1>2
<1>4. \A i \in Nat \ {0} : Nth(x, i) > Nth(y, i) => i \in DOMAIN x
  BY <1>2, NthNat
<1>5. (\E i \in DOMAIN x \cup DOMAIN y : Decides(i)) <=> \E i \in Nat \ {0} : Decides(i)
  BY <1>3, <1>4
<1> QED
  BY <1>1, <1>5 DEF Above, x, y

\* A version that raises a number of another is newer.
LEMMA RaisedIsNewer ==
  ASSUME NEW a, NEW b, Proper(a), Proper(b), Raised(parseVersion(a), parseVersion(b))
  PROVE  isNewer(a, b)
<1> DEFINE x == parseVersion(a)
           y == parseVersion(b)
<1>1. x \in Seq(Nat) /\ Raised(x, y)
  BY DEF Proper
<1> HIDE DEF x, y
<1>2. PICK i \in DOMAIN x : x[i] > Nth(y, i) /\ \A j \in 1 .. i - 1 : x[j] = Nth(y, j)
  BY <1>1 DEF Raised
<1>3. i \in Nat \ {0} /\ \A j \in 1 .. i : Nth(x, j) = x[j]
  BY <1>1 DEF Nth
<1>4. Nth(x, i) > Nth(y, i) /\ \A j \in 1 .. i - 1 : Nth(x, j) = Nth(y, j)
  BY <1>2, <1>3
<1> QED
  BY <1>3, <1>4, NewerIsAbove DEF Above, x, y

\* Versions that can be parsed are ordered: no version is newer than itself or
\* than one that is newer, and a version newer than a newer one is newer.
LEMMA NewerIsAnOrder ==
  /\ \A a : Proper(a) => ~isNewer(a, a)
  /\ \A a, b : Proper(a) /\ Proper(b) /\ isNewer(a, b) => ~isNewer(b, a)
  /\ \A a, b, c : Proper(a) /\ Proper(b) /\ Proper(c) /\ isNewer(a, b) /\ isNewer(b, c)
                    => isNewer(a, c)
<1>1. ASSUME NEW x \in Seq(Nat), NEW y \in Seq(Nat), NEW z \in Seq(Nat),
             Above(x, y), Above(y, z)
      PROVE  Above(x, z)
  <2>1. PICK i \in Nat \ {0} :
          Nth(x, i) > Nth(y, i) /\ \A j \in 1 .. i - 1 : Nth(x, j) = Nth(y, j)
    BY <1>1 DEF Above
  <2>2. PICK k \in Nat \ {0} :
          Nth(y, k) > Nth(z, k) /\ \A j \in 1 .. k - 1 : Nth(y, j) = Nth(z, j)
    BY <1>1 DEF Above
  <2>3. \A n \in Nat \ {0} : Nth(x, n) \in Nat /\ Nth(y, n) \in Nat /\ Nth(z, n) \in Nat
    BY <1>1, NthNat
  <2>4. CASE i <= k
    <3>1. \A j \in 1 .. i - 1 : j \in 1 .. k - 1
      BY <2>4
    <3>2. Nth(y, i) >= Nth(z, i)
      <4>1. CASE i = k
        BY <2>2, <2>3, <4>1
      <4>2. CASE i # k
        <5>1. i \in 1 .. k - 1
          BY <2>4, <4>2
        <5> QED
          BY <2>2, <2>3, <5>1
      <4> QED
        BY <4>1, <4>2
    <3>3. Nth(x, i) > Nth(z, i)
      BY <2>1, <2>3, <3>2
    <3>4. \A j \in 1 .. i - 1 : Nth(x, j) = Nth(z, j)
      BY <2>1, <2>2, <3>1
    <3> QED
      BY <3>3, <3>4 DEF Above
  <2>5. CASE ~(i <= k)
    <3>1. \A j \in 1 .. k - 1 : j \in 1 .. i - 1
      BY <2>5
    <3>2. k \in 1 .. i - 1
      BY <2>5
    <3>3. Nth(x, k) > Nth(z, k)
      BY <2>1, <2>2, <3>2
    <3>4. \A j \in 1 .. k - 1 : Nth(x, j) = Nth(z, j)
      BY <2>1, <2>2, <3>1
    <3> QED
      BY <3>3, <3>4 DEF Above
  <2> QED
    BY <2>4, <2>5
<1>2. ASSUME NEW x \in Seq(Nat) PROVE ~Above(x, x)
  BY <1>2, NthNat DEF Above
<1>3. \A a : Proper(a) => ~isNewer(a, a)
  BY <1>2, NewerIsAbove DEF Proper
<1>4. ASSUME NEW a, NEW b, NEW c, Proper(a), Proper(b), Proper(c), isNewer(a, b), isNewer(b, c)
      PROVE  isNewer(a, c)
  <2>1. Above(parseVersion(a), parseVersion(b)) /\ Above(parseVersion(b), parseVersion(c))
    BY <1>4, NewerIsAbove
  <2>2. Above(parseVersion(a), parseVersion(c))
    BY <1>1, <1>4, <2>1 DEF Proper
  <2> QED
    BY <1>4, <2>2, NewerIsAbove
<1> QED
  BY <1>3, <1>4

\* In a history that is published in order, the later of two releases is the
\* newer one, however far apart they are.
LEMMA LaterIsNewer ==
  ASSUME NEW r, Len(r) \in Nat, Ascending(r), NEW i \in 1 .. Len(r), NEW j \in 1 .. Len(r)
  PROVE  isNewer(r[i], r[j]) <=> i > j
<1>1. \A n \in 1 .. Len(r) : Proper(r[n])
  BY DEF Ascending, Proper
<1>2. ASSUME NEW a \in 1 .. Len(r) PROVE \A b \in 1 .. Len(r) : b > a => isNewer(r[b], r[a])
  <2> DEFINE T == {b \in 1 .. Len(r) : b > a /\ ~isNewer(r[b], r[a])}
  <2>1. T = {}
    <3> SUFFICES ASSUME T # {} PROVE FALSE
      OBVIOUS
    <3>1. T \in SUBSET Nat
      OBVIOUS
    <3>2. PICK b \in T : \A c \in T : b <= c
      BY <3>1, LeastNat
    <3>3. /\ b \in 1 .. Len(r) /\ b > a /\ ~isNewer(r[b], r[a])
          /\ b - 1 \in 1 .. Len(r) - 1 /\ b - 1 \in 1 .. Len(r) /\ b - 1 \notin T
      BY <3>2
    <3>4. isNewer(r[b], r[b - 1])
      <4>1. b = (b - 1) + 1
        BY <3>3
      <4>2. Raised(parseVersion(r[b]), parseVersion(r[b - 1]))
        BY <3>3, <4>1 DEF Ascending
      <4> QED
        BY <1>1, <3>3, <4>2, RaisedIsNewer
    <3>5. CASE b - 1 = a
      BY <3>3, <3>4, <3>5
    <3>6. CASE b - 1 # a
      <4>1. b - 1 > a
        BY <3>3, <3>6
      <4>2. isNewer(r[b - 1], r[a])
        BY <3>3, <4>1
      <4> QED
        BY <1>1, <1>2, <3>3, <3>4, <4>2, NewerIsAnOrder
    <3> QED
      BY <3>5, <3>6
  <2> QED
    BY <2>1
<1>3. CASE i > j
  BY <1>2, <1>3
<1>4. CASE i = j
  BY <1>1, <1>4, NewerIsAnOrder
<1>5. CASE j > i
  <2>1. isNewer(r[j], r[i])
    BY <1>2, <1>5
  <2> QED
    BY <1>1, <1>5, <2>1, NewerIsAnOrder
<1> QED
  BY <1>3, <1>4, <1>5
-----------------------------------------------------------------------------
(* The updater *)

\* NoFile is no file, and what a handler downloads is one.
LEMMA FileFacts ==
  /\ NoFile \notin Files
  /\ \A r \in Nat, h \in Handlers :
       /\ File(r, h) \in Files /\ File(r, h) # NoFile /\ File(r, h).rel = r
       /\ File(r, h).whole = (r \notin Oversize)
<1>1. NoFile \notin Files
  BY UpdaterAssumption
<1>2. \A r \in Nat, h \in Handlers :
        File(r, h) \in Files /\ File(r, h).rel = r /\ File(r, h).whole = (r \notin Oversize)
  BY DEF File, Files
<1> QED
  BY <1>1, <1>2

LEMMA UpdaterTypeInit == UpdaterInit => UpdaterTypeOK
<1> SUFFICES ASSUME UpdaterInit PROVE UpdaterTypeOK
  OBVIOUS
<1>1. Len(releases) \in Nat \ {0}
  BY UpdaterAssumption DEF UpdaterInit
<1>2. exe \in Files
  BY DEF UpdaterInit, Files
<1> QED
  BY <1>1, <1>2 DEF UpdaterInit, UpdaterTypeOK

LEMMA UpdaterTypeStep ==
  UpdaterTypeOK /\ BinaryInv /\ [UpdaterNext]_updaterVars => UpdaterTypeOK'
<1> SUFFICES ASSUME UpdaterTypeOK, BinaryInv, [UpdaterNext]_updaterVars
             PROVE  UpdaterTypeOK'
  OBVIOUS
<1> USE DEF setting
<1>0. Len(releases) \in Nat
  BY UpdaterAssumption DEF UpdaterTypeOK
<1>1. \A f \in Files : f.rel \in Nat
  BY DEF Files
<1>2. ASSUME NEW f \in Files, Install(f) PROVE exe' \in Files /\ best' \in Nat
  BY <1>1, <1>2 DEF Install, UpdaterTypeOK
<1>3. ASSUME NEW h \in Handlers, NEW l \in {"idle", "download", "remove", "aside", "place"},
             Proceed(h, l)
      PROVE  applying' \in [Handlers -> {"idle", "download", "remove", "aside", "place"}]
  BY <1>3 DEF Proceed, UpdaterTypeOK
<1>4. ASSUME NEW h \in Handlers, Return(h)
      PROVE  /\ applying' \in [Handlers -> {"idle", "download", "remove", "aside", "place"}]
             /\ tmp' \in [Handlers -> Files \cup {NoFile}]
  BY <1>3, <1>4 DEF Return, UpdaterTypeOK
<1>5. CASE PublishRelease
  BY <1>0, <1>5 DEF PublishRelease, UpdaterTypeOK
<1>6. ASSUME NEW p \in Procs, Launch(p) PROVE UpdaterTypeOK'
  BY <1>6 DEF Launch, UpdaterTypeOK
<1>7. ASSUME NEW p \in Procs, CleanupOldBinary(p) PROVE UpdaterTypeOK'
  BY <1>7 DEF CleanupOldBinary, UpdaterTypeOK
<1>8. ASSUME NEW p \in Procs, Exit(p) PROVE UpdaterTypeOK'
  BY <1>8 DEF Exit, UpdaterTypeOK
<1>9. ASSUME NEW h \in Handlers, CheckUpdate(h) PROVE UpdaterTypeOK'
  <2>1. File(latest, h) \in Files
    BY <1>0, FileFacts DEF UpdaterTypeOK
  <2> QED
    BY <1>3, <1>9, <2>1 DEF CheckUpdate, UpdaterTypeOK
<1>10. ASSUME NEW h \in Handlers, Download(h) PROVE UpdaterTypeOK'
  BY <1>3, <1>10 DEF Download, UpdaterTypeOK
<1>11. ASSUME NEW h \in Handlers, RemoveOld(h) PROVE UpdaterTypeOK'
  BY <1>3, <1>11 DEF RemoveOld, UpdaterTypeOK
<1>12. ASSUME NEW h \in Handlers, MoveAside(h) PROVE UpdaterTypeOK'
  BY <1>3, <1>12 DEF MoveAside, UpdaterTypeOK
<1>13. ASSUME NEW h \in Handlers, Place(h) PROVE UpdaterTypeOK'
  <2>1. tmp[h] \in Files
    BY <1>13 DEF Place, BinaryInv, UpdaterTypeOK
  <2> QED
    BY <1>2, <1>4, <1>13, <2>1 DEF Place, UpdaterTypeOK
<1>14. ASSUME NEW h \in Handlers, PlaceFails(h) PROVE UpdaterTypeOK'
  <2>1. exe' \in Files \cup {NoFile} /\ old' \in Files \cup {NoFile} /\ best' \in Nat
    BY <1>2, <1>14 DEF PlaceFails, UpdaterTypeOK
  <2> QED
    BY <1>4, <1>14, <2>1 DEF PlaceFails, UpdaterTypeOK
<1>15. ASSUME NEW h \in Handlers, Fails(h) PROVE UpdaterTypeOK'
  BY <1>4, <1>15 DEF Fails, UpdaterTypeOK
<1>16. CASE UNCHANGED updaterVars
  BY <1>16 DEF updaterVars, UpdaterTypeOK
<1> QED
  BY <1>5, <1>6, <1>7, <1>8, <1>9, <1>10, <1>11, <1>12, <1>13, <1>14, <1>15, <1>16
     DEF UpdaterNext

\* At the start exe is there and nothing runs.
LEMMA BinaryInit == UpdaterInit => BinaryInv
<1> SUFFICES ASSUME UpdaterInit PROVE BinaryInv
  OBVIOUS
<1>1. exe \in Files
  BY DEF UpdaterInit, Files
<1> QED
  BY <1>1, FileFacts DEF UpdaterInit, BinaryInv

\* A process that runs keeps its file from being removed or replaced.
LEMMA RunningKeepsFile ==
  ASSUME UpdaterTypeOK, BinaryInv, windows, NEW p \in Procs, image[p] # NoFile
  PROVE  /\ ~Locked(old) => exe # NoFile /\ image[p] = exe
         /\ ~Locked(exe) => old # NoFile /\ image[p] = old
BY DEF BinaryInv, Locked

\* Neither a handler nor a process that starts or ends takes away the last
\* binary, or a file that another process runs.
LEMMA BinaryStep == UpdaterTypeOK /\ BinaryInv /\ [UpdaterNext]_updaterVars => BinaryInv'
<1> SUFFICES ASSUME UpdaterTypeOK, BinaryInv, [UpdaterNext]_updaterVars
             PROVE  BinaryInv'
  OBVIOUS
<1> USE DEF setting
<1>1. \A h \in Handlers : h[1] \in Procs
  BY UpdaterAssumption
<1>2. ASSUME NEW h \in Handlers, applying[h] # "idle", windows
      PROVE  /\ ~Locked(old) => exe # NoFile /\ \A p \in Procs : image[p] \in {exe, NoFile}
             /\ ~Locked(exe) => old # NoFile /\ \A p \in Procs : image[p] \in {old, NoFile}
  <2>1. h[1] \in Procs /\ image[h[1]] # NoFile
    BY <1>1, <1>2 DEF BinaryInv
  <2> QED
    BY <1>2, <2>1, RunningKeepsFile
<1>3. CASE PublishRelease
  BY <1>3 DEF PublishRelease, BinaryInv
<1>4. ASSUME NEW p \in Procs, Launch(p) PROVE BinaryInv'
  <2>1. \A q \in Procs : image'[q] = IF q = p THEN exe ELSE image[q]
    BY <1>4 DEF Launch, UpdaterTypeOK
  <2>2. exe # NoFile /\ UNCHANGED <<windows, exe, old, tmp, applying>> /\ fresh' = fresh \cup {p}
    BY <1>4 DEF Launch
  <2>3. \A h \in Handlers : applying[h] # "place" \/ ~windows
    BY <2>2 DEF BinaryInv
  <2> QED
    BY <1>1, <2>1, <2>2, <2>3 DEF BinaryInv, UpdaterTypeOK
<1>5. ASSUME NEW p \in Procs, CleanupOldBinary(p) PROVE BinaryInv'
  <2>1. image[p] # NoFile
    BY <1>5 DEF CleanupOldBinary, BinaryInv
  <2>2. CASE UNCHANGED old
    BY <1>5, <2>2 DEF CleanupOldBinary, BinaryInv
  <2>3. CASE windows /\ ~Locked(old) /\ old' = NoFile
    <3>1. exe # NoFile /\ \A q \in Procs : image[q] \in {exe, NoFile}
      BY <2>1, <2>3, RunningKeepsFile
    <3> QED
      BY <1>5, <2>3, <3>1 DEF CleanupOldBinary, BinaryInv
  <2> QED
    BY <1>5, <2>2, <2>3 DEF CleanupOldBinary
<1>6. ASSUME NEW p \in Procs, Exit(p) PROVE BinaryInv'
  <2>1. \A q \in Procs : image'[q] = IF q = p THEN NoFile ELSE image[q]
    BY <1>6 DEF Exit, UpdaterTypeOK
  <2>2. /\ UNCHANGED <<windows, exe, old>> /\ fresh' = fresh \ {p}
        /\ \A h \in Handlers : h[1] = p => applying'[h] = "idle"
        /\ \A h \in Handlers : h[1] # p => applying'[h] = applying[h] /\ tmp'[h] = tmp[h]
    BY <1>6 DEF Exit
  <2> QED
    BY <1>1, <2>1, <2>2 DEF BinaryInv, UpdaterTypeOK
<1>7. ASSUME NEW h \in Handlers, CheckUpdate(h) PROVE BinaryInv'
  <2>1. File(latest, h) # NoFile
    BY FileFacts, UpdaterAssumption DEF UpdaterTypeOK
  <2>2. /\ image[h[1]] # NoFile /\ UNCHANGED <<windows, exe, old, image, fresh>>
        /\ \A g \in Handlers : applying'[g] = IF g = h THEN "download" ELSE applying[g]
        /\ \A g \in Handlers : tmp'[g] = IF g = h THEN File(latest, h) ELSE tmp[g]
    BY <1>7 DEF CheckUpdate, Proceed, UpdaterTypeOK
  <2> QED
    BY <2>1, <2>2 DEF BinaryInv
<1>8. ASSUME NEW h \in Handlers, Download(h) PROVE BinaryInv'
  <2>1. /\ applying[h] = "download" /\ UNCHANGED <<windows, exe, old, tmp, image, fresh>>
        /\ \A g \in Handlers : applying'[g] = IF g = h THEN (IF windows THEN "remove" ELSE "place")
                                              ELSE applying[g]
    BY <1>8 DEF Download, Proceed, UpdaterTypeOK
  <2> QED
    BY <2>1 DEF BinaryInv
<1>9. ASSUME NEW h \in Handlers, RemoveOld(h) PROVE BinaryInv'
  <2>1. /\ applying[h] = "remove" /\ windows /\ UNCHANGED <<windows, exe, tmp, image, fresh>>
        /\ \A g \in Handlers : applying'[g] = IF g = h THEN "aside" ELSE applying[g]
    BY <1>9 DEF RemoveOld, Proceed, UpdaterTypeOK, BinaryInv
  <2>2. CASE UNCHANGED old
    BY <2>1, <2>2 DEF BinaryInv
  <2>3. CASE ~Locked(old) /\ old' = NoFile
    <3>1. exe # NoFile /\ \A q \in Procs : image[q] \in {exe, NoFile}
      BY <1>2, <2>1, <2>3
    <3> QED
      BY <2>1, <2>3, <3>1 DEF BinaryInv
  <2> QED
    BY <1>9, <2>2, <2>3 DEF RemoveOld
<1>10. ASSUME NEW h \in Handlers, MoveAside(h) PROVE BinaryInv'
  <2>1. /\ applying[h] = "aside" /\ windows /\ exe # NoFile /\ ~Locked(old)
        /\ old' = exe /\ exe' = NoFile /\ UNCHANGED <<windows, tmp, image, fresh>>
        /\ \A g \in Handlers : applying'[g] = IF g = h THEN "place" ELSE applying[g]
    BY <1>10 DEF MoveAside, Proceed, UpdaterTypeOK, BinaryInv
  <2>2. \A q \in Procs : image[q] \in {exe, NoFile}
    BY <1>2, <2>1
  <2> QED
    BY <2>1, <2>2 DEF BinaryInv
<1>11. ASSUME NEW h \in Handlers, Place(h) PROVE BinaryInv'
  <2>1. /\ applying[h] = "place" /\ ~Locked(exe) /\ exe' = tmp[h] /\ tmp[h] # NoFile
        /\ UNCHANGED <<windows, old, image, fresh>>
        /\ \A g \in Handlers : applying'[g] = IF g = h THEN "idle" ELSE applying[g]
        /\ \A g \in Handlers : g # h => tmp'[g] = tmp[g]
    BY <1>11 DEF Place, Install, Return, Proceed, UpdaterTypeOK, BinaryInv
  <2>2. windows => \A q \in Procs : image[q] \in {old, NoFile}
    BY <1>2, <2>1
  <2> QED
    BY <2>1, <2>2 DEF BinaryInv
<1>12. ASSUME NEW h \in Handlers, PlaceFails(h) PROVE BinaryInv'
  <2>1. /\ applying[h] = "place" /\ UNCHANGED <<windows, image, fresh>>
        /\ \A g \in Handlers : applying'[g] = IF g = h THEN "idle" ELSE applying[g]
        /\ \A g \in Handlers : g # h => tmp'[g] = tmp[g]
    BY <1>12 DEF PlaceFails, Return, Proceed, UpdaterTypeOK
  <2>2. CASE windows /\ old # NoFile /\ ~Locked(exe) /\ Install(old) /\ old' = NoFile
    <3>1. \A q \in Procs : image[q] \in {old, NoFile}
      BY <1>2, <2>1, <2>2
    <3> QED
      BY <2>1, <2>2, <3>1 DEF BinaryInv, Install
  <2>3. CASE UNCHANGED <<exe, old, best>>
    BY <2>1, <2>3 DEF BinaryInv
  <2> QED
    BY <1>12, <2>2, <2>3 DEF PlaceFails
<1>13. ASSUME NEW h \in Handlers, Fails(h) PROVE BinaryInv'
  <2>1. /\ UNCHANGED <<windows, exe, old, image, fresh>>
        /\ \A g \in Handlers : applying'[g] = IF g = h THEN "idle" ELSE applying[g]
        /\ \A g \in Handlers : g # h => tmp'[g] = tmp[g]
    BY <1>13 DEF Fails, Return, Proceed, UpdaterTypeOK
  <2> QED
    BY <2>1 DEF BinaryInv
<1>14. CASE UNCHANGED updaterVars
  BY <1>14 DEF updaterVars, BinaryInv
<1> QED
  BY <1>3, <1>4, <1>5, <1>6, <1>7, <1>8, <1>9, <1>10, <1>11, <1>12, <1>13, <1>14
     DEF UpdaterNext

\* Every state satisfies both.
LEMMA BinaryInvariant == UpdaterSpec => [](UpdaterTypeOK /\ BinaryInv)
BY UpdaterTypeInit, UpdaterTypeStep, BinaryInit, BinaryStep, PTL DEF UpdaterSpec

\* What each step does to the files, for the invariants below.
LEMMA FileMoves ==
  ASSUME UpdaterTypeOK, BinaryInv, [UpdaterNext]_updaterVars
  PROVE  /\ exe' \in {exe, old, NoFile} \/ \E h \in Handlers : exe' = tmp[h]
         /\ old' \in {exe, old, NoFile}
         /\ \A h \in Handlers : tmp'[h] \in {tmp[h], NoFile, File(latest, h)}
         /\ \A p \in Procs : image'[p] \in {image[p], NoFile, exe}
         /\ latest' \in {latest, latest + 1}
<1> USE DEF setting
<1>1. CASE PublishRelease
  BY <1>1 DEF PublishRelease
<1>2. ASSUME NEW p \in Procs, Launch(p) \/ CleanupOldBinary(p) \/ Exit(p)
      PROVE  /\ exe' = exe /\ old' \in {old, NoFile} /\ latest' = latest
             /\ \A h \in Handlers : tmp'[h] \in {tmp[h], NoFile}
             /\ \A q \in Procs : image'[q] \in {image[q], NoFile, exe}
  BY <1>2 DEF Launch, CleanupOldBinary, Exit, UpdaterTypeOK
<1>3. ASSUME NEW h \in Handlers, CheckUpdate(h) \/ Download(h) \/ RemoveOld(h) \/ MoveAside(h)
      PROVE  /\ exe' \in {exe, NoFile} /\ old' \in {exe, old, NoFile} /\ latest' = latest
             /\ \A g \in Handlers : tmp'[g] \in {tmp[g], File(latest, g)}
             /\ image' = image
  BY <1>3 DEF CheckUpdate, Download, RemoveOld, MoveAside, UpdaterTypeOK
<1>4. ASSUME NEW h \in Handlers, Place(h) \/ PlaceFails(h) \/ Fails(h)
      PROVE  /\ exe' \in {exe, old, tmp[h]} /\ old' \in {old, NoFile} /\ latest' = latest
             /\ \A g \in Handlers : tmp'[g] \in {tmp[g], NoFile}
             /\ image' = image
  BY <1>4 DEF Place, PlaceFails, Fails, Install, Return, UpdaterTypeOK
<1>5. CASE UNCHANGED updaterVars
  BY <1>5 DEF updaterVars
<1> QED
  BY <1>1, <1>2, <1>3, <1>4, <1>5 DEF UpdaterNext

\* Without oversized releases no file is cut.
LEMMA WholeInvariant == ASSUME Oversize = {} PROVE UpdaterSpec => []WholeInv
<1>1. UpdaterInit => WholeInv
  BY DEF UpdaterInit, WholeInv
<1>2. ASSUME UpdaterTypeOK, BinaryInv, WholeInv, [UpdaterNext]_updaterVars PROVE WholeInv'
  <2>1. latest \in Nat
    BY <1>2, UpdaterAssumption DEF UpdaterTypeOK
  <2>2. \A h \in Handlers : File(latest, h).whole
    BY <2>1, FileFacts
  <2> QED
    BY <1>2, <2>2, FileMoves DEF WholeInv
<1> QED
  BY <1>1, <1>2, BinaryInvariant, PTL DEF UpdaterSpec

\* For any number of panels and update requests that are interrupted anywhere, a
\* whole binary is left at exe or, on Windows only, at exe.old: ApplyUpdate never
\* destroys the client that it replaces.
THEOREM BinarySurvives == ASSUME Oversize = {} PROVE UpdaterSpec => []SomeBinarySurvives
<1>1. BinaryInv /\ WholeInv => SomeBinarySurvives
  BY DEF BinaryInv, WholeInv, SomeBinarySurvives
<1> QED
  BY <1>1, BinaryInvariant, WholeInvariant, PTL

\* No file holds a release that is not published yet.
LEMMA ReleaseInvariant == UpdaterSpec => []ReleaseInv
<1>1. UpdaterInit => ReleaseInv
  BY DEF UpdaterInit, ReleaseInv
<1>2. ASSUME UpdaterTypeOK, BinaryInv, ReleaseInv, [UpdaterNext]_updaterVars PROVE ReleaseInv'
  <2>1. latest \in Nat \ {0}
    BY <1>2, UpdaterAssumption DEF UpdaterTypeOK
  <2>2. \A h \in Handlers : File(latest, h).rel \in 1 .. latest
    BY <2>1, FileFacts
  <2>3. \A r \in 1 .. latest : r \in 1 .. latest'
    BY <1>2, <2>1, FileMoves
  <2>4. exe' # NoFile => exe'.rel \in 1 .. latest
    BY <1>2, FileMoves DEF ReleaseInv
  <2>5. old' # NoFile => old'.rel \in 1 .. latest
    BY <1>2, FileMoves DEF ReleaseInv
  <2>6. \A h \in Handlers : tmp'[h] # NoFile => tmp'[h].rel \in 1 .. latest
    BY <1>2, <2>2, FileMoves DEF ReleaseInv
  <2>7. \A p \in Procs : image'[p] # NoFile => image'[p].rel \in 1 .. latest
    BY <1>2, FileMoves DEF ReleaseInv
  <2> QED
    BY <2>3, <2>4, <2>5, <2>6, <2>7 DEF ReleaseInv
<1> QED
  BY <1>1, <1>2, BinaryInvariant, PTL DEF UpdaterSpec

\* What isNewer says of two published releases is their order.
LEMMA NewerMeansLater ==
  ASSUME \A r \in Histories : Ascending(r), UpdaterTypeOK, ReleaseInv,
         NEW p \in Procs, image[p] # NoFile
  PROVE  Newer(latest, image[p].rel) <=> latest > image[p].rel
<1>1. /\ Ascending(releases) /\ Len(releases) \in Nat
      /\ latest \in 1 .. Len(releases) /\ image[p].rel \in 1 .. latest
  BY UpdaterAssumption DEF UpdaterTypeOK, ReleaseInv
<1>2. image[p].rel \in 1 .. Len(releases)
  BY <1>1
<1> QED
  BY <1>1, <1>2, LaterIsNewer DEF Newer

\* A feed that publishes its versions in order, whatever their numbers, lengths
\* and suffixes, never offers a panel the release that it runs or an earlier one,
\* and always offers a later one.
THEOREM OffersAreLater ==
  ASSUME \A r \in Histories : Ascending(r)
  PROVE  UpdaterSpec => []OffersLaterReleases
<1>1. UpdaterTypeOK /\ ReleaseInv => OffersLaterReleases
  BY NewerMeansLater DEF OffersLaterReleases
<1> QED
  BY <1>1, BinaryInvariant, ReleaseInvariant, PTL

\* A handler installs a later release than its process runs; on Windows that
\* process runs the binary it has moved aside, which is the latest so far.
LEMMA OrderStep ==
  ASSUME \A r \in Histories : Ascending(r),
         UpdaterTypeOK, BinaryInv, ReleaseInv, OrderInv, [UpdaterNext]_updaterVars
  PROVE  OrderInv'
<1> USE DEF setting
<1>1. \A h \in Handlers : h[1] \in Procs
  BY UpdaterAssumption
<1>2. /\ latest \in Nat
      /\ exe # NoFile => exe.rel \in Nat
      /\ old # NoFile => old.rel \in Nat
      /\ \A h \in Handlers : tmp[h] # NoFile => tmp[h].rel \in Nat
      /\ \A p \in Procs : image[p] # NoFile => image[p].rel \in Nat
  BY UpdaterAssumption DEF UpdaterTypeOK, ReleaseInv
<1>3. CASE PublishRelease
  BY <1>3 DEF PublishRelease, OrderInv
<1>4. ASSUME NEW p \in Procs, Launch(p) PROVE OrderInv'
  <2>1. /\ image[p] = NoFile /\ \A q \in Procs : q # p => image'[q] = image[q]
        /\ UNCHANGED <<windows, exe, old, tmp, applying, best>>
    BY <1>4 DEF Launch, UpdaterTypeOK
  <2>2. \A h \in Handlers : applying[h] # "idle" => h[1] # p
    BY <2>1 DEF BinaryInv
  <2> QED
    BY <1>1, <2>1, <2>2 DEF OrderInv
<1>5. ASSUME NEW p \in Procs, CleanupOldBinary(p) PROVE OrderInv'
  <2>1. image[p] # NoFile
    BY <1>5 DEF CleanupOldBinary, BinaryInv
  <2>2. windows /\ ~Locked(old) => exe # NoFile
    BY <2>1, RunningKeepsFile
  <2>3. old' = old \/ (windows /\ ~Locked(old))
    BY <1>5 DEF CleanupOldBinary
  <2> QED
    BY <1>5, <2>2, <2>3 DEF CleanupOldBinary, OrderInv
<1>6. ASSUME NEW p \in Procs, Exit(p) PROVE OrderInv'
  <2>1. /\ \A q \in Procs : q # p => image'[q] = image[q]
        /\ \A h \in Handlers : h[1] = p => applying'[h] = "idle"
        /\ \A h \in Handlers : h[1] # p => applying'[h] = applying[h] /\ tmp'[h] = tmp[h]
        /\ UNCHANGED <<windows, exe, old, best>>
    BY <1>6 DEF Exit, UpdaterTypeOK
  <2> QED
    BY <1>1, <2>1 DEF OrderInv
<1>7. ASSUME NEW h \in Handlers, CheckUpdate(h) PROVE OrderInv'
  <2>1. /\ image[h[1]] # NoFile /\ Newer(latest, image[h[1]].rel)
        /\ UNCHANGED <<windows, exe, old, image, best>>
        /\ \A g \in Handlers : g # h => applying'[g] = applying[g] /\ tmp'[g] = tmp[g]
        /\ tmp'[h] = File(latest, h)
    BY <1>7 DEF CheckUpdate, Proceed, UpdaterTypeOK
  <2>2. latest > image[h[1]].rel
    BY <1>1, <2>1, NewerMeansLater
  <2>3. tmp'[h].rel = latest
    BY <1>2, <2>1, FileFacts
  <2> QED
    BY <2>1, <2>2, <2>3 DEF OrderInv
<1>8. ASSUME NEW h \in Handlers, Download(h) PROVE OrderInv'
  <2>1. /\ applying[h] # "idle" /\ \A g \in Handlers : g # h => applying'[g] = applying[g]
        /\ UNCHANGED <<windows, exe, old, tmp, image, best>>
    BY <1>8 DEF Download, Proceed, UpdaterTypeOK
  <2> QED
    BY <2>1 DEF OrderInv
<1>9. ASSUME NEW h \in Handlers, RemoveOld(h) PROVE OrderInv'
  <2>1. /\ applying[h] # "idle" /\ \A g \in Handlers : g # h => applying'[g] = applying[g]
        /\ UNCHANGED <<windows, exe, tmp, image, best>>
        /\ old' = old \/ ~Locked(old)
    BY <1>9 DEF RemoveOld, Proceed, UpdaterTypeOK
  <2>2. windows /\ ~Locked(old) => exe # NoFile
    BY <1>1, <2>1, RunningKeepsFile DEF BinaryInv
  <2> QED
    BY <2>1, <2>2 DEF OrderInv
<1>10. ASSUME NEW h \in Handlers, MoveAside(h) PROVE OrderInv'
  <2>1. /\ applying[h] # "idle" /\ \A g \in Handlers : g # h => applying'[g] = applying[g]
        /\ UNCHANGED <<windows, tmp, image, best>>
        /\ exe # NoFile /\ old' = exe /\ exe' = NoFile
    BY <1>10 DEF MoveAside, Proceed, UpdaterTypeOK
  <2> QED
    BY <2>1 DEF OrderInv
<1>11. ASSUME NEW h \in Handlers, Place(h) PROVE OrderInv'
  <2>1. /\ applying[h] = "place" /\ applying'[h] = "idle"
        /\ \A g \in Handlers : g # h => applying'[g] = applying[g] /\ tmp'[g] = tmp[g]
        /\ UNCHANGED <<windows, old, image>> /\ ~Locked(exe)
        /\ exe' = tmp[h] /\ best' = IF tmp[h].rel > best THEN tmp[h].rel ELSE best
    BY <1>11 DEF Place, Install, Return, Proceed, UpdaterTypeOK
  <2>2. h[1] \in Procs /\ image[h[1]] # NoFile /\ tmp[h] # NoFile
    BY <1>1, <2>1 DEF BinaryInv
  <2>3. windows => exe = NoFile /\ image[h[1]] = old
    BY <2>1, <2>2, RunningKeepsFile DEF BinaryInv
  <2>4. windows => best' = tmp[h].rel
    BY <1>2, <2>1, <2>2, <2>3 DEF OrderInv
  <2> QED
    BY <2>1, <2>2, <2>4 DEF OrderInv
<1>12. ASSUME NEW h \in Handlers, PlaceFails(h) PROVE OrderInv'
  <2>1. /\ applying[h] = "place" /\ applying'[h] = "idle"
        /\ \A g \in Handlers : g # h => applying'[g] = applying[g] /\ tmp'[g] = tmp[g]
        /\ UNCHANGED <<windows, image>>
    BY <1>12 DEF PlaceFails, Return, Proceed, UpdaterTypeOK
  <2>2. CASE windows /\ old # NoFile /\ Install(old)
    <3>1. exe = NoFile
      BY <2>1, <2>2 DEF BinaryInv
    <3>2. exe' = old /\ best' = old.rel
      BY <1>2, <2>2, <3>1 DEF Install, OrderInv
    <3> QED
      BY <2>1, <2>2, <3>2 DEF OrderInv
  <2>3. CASE UNCHANGED <<exe, old, best>>
    BY <2>1, <2>3 DEF OrderInv
  <2> QED
    BY <1>12, <2>2, <2>3 DEF PlaceFails
<1>13. ASSUME NEW h \in Handlers, Fails(h) PROVE OrderInv'
  <2>1. /\ applying'[h] = "idle"
        /\ \A g \in Handlers : g # h => applying'[g] = applying[g] /\ tmp'[g] = tmp[g]
        /\ UNCHANGED <<windows, exe, old, image, best>>
    BY <1>13 DEF Fails, Return, Proceed, UpdaterTypeOK
  <2> QED
    BY <2>1 DEF OrderInv
<1>14. CASE UNCHANGED updaterVars
  BY <1>14 DEF updaterVars, OrderInv
<1> QED
  BY <1>3, <1>4, <1>5, <1>6, <1>7, <1>8, <1>9, <1>10, <1>11, <1>12, <1>13, <1>14
     DEF UpdaterNext

\* On Windows no interleaving of update requests puts an older release in place
\* of a newer one: a handler that comes late finds exe locked or gone.
THEOREM NoDowngradeOnWindows ==
  ASSUME \A r \in Histories : Ascending(r)
  PROVE  UpdaterSpec => []WindowsNeverDowngraded
<1>1. UpdaterInit => OrderInv
  BY FileFacts, BinaryInit DEF UpdaterInit, OrderInv, BinaryInv
<1>2. UpdaterTypeOK /\ BinaryInv /\ ReleaseInv /\ OrderInv /\ [UpdaterNext]_updaterVars
        => OrderInv'
  BY OrderStep
<1>3. UpdaterTypeOK /\ OrderInv => WindowsNeverDowngraded
  BY DEF UpdaterTypeOK, OrderInv, WindowsNeverDowngraded, NeverDowngraded
<1> QED
  BY <1>1, <1>2, <1>3, BinaryInvariant, ReleaseInvariant, PTL DEF UpdaterSpec

-----------------------------------------------------------------------------
(* How far an update can be trusted *)

\* A process runs a whole file; on Windows exe is whole, or exe.old is and every
\* process runs it.
SpareInv ==
  /\ \A p \in Procs : image[p] # NoFile => image[p].whole
  /\ windows =>
       \/ exe # NoFile /\ exe.whole
       \/ old # NoFile /\ old.whole /\ \A p \in Procs : image[p] \in {old, NoFile}

\* Every step keeps that, even one that installs a file that was cut.
LEMMA SpareStep ==
  ASSUME UpdaterTypeOK, BinaryInv, SpareInv, [UpdaterNext]_updaterVars
  PROVE  SpareInv'
<1> USE DEF setting
<1>1. \A h \in Handlers : h[1] \in Procs
  BY UpdaterAssumption
<1>2. ASSUME windows, NEW p \in Procs, image[p] # NoFile, ~Locked(old)
      PROVE  /\ exe # NoFile /\ exe.whole
             /\ \A q \in Procs : image[q] \in {exe, NoFile}
  BY <1>2 DEF BinaryInv, SpareInv, Locked
<1>3. CASE PublishRelease
  BY <1>3 DEF PublishRelease, SpareInv
<1>4. ASSUME NEW p \in Procs, Launch(p) PROVE SpareInv'
  <2>1. /\ exe # NoFile /\ exe.whole /\ UNCHANGED <<windows, exe, old>>
        /\ image'[p] = exe /\ \A q \in Procs : q # p => image'[q] = image[q]
    BY <1>4 DEF Launch, UpdaterTypeOK
  <2> QED
    BY <2>1 DEF SpareInv
<1>5. ASSUME NEW p \in Procs, CleanupOldBinary(p) PROVE SpareInv'
  <2>1. /\ UNCHANGED <<windows, exe, image>> /\ image[p] # NoFile
        /\ old' = old \/ (windows /\ ~Locked(old))
    BY <1>5 DEF CleanupOldBinary, BinaryInv
  <2> QED
    BY <1>2, <2>1 DEF SpareInv
<1>6. ASSUME NEW p \in Procs, Exit(p) PROVE SpareInv'
  <2>1. /\ UNCHANGED <<windows, exe, old>>
        /\ \A q \in Procs : image'[q] \in {image[q], NoFile}
    BY <1>6 DEF Exit, UpdaterTypeOK
  <2> QED
    BY <2>1 DEF SpareInv
<1>7. ASSUME NEW h \in Handlers, CheckUpdate(h) \/ Download(h) \/ Fails(h) PROVE SpareInv'
  <2>1. UNCHANGED <<windows, exe, old, image>>
    BY <1>7, ZenonT(60) DEF CheckUpdate, Download, Fails
  <2> QED
    BY <2>1 DEF SpareInv
<1>8. ASSUME NEW h \in Handlers, RemoveOld(h) PROVE SpareInv'
  <2>1. /\ UNCHANGED <<windows, exe, image>> /\ image[h[1]] # NoFile
        /\ old' = old \/ ~Locked(old)
    BY <1>8 DEF RemoveOld, BinaryInv
  <2> QED
    BY <1>1, <1>2, <2>1 DEF SpareInv
<1>9. ASSUME NEW h \in Handlers, MoveAside(h) PROVE SpareInv'
  <2>1. /\ UNCHANGED <<windows, image>> /\ image[h[1]] # NoFile
        /\ old' = exe /\ ~Locked(old)
    BY <1>9 DEF MoveAside, BinaryInv
  <2> QED
    BY <1>1, <1>2, <2>1 DEF SpareInv
<1>10. ASSUME NEW h \in Handlers, Place(h) PROVE SpareInv'
  <2>1. UNCHANGED <<windows, old, image>> /\ (windows => exe = NoFile)
    BY <1>10 DEF Place, BinaryInv
  <2> QED
    BY <2>1 DEF SpareInv
<1>11. ASSUME NEW h \in Handlers, PlaceFails(h) PROVE SpareInv'
  <2>1. /\ UNCHANGED <<windows, image>>
        /\ \/ windows /\ exe = NoFile /\ exe' = old
           \/ UNCHANGED <<exe, old>>
    BY <1>11 DEF PlaceFails, Install, BinaryInv
  <2> QED
    BY <2>1 DEF SpareInv
<1>12. CASE UNCHANGED updaterVars
  BY <1>12 DEF updaterVars, SpareInv
<1> QED
  BY <1>3, <1>4, <1>5, <1>6, <1>7, <1>8, <1>9, <1>10, <1>11, <1>12 DEF UpdaterNext

\* On Windows this needs nothing of the downloads: also when every asset exceeds the
\* cap and is cut without an error, a whole binary is left at exe or exe.old.
THEOREM WindowsKeepsSpare == UpdaterSpec => [](windows => SomeBinarySurvives)
<1>1. UpdaterInit => SpareInv
  <2>1. UpdaterInit => old = NoFile /\ exe.whole /\ \A p \in Procs : image[p] = NoFile
    BY DEF UpdaterInit
  <2>2. UpdaterInit => exe # NoFile \/ old # NoFile
    BY BinaryInit DEF BinaryInv, UpdaterInit
  <2> QED
    BY <2>1, <2>2, ZenonT(60) DEF SpareInv
<1>2. UpdaterTypeOK /\ BinaryInv /\ SpareInv /\ [UpdaterNext]_updaterVars => SpareInv'
  BY SpareStep
<1>3. SpareInv => (windows => SomeBinarySurvives)
  BY DEF SpareInv, SomeBinarySurvives
<1> QED
  BY <1>1, <1>2, <1>3, BinaryInvariant, PTL DEF UpdaterSpec

\* What InstalledIsWhole needs: no asset exceeds the 200 MiB cap.
THEOREM InstalledWholeUnderCap == ASSUME Oversize = {} PROVE UpdaterSpec => []InstalledIsWhole
<1>1. WholeInv => InstalledIsWhole
  BY DEF WholeInv, InstalledIsWhole
<1> QED
  BY <1>1, WholeInvariant, PTL

\* Of all handlers of all panels at most one is at work.
OneAtWork ==
  \A g, h \in Handlers : applying[g] # "idle" /\ applying[h] # "idle" => g = h

\* Off Windows exe then holds the newest release that it has held, and the handler
\* at work has one that is no older.
AloneInv ==
  /\ best \in 1 .. latest
  /\ ~windows =>
       /\ exe.rel = best
       /\ \A h \in Handlers : applying[h] # "idle" => tmp[h].rel >= best

\* Every step keeps that.
LEMMA AloneStep ==
  ASSUME UpdaterTypeOK, BinaryInv, ReleaseInv, OneAtWork, AloneInv, [UpdaterNext]_updaterVars
  PROVE  AloneInv'
<1> USE DEF setting
<1>1. /\ latest \in Nat
      /\ exe # NoFile => exe.rel \in 1 .. latest
      /\ old # NoFile => old.rel \in 1 .. latest
      /\ \A h \in Handlers : tmp[h] # NoFile => tmp[h].rel \in 1 .. latest
  BY UpdaterAssumption DEF UpdaterTypeOK, ReleaseInv
<1>2. CASE PublishRelease
  BY <1>1, <1>2 DEF PublishRelease, AloneInv
<1>3. ASSUME NEW p \in Procs, Launch(p) \/ CleanupOldBinary(p) PROVE AloneInv'
  BY <1>3 DEF Launch, CleanupOldBinary, AloneInv
<1>4. ASSUME NEW p \in Procs, Exit(p) PROVE AloneInv'
  <2>1. /\ UNCHANGED <<windows, latest, exe, best>>
        /\ \A h \in Handlers : applying'[h] # "idle" => applying[h] # "idle" /\ tmp'[h] = tmp[h]
    BY <1>4 DEF Exit, UpdaterTypeOK
  <2> QED
    BY <2>1 DEF AloneInv
<1>5. ASSUME NEW h \in Handlers, CheckUpdate(h) PROVE AloneInv'
  <2>1. /\ UNCHANGED <<windows, latest, exe, best>> /\ tmp'[h].rel = latest
        /\ \A g \in Handlers : g # h => applying'[g] = applying[g] /\ tmp'[g] = tmp[g]
    BY <1>1, <1>5, FileFacts DEF CheckUpdate, Proceed, UpdaterTypeOK
  <2>2. latest >= best
    BY <1>1 DEF AloneInv
  <2> QED
    BY <2>1, <2>2, ZenonT(60) DEF AloneInv
<1>6. ASSUME NEW h \in Handlers, Download(h) PROVE AloneInv'
  <2>1. /\ UNCHANGED <<windows, latest, exe, tmp, best>> /\ applying[h] # "idle"
        /\ \A g \in Handlers : g # h => applying'[g] = applying[g]
    BY <1>6 DEF Download, Proceed, UpdaterTypeOK
  <2> QED
    BY <2>1 DEF AloneInv
<1>7. ASSUME NEW h \in Handlers, RemoveOld(h) \/ MoveAside(h) PROVE AloneInv'
  <2>1. windows /\ UNCHANGED <<windows, latest, best>>
    BY <1>7 DEF RemoveOld, MoveAside, BinaryInv
  <2> QED
    BY <2>1 DEF AloneInv
<1>8. ASSUME NEW h \in Handlers, Place(h) PROVE AloneInv'
  <2>1. /\ UNCHANGED <<windows, latest>> /\ applying[h] # "idle" /\ applying'[h] = "idle"
        /\ exe' = tmp[h] /\ best' = (IF tmp[h].rel > best THEN tmp[h].rel ELSE best)
        /\ \A g \in Handlers : g # h => applying'[g] = applying[g]
    BY <1>8 DEF Place, Install, Return, Proceed, UpdaterTypeOK
  <2>2. tmp[h] # NoFile
    BY <2>1 DEF BinaryInv
  <2>3. \A g \in Handlers : applying'[g] = "idle"
    BY <2>1 DEF OneAtWork
  <2>4. best' \in 1 .. latest
    BY <1>1, <2>1, <2>2 DEF AloneInv
  <2>5. ~windows => exe'.rel = best'
    <3> SUFFICES ASSUME ~windows PROVE tmp[h].rel = best'
      BY <2>1
    <3>1. tmp[h].rel >= best
      BY <2>1, ZenonT(60) DEF AloneInv
    <3>2. tmp[h].rel \in Nat /\ best \in Nat
      BY <1>1, <2>2 DEF AloneInv
    <3> QED
      BY ONLY <2>1, <3>1, <3>2
  <2> QED
    BY <2>1, <2>3, <2>4, <2>5, ZenonT(60) DEF AloneInv
<1>9. ASSUME NEW h \in Handlers, PlaceFails(h) PROVE AloneInv'
  <2>1. /\ UNCHANGED <<windows, latest>> /\ applying'[h] = "idle"
        /\ \A g \in Handlers : g # h => applying'[g] = applying[g] /\ tmp'[g] = tmp[g]
        /\ \/ windows /\ old # NoFile /\ best' = (IF old.rel > best THEN old.rel ELSE best)
           \/ UNCHANGED <<exe, best>>
    BY <1>9 DEF PlaceFails, Install, Return, Proceed, UpdaterTypeOK
  <2> QED
    BY <1>1, <2>1 DEF AloneInv
<1>10. ASSUME NEW h \in Handlers, Fails(h) PROVE AloneInv'
  <2>1. /\ UNCHANGED <<windows, latest, exe, best>> /\ applying'[h] = "idle"
        /\ \A g \in Handlers : g # h => applying'[g] = applying[g] /\ tmp'[g] = tmp[g]
    BY <1>10 DEF Fails, Return, Proceed, UpdaterTypeOK
  <2> QED
    BY <2>1 DEF AloneInv
<1>11. CASE UNCHANGED updaterVars
  BY <1>11 DEF updaterVars, AloneInv
<1> QED
  BY <1>2, <1>3, <1>4, <1>5, <1>6, <1>7, <1>8, <1>9, <1>10, <1>11 DEF UpdaterNext

\* What NeverDowngraded needs off Windows: that no two updates overlap.  Then, of any
\* number of panels that run any of the releases, none puts an older one in place.
THEOREM NoDowngradeOneByOne ==
  ASSUME \A r \in Histories : Ascending(r)
  PROVE  UpdaterSpec /\ []OneAtWork => []NeverDowngraded
<1>1. UpdaterInit => AloneInv
  BY FileFacts DEF UpdaterInit, AloneInv
<1>2. UpdaterTypeOK /\ BinaryInv /\ ReleaseInv /\ OneAtWork /\ AloneInv
        /\ [UpdaterNext]_updaterVars => AloneInv'
  BY AloneStep
<1>3. AloneInv /\ WindowsNeverDowngraded => NeverDowngraded
  BY DEF AloneInv, WindowsNeverDowngraded, NeverDowngraded
<1> QED
  BY <1>1, <1>2, <1>3, BinaryInvariant, ReleaseInvariant, NoDowngradeOnWindows, PTL
     DEF UpdaterSpec
=============================================================================
