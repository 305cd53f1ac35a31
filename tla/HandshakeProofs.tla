--------------------------- MODULE HandshakeProofs ---------------------------
(***************************************************************************)
(* Machine-checked proofs about the two things a handshake depends on: the *)
(* replay guard, for every window, slack and set of hellos, as long as a   *)
(* handshake makes its two tests within the slack, and the certificate     *)
(* that is reloaded, for any number of handshakes and renewals.            *)
(***************************************************************************)
EXTENDS ReplayGuard, CertReload, TLAPS

(* The replay guard *)

\* What the timestamp of a hello is, for the arithmetic below.
LEMMA HelloTimes ==
  \A h \in Hellos : h.ts \in Int
BY GuardAssumption, ZenonT(60) DEF Hellos

\* The server starts with an empty table: the invariant holds.
LEMMA GuardInit ==
  Init => GuardInv
BY GuardAssumption
   DEF Init, GuardInv, TypeOK, InProgress, RememberedLongEnough, AcceptedOnce,
       RefusedOnlyReplays, RestartForgetsOnlyRecent, Absent

\* An observe step either finds the hello in the table or accepts it for the
\* first time: were it accepted before and forgotten, more than the longest
\* stall would have passed since its timestamp test.
LEMMA AcceptsOnlyOnce ==
  ASSUME PromptHandlers, GuardInv,
         NEW a \in Attempts, pc[a] = "sampled",
         Swept(sampled[a])[hello[a]] = Absent
  PROVE  accepts[hello[a]] = 0
<1> DEFINE h == hello[a]
<1>1. h \in Hellos /\ h.ts \in Int
  BY HelloTimes DEF GuardInv, InProgress
<1>2. /\ now \in Int /\ tested[a] \in Nat /\ sampled[a] \in Nat
      /\ seen[h] \in Int /\ accepts[h] \in Nat
  BY <1>1 DEF GuardInv, TypeOK
<1>3. /\ tested[a] - h.ts <= AuthWindow
      /\ now - tested[a] <= MaxStall
      /\ sampled[a] <= now
  BY <1>1, <1>2, GuardAssumption DEF GuardInv, InProgress
<1>4. now < h.ts + AuthWindow + Slack
  BY <1>1, <1>2, <1>3, GuardAssumption DEF PromptHandlers
<1>5. seen[h] <= sampled[a] \/ seen[h] = Absent
  BY <1>1 DEF Swept
<1>6. ASSUME accepts[h] > 0 PROVE FALSE
  <2>1. seen[h] # Absent /\ seen[h] >= h.ts + AuthWindow + Slack
    BY <1>1, <1>2, <1>4, <1>6, GuardAssumption
       DEF GuardInv, RememberedLongEnough
  <2> QED
    BY <2>1, <1>1, <1>2, <1>3, <1>4, <1>5, GuardAssumption
<1> QED
  BY <1>2, <1>6

\* What observe's sweep returns.
LEMMA SweptType ==
  ASSUME TypeOK, NEW t \in Int
  PROVE  /\ Swept(t) \in [Hellos -> Int]
         /\ \A h \in Hellos : \/ Swept(t)[h] = seen[h] /\ seen[h] > t
                              \/ Swept(t)[h] = Absent /\ seen[h] <= t
BY DEF Swept, TypeOK, Absent

\* observe preserves the invariant.
LEMMA ObserveStep ==
  ASSUME PromptHandlers, GuardInv, NEW a \in Attempts, Observe(a)
  PROVE  GuardInv'
<1> DEFINE h == hello[a]
           swept == Swept(sampled[a])
<1> USE GuardAssumption
<1>0. TypeOK /\ InProgress
  BY DEF GuardInv
<1>1. /\ pc[a] = "sampled"
      /\ h \in Hellos /\ h.ts \in Int
      /\ now \in Nat /\ tested[a] \in Nat /\ sampled[a] \in Nat
  BY <1>0, HelloTimes DEF Observe, InProgress, TypeOK
<1>2. /\ tested[a] >= h.ts - AuthWindow
      /\ sampled[a] >= tested[a] /\ sampled[a] <= now
  BY <1>0, <1>1 DEF InProgress
<1>3. /\ swept \in [Hellos -> Int]
      /\ \A k \in Hellos : \/ swept[k] = seen[k] /\ seen[k] > sampled[a]
                           \/ swept[k] = Absent /\ seen[k] <= sampled[a]
  BY <1>0, <1>1, SweptType
<1>4. sampled[a] + TTL >= h.ts + AuthWindow + Slack
  BY <1>1, <1>2 DEF TTL
<1>4a. TTL \in Nat /\ TTL > 0
  BY DEF TTL
<1>5. TypeOK'
  BY <1>0, <1>1, <1>3, <1>4a DEF Observe, TypeOK
<1>6. InProgress'
  BY <1>0, <1>1 DEF Observe, InProgress, TypeOK
<1>7. RememberedLongEnough /\ AcceptedOnce /\ RefusedOnlyReplays
  BY DEF GuardInv
<1>6a. RestartForgetsOnlyRecent'
  <2>1. started \in Nat /\ started' = started /\ accepts \in [Hellos -> Nat]
    BY <1>0 DEF Observe, TypeOK
  <2>2. started <= h.ts + AuthWindow
    BY <2>1, <1>0, <1>1 DEF InProgress
  <2>3. \A k \in Hellos : accepts'[k] = accepts[k] \/ k = h
    BY <2>1, <1>1 DEF Observe
  <2> QED
    BY <2>1, <2>2, <2>3 DEF GuardInv, RestartForgetsOnlyRecent
<1>7a. /\ seen \in [Hellos -> Int]
       /\ accepts \in [Hellos -> Nat]
       /\ \A k \in Hellos : k.ts \in Int
  BY <1>0, HelloTimes DEF TypeOK
<1>7b. ASSUME NEW k \in Hellos, accepts[k] > 0
       PROVE  \/ swept[k] # Absent /\ swept[k] >= k.ts + AuthWindow + Slack
              \/ swept[k] = Absent /\ now >= k.ts + AuthWindow + Slack
  BY <1>7b, <1>1, <1>2, <1>3, <1>7, <1>7a DEF RememberedLongEnough, Absent
<1>8. CASE swept[h] # Absent
  <2>1. /\ seen' = swept /\ accepts' = accepts /\ now' = now
        /\ replays' = replays \cup {h}
    BY <1>8 DEF Observe
  <2>2. RememberedLongEnough'
    BY <2>1, <1>7b DEF RememberedLongEnough
  <2>3. AcceptedOnce'
    BY <2>1, <1>7 DEF AcceptedOnce
  <2>4. RefusedOnlyReplays'
    BY <2>1, <1>1, <1>3, <1>7, <1>8 DEF RefusedOnlyReplays
  <2> QED
    BY <1>5, <1>6, <1>6a, <2>2, <2>3, <2>4 DEF GuardInv
<1>9. CASE swept[h] = Absent
  <2>1. /\ seen' = [swept EXCEPT ![h] = sampled[a] + TTL]
        /\ accepts' = [accepts EXCEPT ![h] = @ + 1]
        /\ now' = now /\ replays' = replays
    BY <1>9 DEF Observe
  <2>2. accepts[h] = 0
    BY <1>1, <1>9, AcceptsOnlyOnce
  <2>3. /\ seen'[h] = sampled[a] + TTL /\ accepts'[h] = 1
        /\ \A k \in Hellos : k # h => seen'[k] = swept[k] /\ accepts'[k] = accepts[k]
    BY <2>1, <2>2, <1>1, <1>3, <1>7a
  <2>4. sampled[a] + TTL # Absent
    <3>1. sampled[a] + TTL > 0
      BY <1>1, <1>2, <1>4a, <1>0 DEF TypeOK, InProgress
    <3> QED
      BY <3>1, <1>1, <1>4a DEF Absent
  <2>5. RememberedLongEnough'
    BY <2>1, <2>3, <2>4, <1>4, <1>7b DEF RememberedLongEnough
  <2>6. AcceptedOnce'
    BY <2>3, <1>7, <1>7a DEF AcceptedOnce
  <2>7. RefusedOnlyReplays'
    BY <2>1, <2>3, <1>1, <1>3, <1>7, <1>7a DEF RefusedOnlyReplays
  <2> QED
    BY <1>5, <1>6, <1>6a, <2>5, <2>6, <2>7 DEF GuardInv
<1> QED
  BY <1>8, <1>9

\* Every step preserves the invariant.
LEMMA GuardStep ==
  ASSUME PromptHandlers, GuardInv, [Next]_vars
  PROVE  GuardInv'
<1> USE GuardAssumption
<1>1. CASE Tick
  <2>1. TypeOK' /\ RememberedLongEnough'
    BY <1>1, HelloTimes DEF Tick, GuardInv, TypeOK, RememberedLongEnough
  <2>2. InProgress'
    BY <1>1, HelloTimes DEF Tick, GuardInv, TypeOK, InProgress
  <2>3. AcceptedOnce' /\ RefusedOnlyReplays' /\ RestartForgetsOnlyRecent'
    BY <1>1 DEF Tick, GuardInv, AcceptedOnce, RefusedOnlyReplays,
                RestartForgetsOnlyRecent
  <2> QED
    BY <2>1, <2>2, <2>3 DEF GuardInv
<1>2. ASSUME NEW a \in Attempts, NEW h \in Hellos, TimestampTest(a, h)
      PROVE  GuardInv'
  <2>1. TypeOK'
    BY <1>2 DEF TimestampTest, GuardInv, TypeOK
  <2>2. started <= now
    BY <1>2 DEF GuardInv, TypeOK
  <2>3. InProgress'
    BY <1>2, <2>2, HelloTimes DEF TimestampTest, GuardInv, TypeOK, InProgress
  <2> QED
    BY <1>2, <2>1, <2>3
       DEF TimestampTest, GuardInv, RememberedLongEnough, AcceptedOnce,
           RefusedOnlyReplays, RestartForgetsOnlyRecent
<1>3. ASSUME NEW a \in Attempts, Sample(a)
      PROVE  GuardInv'
  BY <1>3, HelloTimes
     DEF Sample, GuardInv, TypeOK, InProgress, RememberedLongEnough,
         AcceptedOnce, RefusedOnlyReplays, RestartForgetsOnlyRecent
<1>4. CASE UNCHANGED vars
  BY <1>4
     DEF vars, GuardInv, TypeOK, InProgress, RememberedLongEnough, AcceptedOnce,
         RefusedOnlyReplays, RestartForgetsOnlyRecent
<1>5. CASE Restart
  BY <1>5
     DEF Restart, GuardInv, TypeOK, InProgress, RememberedLongEnough,
         AcceptedOnce, RefusedOnlyReplays, RestartForgetsOnlyRecent, Absent
<1> QED
  BY <1>1, <1>2, <1>3, <1>4, <1>5, ObserveStep DEF Next

\* In every run of the server, for every window and slack and however many spellings
\* a salt has, observe accepts a timestamp with the same salt text at most once if
\* handshakes are prompt.
THEOREM HelloAcceptedOnce ==
  ASSUME PromptHandlers
  PROVE  Spec => []AcceptedOnce
<1>1. GuardInv => AcceptedOnce
  BY DEF GuardInv
<1> QED
  BY <1>1, GuardInit, GuardStep, PTL DEF Spec

\* A replayed hello opens no second session, if moreover nobody spells a salt in more
\* than one way; the clients do not, since EncodeToString has one text for a salt.
THEOREM OneSessionIfSpelledAlike ==
  ASSUME PromptHandlers,
         \A x, y \in Spellings : x = y
  PROVE  Spec => []OneSessionPerHello
<1>1. ASSUME GuardInv PROVE OneSessionPerHello
  <2>1. ASSUME NEW g \in Hellos, NEW h \in Hellos, g.salt = h.salt, g.ts = h.ts
        PROVE  g = h
    BY <2>1 DEF Hellos
  <2> QED
    BY <1>1, <2>1 DEF GuardInv, OneSessionPerHello
<1> QED
  BY <1>1, GuardInit, GuardStep, PTL DEF Spec

\* In every run of the server observe refuses only hellos that it accepted
\* before: a fresh salt always gets through the table.
THEOREM FreshHelloNeverRefused ==
  ASSUME PromptHandlers
  PROVE  Spec => []RefusedOnlyReplays
<1>1. GuardInv => RefusedOnlyReplays
  BY DEF GuardInv
<1> QED
  BY <1>1, GuardInit, GuardStep, PTL DEF Spec

\* In every run of the server, restarts included, a process accepts only hellos
\* that had not left the window when it started.
THEOREM RestartsForgetOnlyRecent ==
  ASSUME PromptHandlers
  PROVE  Spec => []RestartForgetsOnlyRecent
<1>1. GuardInv => RestartForgetsOnlyRecent
  BY DEF GuardInv
<1> QED
  BY <1>1, GuardInit, GuardStep, PTL DEF Spec

\* The invariant as a whole, which the run checks as well, holds in every run of
\* the server.
THEOREM GuardInvariant ==
  ASSUME PromptHandlers
  PROVE  Spec => []GuardInv
BY GuardInit, GuardStep, PTL DEF Spec
-----------------------------------------------------------------------------
(* The certificate: the inductive invariant CertInv, and with it that a    *)
(* stale certificate is noticed.                                           *)

\* The initial state satisfies the invariant.
LEMMA InitCertInv == CertInit => CertInv
  BY CertReloadAssumption DEF CertInit, CertInv, CertTypeOK, PCs

\* A renewal changes the certificate only together with the file's time.
LEMMA RenewalKeepsCertInv ==
  CertInv /\ (Renew \/ \E f \in {"cert", "key"} : PartWritten(f) \/ Written(f)) => CertInv'
<1> SUFFICES ASSUME CertInv,
                    Renew \/ \E f \in {"cert", "key"} : PartWritten(f) \/ Written(f)
             PROVE  CertInv'
  OBVIOUS
<1>1. CASE Renew
  BY <1>1 DEF CertInv, CertTypeOK, Renew, provider, locals
<1>2. ASSUME NEW f \in {"cert", "key"}, PartWritten(f)
      PROVE  CertInv'
  BY <1>2 DEF CertInv, CertTypeOK, PartWritten, provider, locals
<1>3. ASSUME NEW f \in {"cert", "key"}, Written(f)
      PROVE  CertInv'
  BY <1>3 DEF CertInv, CertTypeOK, Written, provider, locals
<1> QED
  BY <1>1, <1>2, <1>3

\* A step of reload keeps the invariant: the time is taken before the contents,
\* and stored together with them.
LEMMA ReloadKeepsCertInv ==
  ASSUME NEW h \in Handshakes, CertInv, Reload(h) \/ ReadFails(h)
  PROVE  CertInv'
<1> USE DEF CertInv, CertTypeOK, PCs, Goto, files
<1>1. CASE Begin(h)      BY <1>1 DEF Begin, provider, locals
<1>2. CASE Stat(h)       BY <1>2 DEF Stat, provider
<1>3. CASE Check(h)      BY <1>3 DEF Check, provider, locals
<1>4. CASE ReadCert(h)   BY <1>4 DEF ReadCert, provider
<1>5. CASE ReadKey(h)    BY <1>5 DEF ReadKey, provider
<1>6. CASE Store(h)      BY <1>6 DEF Store, locals
<1>7. CASE BuildFails(h) BY <1>7 DEF BuildFails, provider, locals
<1>8. CASE Serve(h)      BY <1>8 DEF Serve, provider
<1>9. CASE ReadFails(h)  BY <1>9 DEF ReadFails, provider, locals
<1> QED
  BY <1>1, <1>2, <1>3, <1>4, <1>5, <1>6, <1>7, <1>8, <1>9 DEF Reload

\* Every step, of a renewal or of a handshake, keeps the invariant.
LEMMA NextKeepsCertInv == CertInv /\ [CertNext]_certVars => CertInv'
<1>1. CertInv /\ UNCHANGED certVars => CertInv'
  BY DEF CertInv, CertTypeOK, certVars, files, provider, locals
<1> QED
  BY <1>1, RenewalKeepsCertInv, ReloadKeepsCertInv DEF CertNext

\* The invariant holds in every state of every execution of the handshakes,
\* renewals and failures that traefik.go can meet.
THEOREM CertInvariant == CertSpec => []CertInv
  BY InitCertInv, NextKeepsCertInv, PTL DEF CertSpec

\* reload skips the files only when it would find the certificate it has: for
\* any number of handshakes, a certificate that is stale has another time.
THEOREM StalenessNoticed == CertSpec => []StaleIsNoticed
<1>1. CertInv => StaleIsNoticed
  BY DEF CertInv, StaleIsNoticed
<1> QED
  BY <1>1, CertInvariant, PTL
-----------------------------------------------------------------------------
\* What is issued, read and served: nothing is newer than the newest
\* certificate, and a readable file is not older than the last complete one.
Issued ==
  /\ cert <= version /\ key <= version /\ current <= version
  /\ \A h \in Handshakes : certPEM[h] <= version
  /\ cert = 0 \/ cert >= Complete
  /\ \A h \in Handshakes \ {Main} : at[h] # "idle" => current # 0

\* How fresh a handshake is that nothing has disturbed, at each point of reload.
Fresh(h) ==
  /\ began[h] <= Complete
  /\ at[h] = "check" /\ current # 0 /\ mod[h] = modTime => current >= began[h]
  /\ at[h] \in {"readKey", "build"} => certPEM[h] = 0 \/ certPEM[h] >= began[h]
  /\ at[h] = "serve" => current >= began[h]
  /\ at[h] = "idle" => served[h] >= began[h]

FreshInv ==
  /\ CertInv /\ Issued
  /\ began \in [Handshakes -> Nat] /\ served \in [Handshakes -> Nat]
  /\ \A h \in Handshakes \ (failed \cup overtaken) : Fresh(h)
  /\ \A h \in Handshakes : began[h] <= Complete

\* Initially every certificate in sight has been issued, and is the newest.
LEMMA InitFreshInv == CertInit => FreshInv
  BY InitCertInv DEF CertInit, FreshInv, Issued, Fresh, Complete, CertInv, CertTypeOK

\* A renewal only adds certificates: what was at least as new as a handshake's
\* beginning stays so.
LEMMA RenewalKeepsFreshInv ==
  ASSUME FreshInv, Renew \/ \E f \in {"cert", "key"} : PartWritten(f) \/ Written(f)
  PROVE  FreshInv'
<1> USE DEF FreshInv, Issued, Fresh, Complete, CertInv, CertTypeOK, provider, locals, history
<1>1. CertInv'
  BY RenewalKeepsCertInv DEF FreshInv
<1>2. CASE Renew
  BY <1>1, <1>2, SMTT(40) DEF Renew
<1>3. ASSUME NEW f \in {"cert", "key"}, PartWritten(f)
      PROVE  FreshInv'
  BY <1>1, <1>3 DEF PartWritten
<1>4. ASSUME NEW f \in {"cert", "key"}, Written(f)
      PROVE  FreshInv'
  BY <1>1, <1>4 DEF Written
<1> QED
  BY <1>2, <1>3, <1>4

\* A step of reload keeps what is known of the copies that handshakes hold.
LEMMA ReloadKeepsFreshInv ==
  ASSUME NEW h \in Handshakes, FreshInv, Reload(h) \/ ReadFails(h)
  PROVE  FreshInv'
<1> USE DEF FreshInv, Issued, Fresh, Complete, PCs, Goto, files
<1>0. CertInv'
  BY ReloadKeepsCertInv DEF FreshInv
<1>1. CASE Begin(h)      BY <1>0, <1>1 DEF Begin, provider, locals, CertInv, CertTypeOK
<1>2. CASE Stat(h)       BY <1>0, <1>2 DEF Stat, provider, history, CertInv, CertTypeOK
<1>3. CASE Check(h)      BY <1>0, <1>3 DEF Check, provider, locals, history, CertInv, CertTypeOK
<1>4. CASE ReadCert(h)   BY <1>0, <1>4 DEF ReadCert, provider, history, CertInv, CertTypeOK
<1>5. CASE ReadKey(h)    BY <1>0, <1>5 DEF ReadKey, provider, history, CertInv, CertTypeOK
<1>6. CASE Store(h)      BY <1>0, <1>6 DEF Store, locals, CertInv, CertTypeOK
<1>7. CASE BuildFails(h) BY <1>0, <1>7 DEF BuildFails, provider, locals, CertInv, CertTypeOK
<1>8. CASE Serve(h)      BY <1>0, <1>8 DEF Serve, provider, CertInv, CertTypeOK
<1>9. CASE ReadFails(h)  BY <1>0, <1>9 DEF ReadFails, provider, locals, CertInv, CertTypeOK
<1> QED
  BY <1>1, <1>2, <1>3, <1>4, <1>5, <1>6, <1>7, <1>8, <1>9 DEF Reload

\* The strengthened invariant holds in every state of every execution.
LEMMA FreshInvariant == CertSpec => []FreshInv
<1>1. FreshInv /\ UNCHANGED certVars => FreshInv'
  BY DEF FreshInv, Issued, Fresh, Complete, CertInv, CertTypeOK, certVars, files, provider, locals, history
<1>2. FreshInv /\ [CertNext]_certVars => FreshInv'
  BY <1>1, RenewalKeepsFreshInv, ReloadKeepsFreshInv DEF CertNext
<1> QED
  BY <1>2, InitFreshInv, PTL DEF CertSpec

\* Once newTraefik has loaded a certificate no handshake is left without one,
\* and none gets a certificate that was never issued.
THEOREM HandshakesAreServed == CertSpec => []HandshakesServed
<1>1. FreshInv => HandshakesServed
  BY DEF FreshInv, Issued, HandshakesServed
<1> QED
  BY <1>1, FreshInvariant, PTL

\* A handshake whose reload succeeds and that no other one overtakes serves the
\* newest certificate that was complete when it began, or a newer one.
THEOREM FreshnessOfHandshakes == CertSpec => []FreshUnlessOvertaken
<1>1. FreshInv => FreshUnlessOvertaken
  BY DEF FreshInv, Fresh, FreshUnlessOvertaken
<1> QED
  BY <1>1, FreshInvariant, PTL
=============================================================================
