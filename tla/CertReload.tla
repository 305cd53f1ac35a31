------------------------------- MODULE CertReload -------------------------------
(***************************************************************************)
(* The certificate that Traefik renews under the server's feet             *)
(* (src/internal/cert/traefik.go): newTraefik and the GetCertificate hook  *)
(* of every TLS handshake call reload, which looks at the modification     *)
(* time of the certificate file and reads the files again if it changed.   *)
(*                                                                         *)
(* The n-th certificate and its key are both called n, so a certificate    *)
(* and a key match if they are equal; 0 is a file that cannot be parsed.   *)
(* With Pem the certificate and the key are two files; otherwise they are  *)
(* both read from acme.json, here the variable cert.  Each write changes   *)
(* the modification time.                                                  *)
(***************************************************************************)
EXTENDS Naturals

CONSTANTS Handshakes,    \* goroutines that call reload
          Main,          \* the one of them that first runs newTraefik
          Pem,           \* BOOLEAN: a PEM pair is configured
          MaxVersion,    \* bound on the number of certificates
          MaxFaults      \* bound on the number of failing system calls

ASSUME CertReloadAssumption ==
  /\ Main \in Handshakes /\ Pem \in BOOLEAN
  /\ MaxVersion \in Nat /\ MaxFaults \in Nat

VARIABLES
  cert, key,           \* contents of the files
  mtime,               \* modification time of the certificate file
  version,             \* the newest certificate
  todo,                \* files that its renewal has not written yet
  current, modTime,    \* p.current (0 for nil) and p.modTime
  at, mod,             \* per goroutine: where reload is, mod,
  certPEM, keyPEM,     \*   certPEM and keyPEM
  faults,              \* system calls that may still fail
  began,               \* history: newest certificate on disk at the start
  served,              \* history: the certificate returned
  failed,              \* history: goroutines whose reload has failed
  overtaken            \* history: goroutines during which another one stored

files == <<cert, key, mtime, version, todo>>
provider == <<current, modTime>>
locals == <<mod, certPEM, keyPEM>>
history == <<began, served, failed, overtaken>>
certVars == <<files, provider, at, locals, faults, history>>

PCs == {"idle", "stat", "check", "readCert", "readKey", "build", "serve"}
Goto(h, l) == at' = [at EXCEPT ![h] = l]
-----------------------------------------------------------------------------
(* Renewals *)

Renew ==
  /\ todo = {} /\ version < MaxVersion
  /\ version' = version + 1
  /\ todo' = IF Pem THEN {"cert", "key"} ELSE {"cert"}
  /\ UNCHANGED <<cert, key, mtime, provider, at, locals, faults, history>>

\* A file is emptied, or half written.
PartWritten(f) ==
  /\ f \in todo
  /\ cert' = IF f = "cert" THEN 0 ELSE cert
  /\ key' = IF f = "key" THEN 0 ELSE key
  /\ mtime' = IF f = "cert" THEN mtime + 1 ELSE mtime
  /\ (f = "cert" /\ cert # 0) \/ (f = "key" /\ key # 0)
  /\ UNCHANGED <<version, todo, provider, at, locals, faults, history>>

Written(f) ==
  /\ f \in todo
  /\ cert' = IF f = "cert" THEN version ELSE cert
  /\ key' = IF f = "key" THEN version ELSE key
  /\ mtime' = IF f = "cert" THEN mtime + 1 ELSE mtime
  /\ todo' = todo \ {f}
  /\ UNCHANGED <<version, provider, at, locals, faults, history>>

\* The newest certificate that is completely on disk.
Complete == IF todo = {} THEN version ELSE version - 1
-----------------------------------------------------------------------------
(* A handshake, or newTraefik *)

Begin(h) ==
  /\ at[h] = "idle"
  /\ current # 0 \/ h = Main
  /\ Goto(h, "stat")
  /\ began' = [began EXCEPT ![h] = Complete]
  /\ failed' = failed \ {h} /\ overtaken' = overtaken \ {h}
  /\ UNCHANGED <<files, provider, locals, faults, served>>

\* activeSource
Stat(h) ==
  /\ at[h] = "stat"
  /\ mod' = [mod EXCEPT ![h] = mtime]
  /\ Goto(h, "check")
  /\ UNCHANGED <<files, provider, certPEM, keyPEM, faults, history>>

\* Faulty variant of Check: a certificate that is there is good enough.
LazyCheck(h) ==
  /\ at[h] = "check"
  /\ Goto(h, IF current # 0 THEN "serve" ELSE "readCert")
  /\ UNCHANGED <<files, provider, locals, faults, history>>

\* Under the read lock: nothing to do if the file is as it was.
Check(h) ==
  /\ at[h] = "check"
  /\ Goto(h, IF current # 0 /\ mod[h] = modTime THEN "serve" ELSE "readCert")
  /\ UNCHANGED <<files, provider, locals, faults, history>>

ReadCert(h) ==
  /\ at[h] = "readCert"
  /\ certPEM' = [certPEM EXCEPT ![h] = cert]
  /\ keyPEM' = IF Pem THEN keyPEM ELSE [keyPEM EXCEPT ![h] = cert]
  /\ Goto(h, IF Pem THEN "readKey" ELSE "build")
  /\ UNCHANGED <<files, provider, mod, faults, history>>

ReadKey(h) ==
  /\ at[h] = "readKey"
  /\ keyPEM' = [keyPEM EXCEPT ![h] = key]
  /\ Goto(h, "build")
  /\ UNCHANGED <<files, provider, mod, certPEM, faults, history>>

\* X509KeyPair succeeds; the pair is stored under the write lock.
Store(h) ==
  /\ at[h] = "build" /\ certPEM[h] = keyPEM[h] /\ certPEM[h] # 0
  /\ current' = certPEM[h] /\ modTime' = mod[h]
  /\ Goto(h, "serve")
  /\ overtaken' = overtaken \cup {g \in Handshakes \ {h} : at[g] # "idle"}
  /\ UNCHANGED <<files, locals, faults, began, served, failed>>

\* Faulty variant of BuildFails: the file counts as seen.
SilentBuildFails(h) ==
  /\ at[h] = "build" /\ (certPEM[h] # keyPEM[h] \/ certPEM[h] = 0)
  /\ modTime' = mod[h]
  /\ Goto(h, "serve")
  /\ failed' = failed \cup {h}
  /\ UNCHANGED <<files, current, locals, faults, began, served, overtaken>>

\* The files do not match or parse: an error, and the last good pair is served.
BuildFails(h) ==
  /\ at[h] = "build" /\ (certPEM[h] # keyPEM[h] \/ certPEM[h] = 0)
  /\ Goto(h, "serve")
  /\ failed' = failed \cup {h}
  /\ UNCHANGED <<files, provider, locals, faults, began, served, overtaken>>

\* A file is not there or cannot be read: likewise.
ReadFails(h) ==
  /\ at[h] \in {"stat", "readCert", "readKey"}
  /\ faults > 0 /\ faults' = faults - 1
  /\ Goto(h, "serve")
  /\ failed' = failed \cup {h}
  /\ UNCHANGED <<files, provider, locals, began, served, overtaken>>

\* GetCertificate returns p.current.  (newTraefik without a certificate ends
\* the program; it is started again.)
Serve(h) ==
  /\ at[h] = "serve"
  /\ served' = [served EXCEPT ![h] = current]
  /\ Goto(h, "idle")
  /\ mod' = [mod EXCEPT ![h] = 0]
  /\ certPEM' = [certPEM EXCEPT ![h] = 0] /\ keyPEM' = [keyPEM EXCEPT ![h] = 0]
  /\ UNCHANGED <<files, provider, faults, began, failed, overtaken>>

Reload(h) ==
  \/ Begin(h) \/ Stat(h) \/ Check(h) \/ ReadCert(h) \/ ReadKey(h)
  \/ Store(h) \/ BuildFails(h) \/ Serve(h)

CertInit ==
  /\ cert = 1 /\ key = 1 /\ mtime = 1 /\ version = 1 /\ todo = {}
  /\ current = 0 /\ modTime = 0
  /\ at = [h \in Handshakes |-> "idle"]
  /\ mod = [h \in Handshakes |-> 0]
  /\ certPEM = [h \in Handshakes |-> 0] /\ keyPEM = [h \in Handshakes |-> 0]
  /\ faults = MaxFaults
  /\ began = [h \in Handshakes |-> 0] /\ served = [h \in Handshakes |-> 0]
  /\ failed = {} /\ overtaken = {}

CertNext ==
  \/ Renew
  \/ \E f \in {"cert", "key"} : PartWritten(f) \/ Written(f)
  \/ \E h \in Handshakes : Reload(h) \/ ReadFails(h)

CertSpec == CertInit /\ [][CertNext]_certVars

\* A renewal that began is finished, handshakes keep arriving and are served.
CertFairSpec ==
  /\ CertSpec
  /\ \A f \in {"cert", "key"} : WF_certVars(Written(f))
  /\ \A h \in Handshakes : WF_certVars(Reload(h))
-----------------------------------------------------------------------------
\* Every variable has its type.
CertTypeOK ==
  /\ cert \in Nat /\ key \in Nat /\ mtime \in Nat /\ version \in Nat \ {0}
  /\ todo \subseteq {"cert", "key"}
  /\ current \in Nat /\ modTime \in Nat
  /\ at \in [Handshakes -> PCs]
  /\ mod \in [Handshakes -> Nat]
  /\ certPEM \in [Handshakes -> Nat] /\ keyPEM \in [Handshakes -> Nat]

\* The optimisation of reload is sound: while the file's time is the one that
\* is remembered and no renewal is under way, the newest certificate is the one
\* served, whatever stores of slower handshakes have come in between.
StaleIsNoticed == current # 0 /\ modTime = mtime /\ todo = {} => current = version

\* Why: what a handshake has read is what the file holds for as long as the
\* file has the time that the handshake saw first.
CertInv ==
  /\ CertTypeOK
  /\ modTime <= mtime /\ \A h \in Handshakes : mod[h] <= mtime
  /\ current # 0 /\ modTime = mtime => current = cert
  /\ \A h \in Handshakes :
       at[h] \in {"readKey", "build"} /\ mod[h] = mtime => certPEM[h] = cert
  /\ "cert" \notin todo => cert = version

\* Once the server has a certificate each handshake gets one, through renewals,
\* half-written files and failing reads; it is a certificate that was issued.
HandshakesServed ==
  /\ \A h \in Handshakes \ {Main} : at[h] # "idle" => current # 0
  /\ current <= version

\* A handshake gets the newest certificate that was on disk when it began, or a
\* newer one, unless its reload failed or another one stored in between.
FreshUnlessOvertaken ==
  \A h \in Handshakes \ (failed \cup overtaken) : at[h] = "idle" => served[h] >= began[h]

\* "GetCertificate hook always serves the freshest certificate", unless its
\* reload failed and it falls back to the last good one.
AlwaysFreshest ==
  \A h \in Handshakes \ failed : at[h] = "idle" => served[h] >= began[h]

\* "A Traefik renewal is served without restarting ArnosVPN": the last
\* certificate is in the end the one served, and stays it.
EventuallyFresh == <>[](todo = {} /\ current = version)
=============================================================================
