-------------------------------- MODULE KeyFile --------------------------------
(***************************************************************************)
(* The pre-shared key and its state file: config.Load and resolvePSK       *)
(* (src/internal/config/config.go), called by the server when it starts    *)
(* and by every arnosvpnctl command that shows the configuration.          *)
(*                                                                         *)
(* The file is read whole, and written in place: os.WriteFile truncates it *)
(* and then writes.  Programs may overlap, be killed between any two       *)
(* steps, and fail to write.  ServerStart runs them.                       *)
(***************************************************************************)
CONSTANTS Servers,      \* server processes
          Tools,        \* runs of arnosvpnctl
          Keys,         \* keys that can be generated; their number bounds how
                        \* often that happens
          EnvKey,       \* a key given as ARNOS_PSK
          NoKey

VARIABLES
  env,          \* the environment all programs are started with
  file,         \* the state file: a key, or NoKey while it is absent, empty
                \* or cannot be parsed
  pc, key,      \* for each program, where it is and its cfg.PSK
  drawn,        \* keys generated so far; crypto/rand does not repeat itself
  issued,       \* history: the keys shown in connect URIs
  shown,        \* history: the key arnosvpnctl showed last
  raced         \* history: two programs have made a key at the same time

vars == <<env, file, pc, key, drawn, issued, shown, raced>>

Programs == Servers \cup Tools
Making == {"make", "truncate", "write"}

\* ARNOS_PSK is not set, a key, or not decodable; the other settings pass
\* Load's tests or do not.
Environments == [psk : {NoKey, EnvKey, "bad"}, valid : BOOLEAN, autoPort : BOOLEAN]

Init ==
  /\ env \in Environments
  /\ file = NoKey
  /\ pc = [p \in Programs |-> "off"] /\ key = [p \in Programs |-> NoKey]
  /\ drawn = {} /\ issued = {} /\ shown = NoKey
  /\ raced = FALSE

Goto(p, label) == pc' = [pc EXCEPT ![p] = label]
Has(p, k) == key' = [key EXCEPT ![p] = k]
Leaves(p) == Goto(p, "off") /\ Has(p, NoKey)
-----------------------------------------------------------------------------
(* Load *)

Start(p) ==
  /\ pc[p] = "off"
  /\ Goto(p, "load")
  /\ UNCHANGED <<env, file, key, drawn, issued, shown, raced>>

\* An unknown TLS mode or certificate provider, or no domain for it, or an
\* ARNOS_PSK that is not a key: the program reports it and exits.
LoadFails(p) ==
  /\ pc[p] = "load" /\ (~env.valid \/ env.psk = "bad")
  /\ Leaves(p)
  /\ UNCHANGED <<env, file, drawn, issued, shown, raced>>

\* ARNOS_PSK wins; the file is not looked at.
EnvKeyUsed(p) ==
  /\ pc[p] = "load" /\ env.valid /\ env.psk = EnvKey
  /\ Has(p, EnvKey)
  /\ Goto(p, "ready")
  /\ UNCHANGED <<env, file, drawn, issued, shown, raced>>

\* Faulty variant of StateRead: a key in the file is not used.
DeafStateRead(p) ==
  /\ pc[p] = "load" /\ env.valid /\ env.psk = NoKey
  /\ Goto(p, "make")
  /\ raced' = (raced \/ \E q \in Programs : pc[q] \in Making)
  /\ UNCHANGED <<env, file, key, drawn, issued, shown>>

\* The state file is read; without a key in it one will be made.
StateRead(p) ==
  /\ pc[p] = "load" /\ env.valid /\ env.psk = NoKey
  /\ Has(p, file)
  /\ Goto(p, IF file # NoKey THEN "ready" ELSE "make")
  /\ raced' = (raced \/ (file = NoKey /\ \E q \in Programs : pc[q] \in Making))
  /\ UNCHANGED <<env, file, drawn, issued, shown>>

KeyMade(p) ==
  /\ pc[p] = "make"
  /\ \E k \in Keys \ drawn : Has(p, k) /\ drawn' = drawn \cup {k}
  /\ Goto(p, "truncate")
  /\ UNCHANGED <<env, file, issued, shown, raced>>

\* os.WriteFile opens the file and empties it ...
FileTruncated(p) ==
  /\ pc[p] = "truncate"
  /\ file' = NoKey
  /\ Goto(p, "write")
  /\ UNCHANGED <<env, key, drawn, issued, shown, raced>>

\* Faulty variant of FileWritten: the program goes on before it has written.
LateFileWritten(p) ==
  /\ pc[p] = "write"
  /\ Goto(p, "ready")
  /\ UNCHANGED <<env, file, key, drawn, issued, shown, raced>>

\* ... and writes the key; contents of one length, so the last one stays.
FileWritten(p) ==
  /\ pc[p] = "write"
  /\ file' = key[p]
  /\ Goto(p, "ready")
  /\ UNCHANGED <<env, key, drawn, issued, shown, raced>>

\* The directory or the file cannot be written: Load returns the error.
WriteFails(p) ==
  /\ pc[p] \in {"truncate", "write"}
  /\ Leaves(p)
  /\ UNCHANGED <<env, file, drawn, issued, shown, raced>>
-----------------------------------------------------------------------------
(* The programs *)

\* ResolveListener, with any free port if none is asked for.
Listen(p) ==
  /\ p \in Servers /\ pc[p] = "ready"
  /\ env.autoPort \/ \A q \in Servers : pc[q] \notin {"listening", "serving"}
  /\ Goto(p, "listening")
  /\ UNCHANGED <<env, file, key, drawn, issued, shown, raced>>

\* The server prints its profile and serves.
PrintProfile(p) ==
  /\ pc[p] = "listening"
  /\ issued' = issued \cup {key[p]}
  /\ Goto(p, "serving")
  /\ UNCHANGED <<env, file, key, drawn, shown, raced>>

\* arnosvpnctl prints the profile or the configuration, and exits.
Show(p) ==
  /\ p \in Tools /\ pc[p] = "ready"
  /\ issued' = issued \cup {key[p]} /\ shown' = key[p]
  /\ Leaves(p)
  /\ UNCHANGED <<env, file, drawn, raced>>

\* The port is taken, the tunnel cannot be set up, the server is told to stop,
\* or any program is killed.
Exit(p) ==
  /\ pc[p] # "off"
  /\ Leaves(p)
  /\ UNCHANGED <<env, file, drawn, issued, shown, raced>>

-----------------------------------------------------------------------------
\* Every variable has its type.
TypeOK ==
  /\ env \in Environments
  /\ file \in Keys \cup {NoKey}
  /\ pc \in [Programs -> Making \cup {"off", "load", "ready", "listening", "serving"}]
  /\ key \in [Programs -> Keys \cup {EnvKey, NoKey}]
  /\ drawn \subseteq Keys /\ issued \subseteq Keys \cup {EnvKey}
  /\ shown \in Keys \cup {EnvKey, NoKey}
  /\ raced \in BOOLEAN
=============================================================================
