------------------------------ MODULE ServerStart ------------------------------
(***************************************************************************)
(* The server's main (src/cmd/arnosvpn-server/main.go) from its start to   *)
(* its end, next to runs of arnosvpnctl: config.Load with the key file     *)
(* (KeyFile), the listener, server.New with the host's network (HostNet),  *)
(* the printed profile, and the ways out.                                  *)
(***************************************************************************)
EXTENDS HostNet

CONSTANTS Tools, Keys, EnvKey, NoKey    \* see KeyFile

ASSUME ServerStartAssumption ==
  /\ Procs \cap Tools = {}
  /\ EnvKey # NoKey /\ {EnvKey, NoKey} \cap Keys = {}

VARIABLES env, file, step, key, drawn, issued, shown, raced

K == INSTANCE KeyFile WITH Servers <- Procs, pc <- step

keyVars   == <<env, file, step, key, drawn, issued, shown, raced>>
startVars == <<vars, keyVars>>

StartInit == Init /\ K!Init
-----------------------------------------------------------------------------
\* config.Load, of the server and of arnosvpnctl.
LoadConfig(p) ==
  /\ \/ K!Start(p) \/ K!LoadFails(p) \/ K!EnvKeyUsed(p) \/ K!StateRead(p)
     \/ K!KeyMade(p) \/ K!FileTruncated(p) \/ K!FileWritten(p) \/ K!WriteFails(p)
  /\ UNCHANGED vars

Listen(p) == K!Listen(p) /\ UNCHANGED vars

\* server.New, up to its return or its error.
New(p) ==
  /\ step[p] = "listening"
  /\ \/ OpenTUN(p) \/ DetectWAN(p) \/ AddAddress(p) \/ LinkUp(p) \/ EnsureIPForward(p)
     \/ StepFails(p) \/ RuleFound(p) \/ RuleAdded(p) \/ RuleMissed(p)
     \/ Undo(p) \/ UndoFails(p)
  /\ UNCHANGED keyVars

PrintProfile(p) == pc[p] = "serving" /\ K!PrintProfile(p) /\ UNCHANGED vars

\* The process ends before it has the device: no configuration, no port, the
\* device is busy, or it is killed.
EndsEarly(p) == pc[p] = "off" /\ K!Exit(p) /\ UNCHANGED vars

\* It ends with the device: an error of New, a signal or the listener's error
\* once it serves, a kill at any time.
EndsLate(p) ==
  /\ FailedStart(p) \/ (step[p] = "serving" /\ Shutdown(p)) \/ Crash(p)
  /\ K!Exit(p)

Tool(t) == (K!Show(t) \/ K!Exit(t)) /\ UNCHANGED vars

StartNext ==
  \/ \E p \in K!Programs : LoadConfig(p)
  \/ \E p \in Procs : Listen(p) \/ New(p) \/ PrintProfile(p) \/ EndsEarly(p) \/ EndsLate(p)
  \/ \E t \in Tools : Tool(t)

StartSpec == StartInit /\ [][StartNext]_startVars
-----------------------------------------------------------------------------
\* A key is in the file and nobody is about to write another.
Settled == file # NoKey /\ \A p \in K!Programs : step[p] \notin K!Making

\* "State that must persist across restarts (the PSK, mainly)": once a key is
\* settled, no start, crash or failure of any program changes it.
SettledKeyStays == [][Settled => Settled' /\ file' = file]_startVars

\* "restarts keep the same client profile": unless two programs make a key at
\* the same time, every key ever handed out in a URI is the one that is in the
\* file and that every program loads, whatever was killed or failed between.
\* This needs that a profile is printed only after the write.
IssuedKeysStayValid ==
  ~raced /\ env.psk = NoKey =>
    \A k \in issued : file = k /\ \A p \in K!Programs : key[p] \in {k, NoKey}

\* While no two programs have made a key at the same time: a program that has
\* its key has the one in the file, one that makes a key is alone and has found
\* none, and every key handed out is the one in the file.
OneKey ==
  /\ \A p \in K!Programs :
       /\ step[p] \in {"off", "load", "make"} => key[p] = NoKey
       /\ step[p] \in {"ready", "listening", "serving"} => key[p] = file /\ file # NoKey
       /\ step[p] \in K!Making =>
            file = NoKey /\ \A q \in K!Programs : step[q] \in K!Making => q = p
  /\ \A k \in issued : file = k /\ k # NoKey

\* A program that is past config.Load has a key, and writes only one it has made.
KeysInPlace ==
  \A p \in K!Programs :
    /\ step[p] \in {"truncate", "write"} => key[p] \in Keys
    /\ step[p] \in {"ready", "listening", "serving"} => key[p] # NoKey

\* The inductive invariant of the key file, with the types of its variables.
KeyInv == K!TypeOK /\ KeysInPlace /\ (~raced /\ env.psk = NoKey => OneKey)

\* "arnosvpnctl uri" "always matches what the running server accepts".
ToolMatchesServer ==
  \A p \in Procs : step[p] = "serving" /\ shown # NoKey => shown = key[p]
=============================================================================
