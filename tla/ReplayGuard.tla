----------------------------- MODULE ReplayGuard -----------------------------
(***************************************************************************)
(* The freshness checks of the server's handshake: the timestamp test in   *)
(* server.go and the table of accepted hellos in replay.go.  The table is  *)
(* in memory only: a restart of the server process empties it.             *)
(*                                                                         *)
(* Handshakes run concurrently.  Each reads the clock for the timestamp    *)
(* test, reads it again at the beginning of observe, and only then waits   *)
(* for the table's lock; the clock moves on in between.  Time is in        *)
(* seconds, as in the code (time.Unix), and does not run backwards.        *)
(***************************************************************************)
EXTENDS Integers

CONSTANTS Salts,        \* the salts of the hellos, 16 bytes each
          Spellings,    \* the ways to write a salt in base64
          Times,        \* the timestamps clients put into their hellos
          Attempts,     \* handshake goroutines
          NoHello,      \* not a hello
          AuthWindow,   \* protocol.AuthWindow, 90 in the code
          Slack,        \* the seconds the table adds to the window, 5
          MaxStall      \* the longest time from the timestamp test to the
                        \* end of observe

\* A hello that passed VerifyAuth, which looks at the bytes of the salt and at the
\* timestamp.  The key of observe is made of the salt's text, and DecodeString takes
\* more than one text for the same bytes: it skips line breaks, and does not look
\* at the bits of the last letter that belong to no byte.
Hellos == [salt : Salts, spelling : Spellings, ts : Times]

ASSUME GuardAssumption ==
  /\ Times \subseteq Int
  /\ AuthWindow \in Nat /\ Slack \in Nat \ {0} /\ MaxStall \in Nat
  /\ NoHello \notin Hellos

\* No handshake needs as long as the slack for its two tests.
PromptHandlers == MaxStall < Slack

VARIABLES now,          \* the server's clock
          started,      \* when this process of the server started
          seen,         \* g.seen: expiry of a key, Absent without one
          pc,           \* where a handshake is
          hello,        \* the hello it works on
          tested,       \* when it made the timestamp test
          sampled,      \* the time observe read before taking the lock
          accepts,      \* history: how often this process accepted a hello
          replays       \* history: the hellos it refused as replayed

vars == <<now, started, seen, pc, hello, tested, sampled, accepts, replays>>

\* Expiry times are positive, so zero marks a key that the map lacks.
Absent == 0
-----------------------------------------------------------------------------
\* Faulty variant of TTL: covers the window on one side only.
OneSidedTTL == AuthWindow + Slack

\* How long an entry lives: replayGuard.ttl.
TTL == 2 * AuthWindow + Slack

Init ==
  /\ now \in Nat /\ started = now
  /\ seen = [h \in Hellos |-> Absent]
  /\ pc = [a \in Attempts |-> "idle"]
  /\ hello = [a \in Attempts |-> NoHello]
  /\ tested = [a \in Attempts |-> 0]
  /\ sampled = [a \in Attempts |-> 0]
  /\ accepts = [h \in Hellos |-> 0]
  /\ replays = {}

\* A second passes, unless a handshake would exceed its longest stall.
Tick ==
  /\ \A a \in Attempts : pc[a] # "idle" => now + 1 - tested[a] <= MaxStall
  /\ now' = now + 1
  /\ UNCHANGED <<started, seen, pc, hello, tested, sampled, accepts, replays>>

\* Faulty variant of TimestampTest: a hello is never too old.
TimelessTimestampTest(a, h) ==
  /\ pc[a] = "idle"
  /\ now - h.ts >= -AuthWindow
  /\ pc' = [pc EXCEPT ![a] = "tested"]
  /\ hello' = [hello EXCEPT ![a] = h]
  /\ tested' = [tested EXCEPT ![a] = now]
  /\ UNCHANGED <<now, started, seen, sampled, accepts, replays>>

\* A hello arrives, possibly not for the first time, and its timestamp lies
\* within the window.  Any other hello is refused: no step.
TimestampTest(a, h) ==
  /\ pc[a] = "idle"
  /\ now - h.ts \in -AuthWindow .. AuthWindow
  /\ pc' = [pc EXCEPT ![a] = "tested"]
  /\ hello' = [hello EXCEPT ![a] = h]
  /\ tested' = [tested EXCEPT ![a] = now]
  /\ UNCHANGED <<now, started, seen, sampled, accepts, replays>>

\* observe reads the clock before it takes the lock.
Sample(a) ==
  /\ pc[a] = "tested"
  /\ pc' = [pc EXCEPT ![a] = "sampled"]
  /\ sampled' = [sampled EXCEPT ![a] = now]
  /\ UNCHANGED <<now, started, seen, hello, tested, accepts, replays>>

\* The table without the entries that have expired at time t.
Swept(t) == [h \in Hellos |-> IF seen[h] <= t THEN Absent ELSE seen[h]]

\* Faulty variant of Observe: records the hello before it looks for it.
RecordFirstObserve(a) ==
  LET h == hello[a] IN
  /\ pc[a] = "sampled"
  /\ pc' = [pc EXCEPT ![a] = "idle"]
  /\ hello' = [hello EXCEPT ![a] = NoHello]
  /\ tested' = [tested EXCEPT ![a] = 0]
  /\ sampled' = [sampled EXCEPT ![a] = 0]
  /\ seen' = [Swept(sampled[a]) EXCEPT ![h] = sampled[a] + TTL]
  /\ replays' = replays \cup {h}
  /\ UNCHANGED <<now, started, accepts>>

\* The rest of observe under the lock: sweep, look for the key, record it.
\* The handshake's locals are reset when it is over.
Observe(a) ==
  LET h == hello[a]
      swept == Swept(sampled[a])
  IN
  /\ pc[a] = "sampled"
  /\ pc' = [pc EXCEPT ![a] = "idle"]
  /\ hello' = [hello EXCEPT ![a] = NoHello]
  /\ tested' = [tested EXCEPT ![a] = 0]
  /\ sampled' = [sampled EXCEPT ![a] = 0]
  /\ IF swept[h] # Absent
     THEN /\ seen' = swept
          /\ replays' = replays \cup {h}
          /\ UNCHANGED accepts
     ELSE /\ seen' = [swept EXCEPT ![h] = sampled[a] + TTL]
          /\ accepts' = [accepts EXCEPT ![h] = @ + 1]
          /\ UNCHANGED replays
  /\ UNCHANGED <<now, started>>

\* The process ends, with the handshakes in progress, and a new one starts.
Restart ==
  /\ started' = now
  /\ seen' = [h \in Hellos |-> Absent]
  /\ pc' = [a \in Attempts |-> "idle"]
  /\ hello' = [a \in Attempts |-> NoHello]
  /\ tested' = [a \in Attempts |-> 0]
  /\ sampled' = [a \in Attempts |-> 0]
  /\ accepts' = [h \in Hellos |-> 0]
  /\ replays' = {}
  /\ UNCHANGED now

Next ==
  \/ Tick
  \/ Restart
  \/ \E a \in Attempts :
       \/ \E h \in Hellos : TimestampTest(a, h)
       \/ Sample(a)
       \/ Observe(a)

Spec == Init /\ [][Next]_vars
-----------------------------------------------------------------------------
\* Every variable has its type.
TypeOK ==
  /\ now \in Nat /\ started \in 0 .. now
  /\ seen \in [Hellos -> Int]
  /\ pc \in [Attempts -> {"idle", "tested", "sampled"}]
  /\ hello \in [Attempts -> Hellos \cup {NoHello}]
  /\ tested \in [Attempts -> Nat]
  /\ sampled \in [Attempts -> Nat]
  /\ accepts \in [Hellos -> Nat]
  /\ replays \subseteq Hellos

\* A handshake in progress works on a hello that was inside the window when
\* it was tested, no longer ago than the longest stall.
InProgress ==
  \A a \in Attempts : pc[a] # "idle" =>
    /\ hello[a] \in Hellos
    /\ tested[a] - hello[a].ts \in -AuthWindow .. AuthWindow
    /\ now - tested[a] \in 0 .. MaxStall
    /\ started <= tested[a]
    /\ pc[a] = "sampled" => sampled[a] \in tested[a] .. now

\* The table forgets an accepted hello only when no handshake can still be
\* carrying it: its entry outlives the window around its timestamp by the
\* slack, and once it is gone that moment has passed.
RememberedLongEnough ==
  \A h \in Hellos : accepts[h] > 0 =>
    \/ seen[h] # Absent /\ seen[h] >= h.ts + AuthWindow + Slack
    \/ seen[h] = Absent /\ now >= h.ts + AuthWindow + Slack

\* observe "returns false if this (salt, ts) pair has already been seen": with the
\* text of the salt that is its key, it accepts a pair at most once while the server
\* runs, in any interleaving of handshakes that carry the same hello.
AcceptedOnce == \A h \in Hellos : accepts[h] <= 1

\* observe refuses only what it accepted before: a fresh hello is never
\* mistaken for a replay, and an entry in the table stands for an acceptance.
RefusedOnlyReplays ==
  /\ \A h \in replays : accepts[h] > 0
  /\ \A h \in Hellos : seen[h] # Absent => accepts[h] > 0

\* A restart forgets every hello, yet only recent ones can come back: what a
\* process accepts had not left the window when the process started, so a hello
\* that an earlier process accepted is accepted again only if the restart came
\* within AuthWindow of its timestamp.
RestartForgetsOnlyRecent ==
  \A h \in Hellos : accepts[h] > 0 => started <= h.ts + AuthWindow

\* "A replayed hello cannot open a second session": of the hellos with one salt and
\* timestamp, however the salt is spelled, one is accepted, once.
OneSessionPerHello ==
  /\ AcceptedOnce
  /\ \A g, h \in Hellos :
       accepts[g] > 0 /\ accepts[h] > 0 /\ g.salt = h.salt /\ g.ts = h.ts => g = h

\* "The server also remembers each accepted (salt, ts) pair for the duration of the
\* timestamp window": no step drops one from the table before that.
RemembersWindow ==
  [][\A h \in Hellos : accepts[h] > 0 /\ now <= h.ts + AuthWindow => seen'[h] # Absent]_vars

\* The inductive invariant.
GuardInv ==
  /\ TypeOK
  /\ InProgress
  /\ RememberedLongEnough
  /\ AcceptedOnce
  /\ RefusedOnlyReplays
  /\ RestartForgetsOnlyRecent
=============================================================================
