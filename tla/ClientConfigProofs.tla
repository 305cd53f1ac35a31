------------------------- MODULE ClientConfigProofs -------------------------
(***************************************************************************)
(* Machine-checked proofs about the desktop client's saved servers, for    *)
(* any names, URIs, feeds and settings and any number of commands, and     *)
(* about the connect URIs they consist of.                                 *)
(***************************************************************************)
EXTENDS ClientConfig, WellFoundedInduction, TLAPS

(* Connect URIs: what a client reads is what the server has put there, and *)
(* passing a server on from client to client changes nothing.              *)

\* The profile with the defaults of ParseURI in place of empty texts.
Completed(p) ==
  [host |-> p.host, port |-> p.port, path |-> OrElse(p.path, "/"),
   sni |-> OrElse(p.sni, p.host), psk |-> p.psk, name |-> p.name]

\* OrElse returns an empty text only if both are empty, and a second default
\* changes nothing after a first that is not empty.
LEMMA OrElseOnce ==
  ASSUME NEW t, NEW d, NEW e, d # ""
  PROVE  OrElse(t, d) # "" /\ OrElse(OrElse(t, d), e) = OrElse(t, d)
  BY DEF OrElse

\* Every key of the query is read back as it was written: a name that is left
\* out reads as the empty name, the port is a number, the key decodes.
LEMMA KeysReadBack ==
  ASSUME NEW p
  PROVE  /\ URI(p).scheme = "arnos" /\ URI(p).psk.form # "garbage"
         /\ Get(URI(p).host) = p.host /\ Get(URI(p).path) = p.path
         /\ Get(URI(p).sni) = OrElse(p.sni, p.host)
         /\ Atoi(URI(p).port) = p.port /\ Decode(URI(p).psk) = p.psk
         /\ Get(URI(p).name) = p.name
  BY DEF URI, Get, Atoi, Decode, Plain, Decimal, Base64URL, Absent

\* "ParseURI decodes a profile produced by URI": for every profile with a host,
\* whatever its other texts, number and key are, the URI parses, to the profile
\* with its defaults filled in.
THEOREM RoundTrip ==
  ASSUME NEW Texts, NEW ByteStrings,
         NEW p \in Profiles(Texts, ByteStrings), p.host # ""
  PROVE  ParseURI(URI(p)) = [ok |-> TRUE, profile |-> Completed(p)]
<1>1. OrElse(OrElse(p.sni, p.host), p.host) = OrElse(p.sni, p.host)
  BY OrElseOnce
<1> QED
  BY <1>1, KeysReadBack DEF ParseURI, Completed

\* A profile without a host has a URI that every client refuses, so that the
\* host is not only sufficient: ParseURI refuses nothing else URI can write.
THEOREM HostNeeded ==
  ASSUME NEW p, p.host = ""
  PROVE  ParseURI(URI(p)) = Failed
  BY KeysReadBack DEF ParseURI

\* Whatever URI a client has accepted, with keys missing, a port that is no
\* number or the defaults left out, writing its profile out and reading it
\* again gives the same profile: saving, sharing and scanning may follow each
\* other any number of times.
THEOREM SharingIsStable ==
  ASSUME NEW u, ParseURI(u) # Failed
  PROVE  ParseURI(URI(ParseURI(u).profile)) = ParseURI(u)
<1> DEFINE p == [host |-> Get(u.host), port |-> Atoi(u.port),
                 path |-> OrElse(Get(u.path), "/"),
                 sni |-> OrElse(Get(u.sni), Get(u.host)),
                 psk |-> Decode(u.psk), name |-> Get(u.name)]
<1>1. Get(u.host) # "" /\ ParseURI(u) = [ok |-> TRUE, profile |-> p]
  BY DEF ParseURI
<1>2. p.host # "" /\ OrElse(p.path, "/") = p.path
  BY <1>1, OrElseOnce
<1>3. OrElse(p.sni, p.host) = p.sni
  BY <1>1, OrElseOnce
<1>4. ParseURI(URI(p)) =
        [ok |-> TRUE,
         profile |-> [host |-> p.host, port |-> p.port, path |-> p.path,
                      sni |-> p.sni, psk |-> p.psk, name |-> p.name]]
  <2> HIDE DEF p
  <2> QED  BY <1>2, <1>3, KeysReadBack DEF ParseURI
<1>5. ParseURI(u).profile = p
  <2>1. \A x, y : x = [ok |-> TRUE, profile |-> y] => x.profile = y
    OBVIOUS
  <2> QED  BY ONLY <1>1, <2>1
<1>6. p = [host |-> p.host, port |-> p.port, path |-> p.path,
           sni |-> p.sni, psk |-> p.psk, name |-> p.name]
  OBVIOUS
<1> HIDE DEF p
<1> QED
  BY <1>1, <1>4, <1>5, <1>6
-----------------------------------------------------------------------------
(* The loop that leaves positions of a sequence out *)

\* A set of naturals that is not empty has a least element.
LEMMA LeastNat ==
  ASSUME NEW T \in SUBSET Nat, T # {}
  PROVE  \E x \in T : \A y \in T : x <= y
<1> DEFINE R == OpToRel(<, Nat)
<1>1. IsWellFoundedOn(R, Nat)
  BY NatLessThanWellFounded
<1>2. \A x, y \in Nat : <<y, x>> \in R <=> y < x
  BY SMT DEF OpToRel
<1> HIDE DEF R
<1>3. PICK x \in T : \A y \in T : ~(<<y, x>> \in R)
  BY <1>1, WFMin
<1>4. \A y \in T : ~(y < x)
  BY <1>2, <1>3
<1>5. \A y \in T : x <= y
  BY <1>4
<1> QED
  BY <1>5

\* The loop of Without up to position n, as an equation.
Loop(s, P, n, out) ==
  out = [i \in 0 .. n |-> IF i = 0 THEN <<>>
                          ELSE IF i \in P THEN out[i - 1] ELSE Append(out[i - 1], s[i])]

\* The equation has a solution, whatever the length of the loop.
LEMMA LoopExists ==
  ASSUME NEW s, NEW P, NEW n \in Nat
  PROVE  \E out : Loop(s, P, n, out)
<1> DEFINE T == {m \in Nat : ~\E out : Loop(s, P, m, out)}
<1> SUFFICES ASSUME T # {} PROVE FALSE
  OBVIOUS
<1>1. PICK m \in T : \A k \in T : m <= k
  BY LeastNat
<1>2. m # 0
  <2> DEFINE o == [i \in 0 .. 0 |-> <<>>]
  <2>1. Loop(s, P, 0, o)
    BY DEF Loop
  <2> QED
    BY <2>1
<1>3. m - 1 \in Nat /\ m - 1 \notin T
  BY <1>1, <1>2
<1>4. PICK o : Loop(s, P, m - 1, o)
  BY <1>3
<1> DEFINE w == [i \in 0 .. m |->
                   IF i < m THEN o[i]
                   ELSE IF m \in P THEN o[m - 1] ELSE Append(o[m - 1], s[m])]
<1>5. \A i \in 0 .. m : w[i] = IF i = 0 THEN <<>>
                               ELSE IF i \in P THEN w[i - 1] ELSE Append(w[i - 1], s[i])
  <2> TAKE i \in 0 .. m
  <2>1. CASE i < m
    <3>1. i \in 0 .. m - 1
      BY <2>1, <1>3
    <3>2. o[i] = IF i = 0 THEN <<>>
                 ELSE IF i \in P THEN o[i - 1] ELSE Append(o[i - 1], s[i])
      BY <1>4, <3>1 DEF Loop
    <3>3. w[i] = o[i] /\ (i # 0 => w[i - 1] = o[i - 1])
      BY <3>1, <1>3
    <3> QED
      BY <3>2, <3>3
  <2>2. CASE i = m
    <3>1. w[m] = (IF m \in P THEN o[m - 1] ELSE Append(o[m - 1], s[m])) /\ w[m - 1] = o[m - 1]
      BY <1>3
    <3> QED
      BY <2>2, <3>1, <1>2
  <2> QED
    BY <2>1, <2>2, <1>3
<1>6. Loop(s, P, m, w)
  <2> HIDE DEF w
  <2>1. w = [i \in 0 .. m |-> w[i]]
    BY DEF w
  <2> QED
    BY <1>5, <2>1 DEF Loop
<1> QED
  BY <1>6

\* w consists of the elements of s at the positions K, each of them once; h
\* says where they come from.
Collects(w, s, K, h) ==
  /\ h \in [1 .. Len(w) -> K]
  /\ \A a \in 1 .. Len(w) : w[a] = s[h[a]]
  /\ \A a, b \in 1 .. Len(w) : h[a] = h[b] => a = b
  /\ \A k \in K : \E a \in 1 .. Len(w) : h[a] = k

\* The loop collects one more.
LEMMA CollectsOneMore ==
  ASSUME NEW E, NEW w \in Seq(E), NEW s, NEW K, NEW h, Collects(w, s, K, h),
         NEW m, m \notin K, s[m] \in E
  PROVE  \E g : Collects(Append(w, s[m]), s, K \cup {m}, g)
<1> DEFINE l == Len(w)
           v == Append(w, s[m])
           g == [a \in 1 .. l + 1 |-> IF a = l + 1 THEN m ELSE h[a]]
<1>1. l \in Nat /\ Len(v) = l + 1 /\ v[l + 1] = s[m] /\ \A a \in 1 .. l : v[a] = w[a]
  OBVIOUS
<1>2. \A a \in 1 .. l + 1 : a = l + 1 \/ a \in 1 .. l
  BY <1>1
<1>3. l + 1 \in 1 .. l + 1 /\ \A a \in 1 .. l : a \in 1 .. l + 1 /\ a # l + 1
  BY <1>1
<1>4. g[l + 1] = m /\ \A a \in 1 .. l : g[a] = h[a] /\ h[a] \in K
  BY <1>3 DEF Collects
<1>5. g \in [1 .. l + 1 -> K \cup {m}]
  BY <1>2, <1>4
<1> HIDE DEF g, v, l
<1>6. \A a \in 1 .. l + 1 : v[a] = s[g[a]]
  BY <1>1, <1>2, <1>4 DEF Collects, l
<1>7. \A a, b \in 1 .. l + 1 : g[a] = g[b] => a = b
  BY <1>2, <1>4 DEF Collects, l
<1>8. \A k \in K \cup {m} : \E a \in 1 .. l + 1 : g[a] = k
  BY <1>3, <1>4 DEF Collects, l
<1>9. Collects(v, s, K \cup {m}, g)
  BY <1>1, <1>5, <1>6, <1>7, <1>8 DEF Collects
<1> QED
  BY <1>9 DEF v

\* What is left of a sequence is a sequence of its elements at the positions
\* that are kept, each of them once.
LEMMA WithoutKeeps ==
  ASSUME NEW E, NEW s \in Seq(E), NEW P
  PROVE  Without(s, P) \in Seq(E) /\ \E h : Collects(Without(s, P), s, DOMAIN s \ P, h)
<1> DEFINE n == Len(s)
           o == CHOOSE out : Loop(s, P, n, out)
<1>1. n \in Nat /\ DOMAIN s = 1 .. n /\ \A i \in 1 .. n : s[i] \in E
  OBVIOUS
<1>2. Loop(s, P, n, o)
  BY <1>1, LoopExists
<1>3. Without(s, P) = o[n]
  BY Zenon DEF Without, Loop
<1> HIDE DEF n, o
<1>4. o[0] = <<>>
  BY <1>1, <1>2 DEF Loop
<1>5. \A i \in 1 .. n : o[i] = IF i \in P THEN o[i - 1] ELSE Append(o[i - 1], s[i])
  <2> TAKE i \in 1 .. n
  <2>1. i \in 0 .. n /\ i # 0
    BY <1>1
  <2> QED
    BY <1>2, <2>1, Zenon DEF Loop
<1> DEFINE Done(i) == o[i] \in Seq(E) /\ \E h : Collects(o[i], s, (1 .. i) \ P, h)
           T == {i \in 0 .. n : ~Done(i)}
<1>6. Done(0)
  <2> DEFINE e == [a \in 1 .. 0 |-> 0]
  <2>1. o[0] \in Seq(E) /\ Len(o[0]) = 0
    BY <1>4
  <2>2. Collects(o[0], s, (1 .. 0) \ P, e)
    BY <2>1 DEF Collects
  <2> QED
    BY <2>1, <2>2
<1>7. ASSUME NEW m \in 1 .. n, Done(m - 1)
      PROVE  Done(m)
  <2>1. m \in Nat /\ s[m] \in E /\ m \notin (1 .. m - 1) \ P
    BY <1>1, <1>7
  <2>2. PICK h : Collects(o[m - 1], s, (1 .. m - 1) \ P, h)
    BY <1>7
  <2>3. CASE m \in P
    <3>1. o[m] = o[m - 1] /\ (1 .. m) \ P = (1 .. m - 1) \ P
      BY <1>5, <2>1, <2>3
    <3> QED
      BY <1>7, <3>1
  <2>4. CASE m \notin P
    <3>1. o[m] = Append(o[m - 1], s[m])
      BY <1>5, <2>4
    <3>2. (1 .. m) \ P = ((1 .. m - 1) \ P) \cup {m}
      BY <2>1, <2>4
    <3>3. \E g : Collects(o[m], s, (1 .. m) \ P, g)
      <4>1. o[m - 1] \in Seq(E)
        BY <1>7
      <4>2. \E g : Collects(Append(o[m - 1], s[m]), s, ((1 .. m - 1) \ P) \cup {m}, g)
        BY <2>1, <2>2, <4>1, CollectsOneMore, Zenon
      <4> QED
        BY <3>1, <3>2, <4>2
    <3>4. o[m] \in Seq(E)
      BY <1>7, <2>1, <3>1
    <3> QED
      BY <3>3, <3>4
  <2> QED
    BY <2>3, <2>4
<1> HIDE DEF Done
<1>8. T = {}
  <2> SUFFICES ASSUME T # {} PROVE FALSE
    OBVIOUS
  <2>1. T \in SUBSET Nat
    BY <1>1
  <2>2. PICK m \in T : \A k \in T : m <= k
    BY <2>1, LeastNat
  <2>3. m \in 1 .. n /\ m - 1 \in 0 .. n /\ m - 1 \notin T
    BY <1>1, <1>6, <2>2
  <2> QED
    BY <1>7, <2>2, <2>3
<1>9. Done(n)
  BY <1>1, <1>8
<1> QED
  BY <1>1, <1>3, <1>9 DEF Done
-----------------------------------------------------------------------------
(* The operations on a configuration *)

Config(a, l, m) == [active |-> a, servers |-> l, mode |-> m]

\* A configuration has three fields, and any three of their types make one.
LEMMA ConfigFields ==
  ASSUME NEW c \in Configs
  PROVE  /\ c.active \in Names /\ c.servers \in Seq(Server) /\ c.mode \in Modes \cup {"proxy"}
         /\ c = Config(c.active, c.servers, c.mode)
BY DEF Configs, Config

LEMMA MakeConfig ==
  ASSUME NEW a \in Names, NEW l \in Seq(Server), NEW m \in Modes \cup {"proxy"}
  PROVE  /\ Config(a, l, m) \in Configs
         /\ Config(a, l, m).active = a
         /\ Config(a, l, m).servers = l
         /\ Config(a, l, m).mode = m
BY DEF Configs, Config

LEMMA ConfigExcept ==
  ASSUME NEW c \in Configs
  PROVE  /\ \A a : [c EXCEPT !.active = a] = Config(a, c.servers, c.mode)
         /\ \A m : [c EXCEPT !.mode = m] = Config(c.active, c.servers, m)
         /\ \A a, l : [c EXCEPT !.servers = l, !.active = a] = Config(a, l, c.mode)
<1>1. \A a : [c EXCEPT !.active = a] = Config(a, c.servers, c.mode)
  BY DEF Configs, Config
<1>2. \A m : [c EXCEPT !.mode = m] = Config(c.active, c.servers, m)
  BY DEF Configs, Config
<1>3. ASSUME NEW a, NEW l
      PROVE  [c EXCEPT !.servers = l, !.active = a] = Config(a, l, c.mode)
  <2> DEFINE d == [c EXCEPT !.servers = l]
  <2>1. d = Config(c.active, l, c.mode)
    BY DEF Configs, Config
  <2>2. [d EXCEPT !.active = a] = Config(a, l, c.mode)
    <3> HIDE DEF d
    <3>1. /\ d = [active |-> d.active, servers |-> d.servers, mode |-> d.mode]
          /\ d.servers = l /\ d.mode = c.mode
      BY <2>1 DEF Config
    <3> QED
      BY <3>1 DEF Config
  <2> QED
    BY <2>2
<1> QED
  BY <1>1, <1>2, <1>3

\* The empty configuration of LoadConfig is a usable one.
LEMMA NoConfigUsable == NoConfig \in Configs /\ Usable(NoConfig)
<1>1. "" \in Names
  BY ClientConfigAssumption
<1>2. <<>> \in Seq(Server) /\ DOMAIN <<>> = {}
  OBVIOUS
<1>3. NoConfig \in Configs
  BY <1>1, <1>2 DEF NoConfig, Configs
<1>4. NoConfig.active = "" /\ DOMAIN NoConfig.servers = {} /\ NoConfig.mode = "proxy"
  BY <1>2 DEF NoConfig
<1>5. Usable(NoConfig)
  BY <1>4 DEF Usable
<1> QED
  BY <1>3, <1>5

\* A URI that parses gives a name: its own, or that of its host.
LEMMA NameOfURI ==
  ASSUME NEW name \in Names, NEW u \in Offered, ParseURI(u).ok
  PROVE  /\ DefaultName(name, ParseURI(u).profile) \in Names
         /\ DefaultName(name, ParseURI(u).profile) # ""
<1>1. /\ Get(u.host) # "" /\ ParseURI(u).profile.host = Get(u.host)
      /\ ParseURI(u).profile.name = Get(u.name)
  BY DEF ParseURI, Failed
<1>2. Get(u.host) \in Names /\ Get(u.name) \in Names
  BY ClientConfigAssumption
<1> QED
  BY <1>1, <1>2 DEF DefaultName, OrElse

\* Add leaves a usable configuration usable: a name that EqualFold finds in the
\* list is not added a second time.
LEMMA AddUsable ==
  ASSUME NEW c \in Configs, Usable(c), NEW name \in Names,
         NEW u \in Offered, ParseURI(u).ok
  PROVE  Add(c, name, u) \in Configs /\ Usable(Add(c, name, u))
<1> DEFINE n == DefaultName(name, ParseURI(u).profile)
           P == Positions(c, n)
           d == Add(c, name, u)
<1>1. n \in Names /\ n # ""
  BY NameOfURI
<1>2. /\ c.servers \in Seq(Server) /\ c.active \in Names /\ c.mode \in Modes \cup {"proxy"}
      /\ c = Config(c.active, c.servers, c.mode)
  BY ConfigFields
<1>3. CASE P # {}
  <2> DEFINE l == [i \in DOMAIN c.servers |->
                     IF i \in P THEN [c.servers[i] EXCEPT !.uri = u] ELSE c.servers[i]]
  <2>1. d = Config(c.active, l, c.mode)
    BY <1>2, <1>3 DEF Add, Config
  <2>2. \A i \in DOMAIN c.servers :
          l[i] \in Server /\ l[i].name = c.servers[i].name /\ l[i].uri \in {u, c.servers[i].uri}
    <3> TAKE i \in DOMAIN c.servers
    <3> DEFINE x == c.servers[i]
               y == [x EXCEPT !.uri = u]
    <3>1. x \in Server
      BY <1>2
    <3> HIDE DEF x
    <3>2. y \in Server /\ y.name = x.name /\ y.uri = u
      BY <3>1 DEF Server
    <3>3. l[i] = y \/ l[i] = x
      BY DEF x
    <3> QED
      BY <3>1, <3>2, <3>3 DEF x
  <2>3. l \in Seq(Server) /\ DOMAIN l = DOMAIN c.servers
    <3>1. DOMAIN c.servers = 1 .. Len(c.servers) /\ Len(c.servers) \in Nat
      BY <1>2
    <3>2. DOMAIN l = 1 .. Len(c.servers) /\ l \in [1 .. Len(c.servers) -> Server]
      BY <2>2, <3>1, Zenon
    <3> HIDE DEF l
    <3> QED
      BY <3>1, <3>2
  <2> HIDE DEF l
  <2> HIDE DEF d
  <2>4. d \in Configs /\ d.active = c.active /\ d.servers = l /\ d.mode = c.mode
    BY <1>2, <2>1, <2>3, MakeConfig
  <2>5. \A m : Positions(d, m) = Positions(c, m)
    BY <2>2, <2>3, <2>4 DEF Positions
  <2>6. Usable(d)
    BY <2>2, <2>3, <2>4, <2>5 DEF Usable
  <2> QED
    BY <2>4, <2>6 DEF d
<1>4. CASE P = {}
  <2> DEFINE e == [name |-> n, uri |-> u]
             l == Append(c.servers, e)
             k == Len(c.servers)
             a == IF c.active = "" THEN n ELSE c.active
  <2>1. d = Config(a, l, c.mode)
    BY <1>2, <1>4 DEF Add, Config
  <2>2. e \in Server /\ e.name = n /\ e.uri = u
    BY <1>1 DEF Server
  <2>3. a \in Names
    BY <1>1, <1>2
  <2> HIDE DEF e, n
  <2>4. /\ l \in Seq(Server) /\ k \in Nat /\ DOMAIN c.servers = 1 .. k
        /\ DOMAIN l = 1 .. k + 1 /\ l[k + 1] = e /\ \A i \in 1 .. k : l[i] = c.servers[i]
    BY <1>2, <2>2
  <2> HIDE DEF l, d, k, a
  <2>5. d \in Configs /\ d.active = a /\ d.servers = l /\ d.mode = c.mode
    BY <1>2, <2>1, <2>3, <2>4, MakeConfig
  <2>6. \A i \in 1 .. k + 1 : i = k + 1 \/ i \in 1 .. k
    BY <2>4
  <2>7. k + 1 \in 1 .. k + 1 /\ \A i \in 1 .. k : i \in 1 .. k + 1
    BY <2>4
  <2>8. \A i \in 1 .. k : ~EqualFold(c.servers[i].name, n)
    BY <1>4, <2>4 DEF Positions, n
  <2>9. \A i \in DOMAIN l : l[i].name # "" /\ ParseURI(l[i].uri).ok
    BY <1>1, <2>2, <2>4, <2>6 DEF Usable, n
  <2>10. \A i, j \in DOMAIN l : EqualFold(l[i].name, l[j].name) => i = j
    <3>1. \A i \in 1 .. k : Fold[l[i].name] # Fold[l[k + 1].name]
      BY <2>2, <2>4, <2>8 DEF EqualFold
    <3>2. \A i, j \in 1 .. k : Fold[l[i].name] = Fold[l[j].name] => i = j
      <4>1. \A i, j \in DOMAIN c.servers :
              Fold[c.servers[i].name] = Fold[c.servers[j].name] => i = j
        BY DEF EqualFold, Usable
      <4> QED
        BY <2>4, <4>1, SMTT(60)
    <3> QED
      BY <2>4, <2>6, <3>1, <3>2 DEF EqualFold
  <2>11. d.active # "" => Positions(d, d.active) # {}
    <3>1. k + 1 \in Positions(d, n)
      BY <2>2, <2>4, <2>5, <2>7 DEF Positions, EqualFold
    <3>2. Positions(c, c.active) \subseteq Positions(d, c.active)
      BY <2>4, <2>5, <2>7 DEF Positions
    <3> QED
      BY <2>5, <3>1, <3>2 DEF Usable, a
  <2>12. Usable(d)
    BY <2>5, <2>9, <2>10, <2>11 DEF Usable
  <2> QED
    BY <2>5, <2>12 DEF d
<1> QED
  BY <1>3, <1>4

\* Remove leaves a usable configuration usable: the servers that are left keep
\* their names apart, and one of them is active.
LEMMA RemoveUsable ==
  ASSUME NEW c \in Configs, Usable(c), NEW name \in Names
  PROVE  Remove(c, name) \in Configs /\ Usable(Remove(c, name))
<1> DEFINE P == Positions(c, name)
           rest == Without(c.servers, P)
           a == IF ~EqualFold(c.active, name) THEN c.active
                ELSE IF rest # <<>> THEN rest[1].name ELSE ""
           d == Remove(c, name)
<1>1. /\ c.servers \in Seq(Server) /\ c.active \in Names /\ c.mode \in Modes \cup {"proxy"}
      /\ c = Config(c.active, c.servers, c.mode)
  BY ConfigFields
<1>2. d = Config(a, rest, c.mode)
  <2>1. d = [c EXCEPT !.servers = rest, !.active = a]
    BY DEF Remove
  <2> QED
    BY <2>1, ConfigExcept
<1>3. rest \in Seq(Server) /\ \E h : Collects(rest, c.servers, DOMAIN c.servers \ P, h)
  BY <1>1, WithoutKeeps
<1>4. PICK h : Collects(rest, c.servers, DOMAIN c.servers \ P, h)
  BY <1>3
<1> HIDE DEF rest
<1>5. /\ Len(rest) \in Nat /\ DOMAIN rest = 1 .. Len(rest) /\ (rest # <<>> => 1 \in DOMAIN rest)
      /\ \A i \in DOMAIN rest : rest[i] \in Server
  BY <1>3
<1>6. \A i \in DOMAIN rest :
        h[i] \in DOMAIN c.servers /\ h[i] \notin P /\ rest[i] = c.servers[h[i]]
  BY <1>4, <1>5 DEF Collects
<1>7. a \in Names
  <2>1. "" \in Names
    BY ClientConfigAssumption
  <2> QED
    BY <1>1, <1>5, <2>1 DEF Server
<1> HIDE DEF a, d
<1>8. d \in Configs /\ d.active = a /\ d.servers = rest /\ d.mode = c.mode
  BY <1>1, <1>2, <1>3, <1>7, MakeConfig
<1>9. \A i \in DOMAIN rest : rest[i].name # "" /\ ParseURI(rest[i].uri).ok
  BY <1>6, ZenonT(60) DEF Usable
<1>10. \A i, j \in DOMAIN rest : EqualFold(rest[i].name, rest[j].name) => i = j
  <2>1. \A i, j \in DOMAIN rest : h[i] = h[j] => i = j
    BY <1>4, <1>5 DEF Collects
  <2> QED
    BY <1>6, <2>1, ZenonT(60) DEF Usable
<1>11. a # "" => Positions(d, a) # {}
  <2>1. CASE EqualFold(c.active, name)
    <3>1. a # "" => a = rest[1].name /\ 1 \in DOMAIN rest
      BY <1>5, <2>1 DEF a
    <3> QED
      BY <1>8, <3>1 DEF Positions, EqualFold
  <2>2. CASE ~EqualFold(c.active, name) /\ c.active # ""
    <3>1. PICK k \in DOMAIN c.servers : EqualFold(c.servers[k].name, c.active)
      BY <2>2 DEF Usable, Positions
    <3>2. k \in DOMAIN c.servers \ P
      BY <2>2, <3>1 DEF Positions, EqualFold
    <3>3. PICK i \in DOMAIN rest : h[i] = k
      BY <1>4, <1>5, <3>2 DEF Collects
    <3> QED
      BY <1>6, <1>8, <2>2, <3>1, <3>3 DEF Positions, a
  <2> QED
    BY <2>1, <2>2 DEF a
<1>12. Usable(d)
  BY <1>8, <1>9, <1>10, <1>11 DEF Usable
<1> QED
  BY <1>8, <1>12 DEF d

\* So do SetActive, for a name that Profile finds, and SetSettings.
LEMMA ActiveUsable ==
  ASSUME NEW c \in Configs, Usable(c), NEW n \in Names, Profile(c, n)
  PROVE  [c EXCEPT !.active = n] \in Configs /\ Usable([c EXCEPT !.active = n])
<1> DEFINE d == [c EXCEPT !.active = n]
<1>1. /\ c.servers \in Seq(Server) /\ c.active \in Names /\ c.mode \in Modes \cup {"proxy"}
      /\ c = Config(c.active, c.servers, c.mode)
  BY ConfigFields
<1>2. d = Config(n, c.servers, c.mode)
  BY <1>1 DEF Config
<1> HIDE DEF d
<1>3. d \in Configs /\ d.active = n /\ d.servers = c.servers /\ d.mode = c.mode
  BY <1>1, <1>2, MakeConfig, SMTT(60)
<1>4. n # "" => Positions(d, n) # {}
  BY <1>3 DEF Profile, Positions
<1>5. Usable(d)
  BY <1>3, <1>4 DEF Usable
<1> QED
  BY <1>3, <1>5 DEF d

LEMMA SettingsUsable ==
  ASSUME NEW c \in Configs, Usable(c), NEW m \in Modes \cup {"proxy"}, m # ""
  PROVE  [c EXCEPT !.mode = m] \in Configs /\ Usable([c EXCEPT !.mode = m])
<1> DEFINE d == [c EXCEPT !.mode = m]
<1>1. /\ c.servers \in Seq(Server) /\ c.active \in Names /\ c.mode \in Modes \cup {"proxy"}
      /\ c = Config(c.active, c.servers, c.mode)
  BY ConfigFields, ZenonT(60)
<1>2. d = Config(c.active, c.servers, m)
  BY ConfigExcept
<1> HIDE DEF d
<1>3. d \in Configs /\ d.active = c.active /\ d.servers = c.servers /\ d.mode = m
  <2>1. m \in Modes \cup {"proxy"}
    OBVIOUS
  <2> QED
    BY ONLY <1>1, <1>2, <2>1, MakeConfig
<1>4. Positions(d, c.active) = Positions(c, c.active)
  BY <1>3 DEF Positions
<1>5. Usable(d)
  BY <1>3, <1>4 DEF Usable
<1> QED
  BY <1>3, <1>5 DEF d

\* What a subscription adds comes from its feed.
LEMMA EntriesOffered == \A f \in Feeds : Entries(f) \in Seq(Offered)
<1> TAKE f \in Feeds
<1>1. f.lines \in Seq(Offered)
  BY ClientConfigAssumption
<1> QED
  <2> DEFINE P == {i \in DOMAIN f.lines : f.lines[i].scheme # "arnos"}
  <2>1. Without(f.lines, P) \in Seq(Offered)
    <3> HIDE DEF P
    <3> QED
      BY <1>1, WithoutKeeps
  <2>2. <<>> \in Seq(Offered)
    OBVIOUS
  <2> QED
    BY <2>1, <2>2 DEF Entries
-----------------------------------------------------------------------------
(* The panel and the commands *)

\* The inductive invariant.
ConfigInv == TypeOK /\ AlwaysUsable /\ SaveInv

Good(c) == c \in Configs /\ Usable(c)

\* The part of it about the configurations, and the rest of the types.
GoodState ==
  /\ mem = NotRunning \/ Good(mem)
  /\ Good(cli) /\ last \in Configs
  /\ disk \in {NoFile, Empty, Garbled} \/ Good(disk)

SmallTypes ==
  /\ saving \in [{"panel", "command"} -> {"no", "truncate", "write"}]
  /\ feed \in Seq(Offered) /\ added \in Nat /\ commands \in Nat
  /\ writer \in {"panel", "command", "both"} /\ failed \in BOOLEAN

\* The marks for no configuration are none.
LEMMA Marks ==
  /\ NotRunning \notin Configs /\ NoFile \notin Configs
  /\ Empty \notin Configs /\ Garbled \notin Configs
  /\ NoFile # Empty /\ NoFile # Garbled
BY ClientConfigAssumption

LEMMA InvSplit == TypeOK /\ AlwaysUsable <=> GoodState /\ SmallTypes
<1>1. TypeOK /\ AlwaysUsable => GoodState /\ SmallTypes
  BY DEF TypeOK, AlwaysUsable, GoodState, SmallTypes, Good, IsConfig
<1>2. GoodState /\ SmallTypes => TypeOK /\ AlwaysUsable
  BY Marks DEF TypeOK, AlwaysUsable, GoodState, SmallTypes, Good, IsConfig
<1> QED
  BY <1>1, <1>2

LEMMA InvSplitPrime == GoodState' /\ SmallTypes' => TypeOK' /\ AlwaysUsable'
BY Marks DEF TypeOK, AlwaysUsable, GoodState, SmallTypes, Good, IsConfig, Usable, Positions

\* What LoadConfig returns is usable.
LEMMA LoadGood == GoodState => \A c \in Load : Good(c)
<1> SUFFICES ASSUME GoodState, NEW c \in Load PROVE Good(c)
  OBVIOUS
<1>1. CASE disk = NoFile
  BY <1>1, NoConfigUsable DEF Load, Good
<1>2. CASE disk # NoFile
  BY <1>2 DEF Load, GoodState
<1> QED
  BY <1>1, <1>2

\* Everything starts absent.
LEMMA ConfigInit == Init => ConfigInv
<1> SUFFICES ASSUME Init PROVE ConfigInv
  OBVIOUS
<1>1. GoodState
  BY NoConfigUsable DEF Init, GoodState, Good
<1>2. SmallTypes
  <2>1. <<>> \in Seq(Offered)
    OBVIOUS
  <2>2. saving \in [{"panel", "command"} -> {"no", "truncate", "write"}]
    BY DEF Init
  <2> QED
    BY <2>1, <2>2 DEF Init, SmallTypes
<1>3. SaveInv
  BY DEF Init, SaveInv, Unlocked, Load
<1> QED
  BY <1>1, <1>2, <1>3, InvSplit DEF ConfigInv

\* A handler or a command changes a usable configuration into a usable one.
LEMMA ChangesGood ==
  ASSUME NEW c, Good(c)
  PROVE  /\ \A n \in Names, u \in Offered : ParseURI(u).ok => Good(Add(c, n, u))
         /\ \A n \in Names : Good(Remove(c, n))
         /\ \A n \in Names : Profile(c, n) => Good([c EXCEPT !.active = n])
         /\ \A m \in Modes : Good([c EXCEPT !.mode = IF m = "" THEN "proxy" ELSE m])
<1>1. \A n \in Names, u \in Offered : ParseURI(u).ok => Good(Add(c, n, u))
  BY AddUsable DEF Good
<1>2. \A n \in Names : Good(Remove(c, n))
  BY RemoveUsable DEF Good
<1>3. \A n \in Names : Profile(c, n) => Good([c EXCEPT !.active = n])
  BY ActiveUsable DEF Good
<1>4. ASSUME NEW m \in Modes
      PROVE  Good([c EXCEPT !.mode = IF m = "" THEN "proxy" ELSE m])
  <2> DEFINE x == IF m = "" THEN "proxy" ELSE m
  <2>1. x \in Modes \cup {"proxy"} /\ x # ""
    OBVIOUS
  <2> HIDE DEF x
  <2>2. Good([c EXCEPT !.mode = x])
    BY <2>1, SettingsUsable DEF Good
  <2> QED
    BY <2>2 DEF x
<1> QED
  BY <1>1, <1>2, <1>3, <1>4

\* No step of any program leaves a configuration that is not usable.
LEMMA GoodStep == ConfigInv /\ [Next]_vars => GoodState'
<1> SUFFICES ASSUME ConfigInv, [Next]_vars PROVE GoodState'
  OBVIOUS
<1>1. GoodState /\ SmallTypes
  BY InvSplit DEF ConfigInv
<1>2. ASSUME NEW c, Good(c), Change(c) PROVE GoodState'
  BY <1>1, <1>2, ZenonT(60) DEF Change, GoodState, Good, Usable, Positions
<1>3. ASSUME NEW c, Good(c), Command(c) PROVE GoodState'
  BY <1>1, <1>3, ZenonT(60) DEF Command, GoodState, Good, Usable, Positions
<1>4. Unlocked => Good(mem)
  BY <1>1 DEF Unlocked, GoodState
<1>5. "" \in Names /\ Labels \subseteq Names /\ URIs \subseteq Offered
  BY ClientConfigAssumption DEF Offered
<1>6. CASE PanelStarts
  BY <1>1, <1>6, LoadGood DEF PanelStarts, GoodState
<1>7. CASE PanelEnds
  BY <1>1, <1>7 DEF PanelEnds, GoodState, Saved
<1>8. ASSUME NEW u \in URIs, AddServer(u) PROVE GoodState'
  BY <1>2, <1>4, <1>5, <1>8, ChangesGood DEF AddServer
<1>9. ASSUME NEW n \in Names, RemoveServer(n) PROVE GoodState'
  BY <1>2, <1>4, <1>9, ChangesGood DEF RemoveServer
<1>10. ASSUME NEW n \in Names, SetActive(n) PROVE GoodState'
  BY <1>2, <1>4, <1>10, ChangesGood DEF SetActive
<1>11. ASSUME NEW m \in Modes, SetSettings(m) PROVE GoodState'
  BY <1>2, <1>4, <1>11, ChangesGood DEF SetSettings
<1>12. ASSUME NEW f \in Feeds, Subscribe(f) PROVE GoodState'
  BY <1>1, <1>12 DEF Subscribe, GoodState
<1>13. CASE SubscribeAdds
  <2>1. feed \in Seq(Offered) /\ feed # <<>>
    BY <1>1, <1>13 DEF SmallTypes, SubscribeAdds
  <2>2. Head(feed) \in Offered
    BY <2>1
  <2>3. mem' = mem \/ Good(mem')
    BY <1>4, <1>5, <1>13, <2>2, ChangesGood, ZenonT(60) DEF SubscribeAdds
  <2> QED
    BY <1>1, <1>13, <2>3 DEF SubscribeAdds, GoodState
<1>14. CASE SubscribeSaves
  BY <1>1, <1>14 DEF SubscribeSaves, GoodState
<1>15. ASSUME NEW n \in Labels, NEW u \in URIs, CmdAdd(n, u) PROVE GoodState'
  BY <1>1, <1>3, <1>5, <1>15, ChangesGood, LoadGood DEF CmdAdd
<1>16. ASSUME NEW n \in Names, CmdRemove(n) PROVE GoodState'
  BY <1>1, <1>3, <1>16, ChangesGood, LoadGood DEF CmdRemove
<1>17. ASSUME NEW n \in Names, CmdUse(n) PROVE GoodState'
  BY <1>1, <1>3, <1>17, ChangesGood, LoadGood DEF CmdUse
<1>18. CASE CommandKilled
  BY <1>1, <1>18, NoConfigUsable DEF CommandKilled, GoodState, Saved, Good
<1>19. ASSUME NEW p \in {"panel", "command"}, Truncate(p) PROVE GoodState'
  BY <1>1, <1>19 DEF Truncate, GoodState
<1>20. ASSUME NEW p \in {"panel", "command"}, Write(p) PROVE GoodState'
  <2>1. Good(Content(p))
    BY <1>1, <1>20 DEF Write, Content, GoodState, ConfigInv, SaveInv
  <2>2. Good(cli') /\ mem' = mem
    BY <1>1, <1>20, NoConfigUsable DEF Write, Saved, Good, GoodState
  <2>3. last' = Content(p) /\ (disk' = Content(p) \/ disk' = Garbled)
    BY <1>20 DEF Write
  <2> QED
    BY <1>1, <2>1, <2>2, <2>3 DEF GoodState, Good
<1>21. ASSUME NEW p \in {"panel", "command"}, SaveFails(p) PROVE GoodState'
  <2>1. Good(cli') /\ mem' = mem /\ last' = last
    BY <1>1, <1>21, NoConfigUsable DEF SaveFails, Saved, Good, GoodState
  <2>2. disk' = disk \/ disk' = Garbled
    BY <1>21 DEF SaveFails
  <2> QED
    BY <1>1, <2>1, <2>2 DEF GoodState, Good
<1>22. CASE UserDeletes
  BY <1>1, <1>22, NoConfigUsable DEF UserDeletes, GoodState
<1>23. CASE UNCHANGED vars
  BY <1>1, <1>23 DEF vars, GoodState
<1> QED
  BY <1>6, <1>7, <1>8, <1>9, <1>10, <1>11, <1>12, <1>13, <1>14, <1>15, <1>16, <1>17,
     <1>18, <1>19, <1>20, <1>21, <1>22, <1>23
     DEF Next, Panel, Commands, SaveSteps

\* The other variables keep their types.
LEMMA SmallStep == ConfigInv /\ [Next]_vars => SmallTypes'
<1> SUFFICES ASSUME ConfigInv, [Next]_vars PROVE SmallTypes'
  OBVIOUS
<1>1. SmallTypes
  BY InvSplit DEF ConfigInv
<1>2. ASSUME NEW p \in {"panel", "command"}, NEW v \in {"no", "truncate", "write"},
             saving' = [saving EXCEPT ![p] = v]
      PROVE  saving' \in [{"panel", "command"} -> {"no", "truncate", "write"}]
  BY <1>1, <1>2 DEF SmallTypes
<1>3. ASSUME NEW c, Change(c) PROVE SmallTypes'
  BY <1>1, <1>2, <1>3 DEF Change, SmallTypes
<1>4. ASSUME NEW c, Command(c) PROVE SmallTypes'
  BY <1>1, <1>2, <1>4 DEF Command, SmallTypes
<1>5. CASE PanelStarts
  BY <1>1, <1>5 DEF PanelStarts, SmallTypes
<1>6. CASE PanelEnds
  <2>1. <<>> \in Seq(Offered)
    OBVIOUS
  <2> QED
    BY <1>1, <1>2, <1>6, <2>1 DEF PanelEnds, Saved, SmallTypes
<1>7. ASSUME NEW f \in Feeds, Subscribe(f) PROVE SmallTypes'
  BY <1>1, <1>7, EntriesOffered DEF Subscribe, SmallTypes
<1>8. CASE SubscribeAdds
  <2>1. /\ feed \in Seq(Offered) /\ feed # <<>> /\ feed' = Tail(feed)
        /\ added' = added + 1 \/ added' = added
        /\ UNCHANGED <<saving, writer, failed, commands>>
    BY <1>1, <1>8, Zenon DEF SmallTypes, SubscribeAdds
  <2>2. feed' \in Seq(Offered)
    BY <2>1
  <2>3. added' \in Nat
    BY <1>1, <2>1 DEF SmallTypes
  <2> QED
    BY <1>1, <2>1, <2>2, <2>3, Zenon DEF SmallTypes
<1>9. CASE SubscribeSaves
  BY <1>1, <1>2, <1>9 DEF SubscribeSaves, SmallTypes
<1>10. CASE CommandKilled
  BY <1>1, <1>2, <1>10 DEF CommandKilled, Saved, SmallTypes
<1>11. ASSUME NEW p \in {"panel", "command"}, Truncate(p) PROVE SmallTypes'
  BY <1>1, <1>2, <1>11 DEF Truncate, SmallTypes
<1>12. ASSUME NEW p \in {"panel", "command"}, Write(p) PROVE SmallTypes'
  BY <1>1, <1>2, <1>12 DEF Write, Saved, SmallTypes
<1>13. ASSUME NEW p \in {"panel", "command"}, SaveFails(p) PROVE SmallTypes'
  BY <1>1, <1>2, <1>13 DEF SaveFails, Saved, SmallTypes
<1>14. CASE UserDeletes
  BY <1>1, <1>14 DEF UserDeletes, SmallTypes
<1>15. CASE UNCHANGED vars
  BY <1>1, <1>15 DEF vars, SmallTypes
<1> QED
  BY <1>3, <1>4, <1>5, <1>6, <1>7, <1>8, <1>9, <1>10, <1>11, <1>12, <1>13, <1>14, <1>15
     DEF Next, Panel, Commands, SaveSteps, AddServer, RemoveServer, SetActive, SetSettings,
         CmdAdd, CmdRemove, CmdUse

\* What Save relies on: no program takes a file that another has half written
\* for a configuration, and the panel's own saves are not mixed up.
LEMMA SaveStep == ConfigInv /\ [Next]_vars => SaveInv'
<1> SUFFICES ASSUME ConfigInv, [Next]_vars PROVE SaveInv'
  OBVIOUS
<1>1. GoodState /\ SmallTypes /\ SaveInv
  BY InvSplit DEF ConfigInv
<1>2. ASSUME NEW c, Good(c), Change(c) PROVE SaveInv'
  BY <1>1, <1>2, Marks DEF Change, SaveInv, SmallTypes, Unlocked, Load, Good
<1>3. ASSUME NEW c, Command(c) PROVE SaveInv'
  BY <1>1, <1>3 DEF Command, SaveInv, SmallTypes, Unlocked, Load
<1>4. Unlocked => Good(mem)
  BY <1>1 DEF Unlocked, GoodState
<1>5. "" \in Names /\ Labels \subseteq Names /\ URIs \subseteq Offered
  BY ClientConfigAssumption DEF Offered
<1>6. CASE PanelStarts
  BY <1>1, <1>6, LoadGood DEF PanelStarts, SaveInv, Unlocked, Load
<1>7. CASE PanelEnds
  BY <1>1, <1>7 DEF PanelEnds, SaveInv, SmallTypes, Unlocked, Load, Saved
<1>8. ASSUME NEW u \in URIs, AddServer(u) PROVE SaveInv'
  BY <1>2, <1>4, <1>5, <1>8, ChangesGood DEF AddServer
<1>9. ASSUME NEW n \in Names, RemoveServer(n) PROVE SaveInv'
  BY <1>2, <1>4, <1>9, ChangesGood DEF RemoveServer
<1>10. ASSUME NEW n \in Names, SetActive(n) PROVE SaveInv'
  BY <1>2, <1>4, <1>10, ChangesGood DEF SetActive
<1>11. ASSUME NEW m \in Modes, SetSettings(m) PROVE SaveInv'
  BY <1>2, <1>4, <1>11, ChangesGood DEF SetSettings
<1>12. ASSUME NEW f \in Feeds, Subscribe(f) PROVE SaveInv'
  BY <1>1, <1>12 DEF Subscribe, SaveInv, Unlocked, Load
<1>13. CASE SubscribeAdds
  <2>1. feed \in Seq(Offered) /\ feed # <<>>
    BY <1>1, <1>13 DEF SmallTypes, SubscribeAdds
  <2>2. Head(feed) \in Offered
    BY <2>1
  <2>3. Good(mem') /\ ((added' = added /\ mem' = mem) \/ added' = added + 1)
    BY <1>4, <1>5, <1>13, <2>2, ChangesGood, ZenonT(60) DEF SubscribeAdds
  <2>4. mem' # NotRunning /\ (added' = 0 => added = 0 /\ mem' = mem)
    BY <1>1, <2>3, Marks DEF SmallTypes, Good
  <2> QED
    BY <1>1, <1>13, <2>4 DEF SubscribeAdds, SaveInv, Unlocked, Load
<1>14. CASE SubscribeSaves
  BY <1>1, <1>14 DEF SubscribeSaves, SaveInv, SmallTypes, Unlocked, Load
<1>15. CASE CommandKilled
  BY <1>1, <1>15 DEF CommandKilled, SaveInv, SmallTypes, Unlocked, Load, Saved
<1>16. ASSUME NEW p \in {"panel", "command"}, Truncate(p) PROVE SaveInv'
  BY <1>1, <1>16, Marks DEF Truncate, SaveInv, SmallTypes, Unlocked, Load
<1>17. ASSUME NEW p \in {"panel", "command"}, Write(p) PROVE SaveInv'
  BY <1>1, <1>17, Marks DEF Write, Saved, SaveInv, SmallTypes, Unlocked, Load, Content,
     GoodState, Good
<1>18. ASSUME NEW p \in {"panel", "command"}, SaveFails(p) PROVE SaveInv'
  BY <1>1, <1>18, Marks DEF SaveFails, Saved, SaveInv, SmallTypes, Unlocked, Load
<1>19. CASE UserDeletes
  BY <1>1, <1>19, Marks DEF UserDeletes, SaveInv, Unlocked, Load
<1>20. CASE UNCHANGED vars
  BY <1>1, <1>20 DEF vars, SaveInv, Unlocked, Load
<1> QED
  BY <1>3, <1>6, <1>7, <1>8, <1>9, <1>10, <1>11, <1>12, <1>13, <1>14, <1>15, <1>16, <1>17,
     <1>18, <1>19, <1>20
     DEF Next, Panel, Commands, SaveSteps, CmdAdd, CmdRemove, CmdUse

\* Every state satisfies the invariant.
THEOREM ConfigInvHolds == Spec => []ConfigInv
<1>1. ConfigInv /\ [Next]_vars => ConfigInv'
  BY GoodStep, SmallStep, SaveStep, InvSplitPrime DEF ConfigInv
<1> QED
  BY <1>1, ConfigInit, PTL DEF Spec

\* Whatever names, URIs and feeds there are, however many programs load, change
\* and save the file and wherever they are interrupted, each configuration in
\* memory or on disk is one that Connect and the panel can work with.
THEOREM EveryConfigUsable == Spec => []AlwaysUsable
BY ConfigInvHolds, PTL DEF ConfigInv

\* Between its requests the panel's file holds what the panel shows, unless its
\* last save returned an error or another program has written the file.
THEOREM PanelIsSaved == Spec => []MemoryIsSaved
<1>1. ConfigInv => MemoryIsSaved
  BY DEF ConfigInv, SaveInv, MemoryIsSaved
<1> QED
  BY <1>1, ConfigInvHolds, PTL

\* A panel that starts has the configuration that was saved last, or none: a
\* save that was cut off leaves a file that LoadConfig refuses.
THEOREM NothingLostSilently == Spec => StartsFromLastSave
<1>1. ConfigInv /\ [Next]_vars
        => [mem = NotRunning /\ mem' # NotRunning => mem' = last]_vars
  <2> SUFFICES ASSUME ConfigInv, Next, mem = NotRunning, mem' # NotRunning
               PROVE  mem' = last
    OBVIOUS
  <2>1. PanelStarts
    BY DEF Next, Panel, Commands, SaveSteps, PanelEnds, AddServer, RemoveServer, SetActive,
       SetSettings, Subscribe, SubscribeAdds, SubscribeSaves, Unlocked, Command, CmdAdd,
       CmdRemove, CmdUse, CommandKilled, Truncate, Write, SaveFails, UserDeletes
  <2> QED
    BY <2>1 DEF PanelStarts, ConfigInv, SaveInv
<1> QED
  BY <1>1, ConfigInvHolds, PTL DEF Spec, StartsFromLastSave
=============================================================================
