------------------------ MODULE AndroidServiceProofs ------------------------
(***************************************************************************)
(* The Android service: a frame on a socket is sealed by the session of    *)
(* that socket, and, unless a callback comes late, a stop is complete and  *)
(* a link is served.                                                       *)
(***************************************************************************)
EXTENDS AndroidService, TLAPS

\* A link is a socket with its own session.
LEMMA LinkPairs ==
  ASSUME NEW l \in Links
  PROVE  l.session = l.ws /\ (l # NoLink => l.ws \in Sockets)
<1>1. CASE l = NoLink
  BY <1>1 DEF NoLink
<1>2. CASE l # NoLink
  <2>1. PICK s \in Sockets : l = [session |-> s, ws |-> s]
    BY <1>2 DEF Links
  <2> QED BY <2>1
<1> QED BY <1>1, <1>2

\* An uplink thread that has ended.
LEMMA UplinkEnds == EndedUplink \in UplinkStates /\ EndedUplink.pc = "end"
BY DEF EndedUplink, UplinkStates, Links

\* A step of an uplink thread, as the rest of the service sees it.
UplinkMoves(d) ==
  /\ UNCHANGED <<fields, system, sock, cb, new, open, starts, stops, drops, stopGen, late>>
  /\ \E l \in {"test", "read", "seal", "send", "end"} :
       /\ up[d].pc # "none"
       /\ l = "end" => ~(running /\ up[d].gen = uplinkGen) \/ d \notin open
       /\ up'[d].pc = l /\ (l # "end" => up'[d].gen = up[d].gen)
  /\ \A e \in Devices : e # d => up'[e] = up[e]

\* The links and the frames have their types: bounds on what uplink threads do.
LEMMA UplinkTypes ==
  ASSUME TypeOK, NEW d \in Devices, Uplink(d)
  PROVE  TypeOK' /\ UplinkMoves(d)
<1>a. up \in [Devices -> UplinkStates] /\ up[d] \in UplinkStates
  BY DEF TypeOK
<1>0. SUFFICES up' \in [Devices -> UplinkStates] /\ sealed' \in [Sockets -> Nat] /\ UplinkMoves(d)
  BY DEF TypeOK, UplinkMoves, fields, system
<1>1. CASE UplinkTests(d)
  <2>1. \/ up' = [up EXCEPT ![d] = [@ EXCEPT !.pc = "read"]]
        \/ up' = [up EXCEPT ![d] = EndedUplink] /\ ~(running /\ up[d].gen = uplinkGen)
    BY <1>1, ZenonT(60) DEF UplinkTests
  <2>2. PICK l \in {"read", "end"} :
          /\ up' \in [Devices -> UplinkStates] /\ up'[d].pc = l
          /\ l # "end" => up'[d].gen = up[d].gen
          /\ l = "end" => ~(running /\ up[d].gen = uplinkGen)
          /\ \A e \in Devices : e # d => up'[e] = up[e]
    BY <1>a, <2>1, UplinkEnds DEF UplinkStates
  <2>3. sealed' \in [Sockets -> Nat]
    BY <1>1 DEF UplinkTests, TypeOK
  <2> QED BY <1>1, <2>2, <2>3 DEF UplinkTests, UplinkMoves, counts
<1>2. CASE UplinkReads(d)
  <2>1. \/ \E l \in {"seal", "test"} : up' = [up EXCEPT ![d].pc = l]
        \/ up' = [up EXCEPT ![d] = EndedUplink] /\ d \notin open
    BY <1>2, ZenonT(60) DEF UplinkReads
  <2>2. PICK l \in {"seal", "test", "end"} :
          /\ up' \in [Devices -> UplinkStates] /\ up'[d].pc = l
          /\ l # "end" => up'[d].gen = up[d].gen
          /\ l = "end" => d \notin open
          /\ \A e \in Devices : e # d => up'[e] = up[e]
    BY <1>a, <2>1, UplinkEnds DEF UplinkStates
  <2>3. sealed' \in [Sockets -> Nat]
    BY <1>2 DEF UplinkReads, TypeOK
  <2> QED BY <1>2, <2>2, <2>3 DEF UplinkReads, UplinkMoves
<1>3. CASE UplinkSeals(d)
  <2>1. CASE link = NoLink
    <3>1. up' = [up EXCEPT ![d].pc = "test"] /\ sealed' = sealed
      BY <1>3, <2>1 DEF UplinkSeals
    <3>2. up' \in [Devices -> UplinkStates] /\ up'[d].pc = "test" /\ up'[d].gen = up[d].gen
          /\ \A e \in Devices : e # d => up'[e] = up[e]
      BY <1>a, <3>1 DEF UplinkStates
    <3> QED BY <1>3, <3>1, <3>2 DEF UplinkSeals, UplinkMoves, counts, TypeOK
  <2>2. CASE link # NoLink
    <3>1. link \in Links /\ link.session \in Sockets
      BY <2>2, LinkPairs DEF TypeOK
    <3>2. sealed' = [sealed EXCEPT ![link.session] = @ + 1] /\ sealed \in [Sockets -> Nat]
      BY <1>3, <2>2, <3>1 DEF UplinkSeals, TypeOK
    <3>3. up' = [up EXCEPT ![d].pc = "send", ![d].link = link, ![d].ctr = sealed[link.session]]
      BY <1>3, <2>2 DEF UplinkSeals
    <3>4. up' \in [Devices -> UplinkStates] /\ up'[d].pc = "send" /\ up'[d].gen = up[d].gen
          /\ \A e \in Devices : e # d => up'[e] = up[e]
      BY <1>a, <3>1, <3>2, <3>3, ZenonT(60) DEF UplinkStates
    <3>5. sealed' \in [Sockets -> Nat]
      BY <3>1, <3>2
    <3> QED BY <1>3, <3>4, <3>5 DEF UplinkSeals, UplinkMoves, counts
  <2> QED BY <2>1, <2>2
<1>4. CASE UplinkSends(d)
  <2>1. up' = [up EXCEPT ![d].pc = "test", ![d].link = NoLink, ![d].ctr = 0]
    BY <1>4 DEF UplinkSends
  <2>2. NoLink \in Links
    BY DEF Links
  <2>3. up' \in [Devices -> UplinkStates] /\ up'[d].pc = "test" /\ up'[d].gen = up[d].gen
        /\ \A e \in Devices : e # d => up'[e] = up[e]
    BY <1>a, <2>1, <2>2, ZenonT(60) DEF UplinkStates
  <2> QED BY <1>4, <2>3, ZenonT(60) DEF UplinkSends, UplinkMoves, counts, TypeOK
<1> QED BY <1>1, <1>2, <1>3, <1>4 DEF Uplink

\* The uplink thread of a device that is taken into use.
LEMMA FreshUplink ==
  ASSUME NEW n \in Nat
  PROVE  [gen |-> n, pc |-> "test", link |-> NoLink, ctr |-> 0] \in UplinkStates
<1>1. NoLink \in Links
  BY ZenonT(60) DEF Links
<1> QED BY <1>1 DEF UplinkStates

\* Every step keeps the types.
LEMMA TypeStep == TypeOK /\ [Next]_vars => TypeOK'
<1> SUFFICES ASSUME TypeOK, [Next]_vars PROVE TypeOK'
  OBVIOUS
<1> DEFINE SockStates == {"none", "dialling", "mute", "hello", "welcomed", "closing",
                          "dropped", "gone"}
           Clears == sock' \in [Sockets -> SockStates] /\ link' \in Links /\ uplinkGen' \in Nat
<1> USE DEF TypeOK, fields, system, uplink, counts
<1>c. Cleared => Clears
  <2> SUFFICES ASSUME Cleared PROVE Clears
    OBVIOUS
  <2>1. sock' \in [Sockets -> SockStates]
    <3>1. sock' = sock \/ sock' = [sock EXCEPT ![link.ws] = "closing"]
      BY DEF Cleared
    <3> QED BY <3>1
  <2>2. link' \in Links
    BY DEF Cleared, Links
  <2>3. uplinkGen' \in Nat
    BY DEF Cleared
  <2> QED BY <2>1, <2>2, <2>3
<1>1. CASE MainStops
  BY <1>1, ZenonT(60) DEF MainStops, Swapped, Noted
<1>2. CASE MainClears
  <2>1. main' \in {"finish", "finishLast"}
    BY <1>2 DEF MainClears
  <2>2. Clears
    BY <1>2, <1>c DEF MainClears
  <2> QED BY <1>2, <2>1, <2>2, ZenonT(60) DEF MainClears
<1>3. CASE MainFinishes
  BY <1>3 DEF MainFinishes, Finished
<1>4. CASE Started
  BY <1>4 DEF Started
<1>5. CASE Destroy
  BY <1>5 DEF Destroy
<1>6. CASE CtlTests
  BY <1>6 DEF CtlTests
<1>7. CASE CtlOpens
  <2>1. sock' \in [Sockets -> SockStates]
    BY <1>7, ZenonT(60) DEF CtlOpens
  <2>2. connGen' \in Nat
    BY <1>7 DEF CtlOpens
  <2> QED BY <1>7, <2>1, <2>2, ZenonT(60) DEF CtlOpens
<1>8. CASE StopCommand
  BY <1>8 DEF StopCommand
<1>9. CASE StartCommand
  BY <1>9 DEF StartCommand, Noted
<1>10. CASE StartWithoutProfile
  BY <1>10 DEF StartWithoutProfile
<1>11. ASSUME NEW s \in Sockets, OnOpen(s) PROVE TypeOK'
  BY <1>11 DEF OnOpen
<1>12. ASSUME NEW s \in Sockets, OnWelcome(s) PROVE TypeOK'
  <2>1. cb' \in [Sockets -> {"idle", "assign", "link", "announce", "retry", "stop", "clear",
                           "finish"}]
    BY <1>12 DEF OnWelcome, Goto
  <2>2. sock' \in [Sockets -> SockStates]
    BY <1>12 DEF OnWelcome
  <2>3. new' \in [Sockets -> Devices \cup {None}]
    <3>1. new' = new \/ \E d \in Devices : new' = [new EXCEPT ![s] = d]
      BY <1>12, ZenonT(60) DEF OnWelcome
    <3> QED BY <3>1, ZenonT(60)
  <2>4. late' \in BOOLEAN
    BY <1>12, ZenonT(60) DEF OnWelcome, TookEffect, Noted
  <2>5. stopGen' \in Nat
    BY <1>12 DEF OnWelcome, TookEffect, Noted
  <2> QED BY <1>12, <2>1, <2>2, <2>3, <2>4, <2>5, ZenonT(60) DEF OnWelcome
<1>13. ASSUME NEW s \in Sockets, OnRefusal(s) PROVE TypeOK'
  BY <1>13 DEF OnRefusal, TookEffect, Noted, Goto
<1>14. ASSUME NEW s \in Sockets, AssignTun(s) PROVE TypeOK'
  <2> DEFINE r == [gen |-> uplinkGen + 1, pc |-> "test", link |-> NoLink, ctr |-> 0]
  <2>1. uplinkGen + 1 \in Nat
    OBVIOUS
  <2>2. r \in UplinkStates
    BY ONLY <2>1, FreshUplink
  <2>3. up' = [up EXCEPT ![new[s]] = r] /\ up \in [Devices -> UplinkStates]
    BY <1>14 DEF AssignTun
  <2>4. up' \in [Devices -> UplinkStates]
    BY <2>2, <2>3, ZenonT(60)
  <2>6. new' \in [Sockets -> Devices \cup {None}] /\ uplinkGen' \in Nat
        /\ cb' \in [Sockets -> {"idle", "assign", "link", "announce", "retry", "stop", "clear",
                           "finish"}]
    BY <1>14 DEF AssignTun, Goto
  <2> QED BY <1>14, <2>4, <2>6, ZenonT(60) DEF AssignTun
<1>15. ASSUME NEW s \in Sockets, SetLink(s) PROVE TypeOK'
  BY <1>15 DEF SetLink, Goto, Links
<1>16. ASSUME NEW s \in Sockets, OnDropped(s) PROVE TypeOK'
  BY <1>16 DEF OnDropped, TookEffect, Noted, Goto
<1>17. ASSUME NEW s \in Sockets, ScheduleReconnect(s) PROVE TypeOK'
  BY <1>17, ZenonT(60) DEF ScheduleReconnect, TookEffect, Noted, Goto, Links
<1>18. ASSUME NEW s \in Sockets, SocketStops(s) PROVE TypeOK'
  BY <1>18, ZenonT(60) DEF SocketStops, Swapped, Noted, Goto
<1>19. ASSUME NEW s \in Sockets, SocketClears(s) PROVE TypeOK'
  <2>1. cb' \in [Sockets -> {"idle", "assign", "link", "announce", "retry", "stop", "clear",
                           "finish"}]
    BY <1>19 DEF SocketClears, Goto
  <2>2. Clears
    BY <1>19, <1>c DEF SocketClears
  <2> QED BY <1>19, <2>1, <2>2, ZenonT(60) DEF SocketClears
<1>20. ASSUME NEW s \in Sockets, SocketFinishes(s) PROVE TypeOK'
  BY <1>20, ZenonT(60) DEF SocketFinishes, Finished, Goto
<1>21. ASSUME NEW s \in Sockets, Drop(s) PROVE TypeOK'
  BY <1>21 DEF Drop
<1>22. ASSUME NEW d \in Devices, Uplink(d) PROVE TypeOK'
  BY <1>22, UplinkTypes
<1>23. CASE UNCHANGED vars
  BY <1>23 DEF vars
<1>24. ASSUME NEW s \in Sockets, Announce(s) PROVE TypeOK'
  BY <1>24, ZenonT(60) DEF Announce, Goto
<1> QED BY <1>1, <1>2, <1>3, <1>4, <1>5, <1>6, <1>7, <1>8, <1>9, <1>10, <1>11, <1>12,
      <1>13, <1>14, <1>15, <1>16, <1>17, <1>18, <1>19, <1>20, <1>21, <1>22, <1>23, <1>24,
      ZenonT(60) DEF Next, Main, Ctl, Callback

\* The types hold throughout.
LEMMA TypeInvariant == Spec => []TypeOK
<1>1. Init => TypeOK
  <2> SUFFICES ASSUME Init PROVE TypeOK
    OBVIOUS
  <2> USE DEF Init
  <2>1. NoLink \in Links
    BY ZenonT(60) DEF Links
  <2>2. IdleUplink \in UplinkStates
    BY <2>1 DEF IdleUplink, UplinkStates
  <2>4. new \in [Sockets -> Devices \cup {None}] /\ up \in [Devices -> UplinkStates]
    BY <2>2, ZenonT(60)
  <2>5. connGen \in Nat /\ stopGen \in Nat /\ uplinkGen \in Nat /\ sealed \in [Sockets -> Nat]
    OBVIOUS
  <2> QED BY <2>1, <2>4, <2>5, ZenonT(60) DEF TypeOK
<1> QED BY <1>1, TypeStep, PTL DEF Spec

\* A session with the counter of a frame.
Frames == Sockets \X Nat

\* Only UplinkSends writes frames.
LEMMA OnlyUplinkSends == [Next]_vars => sent' = sent \/ \E d \in Devices : UplinkSends(d)
<1> SUFFICES ASSUME [Next]_vars PROVE sent' = sent \/ \E d \in Devices : UplinkSends(d)
  BY ZenonT(60)
<1>1. CASE Main
  BY <1>1, ZenonT(60) DEF Main, MainStops, MainClears, MainFinishes, Started, Destroy, uplink
<1>2. CASE Ctl \/ StopCommand \/ StartCommand \/ StartWithoutProfile
  BY <1>2, ZenonT(60) DEF Ctl, CtlTests, CtlOpens, StopCommand, StartCommand, StartWithoutProfile, uplink
<1>3. ASSUME NEW s \in Sockets, Callback(s) \/ Drop(s) PROVE sent' = sent
  BY <1>3, ZenonT(60) DEF Callback, OnOpen, OnWelcome, OnRefusal, AssignTun, SetLink, Announce, OnDropped,
     ScheduleReconnect, SocketStops, SocketClears, SocketFinishes, Drop, uplink
<1>4. ASSUME NEW d \in Devices, Uplink(d) PROVE sent' = sent \/ UplinkSends(d)
  BY <1>4 DEF Uplink, EndedUplink, UplinkTests, UplinkReads, UplinkSeals
<1>5. CASE UNCHANGED vars
  BY <1>5 DEF vars, uplink
<1> QED BY <1>1, <1>2, <1>3, <1>4, <1>5 DEF Next

\* "Link bundles the AEAD session with its socket so uplink never mixes a new
\* socket with an old session": however often the connection is replaced between
\* the sealing and the sending of a packet, every frame on a socket was sealed by
\* the session of that socket.
THEOREM FramesKeepToSockets == Spec => []SessionsKeepToSockets
<1> DEFINE Inv == sent \in [Sockets -> Seq(Frames)] /\ SessionsKeepToSockets
<1>1. Init => Inv
  BY DEF Init, SessionsKeepToSockets
<1>2. TypeOK /\ Inv /\ [Next]_vars => Inv'
  <2> SUFFICES ASSUME TypeOK, Inv, NEW d \in Devices, UplinkSends(d) PROVE Inv'
    <3>1. CASE sent' = sent
      BY <3>1, ZenonT(60) DEF SessionsKeepToSockets
    <3> QED BY <3>1, OnlyUplinkSends, ZenonT(60)
  <2> DEFINE l == up[d].link
  <2>1. l \in Links /\ up[d].ctr \in Nat
    BY ZenonT(60) DEF TypeOK, UplinkStates
  <2>2. l.session = l.ws /\ (l # NoLink => l.ws \in Sockets)
    BY <2>1, LinkPairs, ZenonT(60)
  <2>3. sent' = sent \/ sent' = [sent EXCEPT ![l.ws] = Append(@, <<l.session, up[d].ctr>>)]
    BY ZenonT(60) DEF UplinkSends
  <2>4. CASE l.ws \notin Sockets
    BY <2>3, <2>4, ZenonT(60) DEF SessionsKeepToSockets
  <2>5. CASE l.ws \in Sockets
    <3> DEFINE f == <<l.session, up[d].ctr>>
    <3>1. f \in Frames /\ f[1] = l.ws
      BY <2>1, <2>2, <2>5 DEF Frames
    <3> HIDE DEF f, l
    <3>2. sent' = sent \/ sent' = [sent EXCEPT ![l.ws] = Append(@, f)]
      BY <2>3 DEF f
    <3>3. sent' \in [Sockets -> Seq(Frames)]
      <4>1. sent[l.ws] \in Seq(Frames)
        BY <2>5
      <4>2. Append(sent[l.ws], f) \in Seq(Frames)
        BY <4>1, <3>1
      <4> QED BY <3>2, <4>2, ZenonT(60)
    <3>4. ASSUME NEW s \in Sockets, NEW i \in DOMAIN sent'[s] PROVE sent'[s][i][1] = s
      <4>1. CASE sent'[s] = sent[s]
        BY <4>1, <3>4 DEF SessionsKeepToSockets
      <4>2. CASE sent'[s] # sent[s]
        <5>1. s = l.ws /\ sent'[s] = Append(sent[s], f)
          BY <3>2, <4>2, <2>5
        <5>2. sent[s] \in Seq(Frames) /\ i \in 1 .. Len(sent[s]) + 1
          BY <5>1, <3>4
        <5>3. CASE i \in 1 .. Len(sent[s])
          BY <5>1, <5>2, <5>3 DEF SessionsKeepToSockets
        <5>4. CASE i = Len(sent[s]) + 1
          BY <5>1, <5>2, <5>4, <3>1
        <5> QED BY <5>2, <5>3, <5>4
      <4> QED BY <4>1, <4>2
    <3> QED BY <3>3, <3>4, ZenonT(60) DEF SessionsKeepToSockets
  <2> QED BY <2>4, <2>5, ZenonT(60)
<1>3. Inv => SessionsKeepToSockets
  BY ZenonT(60)
<1> QED BY <1>1, <1>2, <1>3, TypeInvariant, PTL DEF Spec

\* The stop that is remembered was no later than the last connection.
LEMMA HistoryKept ==
  ASSUME TypeOK, Numbered, NEW l, Noted(l, stopGen)
  PROVE  stopGen' <= connGen
BY DEF TypeOK, Numbered, Noted

\* Every step keeps the numbering of the sockets.
LEMMA NumberedStep == TypeOK /\ Numbered /\ [Next]_vars => Numbered'
<1> SUFFICES ASSUME TypeOK, Numbered, [Next]_vars PROVE Numbered'
  OBVIOUS
<1> USE DEF TypeOK, Numbered, fields, system, uplink, counts
<1>1. CASE MainStops
  BY <1>1, SMTT(60) DEF MainStops, Swapped, Noted
<1>2. CASE MainClears
  BY <1>2 DEF MainClears, Cleared
<1>3. CASE MainFinishes
  BY <1>3, ZenonT(60) DEF MainFinishes, Finished
<1>4. CASE Started
  BY <1>4 DEF Started
<1>5. CASE Destroy
  BY <1>5, ZenonT(60) DEF Destroy
<1>6. CASE CtlTests
  BY <1>6 DEF CtlTests
<1>7. CASE CtlOpens
  <2>1. connGen' = connGen + 1 /\ stopGen' = stopGen /\ cb' = cb
    BY <1>7, ZenonT(60) DEF CtlOpens
  <2>2. \A s \in Sockets : s # connGen + 1 => sock'[s] = sock[s]
    BY <1>7, <2>1, ZenonT(60) DEF CtlOpens
  <2> QED BY <2>1, <2>2, SMTT(60) DEF Sockets
<1>8. CASE StopCommand
  BY <1>8 DEF StopCommand
<1>9. CASE StartCommand
  BY <1>9, HistoryKept, ZenonT(60) DEF StartCommand
<1>10. CASE StartWithoutProfile
  BY <1>10 DEF StartWithoutProfile
<1>11. ASSUME NEW s \in Sockets, OnOpen(s) PROVE Numbered'
  BY <1>11, ZenonT(60) DEF OnOpen
<1>12. ASSUME NEW s \in Sockets, OnWelcome(s) PROVE Numbered'
  BY <1>12, HistoryKept, SMTT(60) DEF OnWelcome, TookEffect, Goto
<1>13. ASSUME NEW s \in Sockets, OnRefusal(s) PROVE Numbered'
  BY <1>13, HistoryKept, ZenonT(60) DEF OnRefusal, TookEffect, Goto
<1>14. ASSUME NEW s \in Sockets, AssignTun(s) PROVE Numbered'
  BY <1>14, ZenonT(60) DEF AssignTun, Goto
<1>15. ASSUME NEW s \in Sockets, SetLink(s) PROVE Numbered'
  BY <1>15, ZenonT(60) DEF SetLink, Goto
<1>16. ASSUME NEW s \in Sockets, OnDropped(s) PROVE Numbered'
  BY <1>16, HistoryKept, ZenonT(60) DEF OnDropped, TookEffect, Goto
<1>17. ASSUME NEW s \in Sockets, ScheduleReconnect(s) PROVE Numbered'
  BY <1>17, HistoryKept, ZenonT(60) DEF ScheduleReconnect, TookEffect, Goto
<1>18. ASSUME NEW s \in Sockets, SocketStops(s) PROVE Numbered'
  BY <1>18, SMTT(60) DEF SocketStops, Swapped, Noted, Goto
<1>19. ASSUME NEW s \in Sockets, SocketClears(s) PROVE Numbered'
  BY <1>19, ZenonT(60) DEF SocketClears, Cleared, Goto
<1>20. ASSUME NEW s \in Sockets, SocketFinishes(s) PROVE Numbered'
  BY <1>20, ZenonT(60) DEF SocketFinishes, Finished, Goto
<1>21. ASSUME NEW s \in Sockets, Drop(s) PROVE Numbered'
  BY <1>21, ZenonT(60) DEF Drop
<1>22. ASSUME NEW d \in Devices, Uplink(d) PROVE Numbered'
  BY <1>22, UplinkTypes, ZenonT(60) DEF UplinkMoves
<1>23. CASE UNCHANGED vars
  BY <1>23, ZenonT(60) DEF vars
<1>24. ASSUME NEW s \in Sockets, Announce(s) PROVE Numbered'
  BY <1>24, ZenonT(60) DEF Announce, Goto
<1> QED BY <1>1, <1>2, <1>3, <1>4, <1>5, <1>6, <1>7, <1>8, <1>9, <1>10, <1>11, <1>12,
      <1>13, <1>14, <1>15, <1>16, <1>17, <1>18, <1>19, <1>20, <1>21, <1>22, <1>23, <1>24,
      ZenonT(60) DEF Next, Main, Ctl, Callback

\* The steps of a callback: only its own position changes.
LEMMA CallbackMoves ==
  ASSUME TypeOK, NEW s \in Sockets, NEW v, Goto(s, v)
  PROVE  cb'[s] = v /\ \A t \in Sockets : t # s => cb'[t] = cb[t]
<1>1. cb' = [cb EXCEPT ![s] = v] /\ DOMAIN cb = Sockets
  BY DEF TypeOK, Goto
<1> QED BY <1>1

\* A step that opens no device, that starts no uplink and that does not move a
\* callback to or from "assign" keeps track of the devices.
LEMMA DevicesKept ==
  ASSUME DevicesKnown, new' = new,
         (tun' = tun /\ open' = open) \/ (tun' = None /\ open' = open \ {tun}),
         \A d \in Devices : up'[d].pc = "none" <=> up[d].pc = "none",
         \A t \in Sockets : cb'[t] = "assign" <=> cb[t] = "assign"
  PROVE  DevicesKnown'
<1>1. tun' = None \/ (tun' \in Devices /\ up'[tun'].pc # "none")
  BY DEF DevicesKnown
<1>2. ASSUME NEW t \in Sockets
      PROVE  IF cb'[t] = "assign"
             THEN new'[t] \in open' \cap Devices /\ up'[new'[t]].pc = "none"
             ELSE new'[t] = None
  <2>1. CASE cb[t] = "assign"
    <3>1. new[t] \in open \cap Devices /\ up[new[t]].pc = "none"
      BY <2>1 DEF DevicesKnown
    <3>2. new[t] # tun
      BY <3>1, NoneAssumption DEF DevicesKnown, Devices
    <3> QED BY <2>1, <3>1, <3>2
  <2>2. CASE cb[t] # "assign"
    BY <2>2 DEF DevicesKnown
  <2> QED BY <2>1, <2>2
<1>3. ASSUME NEW s \in Sockets, NEW t \in Sockets, cb'[s] = "assign", new'[t] = new'[s]
      PROVE  s = t
  BY <1>3 DEF DevicesKnown
<1>4. open' \subseteq Devices
  BY DEF DevicesKnown
<1>5. ASSUME NEW d \in open'
      PROVE  d = tun' \/ \E t \in Sockets : cb'[t] = "assign" /\ new'[t] = d
  BY <1>5 DEF DevicesKnown
<1> QED BY <1>1, <1>2, <1>3, <1>4, <1>5 DEF DevicesKnown

\* The device a welcome has opened is not the one in use, and gets its uplink.
LEMMA DeviceAssigned ==
  ASSUME TypeOK, DevicesKnown, NEW s \in Sockets, AssignTun(s)
  PROVE  LET nd == new[s] IN
           /\ nd \in open \cap Devices /\ up[nd].pc = "none" /\ nd # tun /\ nd # None
           /\ up'[nd].pc = "test" /\ up'[nd].gen = uplinkGen'
           /\ \A d \in Devices : d # nd => up'[d] = up[d]
<1> DEFINE nd == new[s]
           r == [gen |-> uplinkGen', pc |-> "test", link |-> NoLink, ctr |-> 0]
<1>1. nd \in open \cap Devices /\ up[nd].pc = "none"
  BY DEF AssignTun, DevicesKnown
<1>2. nd # tun /\ nd # None
  BY <1>1, NoneAssumption DEF DevicesKnown, Devices
<1>3. up' = [up EXCEPT ![nd] = r] /\ DOMAIN up = Devices
  BY DEF AssignTun, TypeOK
<1>4. r.pc = "test" /\ r.gen = uplinkGen'
  OBVIOUS
<1> HIDE DEF r
<1>5. up'[nd] = r /\ \A d \in Devices : d # nd => up'[d] = up[d]
  BY <1>1, <1>3
<1> QED BY <1>1, <1>2, <1>4, <1>5

\* Every step keeps track of the devices.
LEMMA DevicesStep == TypeOK /\ DevicesKnown /\ [Next]_vars => DevicesKnown'
<1> SUFFICES ASSUME TypeOK, DevicesKnown, [Next]_vars PROVE DevicesKnown'
  OBVIOUS
<1>a. ASSUME UNCHANGED <<tun, open, new, up, cb>> PROVE DevicesKnown'
  BY <1>a, DevicesKept
<1>b. ASSUME NEW s \in Sockets, NEW v, cb[s] # "assign", v # "assign", Goto(s, v),
             UNCHANGED <<new, up>>,
             UNCHANGED <<tun, open>> \/ (tun' = None /\ open' = open \ {tun})
      PROVE  DevicesKnown'
  <2>1. \A t \in Sockets : cb'[t] = "assign" <=> cb[t] = "assign"
    BY <1>b, CallbackMoves
  <2> QED BY <1>b, <2>1, DevicesKept
<1> USE DEF fields, system, uplink
<1>1. CASE Main
  <2>1. CASE MainClears
    <3>1. open' = open \ {tun} /\ tun' = None /\ UNCHANGED <<cb, new, up>>
      BY <2>1 DEF MainClears, Cleared
    <3> QED BY <3>1, DevicesKept
  <2> QED BY <1>1, <2>1, <1>a, ZenonT(60) DEF Main, MainStops, MainFinishes, Started, Destroy
<1>2. CASE Ctl \/ StopCommand \/ StartCommand \/ StartWithoutProfile
  BY <1>2, <1>a, ZenonT(60) DEF Ctl, CtlTests, CtlOpens, StopCommand, StartCommand, StartWithoutProfile
<1>3. ASSUME NEW s \in Sockets, OnOpen(s) \/ Drop(s) PROVE DevicesKnown'
  BY <1>3, <1>a DEF OnOpen, Drop
<1>4. ASSUME NEW s \in Sockets, OnRefusal(s) \/ SetLink(s) \/ Announce(s) \/
             ScheduleReconnect(s) \/ SocketFinishes(s)
      PROVE  DevicesKnown'
  BY <1>4, <1>b DEF OnRefusal, SetLink, Announce, ScheduleReconnect, SocketFinishes
<1>5. ASSUME NEW s \in Sockets, OnDropped(s) PROVE DevicesKnown'
  BY <1>5, <1>a, <1>b DEF OnDropped
<1>6. ASSUME NEW s \in Sockets, SocketStops(s) PROVE DevicesKnown'
  BY <1>6, <1>b DEF SocketStops
<1>7. ASSUME NEW s \in Sockets, SocketClears(s) PROVE DevicesKnown'
  BY <1>7, <1>b DEF SocketClears, Cleared
<1>8. ASSUME NEW d \in Devices, Uplink(d) PROVE DevicesKnown'
  <2>1. UplinkMoves(d)
    BY <1>8, UplinkTypes
  <2>2. \A e \in Devices : up'[e].pc = "none" <=> up[e].pc = "none"
    BY <2>1 DEF UplinkMoves
  <2> QED BY <2>1, <2>2, DevicesKept DEF UplinkMoves
<1>9. ASSUME NEW s \in Sockets, OnWelcome(s) PROVE DevicesKnown'
  <2>1. CASE s # connGen
    BY <1>9, <2>1, <1>a DEF OnWelcome
  <2>2. CASE s = connGen /\ Goto(s, "link") /\ UNCHANGED <<new, open>>
    BY <1>9, <2>2, <1>b DEF OnWelcome
  <2>3. CASE s = connGen /\ ~(Goto(s, "link") /\ UNCHANGED <<new, open>>)
    <3>1. PICK d \in Devices :
            /\ up[d].pc = "none" /\ \A t \in Sockets : new[t] # d
            /\ new' = [new EXCEPT ![s] = d] /\ open' = open \cup {d} /\ Goto(s, "assign")
      BY <1>9, <2>3, ZenonT(60) DEF OnWelcome, Unused
    <3>2. tun' = tun /\ up' = up /\ cb[s] = "idle"
      BY <1>9 DEF OnWelcome
    <3>3. cb'[s] = "assign" /\ \A t \in Sockets : t # s => cb'[t] = cb[t]
      BY <3>1, CallbackMoves
    <3>4. new'[s] = d /\ \A t \in Sockets : t # s => new'[t] = new[t]
      BY <3>1, ZenonT(60) DEF TypeOK
    <3> QED BY <3>1, <3>2, <3>3, <3>4 DEF DevicesKnown
  <2> QED BY <2>1, <2>2, <2>3
<1>10. ASSUME NEW s \in Sockets, AssignTun(s) PROVE DevicesKnown'
  <2> DEFINE nd == new[s]
  <2>0. cb[s] = "assign"
    BY <1>10 DEF AssignTun
  <2>1. nd \in open \cap Devices /\ up[nd].pc = "none" /\ nd # tun
    BY <1>10, DeviceAssigned
  <2>2. tun' = nd /\ open' = open \ {tun}
    BY <1>10 DEF AssignTun
  <2>3. up'[nd].pc = "test" /\ \A d \in Devices : d # nd => up'[d] = up[d]
    BY <1>10, DeviceAssigned
  <2>4. new'[s] = None /\ \A t \in Sockets : t # s => new'[t] = new[t]
    BY <1>10, ZenonT(60) DEF AssignTun, TypeOK
  <2>5. cb'[s] = "link" /\ \A t \in Sockets : t # s => cb'[t] = cb[t]
    BY <1>10, CallbackMoves DEF AssignTun
  <2>6. ASSUME NEW t \in Sockets, t # s, cb[t] = "assign"
        PROVE  new[t] # nd /\ new[t] # tun /\ new[t] \in open \cap Devices
               /\ up[new[t]].pc = "none"
    <3>1. new[t] \in open \cap Devices /\ up[new[t]].pc = "none" /\ new[t] # nd
      BY <2>0, <2>6 DEF DevicesKnown
    <3> QED BY <3>1, NoneAssumption DEF DevicesKnown, Devices
  <2>7. tun' \in Devices /\ up'[tun'].pc # "none" /\ open' \subseteq Devices
    BY <2>1, <2>2, <2>3 DEF DevicesKnown
  <2>8. ASSUME NEW t \in Sockets
        PROVE  IF cb'[t] = "assign"
               THEN new'[t] \in open' \cap Devices /\ up'[new'[t]].pc = "none"
               ELSE new'[t] = None
    <3>1. CASE t = s
      BY <3>1, <2>4, <2>5
    <3>2. CASE t # s /\ cb[t] = "assign"
      BY <3>2, <2>2, <2>3, <2>4, <2>5, <2>6
    <3>3. CASE t # s /\ cb[t] # "assign"
      BY <3>3, <2>4, <2>5 DEF DevicesKnown
    <3> QED BY <3>1, <3>2, <3>3
  <2>9. ASSUME NEW t \in Sockets, NEW u \in Sockets, cb'[t] = "assign", new'[u] = new'[t]
        PROVE  t = u
    <3>1. t # s /\ cb[t] = "assign" /\ new'[t] = new[t]
      BY <2>9, <2>4, <2>5
    <3>2. u # s
      BY <2>9, <3>1, <2>4, <2>6, NoneAssumption DEF Devices
    <3> QED BY <2>9, <3>1, <3>2, <2>4 DEF DevicesKnown
  <2>10. ASSUME NEW d \in open'
         PROVE  d = tun' \/ \E t \in Sockets : cb'[t] = "assign" /\ new'[t] = d
    <3>1. d \in open /\ d # tun
      BY <2>2
    <3>2. PICK t \in Sockets : cb[t] = "assign" /\ new[t] = d
      BY <3>1 DEF DevicesKnown
    <3> QED BY <3>2, <2>2, <2>4, <2>5
  <2> HIDE DEF nd
  <2> QED BY <2>7, <2>8, <2>9, <2>10 DEF DevicesKnown
<1>11. CASE UNCHANGED vars
  BY <1>11, <1>a DEF vars
<1> QED BY <1>1, <1>2, <1>3, <1>4, <1>5, <1>6, <1>7, <1>8, <1>9, <1>10, <1>11 DEF Next, Callback

\* Every step keeps the service orderly, or something has come late.
LEMMA OrderlyStep == TypeOK /\ Numbered /\ DevicesKnown /\ Orderly /\ [Next]_vars => Orderly'
<1> SUFFICES ASSUME TypeOK, Numbered, DevicesKnown, Orderly, [Next]_vars PROVE Orderly'
  BY ZenonT(60)
<1> USE DEF TypeOK, Numbered, Orderly, InHand, ToClear, ToFinish, fields, system, uplink, counts
<1>1. CASE MainStops
  BY <1>1, ZenonT(60) DEF MainStops, Swapped, Noted
<1>2. CASE MainClears
  BY <1>2, ZenonT(60) DEF MainClears, Cleared
<1>3. CASE MainFinishes
  BY <1>3, ZenonT(60) DEF MainFinishes, Finished
<1>4. CASE Started
  BY <1>4, ZenonT(60) DEF Started
<1>5. CASE Destroy
  BY <1>5, ZenonT(60) DEF Destroy
<1>6. CASE CtlTests
  BY <1>6, ZenonT(60) DEF CtlTests
<1>7. CASE CtlOpens
  BY <1>7, ZenonT(60) DEF CtlOpens
<1>8. CASE StopCommand
  BY <1>8, ZenonT(60) DEF StopCommand
<1>9. CASE StartCommand
  BY <1>9, ZenonT(60) DEF StartCommand, Noted
<1>10. CASE StartWithoutProfile
  BY <1>10, ZenonT(60) DEF StartWithoutProfile
<1>11. ASSUME NEW s \in Sockets, OnOpen(s) PROVE Orderly'
  BY <1>11, ZenonT(60) DEF OnOpen
<1>12. ASSUME NEW s \in Sockets, OnWelcome(s) PROVE Orderly'
  <2>1. UNCHANGED <<running, connGen, link, tun, uplinkGen, shown, main, ctl, up>>
    BY <1>12, ZenonT(60) DEF OnWelcome
  <2>2. CASE s # connGen
    <3>1. UNCHANGED <<cb, open, stopGen, late>>
      BY <1>12, <2>2, ZenonT(60) DEF OnWelcome
    <3> QED BY <2>1, <3>1, ZenonT(60)
  <2>3. CASE s = connGen
    <3>1. late' = (late \/ s <= stopGen) /\ open \subseteq open'
      BY <1>12, <2>3, ZenonT(60) DEF OnWelcome, TookEffect, Noted
    <3>2. ~late' => ~late /\ running
      BY <2>3, <3>1, ZenonT(60) DEF Sockets
    <3>3. /\ cb'[s] = "assign" \/ (cb'[s] = "link" /\ tun # None)
          /\ \A t \in Sockets : t # s => cb'[t] = cb[t]
      <4> HIDE DEF TypeOK, Numbered, Orderly, ToClear, ToFinish
      <4> QED BY <1>12, <2>3, CallbackMoves DEF OnWelcome
    <3> QED BY <2>1, <3>1, <3>2, <3>3, ZenonT(60)
  <2> QED BY <2>2, <2>3, ZenonT(60)
<1>13. ASSUME NEW s \in Sockets, OnRefusal(s) PROVE Orderly'
  BY <1>13, ZenonT(60) DEF OnRefusal, TookEffect, Noted, Goto, Sockets
<1>14. ASSUME NEW s \in Sockets, AssignTun(s) PROVE Orderly'
  <2> DEFINE nd == new[s]
  <2>1. cb[s] = "assign" /\ (~late => running)
    BY <1>14, ZenonT(60) DEF AssignTun
  <2>2. /\ nd \in open /\ nd # tun /\ nd # None
        /\ up'[nd].gen = uplinkGen' /\ up'[nd].pc = "test"
    BY <1>14, DeviceAssigned, ZenonT(60)
  <2>3. tun' = nd /\ open' = open \ {tun}
    BY <1>14, ZenonT(60) DEF AssignTun
  <2>4. cb'[s] = "link" /\ \A t \in Sockets : t # s => cb'[t] = cb[t]
    BY <1>14, CallbackMoves, ZenonT(60) DEF AssignTun
  <2>5. UNCHANGED <<running, connGen, link, shown, main, ctl, stopGen, late>>
    BY <1>14, ZenonT(60) DEF AssignTun
  <2> HIDE DEF nd
  <2> QED BY <2>1, <2>2, <2>3, <2>4, <2>5, ZenonT(60)
<1>15. ASSUME NEW s \in Sockets, SetLink(s) PROVE Orderly'
  BY <1>15, ZenonT(60) DEF SetLink, Goto
<1>16. ASSUME NEW s \in Sockets, OnDropped(s) PROVE Orderly'
  BY <1>16, ZenonT(60) DEF OnDropped, TookEffect, Noted, Goto, Sockets
<1>17. ASSUME NEW s \in Sockets, ScheduleReconnect(s) PROVE Orderly'
  <2>1. s <= connGen /\ cb[s] = "retry"
    <3>1. cb[s] = "retry"
      BY <1>17, ZenonT(60) DEF ScheduleReconnect
    <3> HIDE DEF Orderly, ToClear, ToFinish
    <3> QED BY <3>1 DEF Sockets
  <2>2. ~late' => ~late /\ running
    BY <1>17, <2>1, ZenonT(60) DEF ScheduleReconnect, TookEffect, Noted, Sockets
  <2>3. /\ link' = NoLink
        /\ cb'[s] = "idle" /\ \A t \in Sockets : t # s => cb'[t] = cb[t]
        /\ UNCHANGED <<running, connGen, tun, uplinkGen, main, ctl, open, up>>
    BY <1>17, ZenonT(60) DEF ScheduleReconnect, Goto
  <2> QED BY <2>1, <2>2, <2>3, ZenonT(60)
<1>18. ASSUME NEW s \in Sockets, SocketStops(s) PROVE Orderly'
  BY <1>18, ZenonT(60) DEF SocketStops, Swapped, Noted, Goto
<1>19. ASSUME NEW s \in Sockets, SocketClears(s) PROVE Orderly'
  BY <1>19, ZenonT(60) DEF SocketClears, Cleared, Goto
<1>20. ASSUME NEW s \in Sockets, SocketFinishes(s) PROVE Orderly'
  BY <1>20, ZenonT(60) DEF SocketFinishes, Finished, Goto
<1>21. ASSUME NEW s \in Sockets, Drop(s) PROVE Orderly'
  BY <1>21, ZenonT(60) DEF Drop
<1>22. ASSUME NEW d \in Devices, Uplink(d) PROVE Orderly'
  <2>1. UplinkMoves(d)
    BY <1>22, UplinkTypes, ZenonT(60)
  <2>2. tun # None => tun \in Devices
    BY ZenonT(60) DEF DevicesKnown
  <2>3. ASSUME tun \in open /\ tun \in Devices, up[tun].gen = uplinkGen, up[tun].pc # "end", running
        PROVE  up'[tun].gen = uplinkGen /\ up'[tun].pc # "end"
    BY <2>1, <2>3, ZenonT(60) DEF UplinkMoves
  <2> QED BY <2>1, <2>2, <2>3, ZenonT(60) DEF UplinkMoves
<1>23. CASE UNCHANGED vars
  BY <1>23 DEF vars
<1>24. ASSUME NEW s \in Sockets, Announce(s) PROVE Orderly'
  BY <1>24, ZenonT(60) DEF Announce, Goto
<1> QED BY <1>1, <1>2, <1>3, <1>4, <1>5, <1>6, <1>7, <1>8, <1>9, <1>10, <1>11, <1>12,
      <1>13, <1>14, <1>15, <1>16, <1>17, <1>18, <1>19, <1>20, <1>21, <1>22, <1>23, <1>24,
      ZenonT(60) DEF Next, Main, Ctl, Callback

\* The service is orderly throughout.
LEMMA OrderInvariant == Spec => [](Numbered /\ DevicesKnown /\ Orderly)
<1> DEFINE Inv == Numbered /\ DevicesKnown /\ Orderly
<1>1. Init => Inv
  <2> SUFFICES ASSUME Init PROVE Inv
    BY ZenonT(60)
  <2>1. Numbered
    BY SMTT(60) DEF Init, Numbered
  <2>2. DevicesKnown
    BY ZenonT(60) DEF Init, DevicesKnown
  <2>3. Orderly
    BY DEF Init, Orderly, InHand
  <2> QED BY <2>1, <2>2, <2>3, ZenonT(60)
<1>2. TypeOK /\ Inv /\ [Next]_vars => Inv'
  BY NumberedStep, DevicesStep, OrderlyStep, ZenonT(60)
<1> QED BY <1>1, <1>2, TypeInvariant, PTL DEF Spec

\* A stop is complete, and a link served, unless a callback of an older
\* connection came late or a start and a stop overlapped: with any number of
\* starts, stops, drops and reconnections, a service that has stopped has no
\* device, no link and does not show itself connected, and a link is never
\* without a device that is open and an uplink thread that reads it.
THEOREM StopsAreComplete == Spec => []CompleteUnlessLate
<1>1. TypeOK /\ DevicesKnown /\ Orderly => CompleteUnlessLate
  <2> SUFFICES ASSUME TypeOK, DevicesKnown, Orderly, Settled, ~late
               PROVE  /\ ~running => open = {} /\ link = NoLink /\ shown \in {"off", "error"}
                      /\ link # NoLink => running /\ Served
    BY ZenonT(60) DEF CompleteUnlessLate
  <2>1. ~ToClear /\ ~ToFinish
    BY ZenonT(60) DEF Settled, ToClear, ToFinish
  <2>2. ~running => tun = None /\ link = NoLink /\ shown \in {"off", "error"}
    BY <2>1, ZenonT(60) DEF Orderly
  <2>3. ~running => open = {}
    BY <2>2, NoneAssumption, ZenonT(60) DEF DevicesKnown, Settled, Devices
  <2>4. link # NoLink => running /\ Served
    BY <2>2 DEF Orderly, DevicesKnown, Served
  <2> QED BY <2>2, <2>3, <2>4
<1> QED BY <1>1, TypeInvariant, OrderInvariant, PTL
-----------------------------------------------------------------------------
(* That the service keeps trying *)

\* The last connection is of the last start, and it is under way, is up, or was
\* dropped and has yet to be replaced.
Attempted ==
  /\ connGen > stopGen
  /\ cb[connGen] = "retry" \/ sock[connGen] \in {"dialling", "hello", "welcomed", "dropped"}

\* Behind KeepsTrying: a service that runs never has nothing to go on with, and
\* never two attempts.  It is being started, connectWebSocket is queued once, or it
\* is connecting, or there is the one connection; and a connection that was welcomed
\* is the link, or its callback is about to make it the link or to stop the service.
OneAttempt ==
  ~late /\ running =>
    /\ \/ main = "start" /\ posted = 0 /\ ctl = "idle" /\ ~Attempted
       \/ main # "start" /\ posted = 1 /\ ctl = "idle" /\ ~Attempted
       \/ main # "start" /\ posted = 0 /\ ctl = "open" /\ ~Attempted
       \/ main # "start" /\ posted = 0 /\ ctl = "idle" /\ Attempted
    /\ Attempted /\ sock[connGen] = "welcomed" =>
         link.ws = connGen \/ cb[connGen] \in {"assign", "link", "stop"}

\* Besides, a stop has emptied the queue, a connection that was closed or that sends
\* no hello is an older one, and a callback that goes on with a connection is one of
\* the last connection.
AttemptInv ==
  /\ OneAttempt
  /\ connGen <= MaxSockets /\ ctl \in {"idle", "open"}
  /\ \A s \in Sockets :
       /\ cb[s] = "retry" => sock[s] = "gone"
       /\ sock[s] = "mute" => s < connGen
       /\ ~late /\ sock[s] = "closing" => s <= stopGen
  /\ ~late /\ ~running /\ ~ToClear => posted = 0
  /\ ~late /\ running =>
       /\ main = "start" \/ ~userStopped
       /\ \A s \in Sockets : cb[s] = "retry" /\ s > stopGen => s = connGen
       /\ \A s \in Sockets : cb[s] \in {"assign", "link"} =>
            s = connGen /\ s > stopGen /\ sock[s] \in {"welcomed", "dropped"}

\* Every step keeps that, or something has come late.
LEMMA AttemptStep ==
  TypeOK /\ Numbered /\ Orderly /\ AttemptInv /\ [Next]_vars => AttemptInv'
<1> SUFFICES ASSUME TypeOK, Numbered, Orderly, AttemptInv, [Next]_vars PROVE AttemptInv'
  BY ZenonT(60)
<1>a. /\ connGen \in Nat /\ stopGen \in Nat /\ stopGen <= connGen /\ MaxSockets \in Nat
      /\ cb \in [Sockets -> {"idle", "assign", "link", "announce", "retry", "stop", "clear",
                           "finish"}]
      /\ sock \in [Sockets -> {"none", "dialling", "mute", "hello", "welcomed", "closing",
                              "dropped", "gone"}]
  BY AndroidAssumption DEF TypeOK, Numbered, MaxSockets
<1>b. \A s \in Sockets : s > connGen => sock[s] = "none" /\ cb[s] = "idle"
  BY DEF Numbered
<1>c. Sockets = 1 .. MaxSockets
  BY DEF Sockets
<1>k. ASSUME NEW s \in Sockets, sock[s] # "none" \/ cb[s] # "idle"
      PROVE  s <= connGen /\ (s # connGen => s < connGen) /\ (s > stopGen => connGen # stopGen)
  BY <1>a, <1>b, <1>c, <1>k
<1>l. connGen < MaxSockets =>
        /\ connGen + 1 \in Sockets /\ connGen + 1 > stopGen
        /\ sock[connGen + 1] = "none" /\ cb[connGen + 1] = "idle"
  <2>1. connGen < MaxSockets =>
          connGen + 1 \in Sockets /\ connGen + 1 > stopGen /\ connGen + 1 > connGen
    BY <1>a, <1>c
  <2> QED BY <1>b, <2>1, ZenonT(60)
<1>d. ASSUME NEW s \in Sockets, OnWelcome(s), s = connGen
      PROVE  cb'[s] \in {"assign", "link"} /\ \A t \in Sockets : t # s => cb'[t] = cb[t]
  BY <1>d, CallbackMoves DEF OnWelcome
<1>e. ASSUME NEW s \in Sockets, TookEffect(s), ~late'
      PROVE  ~late /\ s > stopGen /\ stopGen' = stopGen
  <2>1. ~late /\ ~(s <= stopGen) /\ stopGen' = stopGen
    BY <1>e, ZenonT(60) DEF TookEffect, Noted
  <2> QED BY <2>1, <1>a, <1>c
<1>f. ASSUME Cleared
      PROVE  /\ posted' = 0
             /\ \A s \in Sockets : sock'[s] = sock[s] \/ (sock[s] = "welcomed" /\ sock'[s] = "closing")
  BY <1>a, <1>f, LinkPairs DEF Cleared, TypeOK
<1>g. ~late /\ ~running => /\ connGen = stopGen /\ ctl # "open" /\ main # "start"
                           /\ \A s \in Sockets : cb[s] \notin {"assign", "link"}
  BY ZenonT(60) DEF Orderly, InHand
<1>h. ~late /\ running => \A s \in Sockets : cb[s] \notin {"clear", "finish"}
  BY ZenonT(60) DEF Orderly
<1>i. main \in {"clear", "clearLast"} => ~running
  BY ZenonT(60) DEF Orderly
<1>j. ASSUME Cleared, UNCHANGED <<running, connGen, ctl, stopGen, late>>, ~late => ~running,
             \A s \in Sockets : cb'[s] = "retry" => cb[s] = "retry"
      PROVE  AttemptInv'
  <2>1. /\ posted' = 0
        /\ \A s \in Sockets : sock'[s] = sock[s] \/ (sock[s] = "welcomed" /\ sock'[s] = "closing")
    BY <1>f, <1>j
  <2>2. ASSUME NEW s \in Sockets, sock[s] = "welcomed" PROVE s <= connGen
    BY <1>a, <1>b, <1>c, <2>2
  <2>3. ASSUME NEW s \in Sockets
        PROVE  /\ cb'[s] = "retry" => sock'[s] = "gone"
               /\ sock'[s] = "mute" => s < connGen'
               /\ ~late' /\ sock'[s] = "closing" => s <= stopGen'
    <3>1. CASE sock'[s] = sock[s]
      BY <1>j, <3>1, ZenonT(60) DEF AttemptInv
    <3>2. CASE sock[s] = "welcomed" /\ sock'[s] = "closing"
      BY <1>g, <1>j, <2>2, <3>2, ZenonT(60) DEF AttemptInv
    <3> QED BY <2>1, <3>1, <3>2
  <2> QED BY <1>j, <2>1, <2>3, ZenonT(60) DEF AttemptInv, OneAttempt
<1> HIDE DEF MaxSockets, Sockets
<1> USE <1>a, <1>c DEF AttemptInv, OneAttempt, Attempted, ToClear, fields, system, uplink, counts
<1>1. CASE MainStops
  <2>1. /\ running' = FALSE /\ UNCHANGED <<connGen, posted, sock, cb, ctl>>
        /\ running => main' \in {"clear", "clearLast"}
        /\ main \in {"stop", "destroy"}
    BY <1>1, ZenonT(60) DEF MainStops, Swapped
  <2>2. ~late' => ~late /\ stopGen' = connGen
    BY <1>1, ZenonT(60) DEF MainStops, Swapped, Noted
  <2>3. \A t \in Sockets :
          /\ cb'[t] = "retry" => sock'[t] = "gone"
          /\ sock'[t] = "mute" => t < connGen'
          /\ ~late' /\ sock'[t] = "closing" => t <= stopGen'
    BY <2>1, <2>2
  <2>4. ~late' /\ ~ToClear' => posted' = 0
    BY <2>1, <2>2, ZenonT(60)
  <2> QED BY <2>1, <2>3, <2>4, ZenonT(60)
<1>2. CASE MainClears
  BY <1>i, <1>j, <1>2, ZenonT(60) DEF MainClears
<1>3. CASE MainFinishes
  BY <1>3 DEF MainFinishes, Finished
<1>4. CASE Started
  <2>1. /\ UNCHANGED <<running, connGen, link, ctl, sock, cb, stopGen, late>>
        /\ main = "start" /\ main' = "idle" /\ posted' = posted + 1 /\ userStopped' = FALSE
    BY <1>4, ZenonT(60) DEF Started
  <2>2. ~late => running
    BY <1>g, <2>1, ZenonT(60)
  <2>3. ~late => posted' = 1 /\ ctl = "idle" /\ ~Attempted
    BY <2>1, <2>2
  <2> QED BY <2>1, <2>2, <2>3, ZenonT(60)
<1>5. CASE Destroy
  BY <1>5 DEF Destroy
<1>6. CASE CtlTests
  BY <1>6 DEF CtlTests
<1>7. CASE CtlOpens
  <2> DEFINE g == connGen + 1
  <2>1. /\ connGen' = g /\ g \in Sockets /\ g > stopGen
        /\ sock'[g] \in {"dialling", "dropped"} /\ cb[g] = "idle"
        /\ \A s \in Sockets : s # g => sock'[s] = sock[s]
    <3>1. connGen' = g /\ g \in Sockets /\ g > stopGen /\ cb[g] = "idle"
      BY <1>l, <1>7, ZenonT(60) DEF CtlOpens
    <3>2. sock' = [sock EXCEPT ![g] = IF client = "open" THEN "dialling" ELSE "dropped"]
      BY <1>7, ZenonT(60) DEF CtlOpens
    <3> HIDE DEF g
    <3> QED BY <3>1, <3>2, ZenonT(60)
  <2>2. ctl = "open" /\ ctl' = "idle"
        /\ UNCHANGED <<running, userStopped, link, posted, main, cb, stopGen, late>>
    BY <1>7 DEF CtlOpens
  <2>3. ~late /\ running => ~Attempted /\ main # "start" /\ posted = 0
    BY <2>2
  <2>4. ~late /\ running =>
          \A s \in Sockets : ~(cb[s] = "retry" /\ s > stopGen) /\ cb[s] \notin {"assign", "link"}
    BY <2>3
  <2> HIDE DEF g
  <2>5. OneAttempt'
    BY <2>1, <2>2, <2>3
  <2>6. \A s \in Sockets :
          /\ cb'[s] = "retry" => sock'[s] = "gone"
          /\ sock'[s] = "mute" => s < connGen'
          /\ ~late' /\ sock'[s] = "closing" => s <= stopGen'
    <3> SUFFICES ASSUME NEW s \in Sockets
                 PROVE  /\ cb'[s] = "retry" => sock'[s] = "gone"
                        /\ sock'[s] = "mute" => s < connGen'
                        /\ ~late' /\ sock'[s] = "closing" => s <= stopGen'
      OBVIOUS
    <3>1. CASE s = g
      BY <2>1, <2>2, <3>1, ZenonT(60)
    <3>2. CASE s # g
      <4>1. sock[s] = "mute" => s < g
        BY DEF g
      <4> QED BY <2>1, <2>2, <3>2, <4>1, ZenonT(60)
    <3> QED BY <3>1, <3>2
  <2>7. g <= MaxSockets
    BY <2>1
  <2> QED BY <2>1, <2>2, <2>3, <2>4, <2>5, <2>6, <2>7, ZenonT(60)
<1>8. CASE StopCommand
  BY <1>8 DEF StopCommand
<1>9. CASE StartCommand
  <2>1. /\ main = "idle" /\ running' = TRUE /\ main' = (IF running THEN "idle" ELSE "start")
        /\ late' = (late \/ \E s \in Sockets : cb[s] \in {"clear", "finish"})
        /\ ~late' => stopGen' = stopGen
        /\ UNCHANGED <<userStopped, connGen, link, posted, ctl, sock, cb>>
    BY <1>9, ZenonT(60) DEF StartCommand, Noted
  <2>2. CASE late'
    BY <2>1, <2>2, ZenonT(60)
  <2>3. CASE ~late' /\ running
    BY <2>1, <2>3, ZenonT(60)
  <2>4. CASE ~late' /\ ~running
    <3>1. posted = 0 /\ ctl = "idle" /\ connGen = stopGen
          /\ \A s \in Sockets : cb[s] \notin {"assign", "link"}
      BY <1>g, <2>1, <2>4, ZenonT(60)
    <3>2. ~(connGen > stopGen) /\ \A s \in Sockets : ~(cb[s] = "retry" /\ s > stopGen)
      BY <1>b, <3>1
    <3>3. UNCHANGED stopGen
      BY <2>1, <2>4
    <3> QED BY <2>1, <2>4, <3>1, <3>2, <3>3, ZenonT(60)
  <2> QED BY <2>2, <2>3, <2>4
<1>10. CASE StartWithoutProfile
  BY <1>10 DEF StartWithoutProfile
<1>11. ASSUME NEW s \in Sockets, OnOpen(s) PROVE AttemptInv'
  <2>1. /\ sock[s] = "dialling" /\ sock'[s] = (IF s = connGen THEN "hello" ELSE "mute")
        /\ \A t \in Sockets : t # s => sock'[t] = sock[t]
        /\ UNCHANGED <<running, userStopped, connGen, link, posted, main, ctl, cb, stopGen, late>>
    BY <1>11 DEF OnOpen
  <2>2. s # connGen => s < connGen
    BY <1>k, <2>1, ZenonT(60)
  <2> QED BY <2>1, <2>2
<1>12. ASSUME NEW s \in Sockets, OnWelcome(s) PROVE AttemptInv'
  <2>1. /\ UNCHANGED <<running, userStopped, connGen, link, posted, main, ctl>>
        /\ cb[s] = "idle" /\ sock[s] = "hello"
        /\ sock'[s] = "welcomed" /\ \A t \in Sockets : t # s => sock'[t] = sock[t]
    BY <1>12 DEF OnWelcome
  <2>2. CASE s # connGen
    <3>1. UNCHANGED <<cb, stopGen, late>>
      BY <1>12, <2>2, ZenonT(60) DEF OnWelcome
    <3> QED BY <2>1, <2>2, <3>1
  <2>3. CASE s = connGen
    <3>1. TookEffect(s)
      BY <1>12, <2>3, ZenonT(60) DEF OnWelcome
    <3>2. /\ cb'[s] \in {"assign", "link"}
          /\ \A t \in Sockets : t # s => cb'[t] = cb[t]
      BY <1>d, <1>12, <2>3
    <3>3. CASE late'
      BY <2>1, <3>2, <3>3
    <3>4. CASE ~late'
      <4>1. ~late /\ s > stopGen /\ stopGen' = stopGen
        BY <1>e, <3>1, <3>4
      <4> QED BY <2>1, <2>3, <3>2, <3>4, <4>1
    <3> QED BY <3>3, <3>4, ZenonT(60)
  <2> QED BY <2>2, <2>3
<1>13. ASSUME NEW s \in Sockets, OnRefusal(s) PROVE AttemptInv'
  <2>1. /\ UNCHANGED <<running, userStopped, connGen, link, posted, main, ctl>>
        /\ s = connGen /\ sock[s] = "hello" /\ cb[s] = "idle" /\ TookEffect(s)
        /\ sock'[s] = "welcomed" /\ \A t \in Sockets : t # s => sock'[t] = sock[t]
        /\ cb'[s] = "stop" /\ \A t \in Sockets : t # s => cb'[t] = cb[t]
    BY <1>13 DEF OnRefusal, Goto
  <2>2. CASE late'
    BY <2>1, <2>2
  <2>3. CASE ~late'
    BY <1>e, <2>1, <2>3
  <2> QED BY <2>2, <2>3, ZenonT(60)
<1>14. ASSUME NEW s \in Sockets, AssignTun(s) PROVE AttemptInv'
  BY <1>14 DEF AssignTun, Goto
<1>15. ASSUME NEW s \in Sockets, SetLink(s) PROVE AttemptInv'
  BY <1>15 DEF SetLink, Goto
<1>16. ASSUME NEW s \in Sockets, OnDropped(s) PROVE AttemptInv'
  <2>1. /\ UNCHANGED <<running, userStopped, connGen, link, posted, main, ctl>>
        /\ sock[s] = "dropped" /\ cb[s] = "idle"
        /\ sock'[s] = "gone" /\ \A t \in Sockets : t # s => sock'[t] = sock[t]
        /\ \A t \in Sockets : t # s => cb'[t] = cb[t]
    BY <1>16 DEF OnDropped, Goto
  <2>2. CASE s = connGen /\ ~userStopped /\ running
    <3>1. cb'[s] = "retry" /\ TookEffect(s)
      BY <1>16, <2>2 DEF OnDropped, Goto
    <3>2. CASE late'
      BY <2>1, <2>2, <3>1, <3>2
    <3>3. CASE ~late'
      BY <1>e, <2>1, <2>2, <3>1, <3>3
    <3> QED BY <3>2, <3>3, ZenonT(60)
  <2>3. CASE ~(s = connGen /\ ~userStopped /\ running)
    <3>1. UNCHANGED <<cb, stopGen, late>>
      BY <1>16, <2>3, ZenonT(60) DEF OnDropped
    <3> QED BY <2>1, <2>3, <3>1
  <2> QED BY <2>2, <2>3, ZenonT(60)
<1>17. ASSUME NEW s \in Sockets, ScheduleReconnect(s) PROVE AttemptInv'
  <2>1. /\ UNCHANGED <<running, userStopped, connGen, sock, main, ctl>>
        /\ link' = NoLink /\ posted' = posted + 1 /\ TookEffect(s)
        /\ cb[s] = "retry" /\ cb'[s] = "idle" /\ \A t \in Sockets : t # s => cb'[t] = cb[t]
    BY <1>17 DEF ScheduleReconnect, Goto
  <2>2. sock[s] = "gone"
    BY <2>1, ZenonT(60)
  <2>3. CASE late'
    BY <2>1, <2>2, <2>3
  <2>4. CASE ~late'
    <3>1. ~late /\ s > stopGen /\ stopGen' = stopGen
      BY <1>e, <2>1, <2>4
    <3>2. running
      BY <1>g, <1>k, <2>2, <3>1, ZenonT(60)
    <3>3. s = connGen /\ Attempted
      BY <2>1, <3>1, <3>2
    <3>4. posted = 0 /\ ctl = "idle" /\ main # "start"
      BY <3>1, <3>2, <3>3
    <3>5. posted' = 1
      BY <2>1, <3>4
    <3>6. ~Attempted'
      BY <2>1, <2>2, <3>3, ZenonT(60)
    <3>7. OneAttempt'
      BY <2>1, <2>2, <3>3, <3>4, <3>5, <3>6, ZenonT(60)
    <3> QED BY <2>1, <2>2, <2>4, <3>1, <3>2, <3>7, ZenonT(60)
  <2> QED BY <2>3, <2>4, ZenonT(60)
<1>18. ASSUME NEW s \in Sockets, SocketStops(s) PROVE AttemptInv'
  <2>1. /\ running' = FALSE /\ UNCHANGED <<connGen, posted, sock, ctl, main>>
        /\ cb[s] = "stop" /\ \A t \in Sockets : t # s => cb'[t] = cb[t]
        /\ cb'[s] = (IF running THEN "clear" ELSE "idle")
        /\ ~late' => ~late
    BY <1>18, ZenonT(60) DEF SocketStops, Swapped, Noted, Goto
  <2>2. ~late' /\ ~(\E t \in Sockets : cb'[t] = "clear") => ~late /\ ~running
    BY <2>1
  <2>3. ~ToClear' => ~ToClear
    BY <2>1
  <2>4. ~late' /\ ~ToClear' => posted' = 0
    BY <2>1, <2>2, <2>3
  <2>5. ~late' => stopGen' = connGen
    BY <1>18, ZenonT(60) DEF SocketStops, Swapped, Noted
  <2>6. \A t \in Sockets :
          /\ cb'[t] = "retry" => sock'[t] = "gone"
          /\ sock'[t] = "mute" => t < connGen'
          /\ ~late' /\ sock'[t] = "closing" => t <= stopGen'
    BY <2>1, <2>5
  <2> QED BY <2>1, <2>4, <2>6, ZenonT(60)
<1>19. ASSUME NEW s \in Sockets, SocketClears(s) PROVE AttemptInv'
  <2>1. \A t \in Sockets : cb'[t] = "retry" => cb[t] = "retry"
    BY <1>19 DEF SocketClears, Goto
  <2> QED BY <1>h, <1>j, <1>19, <2>1, ZenonT(60) DEF SocketClears
<1>20. ASSUME NEW s \in Sockets, SocketFinishes(s) PROVE AttemptInv'
  BY <1>20 DEF SocketFinishes, Finished, Goto
<1>21. ASSUME NEW s \in Sockets, Drop(s) PROVE AttemptInv'
  <2>1. /\ sock[s] \in {"dialling", "mute", "hello", "welcomed", "closing"}
        /\ sock'[s] = "dropped" /\ \A t \in Sockets : t # s => sock'[t] = sock[t]
        /\ UNCHANGED <<running, userStopped, connGen, link, posted, main, ctl, cb, stopGen, late>>
    BY <1>21, ZenonT(60) DEF Drop
  <2>2. ASSUME ~late, s = connGen, connGen > stopGen
        PROVE  sock[s] \in {"dialling", "hello", "welcomed"}
    <3>1. ~(s < connGen) /\ ~(s <= stopGen)
      BY <2>2
    <3> QED BY <2>1, <2>2, <3>1, ZenonT(60)
  <2>3. ~late => (Attempted' <=> Attempted)
    <3>1. connGen > stopGen => connGen \in Sockets
      BY DEF AttemptInv
    <3> QED BY <2>1, <2>2, <3>1, ZenonT(60)
  <2>4. cb[s] # "retry"
    BY <2>1, ZenonT(60)
  <2> HIDE DEF Attempted
  <2>5. OneAttempt'
    <3>1. connGen > stopGen => connGen \in Sockets
      BY DEF AttemptInv
    <3>2. Attempted => connGen \in Sockets
      BY <3>1, ZenonT(60) DEF Attempted
    <3>3. ASSUME ~late, Attempted, sock'[connGen] = "welcomed" PROVE sock[connGen] = "welcomed"
      BY <2>1, <3>2, <3>3, ZenonT(60)
    <3> QED BY <2>1, <2>3, <3>3, ZenonT(60)
  <2> QED BY <2>1, <2>4, <2>5, ZenonT(60)
<1>22. ASSUME NEW d \in Devices, Uplink(d) PROVE AttemptInv'
  <2>1. UNCHANGED <<running, userStopped, connGen, link, posted, main, ctl, sock, cb, stopGen, late>>
    BY <1>22, UplinkTypes, ZenonT(60) DEF UplinkMoves
  <2> QED BY <2>1, ZenonT(60)
<1>23. CASE UNCHANGED vars
  BY <1>23, ZenonT(60) DEF vars
<1>24. ASSUME NEW s \in Sockets, Announce(s) PROVE AttemptInv'
  BY <1>24 DEF Announce, Goto
<1> QED BY <1>1, <1>2, <1>3, <1>4, <1>5, <1>6, <1>7, <1>8, <1>9, <1>10, <1>11, <1>12, <1>13,
      <1>14, <1>15, <1>16, <1>17, <1>18, <1>19, <1>20, <1>21, <1>22, <1>23, <1>24, ZenonT(60)
      DEF Next, Main, Ctl, Callback

\* A service that runs always has exactly one thing to go on with, whatever was
\* dropped, refused, stopped and started before, unless something came late.
THEOREM OneAttemptAtATime == Spec => []OneAttempt
<1>1. Init => AttemptInv
  BY AndroidAssumption DEF Init, AttemptInv, OneAttempt, MaxSockets
<1>2. TypeOK /\ Numbered /\ Orderly /\ AttemptInv /\ [Next]_vars => AttemptInv'
  BY AttemptStep, ZenonT(60)
<1>3. AttemptInv => OneAttempt
  BY ZenonT(60) DEF AttemptInv
<1> QED BY <1>1, <1>2, <1>3, TypeInvariant, OrderInvariant, PTL DEF Spec
-----------------------------------------------------------------------------
(* The order of the frames *)

\* At most one uplink thread is between session.seal and ws.send.
OneSends == \A d, e \in Devices : up[d].pc = "send" /\ up[e].pc = "send" => d = e

\* The frames on a socket are in order, their counters were drawn, and a frame that
\* is about to be sent comes after those on its socket.
AdvanceInv ==
  /\ sent \in [Sockets -> Seq(Frames)]
  /\ FramesAdvance
  /\ \A s \in Sockets : \A i \in DOMAIN sent[s] : sent[s][i][2] < sealed[s]
  /\ \A d \in Devices : up[d].pc = "send" =>
       LET l == up[d].link IN
         /\ l.ws \in Sockets /\ l.session = l.ws /\ up[d].ctr < sealed[l.ws]
         /\ \A i \in DOMAIN sent[l.ws] : sent[l.ws][i][2] < up[d].ctr

\* An uplink thread goes to a position, or ends.
LEMMA UplinkPosition ==
  ASSUME TypeOK, NEW d \in Devices
  PROVE  /\ \A v : up' = [up EXCEPT ![d].pc = v] => up'[d].pc = v
         /\ up' = [up EXCEPT ![d] = EndedUplink] => up'[d].pc = "end"
BY UplinkEnds, ZenonT(60) DEF TypeOK, UplinkStates

\* Only seal and send touch the counters, the frames and what a thread is to send.
LEMMA OnlyUplinkSeals ==
  ASSUME TypeOK, [Next]_vars
  PROVE  \/ /\ UNCHANGED <<sent, sealed>>
            /\ \A d \in Devices : up'[d].pc = "send" => up'[d] = up[d]
         \/ \E d \in Devices : UplinkSeals(d) \/ UplinkSends(d)
<1> DEFINE Quiet == /\ UNCHANGED <<sent, sealed>>
                    /\ \A d \in Devices : up'[d].pc = "send" => up'[d] = up[d]
<1>1. CASE Main
  BY <1>1, ZenonT(60) DEF Main, MainStops, MainClears, MainFinishes, Started, Destroy, uplink
<1>2. CASE Ctl \/ StopCommand \/ StartCommand \/ StartWithoutProfile
  BY <1>2, ZenonT(60) DEF Ctl, CtlTests, CtlOpens, StopCommand, StartCommand, StartWithoutProfile, uplink
<1>3. ASSUME NEW s \in Sockets, Callback(s) \/ Drop(s), ~AssignTun(s) PROVE UNCHANGED uplink
  BY <1>3, ZenonT(60) DEF Callback, OnOpen, OnWelcome, OnRefusal, SetLink, Announce, OnDropped,
     ScheduleReconnect, SocketStops, SocketClears, SocketFinishes, Drop
<1>4. ASSUME NEW s \in Sockets, AssignTun(s) PROVE Quiet
  BY <1>4, ZenonT(60) DEF AssignTun, TypeOK
<1>5. ASSUME NEW d \in Devices, UplinkTests(d) PROVE Quiet
  BY <1>5 DEF UplinkTests, EndedUplink, TypeOK
<1>6. ASSUME NEW d \in Devices, UplinkReads(d) PROVE Quiet
  <2>1. UNCHANGED <<sent, sealed>> /\ \A e \in Devices : e # d => up'[e] = up[e]
    BY <1>6, ZenonT(60) DEF UplinkReads, TypeOK
  <2>2. up'[d].pc # "send"
    BY <1>6, UplinkPosition, ZenonT(60) DEF UplinkReads
  <2> QED BY <2>1, <2>2, ZenonT(60)
<1>7. CASE UNCHANGED vars
  BY <1>7, ZenonT(60) DEF vars, uplink
<1> QED BY <1>1, <1>2, <1>3, <1>4, <1>5, <1>6, <1>7, ZenonT(60) DEF Next, Uplink, uplink

\* Every step keeps the order, as long as no two threads are about to send.
LEMMA AdvanceStep ==
  ASSUME TypeOK, OneSends, AdvanceInv, [Next]_vars
  PROVE  AdvanceInv'
<1>1. CASE /\ UNCHANGED <<sent, sealed>>
           /\ \A d \in Devices : up'[d].pc = "send" => up'[d] = up[d]
  BY <1>1, ZenonT(60) DEF AdvanceInv, FramesAdvance
<1>2. ASSUME NEW d \in Devices, UplinkSeals(d) PROVE AdvanceInv'
  <2>1. CASE link = NoLink
    <3>1. UNCHANGED <<sent, sealed>> /\ \A e \in Devices : e # d => up'[e] = up[e]
      BY <1>2, <2>1, ZenonT(60) DEF UplinkSeals, TypeOK
    <3>2. up'[d].pc # "send"
      BY <1>2, <2>1, UplinkPosition, ZenonT(60) DEF UplinkSeals
    <3> QED BY <1>1, <3>1, <3>2, ZenonT(60)
  <2>2. CASE link # NoLink
    <3> DEFINE w == link.ws
    <3>1. w \in Sockets /\ link.session = w
      BY <2>2, LinkPairs, ZenonT(60) DEF TypeOK
    <3>2. /\ sent' = sent /\ sealed' = [sealed EXCEPT ![w] = @ + 1]
          /\ \A e \in Devices : e # d => up'[e] = up[e]
      BY <1>2, <2>2, <3>1, ZenonT(60) DEF UplinkSeals, TypeOK
    <3>3. up'[d].link = link /\ up'[d].ctr = sealed[w]
      BY <1>2, <2>2, <3>1 DEF UplinkSeals, TypeOK, UplinkStates
    <3>4. /\ sealed \in [Sockets -> Nat] /\ sealed'[w] = sealed[w] + 1
          /\ \A s \in Sockets : s # w => sealed'[s] = sealed[s]
      BY <3>1, <3>2, ZenonT(60) DEF TypeOK
    <3>5. \A s \in Sockets : \A i \in DOMAIN sent[s] : sent[s][i][2] \in Nat
      BY DEF AdvanceInv, Frames
    <3>6. \A e \in Devices : up[e].ctr \in Nat
      BY ZenonT(60) DEF TypeOK, UplinkStates
    <3> HIDE DEF w
    <3>7. \A s \in Sockets : sealed'[s] \in Nat /\ sealed[s] <= sealed'[s]
      BY <3>4
    <3>8. \A s \in Sockets : \A i \in DOMAIN sent'[s] : sent'[s][i][2] < sealed'[s]
      <4> SUFFICES ASSUME NEW s \in Sockets, NEW i \in DOMAIN sent[s]
                   PROVE  sent[s][i][2] < sealed'[s]
        BY <3>2, ZenonT(60)
      <4> DEFINE x == sent[s][i][2]
      <4>1. x \in Nat /\ x < sealed[s] /\ sealed[s] \in Nat
        BY <3>4, <3>5, ZenonT(60) DEF AdvanceInv
      <4>2. sealed'[s] \in Nat /\ sealed[s] <= sealed'[s]
        BY <3>7, ZenonT(60)
      <4> HIDE DEF x
      <4>3. x < sealed'[s]
        BY ONLY <4>1, <4>2
      <4> QED BY <4>3 DEF x
    <3>9. ASSUME NEW e \in Devices, up'[e].pc = "send"
          PROVE  LET l == up'[e].link IN
                   /\ l.ws \in Sockets /\ l.session = l.ws /\ up'[e].ctr < sealed'[l.ws]
                   /\ \A i \in DOMAIN sent'[l.ws] : sent'[l.ws][i][2] < up'[e].ctr
      <4>1. CASE e = d
        <5>1. sealed[w] < sealed'[w]
          BY ONLY <3>1, <3>4
        <5>2. \A i \in DOMAIN sent[w] : sent[w][i][2] < sealed[w]
          BY <3>1, ZenonT(60) DEF AdvanceInv
        <5>3. up'[e].link.ws = w /\ up'[e].link.session = w /\ up'[e].ctr = sealed[w]
          BY <3>1, <3>3, <4>1, ZenonT(60) DEF w
        <5> QED BY <3>1, <3>2, <5>1, <5>2, <5>3, ZenonT(60)
      <4>2. CASE e # d
        <5>1. up'[e] = up[e] /\ sent' = sent
          BY <3>2, <4>2, ZenonT(60)
        <5> DEFINE v == up[e].link.ws
        <5>2. /\ v \in Sockets /\ up[e].link.session = v /\ up[e].ctr < sealed[v]
              /\ \A i \in DOMAIN sent[v] : sent[v][i][2] < up[e].ctr
          BY <3>9, <5>1, ZenonT(60) DEF AdvanceInv
        <5>3. /\ up[e].ctr \in Nat /\ sealed[v] \in Nat
              /\ sealed'[v] \in Nat /\ sealed[v] <= sealed'[v]
          BY <3>4, <3>6, <3>7, <5>2, ZenonT(60)
        <5>4. up[e].ctr < sealed'[v]
          <6> DEFINE c == up[e].ctr  m == sealed[v]  n == sealed'[v]
          <6>1. c \in Nat /\ m \in Nat /\ n \in Nat /\ c < m /\ m <= n
            BY <5>2, <5>3, ZenonT(60)
          <6> HIDE DEF c, m, n
          <6>2. c < n
            BY ONLY <6>1
          <6> QED BY <6>2, ZenonT(60) DEF c, n
        <5> QED BY <5>1, <5>2, <5>4, ZenonT(60)
      <4> QED BY <4>1, <4>2, ZenonT(60)
    <3> QED BY <3>2, <3>8, <3>9, ZenonT(60) DEF AdvanceInv, FramesAdvance
  <2> QED BY <2>1, <2>2, ZenonT(60)
<1>3. ASSUME NEW d \in Devices, UplinkSends(d) PROVE AdvanceInv'
  <2> DEFINE l == up[d].link
             w == l.ws
             f == <<l.session, up[d].ctr>>
  <2>1. /\ up[d].pc = "send" /\ sealed' = sealed
        /\ sent' = sent \/ sent' = [sent EXCEPT ![w] = Append(@, f)]
    BY <1>3, ZenonT(60) DEF UplinkSends
  <2>2. up'[d].pc # "send" /\ \A e \in Devices : e # d => up'[e] = up[e]
    BY <1>3 DEF UplinkSends, TypeOK
  <2>3. \A e \in Devices : up'[e].pc # "send"
    BY <2>1, <2>2, ZenonT(60) DEF OneSends
  <2>4. /\ w \in Sockets /\ l.session = w /\ up[d].ctr < sealed[w]
        /\ \A i \in DOMAIN sent[w] : sent[w][i][2] < up[d].ctr
    BY <2>1, ZenonT(60) DEF AdvanceInv
  <2>5. up[d].ctr \in Nat
    BY ZenonT(60) DEF TypeOK, UplinkStates
  <2>6. f \in Frames /\ f[2] = up[d].ctr
    BY <2>4, <2>5, ZenonT(60) DEF Frames
  <2> HIDE DEF l, w, f
  <2>7. CASE sent' = sent
    BY <2>1, <2>3, <2>7, ZenonT(60) DEF AdvanceInv, FramesAdvance
  <2>8. CASE sent' = [sent EXCEPT ![w] = Append(@, f)]
    <3>1. sent[w] \in Seq(Frames) /\ sent \in [Sockets -> Seq(Frames)]
      BY <2>4, ZenonT(60) DEF AdvanceInv
    <3>2. Append(sent[w], f) \in Seq(Frames) /\ Len(sent[w]) \in Nat
      BY <2>6, <3>1
    <3>3. /\ sent' \in [Sockets -> Seq(Frames)] /\ sent'[w] = Append(sent[w], f)
          /\ \A s \in Sockets : s # w => sent'[s] = sent[s]
      BY <2>4, <2>8, <3>1, <3>2, ZenonT(60)
    <3>4. /\ Len(sent'[w]) = Len(sent[w]) + 1 /\ sent'[w][Len(sent[w]) + 1] = f
          /\ \A i \in 1 .. Len(sent[w]) : sent'[w][i] = sent[w][i]
          /\ DOMAIN sent'[w] = 1 .. Len(sent[w]) + 1 /\ DOMAIN sent[w] = 1 .. Len(sent[w])
      BY <2>6, <3>1, <3>3
    <3>5. ASSUME NEW i \in 2 .. Len(sent'[w]) PROVE sent'[w][i - 1][2] < sent'[w][i][2]
      <4>1. CASE i = Len(sent[w]) + 1
        <5>1. i - 1 = Len(sent[w]) /\ i - 1 \in 1 .. Len(sent[w])
          BY <3>2, <4>1
        <5>2. sent'[w][i - 1] = sent[w][i - 1] /\ sent'[w][i] = f
          BY <3>4, <4>1, <5>1, ZenonT(60)
        <5> QED BY <2>4, <2>6, <3>4, <5>1, <5>2, ZenonT(60)
      <4>2. CASE i # Len(sent[w]) + 1
        <5>1. i \in 2 .. Len(sent[w]) /\ i - 1 \in 1 .. Len(sent[w]) /\ i \in 1 .. Len(sent[w])
          BY <3>2, <3>4, <4>2
        <5> QED BY <2>4, <3>4, <5>1, ZenonT(60) DEF AdvanceInv, FramesAdvance
      <4> QED BY <4>1, <4>2, ZenonT(60)
    <3>6. ASSUME NEW i \in DOMAIN sent'[w] PROVE sent'[w][i][2] < sealed[w]
      <4>1. CASE i = Len(sent[w]) + 1
        BY <2>4, <2>6, <3>4, <4>1, ZenonT(60)
      <4>2. CASE i # Len(sent[w]) + 1
        <5>1. i \in 1 .. Len(sent[w])
          BY <3>2, <3>4, <4>2
        <5> QED BY <2>4, <3>4, <5>1 DEF AdvanceInv
      <4> QED BY <4>1, <4>2
    <3> QED BY <2>1, <2>3, <3>3, <3>5, <3>6, ZenonT(60) DEF AdvanceInv, FramesAdvance
  <2> QED BY <2>1, <2>7, <2>8
<1> QED BY <1>1, <1>2, <1>3, OnlyUplinkSeals

\* What FramesAdvance needs: that no two uplink threads are between seal and send at
\* a time.  Then the server, which refuses a frame whose counter does not advance,
\* refuses none that the service sends, however often devices and links change.
THEOREM FramesAdvanceOneByOne == Spec /\ []OneSends => []FramesAdvance
<1>1. Init => AdvanceInv
  <2> SUFFICES ASSUME Init PROVE AdvanceInv
    OBVIOUS
  <2>1. /\ sent = [s \in Sockets |-> <<>>]
        /\ \A d \in Devices : up[d].pc # "send"
    BY DEF Init, IdleUplink
  <2>2. \A s \in Sockets : DOMAIN sent[s] = {} /\ Len(sent[s]) = 0
    BY <2>1
  <2>3. sent \in [Sockets -> Seq(Frames)]
    BY <2>1
  <2>4. FramesAdvance
    BY <2>2, <2>3 DEF FramesAdvance
  <2> QED BY <2>1, <2>2, <2>3, <2>4, ZenonT(60) DEF AdvanceInv
<1>2. TypeOK /\ OneSends /\ AdvanceInv /\ [Next]_vars => AdvanceInv'
  BY AdvanceStep
<1>3. AdvanceInv => FramesAdvance
  BY DEF AdvanceInv
<1> QED BY <1>1, <1>2, <1>3, TypeInvariant, PTL DEF Spec
=============================================================================
