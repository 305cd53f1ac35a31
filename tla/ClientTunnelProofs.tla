------------------------- MODULE ClientTunnelProofs -------------------------
(***************************************************************************)
(* The tunnel of the desktop client: its lock, its channel and its         *)
(* connection are never left behind, RunTUN leaves the routing table as it *)
(* was, and a tunnel that serves is routed right.                          *)
(***************************************************************************)
EXTENDS ClientTunnel, TLAPS

\* The parts of NothingLeaks.
LockHeld ==
  \A t \in T!Threads : (writeMu = t) <=> (pc[t] = "write" /\ t \in {"out", "alive"})
                                         \/ pc[t] = "control"
Room == errc + Busy("out") + Busy("in") <= 2
ConnClosed == pc["run"] = "end" => net \in {"none", "closed"}

LeakInv == TunnelTypeOK /\ NotStarted /\ LockHeld /\ Room /\ ConnClosed

\* The steps of the goroutines and of the network.
GoroutineStep ==
  \/ T!Dial \/ T!SendHello \/ T!HandshakeFails \/ T!Welcomed \/ T!Start
  \/ T!StartFails \/ T!RunReturns \/ T!ListenerFails \/ T!DeferredClose \/ T!Watch \/ T!OutPacket
  \/ T!OutErrs \/ T!OutWrites \/ T!InPacket \/ T!InBadFrame \/ T!InErrs
  \/ T!InWrites \/ T!Tick \/ T!AliveDone \/ T!Ping \/ T!Disconnect
  \/ T!Interrupt \/ T!ProcessEnds \/ T!Stall \/ T!Recover \/ T!Lose
  \/ T!NextSession
  \/ T!Lock("out", "write") \/ T!Lock("alive", "write")
  \/ \E t \in {"run", "user"} : T!Lock(t, "control") \/ T!CloseMessage(t) \/ T!CloseConn(t)

\* Every step keeps the lock, the channel and the connection in order.
LEMMA LeakStep == LeakInv /\ (GoroutineStep \/ UNCHANGED tunnel) => LeakInv'
<1> SUFFICES ASSUME LeakInv, GoroutineStep \/ UNCHANGED tunnel PROVE LeakInv'
  OBVIOUS
<1> USE ClientTunnelAssumption DEF LeakInv, TunnelTypeOK, NotStarted, LockHeld, Room, ConnClosed,
      Busy, T!Threads, T!Goto, T!Tun
<1>1. CASE T!Dial BY <1>1 DEF T!Dial
<1>2. CASE T!SendHello BY <1>2 DEF T!SendHello, T!WriteSucceeds
<1>3. CASE T!HandshakeFails BY <1>3 DEF T!HandshakeFails
<1>4. CASE T!Welcomed BY <1>4 DEF T!Welcomed
<1>5. CASE T!Start BY <1>5 DEF T!Start
<1>6. CASE T!StartFails BY <1>6 DEF T!StartFails
<1>7. CASE T!RunReturns BY <1>7 DEF T!RunReturns
<1>8. CASE T!DeferredClose BY <1>8 DEF T!DeferredClose
<1>9. CASE T!Watch BY <1>9 DEF T!Watch
<1>10. CASE T!OutPacket BY <1>10 DEF T!OutPacket
<1>11. CASE T!OutErrs BY <1>11 DEF T!OutErrs, T!PumpEnds
<1>12. CASE T!OutWrites BY <1>12 DEF T!OutWrites, T!PumpEnds, T!WriteErrs, T!WriteSucceeds
<1>13. CASE T!InPacket BY <1>13 DEF T!InPacket
<1>14. CASE T!InBadFrame BY <1>14 DEF T!InBadFrame, T!PumpEnds
<1>15. CASE T!InErrs BY <1>15 DEF T!InErrs, T!PumpEnds
<1>16. CASE T!InWrites BY <1>16 DEF T!InWrites, T!PumpEnds
<1>17. CASE T!Tick BY <1>17 DEF T!Tick
<1>18. CASE T!AliveDone BY <1>18 DEF T!AliveDone
<1>19. CASE T!Ping BY <1>19 DEF T!Ping, T!WriteErrs, T!WriteSucceeds
<1>20. CASE T!Disconnect BY <1>20 DEF T!Disconnect
<1>21. CASE T!Interrupt BY <1>21 DEF T!Interrupt
<1>22. CASE T!ProcessEnds
  <2> USE <1>22 DEF T!ProcessEnds
  <2>1. TunnelTypeOK' BY ZenonT(60)
  <2>2. NotStarted' OBVIOUS
  <2>3. LockHeld' OBVIOUS
  <2>4. Room' OBVIOUS
  <2>5. ConnClosed' OBVIOUS
  <2> QED BY <2>1, <2>2, <2>3, <2>4, <2>5, SMTT(30)
<1>23. CASE T!Stall BY <1>23 DEF T!Stall
<1>24. CASE T!Recover BY <1>24 DEF T!Recover
<1>25. CASE T!Lose BY <1>25 DEF T!Lose
<1>26. CASE T!NextSession
  <2> USE <1>26 DEF T!NextSession
  <2>1. TunnelTypeOK' BY ZenonT(60)
  <2>2. NotStarted' OBVIOUS
  <2>3. LockHeld' OBVIOUS
  <2>4. Room' OBVIOUS
  <2>5. ConnClosed' OBVIOUS
  <2> QED BY <2>1, <2>2, <2>3, <2>4, <2>5, SMTT(30)
<1>27. CASE T!Lock("out", "write") BY <1>27 DEF T!Lock
<1>28. CASE T!Lock("alive", "write") BY <1>28 DEF T!Lock
<1>29. CASE \E t \in {"run", "user"} : T!Lock(t, "control") BY <1>29 DEF T!Lock
<1>30. CASE \E t \in {"run", "user"} : T!CloseMessage(t) BY <1>30 DEF T!CloseMessage
<1>31. CASE \E t \in {"run", "user"} : T!CloseConn(t) BY <1>31 DEF T!CloseConn
<1>32. CASE UNCHANGED tunnel BY <1>32, SMTT(30) DEF tunnel
<1>33. CASE T!ListenerFails BY <1>33 DEF T!ListenerFails
<1> QED BY <1>1, <1>2, <1>3, <1>4, <1>5, <1>6, <1>7, <1>8, <1>9, <1>10, <1>11, <1>12,
      <1>13, <1>14, <1>15, <1>16, <1>17, <1>18, <1>19, <1>20, <1>21, <1>22, <1>23, <1>24, <1>25,
      <1>26, <1>27, <1>28, <1>29, <1>30, <1>31, <1>32, <1>33, ZenonT(60) DEF GoroutineStep

\* Every step of the client is one of them, or leaves the tunnel alone.
LEMMA GoroutineSteps == [Next]_vars => GoroutineStep \/ UNCHANGED tunnel
<1> SUFFICES ASSUME [Next]_vars PROVE GoroutineStep \/ UNCHANGED tunnel
  OBVIOUS
<1> USE DEF GoroutineStep, Only, OnlyRoutes
<1>1. CASE Dial BY <1>1 DEF Dial
<1>2. CASE HandshakeFails BY <1>2 DEF HandshakeFails
<1>3. CASE StartProxy BY <1>3 DEF StartProxy
<1>4. CASE CreateTUN BY <1>4 DEF CreateTUN
<1>5. CASE ConfigureTUN BY <1>5 DEF ConfigureTUN
<1>6. CASE StepDone BY <1>6 DEF StepDone
<1>7. CASE Watch BY <1>7 DEF Watch
<1>8. CASE RunReturns BY <1>8 DEF RunReturns
<1>9. CASE Cleanup BY <1>9 DEF Cleanup
<1>10. CASE CloseDevice BY <1>10 DEF CloseDevice
<1>11. CASE CommandEnds BY <1>11 DEF CommandEnds
<1>12. CASE Close BY <1>12 DEF Close
<1>13. CASE Killed BY <1>13 DEF Killed
<1>14. CASE User BY <1>14 DEF User
<1>15. CASE Roam BY <1>15 DEF Roam
<1>16. CASE Reboot BY <1>16 DEF Reboot
<1>17. CASE NextSession BY <1>17 DEF NextSession
<1>18. CASE UNCHANGED vars BY <1>18 DEF vars
<1>19. CASE Only(T!SendHello) \/ Only(T!Welcomed) \/ Only(T!ListenerFails)
              \/ Only(T!OutPacket) \/ Only(T!OutErrs)
              \/ Only(T!OutWrites) \/ Only(T!InPacket) \/ Only(T!InBadFrame) \/ Only(T!InErrs)
              \/ Only(T!InWrites) \/ Only(T!Tick) \/ Only(T!AliveDone) \/ Only(T!Ping)
              \/ Only(T!Lock("out", "write")) \/ Only(T!Lock("alive", "write"))
              \/ Only(T!Lock("user", "control"))
              \/ Only(T!Stall) \/ Only(T!Recover) \/ Only(T!Lose)
  BY <1>19
<1>20. CASE \E t \in {"run", "user"} : Only(T!CloseMessage(t)) \/ Only(T!CloseConn(t))
  BY <1>20
<1> QED BY <1>1, <1>2, <1>3, <1>4, <1>5, <1>6, <1>7, <1>8, <1>9, <1>10, <1>11, <1>12, <1>13,
      <1>14, <1>15, <1>16, <1>17, <1>18, <1>19, <1>20, ZenonT(60) DEF Next

\* They hold throughout.
LEMMA LeakInvariant == Spec => []LeakInv
<1>1. Init => LeakInv
  <2> SUFFICES ASSUME T!Init PROVE LeakInv
    BY DEF Init
  <2> USE ClientTunnelAssumption DEF T!Init, T!Threads
  <2>1. TunnelTypeOK BY ZenonT(60) DEF TunnelTypeOK
  <2>2. NotStarted BY DEF NotStarted
  <2>3. LockHeld BY DEF LockHeld
  <2>4. Room BY DEF Room, Busy
  <2>5. ConnClosed BY DEF ConnClosed
  <2> QED BY <2>1, <2>2, <2>3, <2>4, <2>5 DEF LeakInv
<1>2. LeakInv /\ [Next]_vars => LeakInv'
  BY LeakStep, GoroutineSteps
<1> QED BY <1>1, <1>2, PTL DEF Spec

\* Whatever the network, the user and the goroutines do, a goroutine that is not
\* about to write does not hold writeMu, errc has room for both goroutines of
\* pump, and a run goroutine that is at its end has closed the connection.
THEOREM NothingIsLeft == Spec => []NothingLeaks
<1>1. LeakInv => NothingLeaks
  BY DEF LeakInv, NothingLeaks, LockHeld, Room, ConnClosed
<1> QED BY <1>1, LeakInvariant, PTL
-----------------------------------------------------------------------------
(* How a tunnel ends *)

\* A goroutine has been started and has not returned.
Runs(t) == pc[t] \notin {"none", "end"}

\* Behind EndsCompletely: nobody waits for what never comes.  While RunTUN or
\* RunProxy waits for errc, each goroutine of pump is there or its error is, and
\* in TUN mode the end of the context will close the device, if it has not.  When
\* supervise has left the tunnel, whoever still reads the connection, the device or
\* done finds it closed.
NobodyStranded ==
  /\ pc["run"] = "wait" =>
       /\ errc + Busy("out") + Busy("in") = 2
       /\ T!Tun => pc["watch"] = "wait" \/ dev = "closed"
  /\ pc["run"] = "end" =>
       /\ Runs("in") => net = "closed"
       /\ T!Tun /\ Runs("out") => dev = "closed"
       /\ Runs("alive") => done

\* Besides, the device and done are closed from the deferred calls on.
StrandInv ==
  /\ NobodyStranded
  /\ pc["run"] \in {"lock", "control", "close", "end"} =>
       (T!Tun /\ Runs("out") => dev = "closed")
  /\ pc["run"] \in {"defer", "lock", "control", "close", "end"} => (Runs("alive") => done)

\* Every step of a goroutine keeps that.
LEMMA StrandStep == LeakInv /\ StrandInv /\ (GoroutineStep \/ UNCHANGED tunnel) => StrandInv'
<1> SUFFICES ASSUME LeakInv, StrandInv, GoroutineStep \/ UNCHANGED tunnel PROVE StrandInv'
  OBVIOUS
<1> USE DEF LeakInv, TunnelTypeOK, NotStarted, StrandInv, NobodyStranded, Runs, Busy, T!Threads,
      T!Goto, T!Tun
<1>1. CASE T!Dial BY <1>1 DEF T!Dial
<1>2. CASE T!SendHello BY <1>2 DEF T!SendHello, T!WriteSucceeds
<1>3. CASE T!HandshakeFails BY <1>3 DEF T!HandshakeFails
<1>4. CASE T!Welcomed BY <1>4 DEF T!Welcomed
<1>5. CASE T!Start BY <1>5 DEF T!Start
<1>6. CASE T!StartFails BY <1>6 DEF T!StartFails
<1>7. CASE T!RunReturns BY <1>7 DEF T!RunReturns
<1>8. CASE T!DeferredClose BY <1>8 DEF T!DeferredClose
<1>9. CASE T!Watch BY <1>9 DEF T!Watch
<1>10. CASE T!OutPacket BY <1>10 DEF T!OutPacket
<1>11. CASE T!OutErrs BY <1>11 DEF T!OutErrs, T!PumpEnds
<1>12. CASE T!OutWrites BY <1>12 DEF T!OutWrites, T!PumpEnds, T!WriteErrs, T!WriteSucceeds
<1>13. CASE T!InPacket BY <1>13 DEF T!InPacket
<1>14. CASE T!InBadFrame BY <1>14 DEF T!InBadFrame, T!PumpEnds
<1>15. CASE T!InErrs BY <1>15 DEF T!InErrs, T!PumpEnds
<1>16. CASE T!InWrites BY <1>16 DEF T!InWrites, T!PumpEnds
<1>17. CASE T!Tick BY <1>17 DEF T!Tick
<1>18. CASE T!AliveDone BY <1>18 DEF T!AliveDone
<1>19. CASE T!Ping BY <1>19 DEF T!Ping, T!WriteErrs, T!WriteSucceeds
<1>20. CASE T!Disconnect BY <1>20 DEF T!Disconnect
<1>21. CASE T!Interrupt BY <1>21 DEF T!Interrupt
<1>22. CASE T!ProcessEnds BY <1>22 DEF T!ProcessEnds
<1>23. CASE T!Stall BY <1>23 DEF T!Stall
<1>24. CASE T!Recover BY <1>24 DEF T!Recover
<1>25. CASE T!Lose BY <1>25 DEF T!Lose
<1>26. CASE T!NextSession BY <1>26 DEF T!NextSession
<1>27. CASE T!Lock("out", "write") BY <1>27 DEF T!Lock
<1>28. CASE T!Lock("alive", "write") BY <1>28 DEF T!Lock
<1>29. CASE \E t \in {"run", "user"} : T!Lock(t, "control") BY <1>29 DEF T!Lock
<1>30. CASE \E t \in {"run", "user"} : T!CloseMessage(t) BY <1>30 DEF T!CloseMessage
<1>31. CASE \E t \in {"run", "user"} : T!CloseConn(t) BY <1>31 DEF T!CloseConn
<1>32. CASE UNCHANGED tunnel BY <1>32 DEF tunnel
<1>33. CASE T!ListenerFails BY <1>33 DEF T!ListenerFails
<1> QED BY <1>1, <1>2, <1>3, <1>4, <1>5, <1>6, <1>7, <1>8, <1>9, <1>10, <1>11, <1>12, <1>13,
      <1>14, <1>15, <1>16, <1>17, <1>18, <1>19, <1>20, <1>21, <1>22, <1>23, <1>24, <1>25,
      <1>26, <1>27, <1>28, <1>29, <1>30, <1>31, <1>32, <1>33, ZenonT(60) DEF GoroutineStep

\* Wherever a connection breaks, a command fails or the user disconnects, no
\* goroutine of the tunnel is left waiting for something that nobody will do.
THEOREM NobodyIsStranded == Spec => []NobodyStranded
<1>1. Init => StrandInv
  BY DEF Init, T!Init, StrandInv, NobodyStranded, Runs, T!Threads
<1>2. LeakInv /\ StrandInv /\ [Next]_vars => StrandInv'
  BY StrandStep, GoroutineSteps
<1>3. StrandInv => NobodyStranded
  BY DEF StrandInv
<1> QED BY <1>1, <1>2, <1>3, LeakInvariant, PTL DEF Spec
-----------------------------------------------------------------------------
\* The steps of the routing.
RoutingStep ==
  \/ R!Dialled \/ R!Abandoned \/ R!CreateTUN \/ R!DefaultRoute \/ R!NoDefaultRoute
  \/ R!StepDone \/ R!StepFails \/ R!DeviceClosed \/ R!PumpReturns \/ R!Undo \/ R!UndoFails
  \/ R!CloseDevice \/ R!Crash \/ R!Roam \/ R!Reboot

\* The commands of configureTUN, by their numbers.
LEMMA TheSteps ==
  /\ Len(R!Steps) = 3
  /\ R!Steps[1] = "pin" /\ R!Steps[2] = "0.0.0.0/1" /\ R!Steps[3] = "128.0.0.0/1"
  /\ R!Adds("pin") = {R!Route(serverIP, orig)}
  /\ \A s \in R!Halves : R!Adds(s) = {R!Route(s, "tun")}
BY DEF R!Steps, R!Adds, R!Halves

\* The interfaces that are up are interfaces.
LEMMA UpAreUplinks == ASSUME NEW u \in Seq(Uplinks) PROVE R!Range(u) \subseteq Uplinks
BY DEF R!Range

\* At rest the route to a server is over an interface that is up.
LEMMA DialledOver ==
  ASSUME RoutingTypeOK, Laid, route = "idle", uplinks # <<>>, NEW s \in Servers
  PROVE  R!Dev(s) \in R!Range(uplinks)
<1>1. CASE \E r \in table : r.dst = s
  <2>1. (CHOOSE r \in table : r.dst = s) \in table
    BY <1>1
  <2>2. R!Dev(s) = (CHOOSE r \in table : r.dst = s).dev
    BY <1>1 DEF R!Dev
  <2> QED BY <2>1, <2>2 DEF Laid
<1>2. CASE \A r \in table : r.dst # s
  <2>1. \A x \in R!Halves : R!Route(x, "tun") \notin table
    BY DEF Laid, R!Route
  <2>2. R!Dev(s) = Head(uplinks)
    BY <1>2, <2>1 DEF R!Dev, R!Halves
  <2>3. Head(uplinks) = uplinks[1] /\ 1 \in DOMAIN uplinks
    BY DEF RoutingTypeOK
  <2> QED BY <2>2, <2>3 DEF R!Range
<1> QED BY <1>1, <1>2

\* Every step of the routing keeps to the routes there can be.
LEMMA LaidStep ==
  RoutingTypeOK /\ Laid /\ (RoutingStep \/ UNCHANGED routing) => RoutingTypeOK' /\ Laid'
<1> SUFFICES ASSUME RoutingTypeOK, Laid, RoutingStep \/ UNCHANGED routing
             PROVE  RoutingTypeOK' /\ Laid'
  OBVIOUS
<1>1. CASE R!Dialled
  <2>1. RoutingTypeOK'
    BY <1>1 DEF R!Dialled, RoutingTypeOK, R!setting
  <2>2. Laid'
    BY <1>1, DialledOver DEF R!Dialled, Laid, R!setting
  <2> QED BY <2>1, <2>2
<1>2. CASE R!Abandoned
  <2>1. RoutingTypeOK'
    BY <1>2 DEF R!Abandoned, R!Ended, RoutingTypeOK, R!setting
  <2>2. Laid'
    BY <1>2, ZenonT(60) DEF R!Abandoned, R!Ended, Laid, R!setting
  <2> QED BY <2>1, <2>2
<1>3. CASE R!CreateTUN
  <2>1. RoutingTypeOK'
    BY <1>3 DEF R!CreateTUN, RoutingTypeOK, R!setting
  <2>2. Laid'
    BY <1>3 DEF R!CreateTUN, Laid, R!setting
  <2> QED BY <2>1, <2>2
<1>4. CASE R!DefaultRoute
  <2>1. RoutingTypeOK'
    BY <1>4 DEF R!DefaultRoute, RoutingTypeOK, R!setting
  <2>2. Laid'
    BY <1>4 DEF R!DefaultRoute, Laid, R!setting
  <2> QED BY <2>1, <2>2
<1>5. CASE R!NoDefaultRoute
  <2>1. RoutingTypeOK'
    BY <1>5 DEF R!NoDefaultRoute, RoutingTypeOK, R!setting
  <2>2. Laid'
    BY <1>5 DEF R!NoDefaultRoute, Laid, R!setting
  <2> QED BY <2>1, <2>2
<1>6. CASE R!StepDone
  <2>1. step < 3 /\ step' = step + 1 /\ route = "setup" /\ route' \in {"setup", "serving"}
    BY <1>6, TheSteps DEF R!StepDone
  <2>2. RoutingTypeOK'
    BY <1>6, <2>1 DEF R!StepDone, RoutingTypeOK, R!setting
  <2>3. \/ table' = table \cup {R!Route(serverIP, orig)} /\ orig \in R!Range(uplinks)
        \/ \E x \in R!Halves : step >= 1 /\ table' = table \cup {R!Route(x, "tun")}
    BY <1>6, <2>1, TheSteps DEF R!StepDone, R!Halves, RoutingTypeOK
  <2>4. UNCHANGED <<panel, windows, uplinks, tun, carrier, serverIP, orig, dirty>>
    BY <1>6 DEF R!StepDone, R!setting
  <2>5. Laid'
    BY <2>1, <2>3, <2>4 DEF Laid, R!Route, RoutingTypeOK
  <2> QED BY <2>2, <2>5
<1>7. CASE R!StepFails
  <2>1. RoutingTypeOK'
    BY <1>7 DEF R!StepFails, RoutingTypeOK, R!setting
  <2>2. Laid'
    BY <1>7 DEF R!StepFails, Laid, R!setting
  <2> QED BY <2>1, <2>2
<1>8. CASE R!DeviceClosed
  <2>1. RoutingTypeOK'
    BY <1>8, ZenonT(60) DEF R!DeviceClosed, RoutingTypeOK, R!setting
  <2>2. Laid'
    BY <1>8 DEF R!DeviceClosed, Laid, R!setting
  <2> QED BY <2>1, <2>2
<1>9. CASE R!PumpReturns
  <2>1. RoutingTypeOK'
    BY <1>9 DEF R!PumpReturns, RoutingTypeOK, R!setting
  <2>2. Laid'
    BY <1>9 DEF R!PumpReturns, Laid, R!setting
  <2> QED BY <2>1, <2>2
<1>10. CASE R!Undo
  <2>1. RoutingTypeOK'
    BY <1>10 DEF R!Undo, RoutingTypeOK, R!setting
  <2>2. step = 1 => R!Route(serverIP, orig) \notin table'
    BY <1>10, TheSteps DEF R!Undo, R!Removed, R!Route
  <2>3. table' \subseteq table /\ step \in 1 .. 3 /\ step' = step - 1 /\ route' = "undo"
    BY <1>10 DEF R!Undo, RoutingTypeOK
  <2>4. UNCHANGED <<panel, windows, uplinks, tun, route, carrier, serverIP, orig, dirty>>
    BY <1>10 DEF R!Undo, R!setting
  <2>5. Laid'
    BY <2>2, <2>3, <2>4 DEF Laid
  <2> QED BY <2>1, <2>5
<1>11. CASE R!UndoFails
  <2>1. RoutingTypeOK'
    BY <1>11 DEF R!UndoFails, RoutingTypeOK, R!setting
  <2>2. Laid'
    BY <1>11 DEF R!UndoFails, Laid, R!setting
  <2> QED BY <2>1, <2>2
<1>12. CASE R!CloseDevice
  <2>1. RoutingTypeOK'
    BY <1>12, ZenonT(60) DEF R!CloseDevice, R!Ended, RoutingTypeOK, R!setting
  <2>2. Laid'
    BY <1>12 DEF R!CloseDevice, R!Ended, R!Through, Laid, R!setting, RoutingTypeOK
  <2> QED BY <2>1, <2>2
<1>13. CASE R!Crash
  <2>0. dirty' \in BOOLEAN
    BY <1>13, ZenonT(60) DEF R!Crash, R!Ended
  <2>1. tun' = FALSE /\ step' = 0 /\ route' = "idle" /\ UNCHANGED <<windows, panel, uplinks>>
    BY <1>13 DEF R!Crash, R!Ended, R!setting
  <2>3. RoutingTypeOK'
    <3>1. step' \in 0 .. 3 BY <2>1
    <3> QED BY <2>0, <2>1, <3>1, ZenonT(60) DEF RoutingTypeOK
  <2>2. Laid'
    BY <1>13, ZenonT(60) DEF R!Crash, R!Ended, R!Through, Laid, R!setting
  <2> QED BY <2>2, <2>3
<1>14. CASE R!Roam
  <2>1. uplinks' \in Seq(Uplinks)
    BY <1>14, ClientTunnelAssumption DEF R!Roam
  <2>2. RoutingTypeOK'
    BY <1>14, <2>1 DEF R!Roam, RoutingTypeOK, R!setting
  <2>3. R!Range(uplinks) \subseteq Uplinks /\ "tun" \notin R!Range(uplinks)
    BY UpAreUplinks, ClientTunnelAssumption DEF RoutingTypeOK
  <2>4. \A r \in table' : r \in table /\ (r.dev \in Uplinks => r.dev \in R!Range(uplinks'))
    BY <1>14 DEF R!Roam, R!Through
  <2>5. carrier' = R!NoCarrier \/ (carrier' = carrier /\ carrier.dev \notin Uplinks \ R!Range(uplinks'))
    BY <1>14 DEF R!Roam
  <2>6. /\ UNCHANGED <<panel, windows, tun, route, step, serverIP, orig>>
        /\ (~dirty') => (~dirty \/ table' = {})
    BY <1>14, ZenonT(60) DEF R!Roam, R!setting
  <2>7. Laid'
    BY <2>3, <2>4, <2>5, <2>6 DEF Laid
  <2> QED BY <2>2, <2>7
<1>15. CASE R!Reboot
  <2>0. dirty' \in BOOLEAN
    BY <1>15, ZenonT(60) DEF R!Reboot, R!Ended
  <2>1. tun' = FALSE /\ step' = 0 /\ route' = "idle" /\ UNCHANGED <<windows, panel, uplinks>>
    BY <1>15 DEF R!Reboot, R!Ended, R!setting
  <2>3. RoutingTypeOK'
    <3>1. step' \in 0 .. 3 BY <2>1
    <3> QED BY <2>0, <2>1, <3>1, ZenonT(60) DEF RoutingTypeOK
  <2>2. Laid'
    BY <1>15 DEF R!Reboot, R!Ended, Laid, R!setting
  <2> QED BY <2>2, <2>3
<1>16. CASE UNCHANGED routing
  <2>1. RoutingTypeOK'
    BY <1>16 DEF routing, RoutingTypeOK
  <2>2. Laid'
    BY <1>16 DEF routing, Laid
  <2> QED BY <2>1, <2>2
<1> QED BY <1>1, <1>2, <1>3, <1>4, <1>5, <1>6, <1>7, <1>8, <1>9, <1>10, <1>11, <1>12, <1>13,
      <1>14, <1>15, <1>16 DEF RoutingStep

\* Every step of the client is one of them, or leaves the routing alone.
LEMMA RoutingSteps == [Next]_vars => RoutingStep \/ UNCHANGED routing
<1> SUFFICES ASSUME [Next]_vars PROVE RoutingStep \/ UNCHANGED routing
  OBVIOUS
<1> USE DEF RoutingStep, Only, OnlyRoutes
<1>1. CASE Dial BY <1>1 DEF Dial
<1>2. CASE HandshakeFails BY <1>2 DEF HandshakeFails
<1>3. CASE StartProxy BY <1>3 DEF StartProxy
<1>4. CASE CreateTUN BY <1>4 DEF CreateTUN
<1>5. CASE ConfigureTUN BY <1>5 DEF ConfigureTUN
<1>6. CASE StepDone BY <1>6 DEF StepDone
<1>7. CASE Watch BY <1>7 DEF Watch
<1>8. CASE RunReturns BY <1>8 DEF RunReturns
<1>9. CASE Cleanup BY <1>9 DEF Cleanup
<1>10. CASE CloseDevice BY <1>10 DEF CloseDevice
<1>11. CASE CommandEnds BY <1>11 DEF CommandEnds
<1>12. CASE Close BY <1>12 DEF Close
<1>13. CASE Killed BY <1>13 DEF Killed
<1>14. CASE User BY <1>14 DEF User
<1>15. CASE Roam BY <1>15 DEF Roam
<1>16. CASE Reboot BY <1>16 DEF Reboot
<1>17. CASE NextSession BY <1>17 DEF NextSession
<1>18. CASE UNCHANGED vars BY <1>18 DEF vars
<1>19. CASE Only(T!SendHello) \/ Only(T!Welcomed) \/ Only(T!ListenerFails)
              \/ Only(T!OutPacket) \/ Only(T!OutErrs)
              \/ Only(T!OutWrites) \/ Only(T!InPacket) \/ Only(T!InBadFrame) \/ Only(T!InErrs)
              \/ Only(T!InWrites) \/ Only(T!Tick) \/ Only(T!AliveDone) \/ Only(T!Ping)
              \/ Only(T!Lock("out", "write")) \/ Only(T!Lock("alive", "write"))
              \/ Only(T!Lock("user", "control"))
              \/ Only(T!Stall) \/ Only(T!Recover) \/ Only(T!Lose)
  BY <1>19
<1>20. CASE \E t \in {"run", "user"} : Only(T!CloseMessage(t)) \/ Only(T!CloseConn(t))
  BY <1>20
<1> QED BY <1>1, <1>2, <1>3, <1>4, <1>5, <1>6, <1>7, <1>8, <1>9, <1>10, <1>11, <1>12, <1>13,
      <1>14, <1>15, <1>16, <1>17, <1>18, <1>19, <1>20, ZenonT(60) DEF Next

\* They hold throughout.
LEMMA LaidInvariant == Spec => [](RoutingTypeOK /\ Laid)
<1>1. Init => RoutingTypeOK /\ Laid
  <2> SUFFICES ASSUME R!Init PROVE RoutingTypeOK /\ Laid
    BY DEF Init
  <2>0. PICK u \in Uplinks : uplinks = <<u>>
    BY DEF R!Init
  <2>1. /\ uplinks \in Seq(Uplinks) /\ step \in 0 .. 3 /\ table = {}
        /\ route = "idle" /\ ~tun /\ carrier = R!NoCarrier
    BY <2>0 DEF R!Init
  <2>2. RoutingTypeOK
    BY <2>1, ZenonT(60) DEF R!Init, RoutingTypeOK
  <2>3. Laid
    BY <2>1 DEF Laid
  <2> QED BY <2>2, <2>3
<1>2. RoutingTypeOK /\ Laid /\ [Next]_vars => (RoutingTypeOK /\ Laid)'
  BY LaidStep, RoutingSteps
<1> QED BY <1>1, <1>2, PTL DEF Spec

\* Whichever command of configureTUN or of the undoing fails, wherever the client
\* roams and whenever it is killed: when RunTUN is over, the device is gone and
\* with it every route through it, and the table is as it was, but for a pinned
\* route that a killed process or a failed command has left.
THEOREM RoutesAreRestored == Spec => []RoutesRestored
<1>1. RoutingTypeOK /\ Laid => RoutesRestored
  <2> SUFFICES ASSUME RoutingTypeOK, Laid, route = "idle"
               PROVE  /\ ~tun
                      /\ ~dirty => table = {}
                      /\ \A r \in table : r.dst \in Servers \cup {Gateway} /\ r.dev \in Uplinks
    BY DEF RoutesRestored
  <2>1. ~tun /\ \A r \in table : r.dev # "tun"
    BY DEF Laid
  <2>2. ~dirty => table = {}
    BY <2>1 DEF Laid
  <2>3. \A r \in table : r.dst \in Servers \cup {Gateway} /\ r.dev \in Uplinks
    BY <2>1, UpAreUplinks DEF Laid, RoutingTypeOK
  <2> QED BY <2>1, <2>2, <2>3
<1> QED BY <1>1, LaidInvariant, PTL
-----------------------------------------------------------------------------
\* What InStep and HalvesLaid ask of a step that leaves the routing alone: the
\* run goroutine does not get ahead of it, and the context ends only once.
LEMMA RoutingWaits ==
  ASSUME LeakInv, InStep, HalvesLaid, UNCHANGED routing, mode' = mode,
         cancelled' = cancelled \/ cancelled' = TRUE \/ pc["run"] # "wait",
         \/ pc'["run"] = pc["run"]
         \/ pc["run"] = "hello" /\ pc'["run"] = "welcome"
         \/ pc["run"] = "welcome" /\ pc'["run"] = "start"
         \/ route = "idle" /\ pc'["run"] \in {"dial", "lock", "control", "close", "end"}
         \/ ~T!Tun
  PROVE  InStep' /\ HalvesLaid'
<1>1. InStep'
  BY DEF InStep, T!Tun, routing
<1>2. HalvesLaid'
  BY DEF HalvesLaid, InStep, routing
<1> QED BY <1>1, <1>2

\* Every step keeps the two together.
LEMMA InStepStep ==
  LeakInv /\ RoutingTypeOK /\ Laid /\ InStep /\ HalvesLaid /\ [Next]_vars => InStep' /\ HalvesLaid'
<1> SUFFICES ASSUME LeakInv, RoutingTypeOK, Laid, InStep, HalvesLaid, [Next]_vars
             PROVE  InStep' /\ HalvesLaid'
  OBVIOUS
<1>a. \A t, l : pc' = [pc EXCEPT ![t] = l] /\ t # "run" => pc'["run"] = pc["run"]
  BY DEF LeakInv, TunnelTypeOK, T!Threads
<1>b. \A l : pc' = [pc EXCEPT !["run"] = l] => pc'["run"] = l
  BY DEF LeakInv, TunnelTypeOK, T!Threads
<1>1. CASE Only(T!OutPacket)
  BY <1>1, <1>a, RoutingWaits DEF Only, T!OutPacket, T!Goto
<1>2. CASE Only(T!OutErrs)
  BY <1>2, <1>a, RoutingWaits DEF Only, T!OutErrs, T!Goto, T!PumpEnds
<1>3. CASE Only(T!OutWrites)
  BY <1>3, <1>a, RoutingWaits DEF Only, T!OutWrites, T!Goto, T!PumpEnds
<1>4. CASE Only(T!InPacket)
  BY <1>4, <1>a, RoutingWaits DEF Only, T!InPacket, T!Goto
<1>5. CASE Only(T!InBadFrame)
  BY <1>5, <1>a, RoutingWaits DEF Only, T!InBadFrame, T!Goto, T!PumpEnds
<1>6. CASE Only(T!InErrs)
  BY <1>6, <1>a, RoutingWaits DEF Only, T!InErrs, T!Goto, T!PumpEnds
<1>7. CASE Only(T!InWrites)
  BY <1>7, <1>a, RoutingWaits DEF Only, T!InWrites, T!Goto, T!PumpEnds
<1>8. CASE Only(T!Tick)
  BY <1>8, <1>a, RoutingWaits DEF Only, T!Tick, T!Goto
<1>9. CASE Only(T!AliveDone)
  BY <1>9, <1>a, RoutingWaits DEF Only, T!AliveDone, T!Goto
<1>10. CASE Only(T!Ping)
  BY <1>10, <1>a, RoutingWaits DEF Only, T!Ping, T!Goto
<1>11. CASE Only(T!Lock("out", "write"))
  BY <1>11, <1>a, RoutingWaits DEF Only, T!Lock, T!Goto
<1>12. CASE Only(T!Lock("alive", "write"))
  BY <1>12, <1>a, RoutingWaits DEF Only, T!Lock, T!Goto
<1>13. CASE Only(T!Lock("user", "control"))
  BY <1>13, <1>a, RoutingWaits DEF Only, T!Lock, T!Goto
<1>14. CASE Only(T!Stall)
  BY <1>14, <1>a, RoutingWaits DEF Only, T!Stall, T!Goto
<1>15. CASE Only(T!Recover)
  BY <1>15, <1>a, RoutingWaits DEF Only, T!Recover, T!Goto
<1>16. CASE Only(T!Lose)
  BY <1>16, <1>a, RoutingWaits DEF Only, T!Lose, T!Goto
<1>17. CASE Only(T!SendHello)
  BY <1>17, <1>b, RoutingWaits DEF Only, T!SendHello, T!Goto
<1>18. CASE Only(T!Welcomed)
  BY <1>18, <1>b, RoutingWaits DEF Only, T!Welcomed, T!Goto
<1>19. CASE \E t \in {"run", "user"} : Only(T!CloseMessage(t)) \/ Only(T!CloseConn(t))
  <2>1. PICK t \in {"run", "user"} : Only(T!CloseMessage(t)) \/ Only(T!CloseConn(t))
    BY <1>19
  <2>2. CASE t = "user"
    <3>1. pc'["run"] = pc["run"] /\ mode' = mode /\ cancelled' = cancelled /\ UNCHANGED routing
      BY <2>1, <2>2, <1>a DEF Only, T!CloseMessage, T!CloseConn, T!Goto
    <3> QED BY <3>1, RoutingWaits
  <2>3. CASE t = "run"
    <3>1. pc["run"] \in {"control", "close"} /\ pc'["run"] \in {"close", "end"}
      BY <2>1, <2>3, <1>b DEF Only, T!CloseMessage, T!CloseConn, T!Goto
    <3>2. route = "idle"
      BY <3>1 DEF InStep, RoutingTypeOK
    <3> QED BY <2>1, <3>1, <3>2, RoutingWaits, ZenonT(60) DEF Only, T!CloseMessage, T!CloseConn
  <2> QED BY <2>2, <2>3
<1>20. CASE Close
  <2>1. pc["run"] = "lock" /\ pc'["run"] = "control"
    BY <1>20, <1>b, ZenonT(60) DEF Close, Only, T!Lock, T!Goto
  <2>2. route = "idle"
    BY <2>1 DEF InStep, RoutingTypeOK
  <2> QED BY <1>20, <2>1, <2>2, RoutingWaits DEF Close, Only, T!Lock
<1>21. CASE CommandEnds
  <2>1. pc["run"] = "lock" /\ pc'["run"] = "end"
    BY <1>21 DEF CommandEnds, Only, T!ProcessEnds, T!Threads
  <2>2. route = "idle"
    BY <2>1 DEF InStep, RoutingTypeOK
  <2> QED BY <1>21, <2>1, <2>2, RoutingWaits DEF CommandEnds, Only, T!ProcessEnds
<1>22. CASE NextSession
  <2>1. pc["run"] = "end" /\ pc'["run"] = "dial"
    BY <1>22 DEF NextSession, Only, T!NextSession, T!Over, T!Threads
  <2>2. route = "idle"
    BY <2>1 DEF InStep, RoutingTypeOK
  <2> QED BY <1>22, <2>1, <2>2, RoutingWaits DEF NextSession, Only, T!NextSession
<1>23. CASE User
  <2>1. pc'["run"] = pc["run"] /\ mode' = mode /\ cancelled' = TRUE /\ UNCHANGED routing
    BY <1>23, <1>a DEF User, Only, T!Disconnect, T!Interrupt, T!Goto
  <2> QED BY <2>1, RoutingWaits
<1>24. CASE StartProxy
  BY <1>24, RoutingWaits, ZenonT(60) DEF StartProxy, Only, T!Start, T!StartFails
<1>25. CASE Dial
  <2>1. pc["run"] = "dial" /\ route = "idle" /\ mode' = mode /\ cancelled' = cancelled
    BY <1>25 DEF Dial, T!Dial, InStep, RoutingTypeOK
  <2>2. CASE T!Tun /\ net' = "up"
    <3>1. pc'["run"] = "hello"
      BY <1>25, <2>2, <1>b DEF Dial, T!Dial, T!Goto, LeakInv, NotStarted
    <3>2. route' = "create"
      BY <1>25, <2>2 DEF Dial, R!Dialled
    <3> QED BY <2>1, <2>2, <3>1, <3>2 DEF InStep, HalvesLaid, T!Tun
  <2>3. CASE ~(T!Tun /\ net' = "up")
    <3>1. ~T!Tun \/ pc'["run"] = "end"
      BY <1>25, <2>3, <1>b DEF Dial, T!Dial, T!Goto
    <3>2. UNCHANGED routing
      BY <1>25, <2>3 DEF Dial
    <3> QED BY <2>1, <3>1, <3>2, RoutingWaits
  <2> QED BY <2>2, <2>3
<1>26. CASE HandshakeFails
  <2>1. pc'["run"] = "end" /\ mode' = mode /\ cancelled' = cancelled
    BY <1>26, <1>b, ZenonT(60) DEF HandshakeFails, T!HandshakeFails, T!Goto
  <2>2. CASE T!Tun
    <3>1. route' = "idle"
      BY <1>26, <2>2 DEF HandshakeFails, R!Abandoned, R!Ended
    <3> QED BY <2>1, <2>2, <3>1 DEF InStep, HalvesLaid, T!Tun
  <2>3. CASE ~T!Tun
    BY <1>26, <2>1, <2>3, RoutingWaits DEF HandshakeFails
  <2> QED BY <2>2, <2>3
<1>27. CASE CreateTUN
  <2>1. CASE OnlyRoutes(R!CreateTUN)
    <3>1. route' = "lookup" /\ pc'["run"] = "start" /\ mode' = mode /\ T!Tun
      BY <1>27, <2>1 DEF CreateTUN, OnlyRoutes, R!CreateTUN, tunnel
    <3> QED BY <3>1 DEF InStep, HalvesLaid, T!Tun
  <2>2. CASE R!Abandoned /\ T!StartFails
    <3>1. route' = "idle" /\ pc'["run"] = "lock" /\ mode' = mode /\ T!Tun
      BY <1>27, <2>2, <1>b, ZenonT(60) DEF CreateTUN, R!Abandoned, R!Ended, T!StartFails, T!Goto
    <3> QED BY <3>1 DEF InStep, HalvesLaid, T!Tun
  <2> QED BY <1>27, <2>1, <2>2 DEF CreateTUN
<1>28. CASE ConfigureTUN
  <2>1. /\ route \in {"lookup", "setup"} /\ UNCHANGED tunnel
        /\ (route' = "setup" /\ step' = 0) \/ route' = "undo"
    BY <1>28 DEF ConfigureTUN, OnlyRoutes, R!DefaultRoute, R!NoDefaultRoute, R!StepFails
  <2>2. pc["run"] = "start" /\ T!Tun
    BY <2>1 DEF InStep
  <2> QED BY <2>1, <2>2 DEF InStep, HalvesLaid, T!Tun, tunnel
<1>29. CASE StepDone
  <2>1. route = "setup" /\ step < 3 /\ step' = step + 1
        /\ route' = IF step' = 3 THEN "serving" ELSE "setup"
    BY <1>29, TheSteps DEF StepDone, R!StepDone
  <2>2. pc["run"] = "start" /\ T!Tun
    BY <2>1 DEF InStep
  <2>3. pc'["run"] = (IF route' = "serving" THEN "wait" ELSE "start") /\ mode' = mode
    BY <1>29, <2>2 DEF StepDone, T!Start, tunnel, LeakInv, TunnelTypeOK, T!Threads
  <2>4. InStep'
    BY <2>1, <2>2, <2>3 DEF InStep, T!Tun
  <2>5. /\ table \subseteq table'
        /\ step = 1 => R!Route("0.0.0.0/1", "tun") \in table'
        /\ step = 2 => R!Route("128.0.0.0/1", "tun") \in table'
    BY <1>29, TheSteps DEF StepDone, R!StepDone, R!Halves
  <2>6. HalvesLaid'
    BY <2>1, <2>5 DEF HalvesLaid, R!Halves, RoutingTypeOK
  <2> QED BY <2>4, <2>6
<1>30. CASE Watch
  <2>1. /\ pc["watch"] = "wait" /\ cancelled /\ cancelled' = cancelled
        /\ mode' = mode /\ pc'["run"] = pc["run"]
    BY <1>30, <1>a DEF Watch, T!Watch, T!Goto
  <2>2. route' = route /\ route # "setup"
    BY <1>30, <2>1 DEF Watch, R!DeviceClosed, LeakInv, NotStarted, InStep
  <2> QED BY <2>1, <2>2 DEF InStep, HalvesLaid, T!Tun
<1>31. CASE RunReturns
  <2>1. pc["run"] = "wait" /\ pc'["run"] = "defer" /\ mode' = mode /\ cancelled' = cancelled
    BY <1>31, <1>b, ZenonT(60) DEF RunReturns, T!RunReturns, T!Goto
  <2>2. CASE T!Tun
    <3>1. route' = "undo"
      BY <1>31, <2>2 DEF RunReturns, R!PumpReturns
    <3> QED BY <2>1, <2>2, <3>1 DEF InStep, HalvesLaid, T!Tun
  <2>3. CASE ~T!Tun
    BY <1>31, <2>1, <2>3, RoutingWaits DEF RunReturns
  <2> QED BY <2>2, <2>3
<1>32. CASE Cleanup
  <2>1. route = "undo" /\ route' = "undo" /\ UNCHANGED tunnel
    BY <1>32 DEF Cleanup, OnlyRoutes, R!Undo, R!UndoFails
  <2> QED BY <2>1 DEF InStep, HalvesLaid, T!Tun, tunnel
<1>33. CASE CloseDevice
  <2>1. CASE R!CloseDevice /\ (T!DeferredClose \/ T!StartFails)
    <3>1. route = "undo" /\ route' = "idle" /\ pc'["run"] = "lock" /\ mode' = mode
      BY <2>1, <1>b DEF R!CloseDevice, R!Ended, T!DeferredClose, T!StartFails, T!Goto
    <3> QED BY <3>1 DEF InStep, HalvesLaid, T!Tun
  <2>2. CASE ~T!Tun /\ Only(T!DeferredClose)
    BY <2>2, RoutingWaits DEF Only, T!DeferredClose
  <2> QED BY <1>33, <2>1, <2>2 DEF CloseDevice
<1>34. CASE Killed
  <2>1. pc'["run"] = "end" /\ route' = "idle" /\ mode' = mode
    BY <1>34 DEF Killed, T!ProcessEnds, T!Threads, R!Crash, R!Ended, routing
  <2> QED BY <2>1 DEF InStep, HalvesLaid, T!Tun
<1>35. CASE Roam
  <2>1. pc' = pc /\ mode' = mode /\ cancelled' = cancelled
    BY <1>35 DEF Roam, T!Lose, tunnel
  <2>2. route' = route /\ step' = step
    BY <1>35 DEF Roam, R!Roam
  <2>3. InStep'
    BY <2>1, <2>2 DEF InStep, T!Tun
  <2>4. \A x : R!Route(x, "tun") \in table => R!Route(x, "tun") \in table'
    BY <1>35, ClientTunnelAssumption DEF Roam, R!Roam, R!Through, R!Route
  <2>5. HalvesLaid'
    BY <2>1, <2>2, <2>4 DEF HalvesLaid
  <2> QED BY <2>3, <2>5
<1>36. CASE Reboot
  <2>1. pc'["run"] = "end" /\ route' = "idle" /\ mode' = mode
    BY <1>36 DEF Reboot, T!ProcessEnds, T!Threads, R!Reboot, R!Ended
  <2> QED BY <2>1 DEF InStep, HalvesLaid, T!Tun
<1>37. CASE UNCHANGED vars
  BY <1>37 DEF vars, tunnel, routing, InStep, HalvesLaid, T!Tun
<1>38. CASE Only(T!ListenerFails)
  BY <1>38, RoutingWaits DEF Only, T!ListenerFails
<1> QED BY <1>1, <1>2, <1>3, <1>4, <1>5, <1>6, <1>7, <1>8, <1>9, <1>10, <1>11, <1>12, <1>13,
      <1>14, <1>15, <1>16, <1>17, <1>18, <1>19, <1>20, <1>21, <1>22, <1>23, <1>24, <1>25, <1>26,
      <1>27, <1>28, <1>29, <1>30, <1>31, <1>32, <1>33, <1>34, <1>35, <1>36, <1>37, <1>38,
      ZenonT(60) DEF Next

\* They hold throughout.
LEMMA InStepInvariant == Spec => [](RoutingTypeOK /\ Laid /\ InStep /\ HalvesLaid)
<1>1. Init => InStep /\ HalvesLaid
  BY DEF Init, T!Init, R!Init, InStep, HalvesLaid, T!Threads
<1>2. LeakInv /\ RoutingTypeOK /\ Laid /\ InStep /\ HalvesLaid /\ [Next]_vars
        => (InStep /\ HalvesLaid)'
  BY InStepStep
<1> QED BY <1>1, <1>2, LeakInvariant, LaidInvariant, PTL DEF Spec

\* The halves take all other traffic.
LEMMA ElsewhereThroughTunnel ==
  ASSUME RoutingTypeOK, Laid, HalvesLaid, route = "serving", ~cancelled
  PROVE  R!Dev(Elsewhere) = "tun"
<1>1. \A r \in table : r.dst # Elsewhere
  BY ClientTunnelAssumption DEF Laid, R!Halves
<1>2. \A x \in R!Halves : R!Route(x, "tun") \in table
  BY DEF HalvesLaid
<1> QED BY <1>1, <1>2 DEF R!Dev

\* With any number of addresses and interfaces: while a tunnel serves and nobody
\* has disconnected, all traffic but its own goes into it, wherever the client
\* roams.
THEOREM AllTrafficIntoTunnel ==
  Spec => [](route = "serving" /\ ~cancelled => R!Dev(Elsewhere) = "tun")
<1>1. RoutingTypeOK /\ Laid /\ InStep /\ HalvesLaid
        => (route = "serving" /\ ~cancelled => R!Dev(Elsewhere) = "tun")
  BY ElsewhereThroughTunnel
<1> QED BY <1>1, InStepInvariant, PTL

\* A connection that is alive keeps the route that was pinned for it.
LEMMA PinnedStep ==
  ASSUME RoutingTypeOK, Laid, CarrierPinned, RoutingStep \/ UNCHANGED routing
  PROVE  CarrierPinned'
<1> DEFINE Set == route = "serving" \/ (route = "setup" /\ step >= 1)
<1>1. CASE R!StepDone
  <2>1. /\ route = "setup" /\ step \in 0 .. 3 /\ table \subseteq table'
        /\ UNCHANGED <<carrier, serverIP, orig>>
    BY <1>1 DEF R!StepDone, RoutingTypeOK
  <2>2. CASE step = 0
    <3>1. R!Route(serverIP, orig) \in table'
      BY <1>1, <2>2, TheSteps DEF R!StepDone
    <3> QED BY <2>1, <3>1 DEF CarrierPinned
  <2>3. CASE step # 0
    <3>1. step >= 1
      BY ONLY <2>1, <2>3
    <3> QED BY <2>1, <3>1 DEF CarrierPinned, PinsCarrier
  <2> QED BY <2>2, <2>3
<1>2. CASE R!Roam
  <2>1. UNCHANGED <<route, step, serverIP, orig>>
    BY <1>2 DEF R!Roam
  <2>2. SUFFICES ASSUME Set, PinsCarrier', carrier' # R!NoCarrier
                 PROVE  R!Route(serverIP, orig) \in table'
    BY <2>1 DEF CarrierPinned
  <2>3. carrier' = carrier /\ carrier.dev \notin Uplinks \ R!Range(uplinks')
    BY <1>2, <2>2 DEF R!Roam
  <2>4. R!Route(serverIP, orig) \in table /\ carrier.dev = orig
    BY <2>1, <2>2, <2>3 DEF CarrierPinned, PinsCarrier
  <2> QED BY <1>2, <2>3, <2>4 DEF R!Roam, R!Through, R!Route
<1>3. CASE R!DeviceClosed
  <2>1. UNCHANGED <<uplinks, route, step, carrier, serverIP, orig>>
    BY <1>3 DEF R!DeviceClosed
  <2>2. SUFFICES ASSUME Set, PinsCarrier, carrier # R!NoCarrier
                 PROVE  R!Route(serverIP, orig) \in table'
    BY <2>1 DEF CarrierPinned, PinsCarrier
  <2>3. R!Route(serverIP, orig) \in table
    BY <2>2, ZenonT(60) DEF CarrierPinned
  <2>4. orig # "tun"
    BY <2>2, UpAreUplinks, ClientTunnelAssumption DEF Laid, RoutingTypeOK, PinsCarrier
  <2> QED BY <1>3, <2>3, <2>4 DEF R!DeviceClosed, R!Through, R!Route
<1>4. CASE UNCHANGED routing
  BY <1>4 DEF routing, CarrierPinned, PinsCarrier
<1>5. CASE R!DefaultRoute
  BY <1>5 DEF R!DefaultRoute, CarrierPinned
<1>6. CASE R!Dialled \/ R!Abandoned \/ R!CreateTUN \/ R!NoDefaultRoute \/ R!StepFails
             \/ R!PumpReturns \/ R!Undo \/ R!UndoFails \/ R!CloseDevice \/ R!Crash \/ R!Reboot
  <2>1. route' \notin {"setup", "serving"}
    BY <1>6 DEF R!Dialled, R!Abandoned, R!CreateTUN, R!NoDefaultRoute, R!StepFails,
       R!PumpReturns, R!Undo, R!UndoFails, R!CloseDevice, R!Crash, R!Reboot, R!Ended
  <2> QED BY <2>1, ZenonT(60) DEF CarrierPinned
<1> QED BY <1>1, <1>2, <1>3, <1>4, <1>5, <1>6 DEF RoutingStep

\* With any number of addresses and default routes, and through any roaming, a tunnel
\* that serves is routed right: all other traffic goes into it, and its connection
\* does not as long as it lives, if the route that configureTUN pins is that of the
\* connection's own address and interface.
THEOREM TunnelIsRoutedRight == Spec => []RoutedRight
<1>1. Init => CarrierPinned
  BY DEF Init, R!Init, CarrierPinned
<1>2. RoutingTypeOK /\ Laid /\ CarrierPinned /\ [Next]_vars => CarrierPinned'
  BY PinnedStep, RoutingSteps, ZenonT(60)
<1>3. RoutingTypeOK /\ Laid /\ InStep /\ HalvesLaid /\ CarrierPinned => RoutedRight
  <2> SUFFICES ASSUME RoutingTypeOK, Laid, HalvesLaid, CarrierPinned
               PROVE  RoutedRight
    OBVIOUS
  <2>1. ASSUME PinsCarrier, route = "serving", carrier # R!NoCarrier
        PROVE  R!Dev(carrier.addr) # "tun"
    <3>1. R!Route(carrier.addr, orig) \in table /\ carrier.addr \in Servers
      BY <2>1 DEF CarrierPinned, PinsCarrier, Laid
    <3>2. \E r \in table : r.dst = carrier.addr
      BY <3>1 DEF R!Route
    <3>3. PICK r \in table : r.dst = carrier.addr /\ R!Dev(carrier.addr) = r.dev
      BY <3>2, ZenonT(60) DEF R!Dev
    <3>4. r.dev \in R!Range(uplinks)
      BY <3>1, <3>3, ClientTunnelAssumption, ZenonT(60) DEF Laid, R!Halves
    <3> QED BY <3>3, <3>4, UpAreUplinks, ClientTunnelAssumption DEF RoutingTypeOK
  <2> QED BY <2>1, ElsewhereThroughTunnel DEF RoutedRight, CarrierOffTunnel
<1> QED BY <1>1, <1>2, <1>3, InStepInvariant, PTL DEF Spec
=============================================================================
