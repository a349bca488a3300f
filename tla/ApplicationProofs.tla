------------------------- MODULE ApplicationProofs -------------------------
(***************************************************************************)
(* Proofs about the program, for every set of sessions: it implements the  *)
(* specification of the network manager, so that the invariants proved of  *)
(* AsioNetwork hold in it, and its own invariants follow with their help.  *)
(***************************************************************************)
EXTENDS Application, AsioNetworkProofs

StopSteps == {"stopClear", "stopAcceptor", "stopIo", "stopJoin"}

\* Where main is in the life of the network manager.
MainInv ==
  /\ mainPc = "start" => appPc \notin StopSteps /\ ~isRunning
  /\ mainPc \in {"chat", "connection", "files", "gui", "discovery", "discovered", "ui", "poll", "joinDiscovery"}
       => appPc = "idle" /\ isRunning
  /\ mainPc = "network" => appPc \in StopSteps \/ (appPc = "idle" /\ isRunning)
  /\ mainPc = "returned" => appPc = "idle" /\ ~isRunning
  /\ mainPc = "signalled" => appPc = "idle"

\* The callers of the network manager: none before main has created the UI, none
\* once it stops the manager.  The input thread runs a line while the UI runs, and
\* after a signal to the end.
CallersInv ==
  /\ mainPc \in {"start", "chat", "connection", "files", "gui", "discovery", "failed"} => listener = "none"
  /\ ui => mainPc = "poll"
  /\ mainPc \in {"network", "returned"} => listener = "none"
  /\ appPc \in StopSteps => mainPc \in {"network", "exited"} /\ listener = "none" /\ input # "line"
  /\ ~ui => input # "line" \/ mainPc \in {"signalled", "exited"}
  /\ input = "none" => ~ui
  /\ input # "line" => ConsoleIdle
  /\ resolver["console"] = NoSession \/ sending = {}
  /\ resolver["listener"] # NoSession => listener = "callback" /\ dials > 0

\* This node opens a connection only when the connection callback and the UI are
\* there.
CallbackInv ==
  /\ mainPc \notin {"start", "chat", "connection", "failed"} => hasCallback
  /\ mainPc \notin {"start", "chat", "connection", "files", "gui", "failed"} => uiSet
  /\ listener # "none" \/ input # "none" \/ dialled # {} => hasCallback /\ uiSet

\* What the connection callback has told the UI of the sessions this node has opened.
AnnouncedInv ==
  /\ ioPc \in {"create", "insert", "hello", "notify"}
       => notified[ioSession] = "none" /\ phase[ioSession] = "session"
  /\ \A s \in Sessions :
       /\ notified[s] # "DISCONNECTED"
       /\ notified[s] # "none" => phase[s] = "session"
       /\ s \in dialled /\ notified[s] # "none" => s \in announced

PInv == ProgramTypeOK /\ MainInv /\ CallersInv /\ CallbackInv /\ AnnouncedInv
-----------------------------------------------------------------------------
\* Every step of the program is a step of the network manager's specification or
\* leaves its variables alone.
LEMMA ProgramStep == [ProgramNext]_allVars => [Next]_vars
<1> SUFFICES ASSUME [ProgramNext]_allVars PROVE [Next]_vars
  OBVIOUS
<1> USE DEF networkVars
<1>1. CASE MainNext \/ Signal
  <2>1. MainStart \/ MainSetConnection \/ MainStop => AppNext
    BY DEF MainStart, MainSetConnection, MainStop, AppNext
  <2>2. \/ MainSetChat \/ MainCreateFiles \/ MainCreateUI \/ MainStartDiscovery \/ MainSetDiscovered
        \/ MainStartUI \/ MainPoll \/ MainJoinDiscovery \/ SignalExit \/ Signal
        => UNCHANGED vars
    BY DEF MainSetChat, MainCreateFiles, MainCreateUI, MainStartDiscovery, MainSetDiscovered,
           MainStartUI, MainPoll, MainJoinDiscovery, SignalExit, Signal
  <2> QED
    BY <1>1, <2>1, <2>2 DEF MainNext, Next
<1>2. CASE ListenerHears \/ ListenerNext \/ ConsoleNext
  <2>1. \A t : Dial(t) \/ Dialled(t) => ClientNext
    BY DEF Dial, Dialled, ClientNext
  <2>2. \/ ListenerHears \/ ListenerReturns \/ ListenerEnds
        \/ ConsoleReads \/ ConsoleReturns \/ ConsoleExits \/ ConsoleCaught
        => UNCHANGED vars
    BY DEF ListenerHears, ListenerReturns, ListenerEnds, ConsoleReads, ConsoleReturns, ConsoleExits,
           ConsoleCaught
  <2>3. ListenerDials \/ ConsoleConnects => ClientNext \/ UNCHANGED vars
    BY <2>1 DEF ListenerDials, ConsoleConnects, DialRefused
  <2>4. ConsoleSends => ClientNext
    BY DEF ConsoleSends, ClientNext
  <2> QED
    BY <1>2, <2>2, <2>3, <2>4 DEF ListenerNext, ConsoleNext, Next
<1>3. CASE MakeSession \/ AnnounceSession \/ DeliverMessage \/ RunHandlers \/ Environment
  BY <1>3 DEF MakeSession, AnnounceSession, DeliverMessage, RunHandlers, Environment, IoNext, Next
<1>4. CASE UNCHANGED allVars
  BY <1>4 DEF allVars
<1> QED
  BY <1>1, <1>2, <1>3, <1>4 DEF ProgramNext

\* The behaviours of the program are behaviours of the network manager's
\* specification: everything proved of AsioNetwork holds of the manager as main
\* uses it.
LEMMA ProgramIsNetwork == Program => Spec
<1>1. ProgramInit => Init
  BY SMTT(30) DEF ProgramInit
<1> QED
  BY <1>1, ProgramStep, PTL DEF Program, Spec

\* ConnectToPeer leaves the io thread and the sessions that exist alone.
LEMMA DialStep ==
  ASSUME TypeOK, NEW t, Dial(t) \/ Dialled(t)
  PROVE  /\ UNCHANGED <<appVars, ioVars, notified, sending>>
         /\ \A s \in Sessions : phase[s] = "session" => phase'[s] = "session"
         /\ \A s \in dialled' : s \in dialled \/ phase[s] = "free"
  BY DEF Dial, Dialled, ConnectToPeer, Resolved, TypeOK, appVars, ioVars, sessionVars, linkVars

\* The steps of the threads of the program preserve the program's invariant.
LEMMA ProgramInv == IInv /\ PInv /\ [ProgramNext]_allVars => PInv'
<1> SUFFICES ASSUME IInv, PInv, [ProgramNext]_allVars
             PROVE  PInv'
  OBVIOUS
<1> USE SessionsAssumption
    DEF IInv, PInv, Goto, networkVars, programVars, wiringVars, discoveryVars, consoleVars, dialVars,
        vars, appVars, ioVars, linkVars, sessionVars
<1>1. CASE MainStart
  <2> USE <1>1 DEF MainStart, StartOpen, StartThread, StartFlag
  <2>1. ProgramTypeOK'
    BY DEF TypeOK, ProgramTypeOK, Interruptible, Ended
  <2>2. MainInv'
    BY DEF ProgramTypeOK, Interruptible, Ended, MainInv, CallersInv, StopSteps
  <2>3. CallersInv'
    BY DEF TypeOK, ProgramTypeOK, Interruptible, Ended, MainInv, CallersInv, ConsoleIdle, StopSteps
  <2>4. CallbackInv'
    BY DEF ProgramTypeOK, Interruptible, Ended, MainInv, CallersInv, CallbackInv
  <2>5. AnnouncedInv'
    BY DEF TypeOK, ThreadInv, SessionSteps, CallersInv, CallbackInv, AnnouncedInv
  <2> QED
    BY <2>1, <2>2, <2>3, <2>4, <2>5, Zenon
<1>2. CASE MainSetChat
  <2> USE <1>2 DEF MainSetChat
  <2>1. ProgramTypeOK'
    BY DEF TypeOK, ProgramTypeOK, Interruptible, Ended
  <2>2. MainInv'
    BY DEF ProgramTypeOK, Interruptible, Ended, MainInv, CallersInv, StopSteps
  <2>3. CallersInv'
    BY DEF TypeOK, ProgramTypeOK, Interruptible, Ended, MainInv, CallersInv, ConsoleIdle, StopSteps
  <2>4. CallbackInv'
    BY DEF ProgramTypeOK, Interruptible, Ended, MainInv, CallersInv, CallbackInv
  <2>5. AnnouncedInv'
    BY DEF TypeOK, ThreadInv, SessionSteps, CallersInv, CallbackInv, AnnouncedInv
  <2> QED
    BY <2>1, <2>2, <2>3, <2>4, <2>5, Zenon
<1>3. CASE MainSetConnection
  <2> USE <1>3 DEF MainSetConnection, SetConnectionCallback
  <2>1. ProgramTypeOK'
    BY DEF TypeOK, ProgramTypeOK, Interruptible, Ended
  <2>2. MainInv'
    BY DEF ProgramTypeOK, Interruptible, Ended, MainInv, CallersInv, StopSteps
  <2>3. CallersInv'
    BY DEF TypeOK, ProgramTypeOK, Interruptible, Ended, MainInv, CallersInv, ConsoleIdle, StopSteps
  <2>4. CallbackInv'
    BY DEF ProgramTypeOK, Interruptible, Ended, MainInv, CallersInv, CallbackInv
  <2>5. AnnouncedInv'
    BY DEF TypeOK, ThreadInv, SessionSteps, CallersInv, CallbackInv, AnnouncedInv
  <2> QED
    BY <2>1, <2>2, <2>3, <2>4, <2>5, Zenon
<1>4. CASE MainCreateFiles
  <2> USE <1>4 DEF MainCreateFiles
  <2>1. ProgramTypeOK'
    BY DEF TypeOK, ProgramTypeOK, Interruptible, Ended
  <2>2. MainInv'
    BY DEF ProgramTypeOK, Interruptible, Ended, MainInv, CallersInv, StopSteps
  <2>3. CallersInv'
    BY DEF TypeOK, ProgramTypeOK, Interruptible, Ended, MainInv, CallersInv, ConsoleIdle, StopSteps
  <2>4. CallbackInv'
    BY DEF ProgramTypeOK, Interruptible, Ended, MainInv, CallersInv, CallbackInv
  <2>5. AnnouncedInv'
    BY DEF TypeOK, ThreadInv, SessionSteps, CallersInv, CallbackInv, AnnouncedInv
  <2> QED
    BY <2>1, <2>2, <2>3, <2>4, <2>5, Zenon
<1>5. CASE MainCreateUI
  <2> USE <1>5 DEF MainCreateUI
  <2>1. ProgramTypeOK'
    BY DEF TypeOK, ProgramTypeOK, Interruptible, Ended
  <2>2. MainInv'
    BY DEF ProgramTypeOK, Interruptible, Ended, MainInv, CallersInv, StopSteps
  <2>3. CallersInv'
    BY DEF TypeOK, ProgramTypeOK, Interruptible, Ended, MainInv, CallersInv, ConsoleIdle, StopSteps
  <2>4. CallbackInv'
    BY DEF ProgramTypeOK, Interruptible, Ended, MainInv, CallersInv, CallbackInv
  <2>5. AnnouncedInv'
    BY DEF TypeOK, ThreadInv, SessionSteps, CallersInv, CallbackInv, AnnouncedInv
  <2> QED
    BY <2>1, <2>2, <2>3, <2>4, <2>5, Zenon
<1>6. CASE MainStartDiscovery
  <2> USE <1>6 DEF MainStartDiscovery
  <2>1. ProgramTypeOK'
    BY ZenonT(30) DEF TypeOK, ProgramTypeOK, Interruptible, Ended
  <2>2. MainInv'
    BY DEF ProgramTypeOK, Interruptible, Ended, MainInv, CallersInv, StopSteps
  <2>3. CallersInv'
    BY DEF TypeOK, ProgramTypeOK, Interruptible, Ended, MainInv, CallersInv, ConsoleIdle, StopSteps
  <2>4. CallbackInv'
    BY DEF ProgramTypeOK, Interruptible, Ended, MainInv, CallersInv, CallbackInv
  <2>5. AnnouncedInv'
    BY DEF TypeOK, ThreadInv, SessionSteps, CallersInv, CallbackInv, AnnouncedInv
  <2> QED
    BY <2>1, <2>2, <2>3, <2>4, <2>5, Zenon
<1>7. CASE MainSetDiscovered
  <2> USE <1>7 DEF MainSetDiscovered
  <2>1. ProgramTypeOK'
    BY DEF TypeOK, ProgramTypeOK, Interruptible, Ended
  <2>2. MainInv'
    BY DEF ProgramTypeOK, Interruptible, Ended, MainInv, CallersInv, StopSteps
  <2>3. CallersInv'
    BY DEF TypeOK, ProgramTypeOK, Interruptible, Ended, MainInv, CallersInv, ConsoleIdle, StopSteps
  <2>4. CallbackInv'
    BY DEF ProgramTypeOK, Interruptible, Ended, MainInv, CallersInv, CallbackInv
  <2>5. AnnouncedInv'
    BY DEF TypeOK, ThreadInv, SessionSteps, CallersInv, CallbackInv, AnnouncedInv
  <2> QED
    BY <2>1, <2>2, <2>3, <2>4, <2>5, Zenon
<1>8. CASE MainStartUI
  <2> USE <1>8 DEF MainStartUI
  <2>1. ProgramTypeOK'
    BY DEF TypeOK, ProgramTypeOK, Interruptible, Ended
  <2>2. MainInv'
    BY DEF ProgramTypeOK, Interruptible, Ended, MainInv, CallersInv, StopSteps
  <2>3. CallersInv'
    BY DEF TypeOK, ProgramTypeOK, Interruptible, Ended, MainInv, CallersInv, ConsoleIdle, StopSteps
  <2>4. CallbackInv'
    BY DEF ProgramTypeOK, Interruptible, Ended, MainInv, CallersInv, CallbackInv
  <2>5. AnnouncedInv'
    BY DEF TypeOK, ThreadInv, SessionSteps, CallersInv, CallbackInv, AnnouncedInv
  <2> QED
    BY <2>1, <2>2, <2>3, <2>4, <2>5, Zenon
<1>9. CASE MainPoll
  <2> USE <1>9 DEF MainPoll
  <2>1. ProgramTypeOK'
    BY Zenon DEF TypeOK, ProgramTypeOK, Interruptible, Ended
  <2>2. MainInv'
    BY DEF ProgramTypeOK, Interruptible, Ended, MainInv, CallersInv, StopSteps
  <2>3. CallersInv'
    BY DEF TypeOK, ProgramTypeOK, Interruptible, Ended, MainInv, CallersInv, ConsoleIdle, StopSteps
  <2>4. CallbackInv'
    BY DEF ProgramTypeOK, Interruptible, Ended, MainInv, CallersInv, CallbackInv
  <2>5. AnnouncedInv'
    BY DEF TypeOK, ThreadInv, SessionSteps, CallersInv, CallbackInv, AnnouncedInv
  <2> QED
    BY <2>1, <2>2, <2>3, <2>4, <2>5, Zenon
<1>10. CASE MainJoinDiscovery
  <2> USE <1>10 DEF MainJoinDiscovery
  <2>1. ProgramTypeOK'
    BY DEF TypeOK, ProgramTypeOK, Interruptible, Ended
  <2>2. MainInv'
    BY DEF ProgramTypeOK, Interruptible, Ended, MainInv, CallersInv, StopSteps
  <2>3. CallersInv'
    BY DEF TypeOK, ProgramTypeOK, Interruptible, Ended, MainInv, CallersInv, ConsoleIdle, StopSteps
  <2>4. CallbackInv'
    BY DEF ProgramTypeOK, Interruptible, Ended, MainInv, CallersInv, CallbackInv
  <2>5. AnnouncedInv'
    BY DEF TypeOK, ThreadInv, SessionSteps, CallersInv, CallbackInv, AnnouncedInv
  <2> QED
    BY <2>1, <2>2, <2>3, <2>4, <2>5, Zenon
<1>11. CASE MainStop
  <2> USE <1>11 DEF MainStop, StopFlag, StopClear, StopAcceptor, StopIo, StopJoin
  <2>1. ProgramTypeOK'
    BY SMTT(30) DEF TypeOK, ProgramTypeOK, Interruptible, Ended
  <2>2. MainInv'
    BY SMTT(30) DEF ProgramTypeOK, Interruptible, Ended, ThreadInv, MainInv, CallersInv, StopSteps
  <2>3. CallersInv'
    BY SMTT(30) DEF TypeOK, ProgramTypeOK, Interruptible, Ended, MainInv, CallersInv, ConsoleIdle, StopSteps
  <2>4. CallbackInv'
    BY Zenon DEF ProgramTypeOK, Interruptible, Ended, MainInv, CallersInv, CallbackInv
  <2>5. AnnouncedInv'
    <3>1. UNCHANGED <<ioVars, notified, dialled, announced>>
      BY SMTT(30)
    <3>2. \A s \in Sessions : phase[s] = "session" => phase'[s] = "session"
      BY DEF TypeOK
    <3> HIDE DEF MainStop
    <3> QED
      BY <3>1, <3>2 DEF TypeOK, ThreadInv, SessionSteps, AnnouncedInv
  <2> QED
    BY <2>1, <2>2, <2>3, <2>4, <2>5, Zenon
<1>12. CASE SignalExit
  <2> USE <1>12 DEF SignalExit
  <2>1. ProgramTypeOK'
    BY DEF TypeOK, ProgramTypeOK, Interruptible, Ended
  <2>2. MainInv'
    BY DEF ProgramTypeOK, Interruptible, Ended, MainInv, CallersInv, StopSteps
  <2>3. CallersInv'
    BY DEF TypeOK, ProgramTypeOK, Interruptible, Ended, MainInv, CallersInv, ConsoleIdle, StopSteps
  <2>4. CallbackInv'
    BY DEF ProgramTypeOK, Interruptible, Ended, MainInv, CallersInv, CallbackInv
  <2>5. AnnouncedInv'
    BY DEF TypeOK, ThreadInv, SessionSteps, CallersInv, CallbackInv, AnnouncedInv
  <2> QED
    BY <2>1, <2>2, <2>3, <2>4, <2>5, Zenon
<1>13. CASE Signal
  <2> USE <1>13 DEF Signal
  <2>1. ProgramTypeOK'
    BY ZenonT(30) DEF TypeOK, ProgramTypeOK, Interruptible, Ended
  <2>2. MainInv'
    BY DEF ProgramTypeOK, Interruptible, Ended, MainInv, CallersInv, StopSteps
  <2>3. CallersInv'
    BY DEF TypeOK, ProgramTypeOK, Interruptible, Ended, MainInv, CallersInv, ConsoleIdle, StopSteps
  <2>4. CallbackInv'
    BY DEF ProgramTypeOK, Interruptible, Ended, MainInv, CallersInv, CallbackInv
  <2>5. AnnouncedInv'
    BY DEF TypeOK, ThreadInv, SessionSteps, CallersInv, CallbackInv, AnnouncedInv
  <2> QED
    BY <2>1, <2>2, <2>3, <2>4, <2>5, Zenon
<1>14. CASE ListenerHears
  <2> USE <1>14 DEF ListenerHears
  <2>1. ProgramTypeOK'
    BY DEF TypeOK, ProgramTypeOK, Interruptible, Ended
  <2>2. MainInv'
    BY DEF ProgramTypeOK, Interruptible, Ended, MainInv, CallersInv, StopSteps
  <2>3. CallersInv'
    BY DEF TypeOK, ProgramTypeOK, Interruptible, Ended, MainInv, CallersInv, ConsoleIdle, StopSteps
  <2>4. CallbackInv'
    BY DEF ProgramTypeOK, Interruptible, Ended, MainInv, CallersInv, CallbackInv
  <2>5. AnnouncedInv'
    BY DEF TypeOK, ThreadInv, SessionSteps, CallersInv, CallbackInv, AnnouncedInv
  <2> QED
    BY <2>1, <2>2, <2>3, <2>4, <2>5, Zenon
<1>15. CASE ListenerDials
  <2> USE <1>15 DEF ListenerDials
  <2>0. /\ UNCHANGED <<appVars, ioVars, notified, sending>>
        /\ \A s \in Sessions : phase[s] = "session" => phase'[s] = "session"
        /\ \A s \in dialled' : s \in dialled \/ phase[s] = "free"
    BY DialStep DEF DialRefused
  <2>1. ProgramTypeOK'
    BY DEF Dial, Dialled, DialRefused, TypeOK, ProgramTypeOK, Interruptible, Ended
  <2>2. MainInv'
    BY <2>0, SMTT(30) DEF MainInv
  <2>3. CallersInv'
    BY <2>0, ZenonT(30) DEF Dial, Dialled, DialRefused, ProgramTypeOK, CallersInv, ConsoleIdle, StopSteps
  <2>4. CallbackInv'
    BY <2>0 DEF CallbackInv
  <2>5. AnnouncedInv'
    BY <2>0 DEF TypeOK, ThreadInv, SessionSteps, AnnouncedInv
  <2> QED
    BY <2>1, <2>2, <2>3, <2>4, <2>5, Zenon
<1>16. CASE ListenerReturns
  <2> USE <1>16 DEF ListenerReturns
  <2>1. ProgramTypeOK'
    BY DEF TypeOK, ProgramTypeOK, Interruptible, Ended
  <2>2. MainInv'
    BY DEF ProgramTypeOK, Interruptible, Ended, MainInv, CallersInv, StopSteps
  <2>3. CallersInv'
    BY DEF TypeOK, ProgramTypeOK, Interruptible, Ended, MainInv, CallersInv, ConsoleIdle, StopSteps
  <2>4. CallbackInv'
    BY DEF ProgramTypeOK, Interruptible, Ended, MainInv, CallersInv, CallbackInv
  <2>5. AnnouncedInv'
    BY DEF TypeOK, ThreadInv, SessionSteps, CallersInv, CallbackInv, AnnouncedInv
  <2> QED
    BY <2>1, <2>2, <2>3, <2>4, <2>5, Zenon
<1>17. CASE ListenerEnds
  <2> USE <1>17 DEF ListenerEnds
  <2>1. ProgramTypeOK'
    BY DEF TypeOK, ProgramTypeOK, Interruptible, Ended
  <2>2. MainInv'
    BY DEF ProgramTypeOK, Interruptible, Ended, MainInv, CallersInv, StopSteps
  <2>3. CallersInv'
    BY DEF TypeOK, ProgramTypeOK, Interruptible, Ended, MainInv, CallersInv, ConsoleIdle, StopSteps
  <2>4. CallbackInv'
    BY DEF ProgramTypeOK, Interruptible, Ended, MainInv, CallersInv, CallbackInv
  <2>5. AnnouncedInv'
    BY DEF TypeOK, ThreadInv, SessionSteps, CallersInv, CallbackInv, AnnouncedInv
  <2> QED
    BY <2>1, <2>2, <2>3, <2>4, <2>5, Zenon
<1>18. CASE ConsoleReads
  <2> USE <1>18 DEF ConsoleReads
  <2>1. ProgramTypeOK'
    BY DEF TypeOK, ProgramTypeOK, Interruptible, Ended
  <2>2. MainInv'
    BY DEF ProgramTypeOK, Interruptible, Ended, MainInv, CallersInv, StopSteps
  <2>3. CallersInv'
    BY DEF CallersInv, ConsoleIdle, StopSteps, MainInv, ProgramTypeOK
  <2>4. CallbackInv'
    BY DEF ProgramTypeOK, Interruptible, Ended, MainInv, CallersInv, CallbackInv
  <2>5. AnnouncedInv'
    BY DEF TypeOK, ThreadInv, SessionSteps, CallersInv, CallbackInv, AnnouncedInv
  <2> QED
    BY <2>1, <2>2, <2>3, <2>4, <2>5, Zenon
<1>19. CASE ConsoleConnects
  <2> USE <1>19 DEF ConsoleConnects
  <2>0. /\ UNCHANGED <<appVars, ioVars, notified, sending>>
        /\ \A s \in Sessions : phase[s] = "session" => phase'[s] = "session"
        /\ \A s \in dialled' : s \in dialled \/ phase[s] = "free"
    BY DialStep, Zenon
  <2>1. ProgramTypeOK'
    BY SMTT(30) DEF Dial, Dialled, TypeOK, ProgramTypeOK, Interruptible, Ended
  <2>2. MainInv'
    BY <2>0, Zenon DEF MainInv
  <2>3. CallersInv'
    BY <2>0, SMTT(30) DEF Dial, Dialled, ProgramTypeOK, CallersInv, ConsoleIdle, StopSteps
  <2>4. CallbackInv'
    BY <2>0, Zenon DEF CallbackInv
  <2>5. AnnouncedInv'
    BY <2>0 DEF TypeOK, ThreadInv, SessionSteps, AnnouncedInv
  <2> QED
    BY <2>1, <2>2, <2>3, <2>4, <2>5, Zenon
<1>20. CASE ConsoleSends
  <2> USE <1>20 DEF ConsoleSends, CollectSessions, ConnectedPeers, WriteTo, Write
  <2>1. ProgramTypeOK'
    BY DEF TypeOK, ProgramTypeOK, Interruptible, Ended
  <2>2. MainInv'
    BY DEF ProgramTypeOK, Interruptible, Ended, MainInv, CallersInv, StopSteps
  <2>3. CallersInv'
    <3>1. UNCHANGED <<appVars, mainPc, listener, dials, ui, resolver>>
      OBVIOUS
    <3>2. input' # "line" => sending' = {}
      OBVIOUS
    <3>3. input = "line" /\ input' # "none"
      OBVIOUS
    <3>4. resolver["console"] = NoSession
      BY DEF CallersInv, ConsoleIdle
    <3> HIDE DEF ConsoleSends
    <3> QED
      BY <3>1, <3>2, <3>3, <3>4 DEF CallersInv, ConsoleIdle, StopSteps
  <2>4. CallbackInv'
    BY Zenon DEF ProgramTypeOK, Interruptible, Ended, MainInv, CallersInv, CallbackInv
  <2>5. AnnouncedInv'
    BY ZenonT(30) DEF TypeOK, ThreadInv, SessionSteps, CallersInv, CallbackInv, AnnouncedInv
  <2> QED
    BY <2>1, <2>2, <2>3, <2>4, <2>5, Zenon
<1>21. CASE ConsoleReturns
  <2> USE <1>21 DEF ConsoleReturns
  <2>1. ProgramTypeOK'
    BY DEF TypeOK, ProgramTypeOK, Interruptible, Ended
  <2>2. MainInv'
    BY DEF ProgramTypeOK, Interruptible, Ended, MainInv, CallersInv, StopSteps
  <2>3. CallersInv'
    BY DEF TypeOK, ProgramTypeOK, Interruptible, Ended, MainInv, CallersInv, ConsoleIdle, StopSteps
  <2>4. CallbackInv'
    BY DEF ProgramTypeOK, Interruptible, Ended, MainInv, CallersInv, CallbackInv
  <2>5. AnnouncedInv'
    BY DEF TypeOK, ThreadInv, SessionSteps, CallersInv, CallbackInv, AnnouncedInv
  <2> QED
    BY <2>1, <2>2, <2>3, <2>4, <2>5, Zenon
<1>22. CASE ConsoleExits
  <2> USE <1>22 DEF ConsoleExits
  <2>1. ProgramTypeOK'
    BY ZenonT(30) DEF ProgramTypeOK
  <2>2. MainInv'
    BY DEF ProgramTypeOK, Interruptible, Ended, MainInv, CallersInv, StopSteps
  <2>3. CallersInv'
    BY DEF TypeOK, ProgramTypeOK, Interruptible, Ended, MainInv, CallersInv, ConsoleIdle, StopSteps
  <2>4. CallbackInv'
    BY SMTT(30) DEF ProgramTypeOK, Interruptible, Ended, MainInv, CallersInv, CallbackInv
  <2>5. AnnouncedInv'
    BY DEF TypeOK, ThreadInv, SessionSteps, CallersInv, CallbackInv, AnnouncedInv
  <2> QED
    BY <2>1, <2>2, <2>3, <2>4, <2>5, Zenon
<1>23. CASE ConsoleCaught
  <2> USE <1>23 DEF ConsoleCaught
  <2>1. ProgramTypeOK'
    BY SMTT(30) DEF TypeOK, ProgramTypeOK, Interruptible, Ended
  <2>2. MainInv'
    BY SMTT(30) DEF ProgramTypeOK, Interruptible, Ended, MainInv, CallersInv, StopSteps
  <2>3. CallersInv'
    BY DEF TypeOK, ProgramTypeOK, Interruptible, Ended, MainInv, CallersInv, ConsoleIdle, StopSteps
  <2>4. CallbackInv'
    BY SMTT(30) DEF ProgramTypeOK, Interruptible, Ended, MainInv, CallersInv, CallbackInv
  <2>5. AnnouncedInv'
    BY DEF TypeOK, ThreadInv, SessionSteps, CallersInv, CallbackInv, AnnouncedInv
  <2> QED
    BY <2>1, <2>2, <2>3, <2>4, <2>5, Zenon
<1>24. CASE MakeSession
  <2> USE <1>24 DEF MakeSession, CreateSession, Throw, Continue, Handle
  <2>1. ProgramTypeOK'
    <3>1. captured' \in [Sessions -> {"unset", "none", "chat", "files"}]
      BY Zenon DEF TypeOK, ProgramTypeOK
    <3> QED
      BY <3>1, SMTT(30) DEF ProgramTypeOK
  <2>2. MainInv'
    BY ZenonT(30) DEF ProgramTypeOK, Interruptible, Ended, MainInv, CallersInv, StopSteps
  <2>3. CallersInv'
    BY SMTT(30) DEF TypeOK, ProgramTypeOK, Interruptible, Ended, MainInv, CallersInv, ConsoleIdle, StopSteps
  <2>4. CallbackInv'
    BY SMTT(30) DEF ProgramTypeOK, Interruptible, Ended, MainInv, CallersInv, CallbackInv
  <2>5. AnnouncedInv'
    BY DEF TypeOK, ThreadInv, SessionSteps, CallersInv, CallbackInv, AnnouncedInv
  <2> QED
    BY <2>1, <2>2, <2>3, <2>4, <2>5, Zenon
<1>25. CASE AnnounceSession
  <2> USE <1>25 DEF AnnounceSession, NotifyConnected, Continue, Finish, Handle
  <2>1. ProgramTypeOK'
    <3>1. announced' \in SUBSET Sessions
      BY SMTT(30) DEF TypeOK, ThreadInv, SessionSteps, ProgramTypeOK
    <3> QED
      BY <3>1, SMTT(30) DEF ProgramTypeOK
  <2>2. MainInv'
    BY SMTT(30) DEF ProgramTypeOK, Interruptible, Ended, MainInv, CallersInv, StopSteps
  <2>3. CallersInv'
    BY SMTT(30) DEF TypeOK, ProgramTypeOK, Interruptible, Ended, MainInv, CallersInv, ConsoleIdle, StopSteps
  <2>4. CallbackInv'
    BY SMTT(30) DEF ProgramTypeOK, Interruptible, Ended, MainInv, CallersInv, CallbackInv
  <2>5. AnnouncedInv'
    BY SMTT(30) DEF TypeOK, ThreadInv, SessionSteps, CallersInv, CallbackInv, AnnouncedInv
  <2> QED
    BY <2>1, <2>2, <2>3, <2>4, <2>5, Zenon
<1>26. CASE DeliverMessage
  <2> USE <1>26 DEF DeliverMessage, Deliver, Finish, Handle
  <2>1. ProgramTypeOK'
    BY SMTT(30) DEF TypeOK, ProgramTypeOK, Interruptible, Ended
  <2>2. MainInv'
    BY SMTT(30) DEF ProgramTypeOK, Interruptible, Ended, MainInv, CallersInv, StopSteps
  <2>3. CallersInv'
    BY SMTT(30) DEF TypeOK, ProgramTypeOK, Interruptible, Ended, MainInv, CallersInv, ConsoleIdle, StopSteps
  <2>4. CallbackInv'
    BY SMTT(30) DEF ProgramTypeOK, Interruptible, Ended, MainInv, CallersInv, CallbackInv
  <2>5. AnnouncedInv'
    BY DEF TypeOK, ThreadInv, SessionSteps, CallersInv, CallbackInv, AnnouncedInv
  <2> QED
    BY <2>1, <2>2, <2>3, <2>4, <2>5, Zenon
<1>27. CASE Environment
  <2>1. UNCHANGED programVars /\ UNCHANGED <<appVars, ioVars, ioThread, sessionVars>>
    BY <1>27 DEF Environment, RemoteNext, RemoteDial, RemoteAnswer, RemoteClose
  <2>2. ProgramTypeOK' /\ MainInv'
    BY <2>1 DEF ProgramTypeOK, MainInv
  <2>3. CallersInv' /\ CallbackInv'
    BY <2>1, SMTT(30) DEF CallersInv, ConsoleIdle, CallbackInv
  <2>4. \A s \in Sessions : phase[s] = "session" => phase'[s] = "session"
    BY <1>27 DEF Environment, RemoteNext, RemoteDial, RemoteAnswer, RemoteClose, TypeOK
  <2>5. ioPc \in {"create", "insert", "hello", "notify"} => ioSession \in Sessions
    BY SMTT(30) DEF TypeOK, ThreadInv, SessionSteps
  <2>6. AnnouncedInv'
    BY <2>1, <2>4, <2>5, ZenonT(30) DEF AnnouncedInv
  <2> QED
    BY <2>2, <2>3, <2>6, Zenon
<1>28. CASE RunHandlers
  <2>1. UNCHANGED programVars /\ UNCHANGED <<sending, appVars>>
    BY <1>28, Zenon DEF RunHandlers, IoReturn, AcceptError, InsertSession, SendHello, CheckRunning, AcceptReady,
          ConnectReady, ReadReady, ReadError, ResizeThrow, IoIdle, Handle, Write, Continue, Finish, Throw
  <2>2. ProgramTypeOK' /\ MainInv'
    BY <2>1 DEF ProgramTypeOK, MainInv
  <2>3. CallersInv' /\ CallbackInv'
    BY <2>1, SMTT(30) DEF CallersInv, ConsoleIdle, CallbackInv
  <2> USE DEF TypeOK, ThreadInv, SessionSteps, AnnouncedInv
  <2>4. ASSUME IoReturn \/ AcceptError PROVE AnnouncedInv'
    BY <2>1, <2>4, SMTT(30) DEF IoReturn, AcceptError, IoIdle, Handle
  <2>5. ASSUME InsertSession \/ SendHello PROVE AnnouncedInv'
    BY <2>1, <2>5, SMTT(30) DEF InsertSession, SendHello, Write, Continue
  <2>6. ASSUME CheckRunning PROVE AnnouncedInv'
    BY <2>1, <2>6, SMTT(30) DEF CheckRunning, Finish, Handle
  <2>7. ASSUME NEW s \in Sessions, AcceptReady(s) \/ ConnectReady(s) PROVE AnnouncedInv'
    BY <2>1, <2>7, SMTT(30) DEF AcceptReady, ConnectReady, IoIdle, Handle
  <2>8. ASSUME NEW s \in Sessions, ReadReady(s) \/ ReadError(s) \/ ResizeThrow(s) PROVE AnnouncedInv'
    BY <2>1, <2>8 DEF ReadReady, ReadError, ResizeThrow, IoIdle, Throw, Handle
  <2>9. AnnouncedInv'
    BY <1>28, <2>4, <2>5, <2>6, <2>7, <2>8, Zenon DEF RunHandlers
  <2> QED
    BY <2>2, <2>3, <2>9, Zenon
<1>29. CASE UNCHANGED allVars
  <2> USE <1>29 DEF allVars
  <2>1. ProgramTypeOK' /\ MainInv'
    BY SMTT(30) DEF ProgramTypeOK, MainInv
  <2>2. CallersInv' /\ CallbackInv'
    BY SMTT(30) DEF CallersInv, ConsoleIdle, CallbackInv
  <2>3. AnnouncedInv'
    BY Zenon DEF AnnouncedInv
  <2> QED
    BY <2>1, <2>2, <2>3, Zenon
<1> QED
  BY <1>1, <1>2, <1>3, <1>4, <1>5, <1>6, <1>7, <1>8, <1>9, <1>10, <1>11, <1>12, <1>13, <1>14,
     <1>15, <1>16, <1>17, <1>18, <1>19, <1>20, <1>21, <1>22, <1>23, <1>24, <1>25, <1>26, <1>27, <1>28, <1>29, Zenon
  DEF ProgramNext, MainNext, ListenerNext, ConsoleNext

\* The invariants of the network manager and of the program hold together.
LEMMA ProgramInvariance == Program => []IInv /\ []PInv
<1>1. ASSUME ProgramInit PROVE PInv
  <2> USE <1>1 DEF ProgramInit, Init
  <2>1. ProgramTypeOK
    <3>1. dials \in 0..2 /\ captured \in [Sessions -> {"unset", "none", "chat", "files"}]
      BY SMT
    <3>2. resolver \in [{"listener", "console"} -> Sessions \cup {NoSession}]
      BY SMT
    <3> QED
      BY <3>1, <3>2, Zenon DEF ProgramTypeOK, Interruptible, Ended
  <2>2. MainInv /\ CallersInv
    BY DEF MainInv, CallersInv, StopSteps, ConsoleIdle
  <2>3. CallbackInv /\ AnnouncedInv
    BY DEF CallbackInv, AnnouncedInv
  <2> QED
    BY <2>1, <2>2, <2>3 DEF PInv, Zenon
<1>2. Program => []IInv
  BY ProgramIsNetwork, Invariance, PTL
<1> QED
  BY <1>1, <1>2, ProgramInv, PTL DEF Program

\* Type correctness of the program's own state.
THEOREM ProgramTypes == Program => []ProgramTypeOK
<1>1. PInv => ProgramTypeOK
  BY DEF PInv
<1> QED
  BY <1>1, ProgramInvariance, PTL

\* For any number of sessions: when main has returned, no thread of the program is in
\* the managers that are being destroyed, and none will call them again.
THEOREM ExitQuiet == Program => []ExitIsQuiet
<1>1. IInv /\ PInv => ExitIsQuiet
  BY DEF IInv, ThreadInv, PInv, MainInv, CallersInv, ExitIsQuiet
<1> QED
  BY <1>1, ProgramInvariance, PTL

\* For any number of sessions: no ConnectToPeer is in progress while the network
\* manager is being stopped.
THEOREM StopAfterCallers == Program => []StoppedAfterCallers
<1>1. IInv /\ PInv => StoppedAfterCallers
  BY DEF IInv, TypeOK, AppSteps, PInv, ProgramTypeOK, CallersInv, StopSteps, ConsoleIdle, StoppedAfterCallers
<1> QED
  BY <1>1, ProgramInvariance, PTL

\* For any number of sessions: one that this node has opened delivers nothing before
\* the UI was told of it.
THEOREM AnnouncedFirst == Program => []OpenedIsAnnounced
<1>1. IInv /\ PInv => OpenedIsAnnounced
  BY DEF IInv, TypeOK, ThreadInv, SessionSteps, NotifiedBeforeDelivery, PInv, AnnouncedInv, OpenedIsAnnounced
<1> QED
  BY <1>1, ProgramInvariance, PTL
=============================================================================
