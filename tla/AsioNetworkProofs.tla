------------------------- MODULE AsioNetworkProofs -------------------------
(***************************************************************************)
(* Proofs about AsioNetwork, for every set of sessions and every number of *)
(* calls of Start.                                                         *)
(***************************************************************************)
EXTENDS AsioNetwork, TLAPS

\* The control state of the two long-lived threads: a handler is executed by a
\* running thread only, _is_running is false throughout Start and Stop, and
\* there is no thread before StartThread or after the join of StopJoin.
ThreadInv ==
  /\ ioPc # "idle" => ioThread = "running"
  /\ appPc # "idle" => ~isRunning
  /\ appPc = "startThread" => ioThread = "none"
  /\ appPc = "idle" /\ ~isRunning => ioThread = "none"
  /\ appPc = "stopJoin" => stopped
  /\ ioPc \in SessionSteps => ioSession \in Sessions

\* A session being read has been announced, or is about to be by the handler
\* that started the read.
ReadIsNotified ==
  \A s \in reading :
     notified[s] # "none" \/ (ioSession = s /\ ioPc \in {"hello", "notify"})

\* Before the first io thread there is no session.
NoThreadNoSession == ioThread = "none" /\ ~stopped => connected = {}

\* The inductive invariant.  ConnectedIsRead needs NoThreadNoSession for the
\* step that starts the thread, and NotifiedBeforeDelivery needs
\* ReadIsNotified for the step that dispatches a read.
IInv == /\ TypeOK
        /\ ThreadInv
        /\ ConnectedIsRegistered
        /\ NoThreadNoSession
        /\ ConnectedIsRead
        /\ ReadIsNotified
        /\ NotifiedBeforeDelivery
-----------------------------------------------------------------------------
\* The inductive invariant holds initially.
LEMMA InitIInv == Init => IInv
<1> SUFFICES ASSUME Init PROVE IInv
  OBVIOUS
<1> USE DEF Init
<1>1. TypeOK
  <2>1. starts \in 0..MaxStarts
    BY StartsAssumption
  <2> QED
    BY <2>1, ZenonT(30) DEF TypeOK, AppSteps, IoSteps, Phases
<1>2. ThreadInv /\ NotifiedBeforeDelivery
  BY DEF ThreadInv, SessionSteps, NotifiedBeforeDelivery
<1>3. ConnectedIsRegistered /\ NoThreadNoSession /\ ConnectedIsRead /\ ReadIsNotified
  BY SMTT(30) DEF ConnectedIsRegistered, NoThreadNoSession, ConnectedIsRead, ReadIsNotified
<1> QED
  BY <1>1, <1>2, <1>3 DEF IInv

\* Every step of the manager, of its clients and of the network preserves it.
LEMMA NextIInv == IInv /\ [Next]_vars => IInv'
<1> SUFFICES ASSUME IInv, [Next]_vars
             PROVE  IInv'
  OBVIOUS
<1> USE DEF IInv, TypeOK, ThreadInv, ConnectedIsRegistered, NoThreadNoSession,
            ConnectedIsRead, ReadIsNotified, NotifiedBeforeDelivery,
            appVars, ioVars, linkVars, sessionVars,
            AppSteps, IoSteps, SessionSteps, Phases
<1>1. CASE StartOpen
  <2>1. starts' \in 0..MaxStarts
    BY <1>1, StartsAssumption DEF StartOpen
  <2>2. TypeOK'
    BY <1>1, <2>1, ZenonT(60) DEF StartOpen
  <2> QED
    BY <1>1, <2>2 DEF StartOpen
<1>2. CASE StartThread
  BY <1>2 DEF StartThread
<1>3. CASE StartFlag
  BY <1>3 DEF StartFlag
<1>4. CASE StopFlag
  <2>1. TypeOK'
    BY <1>4, ZenonT(30) DEF StopFlag
  <2>2. ThreadInv'
    BY <1>4 DEF StopFlag
  <2>3. ConnectedIsRegistered' /\ NoThreadNoSession' /\ ConnectedIsRead'
    BY <1>4 DEF StopFlag
  <2>4. ReadIsNotified' /\ NotifiedBeforeDelivery'
    BY <1>4 DEF StopFlag
  <2> QED
    BY <2>1, <2>2, <2>3, <2>4
<1>5. CASE StopClear
  BY <1>5 DEF StopClear
<1>6. CASE StopAcceptor
  BY <1>6 DEF StopAcceptor
<1>7. CASE StopIo
  BY <1>7 DEF StopIo
<1>8. CASE StopJoin
  BY <1>8 DEF StopJoin
<1>9. CASE SetConnectionCallback
  BY <1>9 DEF SetConnectionCallback
<1>10. CASE IoReturn
  BY <1>10 DEF IoReturn
<1>11. CASE AcceptError
  BY <1>11, SessionsAssumption, Zenon DEF AcceptError, IoIdle, Handle
<1>12. CASE CreateSession
  BY <1>12 DEF CreateSession, Throw, Continue, Handle
<1>13. CASE InsertSession
  BY <1>13 DEF InsertSession, Continue
<1>14. CASE SendHello
  BY <1>14 DEF SendHello, Write, Continue
<1>15. CASE NotifyConnected
  BY <1>15 DEF NotifyConnected, Continue, Finish, Handle
<1>16. CASE CheckRunning
  BY <1>16 DEF CheckRunning, Finish, Handle
<1>17. CASE Deliver
  BY <1>17 DEF Deliver, Finish, Handle
<1>18. CASE CollectSessions
  BY <1>18 DEF CollectSessions, ConnectedPeers
<1>19. ASSUME NEW s \in Sessions, AcceptReady(s)
      PROVE  IInv'
  BY <1>19, Zenon DEF AcceptReady, IoIdle, Handle
<1>20. ASSUME NEW s \in Sessions, ConnectReady(s)
      PROVE  IInv'
  BY <1>20 DEF ConnectReady, IoIdle, Handle
<1>21. ASSUME NEW s \in Sessions, ReadReady(s)
      PROVE  IInv'
  BY <1>21 DEF ReadReady, IoIdle, Handle
<1>22. ASSUME NEW s \in Sessions, ReadError(s)
      PROVE  IInv'
  BY <1>22 DEF ReadError, IoIdle
<1>23. ASSUME NEW s \in Sessions, ResizeThrow(s)
      PROVE  IInv'
  BY <1>23 DEF ResizeThrow, IoIdle, Throw, Handle
<1>24. ASSUME NEW s \in Sessions, ConnectToPeer(s)
      PROVE  IInv'
  BY <1>24 DEF ConnectToPeer
<1>25. ASSUME NEW s \in Sessions, Resolved(s)
      PROVE  IInv'
  BY <1>25 DEF Resolved
<1>26. ASSUME NEW s \in Sessions, DisconnectFromPeer(s)
      PROVE  IInv'
  BY <1>26 DEF DisconnectFromPeer
<1>27. ASSUME NEW s \in Sessions, WriteTo(s)
      PROVE  IInv'
  BY <1>27 DEF WriteTo, Write
<1>28. ASSUME NEW s \in Sessions, RemoteDial(s)
      PROVE  IInv'
  BY <1>28 DEF RemoteDial
<1>29. ASSUME NEW s \in Sessions, RemoteAnswer(s)
      PROVE  IInv'
  BY <1>29 DEF RemoteAnswer
<1>30. ASSUME NEW s \in Sessions, RemoteClose(s)
      PROVE  IInv'
  BY <1>30 DEF RemoteClose
<1>31. CASE UNCHANGED vars
  BY <1>31 DEF vars
<1> QED
  BY <1>1, <1>2, <1>3, <1>4, <1>5, <1>6, <1>7, <1>8, <1>9, <1>10, <1>11, <1>12,
     <1>13, <1>14, <1>15, <1>16, <1>17, <1>18, <1>19, <1>20, <1>21, <1>22, <1>23, <1>24,
     <1>25, <1>26, <1>27, <1>28, <1>29, <1>30, <1>31, Zenon
  DEF Next, AppNext, IoNext, ClientNext, RemoteNext

\* The inductive invariant holds in every reachable state.
THEOREM Invariance == Spec => []IInv
  BY InitIInv, NextIInv, PTL DEF Spec

\* Type correctness of the network manager's state.
THEOREM TypeCorrect == Spec => []TypeOK
<1>1. IInv => TypeOK
  BY DEF IInv
<1> QED
  BY <1>1, Invariance, PTL

\* For any number of sessions and restarts: a manager that is not running has
\* no io thread and executes no handler, so that no callback runs after Stop
\* has returned and Start never assigns over a joinable thread.
THEOREM StoppedQuiet == Spec => []StoppedIsQuiet
<1>1. IInv => StoppedIsQuiet
  BY DEF IInv, ThreadInv, StoppedIsQuiet
<1> QED
  BY <1>1, Invariance, PTL

\* For any number of sessions: SendMessage, BroadcastMessage and DisconnectFromPeer
\* reach every connected session through _peer_sessions, but for one that is being
\* inserted.
THEOREM Registered == Spec => []ConnectedIsRegistered
<1>1. IInv => ConnectedIsRegistered
  BY DEF IInv
<1> QED
  BY <1>1, Invariance, PTL

\* For any number of sessions: the loop of Stop over _peer_sessions leaves no session
\* connected but the one a handler is about to insert.  The loop closes what is in
\* the map, and ConnectedIsRegistered says which sessions are not.
THEOREM StopCloses == Spec => StopClosesSessions
<1>1. ASSUME IInv, [Next]_vars, appPc = "stopClear", appPc' = "stopAcceptor"
      PROVE  connected' \subseteq {s \in Sessions : ioPc = "insert" /\ ioSession = s}
  <2> USE DEF IInv, TypeOK
  <2>1. StopClear
    <3>1. ~UNCHANGED vars
      BY <1>1, SMTT(30) DEF vars, appVars
    <3>2. IoNext \/ ClientNext \/ RemoteNext => appPc' = appPc
      BY DEF IoNext, ClientNext, RemoteNext, IoReturn, AcceptError, CreateSession, InsertSession,
             SendHello, NotifyConnected, CheckRunning, Deliver, AcceptReady, ConnectReady, ReadReady,
             ReadError, ResizeThrow, CollectSessions, ConnectToPeer, Resolved, DisconnectFromPeer,
             WriteTo, RemoteDial, RemoteAnswer, RemoteClose, appVars
    <3>3. AppNext /\ appPc = "stopClear" => StopClear
      BY DEF AppNext, StartOpen, StartThread, StartFlag, StopFlag, StopAcceptor, StopIo, StopJoin,
             SetConnectionCallback
    <3> QED
      BY <1>1, <3>1, <3>2, <3>3 DEF Next
  <2> QED
    BY <1>1, <2>1 DEF StopClear, ConnectedIsRegistered
<1> QED
  BY <1>1, Invariance, PTL DEF Spec, StopClosesSessions

\* For any number of sessions: no connected session is left without a read
\* while the io thread serves handlers.
THEOREM AlwaysRead == Spec => []ConnectedIsRead
<1>1. IInv => ConnectedIsRead
  BY DEF IInv
<1> QED
  BY <1>1, Invariance, PTL

\* For any number of sessions: no message callback precedes the connection
\* callback of its session.
THEOREM NotifiedFirst == Spec => []NotifiedBeforeDelivery
<1>1. IInv => NotifiedBeforeDelivery
  BY DEF IInv
<1> QED
  BY <1>1, Invariance, PTL
-----------------------------------------------------------------------------
\* What a handler's next step says of its kind.
KindInv ==
  /\ ioPc = "idle" => ioKind = "none"
  /\ ioPc = "deliver" => ioKind = "read"
  /\ ioPc = "check" => ioKind = "accept"

\* The steps of the application, the clients and the network leave the io thread's
\* variables and the outstanding accept alone, except that Start issues the first.
LEMMA OutsideIo ==
  AppNext \/ ClientNext \/ RemoteNext => UNCHANGED ioVars /\ (armed' = armed \/ armed' = TRUE)
<1> USE DEF ioVars
<1>1. AppNext => UNCHANGED ioVars /\ (armed' = armed \/ armed' = TRUE)
  BY DEF AppNext, StartOpen, StartThread, StartFlag, StopFlag, StopClear, StopAcceptor,
         StopIo, StopJoin, SetConnectionCallback
<1>2. ClientNext => UNCHANGED ioVars /\ armed' = armed
  BY DEF ClientNext, CollectSessions, ConnectToPeer, Resolved, DisconnectFromPeer, WriteTo
<1>3. RemoteNext => UNCHANGED ioVars /\ armed' = armed
  BY DEF RemoteNext, RemoteDial, RemoteAnswer, RemoteClose
<1> QED
  BY <1>1, <1>2, <1>3

\* Every step keeps KindInv, and every step of the io thread keeps the accept loop.
LEMMA KindStep ==
  ASSUME KindInv, [Next]_vars
  PROVE  /\ KindInv'
         /\ (armed \/ ioKind = "accept") /\ isRunning /\ isRunning'
              => armed' \/ ioKind' = "accept" \/ ioThread' # "running"
<1> USE DEF KindInv, ioVars
<1>1. CASE AppNext \/ ClientNext \/ RemoteNext
  BY <1>1, OutsideIo
<1>2. CASE IoNext
  <2> USE DEF IoIdle, Handle, Continue, Finish, Throw
  <2>1. CASE IoReturn \/ AcceptError
    BY <2>1 DEF IoReturn, AcceptError
  <2>2. CASE CreateSession \/ InsertSession \/ SendHello
    BY <2>2 DEF CreateSession, InsertSession, SendHello
  <2>3. CASE NotifyConnected \/ CheckRunning \/ Deliver
    BY <2>3 DEF NotifyConnected, CheckRunning, Deliver
  <2>4. ASSUME NEW s \in Sessions, AcceptReady(s) \/ ConnectReady(s)
        PROVE  /\ KindInv'
               /\ (armed \/ ioKind = "accept") /\ isRunning /\ isRunning'
                    => armed' \/ ioKind' = "accept" \/ ioThread' # "running"
    BY <2>4 DEF AcceptReady, ConnectReady
  <2>5. ASSUME NEW s \in Sessions, ReadReady(s) \/ ReadError(s) \/ ResizeThrow(s)
        PROVE  /\ KindInv'
               /\ (armed \/ ioKind = "accept") /\ isRunning /\ isRunning'
                    => armed' \/ ioKind' = "accept" \/ ioThread' # "running"
    BY <2>5 DEF ReadReady, ReadError, ResizeThrow
  <2> QED
    BY <1>2, <2>1, <2>2, <2>3, <2>4, <2>5 DEF IoNext
<1>3. CASE UNCHANGED vars
  BY <1>3 DEF vars
<1> QED
  BY <1>1, <1>2, <1>3 DEF Next

\* For any number of sessions: while the manager runs, the accept loop ends only
\* with the io thread, whatever becomes of the accepted connections.
THEOREM AcceptLoop == Spec => AcceptLoopContinues
<1>1. Init => KindInv
  BY DEF Init, KindInv
<1>2. KindInv /\ [Next]_vars => KindInv'
  BY KindStep
<1>3. KindInv /\ [Next]_vars =>
        [(armed \/ ioKind = "accept") /\ isRunning /\ isRunning'
           => armed' \/ ioKind' = "accept" \/ ioThread' # "running"]_vars
  BY KindStep
<1> QED
  BY <1>1, <1>2, <1>3, PTL DEF Spec, AcceptLoopContinues
=============================================================================
