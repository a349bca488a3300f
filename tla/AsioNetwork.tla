---------------------------- MODULE AsioNetwork ----------------------------
(***************************************************************************)
(* AsioNetworkManager (src/network/asio_network.cpp): the life cycle of    *)
(* the TCP listener, the io_context thread and the peer sessions.          *)
(*                                                                         *)
(* Three kinds of thread take steps.                                       *)
(*  - The application thread calls Start and Stop; appPc is its place in   *)
(*    the call.                                                            *)
(*  - The io thread runs io_context.run(): it executes one completion      *)
(*    handler at a time.  ioKind says which one, ioPc is the next          *)
(*    statement and ioSession the session it is about.                     *)
(*  - Client threads (console, discovery) call ConnectToPeer,              *)
(*    DisconnectFromPeer, SendMessage and BroadcastMessage.                *)
(* A critical section of _peers_mutex is one step.  A session is           *)
(* identified with the random PeerId drawn for it, and one value of        *)
(* Sessions stands for one TCP connection from the first SYN on.           *)
(* Message contents and framing are the subject of PeerStream.             *)
(***************************************************************************)
EXTENDS Naturals, FiniteSets

CONSTANTS Sessions,   \* TCP connections, named by the peer id drawn for them
          NoSession,  \* ioSession of a handler that has no session
          MaxStarts   \* bound on the calls of Start that open the listener

ASSUME SessionsAssumption == NoSession \notin Sessions

ASSUME StartsAssumption == MaxStarts \in Nat

VARIABLES isRunning,  \* _is_running
          acceptor,   \* _acceptor: "closed", "open" (not bound) or "listening"
          armed,      \* an async_accept is outstanding
          stopped,    \* _io_context.stopped()
          ioThread,   \* _io_thread: "none" (not joinable), "running", "finished"
          appPc,      \* the application thread's next step
          ioPc, ioKind, ioSession,  \* the completion handler being executed
          phase,      \* where a connection is on its way to a session
          remote,     \* the other end of a connection
          connected,  \* PeerSession::_is_connected is true
          inMap,      \* the keys of _peer_sessions
          reading,    \* sessions with an outstanding async_read
          sending,    \* sessions a SendMessage or BroadcastMessage still writes to
          notified,   \* what _connection_callback was last told of a session
          hasCallback,  \* _connection_callback is set
          starts      \* calls of Start that reached the listener

ioVars == <<ioPc, ioKind, ioSession>>
appVars == <<isRunning, acceptor, stopped, appPc, starts, hasCallback>>
linkVars == <<phase, remote>>
sessionVars == <<connected, inMap, reading, sending, notified>>
vars == <<appVars, ioThread, armed, ioVars, linkVars, sessionVars>>

AppSteps == {"idle", "startThread", "startFlag",
             "stopClear", "stopAcceptor", "stopIo", "stopJoin"}

\* A handler of an accepted or connected socket runs "create" ... "notify";
\* the accept handler ends with "check"; a read handler is at "deliver".
SessionSteps == {"create", "insert", "hello", "notify", "deliver"}
IoSteps == {"idle", "check"} \cup SessionSteps

Phases == {"free", "backlog", "resolving", "dialing", "session", "failed"}

TypeOK ==
  /\ isRunning \in BOOLEAN
  /\ acceptor \in {"closed", "open", "listening"}
  /\ armed \in BOOLEAN
  /\ stopped \in BOOLEAN
  /\ ioThread \in {"none", "running", "finished"}
  /\ appPc \in AppSteps
  /\ ioPc \in IoSteps
  /\ ioKind \in {"none", "accept", "connect", "read"}
  /\ ioSession \in Sessions \cup {NoSession}
  /\ phase \in [Sessions -> Phases]
  /\ remote \in [Sessions -> {"none", "up", "fin", "reset"}]
  /\ connected \in SUBSET Sessions
  /\ inMap \in SUBSET Sessions
  /\ reading \in SUBSET Sessions
  /\ sending \in SUBSET Sessions
  /\ notified \in [Sessions -> {"none", "unheard", "CONNECTED", "DISCONNECTED"}]
  /\ hasCallback \in BOOLEAN
  /\ starts \in 0..MaxStarts

Init ==
  /\ isRunning = FALSE
  /\ acceptor = "closed"
  /\ armed = FALSE
  /\ stopped = FALSE
  /\ ioThread = "none"
  /\ appPc = "idle"
  /\ ioPc = "idle" /\ ioKind = "none" /\ ioSession = NoSession
  /\ phase = [s \in Sessions |-> "free"]
  /\ remote = [s \in Sessions |-> "none"]
  /\ connected = {}
  /\ inMap = {}
  /\ reading = {}
  /\ sending = {}
  /\ notified = [s \in Sessions |-> "none"]
  /\ hasCallback = FALSE
  /\ starts = 0
-----------------------------------------------------------------------------
(***************************************************************************)
(* The application thread: Start.                                          *)
(***************************************************************************)

\* Start up to StartAccept(): the guard on _is_running, then open, bind, listen
\* and the first async_accept.  open() throws on an acceptor that is already
\* open; bind() may fail, which leaves the acceptor open: Start returns false.
StartOpen ==
  /\ appPc = "idle"
  /\ ~isRunning
  /\ starts < MaxStarts
  /\ starts' = starts + 1
  /\ \/ /\ acceptor = "closed"
        /\ acceptor' = "listening"
        /\ armed' = TRUE
        /\ appPc' = "startThread"
     \/ /\ acceptor = "closed"
        /\ acceptor' = "open"
        /\ UNCHANGED <<armed, appPc>>
     \/ /\ acceptor # "closed"
        /\ UNCHANGED <<acceptor, armed, appPc>>
  /\ UNCHANGED <<isRunning, stopped, hasCallback, ioThread, ioVars, linkVars, sessionVars>>

\* _io_thread = std::thread(...).  When it throws, Start returns false with the
\* acceptor open.
StartThread ==
  /\ appPc = "startThread"
  /\ \/ ioThread' = "running" /\ appPc' = "startFlag"
     \/ ioThread' = ioThread /\ appPc' = "idle"
  /\ UNCHANGED <<isRunning, acceptor, stopped, starts, hasCallback>>
  /\ UNCHANGED <<armed, ioVars, linkVars, sessionVars>>

\* _is_running = true, after the io thread was started.
StartFlag ==
  /\ appPc = "startFlag"
  /\ isRunning' = TRUE
  /\ appPc' = "idle"
  /\ UNCHANGED <<acceptor, stopped, starts, hasCallback>>
  /\ UNCHANGED <<ioThread, armed, ioVars, linkVars, sessionVars>>

(***************************************************************************)
(* The application thread: Stop, and SetConnectionCallback.                *)
(***************************************************************************)

StopFlag ==
  /\ appPc = "idle"
  /\ isRunning
  /\ isRunning' = FALSE
  /\ appPc' = "stopClear"
  /\ UNCHANGED <<acceptor, stopped, starts, hasCallback>>
  /\ UNCHANGED <<ioThread, armed, ioVars, linkVars, sessionVars>>

\* Mutant of StopClear: the map is emptied, and the sessions are not closed.
StopClearOnly ==
  /\ appPc = "stopClear"
  /\ inMap' = {}
  /\ appPc' = "stopAcceptor"
  /\ UNCHANGED <<isRunning, acceptor, stopped, starts, hasCallback>>
  /\ UNCHANGED <<ioThread, armed, ioVars, linkVars, connected, reading, sending, notified>>

\* Under _peers_mutex: Close every session in the map and empty the map.
StopClear ==
  /\ appPc = "stopClear"
  /\ connected' = connected \ inMap
  /\ inMap' = {}
  /\ appPc' = "stopAcceptor"
  /\ UNCHANGED <<isRunning, acceptor, stopped, starts, hasCallback>>
  /\ UNCHANGED <<ioThread, armed, ioVars, linkVars, reading, sending, notified>>

\* _acceptor.close(): connections still in the listen queue are reset.
StopAcceptor ==
  /\ appPc = "stopAcceptor"
  /\ acceptor' = "closed"
  /\ phase' = [s \in Sessions |-> IF phase[s] = "backlog" THEN "failed" ELSE phase[s]]
  /\ appPc' = "stopIo"
  /\ UNCHANGED <<isRunning, stopped, starts, hasCallback>>
  /\ UNCHANGED <<ioThread, armed, ioVars, remote, sessionVars>>

\* Mutant of StopIo: _io_context.stop() is left out.
StopIoOmitted ==
  /\ appPc = "stopIo"
  /\ appPc' = "stopJoin"
  /\ UNCHANGED <<isRunning, acceptor, stopped, starts, hasCallback>>
  /\ UNCHANGED <<ioThread, armed, ioVars, linkVars, sessionVars>>

StopIo ==
  /\ appPc = "stopIo"
  /\ stopped' = TRUE
  /\ appPc' = "stopJoin"
  /\ UNCHANGED <<isRunning, acceptor, starts, hasCallback>>
  /\ UNCHANGED <<ioThread, armed, ioVars, linkVars, sessionVars>>

\* Mutant of StopJoin: the io thread is detached, not joined.
StopDetach ==
  /\ appPc = "stopJoin"
  /\ appPc' = "idle"
  /\ UNCHANGED <<isRunning, acceptor, stopped, starts, hasCallback>>
  /\ UNCHANGED <<ioThread, armed, ioVars, linkVars, sessionVars>>

\* _io_thread.join() returns once the thread function has.
StopJoin ==
  /\ appPc = "stopJoin"
  /\ ioThread = "finished"
  /\ ioThread' = "none"
  /\ appPc' = "idle"
  /\ UNCHANGED <<isRunning, acceptor, stopped, starts, hasCallback>>
  /\ UNCHANGED <<armed, ioVars, linkVars, sessionVars>>

\* Called between the calls of Start and Stop, so possibly while the io thread
\* is already running.
SetConnectionCallback ==
  /\ appPc = "idle"
  /\ hasCallback' = TRUE
  /\ UNCHANGED <<isRunning, acceptor, stopped, appPc, starts>>
  /\ UNCHANGED <<ioThread, armed, ioVars, linkVars, sessionVars>>
-----------------------------------------------------------------------------
(***************************************************************************)
(* The io thread.  It touches none of appVars.                             *)
(***************************************************************************)

\* run() looks for a handler to execute.
IoIdle == ioThread = "running" /\ ioPc = "idle" /\ ~stopped

\* A handler starts, for session s.
Handle(kind, step, s) == ioKind' = kind /\ ioPc' = step /\ ioSession' = s

\* The handler goes on to its next step.
Continue(step) == ioPc' = step /\ UNCHANGED <<ioThread, ioKind, ioSession>>

\* The handler returns to run().
Finish == Handle("none", "idle", NoSession) /\ UNCHANGED ioThread

\* An exception leaves the handler and run(); the thread function catches it
\* and returns.
Throw == Handle("none", "idle", NoSession) /\ ioThread' = "finished"

\* run() returns once the io_context is stopped; it never does so for lack of
\* work, because of _work_guard.
IoReturn ==
  /\ ioThread = "running" /\ ioPc = "idle" /\ stopped
  /\ ioThread' = "finished"
  /\ UNCHANGED <<appVars, armed, ioVars, linkVars, sessionVars>>

\* async_accept completed with a socket.
AcceptReady(s) ==
  /\ IoIdle
  /\ armed /\ acceptor = "listening" /\ phase[s] = "backlog"
  /\ armed' = FALSE
  /\ phase' = [phase EXCEPT ![s] = "session"]
  /\ Handle("accept", "create", s)
  /\ UNCHANGED <<appVars, ioThread, remote, sessionVars>>

\* async_accept completed with an error: the acceptor was closed, or the
\* accept failed for want of a descriptor.
AcceptError ==
  /\ IoIdle
  /\ armed
  /\ armed' = FALSE
  /\ Handle("accept", "check", NoSession)
  /\ UNCHANGED <<appVars, ioThread, linkVars, sessionVars>>

\* async_connect completed: with a socket, or with an error that is handed to
\* _error_callback.
ConnectReady(s) ==
  /\ IoIdle
  /\ phase[s] = "dialing"
  /\ \/ /\ remote[s] # "none"
        /\ phase' = [phase EXCEPT ![s] = "session"]
        /\ Handle("connect", "create", s)
     \/ /\ remote[s] = "none"
        /\ phase' = [phase EXCEPT ![s] = "failed"]
        /\ UNCHANGED ioVars
  /\ UNCHANGED <<appVars, ioThread, armed, remote, sessionVars>>

\* remote_endpoint(), which throws when the connection has been reset
\* meanwhile, and the PeerSession constructor.
CreateSession ==
  /\ ioPc = "create"
  /\ \/ /\ remote[ioSession] = "reset"
        /\ phase' = [phase EXCEPT ![ioSession] = "failed"]
        /\ Throw
        /\ UNCHANGED connected
     \/ /\ remote[ioSession] # "reset"
        /\ connected' = connected \cup {ioSession}
        /\ Continue("insert")
        /\ UNCHANGED phase
  /\ UNCHANGED <<appVars, armed, remote, inMap, reading, sending, notified>>

\* Under _peers_mutex: _peer_sessions[peer_id] = session; then session->Start(),
\* whose outcome only this thread can see.
InsertSession ==
  /\ ioPc = "insert"
  /\ inMap' = inMap \cup {ioSession}
  /\ reading' = reading \cup {ioSession}
  /\ Continue("hello")
  /\ UNCHANGED <<appVars, armed, linkVars, connected, sending, notified>>

\* PeerSession::SendMessage: nothing on a closed session, and a failed write
\* closes it.
Write(s) == \/ UNCHANGED connected
            \/ remote[s] # "up" /\ connected' = connected \ {s}

\* Mutant of SendHello: the handler returns when the notification cannot be sent.
SendHelloReturns ==
  /\ ioPc = "hello"
  /\ Write(ioSession)
  /\ IF ioSession \in connected' THEN Continue("notify") ELSE Finish
  /\ UNCHANGED <<appVars, armed, linkVars, inMap, reading, sending, notified>>

\* session->SendMessage(conn_msg).
SendHello ==
  /\ ioPc = "hello"
  /\ Write(ioSession)
  /\ Continue("notify")
  /\ UNCHANGED <<appVars, armed, linkVars, inMap, reading, sending, notified>>

\* Mutant of NotifyConnected: the accept handler returns after the announcement.
NotifyConnectedReturns ==
  /\ ioPc = "notify"
  /\ notified' = [notified EXCEPT ![ioSession] = IF hasCallback THEN "CONNECTED" ELSE "unheard"]
  /\ Finish
  /\ UNCHANGED <<appVars, armed, linkVars, connected, inMap, reading, sending>>

\* _connection_callback(peer_id, CONNECTED), if it is set.
NotifyConnected ==
  /\ ioPc = "notify"
  /\ notified' = [notified EXCEPT ![ioSession] = IF hasCallback THEN "CONNECTED" ELSE "unheard"]
  /\ \/ ioKind = "accept" /\ Continue("check")
     \/ ioKind = "connect" /\ Finish
  /\ UNCHANGED <<appVars, armed, linkVars, connected, inMap, reading, sending>>

\* if (_is_running) StartAccept().
CheckRunning ==
  /\ ioPc = "check"
  /\ armed' = isRunning
  /\ Finish
  /\ UNCHANGED <<appVars, linkVars, sessionVars>>

\* async_read completed with a message.  It may have completed before the
\* socket was closed by either end.
ReadReady(s) ==
  /\ IoIdle
  /\ s \in reading
  /\ reading' = reading \ {s}
  /\ Handle("read", "deliver", s)
  /\ UNCHANGED <<appVars, ioThread, armed, linkVars, connected, inMap, sending, notified>>

\* Mutant of ReadError: the session is not closed.
ReadErrorIgnored(s) ==
  /\ IoIdle
  /\ s \in reading
  /\ s \notin connected \/ remote[s] # "up"
  /\ reading' = reading \ {s}
  /\ UNCHANGED <<appVars, ioThread, armed, ioVars, linkVars, connected, inMap, sending, notified>>

\* async_read completed with an error, because the other end or this one
\* closed the socket: Close.
ReadError(s) ==
  /\ IoIdle
  /\ s \in reading
  /\ s \notin connected \/ remote[s] # "up"
  /\ reading' = reading \ {s}
  /\ connected' = connected \ {s}
  /\ UNCHANGED <<appVars, ioThread, armed, ioVars, linkVars, inMap, sending, notified>>

\* The size arrived, and _read_buffer.resize() throws outside of any try block.
ResizeThrow(s) ==
  /\ IoIdle
  /\ s \in reading
  /\ reading' = reading \ {s}
  /\ Throw
  /\ UNCHANGED <<appVars, armed, linkVars, connected, inMap, sending, notified>>

\* Mutant of Deliver: a message of unknown type returns before ReadMessage().
DeliverReturns ==
  /\ ioPc = "deliver"
  /\ Finish
  /\ \/ reading' = reading \cup {ioSession}
     \/ UNCHANGED reading
  /\ UNCHANGED <<appVars, armed, linkVars, connected, inMap, sending, notified>>

\* The message is decoded, handed to the session's callback if it has a known
\* type, and the next read issued.  An exception of the callback (an empty
\* std::function throws when called) is caught: the session is closed and not
\* read again.
Deliver ==
  /\ ioPc = "deliver"
  /\ \/ /\ reading' = reading \cup {ioSession}
        /\ UNCHANGED connected
     \/ /\ connected' = connected \ {ioSession}
        /\ UNCHANGED reading
  /\ Finish
  /\ UNCHANGED <<appVars, armed, linkVars, inMap, sending, notified>>
-----------------------------------------------------------------------------
(***************************************************************************)
(* Client threads.                                                         *)
(***************************************************************************)

\* ConnectToPeer up to the (blocking) resolve.
ConnectToPeer(s) ==
  /\ isRunning
  /\ phase[s] = "free"
  /\ phase' = [phase EXCEPT ![s] = "resolving"]
  /\ UNCHANGED <<appVars, ioThread, armed, ioVars, remote, sessionVars>>

\* ... and from there: async_connect, or false when the resolver throws.
Resolved(s) ==
  /\ phase[s] = "resolving"
  /\ \E p \in {"dialing", "failed"} : phase' = [phase EXCEPT ![s] = p]
  /\ UNCHANGED <<appVars, ioThread, armed, ioVars, remote, sessionVars>>

\* Mutant of DisconnectFromPeer: the session is erased and not closed.
DisconnectWithoutClose(s) ==
  /\ s \in inMap
  /\ inMap' = inMap \ {s}
  /\ notified' = IF hasCallback THEN [notified EXCEPT ![s] = "DISCONNECTED"] ELSE notified
  /\ UNCHANGED <<appVars, ioThread, armed, ioVars, linkVars, connected, reading, sending>>

\* DisconnectFromPeer: one critical section, the callback included.
DisconnectFromPeer(s) ==
  /\ s \in inMap
  /\ connected' = connected \ {s}
  /\ inMap' = inMap \ {s}
  /\ notified' = IF hasCallback THEN [notified EXCEPT ![s] = "DISCONNECTED"] ELSE notified
  /\ UNCHANGED <<appVars, ioThread, armed, ioVars, linkVars, reading, sending>>

\* The sessions GetConnectedPeers lists and BroadcastMessage collects.
ConnectedPeers == inMap \cap connected

\* The critical section of SendMessage and BroadcastMessage: look the sessions
\* up; they are written to after the mutex is released.
CollectSessions ==
  /\ sending = {}
  /\ \E S \in {ConnectedPeers} \cup {{s} : s \in ConnectedPeers} :
       S # {} /\ sending' = S
  /\ UNCHANGED <<appVars, ioThread, armed, ioVars, linkVars, connected, inMap, reading, notified>>

\* session->SendMessage(message) on a collected session.
WriteTo(s) ==
  /\ s \in sending
  /\ sending' = sending \ {s}
  /\ Write(s)
  /\ UNCHANGED <<appVars, ioThread, armed, ioVars, linkVars, inMap, reading, notified>>
-----------------------------------------------------------------------------
(***************************************************************************)
(* The network.                                                            *)
(***************************************************************************)

\* Another node connects to the listener.
RemoteDial(s) ==
  /\ acceptor = "listening"
  /\ phase[s] = "free"
  /\ phase' = [phase EXCEPT ![s] = "backlog"]
  /\ remote' = [remote EXCEPT ![s] = "up"]
  /\ UNCHANGED <<appVars, ioThread, armed, ioVars, sessionVars>>

\* Another node answers a connection attempt.
RemoteAnswer(s) ==
  /\ phase[s] = "dialing"
  /\ remote[s] = "none"
  /\ remote' = [remote EXCEPT ![s] = "up"]
  /\ UNCHANGED <<appVars, ioThread, armed, ioVars, phase, sessionVars>>

\* The other end closes or resets the connection.
RemoteClose(s) ==
  /\ remote[s] = "up"
  /\ \E r \in {"fin", "reset"} : remote' = [remote EXCEPT ![s] = r]
  /\ UNCHANGED <<appVars, ioThread, armed, ioVars, phase, sessionVars>>
-----------------------------------------------------------------------------
AppNext == \/ StartOpen \/ StartThread \/ StartFlag
           \/ StopFlag \/ StopClear \/ StopAcceptor \/ StopIo \/ StopJoin
           \/ SetConnectionCallback

IoNext == \/ IoReturn \/ AcceptError
          \/ CreateSession \/ InsertSession \/ SendHello
          \/ NotifyConnected \/ CheckRunning \/ Deliver
          \/ \E s \in Sessions : \/ AcceptReady(s) \/ ConnectReady(s)
                                 \/ ReadReady(s) \/ ReadError(s) \/ ResizeThrow(s)

ClientNext == \/ CollectSessions
              \/ \E s \in Sessions : \/ ConnectToPeer(s) \/ Resolved(s)
                                     \/ DisconnectFromPeer(s) \/ WriteTo(s)

RemoteNext == \E s \in Sessions : RemoteDial(s) \/ RemoteAnswer(s) \/ RemoteClose(s)

Next == AppNext \/ IoNext \/ ClientNext \/ RemoteNext

Spec == Init /\ [][Next]_vars

(***************************************************************************)
(* Fairness.  A thread that is inside a call or a handler goes on (no      *)
(* callback of the program blocks), and run() executes every completion    *)
(* that stays available: its queue is first-in first-out, and only         *)
(* finitely much data precedes the end of a stream, so a completion that   *)
(* is available again and again is executed.  Nothing is assumed of the    *)
(* other nodes, of calls the application may make, or of failures.         *)
(***************************************************************************)
Fairness ==
  /\ WF_vars(StartThread \/ StartFlag)
  /\ WF_vars(StopClear \/ StopAcceptor \/ StopIo \/ StopJoin)
  /\ WF_vars(IoReturn)
  /\ WF_vars(\/ CreateSession \/ InsertSession \/ SendHello
             \/ NotifyConnected \/ CheckRunning \/ Deliver)
  /\ \A s \in Sessions : /\ SF_vars(AcceptReady(s)) /\ SF_vars(ConnectReady(s))
                         /\ SF_vars(ReadError(s))
                         /\ WF_vars(Resolved(s)) /\ WF_vars(WriteTo(s))

FairSpec == Spec /\ Fairness
-----------------------------------------------------------------------------
(***************************************************************************)
(* Properties that hold.                                                   *)
(***************************************************************************)

\* Outside of Start and Stop, a manager that is not running has no io thread
\* and no handler in flight.  So no message, connection or error callback runs
\* after Stop has returned (the objects they refer to may be destroyed), and a
\* later Start never assigns over a joinable std::thread, which would
\* terminate the program.
StoppedIsQuiet ==
  appPc \in {"idle", "startThread"} /\ ~isRunning
     => ioThread = "none" /\ ioPc = "idle"

\* Every connected session is in _peer_sessions, except for the moment between
\* its construction and its insertion: SendMessage, BroadcastMessage and
\* DisconnectFromPeer reach every open socket through the map.
ConnectedIsRegistered ==
  \A s \in connected : s \in inMap \/ (ioPc = "insert" /\ ioSession = s)

\* When Stop has closed what is in _peer_sessions, no session is connected but one
\* that a handler in flight has just constructed.  That one, and those that handlers
\* make before Stop reaches _io_context.stop(), are inserted afterwards and are
\* still connected, in the map and read by nobody, when Stop has returned.
StopClosesSessions ==
  [][appPc = "stopClear" /\ appPc' = "stopAcceptor"
       => connected' \subseteq {s \in Sessions : ioPc = "insert" /\ ioSession = s}]_vars

\* While the io_context is being run, every connected session has a read
\* outstanding or a handler that is about to issue one.  Only the read notices
\* that the other end has gone, so a session without one would stay connected
\* for ever.
ConnectedIsRead ==
  ioThread = "running" /\ ~stopped =>
    \A s \in connected :
       \/ s \in reading
       \/ ioSession = s /\ ioPc \in {"insert", "deliver"}

\* A message of a session is handed to the message callback only after the
\* connection callback had its turn for that session, although the read is
\* started first: both run on the one io thread.
NotifiedBeforeDelivery ==
  ioPc = "deliver" => notified[ioSession] # "none"

\* Stop returns: neither a handler in flight nor the outstanding operations
\* keep the io thread from finishing.
StopReturns == appPc = "stopClear" ~> appPc = "idle"

\* A session whose other end has closed stops being connected, unless the io
\* thread has ended or the io_context is stopped.
DeadPeerNoticed ==
  \A s \in Sessions :
    (s \in connected /\ remote[s] # "up")
       ~> (s \notin connected \/ ioThread # "running" \/ stopped)

\* The accept loop ends only with the io thread: as long as the manager runs, every
\* accept handler issues the next async_accept, whatever has become of the
\* connection it accepted.  (A handler that ends before Start has set _is_running
\* is not covered: it is the last one.)
AcceptLoopContinues ==
  [][(armed \/ ioKind = "accept") /\ isRunning /\ isRunning'
       => armed' \/ ioKind' = "accept" \/ ioThread' # "running"]_vars
=============================================================================
