---------------------------- MODULE Application ----------------------------
(***************************************************************************)
(* The program (src/main.cpp): main creates the managers, wires their      *)
(* callbacks and stops them, around the network manager of AsioNetwork,    *)
(* whose actions the threads of the program take here.                     *)
(*  - main calls Start, sets the callbacks, starts the discovery and the   *)
(*    UI, polls, and stops the discovery and then the network.  mainPc is  *)
(*    its next statement that another thread can tell apart.               *)
(*  - The listen thread of the discovery calls ConnectToPeer, twice for    *)
(*    every peer it discovers.                                             *)
(*  - The console's input thread connects, sends and exits.                *)
(*  - The io thread hands every message to the callback its session has    *)
(*    captured when it was made.                                           *)
(* SIGINT and SIGTERM are handled on the main thread.  The program never   *)
(* calls DisconnectFromPeer.  The inside of the discovery and of the UI is *)
(* the subject of PeerDiscovery and ConsoleUI.                             *)
(***************************************************************************)
EXTENDS AsioNetwork

VARIABLES mainPc,
          callback,     \* the network manager's _message_callback
          captured,     \* the _message_callback of each session
          discovering,  \* PeerDiscovery::_running
          discovered,   \* PeerDiscovery::_discovered_callback is set
          listener,     \* the listen thread
          dials,        \* calls of ConnectToPeer its callback has still to make
          uiSet,        \* g_ui is set
          ui,           \* ConsoleUI::_running
          input,        \* the UI's input thread
          resolver,     \* the connection each thread's ConnectToPeer resolves
          dialled,      \* the sessions this node has opened
          announced     \* the sessions whose id the UI was told

wiringVars == <<callback, uiSet>>
discoveryVars == <<discovering, discovered, listener, dials>>
consoleVars == <<ui, input>>
dialVars == <<resolver, dialled>>
programVars == <<mainPc, wiringVars, captured, announced, discoveryVars, consoleVars, dialVars>>
networkVars == vars
allVars == <<networkVars, programVars>>

\* From SetupSignalHandlers on.
Interruptible == {"discovery", "discovered", "ui", "poll", "joinDiscovery", "network"}

Ended == {"failed", "returned", "exited"}

ProgramTypeOK ==
  /\ mainPc \in {"start", "chat", "connection", "files", "gui", "signalled"} \cup Interruptible \cup Ended
  /\ callback \in {"none", "chat", "files"}
  /\ captured \in [Sessions -> {"unset", "none", "chat", "files"}]
  /\ discovering \in BOOLEAN /\ discovered \in BOOLEAN /\ uiSet \in BOOLEAN /\ ui \in BOOLEAN
  /\ listener \in {"none", "wait", "callback", "done"}
  /\ dials \in 0..2
  /\ input \in {"none", "loop", "line", "stop", "done"}
  /\ resolver \in [{"listener", "console"} -> Sessions \cup {NoSession}]
  /\ dialled \in SUBSET Sessions /\ announced \in SUBSET Sessions

ProgramInit ==
  /\ Init
  /\ mainPc = "start"
  /\ callback = "none"
  /\ captured = [s \in Sessions |-> "unset"]
  /\ discovering = FALSE /\ discovered = FALSE /\ listener = "none" /\ dials = 0
  /\ uiSet = FALSE /\ ui = FALSE /\ input = "none"
  /\ dialled = {} /\ announced = {}
  /\ resolver = [t \in {"listener", "console"} |-> NoSession]

Goto(pc) == mainPc' = pc
-----------------------------------------------------------------------------
(***************************************************************************)
(* main.                                                                   *)
(***************************************************************************)

\* network_manager->Start(port); main returns 1 when it fails.
MainStart ==
  /\ mainPc = "start"
  /\ StartOpen \/ StartThread \/ StartFlag
  /\ Goto(IF appPc' # "idle" THEN "start" ELSE IF isRunning' THEN "chat" ELSE "failed")
  /\ UNCHANGED <<wiringVars, captured, announced, discoveryVars, consoleVars, dialVars>>

\* network_manager->SetMessageCallback with the chat manager's HandleMessage.
MainSetChat ==
  /\ mainPc = "chat"
  /\ callback' = "chat"
  /\ Goto("connection")
  /\ UNCHANGED <<networkVars, uiSet, captured, announced, discoveryVars, consoleVars, dialVars>>

MainSetConnection ==
  /\ mainPc = "connection"
  /\ SetConnectionCallback
  /\ Goto("files")
  /\ UNCHANGED <<wiringVars, captured, announced, discoveryVars, consoleVars, dialVars>>

\* FileTransferFactory::Create: the constructor sets the network manager's message
\* callback, too.
MainCreateFiles ==
  /\ mainPc = "files"
  /\ callback' = "files"
  /\ Goto("gui")
  /\ UNCHANGED <<networkVars, uiSet, captured, announced, discoveryVars, consoleVars, dialVars>>

\* Mutant of MainCreateUI: a local variable hides g_ui.
MainCreateUIHidden ==
  /\ mainPc = "gui"
  /\ Goto("discovery")
  /\ UNCHANGED <<networkVars, wiringVars, captured, announced, discoveryVars, consoleVars, dialVars>>

\* g_ui is assigned, and the signal handlers are set.
MainCreateUI ==
  /\ mainPc = "gui"
  /\ uiSet' = TRUE
  /\ Goto("discovery")
  /\ UNCHANGED <<networkVars, callback, captured, announced, discoveryVars, consoleVars, dialVars>>

\* peer_discovery->Start(port), which may fail.
MainStartDiscovery ==
  /\ mainPc = "discovery"
  /\ \/ discovering' = TRUE /\ listener' = "wait" /\ Goto("discovered")
     \/ UNCHANGED <<discovering, listener>> /\ Goto("ui")
  /\ UNCHANGED <<networkVars, wiringVars, captured, announced, discovered, dials, consoleVars, dialVars>>

MainSetDiscovered ==
  /\ mainPc = "discovered"
  /\ discovered' = TRUE
  /\ Goto("ui")
  /\ UNCHANGED <<networkVars, wiringVars, captured, announced, discovering, listener, dials>>
  /\ UNCHANGED <<consoleVars, dialVars>>

\* g_ui->Start(): the input thread runs.
MainStartUI ==
  /\ mainPc = "ui"
  /\ ui' = TRUE /\ input' = "loop"
  /\ Goto("poll")
  /\ UNCHANGED <<networkVars, wiringVars, captured, announced, discoveryVars, dialVars>>

\* Mutant of MainPoll: the network is stopped first.
MainPollSwapped ==
  /\ mainPc = "poll" /\ ~ui
  /\ Goto("network")
  /\ UNCHANGED <<networkVars, wiringVars, captured, announced, discoveryVars, consoleVars, dialVars>>

\* The UI is no longer running; peer_discovery->Stop() as far as the joins.
MainPoll ==
  /\ mainPc = "poll" /\ ~ui
  /\ discovering' = FALSE
  /\ Goto("joinDiscovery")
  /\ UNCHANGED <<networkVars, wiringVars, captured, announced, discovered, listener, dials>>
  /\ UNCHANGED <<consoleVars, dialVars>>

\* Mutant of MainJoinDiscovery: the listen thread is detached.
MainDetachDiscovery ==
  /\ mainPc = "joinDiscovery"
  /\ Goto("network")
  /\ UNCHANGED <<networkVars, wiringVars, captured, announced, discoveryVars, consoleVars, dialVars>>

MainJoinDiscovery ==
  /\ mainPc = "joinDiscovery" /\ listener \in {"none", "done"}
  /\ listener' = "none"
  /\ Goto("network")
  /\ UNCHANGED <<networkVars, wiringVars, captured, announced, discovering, discovered, dials>>
  /\ UNCHANGED <<consoleVars, dialVars>>

\* network_manager->Stop(), and main returns.
MainStop ==
  /\ mainPc = "network"
  /\ StopFlag \/ StopClear \/ StopAcceptor \/ StopIo \/ StopJoin
  /\ Goto(IF appPc' = "idle" THEN "returned" ELSE "network")
  /\ UNCHANGED <<wiringVars, captured, announced, discoveryVars, consoleVars, dialVars>>

\* SignalHandler: Stop of the UI.  One that is not running returns at once, and
\* std::exit follows, which does not destroy the locals of main ...
Signal ==
  /\ mainPc \in Interruptible
  /\ ui' = FALSE
  /\ Goto(IF ui THEN "signalled" ELSE "exited")
  /\ UNCHANGED <<networkVars, wiringVars, captured, announced, discoveryVars, input, dialVars>>

\* ... and one that was running joins its threads first.
SignalExit ==
  /\ mainPc = "signalled" /\ input = "done"
  /\ Goto("exited")
  /\ UNCHANGED <<networkVars, wiringVars, captured, announced, discoveryVars, consoleVars, dialVars>>
-----------------------------------------------------------------------------
(***************************************************************************)
(* ConnectToPeer on the thread t.  A resolution that would need one more   *)
(* connection than Sessions holds is taken to fail.                        *)
(***************************************************************************)

Dial(t) ==
  /\ resolver[t] = NoSession
  /\ \E s \in Sessions :
       /\ ConnectToPeer(s)
       /\ resolver' = [resolver EXCEPT ![t] = s]
       /\ dialled' = dialled \cup {s}

Dialled(t) ==
  /\ resolver[t] \in Sessions
  /\ Resolved(resolver[t])
  /\ resolver' = [resolver EXCEPT ![t] = NoSession]
  /\ UNCHANGED dialled

\* ConnectToPeer returns false at once.
DialRefused ==
  /\ ~isRunning \/ \A s \in Sessions : phase[s] # "free"
  /\ UNCHANGED <<networkVars, dialVars>>

(***************************************************************************)
(* The listen thread of the discovery.                                     *)
(***************************************************************************)

\* A datagram of a new peer, which may arrive after Stop has cleared _running: the
\* callback connects to the peer, and again, unless auto_connect is off.
ListenerHears ==
  /\ listener = "wait" /\ discovered
  /\ listener' = "callback" /\ dials' \in {0, 2}
  /\ UNCHANGED <<networkVars, mainPc, wiringVars, captured, announced, discovering, discovered>>
  /\ UNCHANGED <<consoleVars, dialVars>>

ListenerDials ==
  /\ listener = "callback" /\ dials > 0
  /\ \/ Dial("listener") /\ UNCHANGED dials
     \/ resolver["listener"] = NoSession /\ DialRefused /\ dials' = dials - 1
     \/ Dialled("listener") /\ dials' = dials - 1
  /\ UNCHANGED <<mainPc, wiringVars, captured, announced, discovering, discovered, listener, consoleVars>>

\* Back in the loop, the thread tests _running before it waits again.
ListenerReturns ==
  /\ listener = "callback" /\ dials = 0
  /\ listener' = IF discovering THEN "wait" ELSE "done"
  /\ UNCHANGED <<networkVars, mainPc, wiringVars, captured, announced, discovering, discovered, dials>>
  /\ UNCHANGED <<consoleVars, dialVars>>

\* Any other datagram wakes the thread after Stop has cleared _running.
ListenerEnds ==
  /\ listener = "wait" /\ ~discovering
  /\ listener' = "done"
  /\ UNCHANGED <<networkVars, mainPc, wiringVars, captured, announced, discovering, discovered, dials>>
  /\ UNCHANGED <<consoleVars, dialVars>>

(***************************************************************************)
(* The input thread of the console.  It tests _running before it runs the  *)
(* line it has read, not while it runs it.                                 *)
(***************************************************************************)

\* The input thread is in no call of the network manager.
ConsoleIdle == resolver["console"] = NoSession /\ sending = {}

\* getline returns.
ConsoleReads ==
  /\ input = "loop"
  /\ input' = IF ui THEN "line" ELSE "done"
  /\ UNCHANGED <<networkVars, mainPc, wiringVars, captured, announced, discoveryVars, ui, dialVars>>

\* The command connect, if ConnectToPeer does not return at once.
ConsoleConnects ==
  /\ input = "line"
  /\ \/ ConsoleIdle /\ Dial("console") /\ UNCHANGED input
     \/ Dialled("console") /\ input' = "loop"
  /\ UNCHANGED <<mainPc, wiringVars, captured, announced, discoveryVars, ui>>

\* The commands chat and send, and a line to broadcast.
ConsoleSends ==
  /\ input = "line"
  /\ \/ ConsoleIdle /\ CollectSessions
     \/ \E s \in Sessions : WriteTo(s)
  /\ input' = IF sending' = {} THEN "loop" ELSE "line"
  /\ UNCHANGED <<mainPc, wiringVars, captured, announced, discoveryVars, ui, dialVars>>

\* Any other line calls nothing of the network manager that changes its state.
ConsoleReturns ==
  /\ input = "line" /\ ConsoleIdle
  /\ input' = "loop"
  /\ UNCHANGED <<networkVars, mainPc, wiringVars, captured, announced, discoveryVars, ui, dialVars>>

\* The command exit: Stop of the UI on its own input thread, as far as the joins.
ConsoleExits ==
  /\ input = "line" /\ ConsoleIdle
  /\ ui' = FALSE
  /\ input' = IF ui THEN "stop" ELSE "loop"
  /\ UNCHANGED <<networkVars, mainPc, wiringVars, captured, announced, discoveryVars, dialVars>>

\* The thread cannot join itself: the exception is caught, and the loop goes on.
\* Nobody joins the UI's threads any more.
ConsoleCaught ==
  /\ input = "stop"
  /\ input' = "loop"
  /\ UNCHANGED <<networkVars, mainPc, wiringVars, captured, announced, discoveryVars, ui, dialVars>>
-----------------------------------------------------------------------------
(***************************************************************************)
(* The io thread, and the network.                                         *)
(***************************************************************************)

\* The PeerSession constructor copies _message_callback as it is now.
MakeSession ==
  /\ CreateSession
  /\ captured' = IF ioPc' = "insert" THEN [captured EXCEPT ![ioSession] = callback] ELSE captured
  /\ UNCHANGED <<mainPc, wiringVars, announced, discoveryVars, consoleVars, dialVars>>

\* The connection callback tells the UI, if there is one yet.
AnnounceSession ==
  /\ NotifyConnected
  /\ announced' = IF hasCallback /\ uiSet THEN announced \cup {ioSession} ELSE announced
  /\ UNCHANGED <<mainPc, wiringVars, captured, discoveryVars, consoleVars, dialVars>>

\* A message of a known type is handed to the callback.  An empty one throws, and
\* the session is closed; a handler of the file transfer may throw, too.
DeliverMessage ==
  /\ Deliver
  /\ \/ captured[ioSession] = "none" /\ reading' = reading
     \/ captured[ioSession] = "chat" /\ connected' = connected
     \/ captured[ioSession] = "files"
     \/ connected' = connected    \* a type the factory does not know
  /\ UNCHANGED programVars

\* The rest of the io thread touches none of the program's variables.
RunHandlers ==
  /\ \/ IoReturn \/ AcceptError \/ InsertSession \/ SendHello \/ CheckRunning
     \/ \E s \in Sessions : \/ AcceptReady(s) \/ ConnectReady(s)
                            \/ ReadReady(s) \/ ReadError(s) \/ ResizeThrow(s)
  /\ UNCHANGED programVars

Environment == RemoteNext /\ UNCHANGED programVars

Alive == mainPc \notin Ended

MainNext == \/ MainStart \/ MainSetChat \/ MainSetConnection \/ MainCreateFiles \/ MainCreateUI
            \/ MainStartDiscovery \/ MainSetDiscovered \/ MainStartUI
            \/ MainPoll \/ MainJoinDiscovery \/ MainStop \/ SignalExit
ListenerNext == ListenerDials \/ ListenerReturns \/ ListenerEnds
ConsoleNext == \/ ConsoleReads \/ ConsoleConnects \/ ConsoleSends
               \/ ConsoleReturns \/ ConsoleExits \/ ConsoleCaught

\* The input thread goes on when main has returned: the process ends later.
ProgramNext ==
  \/ Alive /\ \/ MainNext \/ Signal
              \/ ListenerHears \/ ListenerNext
              \/ MakeSession \/ AnnounceSession \/ DeliverMessage \/ RunHandlers \/ Environment
  \/ (Alive \/ mainPc = "returned") /\ ConsoleNext

Program == ProgramInit /\ [][ProgramNext]_allVars

(***************************************************************************)
(* Fairness: main, the listen thread and the io thread go on with what     *)
(* they are doing.  The listen thread is woken at some time after Stop,    *)
(* which takes another node's datagram; PeerDiscovery has the details.     *)
(***************************************************************************)
FairProgram ==
  /\ Program
  /\ WF_allVars(Alive /\ MainNext)
  /\ WF_allVars(Alive /\ ListenerNext)
  /\ WF_allVars(Alive /\ \/ MakeSession \/ AnnounceSession \/ DeliverMessage
                         \/ RunHandlers /\ (ioPc # "idle" \/ stopped))
-----------------------------------------------------------------------------
\* When main returns, after the command exit, and destroys the managers, no thread
\* is in them and none will call them again: there is no io thread and no listen
\* thread, and the UI's input thread, which the command has left unjoined and which
\* may still be on its way out of Stop, is not running a line and reads none that
\* it would run.  (What that thread still does with the UI itself is in ConsoleUI.)
ExitIsQuiet ==
  mainPc = "returned" =>
    /\ ioThread = "none" /\ ioPc = "idle" /\ listener = "none"
    /\ ConsoleIdle /\ input # "line" /\ ~ui

\* Nobody is in the middle of ConnectToPeer when the network manager is stopped:
\* its io_context outlives every resolution, and no async_connect is left behind
\* by one that passed the test of _is_running in time.
StoppedAfterCallers ==
  appPc \notin {"idle", "startThread", "startFlag"} =>
    \A t \in DOMAIN resolver : resolver[t] = NoSession

\* A session that this node has opened delivers nothing before the UI was told its
\* id, which the user needs to answer: main assigns g_ui before it starts the two
\* threads that call ConnectToPeer, and the handler calls the connection callback
\* before the session's first read can be dispatched.  (A session accepted before
\* g_ui is assigned is never shown: the io thread has been accepting since Start.)
OpenedIsAnnounced ==
  ioPc = "deliver" /\ ioSession \in dialled => ioSession \in announced

\* Once the UI has been stopped by the command exit, the program ends, provided that
\* some datagram of another node wakes the listen thread: peer_discovery->Stop()
\* joins it before the network manager is stopped, and nothing else wakes it.
ProgramEnds == (mainPc = "poll" /\ ~ui) ~> ~Alive
-----------------------------------------------------------------------------
\* "Set the network manager's message callback to send everything to the chat
\* manager" (main.cpp:140): a session made after this statement delivers to it.
EverythingToChat ==
  ioPc = "deliver" => captured[ioSession] \in {"none", "chat"}
=============================================================================
