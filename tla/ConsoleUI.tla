----------------------------- MODULE ConsoleUI -----------------------------
(***************************************************************************)
(* ConsoleUI (src/ui/console_ui.cpp) and the part of main that starts,     *)
(* polls, stops and destroys it: the main, the input and the display       *)
(* thread, the display queue with its condition variable, and the mutex of *)
(* the command table, which ProcessCommand holds while a handler runs.     *)
(*                                                                         *)
(* Lines typed and messages shown are kinds.  Messages one operation       *)
(* queues in a row are one message.                                        *)
(***************************************************************************)
EXTENDS Sequences, Naturals, FiniteSets

CONSTANTS Lines,        \* kinds of lines the user may type
          MaxLines,     \* bound on the lines typed
          MaxMessages   \* bound on the messages queued by other threads

LineKinds == {"chat", "command", "unknown", "help", "exit"}
MessageKinds == {"help", "text", "notice", "error", "exiting"}

ASSUME LinesAssumption == Lines \subseteq LineKinds /\ MaxLines \in Nat /\ MaxMessages \in Nat

VARIABLES running,     \* _running
          mainPc,
          input,       \* the input thread
          line,        \* the line it handles
          display,     \* the display thread
          printing,    \* the message it has taken from the queue
          joinable,    \* the std::thread members that are joinable
          commands,    \* the holder of _commands_mutex
          queue,       \* _display_queue
          screen,      \* what has been printed
          typed, notices

counters == <<typed, notices>>
vars == <<running, mainPc, input, line, display, printing, joinable, commands, queue, screen, counters>>

TypeOK ==
  /\ running \in BOOLEAN
  /\ mainPc \in {"start", "startDisplay", "startHelp", "helpLines", "poll", "stopPush", "stuck",
                 "joinInput", "joinDisplay", "destroy", "exited", "aborted"}
  /\ input \in {"none", "loop", "getline", "check", "lock", "run", "help", "stopPush", "selfJoin", "done"}
  /\ line \in Lines \cup {"empty"}
  /\ display \in {"none", "loop", "lock", "waiting", "print", "done"}
  /\ printing \in MessageKinds
  /\ joinable \subseteq {"input", "display"}
  /\ commands \in {"free", "main", "input"}
  /\ queue \in Seq(MessageKinds) /\ screen \in Seq(MessageKinds)
  /\ typed \in 0..MaxLines /\ notices \in 0..MaxMessages

Init ==
  /\ running = FALSE /\ mainPc = "start"
  /\ input = "none" /\ line = "empty"
  /\ display = "none" /\ printing = "help"
  /\ joinable = {} /\ commands = "free"
  /\ queue = <<>> /\ screen = <<>>
  /\ typed = 0 /\ notices = 0
-----------------------------------------------------------------------------
\* _display_queue_mutex is held by the main thread, for ever.
QueueHeld == mainPc = "stuck"

\* Mutant of DisplayMessage: notify_one is left out.
PushSilently(m) ==
  /\ ~QueueHeld
  /\ queue' = Append(queue, m)
  /\ UNCHANGED display

\* DisplayMessage and DisplayColoredMessage: push, and wake a waiting display
\* thread, which then takes the mutex again.
DisplayMessage(m) ==
  /\ ~QueueHeld
  /\ queue' = Append(queue, m)
  /\ display' = IF display = "waiting" THEN "lock" ELSE display

Quiet == UNCHANGED <<queue, display>>
-----------------------------------------------------------------------------
(***************************************************************************)
(* The main thread.                                                        *)
(***************************************************************************)

Start ==
  /\ mainPc = "start" /\ ~running
  /\ running' = TRUE
  /\ input' = "loop" /\ joinable' = {"input"}
  /\ mainPc' = "startDisplay"
  /\ UNCHANGED <<line, display, printing, commands, queue, screen, counters>>

StartDisplay ==
  /\ mainPc = "startDisplay"
  /\ display' = "loop" /\ joinable' = joinable \cup {"display"}
  /\ mainPc' = "startHelp"
  /\ UNCHANGED <<running, input, line, printing, commands, queue, screen, counters>>

\* DisplayHelp, which takes _commands_mutex, ...
StartHelp ==
  /\ mainPc = "startHelp" /\ commands = "free"
  /\ commands' = "main"
  /\ mainPc' = "helpLines"
  /\ Quiet
  /\ UNCHANGED <<running, input, line, printing, joinable, screen, counters>>

\* ... queues the help text, and releases the mutex.
HelpLines ==
  /\ mainPc = "helpLines"
  /\ DisplayMessage("help")
  /\ commands' = "free"
  /\ mainPc' = "poll"
  /\ UNCHANGED <<running, input, line, printing, joinable, screen, counters>>

\* main polls IsRunning; it then stops discovery and the network, and returns.
Poll ==
  /\ mainPc = "poll" /\ ~running
  /\ mainPc' = "destroy"
  /\ Quiet
  /\ UNCHANGED <<running, input, line, printing, joinable, commands, screen, counters>>

\* Where a signal may find the main thread: in Start, in DisplayHelp, in its poll.
Interruptible == {"start", "startDisplay", "startHelp", "helpLines", "poll"}

\* Mutant of SignalHandler: Stop tests _running and does not clear it.
SignalUncleared ==
  /\ mainPc \in Interruptible
  /\ mainPc' = IF running THEN "stopPush" ELSE "destroy"
  /\ Quiet
  /\ UNCHANGED <<running, input, line, printing, joinable, commands, screen, counters>>

\* SIGINT or SIGTERM interrupts the main thread: the handler calls Stop, then exit.
\* What the thread has locked stays locked.
SignalHandler ==
  /\ mainPc \in Interruptible
  /\ mainPc' = IF running THEN "stopPush" ELSE "destroy"
  /\ running' = FALSE
  /\ Quiet
  /\ UNCHANGED <<input, line, printing, joinable, commands, screen, counters>>

\* The signal comes while DisplayHelp queues a line: Stop waits for the
\* _display_queue_mutex that its own thread holds.
SignalInPush ==
  /\ mainPc = "helpLines" /\ running
  /\ mainPc' = "stuck"
  /\ running' = FALSE
  /\ Quiet
  /\ UNCHANGED <<input, line, printing, joinable, commands, screen, counters>>

\* Mutant of StopPush: Stop does not wake the display thread.
StopWithoutWake ==
  /\ mainPc = "stopPush"
  /\ mainPc' = "joinInput"
  /\ Quiet
  /\ UNCHANGED <<running, input, line, printing, joinable, commands, screen, counters>>

StopPush ==
  /\ mainPc = "stopPush"
  /\ DisplayMessage("exiting")
  /\ mainPc' = "joinInput"
  /\ UNCHANGED <<running, input, line, printing, joinable, commands, screen, counters>>

JoinInput ==
  /\ mainPc = "joinInput"
  /\ "input" \in joinable => input = "done"
  /\ joinable' = joinable \ {"input"}
  /\ mainPc' = "joinDisplay"
  /\ Quiet
  /\ UNCHANGED <<running, input, line, printing, commands, screen, counters>>

\* Mutant of JoinDisplay: the display thread is not joined.
JoinDisplayOmitted ==
  /\ mainPc = "joinDisplay"
  /\ mainPc' = "destroy"
  /\ Quiet
  /\ UNCHANGED <<running, input, line, printing, joinable, commands, screen, counters>>

JoinDisplay ==
  /\ mainPc = "joinDisplay"
  /\ "display" \in joinable => display = "done"
  /\ joinable' = joinable \ {"display"}
  /\ mainPc' = "destroy"
  /\ Quiet
  /\ UNCHANGED <<running, input, line, printing, commands, screen, counters>>

\* ~ConsoleUI at exit: its Stop returns at once, _running being false, and the
\* destructor of a joinable std::thread calls std::terminate.
Destroy ==
  /\ mainPc = "destroy"
  /\ mainPc' = IF joinable = {} THEN "exited" ELSE "aborted"
  /\ Quiet
  /\ UNCHANGED <<running, input, line, printing, joinable, commands, screen, counters>>
-----------------------------------------------------------------------------
(***************************************************************************)
(* InputThreadFunc, ProcessCommand, and the Stop of the exit command.      *)
(***************************************************************************)

InputLoop ==
  /\ input = "loop"
  /\ input' = IF running THEN "getline" ELSE "done"
  /\ Quiet
  /\ UNCHANGED <<running, mainPc, line, printing, joinable, commands, screen, counters>>

\* getline returns a line, or an empty one (also at the end of the input).
GetLine ==
  /\ input = "getline"
  /\ \/ line' = "empty" /\ typed' = typed
     \/ line' \in Lines /\ typed < MaxLines /\ typed' = typed + 1
  /\ input' = "check"
  /\ Quiet
  /\ UNCHANGED <<running, mainPc, printing, joinable, commands, screen, notices>>

\* What the input thread does with the line it has read.
HandleLine ==
  /\ input = "check"
  /\ \/ /\ ~running
        /\ input' = "done" /\ Quiet
     \/ /\ running /\ line = "empty"
        /\ input' = "loop" /\ Quiet
     \/ /\ running /\ line = "chat"
        /\ input' = "loop" /\ DisplayMessage("text")
     \/ /\ running /\ line \in {"command", "unknown", "help", "exit"}
        /\ input' = "lock" /\ Quiet
  /\ UNCHANGED <<running, mainPc, line, printing, joinable, commands, screen, counters>>

\* _commands_mutex, which is not recursive, is taken by ProcessCommand for the
\* whole of the command, and by DisplayHelp.
LockCommands ==
  /\ input \in {"lock", "help"} /\ commands = "free"
  /\ IF input = "lock"
     THEN commands' = "input" /\ input' = "run" /\ Quiet
     ELSE commands' = "free" /\ input' = "loop" /\ DisplayMessage("help")
  /\ UNCHANGED <<running, mainPc, line, printing, joinable, screen, counters>>

\* The peers and transfers commands, which only queue messages; the mutex is
\* released on return.
RunCommand ==
  /\ input = "run" /\ line = "command"
  /\ DisplayMessage("text")
  /\ commands' = "free"
  /\ input' = "loop"
  /\ UNCHANGED <<running, mainPc, line, printing, joinable, screen, counters>>

\* The help command, and a command that is not found, call DisplayHelp.
RunUnknownOrHelp ==
  /\ input = "run" /\ line \in {"unknown", "help"}
  /\ IF line = "unknown" THEN DisplayMessage("error") ELSE Quiet
  /\ input' = "help"
  /\ UNCHANGED <<running, mainPc, line, printing, joinable, commands, screen, counters>>

\* The exit command calls Stop on the input thread.
RunExit ==
  /\ input = "run" /\ line = "exit"
  /\ running' = FALSE
  /\ input' = IF running THEN "stopPush" ELSE "loop"
  /\ commands' = IF running THEN commands ELSE "free"
  /\ Quiet
  /\ UNCHANGED <<mainPc, line, printing, joinable, screen, counters>>

ExitPush ==
  /\ input = "stopPush"
  /\ DisplayMessage("exiting")
  /\ input' = "selfJoin"
  /\ UNCHANGED <<running, mainPc, line, printing, joinable, commands, screen, counters>>

\* A thread that joins itself gets std::system_error, which ProcessCommand
\* catches and reports; nothing has been joined.
SelfJoin ==
  /\ input = "selfJoin"
  /\ DisplayMessage("error")
  /\ commands' = "free"
  /\ input' = "loop"
  /\ UNCHANGED <<running, mainPc, line, printing, joinable, screen, counters>>
-----------------------------------------------------------------------------
(***************************************************************************)
(* DisplayThreadFunc.                                                      *)
(***************************************************************************)

DisplayLoop ==
  /\ display = "loop"
  /\ display' = IF running THEN "lock" ELSE "done"
  /\ UNCHANGED <<running, mainPc, input, line, printing, joinable, commands, queue, screen, counters>>

\* Under _display_queue_mutex: wait, end, or take the oldest message.
DisplayTake ==
  /\ display = "lock" /\ ~QueueHeld
  /\ IF queue = <<>>
     THEN /\ display' = IF running THEN "waiting" ELSE "done"
          /\ UNCHANGED <<queue, printing>>
     ELSE /\ printing' = Head(queue)
          /\ queue' = Tail(queue)
          /\ display' = "print"
  /\ UNCHANGED <<running, mainPc, input, line, joinable, commands, screen, counters>>

DisplayPrint ==
  /\ display = "print"
  /\ screen' = Append(screen, printing)
  /\ display' = "loop"
  /\ UNCHANGED <<running, mainPc, input, line, printing, joinable, commands, queue, counters>>
-----------------------------------------------------------------------------
\* The process goes on until main has returned.
Alive == mainPc \notin {"exited", "aborted"}

\* A callback of main on a network or discovery thread queues a message.
Notice ==
  /\ notices < MaxMessages /\ Alive
  /\ DisplayMessage("notice")
  /\ notices' = notices + 1
  /\ UNCHANGED <<running, mainPc, input, line, printing, joinable, commands, screen, typed>>

MainNext == Start \/ StartDisplay \/ StartHelp \/ HelpLines \/ Poll \/ StopPush \/ JoinInput \/ JoinDisplay \/ Destroy
InputNext == Alive /\ \/ InputLoop \/ GetLine \/ HandleLine \/ LockCommands \/ RunCommand
                      \/ RunUnknownOrHelp \/ RunExit \/ ExitPush \/ SelfJoin
DisplayNext == Alive /\ (DisplayLoop \/ DisplayTake \/ DisplayPrint)

Next == MainNext \/ SignalHandler \/ SignalInPush \/ InputNext \/ DisplayNext \/ Notice

Spec == Init /\ [][Next]_vars

\* The threads run, and getline returns at some time.
FairSpec == Spec /\ WF_vars(MainNext) /\ WF_vars(InputNext) /\ WF_vars(DisplayNext)
-----------------------------------------------------------------------------
Queued == Len(screen) + (IF display = "print" THEN 1 ELSE 0) + Len(queue)

\* The display thread never sleeps on a message: whoever queued it, it waits
\* only when the queue is empty, and the queue is filled only with a wake-up.
WaitsOnlyWhenEmpty == display = "waiting" => queue = <<>>

\* ~ConsoleUI finds both threads joined when Stop was not called by the exit
\* command: Stop has waited for them, and no std::thread is destroyed joinable.
DestroyedIsJoined == mainPc = "aborted" => line = "exit"

\* While the UI runs, the k-th message queued is shown at some time.
MessagesAreShown ==
  \A k \in 1..(2 + MaxLines + MaxMessages) :
    Queued >= k ~> (Len(screen) >= k \/ ~running)

\* The display thread ends after Stop, in whichever step of its loop Stop finds it:
\* _running is cleared outside of the mutex, the wake-up is sent under it.  A signal
\* that comes while main itself queues a message stops every thread at the queue.
DisplayEnds == (~running /\ display # "none") ~> (display = "done" \/ ~Alive \/ QueueHeld)

\* A Stop from the signal handler that has woken the display thread returns once
\* getline does, unless the input thread is stuck on _commands_mutex: in DisplayHelp,
\* or because the signal interrupted the DisplayHelp of main.
StopReturns ==
  mainPc = "stopPush" ~>
    (mainPc = "exited" \/ input = "help" \/ (commands = "main" /\ input = "lock"))
-----------------------------------------------------------------------------
\* "Wait for threads to finish" (console_ui.cpp:239): after Stop, whoever called
\* it, both threads are joined and the UI can be destroyed.
StopWaits == mainPc # "aborted"
=============================================================================
