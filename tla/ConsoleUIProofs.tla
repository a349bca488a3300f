-------------------------- MODULE ConsoleUIProofs --------------------------
(***************************************************************************)
(* Proofs about the threads of ConsoleUI, for every kind of input and any  *)
(* number of lines and messages.                                           *)
(***************************************************************************)
EXTENDS ConsoleUI, TLAPS

\* The places of the main thread after a Stop, its own or that of the exit command.
Stopping == {"stopPush", "stuck", "joinInput", "joinDisplay", "destroy", "exited", "aborted"}

\* Main leaves its poll only after _running was cleared, and joins in order.
JoinInv ==
  /\ mainPc = "start" => input = "none" /\ joinable = {}
  /\ mainPc \in Stopping => ~running
  /\ mainPc = "joinDisplay" => "input" \notin joinable

\* When _running was cleared and main is not in Stop, the exit command did it,
\* and the input thread reads no other line.
ExitInv ==
  ~running /\ (mainPc \in {"startDisplay", "startHelp", "helpLines", "poll", "aborted"} \/ (mainPc = "destroy" /\ joinable # {}))
    => line = "exit" /\ input \in {"stopPush", "selfJoin", "loop", "done"}

IInv == TypeOK /\ JoinInv /\ ExitInv /\ WaitsOnlyWhenEmpty
-----------------------------------------------------------------------------
\* What queueing a message changes: the queue, and a waiting display thread.
LEMMA Queueing ==
  ASSUME TypeOK, NEW m \in MessageKinds, DisplayMessage(m)
  PROVE  /\ queue' \in Seq(MessageKinds)
         /\ display' \in {"none", "loop", "lock", "print", "done"}
<1>1. queue' \in Seq(MessageKinds)
  BY DEF TypeOK, DisplayMessage
<1>2. display' \in {"none", "loop", "lock", "print", "done"}
  BY DEF TypeOK, DisplayMessage
<1> QED
  BY <1>1, <1>2

\* Every step of main, of the input thread and of the other callers leaves the
\* queue and the display thread alone, or queues a message.
LEMMA QueueSteps ==
  ASSUME MainNext \/ SignalHandler \/ SignalInPush \/ InputNext \/ Notice
  PROVE  \/ Quiet
         \/ StartDisplay /\ queue' = queue
         \/ \E m \in MessageKinds : DisplayMessage(m)
<1>1. {"help", "text", "notice", "error", "exiting"} = MessageKinds
  BY DEF MessageKinds
<1>2. CASE MainNext \/ SignalHandler \/ SignalInPush
  BY <1>1, <1>2 DEF MainNext, SignalHandler, SignalInPush, Start, StartDisplay, StartHelp, HelpLines, Poll, StopPush, JoinInput,
     JoinDisplay, Destroy, Quiet
<1>3. CASE InputNext
  BY <1>1, <1>3 DEF InputNext, InputLoop, GetLine, HandleLine, LockCommands, RunCommand, RunUnknownOrHelp,
     RunExit, ExitPush, SelfJoin
<1>4. CASE Notice
  BY <1>1, <1>4 DEF Notice
<1> QED
  BY <1>2, <1>3, <1>4

\* The display thread waits only on an empty queue, after any step.
LEMMA NextWaits ==
  ASSUME WaitsOnlyWhenEmpty, [Next]_vars
  PROVE  WaitsOnlyWhenEmpty'
<1> USE DEF WaitsOnlyWhenEmpty
<1>1. ASSUME NEW m, DisplayMessage(m) PROVE WaitsOnlyWhenEmpty'
  BY <1>1 DEF DisplayMessage
<1>2. CASE Quiet
  BY <1>2 DEF Quiet
<1>3. CASE StartDisplay
  BY <1>3 DEF StartDisplay
<1>4. CASE DisplayNext
  BY <1>4 DEF DisplayNext, DisplayLoop, DisplayTake, DisplayPrint
<1>5. CASE UNCHANGED vars
  BY <1>5 DEF vars
<1> QED
  BY <1>1, <1>2, <1>3, <1>4, <1>5, QueueSteps DEF Next

\* The variables of the display thread keep their types.
LEMMA DisplayTypes ==
  ASSUME TypeOK, [Next]_vars
  PROVE  /\ queue' \in Seq(MessageKinds) /\ screen' \in Seq(MessageKinds) /\ printing' \in MessageKinds
         /\ display' \in {"none", "loop", "lock", "waiting", "print", "done"}
<1> USE DEF TypeOK
<1>1. CASE DisplayLoop
  BY <1>1 DEF DisplayLoop
<1>2. CASE DisplayTake
  <2>1. CASE queue = <<>>
    BY <1>2, <2>1 DEF DisplayTake
  <2>2. CASE queue # <<>>
    <3>1. Head(queue) \in MessageKinds /\ Tail(queue) \in Seq(MessageKinds)
      BY <2>2
    <3> QED
      BY <1>2, <2>2, <3>1, SMTT(30) DEF DisplayTake
  <2> QED
    BY <2>1, <2>2
<1>3. CASE DisplayPrint
  <2>1. screen' \in Seq(MessageKinds)
    BY <1>3 DEF DisplayPrint
  <2> QED
    BY <1>3, <2>1 DEF DisplayPrint
<1>4. CASE MainNext \/ SignalHandler \/ SignalInPush \/ InputNext \/ Notice
  <2>1. UNCHANGED <<screen, printing>>
    BY <1>4 DEF MainNext, SignalHandler, SignalInPush, Start, StartDisplay, StartHelp, HelpLines, Poll, StopPush, JoinInput,
       JoinDisplay, Destroy, InputNext, InputLoop, GetLine, HandleLine, LockCommands, RunCommand,
       RunUnknownOrHelp, RunExit, ExitPush, SelfJoin, Notice
  <2>2. CASE Quiet
    BY <2>1, <2>2 DEF Quiet
  <2>3. CASE StartDisplay /\ queue' = queue
    BY <2>1, <2>3 DEF StartDisplay
  <2>4. ASSUME NEW m \in MessageKinds, DisplayMessage(m)
        PROVE  queue' \in Seq(MessageKinds) /\ display' \in {"none", "loop", "lock", "print", "done"}
    BY <2>4, Queueing
  <2> QED
    BY <1>4, <2>1, <2>2, <2>3, <2>4, QueueSteps
<1>5. CASE UNCHANGED vars
  BY <1>5 DEF vars
<1> QED
  BY <1>1, <1>2, <1>3, <1>4, <1>5 DEF Next, DisplayNext

\* The counters stay below their bounds.
LEMMA CounterTypes ==
  ASSUME TypeOK, [Next]_vars
  PROVE  typed' \in 0..MaxLines /\ notices' \in 0..MaxMessages
<1> USE LinesAssumption DEF TypeOK
<1>1. CASE GetLine
  BY <1>1 DEF GetLine
<1>2. CASE Notice
  BY <1>2 DEF Notice
<1>3. CASE UNCHANGED counters
  BY <1>3 DEF counters
<1> QED
  BY <1>1, <1>2, <1>3 DEF Next, vars, MainNext, SignalHandler, SignalInPush, Start, StartDisplay, StartHelp, HelpLines, Poll, StopPush, JoinInput,
     JoinDisplay, Destroy, InputNext, InputLoop, HandleLine, LockCommands, RunCommand,
     RunUnknownOrHelp, RunExit, ExitPush, SelfJoin, DisplayNext, DisplayLoop, DisplayTake, DisplayPrint

\* Type correctness is preserved by every step.
LEMMA NextType ==
  ASSUME TypeOK, [Next]_vars
  PROVE  TypeOK'
<1>1. typed' \in 0..MaxLines /\ notices' \in 0..MaxMessages /\ queue' \in Seq(MessageKinds)
  BY CounterTypes, DisplayTypes
<1>2. /\ screen' \in Seq(MessageKinds) /\ printing' \in MessageKinds
      /\ display' \in {"none", "loop", "lock", "waiting", "print", "done"}
  BY DisplayTypes
<1>3. /\ running' \in BOOLEAN /\ joinable' \subseteq {"input", "display"}
      /\ mainPc' \in {"start", "startDisplay", "startHelp", "helpLines", "poll", "stopPush", "stuck",
                      "joinInput", "joinDisplay", "destroy", "exited", "aborted"}
      /\ commands' \in {"free", "main", "input"} /\ line' \in Lines \cup {"empty"}
      /\ input' \in {"none", "loop", "getline", "check", "lock", "run", "help", "stopPush", "selfJoin", "done"}
  <2> USE DEF TypeOK
  <2>1. CASE MainNext
    BY <2>1, Zenon DEF MainNext, Start, StartDisplay, StartHelp, HelpLines, Poll, StopPush, JoinInput,
       JoinDisplay, Destroy
  <2>2. CASE InputLoop \/ GetLine \/ HandleLine \/ LockCommands
    BY <2>2, Zenon DEF InputLoop, GetLine, HandleLine, LockCommands
  <2>3. CASE RunCommand \/ RunUnknownOrHelp \/ RunExit \/ ExitPush \/ SelfJoin
    BY <2>3, Zenon DEF RunCommand, RunUnknownOrHelp, RunExit, ExitPush, SelfJoin
  <2>4. CASE SignalHandler \/ SignalInPush
    BY <2>4, Zenon DEF SignalHandler, SignalInPush
  <2>5. CASE UNCHANGED <<running, mainPc, input, line, joinable, commands>>
    BY <2>5
  <2> QED
    BY <2>1, <2>2, <2>3, <2>4, <2>5 DEF Next, InputNext, DisplayNext, DisplayLoop, DisplayTake, DisplayPrint,
       Notice, vars
<1> QED
  BY <1>1, <1>2, <1>3, Zenon DEF TypeOK

\* The exit command is the only other way to stop, and the last line read.
LEMMA NextExit ==
  ASSUME TypeOK, JoinInv, ExitInv, [Next]_vars
  PROVE  JoinInv' /\ ExitInv'
<1> USE DEF JoinInv, ExitInv, Stopping
<1>1. CASE MainNext
  <2>1. CASE Start \/ StartDisplay \/ StartHelp \/ HelpLines \/ Poll
    BY <2>1 DEF Start, StartDisplay, StartHelp, HelpLines, Poll, TypeOK
  <2>2. CASE StopPush \/ JoinInput \/ Destroy
    BY <2>2 DEF StopPush, JoinInput, Destroy
  <2>3. CASE JoinDisplay
    <3>1. joinable' = {}
      BY <2>3 DEF JoinDisplay, TypeOK
    <3> QED
      BY <2>3, <3>1 DEF JoinDisplay
  <2> QED
    BY <1>1, <2>1, <2>2, <2>3 DEF MainNext
<1>2. CASE SignalHandler \/ SignalInPush
  BY <1>2, Zenon DEF SignalHandler, SignalInPush, Interruptible, TypeOK
<1>3. CASE InputNext
  <2>1. UNCHANGED <<mainPc, joinable>> /\ input # "none"
    BY <1>3 DEF InputNext, InputLoop, GetLine, HandleLine, LockCommands, RunCommand, RunUnknownOrHelp,
       RunExit, ExitPush, SelfJoin
  <2>2. CASE RunExit
    BY <2>1, <2>2 DEF RunExit
  <2>3. CASE InputLoop \/ ExitPush \/ SelfJoin
    BY <2>1, <2>3 DEF InputLoop, ExitPush, SelfJoin
  <2>4. CASE GetLine \/ HandleLine \/ LockCommands \/ RunCommand \/ RunUnknownOrHelp
    <3>1. input \in {"getline", "check", "lock", "help", "run"} /\ running' = running
      BY <2>4 DEF GetLine, HandleLine, LockCommands, RunCommand, RunUnknownOrHelp
    <3> QED
      BY <2>1, <3>1
  <2> QED
    BY <1>3, <2>2, <2>3, <2>4 DEF InputNext
<1>4. CASE UNCHANGED <<running, mainPc, input, line, joinable>>
  BY <1>4
<1> QED
  BY <1>1, <1>2, <1>3, <1>4 DEF Next, DisplayNext, DisplayLoop, DisplayTake, DisplayPrint, Notice, vars
-----------------------------------------------------------------------------
\* IInv holds initially.
LEMMA InitIInv == Init => IInv
<1> SUFFICES ASSUME Init PROVE IInv
  OBVIOUS
<1>1. typed \in 0..MaxLines /\ notices \in 0..MaxMessages
  BY LinesAssumption DEF Init
<1>2. queue \in Seq(MessageKinds) /\ screen \in Seq(MessageKinds)
  BY DEF Init
<1>3. TypeOK
  BY <1>1, <1>2, Zenon DEF Init, TypeOK, MessageKinds
<1>4. JoinInv /\ ExitInv /\ WaitsOnlyWhenEmpty
  BY DEF Init, JoinInv, ExitInv, WaitsOnlyWhenEmpty, Stopping
<1> QED
  BY <1>3, <1>4 DEF IInv

\* IInv is preserved by every step.
LEMMA NextIInv == IInv /\ [Next]_vars => IInv'
BY NextType, NextExit, NextWaits DEF IInv

\* IInv is an invariant.
LEMMA Invariance == Spec => []IInv
BY InitIInv, NextIInv, PTL DEF Spec

\* Type correctness of the console UI: the display thread never takes a message
\* from an empty queue.
THEOREM UITypes == Spec => []TypeOK
<1>1. IInv => TypeOK
  BY DEF IInv
<1> QED
  BY <1>1, Invariance, PTL

\* No wake-up of the display thread is lost.
THEOREM NoLostWakeup == Spec => []WaitsOnlyWhenEmpty
<1>1. IInv => WaitsOnlyWhenEmpty
  BY DEF IInv
<1> QED
  BY <1>1, Invariance, PTL

\* A std::thread of the UI is destroyed joinable only after the exit command.
THEOREM Joined == Spec => []DestroyedIsJoined
<1>1. IInv => DestroyedIsJoined
  BY DEF IInv, JoinInv, ExitInv, Stopping, DestroyedIsJoined
<1> QED
  BY <1>1, Invariance, PTL
=============================================================================
