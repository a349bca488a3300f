---------------------------- MODULE ChatManager ----------------------------
(***************************************************************************)
(* ChatManager (src/chat/chat_manager.cpp) between its two callers: the    *)
(* console's input thread, which sends and broadcasts, and the io thread,  *)
(* which runs HandleMessage for every message that arrives.  They share    *)
(* _chat_history, under _history_mutex, and the network manager's map of   *)
(* sessions, under _peers_mutex.                                           *)
(*                                                                         *)
(* The history is keyed by peer id.  What this node sends is kept under    *)
(* the id drawn for the session, what it receives under the id the sender  *)
(* has drawn for itself, so that the two never meet under one key.  A text *)
(* is its number: sent ones and received ones are counted apart.  Names of *)
(* users are left out.                                                     *)
(***************************************************************************)
EXTENDS Naturals, Sequences

CONSTANTS Sessions,     \* sessions, named by the peer id drawn for them
          Users,        \* the ids other nodes have drawn for themselves
          LocalId,      \* _local_user_id
          Times,        \* timestamps, on whichever node's clock
          MaxMessages   \* bound on the messages sent and received

ASSUME ChatAssumption ==
  /\ Sessions \cap Users = {}
  /\ MaxMessages \in Nat

ChatInfo == [sender : {LocalId} \cup Users, content : Nat, timestamp : Times]

VARIABLES phase,         \* a session: "new", "up" (in the map, connected) or "down"
          peersMutex,    \* holder of _peers_mutex across steps
          history,       \* _chat_history; a key without an entry has an empty one
          historyMutex,  \* holder of _history_mutex across steps
          consolePc,     \* the input thread's place in SendMessage or BroadcastMessage
          targets,       \* the sessions its network call has still to write to
          peers,         \* what GetConnectedPeers has returned to it
          ioPc,          \* the io thread's place in HandleMessage
          sent,          \* the messages constructed so far, and how each was sent
          wrote,         \* the messages written to each session
          received,      \* the messages HandleMessage was called with
          shown,         \* the chat messages handed to _message_callback
          delegated      \* the messages handed to _next_handler

consoleVars == <<consolePc, targets, peers, sent, wrote>>
ioVars == <<ioPc, received, shown, delegated>>
vars == <<phase, peersMutex, history, historyMutex, consoleVars, ioVars>>

Keys == Sessions \cup Users
SentMessage == [info : ChatInfo, to : {"one", "all"}, peers : SUBSET Sessions]
ReceivedMessage == [info : {i \in ChatInfo : i.sender \in Users}, type : {"chat", "other"}]

TypeOK ==
  /\ phase \in [Sessions -> {"new", "up", "down"}]
  /\ peersMutex \in {"free", "client"}
  /\ history \in [Keys -> Seq(ChatInfo)]
  /\ historyMutex \in {"free", "console"}
  /\ consolePc \in {"idle", "write", "store", "lock", "list", "push"}
  /\ targets \in SUBSET Sessions /\ peers \in SUBSET Sessions
  /\ ioPc \in {"idle", "store", "notify"}
  /\ sent \in Seq(SentMessage)
  /\ wrote \in [Sessions -> SUBSET Nat]
  /\ received \in Seq(ReceivedMessage)
  /\ shown \in Seq(ChatInfo) /\ delegated \in Seq(ChatInfo)

Init ==
  /\ phase = [s \in Sessions |-> "new"] /\ peersMutex = "free"
  /\ history = [k \in Keys |-> <<>>]
  /\ historyMutex = "free"
  /\ consolePc = "idle" /\ targets = {} /\ peers = {}
  /\ ioPc = "idle"
  /\ sent = <<>> /\ wrote = [s \in Sessions |-> {}]
  /\ received = <<>> /\ shown = <<>> /\ delegated = <<>>
-----------------------------------------------------------------------------
(***************************************************************************)
(* The network manager, as the chat manager sees it.                       *)
(***************************************************************************)

\* The sessions GetConnectedPeers lists and BroadcastMessage collects.
ConnectedPeers == {s \in Sessions : phase[s] = "up"}

\* A handler of the io thread inserts a new session, under _peers_mutex.
Join(s) ==
  /\ phase[s] = "new" /\ ioPc = "idle" /\ peersMutex = "free"
  /\ phase' = [phase EXCEPT ![s] = "up"]
  /\ UNCHANGED <<peersMutex, history, historyMutex, consoleVars, ioVars>>

\* A session is closed, by a read error or by Stop on another thread.
Leave(s) ==
  /\ phase[s] = "up"
  /\ phase' = [phase EXCEPT ![s] = "down"]
  /\ UNCHANGED <<peersMutex, history, historyMutex, consoleVars, ioVars>>

\* DisconnectFromPeer, called by some client of the network manager: it closes and
\* erases the session under _peers_mutex (one that is closed already is only erased,
\* which makes no difference here) ...
Disconnect(s) ==
  /\ phase[s] = "up" /\ peersMutex = "free"
  /\ phase' = [phase EXCEPT ![s] = "down"]
  /\ peersMutex' = "client"
  /\ UNCHANGED <<history, historyMutex, consoleVars, ioVars>>

\* Mutant of DisconnectNotify: the callback notes the event in the chat history.
DisconnectNotifyHistory ==
  /\ peersMutex = "client" /\ historyMutex = "free"
  /\ peersMutex' = "free"
  /\ UNCHANGED <<phase, history, historyMutex, consoleVars, ioVars>>

\* ... and still under it calls the connection callback, which only queues a message
\* for the UI.
DisconnectNotify ==
  /\ peersMutex = "client"
  /\ peersMutex' = "free"
  /\ UNCHANGED <<phase, history, historyMutex, consoleVars, ioVars>>
-----------------------------------------------------------------------------
(***************************************************************************)
(* The console's input thread.                                             *)
(***************************************************************************)

\* The call in progress is about the last message constructed.
Current == sent[Len(sent)]

\* ChatMessage(_local_user_id, message): the timestamp is that of the moment.
Construct(to, S) ==
  /\ Len(sent) + Len(received) < MaxMessages
  /\ \E t \in Times :
       sent' = Append(sent, [info |-> [sender |-> LocalId, content |-> Len(sent) + 1,
                                       timestamp |-> t],
                             to |-> to, peers |-> S])

\* SendMessage as far as the look-up of the session, under _peers_mutex: it
\* returns false when the session is not there or not connected.
SendMessage(s) ==
  /\ consolePc = "idle" /\ peersMutex = "free"
  /\ Construct("one", {s})
  /\ \/ s \in ConnectedPeers /\ targets' = {s} /\ consolePc' = "write"
     \/ s \notin ConnectedPeers /\ UNCHANGED <<targets, consolePc>>
  /\ UNCHANGED <<phase, peersMutex, history, historyMutex, peers, wrote, ioVars>>

\* BroadcastMessage as far as the collection of the sessions, under _peers_mutex.
BroadcastMessage ==
  /\ consolePc = "idle" /\ peersMutex = "free"
  /\ Construct("all", ConnectedPeers)
  /\ targets' = ConnectedPeers
  /\ consolePc' = IF ConnectedPeers = {} THEN "lock" ELSE "write"
  /\ UNCHANGED <<phase, peersMutex, history, historyMutex, peers, wrote, ioVars>>

\* Mutant of WriteTo: a session whose write fails is not closed.
WriteToUnclosed(s) ==
  /\ consolePc = "write" /\ s \in targets
  /\ targets' = targets \ {s}
  /\ \E ok \in BOOLEAN :
       /\ ok => phase[s] = "up"
       /\ wrote' = IF ok THEN [wrote EXCEPT ![s] = @ \cup {Len(sent)}] ELSE wrote
       /\ consolePc' = CASE Current.to = "one" -> IF ok THEN "store" ELSE "idle"
                         [] Current.to = "all" -> IF targets' = {} THEN "lock" ELSE "write"
  /\ UNCHANGED <<phase, peersMutex, history, historyMutex, peers, sent, ioVars>>

\* PeerSession::SendMessage on one of them: nothing on a closed session, and a
\* failed write closes it.  SendMessage returns false when the write failed; a
\* broadcast goes on.
WriteTo(s) ==
  /\ consolePc = "write" /\ s \in targets
  /\ targets' = targets \ {s}
  /\ \E ok \in BOOLEAN :
       /\ ok => phase[s] = "up"
       /\ wrote' = IF ok THEN [wrote EXCEPT ![s] = @ \cup {Len(sent)}] ELSE wrote
       /\ phase' = IF ok THEN phase ELSE [phase EXCEPT ![s] = "down"]
       /\ consolePc' = CASE Current.to = "one" -> IF ok THEN "store" ELSE "idle"
                         [] Current.to = "all" -> IF targets' = {} THEN "lock" ELSE "write"
  /\ UNCHANGED <<peersMutex, history, historyMutex, peers, sent, ioVars>>

\* Mutant of StoreSent: the sender and the time are taken anew.
StoreSentAnew ==
  /\ consolePc = "store" /\ historyMutex = "free"
  /\ \E s \in Current.peers, t \in Times :
       history' = [history EXCEPT ![s] =
                     Append(@, [sender |-> LocalId, content |-> Len(sent), timestamp |-> t])]
  /\ consolePc' = "idle"
  /\ UNCHANGED <<phase, peersMutex, historyMutex, targets, peers, sent, wrote, ioVars>>

\* Mutant of StoreSent: the message is kept under the id of its sender, as a
\* received one is.
StoreSentElsewhere ==
  /\ consolePc = "store" /\ historyMutex = "free"
  /\ \E u \in Users : history' = [history EXCEPT ![u] = Append(@, Current.info)]
  /\ consolePc' = "idle"
  /\ UNCHANGED <<phase, peersMutex, historyMutex, targets, peers, sent, wrote, ioVars>>

\* The end of SendMessage, under _history_mutex.
StoreSent ==
  /\ consolePc = "store" /\ historyMutex = "free"
  /\ \E s \in Current.peers : history' = [history EXCEPT ![s] = Append(@, Current.info)]
  /\ consolePc' = "idle"
  /\ UNCHANGED <<phase, peersMutex, historyMutex, targets, peers, sent, wrote, ioVars>>

\* The end of BroadcastMessage: _history_mutex is taken ...
LockHistory ==
  /\ consolePc = "lock" /\ historyMutex = "free"
  /\ historyMutex' = "console"
  /\ consolePc' = "list"
  /\ UNCHANGED <<phase, peersMutex, history, targets, peers, sent, wrote, ioVars>>

\* ... and, inside of it, _peers_mutex, for the peers connected by now.
ListPeers ==
  /\ consolePc = "list" /\ peersMutex = "free"
  /\ peers' = ConnectedPeers
  /\ consolePc' = "push"
  /\ UNCHANGED <<phase, peersMutex, history, historyMutex, targets, sent, wrote, ioVars>>

\* The message is kept for each of these peers, and the mutex released.
PushAll ==
  /\ consolePc = "push"
  /\ history' = [k \in Keys |-> IF k \in peers THEN Append(history[k], Current.info)
                                              ELSE history[k]]
  /\ historyMutex' = "free"
  /\ consolePc' = "idle"
  /\ peers' = {}
  /\ UNCHANGED <<phase, peersMutex, targets, sent, wrote, ioVars>>
-----------------------------------------------------------------------------
(***************************************************************************)
(* HandleMessage, on the io thread.                                        *)
(***************************************************************************)

\* The message HandleMessage is about.
Incoming == received[Len(received)]

\* A message that is not a chat message goes to _next_handler.  main sets it, and
\* _message_callback, before it hands HandleMessage to the network manager.
HandleMessage ==
  /\ ioPc = "idle" /\ Len(sent) + Len(received) < MaxMessages
  /\ \E s \in Sessions : phase[s] # "new"
  /\ \E u \in Users, t \in Times, type \in {"chat", "other"} :
       LET info == [sender |-> u, content |-> Len(received) + 1, timestamp |-> t]
       IN  /\ received' = Append(received, [info |-> info, type |-> type])
           /\ ioPc' = IF type = "chat" THEN "store" ELSE "idle"
           /\ delegated' = IF type = "other" THEN Append(delegated, info) ELSE delegated
  /\ UNCHANGED <<phase, peersMutex, history, historyMutex, consoleVars, shown>>

\* Mutant of StoreReceived: find() instead of operator[] for the sender's history.
StoreReceivedKnown ==
  /\ ioPc = "store" /\ historyMutex = "free"
  /\ \/ /\ history[Incoming.info.sender] # <<>>
        /\ history' = [history EXCEPT ![Incoming.info.sender] = Append(@, Incoming.info)]
        /\ ioPc' = "notify"
     \/ /\ history[Incoming.info.sender] = <<>>
        /\ ioPc' = "idle"
        /\ UNCHANGED history
  /\ UNCHANGED <<phase, peersMutex, historyMutex, consoleVars, received, shown, delegated>>

\* Under _history_mutex: the message is kept under its sender's id.
StoreReceived ==
  /\ ioPc = "store" /\ historyMutex = "free"
  /\ history' = [history EXCEPT ![Incoming.info.sender] = Append(@, Incoming.info)]
  /\ ioPc' = "notify"
  /\ UNCHANGED <<phase, peersMutex, historyMutex, consoleVars, received, shown, delegated>>

\* Mutant of NotifyReceived: the callback is told of the first entry of the history.
NotifyFirst ==
  /\ ioPc = "notify"
  /\ shown' = Append(shown, history[Incoming.info.sender][1])
  /\ ioPc' = "idle"
  /\ UNCHANGED <<phase, peersMutex, history, historyMutex, consoleVars, received, delegated>>

\* _message_callback(info), without the mutex.
NotifyReceived ==
  /\ ioPc = "notify"
  /\ shown' = Append(shown, Incoming.info)
  /\ ioPc' = "idle"
  /\ UNCHANGED <<phase, peersMutex, history, historyMutex, consoleVars, received, delegated>>

-----------------------------------------------------------------------------
ConsoleNext == \/ BroadcastMessage \/ StoreSent \/ LockHistory \/ ListPeers \/ PushAll
               \/ \E s \in Sessions : SendMessage(s) \/ WriteTo(s)
IoNext == HandleMessage \/ StoreReceived \/ NotifyReceived

Next == \/ ConsoleNext \/ IoNext
        \/ DisconnectNotify \/ \E s \in Sessions : Join(s) \/ Leave(s) \/ Disconnect(s)

Spec == Init /\ [][Next]_vars

\* A thread inside a call goes on.
FairSpec ==
  /\ Spec
  /\ WF_vars(StoreSent \/ LockHistory \/ ListPeers \/ PushAll \/ \E s \in Sessions : WriteTo(s))
  /\ WF_vars(StoreReceived \/ NotifyReceived)
  /\ WF_vars(DisconnectNotify)
-----------------------------------------------------------------------------
\* Message n has been kept under key k.
Kept(k, n) == \E i \in 1..Len(history[k]) : history[k][i].content = n

\* Whatever arrives while a message is being written, its entry in the history is
\* the message as it was sent, and it is kept only under a peer's session id.
RecordedAsSent ==
  \A s \in Sessions : \A i \in 1..Len(history[s]) :
    /\ history[s][i].content \in 1..Len(sent)
    /\ history[s][i] = sent[history[s][i].content].info

\* A message sent to one peer is in that peer's history if and only if it was
\* written to its session, and in nobody else's: a failed SendMessage leaves no
\* trace, one that succeeded is not forgotten when the session closes meanwhile.
DirectIsKept ==
  \A n \in 1..Len(sent) : sent[n].to = "one" =>
    \A s \in Sessions :
      IF s \in sent[n].peers
      THEN \/ Kept(s, n) <=> n \in wrote[s]
           \/ n = Len(sent) /\ consolePc = "store"
      ELSE ~Kept(s, n)

\* A broadcast is kept for every peer it was written to that is connected when
\* BroadcastMessage returns and later; and, of the peers that were collected, for
\* none it was not written to, although the list of peers is read a second time
\* for the history.  (A peer that joins between the two reads gets the entry
\* and not the message; one that leaves gets the message and not the entry.)
BroadcastIsKept ==
  \A n \in 1..Len(sent) : sent[n].to = "all" =>
    \A s \in sent[n].peers :
      /\ Kept(s, n) => n \in wrote[s]
      /\ n \in wrote[s] /\ phase[s] = "up" =>
           Kept(s, n) \/ (n = Len(sent) /\ consolePc # "idle")

\* How many messages HandleMessage has stored, and how many it has handed to a
\* callback, when the last one received is still on its way.
Stored == IF ioPc = "store" THEN Len(received) - 1 ELSE Len(received)
Announced == IF ioPc = "idle" THEN Len(received) ELSE Len(received) - 1

\* A sequence of entries is exactly the messages received with these numbers, each
\* once and in the order of arrival.
Lists(seq, numbers) ==
  /\ {seq[i].content : i \in 1..Len(seq)} = numbers
  /\ \A i \in 1..Len(seq) : seq[i] = received[seq[i].content].info
  /\ \A i, j \in 1..Len(seq) : i < j => seq[i].content < seq[j].content

\* The history of a user is exactly what was received from that user, in the order
\* of arrival, whatever the console thread stores meanwhile.
ReceivedIsKept ==
  \A u \in Users :
    Lists(history[u], {n \in 1..Stored : received[n].type = "chat" /\ received[n].info.sender = u})

\* Every message goes one way: chat messages, in order, to the callback, after they
\* were kept; all others to the next handler.
HandledOnce ==
  /\ Lists(shown, {n \in 1..Announced : received[n].type = "chat"})
  /\ Lists(delegated, {n \in 1..Len(received) : received[n].type = "other"})
  /\ \A i \in 1..Len(shown) : Kept(shown[i].sender, shown[i].content)

\* No call blocks, and no mutex stays locked: a broadcast that holds _history_mutex
\* waits for _peers_mutex, and whoever holds _peers_mutex, the connection callback of
\* DisconnectFromPeer included, never waits for _history_mutex.
CallsReturn == []<>(consolePc = "idle") /\ []<>(ioPc = "idle") /\ []<>(peersMutex = "free")
=============================================================================
