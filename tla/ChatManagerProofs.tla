------------------------- MODULE ChatManagerProofs -------------------------
(***************************************************************************)
(* Proofs about the history of ChatManager, for every set of sessions and  *)
(* users and any number of messages: first what is sent, then what is      *)
(* received, then what the queries return.                                 *)
(***************************************************************************)
EXTENDS ChatHistory, SequenceTheorems, FiniteSetTheorems, TLAPS

\* Where the call in progress is, and which message it is about.
CallInv ==
  /\ consolePc # "idle" => sent # <<>>
  /\ consolePc = "write" => targets \subseteq Current.peers
  /\ consolePc = "store" => Current.to = "one" /\ \A s \in Current.peers : Len(sent) \in wrote[s]
  /\ consolePc \in {"lock", "list", "push"} => Current.to = "all" /\ targets = {}
  /\ consolePc = "write" /\ Current.to = "one" => targets = Current.peers

\* HandleMessage is about the last message received.
IoInv == ioPc # "idle" => received # <<>>

\* What is known of the messages constructed so far.
SentInv ==
  \A n \in 1..Len(sent) :
    /\ sent[n].info.content = n
    /\ sent[n].to = "one" => \E s \in Sessions : sent[n].peers = {s}
    /\ sent[n].to = "all" => \A s \in sent[n].peers : phase[s] # "new"

\* What is known of the messages written: each was meant for its session, and not
\* yet by the sessions the call still has to write to.
WroteInv ==
  \A s \in Sessions :
    /\ \A n \in wrote[s] : n \in 1..Len(sent) /\ s \in sent[n].peers
    /\ consolePc = "write" /\ s \in targets => Len(sent) \notin wrote[s]

\* The message of the call in progress is in nobody's history.
NotYetKept == consolePc # "idle" => \A s \in Sessions : ~Kept(s, Len(sent))

\* A collected session that is still connected was written to, once its turn is
\* over, and is in the list of peers, once that has been read.
BroadcastInv ==
  /\ consolePc \in {"write", "lock", "list", "push"} /\ Current.to = "all" =>
       \A s \in Current.peers \ targets : phase[s] = "up" => Len(sent) \in wrote[s]
  /\ consolePc = "push" =>
       \A s \in Current.peers : /\ phase[s] = "up" => s \in peers
                                /\ s \in peers => Len(sent) \in wrote[s]

IInv == /\ TypeOK /\ CallInv /\ IoInv /\ SentInv /\ WroteInv /\ NotYetKept /\ BroadcastInv
        /\ RecordedAsSent /\ DirectIsKept /\ BroadcastIsKept
-----------------------------------------------------------------------------
\* What Append does to a sequence.
LEMMA AppendFacts ==
  ASSUME NEW S, NEW seq \in Seq(S), NEW e \in S
  PROVE  /\ Append(seq, e) \in Seq(S)
         /\ Len(seq) \in Nat
         /\ Len(Append(seq, e)) = Len(seq) + 1
         /\ \A i \in 1..Len(seq) : Append(seq, e)[i] = seq[i]
         /\ Append(seq, e)[Len(seq) + 1] = e
         /\ Append(seq, e) # <<>>
  OBVIOUS

\* The last element of a sequence that is not empty.
LEMMA LastFacts ==
  ASSUME NEW S, NEW seq \in Seq(S), seq # <<>>
  PROVE  Len(seq) \in 1..Len(seq) /\ seq[Len(seq)] \in S
  OBVIOUS

\* A history to which one entry is appended is a history.
LEMMA PushType ==
  ASSUME NEW K, NEW S, NEW h \in [K -> Seq(S)], NEW k, NEW e \in S
  PROVE  [h EXCEPT ![k] = Append(@, e)] \in [K -> Seq(S)]
<1>1. \A j \in K : h[j] \in Seq(S) /\ Append(h[j], e) \in Seq(S)
  BY AppendFacts
<1> DEFINE a == Append(h[k], e)
<1>2. k \in K => a \in Seq(S)
  BY <1>1
<1> HIDE DEF a
<1>3. [h EXCEPT ![k] = a] \in [K -> Seq(S)]
  BY <1>2, Zenon
<1> QED
  BY <1>3 DEF a

\* Type correctness is preserved by every step.
LEMMA NextType == TypeOK /\ CallInv /\ IoInv /\ [Next]_vars => TypeOK'
<1> SUFFICES ASSUME TypeOK, CallInv, IoInv, [Next]_vars PROVE TypeOK'
  OBVIOUS
<1> USE DEF TypeOK, consoleVars, ioVars
<1>1. ASSUME NEW s \in Sessions, Join(s) \/ Leave(s) \/ Disconnect(s) PROVE TypeOK'
  BY <1>1 DEF Join, Leave, Disconnect
<1>2. ASSUME NEW to \in {"one", "all"}, NEW S \in SUBSET Sessions, Construct(to, S)
      PROVE  sent' \in Seq(SentMessage)
  BY <1>2 DEF Construct, SentMessage, ChatInfo
<1>3. ASSUME NEW s \in Sessions, SendMessage(s) PROVE TypeOK'
  BY <1>2, <1>3 DEF SendMessage
<1>4. CASE BroadcastMessage
  BY <1>2, <1>4 DEF BroadcastMessage, ConnectedPeers
<1>5. ASSUME consolePc # "idle"
      PROVE  Current.to \in {"one", "all"} /\ Current.info \in ChatInfo /\ Current.peers \in SUBSET Sessions
  <2>1. sent \in Seq(SentMessage) /\ sent # <<>>
    BY <1>5 DEF CallInv
  <2>2. Current \in SentMessage
    BY <2>1, LastFacts DEF Current
  <2> QED
    BY <2>2 DEF SentMessage
<1>6. ASSUME NEW s \in Sessions, WriteTo(s) PROVE TypeOK'
  <2>1. PICK ok \in BOOLEAN :
          /\ wrote' = IF ok THEN [wrote EXCEPT ![s] = @ \cup {Len(sent)}] ELSE wrote
          /\ phase' = IF ok THEN phase ELSE [phase EXCEPT ![s] = "down"]
          /\ consolePc' = CASE Current.to = "one" -> IF ok THEN "store" ELSE "idle"
                            [] Current.to = "all" -> IF targets' = {} THEN "lock" ELSE "write"
    BY <1>6, Zenon DEF WriteTo
  <2>2. consolePc' \in {"idle", "write", "store", "lock"}
    BY <1>6, <1>5, <2>1 DEF WriteTo
  <2>3. wrote' \in [Sessions -> SUBSET Nat] /\ phase' \in [Sessions -> {"new", "up", "down"}]
    BY <2>1
  <2> QED
    BY <1>6, <2>2, <2>3, Zenon DEF WriteTo
<1>7. CASE StoreSent
  BY <1>5, <1>7 DEF StoreSent, Keys
<1>8. CASE LockHistory \/ ListPeers
  BY <1>8 DEF LockHistory, ListPeers, ConnectedPeers
<1>9. CASE PushAll
  BY <1>5, <1>9 DEF PushAll
<1>10. CASE HandleMessage
  <2>1. PICK u \in Users, t \in Times, type \in {"chat", "other"} :
          LET info == [sender |-> u, content |-> Len(received) + 1, timestamp |-> t]
          IN  /\ received' = Append(received, [info |-> info, type |-> type])
              /\ ioPc' = IF type = "chat" THEN "store" ELSE "idle"
              /\ delegated' = IF type = "other" THEN Append(delegated, info) ELSE delegated
    BY <1>10, Zenon DEF HandleMessage
  <2> DEFINE info == [sender |-> u, content |-> Len(received) + 1, timestamp |-> t]
  <2>2. info \in ChatInfo /\ [info |-> info, type |-> type] \in ReceivedMessage
    BY DEF ChatInfo, ReceivedMessage
  <2> HIDE DEF info
  <2>3. received' \in Seq(ReceivedMessage) /\ delegated' \in Seq(ChatInfo) /\ ioPc' \in {"idle", "store"}
    BY <2>1, <2>2 DEF info
  <2> QED
    BY <1>10, <2>3 DEF HandleMessage
<1>11. ASSUME ioPc # "idle" PROVE Incoming.info \in ChatInfo
  <2>1. received \in Seq(ReceivedMessage) /\ received # <<>>
    BY <1>11 DEF IoInv
  <2>2. Incoming \in ReceivedMessage
    BY <2>1, LastFacts DEF Incoming
  <2> QED
    BY <2>2 DEF ReceivedMessage
<1>12. CASE StoreReceived
  <2>1. Incoming.info \in ChatInfo
    BY <1>11, <1>12 DEF StoreReceived
  <2> DEFINE k == Incoming.info.sender
             e == Incoming.info
  <2>2. history' = [history EXCEPT ![k] = Append(@, e)] /\ e \in ChatInfo
    BY <1>12, <2>1 DEF StoreReceived
  <2> HIDE DEF k, e
  <2>3. history' \in [Keys -> Seq(ChatInfo)]
    BY <2>2, PushType, Zenon
  <2> QED
    BY <1>12, <2>3 DEF StoreReceived
<1>13. CASE NotifyReceived
  BY <1>11, <1>13 DEF NotifyReceived
<1>14. CASE DisconnectNotify \/ UNCHANGED vars
  BY <1>14 DEF DisconnectNotify, vars
<1> QED
  BY <1>1, <1>3, <1>4, <1>6, <1>7, <1>8, <1>9, <1>10, <1>12, <1>13, <1>14 DEF Next, ConsoleNext, IoNext

\* What is kept once the entry e is pushed to the histories of the keys in P.
LEMMA Pushed ==
  ASSUME TypeOK, NEW P, NEW e \in ChatInfo,
         history' = [k \in Keys |-> IF k \in P THEN Append(history[k], e) ELSE history[k]],
         NEW s \in Keys
  PROVE  /\ \A n : Kept(s, n)' <=> Kept(s, n) \/ (s \in P /\ n = e.content)
         /\ \A i \in 1..Len(history'[s]) :
              \/ i \in 1..Len(history[s]) /\ history'[s][i] = history[s][i]
              \/ s \in P /\ history'[s][i] = e
<1>1. history[s] \in Seq(ChatInfo) /\ Len(history[s]) \in Nat
  BY DEF TypeOK
<1>2. CASE s \notin P
  <2>1. history'[s] = history[s]
    BY <1>2
  <2> QED
    BY <1>2, <2>1 DEF Kept
<1>3. CASE s \in P
  <2>1. history'[s] = Append(history[s], e)
    BY <1>3
  <2>2. /\ Len(history'[s]) = Len(history[s]) + 1
        /\ \A i \in 1..Len(history[s]) : history'[s][i] = history[s][i]
        /\ history'[s][Len(history[s]) + 1] = e
    BY <1>1, <2>1, AppendFacts
  <2>3. 1..(Len(history[s]) + 1) = 1..Len(history[s]) \cup {Len(history[s]) + 1}
    BY <1>1
  <2>4. \A n : Kept(s, n)' <=> \E i \in 1..Len(history'[s]) : history'[s][i].content = n
    BY DEF Kept
  <2> QED
    BY <1>3, <2>2, <2>3, <2>4 DEF Kept
<1> QED
  BY <1>2, <1>3

\* Messages go to sessions, and the call in progress is about one of them.
LEMMA SentFacts ==
  ASSUME TypeOK, CallInv
  PROVE  /\ \A n \in 1..Len(sent) :
              sent[n].peers \subseteq Sessions /\ sent[n].to \in {"one", "all"} /\ sent[n].info \in ChatInfo
         /\ Len(sent) \in Nat
         /\ consolePc # "idle" => Len(sent) \in 1..Len(sent)
<1>1. sent \in Seq(SentMessage)
  BY DEF TypeOK
<1>2. \A n \in 1..Len(sent) : sent[n] \in SentMessage
  BY <1>1
<1> QED
  BY <1>1, <1>2 DEF CallInv, SentMessage

\* Everything about the messages sent.
Outgoing == /\ CallInv /\ SentInv /\ WroteInv /\ NotYetKept /\ BroadcastInv
            /\ RecordedAsSent /\ DirectIsKept /\ BroadcastIsKept

\* It is preserved when sessions come and go and the io thread works: a session
\* never becomes connected again, and no session's history is touched.
LEMMA Frame ==
  ASSUME TypeOK, Outgoing, UNCHANGED consoleVars,
         \A s \in Sessions :
           /\ history'[s] = history[s]
           /\ \/ phase'[s] = phase[s]
              \/ phase[s] = "new" /\ phase'[s] = "up"
              \/ phase'[s] = "down"
  PROVE  Outgoing'
<1> USE DEF Outgoing, consoleVars
<1>1. \A s \in Sessions : \A n : Kept(s, n)' <=> Kept(s, n)
  BY DEF Kept
<1>2. CallInv' /\ WroteInv' /\ RecordedAsSent'
  BY DEF CallInv, WroteInv, RecordedAsSent, Current
<1>3. SentInv'
  <2>1. \A n \in 1..Len(sent) : sent[n].to = "all" => \A s \in sent[n].peers : phase'[s] # "new"
    BY SentFacts DEF SentInv
  <2> QED
    BY <2>1 DEF SentInv
<1>4. NotYetKept' /\ DirectIsKept'
  BY <1>1 DEF NotYetKept, DirectIsKept
<1>5. \A n \in 1..Len(sent) : sent[n].to = "all" =>
        \A s \in sent[n].peers : s \in Sessions /\ (phase'[s] = "up" => phase[s] = "up")
  BY SentFacts DEF SentInv
<1>6. BroadcastIsKept'
  BY <1>1, <1>5 DEF BroadcastIsKept
<1>7. BroadcastInv'
  BY <1>5, SentFacts DEF BroadcastInv, CallInv, Current
<1> QED
  BY <1>2, <1>3, <1>4, <1>6, <1>7

\* A message just constructed has been neither written nor kept, and the earlier
\* ones are as they were.
LEMMA Constructed ==
  ASSUME TypeOK, Outgoing, consolePc = "idle", UNCHANGED <<phase, history, wrote>>,
         NEW to \in {"one", "all"}, NEW S \in SUBSET Sessions, Construct(to, S),
         to = "one" => \E s \in Sessions : S = {s},
         to = "all" => \A s \in S : phase[s] = "up"
  PROVE  /\ sent' # <<>> /\ Len(sent') \in 1..Len(sent')
         /\ Current'.to = to /\ Current'.peers = S
         /\ \A s \in Sessions :
              /\ ~Kept(s, Len(sent))'
              /\ Len(sent') \notin wrote'[s]
              /\ \A n \in wrote'[s] : n \in 1..Len(sent') /\ s \in sent'[n].peers
         /\ SentInv' /\ RecordedAsSent' /\ DirectIsKept' /\ BroadcastIsKept'
<1> USE DEF Outgoing
<1>1. PICK t \in Times :
        sent' = Append(sent, [info |-> [sender |-> LocalId, content |-> Len(sent) + 1, timestamp |-> t],
                              to |-> to, peers |-> S])
  BY DEF Construct
<1> DEFINE m == [info |-> [sender |-> LocalId, content |-> Len(sent) + 1, timestamp |-> t],
                 to |-> to, peers |-> S]
           N == Len(sent)
<1>2. m \in SentMessage /\ m.info.content = N + 1 /\ m.to = to /\ m.peers = S
  BY DEF SentMessage, ChatInfo, TypeOK
<1>3. sent' = Append(sent, m) /\ sent \in Seq(SentMessage)
  BY <1>1 DEF TypeOK
<1> HIDE DEF m
<1>4. /\ N \in Nat /\ Len(sent') = N + 1 /\ sent' # <<>>
      /\ \A n \in 1..N : sent'[n] = sent[n]
      /\ sent'[N + 1] = m
  BY <1>2, <1>3, AppendFacts
<1>5. 1..Len(sent') = 1..N \cup {N + 1} /\ N + 1 \notin 1..N
  BY <1>4
<1> HIDE DEF N
<1>6. \A s \in Sessions : ~Kept(s, N + 1) /\ N + 1 \notin wrote[s]
  BY <1>5 DEF RecordedAsSent, WroteInv, Kept, N
<1>7. \A s \in Sessions : \A n : Kept(s, n)' <=> Kept(s, n)
  BY DEF Kept
<1>8. SentInv'
  BY <1>2, <1>4, <1>5, SentFacts, SMTT(30) DEF SentInv, N
<1>9. RecordedAsSent'
  BY <1>4, <1>5 DEF RecordedAsSent, N
<1>10. DirectIsKept'
  <2>1. ASSUME NEW n \in 1..N, sent'[n].to = "one", NEW s \in Sessions
        PROVE  IF s \in sent'[n].peers THEN Kept(s, n)' <=> n \in wrote'[s] ELSE ~Kept(s, n)'
    BY <1>4, <1>7, <2>1, SMTT(30) DEF DirectIsKept, N
  <2> QED
    BY <1>2, <1>4, <1>5, <1>6, <1>7, <2>1, SMTT(30) DEF DirectIsKept
<1>11. BroadcastIsKept'
  <2>1. ASSUME NEW n \in 1..N, sent'[n].to = "all", NEW s \in sent'[n].peers
        PROVE  (Kept(s, n)' => n \in wrote'[s]) /\ (n \in wrote'[s] /\ phase'[s] = "up" => Kept(s, n)')
    BY <1>4, <1>7, <2>1, SentFacts DEF BroadcastIsKept, N
  <2> QED
    BY <1>2, <1>4, <1>5, <1>6, <1>7, <2>1 DEF BroadcastIsKept
<1>12. \A s \in Sessions : \A n \in wrote'[s] : n \in 1..Len(sent') /\ s \in sent'[n].peers
  BY <1>4, <1>5 DEF WroteInv, N
<1>13. Current' = m
  BY <1>4 DEF Current
<1>14. Len(sent') \in 1..Len(sent')
  BY <1>4, <1>5
<1>15. \A s \in Sessions : ~Kept(s, Len(sent))' /\ Len(sent') \notin wrote'[s]
  BY <1>4, <1>6, <1>7 DEF Kept
<1> QED
  BY <1>2, <1>4, <1>8, <1>9, <1>10, <1>11, <1>12, <1>13, <1>14, <1>15, SMTT(30)

\* SendMessage and BroadcastMessage, as far as they look sessions up.
LEMMA CallStep ==
  ASSUME TypeOK, Outgoing, BroadcastMessage \/ \E s \in Sessions : SendMessage(s)
  PROVE  Outgoing'
<1>1. ASSUME NEW s \in Sessions, SendMessage(s) PROVE Outgoing'
  <2>1. /\ sent' # <<>> /\ Current'.to = "one" /\ Current'.peers = {s}
        /\ \A r \in Sessions :
              /\ ~Kept(r, Len(sent))' /\ Len(sent') \notin wrote'[r]
              /\ \A n \in wrote'[r] : n \in 1..Len(sent') /\ r \in sent'[n].peers
        /\ SentInv' /\ RecordedAsSent' /\ DirectIsKept' /\ BroadcastIsKept'
    BY <1>1, Constructed DEF SendMessage
  <2>2. \/ consolePc' = "idle"
        \/ targets' = {s} /\ consolePc' = "write"
    BY <1>1 DEF SendMessage
  <2>3. CallInv' /\ BroadcastInv'
    BY <2>1, <2>2 DEF CallInv, BroadcastInv
  <2>4. WroteInv' /\ NotYetKept'
    BY <2>1 DEF WroteInv, NotYetKept
  <2> QED
    BY <2>1, <2>3, <2>4 DEF Outgoing
<1>2. CASE BroadcastMessage
  <2>1. ConnectedPeers \in SUBSET Sessions /\ \A s \in ConnectedPeers : phase[s] = "up"
    BY DEF ConnectedPeers
  <2>2. /\ sent' # <<>> /\ Current'.to = "all" /\ Current'.peers = ConnectedPeers
        /\ \A r \in Sessions :
              /\ ~Kept(r, Len(sent))' /\ Len(sent') \notin wrote'[r]
              /\ \A n \in wrote'[r] : n \in 1..Len(sent') /\ r \in sent'[n].peers
        /\ SentInv' /\ RecordedAsSent' /\ DirectIsKept' /\ BroadcastIsKept'
    BY <1>2, <2>1, Constructed DEF BroadcastMessage
  <2>3. targets' = ConnectedPeers /\ consolePc' = IF targets' = {} THEN "lock" ELSE "write"
    BY <1>2 DEF BroadcastMessage
  <2>4. CallInv' /\ BroadcastInv'
    BY <2>2, <2>3 DEF CallInv, BroadcastInv
  <2>5. WroteInv' /\ NotYetKept'
    BY <2>2 DEF WroteInv, NotYetKept
  <2> QED
    BY <2>2, <2>4, <2>5 DEF Outgoing
<1> QED
  BY <1>1, <1>2

\* One write of the call in progress.
LEMMA WriteStep ==
  ASSUME TypeOK, Outgoing, NEW s \in Sessions, WriteTo(s)
  PROVE  Outgoing'
<1> DEFINE N == Len(sent)
<1> USE DEF Outgoing
<1>1. PICK ok \in BOOLEAN :
        /\ ok => phase[s] = "up"
        /\ wrote' = IF ok THEN [wrote EXCEPT ![s] = @ \cup {N}] ELSE wrote
        /\ phase' = IF ok THEN phase ELSE [phase EXCEPT ![s] = "down"]
        /\ consolePc' = CASE Current.to = "one" -> IF ok THEN "store" ELSE "idle"
                          [] Current.to = "all" -> IF targets' = {} THEN "lock" ELSE "write"
  BY Zenon DEF WriteTo
<1>2. /\ consolePc = "write" /\ s \in targets /\ targets' = targets \ {s}
      /\ UNCHANGED <<history, sent, peers>>
  BY DEF WriteTo
<1>3. /\ N \in 1..Len(sent) /\ Current = sent[N] /\ s \in Current.peers
      /\ Current.to \in {"one", "all"} /\ Current.peers \subseteq Sessions
  BY <1>2, SentFacts DEF CallInv, Current
<1>4. Current' = Current
  BY <1>2 DEF Current
<1>5. \A r \in Sessions : \A n : Kept(r, n)' <=> Kept(r, n)
  BY <1>2 DEF Kept
<1>6. \A r \in Sessions : \A n : n \in wrote'[r] <=> n \in wrote[r] \/ (ok /\ r = s /\ n = N)
  BY <1>1 DEF TypeOK
<1>7. \A r \in Sessions : phase'[r] = IF ~ok /\ r = s THEN "down" ELSE phase[r]
  BY <1>1 DEF TypeOK
<1> HIDE DEF N
<1>8. CASE Current.to = "one"
  <2>1. Current.peers = {s} /\ targets' = {} /\ consolePc' = IF ok THEN "store" ELSE "idle"
    BY <1>1, <1>2, <1>3, <1>8 DEF CallInv, SentInv, N
  <2>2. CallInv' /\ BroadcastInv'
    BY <1>2, <1>4, <1>6, <1>8, <2>1 DEF CallInv, BroadcastInv, N
  <2> QED
    <3>1. WroteInv'
      BY <1>2, <1>3, <1>6, <2>1, SMTT(30) DEF WroteInv, N
    <3>2. NotYetKept' /\ RecordedAsSent'
      BY <1>2, <1>5, <2>1 DEF NotYetKept, RecordedAsSent
    <3>3. SentInv'
      BY <1>2, <1>7, SentFacts DEF SentInv
    <3>4. DirectIsKept'
      BY <1>2, <1>3, <1>5, <1>6, <2>1 DEF DirectIsKept, NotYetKept, WroteInv, N
    <3>5. BroadcastIsKept'
      BY <1>2, <1>3, <1>5, <1>6, <1>7, <1>8, SentFacts DEF BroadcastIsKept, N
    <3> QED
      BY <2>2, <3>1, <3>2, <3>3, <3>4, <3>5
<1>9. CASE Current.to = "all"
  <2>1. consolePc' = IF targets' = {} THEN "lock" ELSE "write"
    BY <1>1, <1>9
  <2>2. CallInv'
    BY <1>2, <1>4, <1>9, <2>1 DEF CallInv
  <2>3. BroadcastInv'
    BY <1>2, <1>3, <1>4, <1>6, <1>7, <1>9, <2>1, SMTT(30) DEF BroadcastInv, N
  <2>4. WroteInv'
    BY <1>2, <1>3, <1>6, <2>1 DEF WroteInv, N
  <2>5. NotYetKept' /\ RecordedAsSent'
    BY <1>2, <1>5, <2>1, SMTT(30) DEF NotYetKept, RecordedAsSent
  <2>6. SentInv'
    BY <1>2, <1>7, SentFacts DEF SentInv
  <2>7. DirectIsKept'
    BY <1>2, <1>3, <1>5, <1>6, <1>9, SMTT(30) DEF DirectIsKept, N
  <2>8. BroadcastIsKept'
    BY <1>2, <1>3, <1>5, <1>6, <1>7, <2>1, SentFacts DEF BroadcastIsKept, NotYetKept, N
  <2> QED
    BY <2>2, <2>3, <2>4, <2>5, <2>6, <2>7, <2>8
<1> QED
  BY <1>3, <1>8, <1>9

\* The end of a call: the entry is pushed.
LEMMA StoreStep ==
  ASSUME TypeOK, Outgoing, StoreSent \/ PushAll
  PROVE  Outgoing'
<1> DEFINE N == Len(sent)
<1> USE DEF Outgoing
<1>1. consolePc \in {"store", "push"} /\ consolePc' = "idle" /\ UNCHANGED <<phase, targets, sent, wrote>>
  BY DEF StoreSent, PushAll
<1>2. /\ N \in 1..Len(sent) /\ Current = sent[N] /\ Current.info \in ChatInfo /\ Current.info.content = N
      /\ Current.to \in {"one", "all"} /\ Current.peers \subseteq Sessions
  BY <1>1, SentFacts DEF Current, SentInv
<1> DEFINE P == IF consolePc = "store" THEN Current.peers ELSE peers
<1>3. history' = [k \in Keys |-> IF k \in P THEN Append(history[k], Current.info) ELSE history[k]]
  <2>1. CASE StoreSent
    <3>1. PICK r \in Current.peers : history' = [history EXCEPT ![r] = Append(@, Current.info)]
      BY <2>1, Zenon DEF StoreSent
    <3>2. Current.to = "one" /\ P = Current.peers
      BY <2>1 DEF StoreSent, CallInv
    <3>3. P = {r}
      BY <1>2, <3>1, <3>2 DEF SentInv
    <3> HIDE DEF P
    <3> QED
      BY <3>1, <3>3, Zenon DEF TypeOK
  <2>2. CASE PushAll
    BY <2>2 DEF PushAll
  <2> QED
    BY <2>1, <2>2
<1>4. P \subseteq Sessions /\ (consolePc = "push" => P = peers) /\ (consolePc = "store" => P = Current.peers)
  BY <1>2 DEF TypeOK
<1> HIDE DEF P
<1>5. \A s \in Sessions : \A n : Kept(s, n)' <=> Kept(s, n) \/ (s \in P /\ n = N)
  <2>1. ASSUME NEW s \in Keys
        PROVE  \A n : Kept(s, n)' <=> Kept(s, n) \/ (s \in P /\ n = Current.info.content)
    BY <1>2, <1>3, Pushed, ZenonT(30)
  <2> QED
    BY <1>2, <2>1 DEF Keys
<1>6. \A s \in Sessions : \A i \in 1..Len(history'[s]) :
         \/ i \in 1..Len(history[s]) /\ history'[s][i] = history[s][i]
         \/ history'[s][i] = sent[N].info
  BY <1>2, <1>3, Pushed DEF Keys
<1> HIDE DEF N
<1>7. CallInv' /\ SentInv' /\ WroteInv' /\ NotYetKept' /\ BroadcastInv'
  BY <1>1 DEF CallInv, SentInv, WroteInv, NotYetKept, BroadcastInv
<1>8. RecordedAsSent'
  BY <1>1, <1>2, <1>6, SMTT(30) DEF RecordedAsSent
<1>9. DirectIsKept'
  <2>1. Current.to = "one" => consolePc = "store" /\ P = Current.peers /\ \A s \in P : N \in wrote[s]
    BY <1>1, <1>4 DEF CallInv, N
  <2>2. \A s \in Sessions : ~Kept(s, N)
    BY <1>1 DEF NotYetKept, N
  <2> QED
    BY <1>1, <1>2, <1>5, <2>1, <2>2 DEF DirectIsKept, N
<1>10. BroadcastIsKept'
  <2>1. Current.to = "all" => consolePc = "push" /\ P = peers
    BY <1>1, <1>4 DEF CallInv
  <2> QED
    BY <1>1, <1>2, <1>5, <2>1, SentFacts DEF BroadcastIsKept, BroadcastInv, N
<1> QED
  BY <1>7, <1>8, <1>9, <1>10

\* The list of peers is read under both mutexes.
LEMMA ListStep ==
  ASSUME TypeOK, Outgoing, LockHistory \/ ListPeers
  PROVE  Outgoing'
<1> USE DEF Outgoing
<1>1. /\ consolePc \in {"lock", "list"} /\ consolePc' \in {"list", "push"}
      /\ UNCHANGED <<phase, history, targets, sent, wrote>>
      /\ consolePc' = "push" => peers' = ConnectedPeers
  BY DEF LockHistory, ListPeers
<1>2. \A s \in Sessions : \A n : Kept(s, n)' <=> Kept(s, n)
  BY <1>1, SMTT(30) DEF Kept
<1>3. CallInv' /\ SentInv' /\ WroteInv' /\ RecordedAsSent'
  BY <1>1, SMTT(30) DEF CallInv, SentInv, WroteInv, RecordedAsSent, Current
<1>4. NotYetKept' /\ DirectIsKept' /\ BroadcastIsKept'
  BY <1>1, <1>2, SentFacts DEF NotYetKept, DirectIsKept, BroadcastIsKept
<1>5. Current' = Current /\ Current.peers \subseteq Sessions /\ Current.to = "all" /\ targets = {}
  BY <1>1, SentFacts DEF Current, CallInv
<1>6. BroadcastInv'
  BY <1>1, <1>5 DEF BroadcastInv, ConnectedPeers
<1> QED
  BY <1>3, <1>4, <1>6

\* A session is inserted, closed or erased, or the io thread works.
LEMMA OtherStep ==
  ASSUME TypeOK, IoInv, Outgoing, IoNext \/ DisconnectNotify \/ (\E s \in Sessions : Join(s) \/ Leave(s) \/ Disconnect(s))
  PROVE  Outgoing'
<1>1. ASSUME NEW s \in Sessions, Join(s) \/ Leave(s) \/ Disconnect(s) PROVE Outgoing'
  <2>1. UNCHANGED consoleVars /\ history' = history
    BY <1>1 DEF Join, Leave, Disconnect
  <2>2. \A r \in Sessions : \/ phase'[r] = phase[r]
                            \/ phase[r] = "new" /\ phase'[r] = "up"
                            \/ phase'[r] = "down"
    BY <1>1 DEF Join, Leave, Disconnect, TypeOK
  <2> QED
    BY <2>1, <2>2, Frame
<1>2. CASE HandleMessage \/ NotifyReceived \/ DisconnectNotify
  <2>1. UNCHANGED consoleVars /\ history' = history /\ phase' = phase
    BY <1>2 DEF HandleMessage, NotifyReceived, DisconnectNotify
  <2> QED
    BY <2>1, Frame, SMTT(30)
<1>3. CASE StoreReceived
  <2> DEFINE u == Incoming.info.sender
             e == Append(history[u], Incoming.info)
  <2>1. received # <<>> /\ received \in Seq(ReceivedMessage)
    BY <1>3 DEF StoreReceived, IoInv, TypeOK
  <2>2. Incoming \in ReceivedMessage
    BY <2>1, LastFacts DEF Incoming
  <2>3. u \in Users
    BY <2>2 DEF ReceivedMessage
  <2>4. UNCHANGED consoleVars /\ phase' = phase /\ history' = [history EXCEPT ![u] = e]
    BY <1>3 DEF StoreReceived
  <2> HIDE DEF u, e
  <2>5. \A s \in Sessions : history'[s] = history[s]
    BY <2>3, <2>4, ChatAssumption DEF TypeOK, Keys
  <2> QED
    BY <2>4, <2>5, Frame
<1> QED
  BY <1>1, <1>2, <1>3 DEF IoNext

\* IInv holds initially.
LEMMA InitIInv == Init => IInv
<1> SUFFICES ASSUME Init PROVE IInv
  OBVIOUS
<1>1. TypeOK
  BY DEF Init, TypeOK
<1>2. sent = <<>> /\ Len(sent) = 0 /\ 1..Len(sent) = {}
  BY DEF Init
<1>3. CallInv /\ IoInv /\ NotYetKept /\ BroadcastInv
  BY DEF Init, CallInv, IoInv, NotYetKept, BroadcastInv
<1>4. SentInv /\ DirectIsKept /\ BroadcastIsKept
  BY <1>2 DEF SentInv, DirectIsKept, BroadcastIsKept
<1>5. \A s \in Sessions : wrote[s] = {} /\ 1..Len(history[s]) = {}
  <2>1. \A s \in Sessions : wrote[s] = {} /\ history[s] = <<>>
    BY Zenon DEF Init, Keys
  <2>2. 1..Len(<<>>) = {}
    OBVIOUS
  <2> QED
    BY <2>1, <2>2, Zenon
<1>6. WroteInv /\ RecordedAsSent
  BY <1>5 DEF WroteInv, RecordedAsSent
<1> QED
  BY <1>1, <1>3, <1>4, <1>6 DEF IInv

\* IInv is preserved by every step.
LEMMA NextIInv == IInv /\ [Next]_vars => IInv'
<1> SUFFICES ASSUME IInv, [Next]_vars PROVE IInv'
  OBVIOUS
<1>1. TypeOK /\ CallInv /\ IoInv /\ Outgoing
  BY DEF IInv, Outgoing
<1>2. TypeOK'
  BY <1>1, NextType
<1>3. Outgoing'
  <2>1. CASE BroadcastMessage \/ \E s \in Sessions : SendMessage(s)
    BY <1>1, <2>1, CallStep
  <2>2. ASSUME NEW s \in Sessions, WriteTo(s) PROVE Outgoing'
    BY <1>1, <2>2, WriteStep
  <2>3. CASE StoreSent \/ PushAll
    BY <1>1, <2>3, StoreStep
  <2>4. CASE LockHistory \/ ListPeers
    BY <1>1, <2>4, ListStep
  <2>5. CASE IoNext \/ DisconnectNotify \/ \E s \in Sessions : Join(s) \/ Leave(s) \/ Disconnect(s)
    BY <1>1, <2>5, OtherStep
  <2>6. CASE UNCHANGED vars
    <3>1. UNCHANGED consoleVars /\ history' = history /\ phase' = phase
      BY <2>6 DEF vars
    <3> QED
      BY <1>1, <3>1, Frame
  <2> QED
    BY <2>1, <2>2, <2>3, <2>4, <2>5, <2>6 DEF Next, ConsoleNext
<1>4. IoInv'
  <2>1. CASE HandleMessage
    <3>1. PICK m : received' = Append(received, m)
      BY <2>1 DEF HandleMessage
    <3>2. received \in Seq(ReceivedMessage \cup {m})
      BY <1>1 DEF TypeOK
    <3>3. received' # <<>>
      BY <3>1, <3>2, AppendFacts
    <3> QED
      BY <3>3 DEF IoInv
  <2>2. CASE UNCHANGED received /\ (ioPc' = ioPc \/ ioPc # "idle")
    BY <1>1, <2>2 DEF IoInv
  <2> QED
    BY <2>1, <2>2, Zenon DEF Next, ConsoleNext, IoNext, vars, ioVars, Join, Leave, Disconnect, DisconnectNotify, SendMessage, BroadcastMessage,
       WriteTo, StoreSent, LockHistory, ListPeers, PushAll, StoreReceived, NotifyReceived
<1> QED
  BY <1>2, <1>3, <1>4 DEF IInv, Outgoing

\* IInv is an invariant.
LEMMA Invariance == Spec => []IInv
BY InitIInv, NextIInv, PTL DEF Spec

\* Type correctness of the chat manager's state: HandleMessage treats as a chat
\* message only what is one.
THEOREM ChatTypes == Spec => []TypeOK
<1>1. IInv => TypeOK
  BY DEF IInv
<1> QED
  BY <1>1, Invariance, PTL

\* An entry of a session's history is the message as SendMessage or
\* BroadcastMessage constructed it.
THEOREM Recorded == Spec => []RecordedAsSent
<1>1. IInv => RecordedAsSent
  BY DEF IInv
<1> QED
  BY <1>1, Invariance, PTL

\* SendMessage keeps a message if and only if it was written, and only for its peer.
THEOREM DirectKept == Spec => []DirectIsKept
<1>1. IInv => DirectIsKept
  BY DEF IInv
<1> QED
  BY <1>1, Invariance, PTL

\* BroadcastMessage keeps a message for the peers it was written to that stayed
\* connected, and for no collected peer it was not written to.
THEOREM BroadcastKept == Spec => []BroadcastIsKept
<1>1. IInv => BroadcastIsKept
  BY DEF IInv
<1> QED
  BY <1>1, Invariance, PTL
-----------------------------------------------------------------------------
(***************************************************************************)
(* What is received.                                                       *)
(***************************************************************************)

\* Lists, for messages received that need not be the present ones.
ListsOf(rs, seq, numbers) ==
  /\ {seq[i].content : i \in 1..Len(seq)} = numbers
  /\ \A i \in 1..Len(seq) : seq[i] = rs[seq[i].content].info
  /\ \A i, j \in 1..Len(seq) : i < j => seq[i].content < seq[j].content

\* The numbers of the chat messages among the first n of rs, of all and of one user,
\* and of the others.
Chats(rs, n) == {m \in 1..n : rs[m].type = "chat"}
ChatsFrom(rs, n, u) == {m \in 1..n : rs[m].type = "chat" /\ rs[m].info.sender = u}
Others(rs, n) == {m \in 1..n : rs[m].type = "other"}

\* ReceivedIsKept and the conjuncts of HandledOnce, in these terms.
KeptOf(rs, n, h) == \A u \in Users : ListsOf(rs, h[u], ChatsFrom(rs, n, u))
ShownOf(rs, n, sh) == ListsOf(rs, sh, Chats(rs, n))
DelegatedOf(rs, n, del) == ListsOf(rs, del, Others(rs, n))
ShownAreKept == \A i \in 1..Len(shown) : Kept(shown[i].sender, shown[i].content)

\* The inductive invariant of HandleMessage: besides the two properties, a message
\* carries its number, and only a chat message gets past the look at its type.
Numbered(rs) == \A n \in 1..Len(rs) : rs[n].info.content = n
Arrivals == /\ IoInv /\ Numbered(received)
            /\ ioPc # "idle" => Incoming.type = "chat"
            /\ KeptOf(received, Stored, history)
            /\ ShownOf(received, Announced, shown) /\ ShownAreKept
            /\ DelegatedOf(received, Len(received), delegated)

\* The messages listed do not change when more arrive.
LEMMA ListsLater ==
  ASSUME NEW rs, NEW ss, NEW seq, NEW numbers, ListsOf(rs, seq, numbers),
         \A n \in numbers : ss[n] = rs[n]
  PROVE  ListsOf(ss, seq, numbers)
<1>1. \A i \in 1..Len(seq) : seq[i].content \in numbers
  BY DEF ListsOf
<1> QED
  BY <1>1, SMTT(30) DEF ListsOf

\* The next message goes to the end of the list.
LEMMA ListsNext ==
  ASSUME NEW rs, NEW seq \in Seq(ChatInfo), NEW numbers \in SUBSET Nat, ListsOf(rs, seq, numbers),
         NEW e \in ChatInfo, \A n \in numbers : n < e.content, rs[e.content].info = e
  PROVE  ListsOf(rs, Append(seq, e), numbers \cup {e.content})
<1> DEFINE new == Append(seq, e)
           N == Len(seq)
<1>1. /\ N \in Nat /\ Len(new) = N + 1 /\ new[N + 1] = e
      /\ \A i \in 1..N : new[i] = seq[i]
  BY AppendFacts
<1>2. 1..(N + 1) = 1..N \cup {N + 1} /\ N + 1 \notin 1..N
  BY <1>1
<1> HIDE DEF new, N
<1>3. \A i \in 1..N : seq[i].content \in numbers
  BY DEF ListsOf, N
<1>4. {new[i].content : i \in 1..Len(new)} = numbers \cup {e.content}
  BY <1>1, <1>2 DEF ListsOf, N
<1>5. \A i \in 1..Len(new) : new[i] = rs[new[i].content].info
  BY <1>1, <1>2 DEF ListsOf, N
<1>6. ASSUME NEW i \in 1..Len(new), NEW j \in 1..Len(new), i < j
      PROVE  new[i].content < new[j].content
  <2>1. i \in 1..N
    BY <1>1, <1>6
  <2>2. CASE j \in 1..N
    BY <1>1, <1>6, <2>1, <2>2 DEF ListsOf, N
  <2>3. CASE j = N + 1
    BY <1>1, <1>3, <2>1, <2>3, Zenon
  <2> QED
    BY <1>1, <1>2, <2>2, <2>3
<1> QED
  BY <1>4, <1>5, <1>6 DEF ListsOf, new

\* The messages among the first n + 1, and those among the first n.
LEMMA OneMore ==
  ASSUME NEW rs, NEW n \in Nat
  PROVE  /\ Chats(rs, n + 1) = IF rs[n + 1].type = "chat" THEN Chats(rs, n) \cup {n + 1} ELSE Chats(rs, n)
         /\ Others(rs, n + 1) = IF rs[n + 1].type = "other" THEN Others(rs, n) \cup {n + 1} ELSE Others(rs, n)
         /\ \A u : ChatsFrom(rs, n + 1, u) = IF rs[n + 1].type = "chat" /\ rs[n + 1].info.sender = u
                                             THEN ChatsFrom(rs, n, u) \cup {n + 1} ELSE ChatsFrom(rs, n, u)
<1>1. 1..(n + 1) = 1..n \cup {n + 1}
  OBVIOUS
<1> QED
  BY <1>1, Zenon DEF Chats, Others, ChatsFrom

\* They depend on the first n only, and are numbers up to n.
LEMMA FirstOnes ==
  ASSUME NEW rs, NEW ss, NEW n \in Nat, \A m \in 1..n : ss[m] = rs[m]
  PROVE  /\ Chats(ss, n) = Chats(rs, n) /\ Chats(rs, n) \subseteq 1..n
         /\ Others(ss, n) = Others(rs, n) /\ Others(rs, n) \subseteq 1..n
         /\ \A u : ChatsFrom(ss, n, u) = ChatsFrom(rs, n, u) /\ ChatsFrom(rs, n, u) \subseteq 1..n
BY DEF Chats, Others, ChatsFrom

\* HandleMessage takes a message that is not a chat message to the next handler, and
\* leaves the histories to the steps that follow it.
LEMMA HandleStep ==
  ASSUME TypeOK, Arrivals, HandleMessage
  PROVE  Arrivals'
<1> DEFINE N == Len(received)
<1>1. PICK u \in Users, t \in Times, type \in {"chat", "other"} :
        LET info == [sender |-> u, content |-> N + 1, timestamp |-> t]
        IN  /\ received' = Append(received, [info |-> info, type |-> type])
            /\ ioPc' = IF type = "chat" THEN "store" ELSE "idle"
            /\ delegated' = IF type = "other" THEN Append(delegated, info) ELSE delegated
  BY DEF HandleMessage
<1> DEFINE e == [sender |-> u, content |-> N + 1, timestamp |-> t]
           m == [info |-> e, type |-> type]
<1>2. received \in Seq(ReceivedMessage) /\ delegated \in Seq(ChatInfo) /\ N \in Nat
  BY DEF TypeOK
<1>3. e \in ChatInfo /\ e.content = N + 1 /\ m \in ReceivedMessage /\ m.type = type /\ m.info = e
  BY <1>2 DEF ChatInfo, ReceivedMessage
<1>4. /\ received' = Append(received, m)
      /\ ioPc' = IF type = "chat" THEN "store" ELSE "idle"
      /\ delegated' = IF type = "other" THEN Append(delegated, e) ELSE delegated
  BY <1>1
<1> HIDE DEF e, m
<1>5. /\ Len(received') = N + 1 /\ received'[N + 1] = m /\ received' # <<>>
      /\ \A n \in 1..N : received'[n] = received[n]
  BY <1>2, <1>3, <1>4, AppendFacts
<1>6. ioPc = "idle" /\ UNCHANGED <<history, shown>>
  BY DEF HandleMessage
<1>7. /\ KeptOf(received, N, history) /\ ShownOf(received, N, shown)
      /\ DelegatedOf(received, N, delegated) /\ ShownAreKept
  BY <1>6 DEF Arrivals, Stored, Announced
<1> HIDE DEF N
<1>8. 1..(N + 1) = 1..N \cup {N + 1}
  BY <1>2
<1>9. IoInv' /\ Numbered(received')
  BY <1>3, <1>5, <1>8 DEF IoInv, Arrivals, Numbered, N
<1>10. (ioPc # "idle" => Incoming.type = "chat")'
  BY <1>3, <1>4, <1>5 DEF Incoming
<1>11. /\ Chats(received', N) = Chats(received, N) /\ Chats(received, N) \subseteq 1..N
       /\ Others(received', N) = Others(received, N) /\ Others(received, N) \subseteq 1..N
       /\ \A v : ChatsFrom(received', N, v) = ChatsFrom(received, N, v)
                 /\ ChatsFrom(received, N, v) \subseteq 1..N
  BY <1>2, <1>5, FirstOnes, Zenon
<1>12. KeptOf(received', N, history) /\ ShownOf(received', N, shown) /\ DelegatedOf(received', N, delegated)
  <2>1. \A seq, numbers : ListsOf(received, seq, numbers) /\ numbers \subseteq 1..N
                            => ListsOf(received', seq, numbers)
    BY <1>5, ListsLater, Zenon
  <2> QED
    BY <1>7, <1>11, <2>1, Zenon DEF KeptOf, ShownOf, DelegatedOf
<1>13. /\ Chats(received', N + 1) = IF type = "chat" THEN Chats(received', N) \cup {N + 1} ELSE Chats(received', N)
       /\ Others(received', N + 1) = IF type = "other" THEN Others(received', N) \cup {N + 1} ELSE Others(received', N)
       /\ \A v : type # "chat" => ChatsFrom(received', N + 1, v) = ChatsFrom(received', N, v)
  BY <1>2, <1>3, <1>5, OneMore, Zenon
<1>14. DelegatedOf(received', N + 1, delegated')
  <2>1. CASE type = "chat"
    BY <1>4, <1>12, <1>13, <2>1 DEF DelegatedOf
  <2>2. CASE type = "other"
    <3>1. \A n \in Others(received', N) : n \in Nat /\ n < e.content
      BY <1>2, <1>3, <1>11
    <3>2. received'[e.content].info = e
      BY <1>3, <1>5
    <3>3. ListsOf(received', delegated, Others(received', N))
      BY <1>12 DEF DelegatedOf
    <3>4. ListsOf(received', Append(delegated, e), Others(received', N) \cup {e.content})
      BY <1>2, <1>3, <3>1, <3>2, <3>3, ListsNext, SMTT(30)
    <3> QED
      BY <1>3, <1>4, <1>13, <2>2, <3>4, Zenon DEF DelegatedOf
  <2> QED
    BY <2>1, <2>2
<1>15. Stored' = (IF type = "chat" THEN N ELSE N + 1) /\ Announced' = Stored'
  BY <1>2, <1>4, <1>5, SMTT(30) DEF Stored, Announced
<1>16. KeptOf(received', Stored', history') /\ ShownOf(received', Announced', shown')
  BY <1>6, <1>12, <1>13, <1>15, SMTT(30) DEF KeptOf, ShownOf
<1>17. ShownAreKept'
  BY <1>6, <1>7, SMTT(30) DEF ShownAreKept, Kept
<1> QED
  BY <1>5, <1>9, <1>10, <1>14, <1>16, <1>17, SMTT(30) DEF Arrivals

\* The message of the call in progress, and the numbers up to it.
LEMMA IncomingFacts ==
  ASSUME TypeOK, Arrivals, ioPc # "idle", NEW N, N = Len(received)
  PROVE  /\ N \in Nat \ {0} /\ N - 1 \in Nat /\ (N - 1) + 1 = N
         /\ Incoming = received[N] /\ Incoming.type = "chat"
         /\ Incoming.info \in ChatInfo /\ Incoming.info.sender \in Users /\ Incoming.info.content = N
         /\ Chats(received, N) = Chats(received, N - 1) \cup {N}
         /\ \A u : ChatsFrom(received, N, u) = IF u = Incoming.info.sender
                                               THEN ChatsFrom(received, N - 1, u) \cup {N}
                                               ELSE ChatsFrom(received, N - 1, u)
         /\ \A n \in Chats(received, N - 1) : n \in Nat /\ n < N
         /\ \A u : \A n \in ChatsFrom(received, N - 1, u) : n \in Nat /\ n < N
<1>1. received \in Seq(ReceivedMessage) /\ received # <<>>
  BY DEF TypeOK, Arrivals, IoInv
<1>2. N \in Nat \ {0} /\ N - 1 \in Nat /\ (N - 1) + 1 = N /\ N \in 1..N
  BY <1>1
<1>3. Incoming = received[N] /\ Incoming \in ReceivedMessage
  BY <1>1, LastFacts DEF Incoming
<1>4. Incoming.info \in ChatInfo /\ Incoming.info.sender \in Users
  BY <1>3 DEF ReceivedMessage
<1>5. Incoming.type = "chat" /\ Incoming.info.content = N
  BY <1>2, <1>3 DEF Arrivals, Numbered
<1>6. /\ Chats(received, N) = Chats(received, N - 1) \cup {N}
      /\ \A u : ChatsFrom(received, N, u) = IF u = Incoming.info.sender
                                            THEN ChatsFrom(received, N - 1, u) \cup {N}
                                            ELSE ChatsFrom(received, N - 1, u)
  <2> DEFINE M == N - 1
  <2>1. M \in Nat /\ M + 1 = N
    BY <1>2
  <2> HIDE DEF M
  <2>2. /\ Chats(received, M + 1) = IF received[M + 1].type = "chat" THEN Chats(received, M) \cup {M + 1}
                                                                    ELSE Chats(received, M)
        /\ \A u : ChatsFrom(received, M + 1, u) =
                    IF received[M + 1].type = "chat" /\ received[M + 1].info.sender = u
                    THEN ChatsFrom(received, M, u) \cup {M + 1} ELSE ChatsFrom(received, M, u)
    BY <2>1, OneMore, Zenon
  <2>3. /\ Chats(received, N) = Chats(received, M) \cup {N}
        /\ \A u : ChatsFrom(received, N, u) = IF u = Incoming.info.sender
                                              THEN ChatsFrom(received, M, u) \cup {N}
                                              ELSE ChatsFrom(received, M, u)
    BY <1>3, <1>5, <2>1, <2>2, Zenon
  <2> QED
    BY <2>3 DEF M
<1>7. \A n \in 1..(N - 1) : n \in Nat /\ n < N
  BY <1>2
<1> QED
  BY <1>2, <1>3, <1>4, <1>5, <1>6, <1>7, SMTT(30) DEF Chats, ChatsFrom

\* The message is stored under its sender's id.
LEMMA StoreReceivedStep ==
  ASSUME TypeOK, Arrivals, StoreReceived
  PROVE  Arrivals'
<1> DEFINE N == Len(received)
           e == Incoming.info
           v == Incoming.info.sender
<1>1. ioPc = "store" /\ ioPc' = "notify" /\ UNCHANGED <<received, shown, delegated>>
  BY DEF StoreReceived
<1>2. history' = [history EXCEPT ![v] = Append(history[v], e)]
  BY DEF StoreReceived
<1>3. /\ N \in Nat \ {0} /\ Incoming = received[N] /\ e \in ChatInfo /\ v \in Users /\ e.content = N
      /\ \A u : ChatsFrom(received, N, u) = IF u = v THEN ChatsFrom(received, N - 1, u) \cup {N}
                                            ELSE ChatsFrom(received, N - 1, u)
      /\ \A u : \A n \in ChatsFrom(received, N - 1, u) : n \in Nat /\ n < N
  BY <1>1, IncomingFacts
<1>4. /\ KeptOf(received, N - 1, history) /\ ShownOf(received, N - 1, shown) /\ ShownAreKept
      /\ DelegatedOf(received, N, delegated)
  BY <1>1 DEF Arrivals, Stored, Announced
<1>5. Stored' = N /\ Announced' = N - 1 /\ Incoming' = Incoming /\ Len(received') = N
  BY <1>1 DEF Stored, Announced, Incoming
<1>6. received[e.content].info = e
  BY <1>3
<1> HIDE DEF N, e, v
<1>7. history \in [Keys -> Seq(ChatInfo)] /\ Users \subseteq Keys
  BY DEF TypeOK, Keys
<1>8. ASSUME NEW u \in Users PROVE ListsOf(received, history'[u], ChatsFrom(received, N, u))
  <2>1. history[u] \in Seq(ChatInfo) /\ ListsOf(received, history[u], ChatsFrom(received, N - 1, u))
    BY <1>4, <1>7 DEF KeptOf
  <2>2. CASE u = v
    <3>1. ChatsFrom(received, N - 1, u) \in SUBSET Nat
          /\ \A n \in ChatsFrom(received, N - 1, u) : n < e.content
      BY <1>3, SMTT(30)
    <3>2. ListsOf(received, Append(history[u], e), ChatsFrom(received, N - 1, u) \cup {e.content})
      BY <1>3, <1>6, <2>1, <3>1, ListsNext, SMTT(30)
    <3>3. history'[u] = Append(history[u], e)
      BY <1>2, <1>7, <2>2
    <3> QED
      BY <1>3, <2>2, <3>2, <3>3, Zenon
  <2>3. CASE u # v
    <3>1. history'[u] = history[u]
      BY <1>2, <1>7, <2>3
    <3> QED
      BY <1>3, <2>1, <2>3, <3>1, Zenon
  <2> QED
    BY <2>2, <2>3
<1>9. \A k, n : Kept(k, n) => k \notin Keys \/ Kept(k, n)'
  <2> SUFFICES ASSUME NEW k \in Keys, NEW n, Kept(k, n) PROVE Kept(k, n)'
    OBVIOUS
  <2>1. history[k] \in Seq(ChatInfo)
    BY <1>7
  <2>2. CASE k # v
    BY <1>2, <1>7, <2>2, SMTT(30) DEF Kept
  <2>3. CASE k = v
    <3>1. history'[k] = Append(history[k], e)
      BY <1>2, <1>7, <2>3, SMTT(30)
    <3>2. /\ Len(history[k]) \in Nat /\ Len(history'[k]) = Len(history[k]) + 1
          /\ \A i \in 1..Len(history[k]) : history'[k][i] = history[k][i]
      BY <1>3, <2>1, <3>1, AppendFacts
    <3>3. PICK i \in 1..Len(history[k]) : history[k][i].content = n
      BY DEF Kept
    <3>4. i \in 1..Len(history'[k]) /\ history'[k][i].content = n
      BY <3>2, <3>3
    <3> QED
      BY <3>4 DEF Kept
  <2> QED
    BY <2>2, <2>3
<1>10. \A i \in 1..Len(shown) : shown[i].sender \in Keys
  <2>1. \A i \in 1..Len(shown) : shown[i].content \in Chats(received, N - 1)
                                 /\ shown[i] = received[shown[i].content].info
    BY <1>4 DEF ShownOf, ListsOf
  <2>2. \A n \in 1..(N - 1) : received[n] \in ReceivedMessage
    BY <1>3 DEF TypeOK, N
  <2> QED
    BY <1>7, <2>1, <2>2, SMTT(30) DEF Chats, ReceivedMessage
<1>11. ShownAreKept'
  BY <1>1, <1>4, <1>9, <1>10 DEF ShownAreKept
<1>12. KeptOf(received', Stored', history')
  BY <1>1, <1>5, <1>8 DEF KeptOf
<1> QED
  BY <1>1, <1>4, <1>5, <1>11, <1>12 DEF Arrivals, IoInv

\* The callback is told of the message, which is in its sender's history by now.
LEMMA NotifyStep ==
  ASSUME TypeOK, Arrivals, NotifyReceived
  PROVE  Arrivals'
<1> DEFINE N == Len(received)
           e == Incoming.info
<1>1. /\ ioPc = "notify" /\ ioPc' = "idle" /\ UNCHANGED <<received, history, delegated>>
      /\ shown' = Append(shown, e)
  BY SMTT(30) DEF NotifyReceived
<1>2. /\ N \in Nat \ {0} /\ Incoming = received[N] /\ e \in ChatInfo /\ e.sender \in Users /\ e.content = N
      /\ Chats(received, N) = Chats(received, N - 1) \cup {N}
      /\ \A u : ChatsFrom(received, N, u) = IF u = e.sender THEN ChatsFrom(received, N - 1, u) \cup {N}
                                            ELSE ChatsFrom(received, N - 1, u)
      /\ \A n \in Chats(received, N - 1) : n \in Nat /\ n < N
  BY <1>1, IncomingFacts, Zenon
<1>3. /\ KeptOf(received, N, history) /\ ShownOf(received, N - 1, shown) /\ ShownAreKept
      /\ DelegatedOf(received, N, delegated)
  BY <1>1 DEF Arrivals, Stored, Announced
<1>4. Stored' = N /\ Announced' = N /\ Len(received') = N
  BY <1>1 DEF Stored, Announced
<1>5. received[e.content].info = e
  BY <1>2
<1>6. shown \in Seq(ChatInfo)
  BY DEF TypeOK
<1> HIDE DEF N, e
<1>7. ShownOf(received, N, shown')
  <2>1. ListsOf(received, shown, Chats(received, N - 1))
    BY <1>3 DEF ShownOf
  <2>2. Chats(received, N - 1) \in SUBSET Nat /\ \A n \in Chats(received, N - 1) : n < e.content
    BY <1>2, SMTT(30)
  <2>3. ListsOf(received, Append(shown, e), Chats(received, N - 1) \cup {e.content})
    BY <1>2, <1>5, <1>6, <2>1, <2>2, ListsNext, SMTT(30)
  <2> QED
    BY <1>1, <1>2, <2>3 DEF ShownOf
<1>8. Kept(e.sender, e.content)
  <2>1. N \in ChatsFrom(received, N, e.sender)
    BY <1>2, SMTT(30)
  <2>2. ListsOf(received, history[e.sender], ChatsFrom(received, N, e.sender))
    BY <1>2, <1>3, SMTT(30) DEF KeptOf
  <2> QED
    BY <1>2, <2>1, <2>2, SMTT(30) DEF ListsOf, Kept
<1>9. ShownAreKept'
  <2>1. /\ Len(shown) \in Nat /\ Len(shown') = Len(shown) + 1 /\ shown'[Len(shown) + 1] = e
        /\ \A i \in 1..Len(shown) : shown'[i] = shown[i]
    BY <1>1, <1>2, <1>6, AppendFacts
  <2>2. \A k, n : Kept(k, n)' <=> Kept(k, n)
    BY <1>1 DEF Kept
  <2>3. \A i \in 1..Len(shown') : i \in 1..Len(shown) \/ i = Len(shown) + 1
    BY <2>1
  <2> QED
    BY <1>3, <1>8, <2>1, <2>2, <2>3, SMTT(30) DEF ShownAreKept
<1> QED
  BY <1>1, <1>3, <1>4, <1>7, <1>9 DEF Arrivals, IoInv

\* Nothing else touches the histories of users, or what HandleMessage keeps.
LEMMA UsersFrame ==
  ASSUME TypeOK, Arrivals, UNCHANGED ioVars, \A u \in Users : history'[u] = history[u]
  PROVE  Arrivals'
<1>1. UNCHANGED <<ioPc, received, shown, delegated>>
  BY DEF ioVars
<1>2. Stored' = Stored /\ Announced' = Announced /\ Incoming' = Incoming
  BY <1>1 DEF Stored, Announced, Incoming
<1>3. \A i \in 1..Len(shown) : shown[i].sender \in Users
  <2>1. \A i \in 1..Len(shown) : shown[i].content \in Chats(received, Announced)
                                 /\ shown[i] = received[shown[i].content].info
    BY DEF Arrivals, ShownOf, ListsOf
  <2>2. \A n \in 1..Announced : received[n] \in ReceivedMessage
    <3>1. received \in Seq(ReceivedMessage)
      BY SMTT(30) DEF TypeOK
    <3> QED
      BY <3>1 DEF Announced
  <2> QED
    BY <2>1, <2>2, SMTT(30) DEF Chats, ReceivedMessage
<1>4. ShownAreKept'
  BY <1>1, <1>3, SMTT(30) DEF Arrivals, ShownAreKept, Kept
<1>5. KeptOf(received', Stored', history')
  BY <1>1, <1>2 DEF Arrivals, KeptOf
<1> QED
  BY <1>1, <1>2, <1>4, <1>5, SMTT(30) DEF Arrivals, IoInv

\* The console thread stores under the ids of sessions.
LEMMA UsersKept ==
  ASSUME TypeOK, CallInv, StoreSent \/ PushAll, NEW u \in Users
  PROVE  history'[u] = history[u]
<1>1. u \in Keys /\ u \notin Sessions /\ history \in [Keys -> Seq(ChatInfo)] /\ peers \subseteq Sessions
  BY ChatAssumption DEF Keys, TypeOK
<1>2. CASE StoreSent
  <2>1. Current.peers \subseteq Sessions
    BY <1>2, SentFacts DEF StoreSent, Current
  <2>2. PICK s \in Current.peers : history' = [history EXCEPT ![s] = Append(@, Current.info)]
    BY <1>2, Zenon DEF StoreSent
  <2> QED
    BY <1>1, <2>1, <2>2, SMTT(30)
<1>3. CASE PushAll
  BY <1>1, <1>3 DEF PushAll
<1> QED
  BY <1>2, <1>3

\* Nothing has arrived.
LEMMA InitArrivals == Init => Arrivals
<1> SUFFICES ASSUME Init PROVE Arrivals
  OBVIOUS
<1>1. /\ ioPc = "idle" /\ received = <<>> /\ shown = <<>> /\ delegated = <<>>
      /\ \A u \in Users : history[u] = <<>>
  BY DEF Init, Keys
<1>2. Len(<<>>) = 0 /\ 1..0 = {}
  OBVIOUS
<1>3. Stored = 0 /\ Announced = 0 /\ Len(received) = 0
  BY <1>1, <1>2 DEF Stored, Announced
<1>4. ListsOf(<<>>, <<>>, {})
  BY <1>2, Zenon DEF ListsOf
<1>5. \A rs, u : Chats(rs, 0) = {} /\ Others(rs, 0) = {} /\ ChatsFrom(rs, 0, u) = {}
  BY <1>2 DEF Chats, Others, ChatsFrom
<1>6. KeptOf(received, Stored, history)
  BY <1>1, <1>3, <1>4, <1>5, Zenon DEF KeptOf
<1>7. ShownOf(received, Announced, shown) /\ DelegatedOf(received, Len(received), delegated)
  BY <1>1, <1>3, <1>4, <1>5, Zenon DEF ShownOf, DelegatedOf
<1>8. ShownAreKept /\ Numbered(received) /\ IoInv
  BY <1>1, <1>2, Zenon DEF ShownAreKept, Numbered, IoInv
<1> QED
  BY <1>1, <1>6, <1>7, <1>8 DEF Arrivals

\* Every step preserves Arrivals.
LEMMA NextArrivals == IInv /\ Arrivals /\ [Next]_vars => Arrivals'
<1> SUFFICES ASSUME IInv, Arrivals, [Next]_vars PROVE Arrivals'
  OBVIOUS
<1>1. TypeOK /\ CallInv
  BY DEF IInv
<1>2. CASE HandleMessage
  BY <1>1, <1>2, HandleStep
<1>3. CASE StoreReceived
  BY <1>1, <1>3, StoreReceivedStep, SMTT(30)
<1>4. CASE NotifyReceived
  BY <1>1, <1>4, NotifyStep
<1>5. CASE StoreSent \/ PushAll
  <2>1. UNCHANGED ioVars
    BY <1>5 DEF StoreSent, PushAll
  <2>2. \A u \in Users : history'[u] = history[u]
    BY <1>1, <1>5, UsersKept
  <2> QED
    BY <1>1, <2>1, <2>2, UsersFrame
<1>6. CASE UNCHANGED <<history, ioVars>>
  <2>1. UNCHANGED ioVars /\ history' = history
    BY <1>6
  <2> QED
    BY <1>1, <2>1, UsersFrame
<1>7. ASSUME NEW s \in Sessions, Join(s) \/ Leave(s) \/ Disconnect(s) \/ SendMessage(s) \/ WriteTo(s)
      PROVE  UNCHANGED <<history, ioVars>>
  BY <1>7 DEF Join, Leave, Disconnect, SendMessage, WriteTo
<1>8. BroadcastMessage \/ LockHistory \/ ListPeers \/ DisconnectNotify \/ UNCHANGED vars => UNCHANGED <<history, ioVars>>
  BY DEF BroadcastMessage, LockHistory, ListPeers, DisconnectNotify, vars
<1> QED
  BY <1>2, <1>3, <1>4, <1>5, <1>6, <1>7, <1>8, SMTT(30) DEF Next, ConsoleNext, IoNext

\* Arrivals is an invariant.
LEMMA ArrivalInvariance == Spec => []Arrivals
<1>1. Init => Arrivals
  BY InitArrivals
<1>2. IInv /\ Arrivals /\ [Next]_vars => Arrivals'
  BY NextArrivals
<1> QED
  BY <1>1, <1>2, Invariance, PTL DEF Spec

\* The history HandleMessage keeps for a user is what that user's node has sent, each
\* message once and in the order of arrival, while the console thread stores its own.
THEOREM ReceivedKept == Spec => []ReceivedIsKept
<1>1. Arrivals => ReceivedIsKept
  BY Zenon DEF Arrivals, KeptOf, ListsOf, ChatsFrom, ReceivedIsKept, Lists
<1> QED
  BY <1>1, ArrivalInvariance, PTL

\* HandleMessage hands every chat message to the callback once, in order and after it
\* was kept, and every other message to the next handler once.
THEOREM Handled == Spec => []HandledOnce
<1>1. Arrivals => HandledOnce
  BY Zenon DEF Arrivals, ShownOf, DelegatedOf, ShownAreKept, ListsOf, Chats, Others, HandledOnce, Lists
<1> QED
  BY <1>1, ArrivalInvariance, PTL
-----------------------------------------------------------------------------
(***************************************************************************)
(* What the queries return.                                                *)
(***************************************************************************)

\* got is the end of a sequence, as much of it as the limit allows.
IsEnd(got, seq, max) ==
  /\ Len(got) \in Nat /\ Len(seq) \in Nat /\ Len(got) <= Len(seq)
  /\ Len(got) = IF Len(seq) < max THEN Len(seq) ELSE max
  /\ \A i \in 1..Len(got) : got[i] = seq[Len(seq) - Len(got) + i]

\* So is what Newest returns.
LEMMA NewestIsEnd ==
  ASSUME NEW S, NEW seq \in Seq(S), NEW max \in Nat
  PROVE  IsEnd(Newest(seq, max), seq, max)
<1> DEFINE got == Newest(seq, max)
<1> SUFFICES IsEnd(got, seq, max)
  OBVIOUS
<1> USE DEF IsEnd
<1>1. CASE Len(seq) <= max
  <2>1. got = seq /\ Len(seq) \in Nat
    BY <1>1 DEF Newest
  <2>2. \A i \in 1..Len(seq) : Len(seq) - Len(seq) + i = i
    BY <2>1
  <2> QED
    BY <1>1, <2>1, <2>2
<1>2. CASE ~(Len(seq) <= max)
  <2> DEFINE m == Len(seq) - max + 1
             n == Len(seq)
  <2>1. n \in Nat /\ max < n /\ m \in Int /\ n \in Int /\ m >= 1 /\ n - m + 1 = max
    BY <1>2
  <2>2. got = SubSeq(seq, m, n)
    BY <1>2 DEF Newest
  <2>3. \A i \in m..n : seq[i] \in S
    BY <2>1
  <2> HIDE DEF m, n
  <2>4. /\ Len(got) = IF m <= n THEN n - m + 1 ELSE 0
        /\ \A i \in 1..(n - m + 1) : got[i] = seq[m + i - 1]
    BY <2>1, <2>2, <2>3, SubSeqProperties, SMTT(30)
  <2>5. Len(got) = max
    <3>1. m <= n \/ max = 0
      BY <2>1
    <3> QED
      BY <2>1, <2>4, <3>1
  <2>6. \A i \in 1..max : i \in 1..(n - m + 1) /\ m + i - 1 = n - max + i
    BY <2>1
  <2>7. \A i \in 1..max : got[i] = seq[n - max + i]
    BY <2>4, <2>6, Zenon
  <2> HIDE DEF got
  <2>8. Len(got) \in Nat /\ Len(got) <= n /\ Len(got) = IF n < max THEN n ELSE max
    BY <2>1, <2>5, SMTT(30)
  <2> QED
    BY <2>1, <2>5, <2>7, <2>8, Zenon DEF n
<1> QED
  BY <1>1, <1>2

\* The entries at the places of P are put in the order of their timestamps.
InOrder(n, at, order) ==
  \A i, j \in 1..n : i < j => ~(at[order[j]].timestamp < at[order[i]].timestamp)

\* got has the newest of them, in order: no entry more often than it occurs, and one
\* that is there less often is not newer than any that is.
NewestOf(P, at, got, max) ==
  /\ Len(got) = IF Cardinality(P) < max THEN Cardinality(P) ELSE max
  /\ \A i, j \in 1..Len(got) : i < j => got[i].timestamp <= got[j].timestamp
  /\ \A i \in 1..Len(got) : \E x \in P : at[x] = got[i]
  /\ \A info \in ChatInfo :
       LET returned == {i \in 1..Len(got) : got[i] = info}
           kept == {x \in P : at[x] = info}
       IN  /\ Cardinality(returned) <= Cardinality(kept)
           /\ Cardinality(returned) < Cardinality(kept) =>
                \A j \in 1..Len(got) : info.timestamp <= got[j].timestamp

\* Sorting finitely many entries and keeping the last leaves the newest.
LEMMA SortedNewest ==
  ASSUME NEW P, IsFiniteSet(P), NEW at \in [P -> ChatInfo],
         NEW order \in Injection(1..Cardinality(P), P), InOrder(Cardinality(P), at, order),
         NEW max \in Nat, NEW got, got = Newest([i \in 1..Cardinality(P) |-> at[order[i]]], max)
  PROVE  NewestOf(P, at, got, max)
<1> DEFINE n == Cardinality(P)
           seq == [i \in 1..n |-> at[order[i]]]
           off == n - Len(got)
<1>1. n \in Nat
  BY FS_CardinalityType
<1>2. /\ order \in [1..n -> P]
      /\ \A i, j \in 1..n : order[i] = order[j] => i = j
      /\ \A x \in P : \E i \in 1..n : order[i] = x
  <2>1. order \in [1..n -> P] /\ \A i, j \in 1..n : order[i] = order[j] => i = j
    BY DEF Injection, IsInjective
  <2>2. IsFiniteSet(1..n) /\ Cardinality(1..n) = n
    BY <1>1, FS_Interval
  <2>3. order \in Surjection(1..n, P)
    BY <2>2, FS_Injection
  <2> QED
    BY <2>1, <2>3 DEF Surjection
<1>3. Len(seq) = n /\ \A i \in 1..n : seq[i] = at[order[i]]
  BY <1>1
<1>4. seq \in Seq(ChatInfo) /\ got = Newest(seq, max)
  BY <1>1, <1>2
<1> HIDE DEF seq
<1>5. /\ Len(got) \in Nat /\ Len(got) <= n /\ Len(got) = IF n < max THEN n ELSE max
      /\ \A i \in 1..Len(got) : got[i] = seq[n - Len(got) + i]
  <2>1. IsEnd(got, seq, max)
    BY <1>4, NewestIsEnd, Zenon
  <2> HIDE DEF n
  <2> QED
    BY <1>3, <2>1, Zenon DEF IsEnd
<1>6. off \in Nat /\ \A i \in 1..Len(got) : off + i \in 1..n /\ got[i] = at[order[off + i]]
  <2> HIDE DEF n
  <2>0. \A a, b \in Nat : b <= a => a - b \in Nat /\ \A i \in 1..b : (a - b) + i \in 1..a
    OBVIOUS
  <2>1. off \in Nat /\ \A i \in 1..Len(got) : off + i \in 1..n
    BY <1>1, <1>5, <2>0, Zenon
  <2>2. \A i \in 1..Len(got) : got[i] = seq[off + i]
    BY <1>5, Zenon
  <2> HIDE DEF off
  <2> QED
    BY <1>3, <2>1, <2>2, Zenon
<1>7. \A i \in 1..n : at[order[i]] \in ChatInfo /\ at[order[i]].timestamp \in Nat
  BY <1>2, HistoryAssumption, Zenon DEF ChatInfo
<1>8. \A i, j \in 1..n : i < j => at[order[i]].timestamp <= at[order[j]].timestamp
  BY <1>7 DEF InOrder
<1> HIDE DEF n, off
<1>9. \A i, j \in 1..Len(got) : i < j => got[i].timestamp <= got[j].timestamp
  <2> SUFFICES ASSUME NEW i \in 1..Len(got), NEW j \in 1..Len(got), i < j
               PROVE  got[i].timestamp <= got[j].timestamp
    BY SMTT(30)
  <2>1. off + i \in 1..n /\ off + j \in 1..n /\ off + i < off + j
    BY <1>5, <1>6
  <2> QED
    BY <1>6, <1>8, <2>1, Zenon
<1>10. \A i \in 1..Len(got) : \E x \in P : at[x] = got[i]
  BY <1>2, <1>6, ZenonT(30)
<1>11. ASSUME NEW info \in ChatInfo, NEW returned, NEW kept,
              returned = {i \in 1..Len(got) : got[i] = info}, kept = {x \in P : at[x] = info}
       PROVE  /\ Cardinality(returned) <= Cardinality(kept)
              /\ Cardinality(returned) < Cardinality(kept) =>
                   \A j \in 1..Len(got) : info.timestamp <= got[j].timestamp
  <2> DEFINE f == [i \in returned |-> order[off + i]]
  <2>1. \A i \in returned : off + i \in 1..n /\ order[off + i] \in kept
    BY <1>2, <1>6, <1>11, SMTT(30)
  <2>2. \A i, j \in returned : off + i = off + j => i = j
    BY <1>5, <1>6, <1>11
  <2>3. f \in Injection(returned, kept)
    <3>1. f \in [returned -> kept]
      BY <2>1
    <3>2. \A i, j \in returned : order[off + i] = order[off + j] => i = j
      BY <1>2, <2>1, <2>2
    <3> QED
      BY <3>1, <3>2 DEF Injection, IsInjective
  <2>4. IsFiniteSet(kept)
    <3>1. kept \in SUBSET P
      BY <1>11
    <3> QED
      BY <3>1, FS_Subset
  <2> HIDE DEF f
  <2>5. /\ IsFiniteSet(returned) /\ Cardinality(returned) <= Cardinality(kept)
        /\ Cardinality(returned) = Cardinality(kept) <=> f \in Surjection(returned, kept)
    BY <2>3, <2>4, FS_Injection, SMTT(30)
  <2>6. ASSUME Cardinality(returned) < Cardinality(kept), NEW j \in 1..Len(got)
        PROVE  info.timestamp <= got[j].timestamp
    <3>1. f \notin Surjection(returned, kept)
      <4>1. Cardinality(returned) \in Nat /\ Cardinality(kept) \in Nat
        BY <2>4, <2>5, FS_CardinalityType
      <4> QED
        BY <2>5, <2>6, <4>1, SMTT(30)
    <3>2. PICK x \in kept : \A i \in returned : f[i] # x
      <4>1. f \in [returned -> kept]
        BY <2>3 DEF Injection
      <4> QED
        BY <3>1, <4>1, Zenon DEF Surjection
    <3>3. PICK m \in 1..n : order[m] = x
      BY <1>2, <1>11
    <3>4. at[order[m]] = info
      BY <1>11, <3>3, SMTT(30)
    <3>5. m <= off
      <4> SUFFICES ASSUME ~(m <= off) PROVE FALSE
        BY SMTT(30)
      <4>1. m - off \in 1..Len(got) /\ off + (m - off) = m
        BY <1>1, <1>5, <1>6, <1>3, SMTT(30) DEF off
      <4>2. got[m - off] = info
        BY <1>6, <3>4, <4>1, SMTT(30)
      <4>3. m - off \in returned
        BY <1>11, <4>1, <4>2, SMTT(30)
      <4> QED
        BY <3>2, <3>3, <4>1, <4>3, SMTT(30) DEF f
    <3>6. off + j \in 1..n /\ m < off + j
      BY <1>6, <3>5, SMTT(30)
    <3> QED
      BY <1>6, <1>8, <3>4, <3>6, SMTT(30)
  <2> QED
    BY <2>5, <2>6
<1>12. Len(got) = IF n < max THEN n ELSE max
  BY <1>3, <1>5
<1> QED
  BY <1>9, <1>10, <1>11, <1>12, Zenon DEF n, NewestOf

\* The histories hold finitely many entries.
LEMMA PlacesFinite ==
  ASSUME TypeOK
  PROVE  IsFiniteSet(Places) /\ \A place \in Places : Entry(place) \in ChatInfo
<1> DEFINE Row(k) == {k} \X (1..Len(history[k]))
           rows == {Row(k) : k \in Keys}
           row == [k \in Keys |-> Row(k)]
<1>1. \A k \in Keys : history[k] \in Seq(ChatInfo) /\ Len(history[k]) \in Nat
  BY DEF TypeOK
<1>2. \A k \in Keys : IsFiniteSet(Row(k))
  <2> SUFFICES ASSUME NEW k \in Keys PROVE IsFiniteSet(Row(k))
    OBVIOUS
  <2>1. IsFiniteSet({k}) /\ IsFiniteSet(1..Len(history[k]))
    <3>1. 1 \in Int /\ Len(history[k]) \in Int
      BY <1>1
    <3> QED
      BY <3>1, FS_Singleton, FS_Interval, Zenon
  <2> QED
    BY <2>1, FS_Product
<1>3. \A k \in Keys : \A place \in Row(k) : Entry(place) \in ChatInfo
  BY <1>1 DEF Entry
<1>4. Places = UNION rows
  BY DEF Places
<1> HIDE DEF Row
<1>5. row \in Surjection(Keys, rows)
  BY Zenon DEF Surjection
<1>6. IsFiniteSet(rows)
  BY <1>5, FS_Surjection, HistoryAssumption, SMTT(30)
<1>7. IsFiniteSet(UNION rows)
  BY <1>2, <1>6, FS_UNION
<1> QED
  BY <1>3, <1>4, <1>7

\* GetChatHistory and GetAllChatHistory, for every limit and every order in which
\* std::sort may leave entries of one timestamp, return the newest entries, in order.
THEOREM QueryNewest == Spec => []QueryReturnsNewest
<1>1. ASSUME TypeOK PROVE QueryReturnsNewest
  <2> DEFINE n == Cardinality(Places)
             at == [place \in Places |-> Entry(place)]
             At(info) == {place \in Places : Entry(place) = info}
             Returned(got, info) == {i \in 1..Len(got) : got[i] = info}
             All(got, max) ==
               /\ Len(got) = IF n < max THEN n ELSE max
               /\ \A i, j \in 1..Len(got) : i < j => got[i].timestamp <= got[j].timestamp
               /\ \A i \in 1..Len(got) : At(got[i]) # {}
               /\ \A info \in {Entry(place) : place \in Places} :
                    /\ Cardinality(Returned(got, info)) <= Cardinality(At(info))
                    /\ Cardinality(Returned(got, info)) < Cardinality(At(info)) =>
                         \A j \in 1..Len(got) : info.timestamp <= got[j].timestamp
             One(page, k, max) ==
               /\ Len(page) = IF Len(history[k]) < max THEN Len(history[k]) ELSE max
               /\ \A i \in 1..Len(page) : page[i] = history[k][Len(history[k]) - Len(page) + i]
  <2>1. IsFiniteSet(Places) /\ at \in [Places -> ChatInfo] /\ \A place \in Places : at[place] = Entry(place)
    BY <1>1, PlacesFinite
  <2>2. \A max \in 0..MaxMessages : max \in Nat
    BY ChatAssumption
  <2>3. ASSUME NEW max \in 0..MaxMessages, NEW k \in Keys PROVE One(GetChatHistory(k, max), k, max)
    <3>1. history[k] \in Seq(ChatInfo)
      BY <1>1 DEF TypeOK
    <3>2. IsEnd(GetChatHistory(k, max), history[k], max)
      BY <2>2, <2>3, <3>1, NewestIsEnd, ZenonT(30) DEF GetChatHistory
    <3> QED
      BY <3>2, Zenon DEF IsEnd
  <2>4. ASSUME NEW max \in 0..MaxMessages, NEW all_history \in SortedHistories
        PROVE  All(GetAllChatHistory(all_history, max), max)
    <3> DEFINE got == GetAllChatHistory(all_history, max)
    <3>0. PICK order \in SortedPlaces : all_history = [i \in DOMAIN order |-> Entry(order[i])]
      BY <2>4, Zenon DEF SortedHistories
    <3>1. order \in Injection(1..n, Places) /\ DOMAIN order = 1..n
      BY <3>0 DEF SortedPlaces, Injection
    <3>2. \A i \in 1..n : order[i] \in Places
      BY <3>1 DEF Injection
    <3>3. InOrder(n, at, order)
      BY <2>1, <3>0, <3>1, <3>2, Zenon DEF SortedPlaces, Earlier, InOrder
    <3>4. got = Newest([i \in 1..n |-> at[order[i]]], max)
      <4>1. [i \in 1..n |-> at[order[i]]] = [i \in 1..n |-> Entry(order[i])]
        BY <2>1, <3>2, Zenon
      <4> QED
        BY <3>0, <3>1, <4>1, Zenon DEF GetAllChatHistory
    <3> HIDE DEF at, got
    <3>5. NewestOf(Places, at, got, max)
      BY <2>1, <2>2, <3>1, <3>3, <3>4, SortedNewest, Zenon
    <3>6. \A info : {x \in Places : at[x] = info} = At(info)
      BY <2>1
    <3>7. \A i \in 1..Len(got) : At(got[i]) # {}
      BY <2>1, <3>5, Zenon DEF NewestOf
    <3>8. \A place \in Places : Entry(place) \in ChatInfo
      BY <2>1, Zenon
    <3> HIDE DEF At
    <3>9. All(got, max)
      BY <3>5, <3>6, <3>7, <3>8, Zenon DEF NewestOf
    <3> QED
      BY <3>9 DEF got
  <2>5. QueryReturnsNewest <=>
          (historyMutex = "free" => \A max \in 0..MaxMessages :
            /\ \A all_history \in SortedHistories : All(GetAllChatHistory(all_history, max), max)
            /\ \A k \in Keys : One(GetChatHistory(k, max), k, max))
    BY Zenon DEF QueryReturnsNewest
  <2> HIDE DEF All, One
  <2> QED
    BY <2>3, <2>4, <2>5, Zenon
<1> QED
  BY <1>1, ChatTypes, PTL
=============================================================================
