------------------------ MODULE PeerDiscoveryProofs ------------------------
(***************************************************************************)
(* Proofs about the threads and the table of PeerDiscovery, for every set  *)
(* of nodes, every time-out and any number of starts.                      *)
(***************************************************************************)
EXTENDS PeerDiscovery, TLAPS

\* Where Start and Stop are, _running is as they have left it; Start creates the
\* threads where there are none, and Stop joins them one after the other.
ThreadInv ==
  /\ mainPc \in {"startBroadcast", "startListen"} => running /\ listen = "none"
  /\ mainPc \in {"stopClose", "joinBroadcast", "joinListen"} => ~running
  /\ mainPc = "joinListen" => bcast = "none"

\* An entry the clean-up has found over age is over age until it is refreshed.
StaleInv == \A n \in stale : age[n] > Timeout

\* The entry the callback is about to be called for has not been announced, and if
\* it was made after the callback was set, the callback is set.
NotifyInv ==
  listen = "notify" => told[current] = 0 /\ (current \in early \/ hasCallback)

IInv == TypeOK /\ ThreadInv /\ StoppedIsQuiet /\ AnnouncedOnce /\ NotifyInv /\ StaleInv
-----------------------------------------------------------------------------
\* When intervals pass, no entry appears or disappears and none gets younger.
LEMMA LaterFacts ==
  ASSUME TypeOK, NEW k \in Nat, age' = Later(k)
  PROVE  /\ age' \in [Nodes -> 0..Unknown]
         /\ \A n \in Nodes : Known(n)' <=> Known(n)
         /\ \A n \in Nodes : age[n] > Timeout => age'[n] > Timeout
<1>1. \A n \in Nodes : age[n] \in 0..(Timeout + 2)
  BY DEF TypeOK, Unknown
<1>2. \A n \in Nodes : age'[n] = IF age[n] = Timeout + 2 THEN Timeout + 2
                                 ELSE IF age[n] + k > Timeout THEN Timeout + 1 ELSE age[n] + k
  BY DEF Later, Known, Unknown
<1>3. age' \in [Nodes -> 0..Unknown]
  <2>1. \A n \in Nodes : age'[n] \in 0..(Timeout + 2)
    BY <1>1, <1>2, DiscoveryAssumption
  <2>2. age' = [n \in Nodes |-> age'[n]]
    BY DEF Later
  <2> QED
    BY <2>1, <2>2 DEF Unknown
<1>4. \A n \in Nodes : (age'[n] = Timeout + 2) <=> (age[n] = Timeout + 2)
  BY <1>1, <1>2, DiscoveryAssumption
<1>5. \A n \in Nodes : age[n] > Timeout => age'[n] > Timeout
  BY <1>1, <1>2, DiscoveryAssumption
<1> QED
  BY <1>3, <1>4, <1>5 DEF Known, Unknown

\* The table of discovered peers keeps its type.
LEMMA TableType ==
  ASSUME TypeOK, [Next]_vars
  PROVE  age' \in [Nodes -> 0..Unknown] /\ starts' \in 0..MaxStarts
<1> USE DiscoveryAssumption DEF TypeOK
<1>1. Unknown \in 0..Unknown /\ 0 \in 0..Unknown
  BY DEF Unknown
<1>2. CASE Start
  <2>1. PICK k \in 0..(Timeout + 1) : age' = Later(k)
    BY <1>2 DEF Start
  <2>2. k \in Nat
    BY <2>1
  <2> QED
    BY <1>2, <2>1, <2>2, LaterFacts DEF Start
<1>3. CASE BroadcastWake
  <2>1. PICK k \in Nat : age' = Later(k)
    BY <1>3 DEF BroadcastWake
  <2> QED
    BY <1>3, <2>1, LaterFacts DEF BroadcastWake, mainVars
<1>4. CASE BroadcastExpire
  BY <1>1, <1>4 DEF BroadcastExpire, mainVars
<1>5. CASE ListenHandle
  BY <1>1, <1>5 DEF ListenHandle, mainVars, tableVars
<1>6. CASE UNCHANGED <<age, starts>>
  BY <1>6
<1> QED
  BY <1>2, <1>3, <1>4, <1>5, <1>6
     DEF Next, MainNext, BroadcastNext, ListenNext, vars, mainVars, tableVars, StartBroadcast, StartListen,
         StartThreadFails, SetDiscoveredCallback, Stop, StopClose, JoinBroadcast, JoinListen,
         BroadcastLoop, BroadcastSend, ListenLoop, ListenCall, ListenRecv, ListenNotify, Announce

\* Type correctness is preserved by every step.
LEMMA NextType ==
  ASSUME TypeOK, [Next]_vars
  PROVE  TypeOK'
<1> USE DEF TypeOK
<1>1. CASE MainNext
  <2>1. age' \in [Nodes -> 0..Unknown] /\ starts' \in 0..MaxStarts
    BY TableType
  <2>2. CASE Start \/ SetDiscoveredCallback
    BY <2>1, <2>2, Zenon DEF Start, SetDiscoveredCallback, tableVars
  <2>3. CASE StartBroadcast \/ StartListen \/ StartThreadFails
    BY <2>1, <2>3, Zenon DEF StartBroadcast, StartListen, StartThreadFails, tableVars
  <2>4. CASE Stop \/ StopClose \/ JoinBroadcast \/ JoinListen
    BY <2>1, <2>4, ZenonT(30) DEF Stop, StopClose, JoinBroadcast, JoinListen, tableVars
  <2> QED
    BY <1>1, <2>2, <2>3, <2>4 DEF MainNext
<1>2. CASE BroadcastNext
  BY <1>2, TableType, DiscoveryAssumption DEF BroadcastNext, mainVars, tableVars, BroadcastLoop, BroadcastSend, BroadcastWake,
     BroadcastExpire
<1>3. CASE ListenNext
  <2>1. CASE ListenHandle
    BY <2>1, TableType DEF mainVars, tableVars, ListenHandle, NewEntry
  <2>2. CASE ListenNotify
    <3>1. told' \in [Nodes -> Nat]
      BY <2>2 DEF ListenNotify
    <3> QED BY <2>2, <3>1, TableType DEF mainVars, ListenNotify
  <2>3. CASE ListenLoop \/ ListenCall \/ \E n \in Nodes : ListenRecv(n)
    BY <2>3, TableType DEF mainVars, tableVars, ListenLoop, ListenCall, ListenRecv
  <2> QED BY <1>3, <2>1, <2>2, <2>3 DEF ListenNext
<1>4. ASSUME NEW n \in Nodes, Announce(n) PROVE TypeOK'
  BY <1>4, TableType DEF Announce, mainVars, tableVars
<1>5. CASE UNCHANGED vars
  BY <1>5 DEF vars, mainVars, tableVars
<1> QED
  BY <1>1, <1>2, <1>3, <1>4, <1>5 DEF Next

\* No thread is left by Stop.
LEMMA NextThreads ==
  ASSUME ThreadInv, StoppedIsQuiet, [Next]_vars
  PROVE  ThreadInv' /\ StoppedIsQuiet'
<1> USE DEF ThreadInv, StoppedIsQuiet
<1>1. CASE MainNext
  BY <1>1 DEF MainNext, mainVars, tableVars, Start, StartBroadcast, StartListen, StartThreadFails,
     SetDiscoveredCallback, Stop, StopClose, JoinBroadcast, JoinListen
<1>2. CASE BroadcastNext
  BY <1>2 DEF BroadcastNext, mainVars, BroadcastLoop, BroadcastSend, BroadcastWake, BroadcastExpire
<1>3. CASE ListenNext
  BY <1>3 DEF ListenNext, mainVars, ListenLoop, ListenCall, ListenRecv, ListenHandle, ListenNotify
<1>4. CASE UNCHANGED <<running, mainPc, bcast, listen>>
  BY <1>4
<1> QED
  BY <1>1, <1>2, <1>3, <1>4 DEF Next, vars, mainVars, Announce

\* No step but those of the listen thread adds an entry, announces one or comes to
\* the callback.
LEMMA OtherThreads ==
  ASSUME TypeOK, ThreadInv, [Next]_vars, ~ListenNext
  PROVE  /\ UNCHANGED <<told, early, current>>
         /\ \A n \in Nodes : Known(n)' => Known(n)
         /\ listen' = listen \/ (listen # "notify" /\ listen' # "notify")
         /\ hasCallback => hasCallback'
<1> DEFINE Goal == /\ UNCHANGED <<told, early, current>>
                   /\ \A n \in Nodes : Known(n)' => Known(n)
                   /\ listen' = listen \/ (listen # "notify" /\ listen' # "notify")
                   /\ hasCallback => hasCallback'
<1> USE DEF mainVars, tableVars
<1>1. CASE Start
  <2>1. PICK k \in 0..(Timeout + 1) : age' = Later(k)
    BY <1>1 DEF Start
  <2>2. k \in Nat
    BY <2>1, DiscoveryAssumption
  <2>3. \A n \in Nodes : Known(n)' => Known(n)
    BY <2>1, <2>2, LaterFacts
  <2> QED
    BY <1>1, <2>3 DEF Start
<1>2. CASE StartBroadcast \/ StartListen \/ StartThreadFails \/ SetDiscoveredCallback
  BY <1>2 DEF StartBroadcast, StartListen, StartThreadFails, SetDiscoveredCallback, ThreadInv, Known
<1>3. CASE Stop \/ StopClose \/ JoinBroadcast \/ JoinListen
  BY <1>3 DEF Stop, StopClose, JoinBroadcast, JoinListen, Known
<1>4. CASE BroadcastWake
  <2>1. PICK k \in Nat : age' = Later(k)
    BY <1>4 DEF BroadcastWake
  <2>2. \A n \in Nodes : Known(n)' => Known(n)
    BY <2>1, LaterFacts
  <2> QED
    BY <1>4, <2>2 DEF BroadcastWake
<1>5. CASE BroadcastExpire
  BY <1>5 DEF BroadcastExpire, Known
<1>6. CASE BroadcastLoop \/ BroadcastSend
  BY <1>6 DEF BroadcastLoop, BroadcastSend, Known
<1>7. ASSUME NEW n \in Nodes, Announce(n) PROVE Goal
  BY <1>7 DEF Announce, Known
<1>8. CASE UNCHANGED vars
  BY <1>8 DEF vars, Known
<1> QED
  BY <1>1, <1>2, <1>3, <1>4, <1>5, <1>6, <1>7, <1>8 DEF Next, MainNext, BroadcastNext

\* Each entry is announced at most once, and not passed over once the callback is
\* set.
LEMMA NextAnnounced ==
  ASSUME TypeOK, ThreadInv, AnnouncedOnce, NotifyInv, [Next]_vars
  PROVE  AnnouncedOnce' /\ NotifyInv'
<1>1. CASE ~ListenNext
  <2>1. AnnouncedOnce'
    BY <1>1, OtherThreads DEF AnnouncedOnce
  <2>2. NotifyInv'
    BY <1>1, OtherThreads DEF NotifyInv
  <2> QED BY <2>1, <2>2
<1>2. CASE ListenHandle
  <2>1. CASE listen' = "loop"
    <3>1. /\ listen = "handle" /\ UNCHANGED <<told, early>>
          /\ \A n \in Nodes : Known(n)' => Known(n)
      BY <1>2, <2>1, SMTT(30) DEF TypeOK, ListenHandle, tableVars, Known
    <3> QED BY <1>2, <2>1, <3>1 DEF AnnouncedOnce, NotifyInv
  <2>2. CASE listen' # "loop"
    <3>1. /\ ~Known(current) /\ listen' = "notify" /\ current' = current /\ hasCallback' = hasCallback
          /\ age' = [age EXCEPT ![current] = 0]
          /\ told' = [told EXCEPT ![current] = 0]
          /\ early' = IF hasCallback THEN early \ {current} ELSE early \cup {current}
      BY <1>2, <2>2 DEF ListenHandle, NewEntry, mainVars
    <3>2. AnnouncedOnce'
      BY <3>1 DEF TypeOK, AnnouncedOnce, Known
    <3>3. NotifyInv'
      BY <3>1 DEF TypeOK, NotifyInv
    <3> QED BY <3>2, <3>3
  <2> QED BY <2>1, <2>2
<1>3. CASE ListenNotify
  <2>1. /\ listen = "notify" /\ listen' = "loop"
        /\ told' = [told EXCEPT ![current] = IF hasCallback THEN told[current] + 1 ELSE told[current]]
        /\ UNCHANGED <<age, early, current>>
    BY <1>3 DEF ListenNotify
  <2>2. \A n \in Nodes : told'[n] = IF n = current /\ hasCallback THEN 1 ELSE told[n]
    BY <2>1 DEF TypeOK, NotifyInv
  <2> QED BY <2>1, <2>2 DEF TypeOK, AnnouncedOnce, NotifyInv, Known
<1>4. CASE ListenLoop \/ ListenCall \/ \E n \in Nodes : ListenRecv(n)
  <2>1. UNCHANGED <<age, told, early>> /\ listen # "notify" /\ listen' # "notify"
    BY <1>4 DEF ListenLoop, ListenCall, ListenRecv, tableVars
  <2> QED BY <2>1 DEF AnnouncedOnce, NotifyInv, Known
<1> QED
  BY <1>1, <1>2, <1>3, <1>4 DEF ListenNext

\* What the clean-up has found stays over age.
LEMMA NextStale ==
  ASSUME TypeOK, StaleInv, [Next]_vars
  PROVE  StaleInv'
<1> USE DEF TypeOK, StaleInv, mainVars, tableVars
<1>1. CASE Start
  <2>1. PICK k \in 0..(Timeout + 1) : age' = Later(k)
    BY <1>1 DEF Start
  <2>2. k \in Nat
    BY <2>1, DiscoveryAssumption
  <2> QED
    BY <1>1, <2>1, <2>2, LaterFacts DEF Start
<1>2. CASE BroadcastWake
  BY <1>2, DiscoveryAssumption DEF BroadcastWake
<1>3. CASE BroadcastExpire
  BY <1>3 DEF BroadcastExpire
<1>4. CASE ListenHandle
  BY <1>4 DEF ListenHandle
<1>5. CASE UNCHANGED <<age, stale>>
  BY <1>5
<1> QED
  BY <1>1, <1>2, <1>3, <1>4, <1>5
     DEF Next, MainNext, BroadcastNext, ListenNext, vars, StartBroadcast, StartListen,
         StartThreadFails, SetDiscoveredCallback, Stop, StopClose, JoinBroadcast, JoinListen,
         BroadcastLoop, BroadcastSend, ListenLoop, ListenCall, ListenRecv, ListenNotify, Announce

\* Only the clean-up drops an entry, and only one that is over age.
LEMMA NextExpiry ==
  ASSUME TypeOK, StaleInv, [Next]_vars, NEW n \in Nodes, Known(n), age'[n] = Unknown
  PROVE  age[n] > Timeout
<1> USE DEF TypeOK, mainVars, tableVars
<1>1. CASE Start
  <2>1. PICK k \in 0..(Timeout + 1) : age' = Later(k)
    BY <1>1 DEF Start
  <2>2. k \in Nat
    BY <2>1, DiscoveryAssumption
  <2> QED
    BY <2>1, <2>2, LaterFacts DEF Known
<1>2. CASE BroadcastWake
  <2>1. PICK k \in Nat : age' = Later(k)
    BY <1>2 DEF BroadcastWake
  <2> QED
    BY <2>1, LaterFacts DEF Known
<1>3. CASE BroadcastExpire
  BY <1>3 DEF BroadcastExpire, StaleInv, Known
<1>4. CASE ListenHandle
  <2>1. Unknown # 0
    BY DiscoveryAssumption DEF Unknown
  <2> QED
    BY <1>4, <2>1 DEF ListenHandle, Known
<1>5. CASE UNCHANGED age
  BY <1>5 DEF Known
<1> QED
  BY <1>1, <1>2, <1>3, <1>4, <1>5
     DEF Next, MainNext, BroadcastNext, ListenNext, vars, StartBroadcast, StartListen,
         StartThreadFails, SetDiscoveredCallback, Stop, StopClose, JoinBroadcast, JoinListen,
         BroadcastLoop, BroadcastSend, ListenLoop, ListenCall, ListenRecv, ListenNotify, Announce
-----------------------------------------------------------------------------
\* IInv holds initially.
LEMMA InitIInv == Init => IInv
<1> SUFFICES ASSUME Init PROVE IInv
  OBVIOUS
<1>1. age \in [Nodes -> 0..Unknown] /\ starts \in 0..MaxStarts
  BY DiscoveryAssumption DEF Init, Unknown
<1>2. told \in [Nodes -> Nat] /\ current \in Nodes
  BY DiscoveryAssumption DEF Init
<1>3. TypeOK
  BY <1>1, <1>2, Zenon DEF Init, TypeOK
<1>4. ThreadInv /\ StoppedIsQuiet /\ StaleInv
  BY DEF Init, ThreadInv, StoppedIsQuiet, StaleInv
<1>5. AnnouncedOnce /\ NotifyInv
  BY DEF Init, AnnouncedOnce, NotifyInv, Known
<1> QED
  BY <1>3, <1>4, <1>5 DEF IInv

\* IInv is preserved by every step.
LEMMA NextIInv == IInv /\ [Next]_vars => IInv'
BY NextType, NextThreads, NextAnnounced, NextStale DEF IInv

\* IInv is an invariant.
LEMMA Invariance == Spec => []IInv
BY InitIInv, NextIInv, PTL DEF Spec

\* Type correctness of the discovery.
THEOREM DiscoveryTypes == Spec => []TypeOK
<1>1. IInv => TypeOK
  BY DEF IInv
<1> QED
  BY <1>1, Invariance, PTL

\* Once Stop has returned there is neither a broadcast nor a listen thread.
THEOREM DiscoveryQuiet == Spec => []StoppedIsQuiet
<1>1. IInv => StoppedIsQuiet
  BY DEF IInv
<1> QED
  BY <1>1, Invariance, PTL

\* No entry of the table of discovered peers is announced twice, and none that
\* ListenThreadFunc makes after SetDiscoveredCallback is passed over.
THEOREM Announcement == Spec => []AnnouncedOnce
<1>1. IInv => AnnouncedOnce
  BY DEF IInv
<1> QED
  BY <1>1, Invariance, PTL

\* The clean-up drops only entries that are over age, also when the listen thread
\* refreshes one between the clean-up's look at the clock and its lock.
THEOREM Expiry == Spec => ExpiryIsDue
<1>1. IInv /\ [Next]_vars => [\A n \in Nodes : Known(n) /\ age'[n] = Unknown => age[n] > Timeout]_vars
  BY NextExpiry DEF IInv
<1> QED
  BY <1>1, Invariance, PTL DEF Spec, ExpiryIsDue
=============================================================================
