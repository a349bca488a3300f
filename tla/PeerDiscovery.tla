--------------------------- MODULE PeerDiscovery ---------------------------
(***************************************************************************)
(* PeerDiscovery (src/discovery/peer_discovery.cpp): the broadcast and the *)
(* listen thread, the table of discovered peers, Start and Stop.           *)
(*                                                                         *)
(* Time passes in broadcast intervals: age[n] is the number of intervals   *)
(* since node n was last heard, Unknown when it has no entry.  Datagrams   *)
(* may be lost, repeated and reordered; two of the same node that wait in  *)
(* the socket buffer are one.  Datagrams that do not parse are dropped by  *)
(* the code without a trace and are left out.                              *)
(***************************************************************************)
EXTENDS Naturals

CONSTANTS Nodes,      \* the nodes that announce themselves, this one included
          Self,
          PortOf,     \* the TCP port each node announces
          Timeout,    \* PEER_TIMEOUT_SEC / DISCOVERY_INTERVAL_SEC
          MaxStarts   \* bound on the calls of Start

ASSUME DiscoveryAssumption == Self \in Nodes /\ Timeout \in Nat /\ MaxStarts \in Nat

VARIABLES running,      \* _running
          open,         \* the two sockets are open
          mainPc,       \* the application thread's place in Start or Stop
          bcast,        \* the broadcast thread
          listen,       \* the listen thread
          current,      \* the node whose datagram the listen thread handles
          age,          \* _discovered_peers
          stale,        \* entries that were over age when the clean-up read the clock
          mail,         \* nodes with a datagram in the socket buffer
          hasCallback,  \* _discovered_callback is set
          told,         \* how often the callback was called for a node's entry
          early,        \* nodes whose entry was made before the callback was set
          starts

mainVars == <<running, open, mainPc, hasCallback, starts>>
tableVars == <<age, stale, told, early>>
vars == <<mainVars, tableVars, bcast, listen, current, mail>>

Unknown == Timeout + 2
Known(n) == age[n] # Unknown

TypeOK ==
  /\ running \in BOOLEAN /\ open \in BOOLEAN /\ hasCallback \in BOOLEAN
  /\ mainPc \in {"idle", "startBroadcast", "startListen", "stopClose", "joinBroadcast", "joinListen"}
  /\ bcast \in {"none", "loop", "send", "sleep", "expire", "done"}
  /\ listen \in {"none", "loop", "call", "recv", "handle", "notify", "done"}
  /\ current \in Nodes
  /\ age \in [Nodes -> 0..Unknown]
  /\ stale \in SUBSET Nodes /\ mail \in SUBSET Nodes
  /\ told \in [Nodes -> Nat] /\ early \in SUBSET Nodes
  /\ starts \in 0..MaxStarts

Init ==
  /\ running = FALSE /\ open = FALSE /\ hasCallback = FALSE
  /\ mainPc = "idle"
  /\ bcast = "none" /\ listen = "none" /\ current = Self
  /\ age = [n \in Nodes |-> Unknown]
  /\ stale = {} /\ mail = {}
  /\ told = [n \in Nodes |-> 0] /\ early = {}
  /\ starts = 0
-----------------------------------------------------------------------------
(***************************************************************************)
(* The application thread.                                                 *)
(***************************************************************************)

\* The ages k intervals later; Timeout + 1 stands for every age above Timeout.
Later(k) ==
  [n \in Nodes |-> IF ~Known(n) THEN Unknown
                   ELSE IF age[n] + k > Timeout THEN Timeout + 1 ELSE age[n] + k]

\* Start up to _running = true.  When a socket call fails nothing of this is
\* done and Start returns false.  The table is kept from an earlier run, however
\* long ago that was.
Start ==
  /\ mainPc = "idle" /\ ~running /\ starts < MaxStarts
  /\ running' = TRUE
  /\ open' = TRUE
  /\ mainPc' = "startBroadcast"
  /\ starts' = starts + 1
  /\ mail' = {}
  /\ \E k \in 0..(Timeout + 1) : age' = Later(k)
  /\ UNCHANGED <<hasCallback, stale, told, early, bcast, listen, current>>

StartBroadcast ==
  /\ mainPc = "startBroadcast"
  /\ bcast' = "loop"
  /\ mainPc' = "startListen"
  /\ UNCHANGED <<running, open, hasCallback, starts, tableVars, listen, current, mail>>

StartListen ==
  /\ mainPc = "startListen"
  /\ listen' = "loop"
  /\ mainPc' = "idle"
  /\ UNCHANGED <<running, open, hasCallback, starts, tableVars, bcast, current, mail>>

\* A std::thread cannot be created: the sockets are closed and Start returns
\* false, with _running still true.
StartThreadFails ==
  /\ mainPc \in {"startBroadcast", "startListen"}
  /\ open' = FALSE
  /\ mainPc' = "idle"
  /\ UNCHANGED <<running, hasCallback, starts, tableVars, bcast, listen, current, mail>>

SetDiscoveredCallback ==
  /\ mainPc = "idle"
  /\ hasCallback' = TRUE
  /\ UNCHANGED <<running, open, mainPc, starts, tableVars, bcast, listen, current, mail>>

\* Mutant of Stop: _running is tested and not cleared.
StopUncleared ==
  /\ mainPc = "idle" /\ running
  /\ mainPc' = "stopClose"
  /\ UNCHANGED <<running, open, hasCallback, starts, tableVars, bcast, listen, current, mail>>

\* _running.exchange(false).
Stop ==
  /\ mainPc = "idle" /\ running
  /\ running' = FALSE
  /\ mainPc' = "stopClose"
  /\ UNCHANGED <<open, hasCallback, starts, tableVars, bcast, listen, current, mail>>

StopClose ==
  /\ mainPc = "stopClose"
  /\ open' = FALSE
  /\ mainPc' = "joinBroadcast"
  /\ UNCHANGED <<running, hasCallback, starts, tableVars, bcast, listen, current, mail>>

JoinBroadcast ==
  /\ mainPc = "joinBroadcast" /\ bcast \in {"none", "done"}
  /\ bcast' = "none"
  /\ mainPc' = "joinListen"
  /\ UNCHANGED <<running, open, hasCallback, starts, tableVars, listen, current, mail>>

\* Mutant of JoinListen: the listen thread is not joined.
JoinListenOmitted ==
  /\ mainPc = "joinListen"
  /\ mainPc' = "idle"
  /\ UNCHANGED <<running, open, hasCallback, starts, tableVars, bcast, listen, current, mail>>

JoinListen ==
  /\ mainPc = "joinListen" /\ listen \in {"none", "done"}
  /\ listen' = "none"
  /\ mainPc' = "idle"
  /\ UNCHANGED <<running, open, hasCallback, starts, tableVars, bcast, current, mail>>
-----------------------------------------------------------------------------
(***************************************************************************)
(* BroadcastThreadFunc.                                                    *)
(***************************************************************************)

BroadcastLoop ==
  /\ bcast = "loop"
  /\ bcast' = IF running THEN "send" ELSE "done"
  /\ UNCHANGED <<mainVars, tableVars, listen, current, mail>>

\* sendto: the datagram also comes back to this node's listen socket.
BroadcastSend ==
  /\ bcast = "send"
  /\ mail' = IF open THEN mail \cup {Self} ELSE mail
  /\ bcast' = "sleep"
  /\ UNCHANGED <<mainVars, tableVars, listen, current>>

\* The interval is over, or cut short because _running has become false; the
\* clean-up reads the clock.
BroadcastWake ==
  /\ bcast = "sleep"
  /\ \E k \in (IF running THEN {1} ELSE {0, 1}) : age' = Later(k)
  /\ stale' = {n \in Nodes : age'[n] = Timeout + 1}
  /\ bcast' = "expire"
  /\ UNCHANGED <<mainVars, told, early, listen, current, mail>>

\* Mutant of BroadcastExpire: the clean-up walks the table and erases nothing.
BroadcastExpireKeeps ==
  /\ bcast = "expire"
  /\ stale' = {}
  /\ bcast' = "loop"
  /\ UNCHANGED <<mainVars, age, told, early, listen, current, mail>>

\* Under _discovered_peers_mutex: drop the entries over age.  One refreshed
\* since the clock was read is kept.
BroadcastExpire ==
  /\ bcast = "expire"
  /\ age' = [n \in Nodes |-> IF n \in stale THEN Unknown ELSE age[n]]
  /\ stale' = {}
  /\ bcast' = "loop"
  /\ UNCHANGED <<mainVars, told, early, listen, current, mail>>
-----------------------------------------------------------------------------
(***************************************************************************)
(* ListenThreadFunc.                                                       *)
(***************************************************************************)

ListenLoop ==
  /\ listen = "loop"
  /\ listen' = IF running THEN "call" ELSE "done"
  /\ UNCHANGED <<mainVars, tableVars, bcast, current, mail>>

\* recvfrom fails on a closed descriptor and blocks otherwise.
ListenCall ==
  /\ listen = "call"
  /\ listen' = IF open THEN "recv" ELSE "loop"
  /\ UNCHANGED <<mainVars, tableVars, bcast, current, mail>>

\* A blocked recvfrom returns when there is a datagram.  close() in another
\* thread does not wake it.
ListenRecv(n) ==
  /\ listen = "recv" /\ n \in mail
  /\ mail' = mail \ {n}
  /\ current' = n
  /\ listen' = "handle"
  /\ UNCHANGED <<mainVars, tableVars, bcast>>

\* The test meant to skip our own datagrams.
SkipsAsSelf(n) == PortOf[n] = PortOf[Self]

\* Mutant of ListenHandle: the clean-up erases what it found over age, also when
\* the entry has been refreshed since.
ListenHandleLate ==
  /\ listen = "handle" /\ ~SkipsAsSelf(current)
  /\ age' = [age EXCEPT ![current] = 0]
  /\ listen' = IF Known(current) THEN "loop" ELSE "notify"
  /\ UNCHANGED <<stale, told, early, mainVars, bcast, current, mail>>

\* is_new: a new entry has not been announced.
NewEntry ==
  /\ told' = [told EXCEPT ![current] = 0]
  /\ early' = IF hasCallback THEN early \ {current} ELSE early \cup {current}

\* Mutant of ListenHandle: is_new is not tested.
ListenHandleAlways ==
  /\ listen = "handle" /\ ~SkipsAsSelf(current)
  /\ age' = [age EXCEPT ![current] = 0]
  /\ stale' = stale \ {current}
  /\ IF Known(current) THEN UNCHANGED <<told, early>> ELSE NewEntry
  /\ listen' = "notify"
  /\ UNCHANGED <<mainVars, bcast, current, mail>>

\* Under _discovered_peers_mutex: insert or refresh the entry.
ListenHandle ==
  /\ listen = "handle"
  /\ \/ /\ SkipsAsSelf(current)
        /\ listen' = "loop"
        /\ UNCHANGED tableVars
     \/ /\ ~SkipsAsSelf(current)
        /\ age' = [age EXCEPT ![current] = 0]
        /\ stale' = stale \ {current}
        /\ \/ /\ Known(current)
              /\ listen' = "loop"
              /\ UNCHANGED <<told, early>>
           \/ /\ ~Known(current)
              /\ listen' = "notify"
              /\ NewEntry
  /\ UNCHANGED <<mainVars, bcast, current, mail>>

\* The callback, for a new peer, when it is set by now.
ListenNotify ==
  /\ listen = "notify"
  /\ told' = [told EXCEPT ![current] = IF hasCallback THEN @ + 1 ELSE @]
  /\ listen' = "loop"
  /\ UNCHANGED <<mainVars, age, stale, early, bcast, current, mail>>
-----------------------------------------------------------------------------
\* Another node's announcement arrives.
Announce(n) ==
  /\ n # Self
  /\ open \/ listen = "recv"
  /\ mail' = mail \cup {n}
  /\ UNCHANGED <<mainVars, tableVars, bcast, listen, current>>

MainNext == \/ Start \/ StartBroadcast \/ StartListen \/ StartThreadFails
            \/ SetDiscoveredCallback
            \/ Stop \/ StopClose \/ JoinBroadcast \/ JoinListen
BroadcastNext == BroadcastLoop \/ BroadcastSend \/ BroadcastWake \/ BroadcastExpire
ListenNext == \/ ListenLoop \/ ListenCall \/ ListenHandle \/ ListenNotify
              \/ \E n \in Nodes : ListenRecv(n)

Next == MainNext \/ BroadcastNext \/ ListenNext \/ \E n \in Nodes : Announce(n)

Spec == Init /\ [][Next]_vars

\* Every thread goes on with what it is doing.  A datagram that waits is read at
\* some time.
FairSpec ==
  /\ Spec
  /\ WF_vars(BroadcastNext)
  /\ WF_vars(ListenLoop \/ ListenCall \/ ListenHandle \/ ListenNotify)
  /\ \A n \in Nodes : SF_vars(ListenRecv(n))
  /\ WF_vars(StartBroadcast \/ StartListen \/ StopClose \/ JoinBroadcast \/ JoinListen)

\* ... and some other node goes on announcing itself.
FairNetworkSpec == FairSpec /\ WF_vars(\E n \in Nodes : Announce(n))
-----------------------------------------------------------------------------
\* Outside of Start and Stop, a discovery that is not running has no threads:
\* the callback, which captures objects of main by reference, is not called
\* after Stop has returned, and no joinable std::thread is assigned over.
StoppedIsQuiet == mainPc = "idle" /\ ~running => bcast = "none" /\ listen = "none"

\* Only an entry that was over age is dropped, however the refresh by the listen
\* thread interleaves with the clean-up.
ExpiryIsDue ==
  [][\A n \in Nodes : Known(n) /\ age'[n] = Unknown => age[n] > Timeout]_vars

\* An entry is announced at most once, however often it is refreshed (the callback
\* of main connects to the peer), and once if the callback was set when the entry
\* was made, whatever the clean-up, Stop and a later Start do meanwhile.  Main sets
\* the callback after Start (main.cpp:267-271): an entry made in between may be
\* passed over, and then stays so as long as the peer is heard.
AnnouncedOnce ==
  /\ \A n \in Nodes : told[n] <= 1
  /\ \A n \in Nodes \ early :
       Known(n) => told[n] = 1 \/ (listen = "notify" /\ current = n)

\* A peer that is not heard any more is forgotten, so that it is announced
\* again when it comes back: the broadcast thread, once started, cleans up as long
\* as the discovery runs.
SilentIsForgotten ==
  \A n \in Nodes :
    (Known(n) /\ bcast # "none" /\ []~(listen = "handle" /\ current = n))
       ~> (~Known(n) \/ ~running)

\* Stop returns as long as some other node announces itself.
StopReturns == mainPc = "stopClose" ~> mainPc = "idle"
-----------------------------------------------------------------------------
\* "Close sockets to interrupt any blocking calls" (peer_discovery.cpp:135): Stop
\* returns whatever other nodes do.
StopInterrupts == mainPc = "stopClose" ~> mainPc = "idle"
=============================================================================
