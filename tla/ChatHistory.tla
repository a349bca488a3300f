---------------------------- MODULE ChatHistory ----------------------------
(***************************************************************************)
(* The queries of ChatManager: GetChatHistory and GetAllChatHistory, as    *)
(* operators on the history.  Each reads the history in one critical       *)
(* section; what follows works on a copy.                                  *)
(***************************************************************************)
EXTENDS ChatManager, FiniteSets, Functions

ASSUME HistoryAssumption == IsFiniteSet(Keys) /\ Times \subseteq Nat

\* The last max_messages elements, end() - max_messages being in range.
Newest(seq, max_messages) ==
  IF Len(seq) <= max_messages THEN seq
  ELSE SubSeq(seq, Len(seq) - max_messages + 1, Len(seq))

GetChatHistory(peer_id, max_messages) == Newest(history[peer_id], max_messages)

\* What all_history collects: the entries at all places of all histories.
Places == UNION {{k} \X (1..Len(history[k])) : k \in Keys}
Entry(place) == history[place[1]][place[2]]

\* Mutant of Earlier: the comparison is the wrong way round.
Later(a, b) == a.timestamp > b.timestamp

\* The comparison std::sort is given.
Earlier(a, b) == a.timestamp < b.timestamp

\* The orders std::sort may leave them in: among entries of one timestamp, any.
SortedPlaces ==
  {order \in Injection(1..Cardinality(Places), Places) :
     \A i, j \in DOMAIN order : i < j => ~Earlier(Entry(order[j]), Entry(order[i]))}

SortedHistories == {[i \in DOMAIN order |-> Entry(order[i])] : order \in SortedPlaces}

\* What is left of all_history, sorted, when the oldest are erased.
GetAllChatHistory(all_history, max_messages) == Newest(all_history, max_messages)

\* A query for the whole history returns, for any limit, as many entries as it may,
\* in the order of their timestamps, and leaves out none that is newer than one it
\* returns; no entry is made up or duplicated by the merge of the peers' histories.
\* A query for one peer returns the end of what was kept for that peer.  Both read
\* the history when they hold its mutex.
QueryReturnsNewest ==
  historyMutex = "free" =>
    LET sorted == SortedHistories
        places == Places
        At(info) == {place \in places : Entry(place) = info}
    IN  \A max \in 0..MaxMessages :
          /\ \A all_history \in sorted :
               LET got == GetAllChatHistory(all_history, max)
                   Returned(info) == {i \in 1..Len(got) : got[i] = info}
               IN  /\ Len(got) = IF Cardinality(places) < max THEN Cardinality(places) ELSE max
                   /\ \A i, j \in 1..Len(got) : i < j => got[i].timestamp <= got[j].timestamp
                   /\ \A i \in 1..Len(got) : At(got[i]) # {}
                   /\ \A info \in {Entry(place) : place \in places} :
                        /\ Cardinality(Returned(info)) <= Cardinality(At(info))
                        /\ Cardinality(Returned(info)) < Cardinality(At(info)) =>
                             \A j \in 1..Len(got) : info.timestamp <= got[j].timestamp
          /\ \A k \in Keys :
               LET page == GetChatHistory(k, max)
               IN  /\ Len(page) = IF Len(history[k]) < max THEN Len(history[k]) ELSE max
                   /\ \A i \in 1..Len(page) : page[i] = history[k][Len(history[k]) - Len(page) + i]
=============================================================================
