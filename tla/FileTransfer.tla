---------------------------- MODULE FileTransfer ----------------------------
(***************************************************************************)
(* BasicFileTransferManager (src/file/file_transfer.cpp): one node's       *)
(* outgoing and incoming transfers.                                        *)
(*                                                                         *)
(* The console thread calls SendFile and CancelTransfer.  The io thread    *)
(* runs HandleMessage, one message at a time.  A critical section of       *)
(* _transfers_mutex is one step; what a function does outside of it is a   *)
(* step of its own.  Each peer offers one file, and is sent one file, so a *)
(* peer stands for the key (peer id, file id) of both maps.  A peer that   *)
(* cancels what it was sending says so with a FILE_TRANSFER_COMPLETE,      *)
(* which is looked up among the outgoing transfers, and so only logged.    *)
(*                                                                         *)
(* A file on disk is the function that says whose data each chunk holds.   *)
(* DecodedTypes is the set of message types that reach HandleMessage:      *)
(* MessageFactory::CreateFromBuffer decodes FILE_TRANSFER_REQUEST alone,   *)
(* a NetworkManager with another decoder may deliver all three.  With      *)
(* AsioNetworkManager each of two nodes makes up an id of its own for the  *)
(* session between them, and so SharedIds is FALSE.                        *)
(***************************************************************************)
EXTENDS Naturals, FiniteSets, FiniteSetsExt

CONSTANTS Peers, NoPeer,
          Lost,          \* contents of a chunk that was written and not stored
          Names,         \* file names in the downloads directory
          NameOf,        \* the name of the file each peer offers
          FileSize,      \* its size in bytes
          ChunkSize,     \* _chunk_size
          BareNames,     \* peers whose file path is a file name alone
          SharedIds,     \* do both ends of a session know it by one peer id?
          DecodedTypes,  \* message types the network hands to HandleMessage
          MaxRequests    \* bound on the requests each peer makes

ASSUME FileAssumption ==
  /\ NoPeer \notin Peers /\ Lost \notin Peers
  /\ NameOf \in [Peers -> Names]
  /\ FileSize \in [Peers -> Nat]
  /\ ChunkSize \in Nat \ {0}
  /\ BareNames \subseteq Peers /\ SharedIds \in BOOLEAN
  /\ MaxRequests \in Nat

VARIABLES incoming,   \* _incoming_transfers: NoTransfer or bytes and chunks received
          opening,    \* the peer whose output file the io thread has just opened
          disk,       \* the downloads directory
          result,     \* what _completed_callback said of a peer's latest file
          outgoing,   \* _outgoing_transfers: the status of the file sent to a peer
          requesting, \* the peer SendFile has sent a request to and not yet stored
          answer,     \* FILE_TRANSFER_COMPLETE on its way from a peer
          requests    \* requests received from each peer

inVars == <<incoming, opening, disk, result, requests>>
outVars == <<outgoing, requesting, answer>>
vars == <<inVars, outVars>>

\* The types MessageFactory::CreateFromBuffer makes a message of, and so what
\* AsioNetworkManager hands on.
FactoryTypes == {"CHAT_MESSAGE", "FILE_TRANSFER_REQUEST", "CONNECTION_NOTIFICATION"}

\* The chunks SendNextChunk cuts a file into, and the bytes in each.
NumChunks(p) == (FileSize[p] + ChunkSize - 1) \div ChunkSize
Chunks(p) == 0 .. NumChunks(p) - 1
DataSize(p, i) == Min({ChunkSize, FileSize[p] - i * ChunkSize})

AllChunks == UNION {Chunks(p) : p \in Peers}
EmptyFile == [i \in AllChunks |-> NoPeer]

NoTransfer == [active |-> FALSE, bytes |-> 0, received |-> {}]
NewTransfer == [active |-> TRUE, bytes |-> 0, received |-> {}]

Idle == opening = NoPeer

TypeOK ==
  /\ incoming \in [Peers -> [active : BOOLEAN, bytes : Nat, received : SUBSET AllChunks]]
  /\ opening \in Peers \cup {NoPeer}
  /\ disk \in [Names -> [AllChunks -> Peers \cup {NoPeer, Lost}]]
  /\ result \in [Peers -> {"none", "ok", "failed"}]
  /\ outgoing \in [Peers -> {"none", "PENDING"}]
  /\ requesting \in Peers \cup {NoPeer}
  /\ answer \in [Peers -> {"none", "expected", "sent", "lost", "handled"}]
  /\ requests \in [Peers -> 0..MaxRequests]

Init ==
  /\ incoming = [p \in Peers |-> NoTransfer]
  /\ opening = NoPeer
  /\ disk = [n \in Names |-> EmptyFile]
  /\ result = [p \in Peers |-> "none"]
  /\ outgoing = [p \in Peers |-> "none"]
  /\ requesting = NoPeer
  /\ answer = [p \in Peers |-> "none"]
  /\ requests = [p \in Peers |-> 0]
-----------------------------------------------------------------------------
(***************************************************************************)
(* The receiving side, on the io thread.                                   *)
(***************************************************************************)

\* HandleFileTransferRequest up to the open of the output file.  A rejected
\* request, or a file that cannot be created, ends the handler.
HandleFileTransferRequest(p) ==
  /\ Idle
  /\ "FILE_TRANSFER_REQUEST" \in DecodedTypes
  /\ requests[p] < MaxRequests
  /\ requests' = [requests EXCEPT ![p] = @ + 1]
  /\ \/ /\ opening' = p
        /\ disk' = [disk EXCEPT ![NameOf[p]] = EmptyFile]
        /\ result' = [result EXCEPT ![p] = "none"]
     \/ UNCHANGED <<opening, disk, result>>
  /\ UNCHANGED <<incoming, outVars>>

\* ... and its critical section, which replaces an earlier transfer.
StoreIncoming ==
  /\ ~Idle
  /\ incoming' = [incoming EXCEPT ![opening] = NewTransfer]
  /\ opening' = NoPeer
  /\ UNCHANGED <<disk, result, requests, outVars>>

\* Mutant of CountChunk: every chunk counts as a full one.
CountFullChunk(p, i) ==
  LET bytes == incoming[p].bytes + ChunkSize
      done == bytes >= FileSize[p]
  IN  /\ disk' = [disk EXCEPT ![NameOf[p]][i] = p]
      /\ incoming' = [incoming EXCEPT ![p] =
            IF done THEN NoTransfer
            ELSE [active |-> TRUE, bytes |-> bytes, received |-> @.received \cup {i}]]
      /\ result' = IF done THEN [result EXCEPT ![p] = "ok"] ELSE result

\* The chunk has been written: count it, and complete the transfer when all
\* bytes have been received.  The stream is then closed, and whether that could
\* write what the stream still held is not tested.
CountChunk(p, i) ==
  LET bytes == incoming[p].bytes + DataSize(p, i)
      done == bytes >= FileSize[p]
  IN  /\ \/ disk' = [disk EXCEPT ![NameOf[p]][i] = p]
         \/ done /\ disk' = [disk EXCEPT ![NameOf[p]][i] = Lost]
      /\ incoming' = [incoming EXCEPT ![p] =
            IF done THEN NoTransfer
            ELSE [active |-> TRUE, bytes |-> bytes, received |-> @.received \cup {i}]]
      /\ result' = IF done THEN [result EXCEPT ![p] = "ok"] ELSE result

\* Mutant of FailChunk: the failure is reported, the transfer kept.
FailChunkKeeps(p) ==
  /\ result' = [result EXCEPT ![p] = "failed"]
  /\ UNCHANGED <<incoming, disk>>

\* The write failed: report the failure and drop the transfer.
FailChunk(p) ==
  /\ incoming' = [incoming EXCEPT ![p] = NoTransfer]
  /\ result' = [result EXCEPT ![p] = "failed"]
  /\ UNCHANGED disk

\* The transfer a chunk of p's file is for: SendFile makes the path the file id,
\* the request carries the file name.
Known(p) == p \in BareNames /\ incoming[p].active

\* Mutant of HandleFileChunk: a chunk received before is counted again.
HandleRepeatedChunk(p, i) ==
  /\ Idle
  /\ "FILE_CHUNK" \in DecodedTypes
  /\ requests[p] > 0
  /\ \/ ~Known(p) /\ UNCHANGED <<incoming, disk, result>>
     \/ Known(p) /\ (CountChunk(p, i) \/ FailChunk(p))
  /\ UNCHANGED <<opening, requests, outVars>>

\* HandleFileChunk.  Chunks of a peer that made a request arrive in any order
\* and more than once; those of an unknown transfer and those received before
\* are skipped.
HandleFileChunk(p, i) ==
  /\ Idle
  /\ "FILE_CHUNK" \in DecodedTypes
  /\ requests[p] > 0
  /\ \/ /\ ~Known(p) \/ i \in incoming[p].received
        /\ UNCHANGED <<incoming, disk, result>>
     \/ /\ Known(p) /\ i \notin incoming[p].received
        /\ CountChunk(p, i) \/ FailChunk(p)
  /\ UNCHANGED <<opening, requests, outVars>>
-----------------------------------------------------------------------------
(***************************************************************************)
(* The sending side.                                                       *)
(***************************************************************************)

\* SendFile up to the send of the request; the peer may answer from now on.
SendFile(p) ==
  /\ requesting = NoPeer
  /\ answer[p] = "none"
  /\ requesting' = p
  /\ answer' = [answer EXCEPT ![p] = "expected"]
  /\ UNCHANGED <<outgoing, inVars>>

\* Mutant of StoreOutgoing: the transfer starts before the peer has accepted.
StoreInProgress ==
  /\ requesting # NoPeer
  /\ outgoing' = [outgoing EXCEPT ![requesting] = "IN_PROGRESS"]
  /\ requesting' = NoPeer
  /\ UNCHANGED <<answer, inVars>>

\* ... and its critical section, a PENDING transfer.
StoreOutgoing ==
  /\ requesting # NoPeer
  /\ outgoing' = [outgoing EXCEPT ![requesting] = "PENDING"]
  /\ requesting' = NoPeer
  /\ UNCHANGED <<answer, inVars>>

\* The peer rejects the file, has it, or failed, and answers with
\* FILE_TRANSFER_COMPLETE to the sender named in the message: the id this node
\* has for the peer, which SendMessage looks up among the peer's own sessions.
PeerAnswers(p) ==
  /\ answer[p] = "expected"
  /\ answer' = [answer EXCEPT ![p] = IF SharedIds THEN "sent" ELSE "lost"]
  /\ UNCHANGED <<outgoing, requesting, inVars>>

\* HandleFileTransferComplete: an unknown transfer is only logged.  The answer to
\* a request carries the file name, the transfer is stored under the path.
HandleFileTransferComplete(p) ==
  /\ Idle
  /\ "FILE_TRANSFER_COMPLETE" \in DecodedTypes
  /\ answer[p] = "sent"
  /\ answer' = [answer EXCEPT ![p] = "handled"]
  /\ \E bare \in BOOLEAN :
       outgoing' = IF bare THEN [outgoing EXCEPT ![p] = "none"] ELSE outgoing
  /\ UNCHANGED <<requesting, inVars>>

\* CancelTransfer looks in the outgoing transfers, then in the incoming ones.
CancelTransfer(p) ==
  /\ \/ /\ outgoing[p] # "none"
        /\ outgoing' = [outgoing EXCEPT ![p] = "none"]
        /\ UNCHANGED incoming
     \/ /\ outgoing[p] = "none"
        /\ incoming[p].active
        /\ incoming' = [incoming EXCEPT ![p] = NoTransfer]
        /\ UNCHANGED outgoing
  /\ UNCHANGED <<opening, disk, result, requests, requesting, answer>>
-----------------------------------------------------------------------------
Next == \/ StoreIncoming \/ StoreOutgoing
        \/ \E p \in Peers :
             \/ HandleFileTransferRequest(p)
             \/ \E i \in Chunks(p) : HandleFileChunk(p, i)
             \/ SendFile(p) \/ PeerAnswers(p)
             \/ HandleFileTransferComplete(p) \/ CancelTransfer(p)

Spec == Init /\ [][Next]_vars

\* The io thread handles what has arrived, both threads finish the call they are
\* in, and a peer answers what it was asked.
Fairness ==
  /\ WF_vars(StoreIncoming) /\ WF_vars(StoreOutgoing)
  /\ \A p \in Peers : WF_vars(PeerAnswers(p)) /\ SF_vars(HandleFileTransferComplete(p))

FairSpec == Spec /\ Fairness
-----------------------------------------------------------------------------
\* Of a file reported complete every chunk was received and written, and stays
\* so until its sender offers it again, whatever order the chunks came in,
\* however often, and whatever was cancelled or requested again meanwhile.  Only
\* what close() fails to store may be missing.
CompletedFileIsWhole ==
  \A p \in Peers : result[p] = "ok" => \A i \in Chunks(p) : disk[NameOf[p]][i] \in {p, Lost}

\* The byte count of a transfer is that of the distinct chunks received, and is
\* short of the file size: HandleFileChunk never leaves a transfer that has
\* all its bytes.
BytesAreReceived ==
  \A p \in Peers : incoming[p].active =>
    /\ incoming[p].bytes = MapThenSumSet(LAMBDA i : DataSize(p, i), incoming[p].received)
    /\ incoming[p].received # {} => incoming[p].bytes < FileSize[p]

\* What _completed_callback has said of a file stands: a file reported complete
\* is not reported failed by a chunk that comes late or twice, nor the other way
\* round, until its sender offers it again.
ReportedOnce ==
  [][\A p \in Peers : result[p] # "none" /\ result'[p] # result[p] => result'[p] = "none"]_vars

\* "FILE_TRANSFER_COMPLETE: Signals transfer completion"
\* (docs/components/file_transfer.md:54): the answer of a peer that rejects a
\* file, has received it or has failed reaches its handler.
CompletionIsSignalled ==
  \A p \in Peers : answer[p] \in {"sent", "lost"} ~> answer[p] = "handled"
=============================================================================
