---------------------------- MODULE MCPeerStream ----------------------------
(* Instances of PeerStream for TLC: a message of each class.  The factory does *)
(* not know the chunk and the completion.                                      *)
EXTENDS PeerStream, TLC

Fill(n, b) == [i \in 1..n |-> b]
Counted(n) == [i \in 1..n |-> i]

ChatBase == [type |-> CHAT_MESSAGE, sender |-> Counted(32), id |-> Fill(16, 7),
             timestamp |-> Counted(8)]

Chat == [content |-> <<72, 105>>] @@ ChatBase
Empty == [content |-> <<>>] @@ ChatBase
Request == [type |-> FILE_TRANSFER_REQUEST, file_size |-> Counted(8), filename |-> <<97, 46, 98>>]
             @@ ChatBase
Notice == [type |-> CONNECTION_NOTIFICATION, status |-> 2] @@ ChatBase
Chunk == [type |-> FILE_CHUNK, file_id |-> <<1, 2>>, chunk_index |-> Counted(4),
          data |-> <<9, 8, 7>>] @@ ChatBase
Complete == [type |-> FILE_TRANSFER_COMPLETE, file_id |-> <<1, 2, 3>>, success |-> TRUE,
             error_message |-> <<>>] @@ ChatBase

AllMessages == {Chat, Empty, Request, Notice, Chunk, Complete}
ChatAndNotice == {Chat, Notice}
=============================================================================
