---------------------------- MODULE MessageCodec ----------------------------
(***************************************************************************)
(* The binary form of the messages: Serialize and Deserialize of the five  *)
(* message classes (src/common/message.cpp, src/file/file_transfer.cpp)    *)
(* and MessageFactory::CreateFromBuffer.                                   *)
(*                                                                         *)
(* A message is the record of its members, a buffer a sequence of bytes.   *)
(* Offsets are those of the source, from 0.  An integer of 4 or 8 bytes is *)
(* the sequence of its bytes in the memory of a little-endian host, least  *)
(* significant first, so that no width is cut short.                       *)
(***************************************************************************)
EXTENDS Naturals, Sequences

Byte == 0..255
ByteBuffer == Seq(Byte)
Bytes(n) == [1..n -> Byte]

\* enum class MessageType, of which these have a message class.
CHAT_MESSAGE == 0
FILE_TRANSFER_REQUEST == 1
FILE_CHUNK == 3
FILE_TRANSFER_COMPLETE == 4
CONNECTION_NOTIFICATION == 8

PeerId == Bytes(32)
MessageId == Bytes(16)

ChatMessage ==
  [type : {CHAT_MESSAGE}, sender : PeerId, id : MessageId, timestamp : Bytes(8),
   content : ByteBuffer]
FileTransferRequestMessage ==
  [type : {FILE_TRANSFER_REQUEST}, sender : PeerId, id : MessageId, timestamp : Bytes(8),
   file_size : Bytes(8), filename : ByteBuffer]
ConnectionMessage ==
  [type : {CONNECTION_NOTIFICATION}, sender : PeerId, id : MessageId, timestamp : Bytes(8),
   status : Byte]
FileChunkMessage ==
  [type : {FILE_CHUNK}, sender : PeerId, id : MessageId, timestamp : Bytes(8),
   file_id : ByteBuffer, chunk_index : Bytes(4), data : ByteBuffer]
FileTransferCompleteMessage ==
  [type : {FILE_TRANSFER_COMPLETE}, sender : PeerId, id : MessageId, timestamp : Bytes(8),
   file_id : ByteBuffer, success : BOOLEAN, error_message : ByteBuffer]

\* What MessageFactory can return, and every message there is.
FactoryMessage == ChatMessage \cup FileTransferRequestMessage \cup ConnectionMessage
Message == FactoryMessage \cup FileChunkMessage \cup FileTransferCompleteMessage

\* The null pointer the factory returns, or a Deserialize that returns false.
NoMessage == [type |-> 255]
-----------------------------------------------------------------------------
(***************************************************************************)
(* Integers and buffers.                                                   *)
(***************************************************************************)

\* static_cast<uint32_t>, as the host stores it, and the number it stands for.
Word(n) == <<n % 256, (n \div 256) % 256, (n \div 65536) % 256, (n \div 16777216) % 256>>
Value(word) == word[1] + 256 * word[2] + 65536 * word[3] + 16777216 * word[4]

\* The cast to uint32_t keeps the number.
FitsWord(n) == Value(Word(n)) = n

\* htobe32, htobe64, be32toh, be64toh.
SwapBytes(word) == [i \in 1..Len(word) |-> word[Len(word) - i + 1]]

\* A new ByteBuffer of n bytes, and std::copy or memcpy to offset at of a buffer.
NewBuffer(n) == [i \in 1..n |-> 0]
Put(buffer, at, bytes) ==
  SubSeq(buffer, 1, at) \o bytes \o SubSeq(buffer, at + Len(bytes) + 1, Len(buffer))

\* n bytes from offset at.  A byte from beyond the end of the buffer is none.
Beyond == 256
Get(buffer, at, n) ==
  [i \in 1..n |-> IF at + i <= Len(buffer) THEN buffer[at + i] ELSE Beyond]

PutLength(buffer, at, bytes) == Put(buffer, at, SwapBytes(Word(Len(bytes))))
GetLength(buffer, at) == Value(SwapBytes(Get(buffer, at, 4)))

\* A message whose variable members fit their 32-bit lengths.
Fits(m) ==
  /\ m \in ChatMessage => FitsWord(Len(m.content))
  /\ m \in FileTransferRequestMessage => FitsWord(Len(m.filename))
  /\ m \in FileChunkMessage => FitsWord(Len(m.file_id)) /\ FitsWord(Len(m.data))
  /\ m \in FileTransferCompleteMessage => FitsWord(Len(m.file_id)) /\ FitsWord(Len(m.error_message))
-----------------------------------------------------------------------------
(***************************************************************************)
(* Serialize.                                                              *)
(***************************************************************************)

\* The members of the base class, in a new buffer.
PutHeader(n, m) ==
  LET b1 == Put(NewBuffer(n), 0, <<m.type>>)
      b2 == Put(b1, 1, m.sender)
      b3 == Put(b2, 33, m.id)
  IN  Put(b3, 49, SwapBytes(m.timestamp))

SerializeChat(m) ==
  LET b == PutLength(PutHeader(61 + Len(m.content), m), 57, m.content)
  IN  Put(b, 61, m.content)

SerializeRequest(m) ==
  LET b1 == Put(PutHeader(69 + Len(m.filename), m), 57, SwapBytes(m.file_size))
      b2 == PutLength(b1, 65, m.filename)
  IN  Put(b2, 69, m.filename)

SerializeConnection(m) == Put(PutHeader(58, m), 57, <<m.status>>)

SerializeChunk(m) ==
  LET n  == Len(m.file_id)
      b1 == PutLength(PutHeader(69 + n + Len(m.data), m), 57, m.file_id)
      b2 == Put(b1, 61, m.file_id)
      b3 == Put(b2, 61 + n, SwapBytes(m.chunk_index))
      b4 == PutLength(b3, 65 + n, m.data)
  IN  Put(b4, 69 + n, m.data)

SerializeComplete(m) ==
  LET n  == Len(m.file_id)
      b1 == PutLength(PutHeader(66 + n + Len(m.error_message), m), 57, m.file_id)
      b2 == Put(b1, 61, m.file_id)
      b3 == Put(b2, 61 + n, <<IF m.success THEN 1 ELSE 0>>)
      b4 == PutLength(b3, 62 + n, m.error_message)
  IN  Put(b4, 66 + n, m.error_message)

Serialize(m) ==
  CASE m.type = CHAT_MESSAGE            -> SerializeChat(m)
    [] m.type = FILE_TRANSFER_REQUEST   -> SerializeRequest(m)
    [] m.type = CONNECTION_NOTIFICATION -> SerializeConnection(m)
    [] m.type = FILE_CHUNK              -> SerializeChunk(m)
    [] m.type = FILE_TRANSFER_COMPLETE  -> SerializeComplete(m)
-----------------------------------------------------------------------------
(***************************************************************************)
(* Deserialize.  Every class but ConnectionMessage tests the type byte.    *)
(***************************************************************************)

DeserializeChat(b) ==
  LET len == GetLength(b, 57)
  IN  IF Len(b) < 61 \/ b[1] # CHAT_MESSAGE \/ Len(b) < 61 + len
      THEN NoMessage
      ELSE [type |-> CHAT_MESSAGE, sender |-> Get(b, 1, 32), id |-> Get(b, 33, 16),
            timestamp |-> SwapBytes(Get(b, 49, 8)), content |-> Get(b, 61, len)]

\* Mutant of DeserializeRequest: the bounds test is off by one.
DeserializeRequestShort(b) ==
  LET len == GetLength(b, 65)
  IN  IF Len(b) < 69 \/ b[1] # FILE_TRANSFER_REQUEST \/ Len(b) + 1 < 69 + len
      THEN NoMessage
      ELSE [type |-> FILE_TRANSFER_REQUEST, sender |-> Get(b, 1, 32), id |-> Get(b, 33, 16),
            timestamp |-> SwapBytes(Get(b, 49, 8)),
            file_size |-> SwapBytes(Get(b, 57, 8)), filename |-> Get(b, 69, len)]

DeserializeRequest(b) ==
  LET len == GetLength(b, 65)
  IN  IF Len(b) < 69 \/ b[1] # FILE_TRANSFER_REQUEST \/ Len(b) < 69 + len
      THEN NoMessage
      ELSE [type |-> FILE_TRANSFER_REQUEST, sender |-> Get(b, 1, 32), id |-> Get(b, 33, 16),
            timestamp |-> SwapBytes(Get(b, 49, 8)),
            file_size |-> SwapBytes(Get(b, 57, 8)), filename |-> Get(b, 69, len)]

\* Mutant of DeserializeConnection: the status is taken from the next byte.
DeserializeConnectionNext(b, sender) ==
  IF Len(b) < 58
  THEN NoMessage
  ELSE [type |-> CONNECTION_NOTIFICATION, sender |-> sender, id |-> Get(b, 33, 16),
        timestamp |-> SwapBytes(Get(b, 49, 8)), status |-> Get(b, 58, 1)[1]]

\* The sender is the one the factory has read and passed to the constructor.
DeserializeConnection(b, sender) ==
  IF Len(b) < 58
  THEN NoMessage
  ELSE [type |-> CONNECTION_NOTIFICATION, sender |-> sender, id |-> Get(b, 33, 16),
        timestamp |-> SwapBytes(Get(b, 49, 8)), status |-> Get(b, 57, 1)[1]]

\* Mutant of DeserializeChunk: be32toh of the chunk index is missing.
DeserializeChunkHost(b) ==
  LET n   == GetLength(b, 57)
      len == GetLength(b, 65 + n)
  IN  IF Len(b) < 61 \/ b[1] # FILE_CHUNK \/ Len(b) < 61 + n + 8 \/ Len(b) < 61 + n + 8 + len
      THEN NoMessage
      ELSE [type |-> FILE_CHUNK, sender |-> Get(b, 1, 32), id |-> Get(b, 33, 16),
            timestamp |-> SwapBytes(Get(b, 49, 8)), file_id |-> Get(b, 61, n),
            chunk_index |-> Get(b, 61 + n, 4), data |-> Get(b, 69 + n, len)]

DeserializeChunk(b) ==
  LET n   == GetLength(b, 57)
      len == GetLength(b, 65 + n)
  IN  IF Len(b) < 61 \/ b[1] # FILE_CHUNK \/ Len(b) < 61 + n + 8 \/ Len(b) < 61 + n + 8 + len
      THEN NoMessage
      ELSE [type |-> FILE_CHUNK, sender |-> Get(b, 1, 32), id |-> Get(b, 33, 16),
            timestamp |-> SwapBytes(Get(b, 49, 8)), file_id |-> Get(b, 61, n),
            chunk_index |-> SwapBytes(Get(b, 61 + n, 4)), data |-> Get(b, 69 + n, len)]

DeserializeComplete(b) ==
  LET n   == GetLength(b, 57)
      len == GetLength(b, 62 + n)
  IN  IF Len(b) < 61 \/ b[1] # FILE_TRANSFER_COMPLETE \/ Len(b) < 61 + n + 5
          \/ Len(b) < 61 + n + 5 + len
      THEN NoMessage
      ELSE [type |-> FILE_TRANSFER_COMPLETE, sender |-> Get(b, 1, 32), id |-> Get(b, 33, 16),
            timestamp |-> SwapBytes(Get(b, 49, 8)), file_id |-> Get(b, 61, n),
            success |-> Get(b, 61 + n, 1)[1] # 0, error_message |-> Get(b, 66 + n, len)]

\* MessageFactory::CreateFromBuffer, which knows three of the five classes.
CreateFromBuffer(b) ==
  IF Len(b) < 33 THEN NoMessage
  ELSE CASE b[1] = CHAT_MESSAGE            -> DeserializeChat(b)
         [] b[1] = FILE_TRANSFER_REQUEST   -> DeserializeRequest(b)
         [] b[1] = CONNECTION_NOTIFICATION -> DeserializeConnection(b, Get(b, 1, 32))
         [] OTHER                          -> NoMessage

\* The Deserialize a message's own class would apply to a buffer.
DeserializeAs(type, b) ==
  CASE type = FILE_CHUNK             -> DeserializeChunk(b)
    [] type = FILE_TRANSFER_COMPLETE -> DeserializeComplete(b)
    [] OTHER                         -> CreateFromBuffer(b)
=============================================================================
