------------------------- MODULE MessageCodecProofs -------------------------
(***************************************************************************)
(* Facts about the binary form of messages, for every message and every    *)
(* buffer.                                                                 *)
(***************************************************************************)
EXTENDS MessageCodec, SequenceTheorems, TLAPS

(***************************************************************************)
(* Bytes, buffers and integers.                                            *)
(***************************************************************************)

\* A buffer is a function on the numbers up to its length, and conversely.
LEMMA BufferIsFunction ==
  /\ \A b \in ByteBuffer : Len(b) \in Nat /\ b \in Bytes(Len(b))
  /\ \A n \in Nat : \A b \in Bytes(n) : b \in ByteBuffer /\ Len(b) = n
BY DEF ByteBuffer, Bytes

\* Put leaves the length of a buffer, and changes the bytes it writes only.
LEMMA PutProperties ==
  ASSUME NEW b \in ByteBuffer, NEW at \in Nat, NEW s \in ByteBuffer, at + Len(s) <= Len(b)
  PROVE  /\ Put(b, at, s) \in ByteBuffer
         /\ Len(Put(b, at, s)) = Len(b)
         /\ \A i \in 1..Len(b) :
              Put(b, at, s)[i] = IF i \in at + 1 .. at + Len(s) THEN s[i - at] ELSE b[i]
<1> DEFINE p == SubSeq(b, 1, at)
           q == SubSeq(b, at + Len(s) + 1, Len(b))
<1>1. Len(b) \in Nat /\ Len(s) \in Nat
  BY BufferIsFunction
<1>2. /\ p \in ByteBuffer /\ Len(p) = at
      /\ \A i \in 1..at : p[i] = b[i]
  <2>1. \A i \in 1..at : b[i] \in Byte
    BY <1>1, BufferIsFunction DEF Bytes
  <2> QED BY <1>1, <2>1, SubSeqProperties DEF ByteBuffer
<1>3. /\ q \in ByteBuffer /\ Len(q) = Len(b) - at - Len(s)
      /\ \A i \in 1..(Len(b) - at - Len(s)) : q[i] = b[at + Len(s) + i]
  <2>1. \A i \in at + Len(s) + 1 .. Len(b) : b[i] \in Byte
    BY <1>1, BufferIsFunction DEF Bytes
  <2>2. /\ q \in ByteBuffer
        /\ Len(q) = IF at + Len(s) + 1 <= Len(b) THEN Len(b) - (at + Len(s) + 1) + 1 ELSE 0
        /\ \A i \in 1 .. Len(b) - (at + Len(s) + 1) + 1 : q[i] = b[at + Len(s) + 1 + i - 1]
    BY <1>1, <2>1, SubSeqProperties DEF ByteBuffer
  <2> QED BY <1>1, <2>2
<1>4. /\ p \o s \in ByteBuffer /\ Len(p \o s) = at + Len(s)
      /\ \A i \in 1 .. at + Len(s) : (p \o s)[i] = IF i <= at THEN p[i] ELSE s[i - at]
  BY <1>1, <1>2, ConcatProperties DEF ByteBuffer
<1> DEFINE r == p \o s
<1>5. /\ r \o q \in ByteBuffer /\ Len(r \o q) = Len(b)
      /\ \A i \in 1 .. Len(b) :
           (r \o q)[i] = IF i <= at + Len(s) THEN r[i] ELSE q[i - (at + Len(s))]
  <2> HIDE DEF p, q, r
  <2>1. r \in ByteBuffer /\ Len(r) = at + Len(s)
    BY <1>4 DEF r
  <2>2. q \in ByteBuffer /\ Len(r) + Len(q) = Len(b)
    BY <1>1, <1>3, <2>1
  <2>3. /\ r \o q \in ByteBuffer
        /\ Len(r \o q) = Len(r) + Len(q)
        /\ \A i \in 1 .. Len(r) + Len(q) :
             (r \o q)[i] = IF i <= Len(r) THEN r[i] ELSE q[i - Len(r)]
    BY <2>1, <2>2, ConcatProperties, Zenon DEF ByteBuffer
  <2> QED BY <2>1, <2>2, <2>3
<1>6. Put(b, at, s) = r \o q
  BY DEF Put
<1> HIDE DEF p, q
<1>7. ASSUME NEW i \in 1..Len(b)
      PROVE  (r \o q)[i] = IF i \in at + 1 .. at + Len(s) THEN s[i - at] ELSE b[i]
  <2>1. CASE i <= at
    BY <1>1, <1>2, <1>4, <1>5, <2>1
  <2>2. CASE i > at /\ i <= at + Len(s)
    BY <1>1, <1>4, <1>5, <2>2
  <2>3. CASE i > at + Len(s)
    <3>1. i - (at + Len(s)) \in 1..(Len(b) - at - Len(s))
      BY <1>1, <2>3
    <3> HIDE DEF r
    <3>2. (r \o q)[i] = q[i - (at + Len(s))]
      BY <1>1, <1>5, <2>3
    <3>3. q[i - (at + Len(s))] = b[at + Len(s) + (i - (at + Len(s)))]
      BY <1>3, <3>1
    <3>4. at + Len(s) + (i - (at + Len(s))) = i
      BY <1>1
    <3> QED BY <1>1, <2>3, <3>2, <3>3, <3>4
  <2>4. i <= at \/ (i > at /\ i <= at + Len(s)) \/ i > at + Len(s)
    BY <1>1
  <2> HIDE DEF r
  <2> QED BY <2>1, <2>2, <2>3, <2>4, Zenon
<1> QED BY <1>5, <1>6, <1>7

\* Get returns the bytes it is asked for when they lie in the buffer.
LEMMA GetInside ==
  ASSUME NEW b \in ByteBuffer, NEW at \in Nat, NEW n \in Nat, at + n <= Len(b)
  PROVE  /\ Get(b, at, n) \in Bytes(n)
         /\ \A i \in 1..n : Get(b, at, n)[i] = b[at + i]
<1>1. Len(b) \in Nat /\ b \in [1..Len(b) -> Byte]
  BY BufferIsFunction DEF Bytes
<1>2. \A i \in 1..n : at + i <= Len(b) /\ at + i \in 1..Len(b)
  BY <1>1
<1> QED BY <1>1, <1>2 DEF Get, Bytes

\* Two changes of the byte order are none.
LEMMA SwapTwice ==
  ASSUME NEW n \in Nat, NEW w \in Bytes(n)
  PROVE  SwapBytes(w) \in Bytes(n) /\ SwapBytes(SwapBytes(w)) = w
<1>1. Len(w) = n /\ w \in [1..n -> Byte]
  BY BufferIsFunction DEF Bytes
<1>2. SwapBytes(w) = [i \in 1..n |-> w[n - i + 1]]
  BY <1>1 DEF SwapBytes
<1>3. SwapBytes(w) \in Bytes(n)
  BY <1>1, <1>2 DEF Bytes
<1>4. Len(SwapBytes(w)) = n
  BY <1>3, BufferIsFunction
<1>5. SwapBytes(SwapBytes(w)) = [i \in 1..n |-> SwapBytes(w)[n - i + 1]]
  BY <1>4 DEF SwapBytes
<1>6. \A i \in 1..n : SwapBytes(w)[n - i + 1] = w[i]
  BY <1>1, <1>2
<1> QED BY <1>1, <1>3, <1>5, <1>6

TwoTo32 == 4294967296

\* A number below 2^32 is that of its four bytes.
LEMMA WordValue ==
  ASSUME NEW n \in Nat
  PROVE  Word(n) \in Bytes(4) /\ (n < TwoTo32 => FitsWord(n))
<1>1. Word(n) \in Bytes(4)
  BY SMT DEF Word, Bytes, Byte
<1>2. ASSUME n < TwoTo32 PROVE FitsWord(n)
  <2> DEFINE a == n \div 256
             c == a \div 256
             d == c \div 256
  <2>1. n \div 65536 = c /\ n \div 16777216 = d /\ d < 256 /\ d >= 0
    BY <1>2, SMT DEF TwoTo32
  <2> QED BY <1>2, <2>1, SMT DEF Word, Value, FitsWord
<1> QED BY <1>1, <1>2

\* What was put is got back, and bytes apart from it are not disturbed.
LEMMA GetPut ==
  ASSUME NEW b \in ByteBuffer, NEW at \in Nat, NEW s \in ByteBuffer, at + Len(s) <= Len(b)
  PROVE  /\ Get(Put(b, at, s), at, Len(s)) = s
         /\ \A o \in Nat, n \in Nat :
              o + n <= Len(b) /\ (o + n <= at \/ at + Len(s) <= o) =>
                Get(Put(b, at, s), o, n) = Get(b, o, n)
<1> DEFINE p == Put(b, at, s)
<1>1. Len(b) \in Nat /\ Len(s) \in Nat /\ s \in [1..Len(s) -> Byte]
  BY BufferIsFunction DEF Bytes
<1>2. /\ p \in ByteBuffer
      /\ Len(p) = Len(b)
      /\ \A i \in 1..Len(b) : p[i] = IF i \in at + 1 .. at + Len(s) THEN s[i - at] ELSE b[i]
  BY PutProperties
<1> HIDE DEF p
<1>3. Get(p, at, Len(s)) = s
  <2>1. /\ Get(p, at, Len(s)) \in [1..Len(s) -> Byte]
        /\ \A i \in 1..Len(s) : Get(p, at, Len(s))[i] = p[at + i]
    BY <1>1, <1>2, GetInside DEF Bytes
  <2>2. \A i \in 1..Len(s) : p[at + i] = s[i]
    <3> TAKE i \in 1..Len(s)
    <3>1. at + i \in 1..Len(b) /\ at + i \in at + 1 .. at + Len(s) /\ (at + i) - at = i
      BY <1>1
    <3> QED BY <1>2, <3>1
  <2> QED BY <1>1, <2>1, <2>2
<1>4. ASSUME NEW o \in Nat, NEW n \in Nat, o + n <= Len(b), o + n <= at \/ at + Len(s) <= o
      PROVE  Get(p, o, n) = Get(b, o, n)
  <2>2. \A i \in 1..n : p[o + i] = b[o + i]
    <3> TAKE i \in 1..n
    <3>1. o + i \in 1..Len(b) /\ o + i \notin at + 1 .. at + Len(s)
      BY <1>1, <1>4
    <3> QED BY <1>2, <3>1
  <2> QED BY <1>2, <2>2, Zenon DEF Get
<1> QED BY <1>3, <1>4 DEF p

\* The same for a field of k bytes.
LEMMA PutField ==
  ASSUME NEW b \in ByteBuffer, NEW at \in Nat, NEW k \in Nat, NEW s \in Bytes(k), at + k <= Len(b)
  PROVE  /\ Put(b, at, s) \in ByteBuffer
         /\ Len(Put(b, at, s)) = Len(b)
         /\ Get(Put(b, at, s), at, k) = s
         /\ \A o \in Nat, n \in Nat :
              o + n <= Len(b) /\ (o + n <= at \/ at + k <= o) =>
                Get(Put(b, at, s), o, n) = Get(b, o, n)
<1>1. s \in ByteBuffer /\ Len(s) = k
  BY BufferIsFunction
<1>2. at + Len(s) <= Len(b)
  BY <1>1
<1>3. Put(b, at, s) \in ByteBuffer /\ Len(Put(b, at, s)) = Len(b)
  BY <1>1, <1>2, PutProperties
<1>4. /\ Get(Put(b, at, s), at, Len(s)) = s
      /\ \A o \in Nat, n \in Nat :
           o + n <= Len(b) /\ (o + n <= at \/ at + Len(s) <= o) =>
             Get(Put(b, at, s), o, n) = Get(b, o, n)
  BY <1>1, <1>2, GetPut
<1> QED BY <1>1, <1>3, <1>4

\* A length is a number, and the one that was put.
LEMMA LengthOfWord ==
  /\ \A b \in ByteBuffer, at \in Nat : at + 4 <= Len(b) => GetLength(b, at) \in Nat
  /\ \A s \in ByteBuffer : /\ SwapBytes(Word(Len(s))) \in ByteBuffer
                           /\ Len(SwapBytes(Word(Len(s)))) = 4
                           /\ FitsWord(Len(s)) => Value(SwapBytes(SwapBytes(Word(Len(s))))) = Len(s)
<1>1. ASSUME NEW b \in ByteBuffer, NEW at \in Nat, at + 4 <= Len(b)
      PROVE  GetLength(b, at) \in Nat
  <2>1. Get(b, at, 4) \in Bytes(4)
    BY <1>1, GetInside
  <2> DEFINE w == SwapBytes(Get(b, at, 4))
  <2>2. w \in Bytes(4)
    BY <2>1, SwapTwice
  <2>3. GetLength(b, at) = Value(w)
    BY DEF GetLength
  <2> HIDE DEF w
  <2>4. w[1] \in Byte /\ w[2] \in Byte /\ w[3] \in Byte /\ w[4] \in Byte
    BY <2>2 DEF Bytes
  <2>5. Value(w) \in Nat
    <3>1. \A i \in Byte : i \in Nat
      BY DEF Byte
    <3>2. \A i, j, k, l \in Nat : i + 256 * j + 65536 * k + 16777216 * l \in Nat
      BY SMT
    <3> QED BY <2>4, <3>1, <3>2, SMT DEF Value
  <2> QED BY <2>3, <2>5
<1>2. ASSUME NEW s \in ByteBuffer
      PROVE  /\ SwapBytes(Word(Len(s))) \in ByteBuffer
             /\ Len(SwapBytes(Word(Len(s)))) = 4
             /\ FitsWord(Len(s)) => Value(SwapBytes(SwapBytes(Word(Len(s))))) = Len(s)
  <2>1. Len(s) \in Nat
    BY BufferIsFunction
  <2>2. Word(Len(s)) \in Bytes(4)
    BY <2>1, WordValue
  <2>3. SwapBytes(Word(Len(s))) \in Bytes(4)
        /\ SwapBytes(SwapBytes(Word(Len(s)))) = Word(Len(s))
    BY <2>2, SwapTwice
  <2> QED BY <2>2, <2>3, BufferIsFunction, Zenon DEF FitsWord
<1> QED BY <1>1, <1>2

(***************************************************************************)
(* The header.                                                             *)
(***************************************************************************)

\* The members of the base class, as Message has them.
Base(m) ==
  /\ m.type \in Byte
  /\ m.sender \in PeerId
  /\ m.id \in MessageId
  /\ m.timestamp \in Bytes(8)

\* The buffer begins with the header of a message.
HeaderIs(b, m) ==
  /\ Get(b, 0, 1) = <<m.type>>
  /\ Get(b, 1, 32) = m.sender
  /\ Get(b, 33, 16) = m.id
  /\ SwapBytes(Get(b, 49, 8)) = m.timestamp

\* Four fields put one behind the other are all there.
LEMMA FourFields ==
  ASSUME NEW b0 \in ByteBuffer, Len(b0) >= 57,
         NEW y \in Bytes(1), NEW p \in Bytes(32), NEW d \in Bytes(16), NEW t \in Bytes(8)
  PROVE  LET b4 == Put(Put(Put(Put(b0, 0, y), 1, p), 33, d), 49, t)
         IN  /\ b4 \in ByteBuffer /\ Len(b4) = Len(b0)
             /\ Get(b4, 0, 1) = y /\ Get(b4, 1, 32) = p /\ Get(b4, 33, 16) = d /\ Get(b4, 49, 8) = t
<1> DEFINE b1 == Put(b0, 0, y)
           b2 == Put(b1, 1, p)
           b3 == Put(b2, 33, d)
           b4 == Put(b3, 49, t)
<1>1. Len(b0) \in Nat
  BY BufferIsFunction
<1>2. b1 \in ByteBuffer /\ Len(b1) = Len(b0) /\ Get(b1, 0, 1) = y
  BY <1>1, PutField
<1> HIDE DEF b1
<1>3. /\ b2 \in ByteBuffer /\ Len(b2) = Len(b0) /\ Get(b2, 1, 32) = p
      /\ \A o \in Nat, n \in Nat : o + n <= 1 => Get(b2, o, n) = Get(b1, o, n)
  <2>1. 1 + 32 <= Len(b1) /\ \A o \in Nat, n \in Nat : o + n <= 1 => o + n <= Len(b1)
    BY <1>1, <1>2
  <2>2. b2 \in ByteBuffer /\ Len(b2) = Len(b1) /\ Get(b2, 1, 32) = p
    BY <1>2, <2>1, PutField
  <2>3. ASSUME NEW o \in Nat, NEW n \in Nat, o + n <= 1 PROVE Get(b2, o, n) = Get(b1, o, n)
    BY <1>2, <2>1, <2>3, PutField
  <2> QED BY <1>2, <2>2, <2>3
<1> HIDE DEF b2
<1>4. /\ b3 \in ByteBuffer /\ Len(b3) = Len(b0) /\ Get(b3, 33, 16) = d
      /\ \A o \in Nat, n \in Nat : o + n <= 33 => Get(b3, o, n) = Get(b2, o, n)
  <2>1. 33 + 16 <= Len(b2) /\ \A o \in Nat, n \in Nat : o + n <= 33 => o + n <= Len(b2)
    BY <1>1, <1>3
  <2>2. b3 \in ByteBuffer /\ Len(b3) = Len(b2) /\ Get(b3, 33, 16) = d
    BY <1>3, <2>1, PutField
  <2>3. ASSUME NEW o \in Nat, NEW n \in Nat, o + n <= 33 PROVE Get(b3, o, n) = Get(b2, o, n)
    BY <1>3, <2>1, <2>3, PutField
  <2> QED BY <1>3, <2>2, <2>3
<1> HIDE DEF b3
<1>5. /\ b4 \in ByteBuffer /\ Len(b4) = Len(b0) /\ Get(b4, 49, 8) = t
      /\ \A o \in Nat, n \in Nat : o + n <= 49 => Get(b4, o, n) = Get(b3, o, n)
  <2>1. 49 + 8 <= Len(b3) /\ \A o \in Nat, n \in Nat : o + n <= 49 => o + n <= Len(b3)
    BY <1>1, <1>4
  <2>2. b4 \in ByteBuffer /\ Len(b4) = Len(b3) /\ Get(b4, 49, 8) = t
    BY <1>4, <2>1, PutField
  <2>3. ASSUME NEW o \in Nat, NEW n \in Nat, o + n <= 49 PROVE Get(b4, o, n) = Get(b3, o, n)
    BY <1>4, <2>1, <2>3, PutField
  <2> QED BY <1>4, <2>2, <2>3
<1> HIDE DEF b4
<1>6. Get(b4, 0, 1) = y /\ Get(b4, 1, 32) = p /\ Get(b4, 33, 16) = d
  BY <1>2, <1>3, <1>4, <1>5
<1> QED BY <1>5, <1>6 DEF b1, b2, b3, b4

\* PutHeader writes the header.
LEMMA HeaderWritten ==
  ASSUME NEW m, Base(m), NEW n \in Nat, n >= 57
  PROVE  PutHeader(n, m) \in ByteBuffer /\ Len(PutHeader(n, m)) = n /\ HeaderIs(PutHeader(n, m), m)
<1> DEFINE b0 == NewBuffer(n)
           t  == SwapBytes(m.timestamp)
           b4 == Put(Put(Put(Put(b0, 0, <<m.type>>), 1, m.sender), 33, m.id), 49, t)
<1>1. b0 \in ByteBuffer /\ Len(b0) = n
  <2>1. b0 \in Bytes(n)
    BY DEF NewBuffer, Bytes, Byte
  <2> QED BY <2>1, BufferIsFunction
<1>2. /\ <<m.type>> \in Bytes(1) /\ m.sender \in Bytes(32) /\ m.id \in Bytes(16)
      /\ t \in Bytes(8) /\ SwapBytes(t) = m.timestamp
  <2>1. <<m.type>> \in Bytes(1)
    BY DEF Base, Bytes
  <2>2. m.sender \in Bytes(32) /\ m.id \in Bytes(16)
    BY DEF Base, PeerId, MessageId
  <2>3. t \in Bytes(8) /\ SwapBytes(t) = m.timestamp
    BY SwapTwice DEF Base
  <2> QED BY <2>1, <2>2, <2>3
<1>3. PutHeader(n, m) = b4
  BY DEF PutHeader
<1> HIDE DEF b0, t
<1>4. /\ b4 \in ByteBuffer /\ Len(b4) = Len(b0)
      /\ Get(b4, 0, 1) = <<m.type>> /\ Get(b4, 1, 32) = m.sender /\ Get(b4, 33, 16) = m.id
      /\ Get(b4, 49, 8) = t
  BY <1>1, <1>2, FourFields
<1> HIDE DEF b4
<1> QED BY <1>1, <1>2, <1>3, <1>4 DEF HeaderIs

\* What is put behind the header leaves it as it is.
LEMMA HeaderKept ==
  ASSUME NEW m, NEW b \in ByteBuffer, HeaderIs(b, m),
         NEW at \in Nat, at >= 57, NEW k \in Nat, NEW s \in Bytes(k), at + k <= Len(b)
  PROVE  HeaderIs(Put(b, at, s), m)
<1>1. Len(b) \in Nat
  BY BufferIsFunction
<1>2. \A o \in Nat, n \in Nat : o + n <= 57 => Get(Put(b, at, s), o, n) = Get(b, o, n)
  <2>1. \A o \in Nat, n \in Nat : o + n <= 57 => o + n <= Len(b) /\ o + n <= at
    BY <1>1
  <2> QED BY <2>1, PutField
<1> QED BY <1>2 DEF HeaderIs

(***************************************************************************)
(* Reads stay in the buffer.                                               *)
(***************************************************************************)

\* What Deserialize makes of the header of a buffer has the types of Message.
LEMMA HeaderRead ==
  ASSUME NEW b \in ByteBuffer, Len(b) >= 57
  PROVE  /\ Get(b, 1, 32) \in PeerId
         /\ Get(b, 33, 16) \in MessageId
         /\ SwapBytes(Get(b, 49, 8)) \in Bytes(8)
<1>1. Len(b) \in Nat
  BY BufferIsFunction
<1>2. \A o \in Nat, n \in Nat : o + n <= 57 => Get(b, o, n) \in Bytes(n)
  <2>1. \A o \in Nat, n \in Nat : o + n <= 57 => o + n <= Len(b)
    BY <1>1
  <2> QED BY <2>1, GetInside
<1>3. Get(b, 1, 32) \in Bytes(32) /\ Get(b, 33, 16) \in Bytes(16) /\ Get(b, 49, 8) \in Bytes(8)
  BY <1>2
<1> QED BY <1>3, SwapTwice DEF PeerId, MessageId

\* ChatMessage::Deserialize reads no byte beyond the end, whatever the buffer.
LEMMA ChatInBounds ==
  ASSUME NEW b \in ByteBuffer
  PROVE  DeserializeChat(b) \in ChatMessage \cup {NoMessage}
<1> DEFINE len == GetLength(b, 57)
<1> SUFFICES ASSUME Len(b) >= 61, ~(Len(b) < 61 + len)
             PROVE  [type |-> CHAT_MESSAGE, sender |-> Get(b, 1, 32), id |-> Get(b, 33, 16),
                     timestamp |-> SwapBytes(Get(b, 49, 8)), content |-> Get(b, 61, len)]
                       \in ChatMessage
  <2>1. Len(b) \in Nat
    BY BufferIsFunction
  <2> QED BY <2>1 DEF DeserializeChat
<1>1. Len(b) \in Nat /\ len \in Nat
  BY BufferIsFunction, LengthOfWord
<1> HIDE DEF len
<1>2. Get(b, 61, len) \in ByteBuffer
  BY <1>1, GetInside, BufferIsFunction
<1>3. Get(b, 1, 32) \in PeerId /\ Get(b, 33, 16) \in MessageId /\ SwapBytes(Get(b, 49, 8)) \in Bytes(8)
  BY <1>1, HeaderRead
<1> QED BY <1>2, <1>3 DEF ChatMessage

\* FileTransferRequestMessage::Deserialize reads no byte beyond the end.
LEMMA RequestInBounds ==
  ASSUME NEW b \in ByteBuffer
  PROVE  DeserializeRequest(b) \in FileTransferRequestMessage \cup {NoMessage}
<1> DEFINE len == GetLength(b, 65)
<1> SUFFICES ASSUME Len(b) >= 69, ~(Len(b) < 69 + len)
             PROVE  [type |-> FILE_TRANSFER_REQUEST, sender |-> Get(b, 1, 32), id |-> Get(b, 33, 16),
                     timestamp |-> SwapBytes(Get(b, 49, 8)),
                     file_size |-> SwapBytes(Get(b, 57, 8)), filename |-> Get(b, 69, len)]
                       \in FileTransferRequestMessage
  <2>1. Len(b) \in Nat
    BY BufferIsFunction
  <2> QED BY <2>1 DEF DeserializeRequest
<1>1. Len(b) \in Nat /\ len \in Nat
  BY BufferIsFunction, LengthOfWord
<1> HIDE DEF len
<1>2. Get(b, 69, len) \in ByteBuffer
  BY <1>1, GetInside, BufferIsFunction
<1>3. Get(b, 1, 32) \in PeerId /\ Get(b, 33, 16) \in MessageId /\ SwapBytes(Get(b, 49, 8)) \in Bytes(8)
  BY <1>1, HeaderRead
<1>4. SwapBytes(Get(b, 57, 8)) \in Bytes(8)
  BY <1>1, GetInside, SwapTwice
<1> QED BY <1>2, <1>3, <1>4 DEF FileTransferRequestMessage

\* ConnectionMessage::Deserialize reads no byte beyond the end.
LEMMA ConnectionInBounds ==
  ASSUME NEW b \in ByteBuffer, NEW sender \in PeerId
  PROVE  DeserializeConnection(b, sender) \in ConnectionMessage \cup {NoMessage}
<1> SUFFICES ASSUME Len(b) >= 58
             PROVE  [type |-> CONNECTION_NOTIFICATION, sender |-> sender, id |-> Get(b, 33, 16),
                     timestamp |-> SwapBytes(Get(b, 49, 8)), status |-> Get(b, 57, 1)[1]]
                       \in ConnectionMessage
  <2>1. Len(b) \in Nat
    BY BufferIsFunction
  <2> QED BY <2>1 DEF DeserializeConnection
<1>1. Len(b) \in Nat
  BY BufferIsFunction
<1>2. Get(b, 33, 16) \in MessageId /\ SwapBytes(Get(b, 49, 8)) \in Bytes(8)
  BY <1>1, HeaderRead
<1>3. Get(b, 57, 1)[1] \in Byte
  <2>1. Get(b, 57, 1) \in Bytes(1)
    BY <1>1, GetInside
  <2> QED BY <2>1 DEF Bytes
<1> QED BY <1>2, <1>3 DEF ConnectionMessage

\* FileChunkMessage::Deserialize reads no byte beyond the end: each of its two
\* lengths is read behind a test that it lies in the buffer.
LEMMA ChunkInBounds ==
  ASSUME NEW b \in ByteBuffer
  PROVE  DeserializeChunk(b) \in FileChunkMessage \cup {NoMessage}
<1> DEFINE n == GetLength(b, 57)
           len == GetLength(b, 65 + n)
<1> SUFFICES ASSUME Len(b) >= 61, ~(Len(b) < 61 + n + 8), ~(Len(b) < 61 + n + 8 + len)
             PROVE  [type |-> FILE_CHUNK, sender |-> Get(b, 1, 32), id |-> Get(b, 33, 16),
                     timestamp |-> SwapBytes(Get(b, 49, 8)), file_id |-> Get(b, 61, n),
                     chunk_index |-> SwapBytes(Get(b, 61 + n, 4)), data |-> Get(b, 69 + n, len)]
                       \in FileChunkMessage
  <2>1. Len(b) \in Nat
    BY BufferIsFunction
  <2> QED BY <2>1 DEF DeserializeChunk
<1>1. Len(b) \in Nat /\ n \in Nat
  BY BufferIsFunction, LengthOfWord
<1> HIDE DEF n
<1>2. len \in Nat
  <2>1. 65 + n \in Nat /\ (65 + n) + 4 <= Len(b)
    BY <1>1
  <2> QED BY <2>1, LengthOfWord
<1> HIDE DEF len
<1>3. 61 + n <= Len(b) /\ (61 + n) + 4 <= Len(b) /\ (69 + n) + len <= Len(b)
      /\ 61 + n \in Nat /\ 69 + n \in Nat
  BY <1>1, <1>2
<1>4. Get(b, 61, n) \in ByteBuffer
  BY <1>1, <1>3, GetInside, BufferIsFunction
<1>5. Get(b, 69 + n, len) \in ByteBuffer
  BY <1>2, <1>3, GetInside, BufferIsFunction
<1>6. SwapBytes(Get(b, 61 + n, 4)) \in Bytes(4)
  BY <1>3, GetInside, SwapTwice
<1>7. Get(b, 1, 32) \in PeerId /\ Get(b, 33, 16) \in MessageId /\ SwapBytes(Get(b, 49, 8)) \in Bytes(8)
  BY <1>1, HeaderRead
<1> QED BY <1>4, <1>5, <1>6, <1>7 DEF FileChunkMessage

\* FileTransferCompleteMessage::Deserialize reads no byte beyond the end.
LEMMA CompleteInBounds ==
  ASSUME NEW b \in ByteBuffer
  PROVE  DeserializeComplete(b) \in FileTransferCompleteMessage \cup {NoMessage}
<1> DEFINE n == GetLength(b, 57)
           len == GetLength(b, 62 + n)
<1> SUFFICES ASSUME Len(b) >= 61, ~(Len(b) < 61 + n + 5), ~(Len(b) < 61 + n + 5 + len)
             PROVE  [type |-> FILE_TRANSFER_COMPLETE, sender |-> Get(b, 1, 32), id |-> Get(b, 33, 16),
                     timestamp |-> SwapBytes(Get(b, 49, 8)), file_id |-> Get(b, 61, n),
                     success |-> Get(b, 61 + n, 1)[1] # 0, error_message |-> Get(b, 66 + n, len)]
                       \in FileTransferCompleteMessage
  <2>1. Len(b) \in Nat
    BY BufferIsFunction
  <2> QED BY <2>1 DEF DeserializeComplete
<1>1. Len(b) \in Nat /\ n \in Nat
  BY BufferIsFunction, LengthOfWord
<1> HIDE DEF n
<1>2. len \in Nat
  <2>1. 62 + n \in Nat /\ (62 + n) + 4 <= Len(b)
    BY <1>1
  <2> QED BY <2>1, LengthOfWord
<1> HIDE DEF len
<1>3. 61 + n <= Len(b) /\ (66 + n) + len <= Len(b) /\ 66 + n \in Nat
  BY <1>1, <1>2
<1>4. Get(b, 61, n) \in ByteBuffer
  BY <1>1, <1>3, GetInside, BufferIsFunction
<1>5. Get(b, 66 + n, len) \in ByteBuffer
  BY <1>2, <1>3, GetInside, BufferIsFunction
<1>6. Get(b, 1, 32) \in PeerId /\ Get(b, 33, 16) \in MessageId /\ SwapBytes(Get(b, 49, 8)) \in Bytes(8)
  BY <1>1, HeaderRead
<1>7. (Get(b, 61 + n, 1)[1] # 0) \in BOOLEAN
  OBVIOUS
<1> QED BY <1>4, <1>5, <1>6, <1>7 DEF FileTransferCompleteMessage

\* Whatever the bytes of a buffer, CreateFromBuffer makes of them a whole
\* message of one of its three classes or none, and so do the two classes of
\* file transfer: no Deserialize reads beyond the end of its buffer.
THEOREM DecodingInBounds ==
  ASSUME NEW b \in ByteBuffer
  PROVE  /\ CreateFromBuffer(b) \in FactoryMessage \cup {NoMessage}
         /\ DeserializeChunk(b) \in FileChunkMessage \cup {NoMessage}
         /\ DeserializeComplete(b) \in FileTransferCompleteMessage \cup {NoMessage}
<1>1. CreateFromBuffer(b) \in FactoryMessage \cup {NoMessage}
  <2>1. Len(b) \in Nat
    BY BufferIsFunction
  <2> SUFFICES ASSUME Len(b) >= 33
               PROVE  CreateFromBuffer(b) \in FactoryMessage \cup {NoMessage}
    BY <2>1 DEF CreateFromBuffer
  <2>2. Get(b, 1, 32) \in PeerId
    BY <2>1, GetInside DEF PeerId
  <2>3. DeserializeChat(b) \in ChatMessage \cup {NoMessage}
    BY ChatInBounds
  <2>4. DeserializeRequest(b) \in FileTransferRequestMessage \cup {NoMessage}
    BY RequestInBounds
  <2>5. DeserializeConnection(b, Get(b, 1, 32)) \in ConnectionMessage \cup {NoMessage}
    BY <2>2, ConnectionInBounds
  <2>6. CASE b[1] = CHAT_MESSAGE
    BY <2>1, <2>3, <2>6 DEF CreateFromBuffer, FactoryMessage, CHAT_MESSAGE, FILE_TRANSFER_REQUEST, CONNECTION_NOTIFICATION
  <2>7. CASE b[1] = FILE_TRANSFER_REQUEST
    BY <2>1, <2>4, <2>7 DEF CreateFromBuffer, FactoryMessage, CHAT_MESSAGE, FILE_TRANSFER_REQUEST, CONNECTION_NOTIFICATION
  <2>8. CASE b[1] = CONNECTION_NOTIFICATION
    BY <2>1, <2>5, <2>8 DEF CreateFromBuffer, FactoryMessage, CHAT_MESSAGE, FILE_TRANSFER_REQUEST, CONNECTION_NOTIFICATION
  <2>9. CASE b[1] \notin {CHAT_MESSAGE, FILE_TRANSFER_REQUEST, CONNECTION_NOTIFICATION}
    BY <2>1, <2>9 DEF CreateFromBuffer, FactoryMessage
  <2> QED BY <2>6, <2>7, <2>8, <2>9
<1> QED BY <1>1, ChunkInBounds, CompleteInBounds

(***************************************************************************)
(* What is serialised is deserialised.                                     *)
(***************************************************************************)

\* One more field behind the header.
LEMMA NextField ==
  ASSUME NEW m, NEW b \in ByteBuffer, HeaderIs(b, m),
         NEW at \in Nat, at >= 57, NEW k \in Nat, NEW s \in Bytes(k), at + k <= Len(b)
  PROVE  /\ Put(b, at, s) \in ByteBuffer
         /\ Len(Put(b, at, s)) = Len(b)
         /\ HeaderIs(Put(b, at, s), m)
         /\ Get(Put(b, at, s), at, k) = s
         /\ \A o \in Nat, n \in Nat : o + n <= at => Get(Put(b, at, s), o, n) = Get(b, o, n)
<1>1. Len(b) \in Nat
  BY BufferIsFunction
<1>2. \A o \in Nat, n \in Nat : o + n <= at => o + n <= Len(b)
  BY <1>1
<1>3. HeaderIs(Put(b, at, s), m)
  BY HeaderKept
<1> QED BY <1>2, <1>3, PutField

\* The word PutLength writes is four bytes long and stands for the length.
LEMMA LengthWord ==
  ASSUME NEW s \in ByteBuffer, FitsWord(Len(s))
  PROVE  /\ SwapBytes(Word(Len(s))) \in Bytes(4)
         /\ \A b, at : Get(b, at, 4) = SwapBytes(Word(Len(s))) => GetLength(b, at) = Len(s)
<1>1. Len(s) \in Nat
  BY BufferIsFunction
<1>2. Word(Len(s)) \in Bytes(4)
  BY <1>1, WordValue
<1>3. SwapBytes(Word(Len(s))) \in Bytes(4)
  BY <1>2, SwapTwice
<1> QED BY <1>3, LengthOfWord DEF GetLength

\* The first byte is the type, for any reader of the header.
LEMMA HeaderType ==
  ASSUME NEW m, NEW b \in ByteBuffer, HeaderIs(b, m), Len(b) >= 57
  PROVE  b[1] = m.type
<1>1. Len(b) \in Nat
  BY BufferIsFunction
<1>2. Get(b, 0, 1)[1] = b[1]
  BY <1>1 DEF Get
<1> QED BY <1>2 DEF HeaderIs

\* The members of the base class of every message.
LEMMA MessageBase == \A m \in Message : Base(m)
<1> SUFFICES ASSUME NEW m \in Message PROVE Base(m)
  OBVIOUS
<1>1. CASE m \in ChatMessage
  BY <1>1 DEF ChatMessage, Base, Byte, CHAT_MESSAGE
<1>2. CASE m \in FileTransferRequestMessage
  BY <1>2 DEF FileTransferRequestMessage, Base, Byte, FILE_TRANSFER_REQUEST
<1>3. CASE m \in ConnectionMessage
  BY <1>3 DEF ConnectionMessage, Base, Byte, CONNECTION_NOTIFICATION
<1>4. CASE m \in FileChunkMessage
  BY <1>4 DEF FileChunkMessage, Base, Byte, FILE_CHUNK
<1>5. CASE m \in FileTransferCompleteMessage
  BY <1>5 DEF FileTransferCompleteMessage, Base, Byte, FILE_TRANSFER_COMPLETE
<1> QED BY <1>1, <1>2, <1>3, <1>4, <1>5 DEF Message, FactoryMessage

\* What ChatMessage::Serialize writes, member by member.
LEMMA ChatWritten ==
  ASSUME NEW m \in ChatMessage, FitsWord(Len(m.content))
  PROVE  LET b == SerializeChat(m)
         IN  /\ b \in ByteBuffer /\ Len(b) = 61 + Len(m.content) /\ HeaderIs(b, m)
             /\ GetLength(b, 57) = Len(m.content) /\ Get(b, 61, Len(m.content)) = m.content
<1> DEFINE c == m.content
           l == Len(c)
           w == SwapBytes(Word(l))
           h == PutHeader(61 + l, m)
           b1 == Put(h, 57, w)
           b2 == Put(b1, 61, c)
<1>1. c \in ByteBuffer /\ l \in Nat /\ c \in Bytes(l)
  <2>1. c \in ByteBuffer
    BY DEF ChatMessage
  <2> QED BY <2>1, BufferIsFunction
<1>2. SerializeChat(m) = b2
  BY DEF SerializeChat, PutLength
<1>3. w \in Bytes(4) /\ \A b, at : Get(b, at, 4) = w => GetLength(b, at) = l
  BY <1>1, LengthWord
<1>4. h \in ByteBuffer /\ Len(h) = 61 + l /\ HeaderIs(h, m)
  <2>1. Base(m)
    BY MessageBase DEF Message, FactoryMessage
  <2> QED BY <1>1, <2>1, HeaderWritten
<1> HIDE DEF c, l, w, h
<1>5. b1 \in ByteBuffer /\ Len(b1) = 61 + l /\ HeaderIs(b1, m) /\ Get(b1, 57, 4) = w
  BY <1>1, <1>3, <1>4, NextField
<1> HIDE DEF b1
<1>6. /\ b2 \in ByteBuffer /\ Len(b2) = 61 + l /\ HeaderIs(b2, m) /\ Get(b2, 61, l) = c
      /\ Get(b2, 57, 4) = Get(b1, 57, 4)
  BY <1>1, <1>5, NextField
<1> HIDE DEF b2
<1> QED BY <1>2, <1>3, <1>5, <1>6 DEF c, l

\* What FileTransferRequestMessage::Serialize writes, member by member.
LEMMA RequestWritten ==
  ASSUME NEW m \in FileTransferRequestMessage, FitsWord(Len(m.filename))
  PROVE  LET b == SerializeRequest(m)
         IN  /\ b \in ByteBuffer /\ Len(b) = 69 + Len(m.filename) /\ HeaderIs(b, m)
             /\ SwapBytes(Get(b, 57, 8)) = m.file_size
             /\ GetLength(b, 65) = Len(m.filename) /\ Get(b, 69, Len(m.filename)) = m.filename
<1> DEFINE c == m.filename
           l == Len(c)
           w == SwapBytes(Word(l))
           z == SwapBytes(m.file_size)
           h == PutHeader(69 + l, m)
           b1 == Put(h, 57, z)
           b2 == Put(b1, 65, w)
           b3 == Put(b2, 69, c)
<1>1. c \in ByteBuffer /\ l \in Nat /\ c \in Bytes(l)
  <2>1. c \in ByteBuffer
    BY DEF FileTransferRequestMessage
  <2> QED BY <2>1, BufferIsFunction
<1>2. SerializeRequest(m) = b3
  BY DEF SerializeRequest, PutLength
<1>3. w \in Bytes(4) /\ \A b, at : Get(b, at, 4) = w => GetLength(b, at) = l
  BY <1>1, LengthWord
<1>4. z \in Bytes(8) /\ SwapBytes(z) = m.file_size
  <2>1. m.file_size \in Bytes(8)
    BY DEF FileTransferRequestMessage
  <2> QED BY <2>1, SwapTwice
<1>5. h \in ByteBuffer /\ Len(h) = 69 + l /\ HeaderIs(h, m)
  <2>1. Base(m)
    BY MessageBase DEF Message, FactoryMessage
  <2> QED BY <1>1, <2>1, HeaderWritten
<1> HIDE DEF c, l, w, h, z
<1>6. b1 \in ByteBuffer /\ Len(b1) = 69 + l /\ HeaderIs(b1, m) /\ Get(b1, 57, 8) = z
  BY <1>1, <1>4, <1>5, NextField
<1> HIDE DEF b1
<1>7. /\ b2 \in ByteBuffer /\ Len(b2) = 69 + l /\ HeaderIs(b2, m) /\ Get(b2, 65, 4) = w
      /\ Get(b2, 57, 8) = Get(b1, 57, 8)
  BY <1>1, <1>3, <1>6, NextField
<1> HIDE DEF b2
<1>8. /\ b3 \in ByteBuffer /\ Len(b3) = 69 + l /\ HeaderIs(b3, m) /\ Get(b3, 69, l) = c
      /\ Get(b3, 57, 8) = Get(b2, 57, 8) /\ Get(b3, 65, 4) = Get(b2, 65, 4)
  BY <1>1, <1>7, NextField
<1> HIDE DEF b3
<1> QED BY <1>2, <1>3, <1>4, <1>6, <1>7, <1>8 DEF c, l

\* What ConnectionMessage::Serialize writes, member by member.
LEMMA ConnectionWritten ==
  ASSUME NEW m \in ConnectionMessage
  PROVE  LET b == SerializeConnection(m)
         IN  /\ b \in ByteBuffer /\ Len(b) = 58 /\ HeaderIs(b, m) /\ Get(b, 57, 1) = <<m.status>>
<1> DEFINE c == <<m.status>>
           h == PutHeader(58, m)
<1>1. c \in Bytes(1)
  BY DEF ConnectionMessage, Bytes
<1>2. h \in ByteBuffer /\ Len(h) = 58 /\ HeaderIs(h, m)
  <2>1. Base(m)
    BY MessageBase DEF Message, FactoryMessage
  <2> DEFINE size == 58
  <2>2. size \in Nat /\ size >= 57
    OBVIOUS
  <2> HIDE DEF size
  <2>3. PutHeader(size, m) \in ByteBuffer /\ Len(PutHeader(size, m)) = size /\ HeaderIs(PutHeader(size, m), m)
    BY <2>1, <2>2, HeaderWritten
  <2> QED BY <2>3 DEF size
<1>3. SerializeConnection(m) = Put(h, 57, c)
  BY DEF SerializeConnection
<1> HIDE DEF c, h
<1>4. /\ Put(h, 57, c) \in ByteBuffer /\ Len(Put(h, 57, c)) = 58 /\ HeaderIs(Put(h, 57, c), m)
      /\ Get(Put(h, 57, c), 57, 1) = c
  <2> DEFINE at == 57
             k == 1
  <2>1. at \in Nat /\ at >= 57 /\ k \in Nat /\ at + k <= Len(h) /\ c \in Bytes(k)
    BY <1>1, <1>2
  <2> HIDE DEF at, k
  <2>2. h \in ByteBuffer /\ HeaderIs(h, m)
    BY <1>2
  <2>3. /\ Put(h, at, c) \in ByteBuffer /\ Len(Put(h, at, c)) = Len(h) /\ HeaderIs(Put(h, at, c), m)
        /\ Get(Put(h, at, c), at, k) = c
    BY <2>1, <2>2, NextField
  <2> QED BY <1>2, <2>3 DEF at, k
<1> QED BY <1>3, <1>4 DEF c

\* What FileChunkMessage::Serialize writes, member by member.
LEMMA ChunkWritten ==
  ASSUME NEW m \in FileChunkMessage, FitsWord(Len(m.file_id)), FitsWord(Len(m.data))
  PROVE  LET b == SerializeChunk(m)
             n == Len(m.file_id)
         IN  /\ b \in ByteBuffer /\ Len(b) = 69 + n + Len(m.data) /\ HeaderIs(b, m)
             /\ GetLength(b, 57) = n /\ Get(b, 61, n) = m.file_id
             /\ SwapBytes(Get(b, 61 + n, 4)) = m.chunk_index
             /\ GetLength(b, 65 + n) = Len(m.data) /\ Get(b, 69 + n, Len(m.data)) = m.data
<1> DEFINE f == m.file_id
           n == Len(f)
           v == SwapBytes(Word(n))
           x == SwapBytes(m.chunk_index)
           c == m.data
           l == Len(c)
           w == SwapBytes(Word(l))
           h == PutHeader(69 + n + l, m)
           b1 == Put(h, 57, v)
           b2 == Put(b1, 61, f)
           b3 == Put(b2, 61 + n, x)
           b4 == Put(b3, 65 + n, w)
           b5 == Put(b4, 69 + n, c)
<1>1. c \in ByteBuffer /\ l \in Nat /\ c \in Bytes(l) /\ f \in ByteBuffer /\ n \in Nat /\ f \in Bytes(n)
  <2>1. c \in ByteBuffer /\ f \in ByteBuffer
    BY DEF FileChunkMessage
  <2> QED BY <2>1, BufferIsFunction
<1>2. SerializeChunk(m) = b5
  BY DEF SerializeChunk, PutLength
<1>3. w \in Bytes(4) /\ \A b, at : Get(b, at, 4) = w => GetLength(b, at) = l
  BY <1>1, LengthWord
<1>4. v \in Bytes(4) /\ \A b, at : Get(b, at, 4) = v => GetLength(b, at) = n
  BY <1>1, LengthWord
<1>5. x \in Bytes(4) /\ SwapBytes(x) = m.chunk_index
  <2>1. m.chunk_index \in Bytes(4)
    BY DEF FileChunkMessage
  <2> QED BY <2>1, SwapTwice
<1>6. h \in ByteBuffer /\ Len(h) = 69 + n + l /\ HeaderIs(h, m)
  <2>1. Base(m)
    BY MessageBase DEF Message
  <2> HIDE DEF f, n, c, l
  <2> DEFINE size == 69 + n + l
  <2>2. size \in Nat /\ size >= 57
    BY <1>1
  <2> HIDE DEF size
  <2>3. PutHeader(size, m) \in ByteBuffer /\ Len(PutHeader(size, m)) = size /\ HeaderIs(PutHeader(size, m), m)
    BY <2>1, <2>2, HeaderWritten
  <2> QED BY <2>3 DEF size
<1> HIDE DEF f, n, v, x, c, l, w, h
<1>7. b1 \in ByteBuffer /\ Len(b1) = 69 + n + l /\ HeaderIs(b1, m) /\ Get(b1, 57, 4) = v
  BY <1>1, <1>4, <1>6, NextField
<1> HIDE DEF b1
<1>8. /\ b2 \in ByteBuffer /\ Len(b2) = 69 + n + l /\ HeaderIs(b2, m) /\ Get(b2, 61, n) = f
      /\ Get(b2, 57, 4) = Get(b1, 57, 4)
  BY <1>1, <1>7, NextField
<1> HIDE DEF b2
<1>9. /\ b3 \in ByteBuffer /\ Len(b3) = 69 + n + l /\ HeaderIs(b3, m) /\ Get(b3, 61 + n, 4) = x
      /\ \A o \in Nat, k \in Nat : o + k <= 61 + n => Get(b3, o, k) = Get(b2, o, k)
  BY <1>1, <1>5, <1>8, NextField
<1> HIDE DEF b3
<1>10. /\ b4 \in ByteBuffer /\ Len(b4) = 69 + n + l /\ HeaderIs(b4, m) /\ Get(b4, 65 + n, 4) = w
       /\ \A o \in Nat, k \in Nat : o + k <= 65 + n => Get(b4, o, k) = Get(b3, o, k)
  BY <1>1, <1>3, <1>9, NextField
<1> HIDE DEF b4
<1>11. /\ b5 \in ByteBuffer /\ Len(b5) = 69 + n + l /\ HeaderIs(b5, m) /\ Get(b5, 69 + n, l) = c
       /\ \A o \in Nat, k \in Nat : o + k <= 69 + n => Get(b5, o, k) = Get(b4, o, k)
  BY <1>1, <1>10, NextField
<1> HIDE DEF b5
<1>12. Get(b5, 57, 4) = v /\ Get(b5, 61, n) = f /\ Get(b5, 61 + n, 4) = x /\ Get(b5, 65 + n, 4) = w
  BY <1>1, <1>7, <1>8, <1>9, <1>10, <1>11
<1>13. GetLength(b5, 57) = n /\ GetLength(b5, 65 + n) = l
  BY <1>3, <1>4, <1>12
<1> QED BY <1>2, <1>5, <1>11, <1>12, <1>13 DEF f, n, c, l

\* What FileTransferCompleteMessage::Serialize writes, member by member.
LEMMA CompleteWritten ==
  ASSUME NEW m \in FileTransferCompleteMessage,
         FitsWord(Len(m.file_id)), FitsWord(Len(m.error_message))
  PROVE  LET b == SerializeComplete(m)
             n == Len(m.file_id)
         IN  /\ b \in ByteBuffer /\ Len(b) = 66 + n + Len(m.error_message) /\ HeaderIs(b, m)
             /\ GetLength(b, 57) = n /\ Get(b, 61, n) = m.file_id
             /\ Get(b, 61 + n, 1) = <<IF m.success THEN 1 ELSE 0>>
             /\ GetLength(b, 62 + n) = Len(m.error_message)
             /\ Get(b, 66 + n, Len(m.error_message)) = m.error_message
<1> DEFINE f == m.file_id
           n == Len(f)
           v == SwapBytes(Word(n))
           x == <<IF m.success THEN 1 ELSE 0>>
           c == m.error_message
           l == Len(c)
           w == SwapBytes(Word(l))
           h == PutHeader(66 + n + l, m)
           b1 == Put(h, 57, v)
           b2 == Put(b1, 61, f)
           b3 == Put(b2, 61 + n, x)
           b4 == Put(b3, 62 + n, w)
           b5 == Put(b4, 66 + n, c)
<1>1. c \in ByteBuffer /\ l \in Nat /\ c \in Bytes(l) /\ f \in ByteBuffer /\ n \in Nat /\ f \in Bytes(n)
  <2>1. c \in ByteBuffer /\ f \in ByteBuffer
    BY DEF FileTransferCompleteMessage
  <2> QED BY <2>1, BufferIsFunction
<1>2. SerializeComplete(m) = b5
  BY DEF SerializeComplete, PutLength
<1>3. w \in Bytes(4) /\ \A b, at : Get(b, at, 4) = w => GetLength(b, at) = l
  BY <1>1, LengthWord
<1>4. v \in Bytes(4) /\ \A b, at : Get(b, at, 4) = v => GetLength(b, at) = n
  BY <1>1, LengthWord
<1>5. x \in Bytes(1)
  BY DEF Bytes, Byte
<1>6. h \in ByteBuffer /\ Len(h) = 66 + n + l /\ HeaderIs(h, m)
  <2>1. Base(m)
    BY MessageBase DEF Message
  <2> HIDE DEF f, n, c, l
  <2> DEFINE size == 66 + n + l
  <2>2. size \in Nat /\ size >= 57
    BY <1>1
  <2> HIDE DEF size
  <2>3. PutHeader(size, m) \in ByteBuffer /\ Len(PutHeader(size, m)) = size /\ HeaderIs(PutHeader(size, m), m)
    BY <2>1, <2>2, HeaderWritten
  <2> QED BY <2>3 DEF size
<1> HIDE DEF f, n, v, x, c, l, w, h
<1>7. b1 \in ByteBuffer /\ Len(b1) = 66 + n + l /\ HeaderIs(b1, m) /\ Get(b1, 57, 4) = v
  BY <1>1, <1>4, <1>6, NextField
<1> HIDE DEF b1
<1>8. /\ b2 \in ByteBuffer /\ Len(b2) = 66 + n + l /\ HeaderIs(b2, m) /\ Get(b2, 61, n) = f
      /\ Get(b2, 57, 4) = Get(b1, 57, 4)
  BY <1>1, <1>7, NextField
<1> HIDE DEF b2
<1>9. /\ b3 \in ByteBuffer /\ Len(b3) = 66 + n + l /\ HeaderIs(b3, m) /\ Get(b3, 61 + n, 1) = x
      /\ \A o \in Nat, k \in Nat : o + k <= 61 + n => Get(b3, o, k) = Get(b2, o, k)
  BY <1>1, <1>5, <1>8, NextField
<1> HIDE DEF b3
<1>10. /\ b4 \in ByteBuffer /\ Len(b4) = 66 + n + l /\ HeaderIs(b4, m) /\ Get(b4, 62 + n, 4) = w
       /\ \A o \in Nat, k \in Nat : o + k <= 62 + n => Get(b4, o, k) = Get(b3, o, k)
  BY <1>1, <1>3, <1>9, NextField
<1> HIDE DEF b4
<1>11. /\ b5 \in ByteBuffer /\ Len(b5) = 66 + n + l /\ HeaderIs(b5, m) /\ Get(b5, 66 + n, l) = c
       /\ \A o \in Nat, k \in Nat : o + k <= 66 + n => Get(b5, o, k) = Get(b4, o, k)
  BY <1>1, <1>10, NextField
<1> HIDE DEF b5
<1>12. Get(b5, 57, 4) = v /\ Get(b5, 61, n) = f /\ Get(b5, 61 + n, 1) = x /\ Get(b5, 62 + n, 4) = w
  BY <1>1, <1>7, <1>8, <1>9, <1>10, <1>11
<1>13. GetLength(b5, 57) = n /\ GetLength(b5, 62 + n) = l
  BY <1>3, <1>4, <1>12
<1> QED BY <1>2, <1>11, <1>12, <1>13 DEF f, n, c, l, x

\* The Deserialize that CreateFromBuffer chooses.
LEMMA FactoryChoice ==
  ASSUME NEW b \in ByteBuffer, Len(b) >= 33
  PROVE  /\ b[1] = CHAT_MESSAGE => CreateFromBuffer(b) = DeserializeChat(b)
         /\ b[1] = FILE_TRANSFER_REQUEST => CreateFromBuffer(b) = DeserializeRequest(b)
         /\ b[1] = CONNECTION_NOTIFICATION =>
              CreateFromBuffer(b) = DeserializeConnection(b, Get(b, 1, 32))
<1>1. Len(b) \in Nat /\ ~(Len(b) < 33)
  BY BufferIsFunction
<1>2. CHAT_MESSAGE # FILE_TRANSFER_REQUEST /\ CHAT_MESSAGE # CONNECTION_NOTIFICATION
        /\ FILE_TRANSFER_REQUEST # CONNECTION_NOTIFICATION
  BY DEF CHAT_MESSAGE, FILE_TRANSFER_REQUEST, CONNECTION_NOTIFICATION
<1> QED BY <1>1, <1>2 DEF CreateFromBuffer

\* A chat message comes back as it was.
LEMMA ChatRoundTrip ==
  ASSUME NEW m \in ChatMessage, Fits(m)
  PROVE  CreateFromBuffer(SerializeChat(m)) = m
<1> DEFINE b == SerializeChat(m)
           l == Len(m.content)
<1>1. /\ b \in ByteBuffer /\ Len(b) = 61 + l /\ HeaderIs(b, m)
      /\ GetLength(b, 57) = l /\ Get(b, 61, l) = m.content
  BY ChatWritten DEF Fits
<1>2. l \in Nat
  BY BufferIsFunction DEF ChatMessage
<1>3. m.type = CHAT_MESSAGE
  BY DEF ChatMessage
<1> HIDE DEF b, l
<1>4. b[1] = CHAT_MESSAGE
  BY <1>1, <1>2, <1>3, HeaderType
<1>5. CreateFromBuffer(b) = DeserializeChat(b)
  <2>1. b \in ByteBuffer /\ Len(b) >= 33
    BY <1>1, <1>2
  <2> QED BY <1>4, <2>1, FactoryChoice
<1>6. DeserializeChat(b) = [type |-> CHAT_MESSAGE, sender |-> m.sender, id |-> m.id,
                            timestamp |-> m.timestamp, content |-> m.content]
  BY <1>1, <1>2, <1>4 DEF DeserializeChat, HeaderIs
<1>7. m = [type |-> CHAT_MESSAGE, sender |-> m.sender, id |-> m.id,
           timestamp |-> m.timestamp, content |-> m.content]
  BY DEF ChatMessage
<1> QED BY <1>5, <1>6, <1>7 DEF b

\* So does a request.
LEMMA RequestRoundTrip ==
  ASSUME NEW m \in FileTransferRequestMessage, Fits(m)
  PROVE  CreateFromBuffer(SerializeRequest(m)) = m
<1> DEFINE b == SerializeRequest(m)
           l == Len(m.filename)
<1>1. /\ b \in ByteBuffer /\ Len(b) = 69 + l /\ HeaderIs(b, m)
      /\ SwapBytes(Get(b, 57, 8)) = m.file_size
      /\ GetLength(b, 65) = l /\ Get(b, 69, l) = m.filename
  BY RequestWritten DEF Fits
<1>2. l \in Nat
  BY BufferIsFunction DEF FileTransferRequestMessage
<1>3. m.type = FILE_TRANSFER_REQUEST
  BY DEF FileTransferRequestMessage
<1> HIDE DEF b, l
<1>4. b[1] = FILE_TRANSFER_REQUEST
  BY <1>1, <1>2, <1>3, HeaderType
<1>5. CreateFromBuffer(b) = DeserializeRequest(b)
  <2>1. b \in ByteBuffer /\ Len(b) >= 33
    BY <1>1, <1>2
  <2> QED BY <1>4, <2>1, FactoryChoice
<1>6. DeserializeRequest(b) = [type |-> FILE_TRANSFER_REQUEST, sender |-> m.sender, id |-> m.id,
                               timestamp |-> m.timestamp, file_size |-> m.file_size,
                               filename |-> m.filename]
  BY <1>1, <1>2, <1>4 DEF DeserializeRequest, HeaderIs
<1>7. m = [type |-> FILE_TRANSFER_REQUEST, sender |-> m.sender, id |-> m.id,
           timestamp |-> m.timestamp, file_size |-> m.file_size, filename |-> m.filename]
  BY DEF FileTransferRequestMessage
<1> QED BY <1>5, <1>6, <1>7 DEF b

\* So does a connection notification.
LEMMA ConnectionRoundTrip ==
  ASSUME NEW m \in ConnectionMessage
  PROVE  CreateFromBuffer(SerializeConnection(m)) = m
<1> DEFINE b == SerializeConnection(m)
<1>1. b \in ByteBuffer /\ Len(b) = 58 /\ HeaderIs(b, m) /\ Get(b, 57, 1) = <<m.status>>
  BY ConnectionWritten
<1>2. m.type = CONNECTION_NOTIFICATION
  BY DEF ConnectionMessage
<1> HIDE DEF b
<1>3. b[1] = CONNECTION_NOTIFICATION
  <2>1. b \in ByteBuffer /\ HeaderIs(b, m) /\ Len(b) >= 57
    BY <1>1
  <2> QED BY <1>2, <2>1, HeaderType
<1>4. CreateFromBuffer(b) = DeserializeConnection(b, Get(b, 1, 32))
  <2>1. b \in ByteBuffer /\ Len(b) >= 33
    BY <1>1
  <2> QED BY <1>3, <2>1, FactoryChoice
<1>5. DeserializeConnection(b, Get(b, 1, 32))
        = [type |-> CONNECTION_NOTIFICATION, sender |-> m.sender, id |-> m.id,
           timestamp |-> m.timestamp, status |-> m.status]
  BY <1>1 DEF DeserializeConnection, HeaderIs
<1>6. m = [type |-> CONNECTION_NOTIFICATION, sender |-> m.sender, id |-> m.id,
           timestamp |-> m.timestamp, status |-> m.status]
  BY DEF ConnectionMessage
<1> QED BY <1>4, <1>5, <1>6 DEF b

\* So does a file chunk, by the Deserialize of its class.
LEMMA ChunkRoundTrip ==
  ASSUME NEW m \in FileChunkMessage, Fits(m)
  PROVE  DeserializeChunk(SerializeChunk(m)) = m
<1> DEFINE b == SerializeChunk(m)
           n == Len(m.file_id)
           l == Len(m.data)
<1>1. /\ b \in ByteBuffer /\ Len(b) = 69 + n + l /\ HeaderIs(b, m)
      /\ GetLength(b, 57) = n /\ Get(b, 61, n) = m.file_id
      /\ SwapBytes(Get(b, 61 + n, 4)) = m.chunk_index
      /\ GetLength(b, 65 + n) = l /\ Get(b, 69 + n, l) = m.data
  BY ChunkWritten, Zenon DEF Fits
<1>2. l \in Nat /\ n \in Nat
  BY BufferIsFunction DEF FileChunkMessage
<1>3. m.type = FILE_CHUNK
  BY DEF FileChunkMessage
<1> HIDE DEF b, l, n
<1>4. b[1] = FILE_CHUNK
  BY <1>1, <1>2, <1>3, HeaderType
<1>5. DeserializeChunk(b) = [type |-> FILE_CHUNK, sender |-> m.sender, id |-> m.id,
                             timestamp |-> m.timestamp, file_id |-> m.file_id,
                             chunk_index |-> m.chunk_index, data |-> m.data]
  BY <1>1, <1>2, <1>4 DEF DeserializeChunk, HeaderIs
<1>6. m = [type |-> FILE_CHUNK, sender |-> m.sender, id |-> m.id,
           timestamp |-> m.timestamp, file_id |-> m.file_id,
           chunk_index |-> m.chunk_index, data |-> m.data]
  BY DEF FileChunkMessage
<1> QED BY <1>5, <1>6 DEF b

\* So does the end of a transfer.
LEMMA CompleteRoundTrip ==
  ASSUME NEW m \in FileTransferCompleteMessage, Fits(m)
  PROVE  DeserializeComplete(SerializeComplete(m)) = m
<1> DEFINE b == SerializeComplete(m)
           n == Len(m.file_id)
           l == Len(m.error_message)
<1>1. /\ b \in ByteBuffer /\ Len(b) = 66 + n + l /\ HeaderIs(b, m)
      /\ GetLength(b, 57) = n /\ Get(b, 61, n) = m.file_id
      /\ Get(b, 61 + n, 1) = <<IF m.success THEN 1 ELSE 0>>
      /\ GetLength(b, 62 + n) = l /\ Get(b, 66 + n, l) = m.error_message
  BY CompleteWritten, Zenon DEF Fits
<1>2. l \in Nat /\ n \in Nat
  BY BufferIsFunction DEF FileTransferCompleteMessage
<1>3. m.type = FILE_TRANSFER_COMPLETE
  BY DEF FileTransferCompleteMessage
<1> HIDE DEF b, l, n
<1>4. b[1] = FILE_TRANSFER_COMPLETE
  BY <1>1, <1>2, <1>3, HeaderType
<1>5. (Get(b, 61 + n, 1)[1] # 0) = m.success
  <2>1. m.success \in BOOLEAN
    BY DEF FileTransferCompleteMessage
  <2>2. Get(b, 61 + n, 1)[1] = IF m.success THEN 1 ELSE 0
    BY <1>1
  <2> QED BY <2>1, <2>2
<1>6. DeserializeComplete(b) = [type |-> FILE_TRANSFER_COMPLETE, sender |-> m.sender, id |-> m.id,
                                timestamp |-> m.timestamp, file_id |-> m.file_id,
                                success |-> m.success, error_message |-> m.error_message]
  BY <1>1, <1>2, <1>4, <1>5 DEF DeserializeComplete, HeaderIs
<1>7. m = [type |-> FILE_TRANSFER_COMPLETE, sender |-> m.sender, id |-> m.id,
           timestamp |-> m.timestamp, file_id |-> m.file_id,
           success |-> m.success, error_message |-> m.error_message]
  BY DEF FileTransferCompleteMessage
<1> QED BY <1>6, <1>7 DEF b

\* The five type values differ.
LEMMA TypesDiffer ==
  /\ CHAT_MESSAGE \notin {FILE_TRANSFER_REQUEST, CONNECTION_NOTIFICATION, FILE_CHUNK, FILE_TRANSFER_COMPLETE}
  /\ FILE_TRANSFER_REQUEST \notin {CONNECTION_NOTIFICATION, FILE_CHUNK, FILE_TRANSFER_COMPLETE}
  /\ CONNECTION_NOTIFICATION \notin {FILE_CHUNK, FILE_TRANSFER_COMPLETE}
  /\ FILE_CHUNK # FILE_TRANSFER_COMPLETE
BY DEF CHAT_MESSAGE, FILE_TRANSFER_REQUEST, CONNECTION_NOTIFICATION, FILE_CHUNK, FILE_TRANSFER_COMPLETE

\* The Serialize and Deserialize of a message are those of its class.
LEMMA ClassChoice ==
  ASSUME NEW m, NEW b
  PROVE  /\ m.type = CHAT_MESSAGE => Serialize(m) = SerializeChat(m)
         /\ m.type = FILE_TRANSFER_REQUEST => Serialize(m) = SerializeRequest(m)
         /\ m.type = CONNECTION_NOTIFICATION => Serialize(m) = SerializeConnection(m)
         /\ m.type = FILE_CHUNK =>
              Serialize(m) = SerializeChunk(m) /\ DeserializeAs(m.type, b) = DeserializeChunk(b)
         /\ m.type = FILE_TRANSFER_COMPLETE =>
              Serialize(m) = SerializeComplete(m) /\ DeserializeAs(m.type, b) = DeserializeComplete(b)
         /\ m.type \in {CHAT_MESSAGE, FILE_TRANSFER_REQUEST, CONNECTION_NOTIFICATION} =>
              DeserializeAs(m.type, b) = CreateFromBuffer(b)
<1>1. CASE m.type = CHAT_MESSAGE
  BY <1>1, TypesDiffer DEF Serialize, DeserializeAs
<1>2. CASE m.type = FILE_TRANSFER_REQUEST
  BY <1>2, TypesDiffer DEF Serialize, DeserializeAs
<1>3. CASE m.type = CONNECTION_NOTIFICATION
  BY <1>3, TypesDiffer DEF Serialize, DeserializeAs
<1>4. CASE m.type = FILE_CHUNK
  BY <1>4, TypesDiffer DEF Serialize, DeserializeAs
<1>5. CASE m.type = FILE_TRANSFER_COMPLETE
  BY <1>5, TypesDiffer DEF Serialize, DeserializeAs
<1> QED BY <1>1, <1>2, <1>3, <1>4, <1>5

\* Deserialize of a message's class makes of what Serialize wrote the message
\* itself, for every message of the five classes whose members fit.
THEOREM MessageRoundTrip ==
  ASSUME NEW m \in Message, Fits(m)
  PROVE  DeserializeAs(m.type, Serialize(m)) = m
<1>1. CASE m \in ChatMessage
  <2>1. m.type = CHAT_MESSAGE
    BY <1>1 DEF ChatMessage
  <2> QED BY <1>1, <2>1, ClassChoice, ChatRoundTrip
<1>2. CASE m \in FileTransferRequestMessage
  <2>1. m.type = FILE_TRANSFER_REQUEST
    BY <1>2 DEF FileTransferRequestMessage
  <2> QED BY <1>2, <2>1, ClassChoice, RequestRoundTrip
<1>3. CASE m \in ConnectionMessage
  <2>1. m.type = CONNECTION_NOTIFICATION
    BY <1>3 DEF ConnectionMessage
  <2> QED BY <1>3, <2>1, ClassChoice, ConnectionRoundTrip
<1>4. CASE m \in FileChunkMessage
  <2>1. m.type = FILE_CHUNK
    BY <1>4 DEF FileChunkMessage
  <2> QED BY <1>4, <2>1, ClassChoice, ChunkRoundTrip
<1>5. CASE m \in FileTransferCompleteMessage
  <2>1. m.type = FILE_TRANSFER_COMPLETE
    BY <1>5 DEF FileTransferCompleteMessage
  <2> QED BY <1>5, <2>1, ClassChoice, CompleteRoundTrip
<1> QED BY <1>1, <1>2, <1>3, <1>4, <1>5 DEF Message, FactoryMessage

\* What Serialize writes is a buffer of bytes.
LEMMA SerializeType ==
  ASSUME NEW m \in Message, Fits(m)
  PROVE  Serialize(m) \in ByteBuffer
<1>1. CASE m \in ChatMessage
  <2>1. m.type = CHAT_MESSAGE
    BY <1>1 DEF ChatMessage
  <2>2. SerializeChat(m) \in ByteBuffer
    BY <1>1, ChatWritten DEF Fits
  <2> QED BY <2>1, <2>2, ClassChoice
<1>2. CASE m \in FileTransferRequestMessage
  <2>1. m.type = FILE_TRANSFER_REQUEST
    BY <1>2 DEF FileTransferRequestMessage
  <2>2. SerializeRequest(m) \in ByteBuffer
    BY <1>2, RequestWritten DEF Fits
  <2> QED BY <2>1, <2>2, ClassChoice
<1>3. CASE m \in ConnectionMessage
  <2>1. m.type = CONNECTION_NOTIFICATION
    BY <1>3 DEF ConnectionMessage
  <2>2. SerializeConnection(m) \in ByteBuffer
    BY <1>3, ConnectionWritten
  <2> QED BY <2>1, <2>2, ClassChoice
<1>4. CASE m \in FileChunkMessage
  <2>1. m.type = FILE_CHUNK
    BY <1>4 DEF FileChunkMessage
  <2>2. SerializeChunk(m) \in ByteBuffer
    BY <1>4, ChunkWritten, Zenon DEF Fits
  <2> QED BY <2>1, <2>2, ClassChoice
<1>5. CASE m \in FileTransferCompleteMessage
  <2>1. m.type = FILE_TRANSFER_COMPLETE
    BY <1>5 DEF FileTransferCompleteMessage
  <2>2. SerializeComplete(m) \in ByteBuffer
    BY <1>5, CompleteWritten, Zenon DEF Fits
  <2> QED BY <2>1, <2>2, ClassChoice
<1> QED BY <1>1, <1>2, <1>3, <1>4, <1>5 DEF Message, FactoryMessage

(***************************************************************************)
(* A message whose end is missing is rejected.                             *)
(***************************************************************************)

\* The beginning of a buffer has its bytes.
LEMMA Beginning ==
  ASSUME NEW b \in ByteBuffer, NEW k \in Nat, k <= Len(b)
  PROVE  LET c == SubSeq(b, 1, k)
         IN  /\ c \in ByteBuffer /\ Len(c) = k
             /\ k >= 1 => c[1] = b[1]
             /\ \A o \in Nat, n \in Nat : o + n <= k => Get(c, o, n) = Get(b, o, n)
<1> DEFINE c == SubSeq(b, 1, k)
<1>1. Len(b) \in Nat /\ \A i \in 1..k : b[i] \in Byte
  BY BufferIsFunction DEF Bytes
<1>2. c \in ByteBuffer /\ Len(c) = k /\ \A i \in 1..k : c[i] = b[i]
  BY <1>1, SubSeqProperties DEF ByteBuffer
<1> HIDE DEF c
<1>3. ASSUME NEW o \in Nat, NEW n \in Nat, o + n <= k PROVE Get(c, o, n) = Get(b, o, n)
  <2>1. \A i \in 1..n : o + i \in 1..k /\ o + i <= Len(b)
    BY <1>1, <1>3
  <2>2. \A i \in 1..n : o + i <= Len(c) /\ c[o + i] = b[o + i]
    BY <1>2, <2>1
  <2>3. \A i \in 1..n : (IF o + i <= Len(c) THEN c[o + i] ELSE Beyond)
                         = (IF o + i <= Len(b) THEN b[o + i] ELSE Beyond)
    BY <2>1, <2>2, Zenon
  <2> QED BY <2>3, Zenon DEF Get
<1>4. k >= 1 => c[1] = b[1]
  BY <1>2
<1> QED BY <1>2, <1>3, <1>4, Zenon DEF c

\* Every proper beginning of a serialised message is rejected by Deserialize.
THEOREM CutMessageRejected ==
  ASSUME NEW m \in Message, Fits(m), NEW k \in Nat, k < Len(Serialize(m))
  PROVE  DeserializeAs(m.type, SubSeq(Serialize(m), 1, k)) = NoMessage
<1> DEFINE b == Serialize(m)
           c == SubSeq(b, 1, k)
<1> SUFFICES DeserializeAs(m.type, c) = NoMessage
  OBVIOUS
<1>1. b \in ByteBuffer /\ Len(b) \in Nat /\ k < Len(b)
  BY SerializeType, BufferIsFunction
<1>2. /\ c \in ByteBuffer /\ Len(c) = k
      /\ k >= 1 => c[1] = b[1]
      /\ \A o \in Nat, n \in Nat : o + n <= k => Get(c, o, n) = Get(b, o, n)
  BY <1>1, Beginning
<1>3. \A at \in Nat : at + 4 <= k => GetLength(c, at) = GetLength(b, at)
  BY <1>2 DEF GetLength
<1> HIDE DEF c
<1>4. CASE m \in ChatMessage
  <2>1. m.type = CHAT_MESSAGE
    BY <1>4 DEF ChatMessage
  <2>2. b = SerializeChat(m) /\ DeserializeAs(m.type, c) = CreateFromBuffer(c)
    BY <2>1, ClassChoice
  <2>3. Len(b) = 61 + Len(m.content) /\ HeaderIs(b, m) /\ GetLength(b, 57) = Len(m.content)
    BY <1>4, <2>2, ChatWritten DEF Fits
  <2>4. Len(m.content) \in Nat
    BY <1>4, BufferIsFunction DEF ChatMessage
  <2> HIDE DEF b
  <2>5. CASE k < 33
    BY <1>2, <2>2, <2>5 DEF CreateFromBuffer
  <2>6. CASE k >= 33
    <3>1. c[1] = CHAT_MESSAGE
      <4>1. k >= 1 /\ Len(b) >= 57
        BY <2>3, <2>4, <2>6
      <4>2. b[1] = m.type
        BY <1>1, <2>3, <4>1, HeaderType, Zenon
      <4> QED BY <1>2, <2>1, <4>1, <4>2, Zenon
    <3>2. CreateFromBuffer(c) = DeserializeChat(c)
      BY <1>2, <2>6, <3>1, FactoryChoice
    <3>3. k < 61 \/ GetLength(c, 57) = Len(m.content)
      BY <1>3, <2>3
    <3>4. k < 61 \/ k < 61 + GetLength(c, 57)
      BY <1>1, <2>3, <3>3
    <3> QED BY <1>2, <2>2, <3>2, <3>4 DEF DeserializeChat
  <2> QED BY <2>5, <2>6
<1>5. CASE m \in FileTransferRequestMessage
  <2>1. m.type = FILE_TRANSFER_REQUEST
    BY <1>5 DEF FileTransferRequestMessage
  <2>2. b = SerializeRequest(m) /\ DeserializeAs(m.type, c) = CreateFromBuffer(c)
    BY <2>1, ClassChoice
  <2>3. Len(b) = 69 + Len(m.filename) /\ HeaderIs(b, m) /\ GetLength(b, 65) = Len(m.filename)
    BY <1>5, <2>2, RequestWritten DEF Fits
  <2>4. Len(m.filename) \in Nat
    BY <1>5, BufferIsFunction DEF FileTransferRequestMessage
  <2> HIDE DEF b
  <2>5. CASE k < 33
    BY <1>2, <2>2, <2>5 DEF CreateFromBuffer
  <2>6. CASE k >= 33
    <3>1. c[1] = FILE_TRANSFER_REQUEST
      <4>1. k >= 1 /\ Len(b) >= 57
        BY <2>3, <2>4, <2>6
      <4>2. b[1] = m.type
        BY <1>1, <2>3, <4>1, HeaderType, Zenon
      <4> QED BY <1>2, <2>1, <4>1, <4>2, Zenon
    <3>2. CreateFromBuffer(c) = DeserializeRequest(c)
      BY <1>2, <2>6, <3>1, FactoryChoice
    <3>3. k < 69 \/ GetLength(c, 65) = Len(m.filename)
      BY <1>3, <2>3
    <3>4. k < 69 \/ k < 69 + GetLength(c, 65)
      BY <1>1, <2>3, <3>3
    <3> QED BY <1>2, <2>2, <3>2, <3>4 DEF DeserializeRequest
  <2> QED BY <2>5, <2>6
<1>6. CASE m \in ConnectionMessage
  <2>1. m.type = CONNECTION_NOTIFICATION
    BY <1>6 DEF ConnectionMessage
  <2>2. b = SerializeConnection(m) /\ DeserializeAs(m.type, c) = CreateFromBuffer(c)
    BY <2>1, ClassChoice
  <2>3. Len(b) = 58 /\ HeaderIs(b, m)
    BY <1>6, <2>2, ConnectionWritten
  <2>4. k < 58
    BY <1>1, <2>3
  <2> HIDE DEF b
  <2>5. CASE k < 33
    BY <1>2, <2>2, <2>5 DEF CreateFromBuffer
  <2>6. CASE k >= 33
    <3>1. c[1] = CONNECTION_NOTIFICATION
      <4>1. Len(b) >= 57
        BY <2>3
      <4>2. b[1] = m.type
        BY <1>1, <2>3, <4>1, HeaderType, Zenon
      <4> QED BY <1>2, <2>1, <2>6, <4>2
    <3>2. CreateFromBuffer(c) = DeserializeConnection(c, Get(c, 1, 32))
      BY <1>2, <2>6, <3>1, FactoryChoice
    <3> QED BY <1>2, <2>2, <2>4, <3>2 DEF DeserializeConnection
  <2> QED BY <2>5, <2>6
<1>7. CASE m \in FileChunkMessage
  <2>1. m.type = FILE_CHUNK
    BY <1>7 DEF FileChunkMessage
  <2>2. b = SerializeChunk(m) /\ DeserializeAs(m.type, c) = DeserializeChunk(c)
    BY <2>1, ClassChoice
  <2> DEFINE n == Len(m.file_id)
             l == Len(m.data)
  <2>3. Len(b) = 69 + n + l /\ GetLength(b, 57) = n /\ GetLength(b, 65 + n) = l
    BY <1>7, <2>2, ChunkWritten, Zenon DEF Fits
  <2>4. n \in Nat /\ l \in Nat
    BY <1>7, BufferIsFunction DEF FileChunkMessage
  <2>5. k < 69 + n + l
    BY <1>1, <2>3, Zenon
  <2> HIDE DEF b, n, l
  <2>6. k < 61 \/ GetLength(c, 57) = n
    BY <1>3, <2>3
  <2>7. k < 61 + n + 8 \/ GetLength(c, 65 + n) = l
    BY <1>3, <2>3, <2>4
  <2>8. CASE k < 61
    BY <1>2, <2>2, <2>8 DEF DeserializeChunk
  <2>9. CASE k >= 61
    <3>1. GetLength(c, 57) = n /\ (k < 61 + n + 8 \/ k < 61 + n + 8 + GetLength(c, 65 + n))
      BY <2>4, <2>5, <2>6, <2>7, <2>9
    <3> QED BY <1>2, <2>2, <3>1 DEF DeserializeChunk
  <2> QED BY <2>8, <2>9
<1>8. CASE m \in FileTransferCompleteMessage
  <2>1. m.type = FILE_TRANSFER_COMPLETE
    BY <1>8 DEF FileTransferCompleteMessage
  <2>2. b = SerializeComplete(m) /\ DeserializeAs(m.type, c) = DeserializeComplete(c)
    BY <2>1, ClassChoice
  <2> DEFINE n == Len(m.file_id)
             l == Len(m.error_message)
  <2>3. Len(b) = 66 + n + l /\ GetLength(b, 57) = n /\ GetLength(b, 62 + n) = l
    BY <1>8, <2>2, CompleteWritten, Zenon DEF Fits
  <2>4. n \in Nat /\ l \in Nat
    BY <1>8, BufferIsFunction DEF FileTransferCompleteMessage
  <2>5. k < 66 + n + l
    BY <1>1, <2>3, Zenon
  <2> HIDE DEF b, n, l
  <2>6. k < 61 \/ GetLength(c, 57) = n
    BY <1>3, <2>3
  <2>7. k < 61 + n + 5 \/ GetLength(c, 62 + n) = l
    BY <1>3, <2>3, <2>4
  <2>8. CASE k < 61
    BY <1>2, <2>2, <2>8 DEF DeserializeComplete
  <2>9. CASE k >= 61
    <3>1. GetLength(c, 57) = n /\ (k < 61 + n + 5 \/ k < 61 + n + 5 + GetLength(c, 62 + n))
      BY <2>4, <2>5, <2>6, <2>7, <2>9
    <3> QED BY <1>2, <2>2, <3>1 DEF DeserializeComplete
  <2> QED BY <2>8, <2>9
<1> QED BY <1>4, <1>5, <1>6, <1>7, <1>8 DEF Message, FactoryMessage
=============================================================================
