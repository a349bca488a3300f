-------------------------- MODULE PeerStreamProofs --------------------------
(***************************************************************************)
(* Proofs about PeerStream for any messages, any way the socket cuts the   *)
(* writes and any number of calls.  The first part is about any number of  *)
(* writers: with several of them the frames may be interleaved, and the    *)
(* reader then decodes bytes no one meant.  The second part, from Joined   *)
(* on, is about one writer, and messages whose length fits the word before *)
(* them: what is read is then what was written.                            *)
(***************************************************************************)
EXTENDS PeerStream, MessageCodecProofs, WellFoundedInduction

\* The bytes that are written.
LEMMA DataType ==
  ASSUME NEW m \in Messages
  PROVE  m \in Message /\ Fits(m) /\ Data[m] = Serialize(m) /\ Data[m] \in ByteBuffer /\ Len(Data[m]) \in Nat
<1>1. m \in Message /\ Fits(m)
  BY StreamAssumption
<1>2. Data[m] = Serialize(m)
  BY DEF Data
<1> QED BY <1>1, <1>2, SerializeType, BufferIsFunction

\* The word written before a message is four bytes.
LEMMA SizeWordType ==
  ASSUME NEW n \in Nat
  PROVE  SizeWord(n) \in ByteBuffer
BY WordValue, SwapTwice, BufferIsFunction DEF SizeWord

\* A part of a buffer is a buffer.
LEMMA PartType ==
  ASSUME NEW b \in ByteBuffer, NEW i \in Nat \ {0}, NEW j \in Nat, j <= Len(b)
  PROVE  SubSeq(b, i, j) \in ByteBuffer
<1>1. \A k \in i..j : b[k] \in Byte
  BY BufferIsFunction DEF Bytes
<1> QED BY <1>1, SubSeqProperties DEF ByteBuffer

\* A piece of a message.
LEMMA PieceType ==
  ASSUME NEW m \in Messages, NEW done \in Nat, NEW n \in PieceSizes
  PROVE  LET upto == IF done + n < Len(Data[m]) THEN done + n ELSE Len(Data[m])
         IN  upto \in Nat /\ SubSeq(Data[m], done + 1, upto) \in ByteBuffer
<1> DEFINE upto == IF done + n < Len(Data[m]) THEN done + n ELSE Len(Data[m])
<1>1. Data[m] \in ByteBuffer /\ Len(Data[m]) \in Nat
  BY DataType
<1>2. n \in Nat
  BY StreamAssumption
<1>3. upto \in Nat /\ upto <= Len(Data[m])
  BY <1>1, <1>2
<1> QED BY <1>1, <1>3, PartType

\* Types are kept by every step.
LEMMA NextType == TypeOK /\ [Next]_vars => TypeOK'
<1> SUFFICES ASSUME TypeOK, [Next]_vars PROVE TypeOK'
  OBVIOUS
<1> USE DEF TypeOK
<1>1. ASSUME NEW w \in Writers, NEW m \in Messages, WriteSize(w, m) PROVE TypeOK'
  <2>1. wire' \in ByteBuffer
    <3>1. SizeWord(Len(Data[m])) \in ByteBuffer
      BY DataType, SizeWordType
    <3> QED BY <1>1, <3>1, ConcatProperties DEF WriteSize, ByteBuffer
  <2>2. writing' \in [Writers -> [msg : Messages, done : Nat] \cup {NotWriting}]
    BY <1>1 DEF WriteSize
  <2>3. calls' \in 0..MaxSent
    BY <1>1, StreamAssumption, SMTT(30) DEF WriteSize
  <2> QED BY <1>1, <2>1, <2>2, <2>3 DEF WriteSize, readerVars
<1>2. ASSUME NEW w \in Writers, WriteBody(w) PROVE TypeOK'
  <2> DEFINE m == writing[w].msg
             done == writing[w].done
             upto(n) == IF done + n < Len(Data[m]) THEN done + n ELSE Len(Data[m])
  <2>1. m \in Messages /\ done \in Nat
    BY <1>2, SMTT(30) DEF WriteBody
  <2>2. PICK n \in PieceSizes :
          /\ wire' = wire \o SubSeq(Data[m], done + 1, upto(n))
          /\ writing' = [writing EXCEPT ![w] = IF upto(n) = Len(Data[m]) THEN NotWriting
                                                 ELSE [msg |-> m, done |-> upto(n)]]
          /\ flight' = IF upto(n) = Len(Data[m]) THEN Append(flight, m) ELSE flight
    BY <1>2, Zenon DEF WriteBody
  <2>3. upto(n) \in Nat /\ SubSeq(Data[m], done + 1, upto(n)) \in ByteBuffer
    BY <2>1, PieceType, Zenon
  <2> HIDE DEF m, done, upto
  <2>4. wire' \in ByteBuffer
    BY <2>2, <2>3, ConcatProperties DEF ByteBuffer
  <2>5. writing' \in [Writers -> [msg : Messages, done : Nat] \cup {NotWriting}]
    BY <2>1, <2>2, <2>3
  <2>6. flight' \in Seq(Messages)
    BY <2>1, <2>2
  <2>7. UNCHANGED <<connected, reader, need, delivered, calls>>
    BY <1>2, Zenon DEF WriteBody, readerVars
  <2> QED BY <2>4, <2>5, <2>6, <2>7
<1>3. ASSUME NEW w \in Writers, WriteFails(w) PROVE TypeOK'
  BY <1>3, Zenon DEF WriteFails, readerVars
<1>4. CASE Close
  BY <1>4, Zenon DEF Close, readerVars
<1>5. CASE ReadSize
  <2>1. Rest(4) \in ByteBuffer
    <3>1. Len(wire) \in Nat
      BY BufferIsFunction
    <3> QED BY <3>1, PartType DEF Rest
  <2>2. GetLength(wire, 0) \in Nat
    BY <1>5, LengthOfWord DEF ReadSize
  <2> QED BY <1>5, <2>1, <2>2 DEF ReadSize, writerVars
<1>6. CASE ReadBody
  <2> DEFINE message == CreateFromBuffer(SubSeq(wire, 1, need))
  <2>1. Len(wire) \in Nat /\ need <= Len(wire)
    BY <1>6, BufferIsFunction DEF ReadBody
  <2>2. Rest(need) \in ByteBuffer
    BY <2>1, PartType DEF Rest
  <2>3. SubSeq(wire, 1, need) \in ByteBuffer
    BY <2>1, PartType
  <2>4. message \in FactoryMessage \cup {NoMessage}
    BY <2>3, DecodingInBounds
  <2>5. delivered' = IF message = NoMessage THEN delivered ELSE Append(delivered, message)
    BY <1>6 DEF ReadBody
  <2> HIDE DEF message
  <2>6. delivered' \in Seq(FactoryMessage)
    BY <2>4, <2>5
  <2>7. flight' \in Seq(Messages)
    BY <1>6 DEF ReadBody
  <2> QED BY <1>6, <2>2, <2>6, <2>7 DEF ReadBody, writerVars
<1>7. CASE ReadFails
  BY <1>7 DEF ReadFails, writerVars
<1>8. CASE UNCHANGED vars
  BY <1>8 DEF vars, writerVars, readerVars
<1> QED BY <1>1, <1>2, <1>3, <1>4, <1>5, <1>6, <1>7, <1>8 DEF Next

\* Whatever bytes the writers have left on the wire, what the session hands to
\* its message callback is a whole message: ReadMessage and the Deserialize of
\* its class never read beyond the bytes that have arrived.
THEOREM TypeCorrect == Spec => []TypeOK
<1>1. Init => TypeOK
  BY StreamAssumption DEF Init, TypeOK, ByteBuffer
<1> QED BY <1>1, NextType, PTL DEF Spec

\* Whatever is being sent, the reader's Deserialize gives the message back.
THEOREM RoundTripAlways == Spec => []RoundTrip
<1>1. TypeOK => RoundTrip
  <2> SUFFICES ASSUME TypeOK, NEW w \in Writers, writing[w].msg # NoMessage
               PROVE  DeserializeAs(writing[w].msg.type, Data[writing[w].msg]) = writing[w].msg
    BY DEF RoundTrip
  <2>1. writing[w].msg \in Messages
    BY DEF TypeOK, NotWriting
  <2> QED BY <2>1, DataType, MessageRoundTrip
<1> QED BY <1>1, TypeCorrect, PTL

\* Whatever is being sent, no part of it that lacks the end is taken for a message.
THEOREM CutAlwaysRejected == Spec => []CutIsRejected
<1>1. TypeOK => CutIsRejected
  <2> SUFFICES ASSUME TypeOK, NEW w \in Writers, writing[w].msg # NoMessage,
                      NEW n \in 0..Len(Data[writing[w].msg]) - 1
               PROVE  DeserializeAs(writing[w].msg.type, SubSeq(Data[writing[w].msg], 1, n)) = NoMessage
    BY DEF CutIsRejected
  <2>1. writing[w].msg \in Messages
    BY DEF TypeOK, NotWriting
  <2> DEFINE m == writing[w].msg
  <2>2. m \in Message /\ Fits(m) /\ Data[m] = Serialize(m) /\ Len(Data[m]) \in Nat
    BY <2>1, DataType
  <2>3. n \in Nat /\ n < Len(Serialize(m))
    BY <2>2
  <2> QED BY <2>2, <2>3, CutMessageRejected
<1> QED BY <1>1, TypeCorrect, PTL
-----------------------------------------------------------------------------
(***************************************************************************)
(* Two buffers joined, and what Concatenation is.                          *)
(***************************************************************************)

\* Two buffers, one after the other.
LEMMA Joined ==
  ASSUME NEW x \in ByteBuffer, NEW y \in ByteBuffer
  PROVE  /\ x \o y \in ByteBuffer
         /\ Len(x) \in Nat /\ Len(y) \in Nat /\ Len(x \o y) = Len(x) + Len(y)
         /\ \A i \in 1..Len(x) + Len(y) : (x \o y)[i] = IF i <= Len(x) THEN x[i] ELSE y[i - Len(x)]
         /\ x \o <<>> = x /\ <<>> \o x = x /\ <<>> \in ByteBuffer
BY ConcatProperties, ConcatEmptySeq DEF ByteBuffer

\* Three of them.
LEMMA JoinedThree ==
  ASSUME NEW x \in ByteBuffer, NEW y \in ByteBuffer, NEW z \in ByteBuffer
  PROVE  (x \o y) \o z = x \o (y \o z)
BY ConcatAssociative DEF ByteBuffer

\* A set of numbers that is not empty has a least one.
LEMMA LeastNat ==
  ASSUME NEW T \in SUBSET Nat, T # {}
  PROVE  \E n \in T : \A m \in T : n <= m
<1>1. PICK x \in T : \A y \in T : ~(<<y, x>> \in OpToRel(<, Nat))
  BY WFMin, NatLessThanWellFounded, Zenon
<1>2. \A y \in T : ~(y < x)
  BY <1>1, Zenon DEF OpToRel
<1> QED BY <1>2

\* A set of numbers that has 0 and, with each of its numbers, the next, has all.
LEMMA FromZero ==
  ASSUME NEW T, 0 \in T, \A n \in Nat : n \in T => n + 1 \in T
  PROVE  Nat \subseteq T
<1> SUFFICES ASSUME Nat \ T # {} PROVE FALSE
  OBVIOUS
<1>1. PICK n \in Nat \ T : \A m \in Nat \ T : n <= m
  BY LeastNat, Zenon
<1>2. n # 0 /\ n - 1 \in Nat
  BY <1>1
<1>3. n - 1 \in T
  BY <1>1, <1>2
<1> QED BY <1>1, <1>2, <1>3

\* f gives the concatenation of the first elements of ss, for each number of them.
Running(f, ss) ==
  f = [i \in 1..Len(ss) |-> IF i = 1 THEN ss[i] ELSE f[i-1] \o ss[i]]

\* What f gives for the first i of them.
LEMMA RunningAt ==
  ASSUME NEW f, NEW ss, Running(f, ss), NEW i \in 1..Len(ss)
  PROVE  f[i] = IF i = 1 THEN ss[i] ELSE f[i-1] \o ss[i]
<1> DEFINE h == [j \in 1..Len(ss) |-> IF j = 1 THEN ss[j] ELSE f[j-1] \o ss[j]]
<1>1. h[i] = IF i = 1 THEN ss[i] ELSE f[i-1] \o ss[i]
  OBVIOUS
<1>2. f = h
  BY Zenon DEF Running
<1> HIDE DEF h
<1>3. f[i] = h[i]
  BY <1>2
<1> QED BY <1>1, <1>3

Begins(ss, tt) ==
  /\ Len(ss) \in Nat /\ Len(tt) \in Nat /\ Len(ss) <= Len(tt)
  /\ \A i \in 1..Len(ss) : ss[i] = tt[i]

\* If ss is the beginning of tt, both have the same concatenations as far as ss goes.
LEMMA RunningAgree ==
  ASSUME NEW ss, NEW tt, Begins(ss, tt), NEW f, NEW g, Running(f, ss), Running(g, tt)
  PROVE  \A i \in 1..Len(ss) : f[i] = g[i]
<1> USE DEF Begins
<1> DEFINE Bad == {i \in 1..Len(ss) : f[i] # g[i]}
<1> SUFFICES ASSUME Bad # {} PROVE FALSE
  OBVIOUS
<1>1. PICK i \in Bad : \A j \in Bad : i <= j
  <2>1. Bad \in SUBSET Nat
    OBVIOUS
  <2> HIDE DEF Bad
  <2> QED BY <2>1, LeastNat
<1>2. /\ f[i] = IF i = 1 THEN ss[i] ELSE f[i-1] \o ss[i]
      /\ g[i] = IF i = 1 THEN tt[i] ELSE g[i-1] \o tt[i]
  <2>1. i \in 1..Len(ss) /\ i \in 1..Len(tt)
    OBVIOUS
  <2> QED BY <2>1, RunningAt
<1>3. i = 1 \/ f[i-1] = g[i-1]
  BY <1>1
<1> QED BY <1>2, <1>3

\* There is such an f.
LEMMA RunningExists ==
  ASSUME NEW ss \in Seq(ByteBuffer)
  PROVE  \E f \in [1..Len(ss) -> ByteBuffer] : Running(f, ss)
<1> DEFINE Good == {n \in Nat : \A tt \in Seq(ByteBuffer) : Len(tt) = n =>
                      \E f \in [1..n -> ByteBuffer] : Running(f, tt)}
<1>1. 0 \in Good
  <2> SUFFICES ASSUME NEW tt \in Seq(ByteBuffer), Len(tt) = 0
               PROVE  \E f \in [1..0 -> ByteBuffer] : Running(f, tt)
    OBVIOUS
  <2> DEFINE f == [i \in 1..0 |-> <<>>]
  <2>1. f \in [1..0 -> ByteBuffer] /\ Running(f, tt)
    BY DEF Running
  <2> QED BY <2>1, Zenon
<1>2. ASSUME NEW n \in Nat, n \in Good PROVE n + 1 \in Good
  <2> SUFFICES ASSUME NEW tt \in Seq(ByteBuffer), Len(tt) = n + 1
               PROVE  \E f \in [1..n + 1 -> ByteBuffer] : Running(f, tt)
    OBVIOUS
  <2> DEFINE uu == SubSeq(tt, 1, n)
  <2>1. uu \in Seq(ByteBuffer) /\ Len(uu) = n /\ \A i \in 1..n : uu[i] = tt[i]
    <3>1. \A i \in 1..n : tt[i] \in ByteBuffer
      OBVIOUS
    <3> QED BY <3>1, SubSeqProperties
  <2>2. PICK g \in [1..n -> ByteBuffer] : Running(g, uu)
    BY <1>2, <2>1, Zenon
  <2> HIDE DEF uu
  <2>3. ASSUME NEW i \in 1..n PROVE g[i] = IF i = 1 THEN tt[i] ELSE g[i-1] \o tt[i]
    <3>1. i \in 1..Len(uu) /\ uu[i] = tt[i]
      BY <2>1
    <3>2. g[i] = IF i = 1 THEN uu[i] ELSE g[i-1] \o uu[i]
      BY <2>2, <3>1, RunningAt, ZenonT(30)
    <3> QED BY <3>1, <3>2, Zenon
  <2> DEFINE f == [i \in 1..n + 1 |-> IF i <= n THEN g[i]
                                      ELSE IF n = 0 THEN tt[1] ELSE g[n] \o tt[n + 1]]
  <2>4. f \in [1..n + 1 -> ByteBuffer]
    <3>1. tt[n + 1] \in ByteBuffer /\ tt[1] \in ByteBuffer
      OBVIOUS
    <3>2. n # 0 => g[n] \o tt[n + 1] \in ByteBuffer
      BY <3>1, Joined
    <3> QED BY <3>1, <3>2
  <2>5. ASSUME NEW i \in 1..n + 1 PROVE f[i] = IF i = 1 THEN tt[i] ELSE f[i-1] \o tt[i]
    <3>1. CASE i <= n
      <4>1. i \in 1..n /\ f[i] = g[i] /\ (i # 1 => f[i-1] = g[i-1])
        BY <3>1
      <4>2. g[i] = IF i = 1 THEN tt[i] ELSE g[i-1] \o tt[i]
        BY <2>3, <4>1, Zenon
      <4> HIDE DEF f
      <4> QED BY <4>1, <4>2
    <3>2. CASE i = n + 1
      BY <3>2
    <3> QED BY <3>1, <3>2
  <2>6. Running(f, tt)
    BY <2>5, Zenon DEF Running
  <2> QED BY <2>4, <2>6, Zenon
<1>3. Nat \subseteq Good
  <2> HIDE DEF Good
  <2> QED BY <1>1, <1>2, FromZero
<1> QED BY <1>3

\* Concatenation is its last value.
LEMMA FlattenRunning ==
  ASSUME NEW ss \in Seq(ByteBuffer), ss # <<>>, NEW f, Running(f, ss)
  PROVE  Concatenation(ss) = f[Len(ss)]
<1> DEFINE g == CHOOSE h : Running(h, ss)
<1>1. Running(g, ss)
  OBVIOUS
<1>2. Len(ss) \in Nat \ {0}
  OBVIOUS
<1>3. Concatenation(ss) = g[Len(ss)]
  BY <1>2 DEF Concatenation, Running
<1> HIDE DEF g
<1>4. \A i \in 1..Len(ss) : f[i] = g[i]
  <2>1. Begins(ss, ss)
    BY <1>2 DEF Begins
  <2> QED BY <1>1, <2>1, RunningAgree
<1>5. Len(ss) \in 1..Len(ss)
  BY <1>2
<1> QED BY <1>3, <1>4, <1>5

\* Of no buffers, it is empty.
LEMMA FlattenEmpty == Concatenation(<<>>) = <<>>
BY DEF Concatenation

\* Buffers flatten to a buffer.
LEMMA FlattenType ==
  ASSUME NEW ss \in Seq(ByteBuffer)
  PROVE  Concatenation(ss) \in ByteBuffer
<1>1. CASE ss = <<>>
  <2>1. <<>> \in ByteBuffer
    BY DEF ByteBuffer
  <2> QED BY <1>1, <2>1, FlattenEmpty, Zenon
<1>2. CASE ss # <<>>
  <2>1. PICK f \in [1..Len(ss) -> ByteBuffer] : Running(f, ss)
    BY RunningExists
  <2>2. Len(ss) \in 1..Len(ss)
    BY <1>2
  <2> QED BY <1>2, <2>1, <2>2, FlattenRunning
<1> QED BY <1>1, <1>2

\* A buffer appended comes at the end ...
LEMMA FlattenAppend ==
  ASSUME NEW ss \in Seq(ByteBuffer), NEW x \in ByteBuffer
  PROVE  Concatenation(Append(ss, x)) = Concatenation(ss) \o x
<1> DEFINE tt == Append(ss, x)
           n == Len(ss)
<1>1. /\ tt \in Seq(ByteBuffer) /\ tt # <<>> /\ Len(tt) = n + 1 /\ n \in Nat
      /\ \A i \in 1..n : tt[i] = ss[i]
      /\ tt[n + 1] = x
  BY AppendProperties
<1> HIDE DEF tt
<1>2. PICK g \in [1..Len(tt) -> ByteBuffer] : Running(g, tt)
  BY <1>1, RunningExists
<1>3. Concatenation(tt) = g[n + 1]
  BY <1>1, <1>2, FlattenRunning
<1>4. g[n + 1] = IF n = 0 THEN x ELSE g[n] \o x
  <2>1. n + 1 \in 1..Len(tt) /\ (n + 1) - 1 = n /\ (n + 1 = 1 <=> n = 0)
    BY <1>1
  <2>2. g[n + 1] = IF n + 1 = 1 THEN tt[n + 1] ELSE g[(n + 1) - 1] \o tt[n + 1]
    BY <1>2, <2>1, RunningAt
  <2> QED BY <1>1, <2>1, <2>2
<1>5. CASE ss = <<>>
  <2>1. n = 0
    BY <1>5
  <2>2. Concatenation(tt) = x
    BY <1>3, <1>4, <2>1
  <2>3. Concatenation(ss) = <<>> /\ <<>> \o x = x
    BY <1>5, FlattenEmpty, Joined
  <2> QED BY <2>2, <2>3, Zenon DEF tt
<1>6. CASE ss # <<>>
  <2>1. PICK f \in [1..n -> ByteBuffer] : Running(f, ss)
    BY RunningExists
  <2>2. n \in 1..n /\ Concatenation(ss) = f[n]
    BY <1>1, <1>6, <2>1, FlattenRunning
  <2>3. f[n] = g[n]
    <3>1. \A i \in 1..Len(ss) : f[i] = g[i]
      <4>1. Begins(ss, tt)
        BY <1>1 DEF Begins
      <4> QED BY <1>2, <2>1, <4>1, RunningAgree
    <3> QED BY <2>2, <3>1
  <2> QED BY <1>3, <1>4, <2>2, <2>3 DEF tt
<1> QED BY <1>5, <1>6

\* ... and one put before the others at the beginning.
LEMMA FlattenFirst ==
  ASSUME NEW ss \in Seq(ByteBuffer), NEW x \in ByteBuffer
  PROVE  Concatenation(<<x>> \o ss) = x \o Concatenation(ss)
<1> DEFINE Good == {n \in Nat : \A tt \in Seq(ByteBuffer) : Len(tt) = n =>
                      Concatenation(<<x>> \o tt) = x \o Concatenation(tt)}
<1>1. 0 \in Good
  <2> SUFFICES ASSUME NEW tt \in Seq(ByteBuffer), Len(tt) = 0
               PROVE  Concatenation(<<x>> \o tt) = x \o Concatenation(tt)
    BY SMTT(30)
  <2>1. tt = <<>>
    OBVIOUS
  <2>2. <<x>> \o tt = Append(<<>>, x) /\ <<>> \in Seq(ByteBuffer)
    BY <2>1
  <2>3. Concatenation(<<x>> \o tt) = <<>> \o x
    BY <2>2, FlattenAppend, FlattenEmpty, Zenon
  <2> QED BY <2>1, <2>3, FlattenEmpty, Joined, Zenon
<1>2. ASSUME NEW n \in Nat, n \in Good PROVE n + 1 \in Good
  <2> SUFFICES ASSUME NEW tt \in Seq(ByteBuffer), Len(tt) = n + 1
               PROVE  Concatenation(<<x>> \o tt) = x \o Concatenation(tt)
    <3>1. n + 1 \in Nat
      OBVIOUS
    <3> QED BY <3>1, Zenon
  <2>1. PICK uu \in Seq(ByteBuffer), y \in ByteBuffer : tt = Append(uu, y)
    <3>1. tt # <<>>
      OBVIOUS
    <3> QED BY <3>1, SequenceEmptyOrAppend, Zenon
  <2>2. Len(uu) = n
    BY <2>1
  <2>3. Concatenation(<<x>> \o uu) = x \o Concatenation(uu)
    BY <1>2, <2>2, Zenon
  <2>4. <<x>> \o uu \in Seq(ByteBuffer) /\ <<x>> \o tt = Append(<<x>> \o uu, y)
    <3>1. <<x>> \in Seq(ByteBuffer) /\ <<y>> \in Seq(ByteBuffer)
      OBVIOUS
    <3>2. <<x>> \o uu \in Seq(ByteBuffer)
      BY <3>1, ConcatProperties
    <3>3. tt = uu \o <<y>> /\ Append(<<x>> \o uu, y) = (<<x>> \o uu) \o <<y>>
      BY <2>1, <3>2, AppendIsConcat
    <3> QED BY <3>1, <3>2, <3>3, ConcatAssociative
  <2>5. Concatenation(<<x>> \o tt) = (x \o Concatenation(uu)) \o y
    BY <2>3, <2>4, FlattenAppend, Zenon
  <2>6. Concatenation(tt) = Concatenation(uu) \o y /\ Concatenation(uu) \in ByteBuffer
    BY <2>1, FlattenAppend, FlattenType
  <2>7. (x \o Concatenation(uu)) \o y = x \o (Concatenation(uu) \o y)
    <3> DEFINE F == Concatenation(uu)
    <3>1. F \in ByteBuffer
      BY <2>6
    <3> HIDE DEF F, Good
    <3>2. (x \o F) \o y = x \o (F \o y)
      BY <3>1, JoinedThree, Zenon
    <3> QED BY <3>2 DEF F
  <2> QED BY <2>5, <2>6, <2>7, Zenon
<1>3. Nat \subseteq Good
  <2> HIDE DEF Good
  <2> QED BY <1>1, <1>2, FromZero
<1>4. Len(ss) \in Good
  <2>1. Len(ss) \in Nat
    OBVIOUS
  <2> QED BY <1>3, <2>1, Zenon
<1> QED BY <1>4, Zenon
-----------------------------------------------------------------------------
(***************************************************************************)
(* Frames.                                                                 *)
(***************************************************************************)

\* The bytes of a sequence of messages; a message of which d bytes are written.
Frames(f) == [i \in 1..Len(f) |-> Frame(f[i])]
Flat(f) == Concatenation(Frames(f))
Begun(m, d) == SizeWord(Len(Data[m])) \o SubSeq(Data[m], 1, d)

\* The two parts of a concatenation.
LEMMA PartOfJoined ==
  ASSUME NEW x \in ByteBuffer, NEW y \in ByteBuffer
  PROVE  /\ SubSeq(x \o y, 1, Len(x)) = x
         /\ SubSeq(x \o y, Len(x) + 1, Len(x \o y)) = y
<1> DEFINE z == x \o y
           p == SubSeq(z, 1, Len(x))
           q == SubSeq(z, Len(x) + 1, Len(z))
<1>1. /\ z \in ByteBuffer /\ Len(x) \in Nat /\ Len(y) \in Nat /\ Len(z) = Len(x) + Len(y)
      /\ \A i \in 1..Len(x) + Len(y) : z[i] = IF i <= Len(x) THEN x[i] ELSE y[i - Len(x)]
  BY Joined
<1> HIDE DEF z
<1>2. p \in ByteBuffer /\ q \in ByteBuffer
  BY <1>1, PartType
<1>3. \A i \in 1..Len(z) : z[i] \in Byte
  BY <1>1 DEF ByteBuffer
<1>4. Len(p) = Len(x) /\ \A i \in 1..Len(x) : p[i] = x[i]
  <2>1. \A i \in 1..Len(x) : z[i] \in Byte
    BY <1>1, <1>3
  <2>2. Len(p) = Len(x) /\ \A i \in 1..Len(x) : p[i] = z[i]
    BY <1>1, <2>1, SubSeqProperties
  <2> QED BY <1>1, <2>2
<1>5. Len(q) = Len(y) /\ \A i \in 1..Len(y) : q[i] = y[i]
  <2>1. \A i \in Len(x) + 1 .. Len(z) : z[i] \in Byte
    BY <1>1, <1>3
  <2>2. Len(q) = Len(y) /\ \A i \in 1..Len(y) : q[i] = z[Len(x) + i]
    BY <1>1, <2>1, SubSeqProperties
  <2>3. \A i \in 1..Len(y) : z[Len(x) + i] = y[i]
    BY <1>1
  <2> QED BY <2>2, <2>3
<1> HIDE DEF p, q
<1>6. p = x
  BY <1>2, <1>4, SeqEqual DEF ByteBuffer
<1>7. q = y
  BY <1>2, <1>5, SeqEqual DEF ByteBuffer
<1> QED BY <1>6, <1>7 DEF p, q, z

\* A size word is read back from the front of a buffer.
LEMMA SizeIsRead ==
  ASSUME NEW n \in Nat, FitsWord(n), NEW t \in ByteBuffer
  PROVE  LET b == SizeWord(n) \o t
         IN  /\ SizeWord(n) \in ByteBuffer /\ Len(SizeWord(n)) = 4
             /\ b \in ByteBuffer /\ Len(b) = 4 + Len(t)
             /\ GetLength(b, 0) = n
             /\ SubSeq(b, 5, Len(b)) = t
<1> DEFINE w == SizeWord(n)
           b == w \o t
<1>0. w \in Bytes(4) /\ SwapBytes(w) = Word(n)
  BY WordValue, SwapTwice DEF SizeWord
<1>w. w \in ByteBuffer
  BY <1>0, BufferIsFunction
<1>1. Len(w) = 4
  <2>1. 4 \in Nat /\ w \in Bytes(4)
    BY <1>0
  <2> QED BY <2>1, BufferIsFunction, Zenon
<1> HIDE DEF w
<1>2. /\ b \in ByteBuffer /\ Len(b) = Len(w) + Len(t) /\ Len(t) \in Nat
      /\ \A i \in 1..Len(w) + Len(t) : b[i] = IF i <= Len(w) THEN w[i] ELSE t[i - Len(w)]
  BY <1>w, Joined
<1>3. SubSeq(b, Len(w) + 1, Len(b)) = t
  BY <1>w, PartOfJoined
<1> HIDE DEF b
<1>4. Get(b, 0, 4) = w
  <2>0. 0 \in Nat /\ 4 \in Nat /\ 0 + 4 <= Len(b) /\ \A i \in 1..4 : 0 + i = i
    BY <1>1, <1>2
  <2>1. Get(b, 0, 4) \in Bytes(4) /\ \A i \in 1..4 : Get(b, 0, 4)[i] = b[i]
    BY <1>2, <2>0, GetInside
  <2>2. \A i \in 1..4 : b[i] = w[i]
    BY <1>1, <1>2
  <2> QED BY <1>0, <2>1, <2>2 DEF Bytes
<1>5. GetLength(b, 0) = n
  BY <1>0, <1>4 DEF GetLength, FitsWord
<1>6. Len(b) = 4 + Len(t) /\ SubSeq(b, 5, Len(b)) = t
  BY <1>1, <1>2, <1>3
<1> QED BY <1>w, <1>1, <1>2, <1>5, <1>6 DEF b, w

\* Messages have at least one byte, and fewer than the size word can say.
ShortMessages == \A m \in Messages : Len(Data[m]) < TwoTo32

\* A message is not the null pointer.
LEMMA RealMessage ==
  ASSUME NEW m \in Messages
  PROVE  m # NoMessage
<1>1. m \in Message
  BY DataType
<1>2. m.type # 255
  BY <1>1 DEF Message, FactoryMessage, ChatMessage, FileTransferRequestMessage, ConnectionMessage,
              FileChunkMessage, FileTransferCompleteMessage, CHAT_MESSAGE, FILE_TRANSFER_REQUEST,
              CONNECTION_NOTIFICATION, FILE_CHUNK, FILE_TRANSFER_COMPLETE
<1> QED BY <1>2 DEF NoMessage

\* No message is serialised to nothing.
LEMMA DataLength ==
  ASSUME NEW m \in Messages
  PROVE  Len(Data[m]) \in Nat /\ Len(Data[m]) > 0
<1>1. m \in Message /\ Fits(m) /\ Data[m] = Serialize(m) /\ Data[m] \in ByteBuffer /\ Len(Data[m]) \in Nat
  BY DataType
<1>2. SUFFICES ASSUME Len(Data[m]) = 0 PROVE FALSE
  BY <1>1
<1>3. DeserializeAs(m.type, Data[m]) = NoMessage
  BY <1>2 DEF DeserializeAs, CreateFromBuffer, DeserializeChunk, DeserializeComplete
<1>4. m = NoMessage
  BY <1>1, <1>3, MessageRoundTrip
<1> QED BY <1>4, RealMessage

\* The word before a message and the bytes of it that have been written.
LEMMA FrameParts ==
  ASSUME ShortMessages, NEW m \in Messages, NEW d \in 0..Len(Data[m])
  PROVE  /\ FitsWord(Len(Data[m]))
         /\ SizeWord(Len(Data[m])) \in ByteBuffer /\ Len(SizeWord(Len(Data[m]))) = 4
         /\ Data[m] \in ByteBuffer
         /\ Frame(m) \in ByteBuffer /\ Begun(m, d) \in ByteBuffer
         /\ SubSeq(Data[m], 1, d) \in ByteBuffer /\ Len(SubSeq(Data[m], 1, d)) = d
         /\ Begun(m, Len(Data[m])) = Frame(m)
         /\ Begun(m, 0) = SizeWord(Len(Data[m]))
<1> DEFINE D == Data[m]
           n == Len(D)
           W == SizeWord(n)
           p == SubSeq(D, 1, d)
<1>1. D \in ByteBuffer /\ n \in Nat /\ FitsWord(n)
  BY DataType, WordValue DEF ShortMessages
<1>2. W \in ByteBuffer /\ Len(W) = 4
  BY <1>1, SizeIsRead
<1>3. p \in ByteBuffer /\ Len(p) = d
  <2>1. p \in ByteBuffer
    BY <1>1, PartType
  <2>2. \A i \in 1..d : D[i] \in Byte
    BY <1>1 DEF ByteBuffer
  <2> QED BY <1>1, <2>1, <2>2, SubSeqProperties
<1>4. SubSeq(D, 1, n) = D
  BY <1>1, SubSeqFull DEF ByteBuffer
<1>5. SubSeq(D, 1, 0) = <<>>
  BY SubSeqEmpty
<1> HIDE DEF D, n, W, p
<1>6. W \o D \in ByteBuffer /\ W \o p \in ByteBuffer /\ W \o <<>> = W
  BY <1>1, <1>2, <1>3, Joined
<1>7. /\ Frame(m) = W \o D /\ Begun(m, d) = W \o p
      /\ Begun(m, Len(Data[m])) = W \o SubSeq(D, 1, n) /\ Begun(m, 0) = W \o SubSeq(D, 1, 0)
  BY DEF Frame, Begun, D, n, W, p
<1>8. /\ Frame(m) \in ByteBuffer /\ Begun(m, d) \in ByteBuffer
      /\ Begun(m, Len(Data[m])) = Frame(m) /\ Begun(m, 0) = W
  BY <1>4, <1>5, <1>6, <1>7, Zenon
<1> QED BY <1>1, <1>2, <1>3, <1>8 DEF D, n, W, p

\* The bytes of a message more, and of one less.
LEMMA FlatFacts ==
  ASSUME ShortMessages, NEW f \in Seq(Messages)
  PROVE  /\ Flat(f) \in ByteBuffer
         /\ f = <<>> => Flat(f) = <<>>
         /\ \A m \in Messages : Flat(Append(f, m)) = Flat(f) \o Frame(m)
         /\ f # <<>> => Flat(f) = Frame(Head(f)) \o Flat(Tail(f))
<1>t. \A m \in Messages : Frame(m) \in ByteBuffer
  <2> TAKE m \in Messages
  <2>1. 0 \in 0..Len(Data[m])
    BY DataLength
  <2> QED BY <2>1, FrameParts
<1>s. \A g \in Seq(Messages) : /\ Frames(g) \in Seq(ByteBuffer) /\ Len(Frames(g)) = Len(g)
                               /\ \A i \in 1..Len(g) : Frames(g)[i] = Frame(g[i])
  BY <1>t DEF Frames
<1>1. Flat(f) \in ByteBuffer
  BY <1>s, FlattenType DEF Flat
<1>2. ASSUME f = <<>> PROVE Flat(f) = <<>>
  <2>1. Frames(f) = <<>>
    <3>1. Frames(f) \in Seq(ByteBuffer) /\ Len(Frames(f)) = Len(f)
      BY <1>s
    <3>2. Len(f) = 0
      BY <1>2
    <3> QED BY <3>1, <3>2, EmptySeq
  <2> QED BY <2>1, FlattenEmpty DEF Flat
<1>3. ASSUME NEW m \in Messages PROVE Flat(Append(f, m)) = Flat(f) \o Frame(m)
  <2> DEFINE g == Append(f, m)
             u == Append(Frames(f), Frame(m))
  <2>1. g \in Seq(Messages) /\ Len(g) = Len(f) + 1 /\ g[Len(f) + 1] = m
        /\ \A i \in 1..Len(f) : g[i] = f[i]
    BY AppendProperties
  <2>2. u \in Seq(ByteBuffer) /\ Len(u) = Len(f) + 1 /\ u[Len(f) + 1] = Frame(m)
        /\ \A i \in 1..Len(f) : u[i] = Frame(f[i])
    BY <1>t, <1>s, AppendProperties
  <2>3. Frames(g) = u
    <3>1. Frames(g) \in Seq(ByteBuffer) /\ Len(Frames(g)) = Len(g)
          /\ \A i \in 1..Len(g) : Frames(g)[i] = Frame(g[i])
      <4> HIDE DEF g
      <4> QED BY <1>s, <2>1
    <3> HIDE DEF g, u
    <3>2. \A i \in 1..Len(f) + 1 : Frames(g)[i] = u[i]
      BY <2>1, <2>2, <3>1
    <3> QED BY <2>1, <2>2, <3>1, <3>2, SeqEqual
  <2> QED BY <1>s, <1>t, <2>3, FlattenAppend DEF Flat
<1>4. ASSUME f # <<>> PROVE Flat(f) = Frame(Head(f)) \o Flat(Tail(f))
  <2> DEFINE t == Tail(f)
             x == Frame(Head(f))
             u == <<x>> \o Frames(t)
  <2>1. /\ Head(f) \in Messages /\ t \in Seq(Messages) /\ Len(t) = Len(f) - 1
        /\ Len(f) \in Nat /\ f[1] = Head(f) /\ \A i \in 1..Len(t) : t[i] = f[i + 1]
    BY <1>4, HeadTailProperties
  <2>2. x \in ByteBuffer /\ <<x>> \in Seq(ByteBuffer)
    BY <2>1, <1>t
  <2>3. /\ Frames(t) \in Seq(ByteBuffer) /\ Len(Frames(t)) = Len(f) - 1
        /\ \A i \in 1..Len(f) - 1 : Frames(t)[i] = Frame(f[i + 1])
    <3> HIDE DEF t
    <3>1. /\ Frames(t) \in Seq(ByteBuffer) /\ Len(Frames(t)) = Len(t)
          /\ \A i \in 1..Len(t) : Frames(t)[i] = Frame(t[i])
      BY <2>1, <1>s
    <3> QED BY <2>1, <3>1
  <2> HIDE DEF t, x
  <2>4. u \in Seq(ByteBuffer) /\ Len(u) = Len(f) /\ u[1] = x
        /\ \A i \in 2..Len(f) : u[i] = Frames(t)[i - 1]
    BY <2>1, <2>2, <2>3, ConcatProperties
  <2>5. Frames(f) = u
    <3>1. ASSUME NEW i \in 1..Len(f) PROVE Frames(f)[i] = u[i]
      <4>0. Frames(f)[i] = Frame(f[i])
        BY <1>s
      <4>1. CASE i = 1
        BY <4>0, <4>1, <2>1, <2>4 DEF x
      <4>2. CASE i # 1
        <5>1. i \in 2..Len(f) /\ i - 1 \in 1..Len(f) - 1 /\ (i - 1) + 1 = i
          BY <4>2, <2>1
        <5> QED BY <4>0, <5>1, <2>3, <2>4
      <4> HIDE DEF u
      <4> QED BY <4>1, <4>2
    <3> HIDE DEF u
    <3> QED BY <1>s, <2>4, <3>1, SeqEqual
  <2> QED BY <2>2, <2>3, <2>5, FlattenFirst, SMTT(30) DEF Flat, t, x
<1> QED BY <1>1, <1>2, <1>3, <1>4
-----------------------------------------------------------------------------
(***************************************************************************)
(* One writer.  With a second one the frames interleave, as ConcurrentSends*)
(* AreSafe is refuted; a session whose every message comes from one thread *)
(* keeps both ends in step.                                                *)
(***************************************************************************)

\* What w has written of the message it is sending; what may be left of one.
Part(w) == IF writing[w] = NotWriting THEN <<>> ELSE Begun(writing[w].msg, writing[w].done)
Unfinished(t) == t = <<>> \/ \E m \in Messages, d \in Nat : d < Len(Data[m]) /\ t = Begun(m, d)

\* The reader has before it the frames of flight and the beginning of one more:
\* that of the message being written, or one that was cut off by Close.
InStep(w) ==
  /\ TypeOK
  /\ writing[w] # NotWriting => writing[w].done < Len(Data[writing[w].msg])
  /\ reader = "body" => FitsWord(need)
  /\ reader # "closed" =>
       \E t \in ByteBuffer : /\ Unfinished(t)
                             /\ Unread = Flat(flight) \o t
                             /\ connected => t = Part(w)

\* A message of which not all bytes are written is the beginning of a frame.
LEMMA UnfinishedType ==
  ASSUME ShortMessages, NEW m \in Messages, NEW d \in Nat, d < Len(Data[m])
  PROVE  Begun(m, d) \in ByteBuffer /\ Unfinished(Begun(m, d))
<1>1. d \in 0..Len(Data[m])
  BY DataLength
<1> QED BY <1>1, FrameParts DEF Unfinished

\* Bytes that are written come after those the reader has before it.
LEMMA UnreadGrows ==
  ASSUME TypeOK, UNCHANGED <<reader, need>>, NEW s \in ByteBuffer, wire' = wire \o s,
         NEW x \in ByteBuffer, NEW t \in ByteBuffer, Unread = x \o t
  PROVE  Unread' = x \o (t \o s)
<1>1. wire \in ByteBuffer /\ need \in Nat /\ SizeWord(need) \in ByteBuffer
  BY SizeWordType DEF TypeOK
<1>2. Unread' = Unread \o s
  <2>1. CASE reader = "body"
    BY <1>1, <2>1, JoinedThree, Zenon DEF Unread
  <2>2. CASE reader # "body"
    BY <2>2 DEF Unread
  <2> QED BY <2>1, <2>2
<1> QED BY <1>2, JoinedThree, SMTT(30)

\* What the reader has before it begins with a size word that fits: that of the
\* first message in flight, or of the one being written.
StartsWith(f, t, m, r) ==
  /\ Flat(f) \o t = SizeWord(Len(Data[m])) \o r
  /\ f # <<>> => m = Head(f) /\ r = Data[m] \o (Flat(Tail(f)) \o t)
  /\ f = <<>> => Len(r) < Len(Data[m])

\* Whatever is unread begins with the size and then the bytes of some message.
LEMMA FirstSize ==
  ASSUME ShortMessages, NEW f \in Seq(Messages), NEW t \in ByteBuffer, Unfinished(t),
         f # <<>> \/ t # <<>>
  PROVE  \E m \in Messages, r \in ByteBuffer : StartsWith(f, t, m, r)
<1> USE DEF StartsWith
<1>1. CASE f # <<>>
  <2> DEFINE m == Head(f)
             W == SizeWord(Len(Data[m]))
             D == Data[m]
             F == Flat(Tail(f))
  <2>1. m \in Messages /\ Tail(f) \in Seq(Messages)
    BY <1>1
  <2>2. W \in ByteBuffer /\ D \in ByteBuffer
    <3>1. 0 \in 0..Len(Data[m])
      BY <2>1, DataLength
    <3> QED BY <2>1, <3>1, FrameParts
  <2>3. F \in ByteBuffer
    BY <2>1, FlatFacts, Zenon
  <2>4. Flat(f) = (W \o D) \o F
    BY <1>1, FlatFacts, Zenon DEF Frame
  <2> HIDE DEF m, W, D, F
  <2>5. D \o F \in ByteBuffer /\ F \o t \in ByteBuffer /\ D \o (F \o t) \in ByteBuffer
    BY <2>2, <2>3, Joined
  <2>6. Flat(f) \o t = W \o (D \o (F \o t))
    <3>1. (W \o D) \o F = W \o (D \o F)
      BY <2>2, <2>3, JoinedThree
    <3>2. (W \o (D \o F)) \o t = W \o ((D \o F) \o t)
      BY <2>2, <2>5, JoinedThree, ZenonT(30)
    <3>3. (D \o F) \o t = D \o (F \o t)
      BY <2>2, <2>3, JoinedThree
    <3> QED BY <2>4, <3>1, <3>2, <3>3, Zenon
  <2> QED BY <1>1, <2>1, <2>5, <2>6, Zenon DEF m, W, D, F
<1>2. CASE f = <<>>
  <2>1. PICK m \in Messages, d \in Nat : d < Len(Data[m]) /\ t = Begun(m, d)
    BY <1>2 DEF Unfinished
  <2>2. d \in 0..Len(Data[m])
    BY <2>1, DataLength
  <2> DEFINE r == SubSeq(Data[m], 1, d)
  <2>3. r \in ByteBuffer /\ Len(r) = d
    BY <2>2, FrameParts
  <2>4. Flat(f) \o t = t
    BY <1>2, FlatFacts, Joined, Zenon
  <2>5. t = SizeWord(Len(Data[m])) \o r
    BY <2>1 DEF Begun
  <2>6. Len(r) < Len(Data[m])
    BY <2>1, <2>3
  <2> HIDE DEF r
  <2> QED BY <1>2, <2>3, <2>4, <2>5, <2>6, Zenon
<1> QED BY <1>1, <1>2, Zenon

\* When ReadMessage has a whole body before it, it is that of the first message
\* in flight.
LEMMA BodyOfFirst ==
  ASSUME ShortMessages, TypeOK, reader = "body", FitsWord(need), Len(wire) >= need,
         NEW t \in ByteBuffer, Unfinished(t), Unread = Flat(flight) \o t
  PROVE  /\ flight # <<>>
         /\ SubSeq(wire, 1, need) = Data[Head(flight)]
         /\ Rest(need) = Flat(Tail(flight)) \o t
<1>1. wire \in ByteBuffer /\ need \in Nat /\ flight \in Seq(Messages) /\ Len(wire) \in Nat
  BY BufferIsFunction DEF TypeOK
<1>2. Unread = SizeWord(need) \o wire
  BY DEF Unread
<1>3. flight # <<>> \/ t # <<>>
  <2>1. Len(SizeWord(need) \o wire) = 4 + Len(wire)
    BY <1>1, SizeIsRead
  <2>2. ASSUME flight = <<>>, t = <<>> PROVE FALSE
    <3>1. SizeWord(need) \o wire = <<>> \o <<>>
      BY <1>1, <1>2, <2>2, FlatFacts, Zenon
    <3>2. Len(SizeWord(need) \o wire) = 0
      BY <3>1
    <3> QED BY <1>1, <2>1, <3>2
  <2> QED BY <2>2
<1>4. PICK m \in Messages, r \in ByteBuffer :
         /\ SizeWord(need) \o wire = SizeWord(Len(Data[m])) \o r
         /\ flight # <<>> => m = Head(flight) /\ r = Data[m] \o (Flat(Tail(flight)) \o t)
         /\ flight = <<>> => Len(r) < Len(Data[m])
  <2>1. PICK m \in Messages, r \in ByteBuffer : StartsWith(flight, t, m, r)
    BY <1>1, <1>3, FirstSize
  <2>2. SizeWord(need) \o wire = SizeWord(Len(Data[m])) \o r
    BY <1>2, <2>1, Zenon DEF StartsWith
  <2> QED BY <2>1, <2>2, Zenon DEF StartsWith
<1>5. Len(Data[m]) \in Nat /\ FitsWord(Len(Data[m])) /\ Data[m] \in ByteBuffer
  <2>1. Len(Data[m]) \in Nat /\ 0 \in 0..Len(Data[m])
    BY DataLength
  <2> QED BY <2>1, FrameParts
<1>6. need = Len(Data[m]) /\ wire = r
  <2> DEFINE b == SizeWord(need) \o wire
             c == SizeWord(Len(Data[m])) \o r
  <2>1. GetLength(b, 0) = need /\ SubSeq(b, 5, Len(b)) = wire
    BY <1>1, SizeIsRead, SMTT(30)
  <2>2. GetLength(c, 0) = Len(Data[m]) /\ SubSeq(c, 5, Len(c)) = r
    BY <1>5, SizeIsRead, Zenon
  <2>3. b = c
    BY <1>4
  <2> HIDE DEF b, c
  <2> QED BY <2>1, <2>2, <2>3, Zenon
<1>7. flight # <<>>
  BY <1>1, <1>4, <1>5, <1>6
<1> DEFINE D == Data[m]
           x == Flat(Tail(flight)) \o t
<1>8. x \in ByteBuffer /\ wire = D \o x
  <2>1. Tail(flight) \in Seq(Messages)
    BY <1>1, <1>7
  <2>2. Flat(Tail(flight)) \in ByteBuffer
    BY <2>1, FlatFacts, Zenon
  <2>3. x \in ByteBuffer
    BY <2>2, Joined
  <2> QED BY <1>4, <1>6, <1>7, <2>3, Zenon
<1>9. SubSeq(D \o x, 1, Len(D)) = D /\ SubSeq(D \o x, Len(D) + 1, Len(D \o x)) = x
  BY <1>5, <1>8, PartOfJoined, Zenon
<1> HIDE DEF D, x
<1>10. need = Len(D) /\ D = Data[Head(flight)]
  BY <1>4, <1>6, <1>7 DEF D
<1>11. SubSeq(wire, 1, need) = D /\ Rest(need) = x
  BY <1>8, <1>9, <1>10, Zenon DEF Rest
<1> QED BY <1>7, <1>10, <1>11 DEF x

\* Every step of one writer and the reader keeps them in step.
LEMMA InStepKept ==
  ASSUME ShortMessages, NEW w, Writers = {w}, InStep(w), [Next]_vars
  PROVE  InStep(w)'
<1>t. TypeOK /\ TypeOK'
  BY NextType DEF InStep
<1>f. flight \in Seq(Messages) /\ Flat(flight) \in ByteBuffer /\ wire \in ByteBuffer /\ Len(wire) \in Nat
  BY <1>t, FlatFacts, BufferIsFunction DEF TypeOK
<1>u. ASSUME reader # "closed"
      PROVE  \E t \in ByteBuffer : /\ Unfinished(t) /\ Unread = Flat(flight) \o t
                                   /\ connected => t = Part(w)
  BY <1>u DEF InStep
<1>w. writing[w] # NotWriting =>
         writing[w].msg \in Messages /\ writing[w].done \in Nat /\ writing[w].done < Len(Data[writing[w].msg])
  BY <1>t DEF InStep, TypeOK
<1>1. ASSUME NEW m \in Messages, WriteSize(w, m) PROVE InStep(w)'
  <2> DEFINE s == SizeWord(Len(Data[m]))
  <2>1. 0 \in 0..Len(Data[m]) /\ 0 < Len(Data[m])
    BY DataLength
  <2>2. s \in ByteBuffer /\ Begun(m, 0) = s /\ Unfinished(s)
    BY <2>1, FrameParts, UnfinishedType
  <2> HIDE DEF s
  <2>3. /\ connected /\ writing[w] = NotWriting /\ wire' = wire \o s
        /\ writing' = [writing EXCEPT ![w] = [msg |-> m, done |-> 0]]
        /\ UNCHANGED <<connected, flight, reader, need>>
    BY <1>1 DEF WriteSize, readerVars, s
  <2>4. writing'[w] = [msg |-> m, done |-> 0]
    BY <1>t, <2>3 DEF TypeOK
  <2>5. writing'[w].msg = m /\ writing'[w].done = 0
    BY <2>4
  <2>6. Part(w)' = s
    <3>1. m # NoMessage
      BY RealMessage
    <3>2. writing'[w] # NotWriting
      BY <2>5, <3>1 DEF NotWriting
    <3> QED BY <2>2, <2>5, <3>2 DEF Part
  <2>7. ASSUME reader' # "closed"
        PROVE  \E t \in ByteBuffer : Unfinished(t) /\ Unread' = Flat(flight') \o t /\ (connected' => t = Part(w)')
    <3>1. Unread = Flat(flight) \o <<>> /\ <<>> \in ByteBuffer
      BY <1>u, <2>3, <2>7, Zenon DEF Part, ByteBuffer
    <3>2. Unread' = Flat(flight) \o (<<>> \o s)
      BY <1>t, <1>f, <2>2, <2>3, <3>1, UnreadGrows, Zenon
    <3>3. <<>> \o s = s
      BY <2>2, Joined
    <3> QED BY <2>2, <2>3, <2>6, <3>2, <3>3
  <2>8. reader' = "body" => FitsWord(need')
    BY <2>3 DEF InStep
  <2> QED BY <1>t, <2>1, <2>5, <2>7, <2>8 DEF InStep, Unfinished
<1>2. CASE WriteBody(w)
  <2> DEFINE m == writing[w].msg
             done == writing[w].done
             D == Data[m]
             upto(n) == IF done + n < Len(D) THEN done + n ELSE Len(D)
  <2>1. /\ connected /\ writing[w] # NotWriting /\ UNCHANGED <<connected, reader, need>>
        /\ \E n \in PieceSizes :
             /\ wire' = wire \o SubSeq(D, done + 1, upto(n))
             /\ writing' = [writing EXCEPT ![w] = IF upto(n) = Len(D) THEN NotWriting
                                                  ELSE [msg |-> m, done |-> upto(n)]]
             /\ flight' = IF upto(n) = Len(D) THEN Append(flight, m) ELSE flight
    BY <1>2, Zenon DEF WriteBody, readerVars
  <2>2. PICK n \in PieceSizes :
          /\ wire' = wire \o SubSeq(D, done + 1, upto(n))
          /\ writing' = [writing EXCEPT ![w] = IF upto(n) = Len(D) THEN NotWriting
                                               ELSE [msg |-> m, done |-> upto(n)]]
          /\ flight' = IF upto(n) = Len(D) THEN Append(flight, m) ELSE flight
    BY <2>1, Zenon
  <2> DEFINE up == upto(n)
             s == SubSeq(D, done + 1, up)
  <2>3. m \in Messages /\ done \in Nat /\ done < Len(D) /\ D \in ByteBuffer /\ Len(D) \in Nat
    BY <1>w, <2>1, DataType, Zenon
  <2>4. up \in Nat /\ done < up /\ up <= Len(D) /\ s \in ByteBuffer
    <3>1. n \in Nat \ {0}
      BY StreamAssumption
    <3>2. up \in Nat /\ done < up /\ up <= Len(D)
      BY <2>3, <3>1
    <3> HIDE DEF up
    <3>3. s \in ByteBuffer
      BY <2>3, <3>2, PartType
    <3> QED BY <3>2, <3>3
  <2>5. /\ wire' = wire \o s
        /\ writing' = [writing EXCEPT ![w] = IF up = Len(D) THEN NotWriting ELSE [msg |-> m, done |-> up]]
        /\ flight' = IF up = Len(D) THEN Append(flight, m) ELSE flight
    BY <2>2, Zenon
  <2>6. Part(w) = Begun(m, done)
    BY <2>1, Zenon DEF Part
  <2> HIDE DEF m, done, D, upto, up, s
  <2>7. Begun(m, done) \o s = Begun(m, up) /\ Begun(m, done) \in ByteBuffer /\ Begun(m, up) \in ByteBuffer
    <3> DEFINE W == SizeWord(Len(D))
               p == SubSeq(D, 1, done)
               q == SubSeq(D, 1, up)
    <3>1. done \in 0..Len(Data[m]) /\ up \in 0..Len(Data[m])
      BY <2>3, <2>4 DEF D
    <3>2. /\ W \in ByteBuffer /\ p \in ByteBuffer
          /\ Begun(m, done) \in ByteBuffer /\ Begun(m, up) \in ByteBuffer
      BY <2>3, <3>1, FrameParts DEF D
    <3>3. Begun(m, done) = W \o p /\ Begun(m, up) = W \o q
      BY DEF Begun, D
    <3>4. p \o s = q
      <4>1. 1 \in 1..Len(D) + 1 /\ done \in 1 - 1 .. Len(D) /\ up \in done .. Len(D)
        BY <2>3, <2>4
      <4> QED BY <2>3, <4>1, ConcatAdjacentSubSeq DEF s, ByteBuffer
    <3> HIDE DEF W, p, q
    <3>5. (W \o p) \o s = W \o (p \o s)
      BY <2>4, <3>2, JoinedThree, SMTT(30)
    <3> QED BY <3>2, <3>3, <3>4, <3>5
  <2>8. writing'[w] = IF up = Len(D) THEN NotWriting ELSE [msg |-> m, done |-> up]
    BY <1>t, <2>5 DEF TypeOK
  <2>9. ASSUME reader' # "closed" PROVE Unread' = Flat(flight) \o Begun(m, up)
    <3>1. Unread = Flat(flight) \o Begun(m, done)
      BY <1>u, <2>1, <2>6, <2>9
    <3>2. Unread' = Flat(flight) \o (Begun(m, done) \o s)
      BY <1>t, <1>f, <2>1, <2>4, <2>5, <2>7, <3>1, UnreadGrows, ZenonT(30)
    <3> QED BY <2>7, <3>2
  <2>10. reader' = "body" => FitsWord(need')
    BY <2>1 DEF InStep
  <2>11. CASE up = Len(D)
    <3>1. writing'[w] = NotWriting /\ Part(w)' = <<>> /\ flight' = Append(flight, m)
      BY <2>5, <2>8, <2>11 DEF Part
    <3>2. Flat(flight') = Flat(flight) \o Begun(m, up)
      <4>1. Begun(m, up) = Frame(m)
        <5>1. 0 \in 0..Len(Data[m])
          BY <2>3 DEF D
        <5> QED BY <2>3, <2>11, <5>1, FrameParts DEF D
      <4> QED BY <1>f, <2>3, <3>1, <4>1, FlatFacts, Zenon
    <3>3. Flat(flight) \o Begun(m, up) \in ByteBuffer
      BY <1>f, <2>7, Joined
    <3>4. Flat(flight') \o <<>> = Flat(flight') /\ <<>> \in ByteBuffer
      BY <3>2, <3>3, Joined
    <3>5. reader' # "closed" => Unread' = Flat(flight') \o <<>>
      BY <2>9, <3>2, <3>4
    <3> QED BY <1>t, <2>10, <3>1, <3>4, <3>5, Zenon DEF InStep, Unfinished
  <2>12. CASE up # Len(D)
    <3>1. writing'[w].msg = m /\ writing'[w].done = up /\ flight' = flight
      BY <2>5, <2>8, <2>12
    <3>2. up < Len(Data[m])
      BY <2>3, <2>4, <2>12 DEF D
    <3>3. Unfinished(Begun(m, up))
      BY <2>3, <2>4, <3>2, UnfinishedType
    <3>4. writing'[w] # NotWriting
      <4>1. up # 0
        BY <2>3, <2>4
      <4> QED BY <3>1, <4>1 DEF NotWriting
    <3>5. Part(w)' = Begun(m, up)
      BY <3>1, <3>4 DEF Part
    <3>6. reader' # "closed" => Unread' = Flat(flight') \o Begun(m, up)
      BY <2>9, <3>1
    <3> QED BY <1>t, <2>7, <2>10, <3>1, <3>2, <3>3, <3>5, <3>6, Zenon DEF InStep, Unfinished
  <2> QED BY <2>11, <2>12
<1>3. CASE WriteFails(w) \/ Close
  <2>1. UNCHANGED <<wire, flight, reader, need>> /\ connected' = FALSE
        /\ (writing'[w] = NotWriting \/ writing' = writing)
    BY <1>3, <1>t DEF WriteFails, Close, readerVars, TypeOK
  <2>2. Unread' = Unread
    BY <2>1 DEF Unread
  <2>3. reader' # "closed" =>
           \E t \in ByteBuffer : Unfinished(t) /\ Unread' = Flat(flight') \o t /\ (connected' => t = Part(w)')
    BY <1>u, <2>1, <2>2
  <2> QED BY <1>t, <2>1, <2>3 DEF InStep, Unfinished
<1>4. CASE ReadSize
  <2>1. /\ reader = "size" /\ Len(wire) >= 4 /\ need' = GetLength(wire, 0) /\ wire' = Rest(4)
        /\ reader' = "body" /\ UNCHANGED <<connected, writing, flight>>
    BY <1>4 DEF ReadSize, writerVars
  <2>2. PICK t \in ByteBuffer : Unfinished(t) /\ Unread = Flat(flight) \o t /\ (connected => t = Part(w))
    BY <1>u, <2>1
  <2>3. wire = Flat(flight) \o t
    BY <2>1, <2>2 DEF Unread
  <2>4. flight # <<>> \/ t # <<>>
    <3>1. SUFFICES ASSUME flight = <<>>, t = <<>> PROVE FALSE
      OBVIOUS
    <3>2. wire = <<>> \o <<>>
      BY <1>f, <2>3, <3>1, FlatFacts, Zenon
    <3>3. Len(wire) = 0
      BY <3>2
    <3> QED BY <2>1, <3>3
  <2>5. PICK m \in Messages, r \in ByteBuffer : Flat(flight) \o t = SizeWord(Len(Data[m])) \o r
    <3>1. PICK m \in Messages, r \in ByteBuffer : StartsWith(flight, t, m, r)
      BY <1>f, <2>2, <2>4, FirstSize
    <3> QED BY <3>1, Zenon DEF StartsWith
  <2> DEFINE k == Len(Data[m])
  <2>6. k \in Nat /\ FitsWord(k)
    <3>1. Len(Data[m]) \in Nat /\ 0 \in 0..Len(Data[m])
      BY DataLength
    <3> QED BY <3>1, FrameParts
  <2> HIDE DEF k
  <2>7. wire = SizeWord(k) \o r
    BY <2>3, <2>5 DEF k
  <2>8. need' = k /\ wire' = r
    <3>1. GetLength(wire, 0) = k /\ SubSeq(wire, 5, Len(wire)) = r
      BY <2>6, <2>7, SizeIsRead
    <3>2. Rest(4) = SubSeq(wire, 5, Len(wire))
      BY DEF Rest
    <3> QED BY <2>1, <3>1, <3>2, Zenon
  <2>9. Unread' = wire
    BY <2>1, <2>7, <2>8, Zenon DEF Unread
  <2>10. Unread' = Flat(flight') \o t /\ (connected' => t = Part(w)')
    BY <2>1, <2>2, <2>3, <2>9, SMTT(30) DEF Part
  <2>11. FitsWord(need') /\ (writing'[w] # NotWriting => writing'[w].done < Len(Data[writing'[w].msg]))
    BY <1>w, <2>1, <2>6, <2>8
  <2> QED BY <1>t, <2>2, <2>10, <2>11 DEF InStep, Unfinished
<1>5. CASE ReadBody
  <2>1. /\ reader = "body" /\ Len(wire) >= need /\ wire' = Rest(need) /\ reader' = "size"
        /\ flight' = IF flight = <<>> THEN flight ELSE Tail(flight)
        /\ UNCHANGED <<connected, writing>>
    BY <1>5 DEF ReadBody, writerVars
  <2>2. PICK t \in ByteBuffer : Unfinished(t) /\ Unread = Flat(flight) \o t /\ (connected => t = Part(w))
    BY <1>u, <2>1, SMTT(30)
  <2>3. FitsWord(need)
    BY <2>1 DEF InStep
  <2>4. flight # <<>> /\ Rest(need) = Flat(Tail(flight)) \o t
    BY <1>t, <2>1, <2>2, <2>3, BodyOfFirst
  <2>5. Unread' = Flat(flight') \o t /\ (connected' => t = Part(w)')
    BY <2>1, <2>2, <2>4 DEF Unread, Part
  <2>6. reader' # "body" /\ (writing'[w] # NotWriting => writing'[w].done < Len(Data[writing'[w].msg]))
    BY <1>w, <2>1
  <2> QED BY <1>t, <2>2, <2>5, <2>6, Zenon DEF InStep, Unfinished
<1>6. CASE ReadFails
  <2>1. reader' = "closed" /\ UNCHANGED writing
    BY <1>6 DEF ReadFails, writerVars
  <2> QED BY <1>t, <1>w, <2>1 DEF InStep
<1>7. CASE UNCHANGED vars
  <2>1. UNCHANGED <<connected, writing, wire, reader, need, flight>>
    BY <1>7 DEF vars, writerVars, readerVars
  <2>2. Unread' = Unread /\ Part(w)' = Part(w)
    BY <2>1 DEF Unread, Part
  <2> QED BY <1>t, <1>u, <1>w, <2>1, <2>2 DEF InStep, Unfinished
<1> QED
  BY <1>1, <1>2, <1>3, <1>4, <1>5, <1>6, <1>7 DEF Next

\* They are in step at first: nothing is written and nothing read.
LEMMA InStepInit ==
  ASSUME ShortMessages, NEW w, Writers = {w}
  PROVE  Init => InStep(w)
<1> SUFFICES ASSUME Init PROVE InStep(w)
  OBVIOUS
<1>1. TypeOK
  BY StreamAssumption DEF Init, TypeOK, ByteBuffer
<1>2. writing[w] = NotWriting /\ reader = "size" /\ wire = <<>> /\ flight = <<>>
  BY DEF Init
<1>3. flight \in Seq(Messages) /\ <<>> \in ByteBuffer
  BY <1>1 DEF TypeOK, ByteBuffer
<1>4. Unread = Flat(flight) \o <<>> /\ Part(w) = <<>>
  <2>1. Flat(flight) = <<>> /\ <<>> \o <<>> = <<>>
    BY <1>2, <1>3, FlatFacts, Joined, Zenon
  <2> QED BY <1>2, <2>1 DEF Unread, Part
<1> QED BY <1>1, <1>2, <1>3, <1>4, Zenon DEF InStep, Unfinished

\* While one thread does all the sending, and no message is longer than its size
\* word can say, what ReadMessage has before it begins with exactly the frames of
\* the messages written and not yet read, however the socket cuts the writes and
\* whenever the session is closed.
THEOREM FramesStayIntact ==
  ASSUME ShortMessages, NEW w, Writers = {w}
  PROVE  Spec => []FramesAreIntact
<1>1. InStep(w) => FramesAreIntact
  <2> SUFFICES ASSUME InStep(w), reader # "closed" PROVE Before(Flat(flight))
    BY DEF FramesAreIntact, Flat, Frames
  <2>1. PICK t \in ByteBuffer : Unread = Flat(flight) \o t
    BY DEF InStep
  <2>2. Flat(flight) \in ByteBuffer
    BY FlatFacts DEF InStep, TypeOK
  <2> DEFINE F == Flat(flight)
  <2> HIDE DEF F
  <2>3. F \in ByteBuffer /\ Unread = F \o t
    BY <2>1, <2>2 DEF F
  <2>4. Len(F) <= Len(F \o t)
    BY <2>3, Joined
  <2>5. SubSeq(F \o t, 1, Len(F)) = F
    BY <2>3, PartOfJoined
  <2> QED BY <2>3, <2>4, <2>5 DEF Before, F
<1>2. Init => InStep(w)
  BY InStepInit
<1>3. InStep(w) /\ [Next]_vars => InStep(w)'
  BY InStepKept
<1> QED BY <1>1, <1>2, <1>3, PTL DEF Spec

\* What CreateFromBuffer makes of a message another session has serialised: the
\* message itself, or nothing if the factory does not know its class.
LEMMA FactoryReads ==
  ASSUME NEW m \in Messages
  PROVE  CreateFromBuffer(Data[m]) = IF m \in Decodable THEN m ELSE NoMessage
<1> DEFINE b == Data[m]
<1>1. m \in Message /\ Fits(m) /\ b = Serialize(m) /\ b \in ByteBuffer /\ Len(b) \in Nat
  BY DataType
<1>2. m \in Decodable <=> m \in FactoryMessage
  BY DEF Decodable
<1>3. CASE m \in ChatMessage
  <2>1. m.type = CHAT_MESSAGE
    BY <1>3 DEF ChatMessage
  <2> QED BY <1>1, <1>2, <1>3, <2>1, ClassChoice, ChatRoundTrip, SMTT(30) DEF FactoryMessage
<1>4. CASE m \in FileTransferRequestMessage
  <2>1. m.type = FILE_TRANSFER_REQUEST
    BY <1>4 DEF FileTransferRequestMessage
  <2> QED BY <1>1, <1>2, <1>4, <2>1, ClassChoice, RequestRoundTrip, SMTT(30) DEF FactoryMessage
<1>5. CASE m \in ConnectionMessage
  <2>1. m.type = CONNECTION_NOTIFICATION
    BY <1>5 DEF ConnectionMessage
  <2> QED BY <1>1, <1>2, <1>5, <2>1, ClassChoice, ConnectionRoundTrip, SMTT(30) DEF FactoryMessage
<1>n. ASSUME m.type \in {FILE_CHUNK, FILE_TRANSFER_COMPLETE} PROVE m \notin FactoryMessage
  BY <1>n, TypesDiffer DEF FactoryMessage, ChatMessage, FileTransferRequestMessage, ConnectionMessage
<1>6. CASE m \in FileChunkMessage
  <2>1. m.type = FILE_CHUNK
    BY <1>6 DEF FileChunkMessage
  <2>2. b = SerializeChunk(m)
    BY <1>1, <2>1, ClassChoice
  <2>3. HeaderIs(b, m) /\ Len(b) >= 57
    <3>1. /\ HeaderIs(SerializeChunk(m), m)
          /\ Len(SerializeChunk(m)) = 69 + Len(m.file_id) + Len(m.data)
      BY <1>1, <1>6, ChunkWritten, Zenon DEF Fits
    <3>2. Len(m.file_id) \in Nat /\ Len(m.data) \in Nat
      BY <1>6, BufferIsFunction DEF FileChunkMessage
    <3>3. 69 + Len(m.file_id) + Len(m.data) >= 57
      <4>1. \A k, l \in Nat : 69 + k + l >= 57
        OBVIOUS
      <4> QED BY <3>2, <4>1, Zenon
    <3> HIDE DEF b
    <3> QED BY <2>2, <3>1, <3>3, Zenon
  <2>4. b[1] = FILE_CHUNK
    BY <1>1, <2>1, <2>3, HeaderType
  <2> HIDE DEF b
  <2>5. CreateFromBuffer(b) = NoMessage
    BY <2>4, TypesDiffer DEF CreateFromBuffer
  <2> QED BY <1>2, <1>n, <2>1, <2>5 DEF b
<1>7. CASE m \in FileTransferCompleteMessage
  <2>1. m.type = FILE_TRANSFER_COMPLETE
    BY <1>7 DEF FileTransferCompleteMessage
  <2>2. b = SerializeComplete(m)
    BY <1>1, <2>1, ClassChoice
  <2>3. HeaderIs(b, m) /\ Len(b) >= 57
    <3>1. /\ HeaderIs(SerializeComplete(m), m)
          /\ Len(SerializeComplete(m)) = 66 + Len(m.file_id) + Len(m.error_message)
      BY <1>1, <1>7, CompleteWritten, Zenon DEF Fits
    <3>2. Len(m.file_id) \in Nat /\ Len(m.error_message) \in Nat
      BY <1>7, BufferIsFunction DEF FileTransferCompleteMessage
    <3>3. 66 + Len(m.file_id) + Len(m.error_message) >= 57
      <4>1. \A k, l \in Nat : 66 + k + l >= 57
        OBVIOUS
      <4> QED BY <3>2, <4>1, Zenon
    <3> HIDE DEF b
    <3> QED BY <2>2, <3>1, <3>3, Zenon
  <2>4. b[1] = FILE_TRANSFER_COMPLETE
    BY <1>1, <2>1, <2>3, HeaderType
  <2> HIDE DEF b
  <2>5. CreateFromBuffer(b) = NoMessage
    BY <2>4, TypesDiffer DEF CreateFromBuffer
  <2> QED BY <1>2, <1>n, <2>1, <2>5 DEF b
<1> QED BY <1>1, <1>3, <1>4, <1>5, <1>6, <1>7 DEF Message, FactoryMessage

\* Every step of the session is one of the channel's, or none.
LEMMA ChannelStep ==
  ASSUME ShortMessages, NEW w, Writers = {w}, InStep(w), [Next]_vars
  PROVE  [Channel!ChannelNext]_(Channel!channelVars)
<1>t. flight \in Seq(Messages)
  BY DEF InStep, TypeOK
<1> USE DEF Channel!channelVars
<1>1. CASE UNCHANGED <<flight, delivered, reader>>
  BY <1>1
<1>2. CASE WriteBody(w)
  <2>1. UNCHANGED <<delivered, reader>> /\ writing[w] # NotWriting
        /\ (flight' = flight \/ flight' = Append(flight, writing[w].msg))
    BY <1>2, Zenon DEF WriteBody, readerVars
  <2>2. writing[w].msg \in Messages
    BY <2>1 DEF InStep, TypeOK
  <2>3. flight' = flight \/ Channel!Send(writing[w].msg)
    BY <2>1 DEF Channel!Send
  <2> QED BY <2>1, <2>2, <2>3 DEF Channel!ChannelNext
<1>3. CASE ReadFails
  <2>1. reader' = "closed" /\ UNCHANGED <<flight, delivered>>
    BY <1>3 DEF ReadFails
  <2>2. Channel!Break
    BY <2>1 DEF Channel!Break
  <2> QED BY <2>2 DEF Channel!ChannelNext
<1>4. CASE ReadBody
  <2> DEFINE message == CreateFromBuffer(SubSeq(wire, 1, need))
  <2>1. /\ reader = "body" /\ Len(wire) >= need /\ reader' = "size"
        /\ delivered' = IF message = NoMessage THEN delivered ELSE Append(delivered, message)
        /\ flight' = IF flight = <<>> THEN flight ELSE Tail(flight)
    BY <1>4 DEF ReadBody
  <2>2. PICK t \in ByteBuffer : Unfinished(t) /\ Unread = Flat(flight) \o t
    BY <2>1 DEF InStep
  <2>3. TypeOK /\ FitsWord(need)
    BY <2>1 DEF InStep
  <2>4. flight # <<>> /\ SubSeq(wire, 1, need) = Data[Head(flight)]
    BY <2>1, <2>2, <2>3, BodyOfFirst
  <2>5. Head(flight) \in Messages
    BY <1>t, <2>4
  <2>6. message = IF Head(flight) \in Decodable THEN Head(flight) ELSE NoMessage
    BY <2>4, <2>5, FactoryReads, Zenon
  <2>7. Head(flight) # NoMessage
    BY <2>5, RealMessage
  <2> HIDE DEF message
  <2>8. delivered' = IF Head(flight) \in Decodable THEN Append(delivered, Head(flight)) ELSE delivered
    BY <2>1, <2>6, <2>7
  <2>9. reader # "closed" /\ reader' # "closed" /\ flight' = Tail(flight)
    BY <2>1, <2>4
  <2>10. Channel!Take
    BY <2>4, <2>8, <2>9 DEF Channel!Take
  <2> QED BY <2>10 DEF Channel!ChannelNext
<1>5. CASE ReadSize
  <2>1. UNCHANGED <<flight, delivered>> /\ reader # "closed" /\ reader' # "closed"
    BY <1>5 DEF ReadSize
  <2> QED BY <2>1
<1>6. ASSUME \/ Close \/ WriteFails(w) \/ (\E m \in Messages : WriteSize(w, m)) \/ UNCHANGED vars
      PROVE  UNCHANGED <<flight, delivered, reader>>
  BY <1>6 DEF Close, WriteFails, WriteSize, vars, readerVars
<1> QED
  BY <1>1, <1>2, <1>3, <1>4, <1>5, <1>6, SMTT(30) DEF Next

\* PeerSession implements the channel its users see, as long as one thread does
\* all the sending: messages are handed to the callback in the order they were
\* sent, each once and unaltered, and those the factory does not know are left
\* out without disturbing the others.
THEOREM SessionIsChannel ==
  ASSUME ShortMessages, NEW w, Writers = {w}
  PROVE  Spec => ImplementsChannel
<1>1. Init => Channel!ChannelInit
  BY DEF Init, Channel!ChannelInit
<1>2. Init => InStep(w)
  BY InStepInit
<1>3. InStep(w) /\ [Next]_vars => InStep(w)'
  BY InStepKept
<1>4. InStep(w) /\ [Next]_vars => [Channel!ChannelNext]_(Channel!channelVars)
  BY ChannelStep
<1> QED BY <1>1, <1>2, <1>3, <1>4, PTL DEF Spec, ImplementsChannel, Channel!ChannelSpec
=============================================================================
