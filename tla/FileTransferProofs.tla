------------------------- MODULE FileTransferProofs -------------------------
(***************************************************************************)
(* Proofs about FileTransfer for any peers, files, chunk size, decoder and *)
(* number of requests.                                                     *)
(***************************************************************************)
EXTENDS FileTransfer, FiniteSetTheorems, TLAPS

\* The bytes in a set of chunks of p's file: all are full, except for the last one,
\* which is as much shorter as the file is than a whole number of chunks.
Missing(p) == NumChunks(p) * ChunkSize - FileSize[p]
BytesOf(p, R) ==
  Cardinality(R) * ChunkSize - (IF NumChunks(p) - 1 \in R THEN Missing(p) ELSE 0)

\* The last chunk begins before the end of the file and does not end before it.
LEMMA ChunkCount ==
  ASSUME NEW p \in Peers
  PROVE  /\ FileSize[p] \in Nat /\ ChunkSize \in Nat \ {0}
         /\ NumChunks(p) \in Nat
         /\ Missing(p) \in 0 .. ChunkSize - 1
         /\ IsFiniteSet(Chunks(p)) /\ Cardinality(Chunks(p)) = NumChunks(p)
         /\ Chunks(p) \subseteq Nat
<1> DEFINE a == FileSize[p] + ChunkSize - 1
<1>1. FileSize[p] \in Nat /\ ChunkSize \in Nat \ {0} /\ a \in Nat
  BY FileAssumption
<1>2. /\ a \div ChunkSize \in Nat
      /\ ChunkSize * (a \div ChunkSize) <= a /\ a < ChunkSize * (a \div ChunkSize) + ChunkSize
  <2>1. \A x \in Nat, y \in Nat \ {0} :
          x \div y \in Nat /\ y * (x \div y) <= x /\ x < y * (x \div y) + y
    BY Z3
  <2> HIDE DEF a
  <2> QED BY <1>1, <2>1
<1>3. NumChunks(p) = a \div ChunkSize
  BY DEF NumChunks
<1> HIDE DEF a
<1>4. a = FileSize[p] + ChunkSize - 1
  BY DEF a
<1>5. Missing(p) \in 0 .. ChunkSize - 1
  <2> DEFINE n == NumChunks(p)
  <2>1. n \in Nat /\ n * ChunkSize = ChunkSize * n
    BY <1>1, <1>2, <1>3
  <2>2. n * ChunkSize \in Nat /\ ChunkSize * n <= a /\ a < ChunkSize * n + ChunkSize
    BY <1>1, <1>2, <1>3, <2>1
  <2> QED
    BY <1>1, <1>4, <2>1, <2>2 DEF Missing
<1>6. IsFiniteSet(Chunks(p)) /\ Cardinality(Chunks(p)) = NumChunks(p) /\ Chunks(p) \subseteq Nat
  BY <1>2, <1>3, FS_Interval, SMTT(30) DEF Chunks
<1> QED
  BY <1>1, <1>2, <1>3, <1>5, <1>6

\* What DataSize is for each chunk.
LEMMA ChunkSizes ==
  ASSUME NEW p \in Peers, NEW i \in Chunks(p)
  PROVE  /\ DataSize(p, i) = IF i = NumChunks(p) - 1 THEN ChunkSize - Missing(p) ELSE ChunkSize
         /\ DataSize(p, i) \in Nat \ {0}
<1> DEFINE n == NumChunks(p)
           c == ChunkSize
           f == FileSize[p]
<1>1. f \in Nat /\ c \in Nat \ {0} /\ n \in Nat /\ Missing(p) = n * c - f /\ Missing(p) \in 0 .. c - 1
  BY ChunkCount DEF Missing
<1>2. i \in 0 .. n - 1
  BY DEF Chunks
<1>3. DataSize(p, i) = IF c <= f - i * c THEN c ELSE f - i * c
  <2>1. i * c \in Nat
    BY <1>1, <1>2
  <2>2. \A x, y \in Int : Min({x, y}) = IF x <= y THEN x ELSE y
    <3> TAKE x, y \in Int
    <3>1. \E z \in {x, y} : \A w \in {x, y} : z <= w
      OBVIOUS
    <3>2. Min({x, y}) \in {x, y} /\ \A w \in {x, y} : Min({x, y}) <= w
      BY <3>1, Zenon DEF Min
    <3> QED BY <3>2
  <2> QED
    <3> HIDE DEF c, f
    <3>1. DataSize(p, i) = Min({c, f - i * c})
      BY DEF DataSize, c, f
    <3>2. c \in Int /\ f - i * c \in Int
      BY <1>1, <2>1
    <3> QED BY <2>2, <3>1, <3>2
<1> HIDE DEF n, c, f
<1>4. CASE i = n - 1
  <2>1. i * c = n * c - c
    BY <1>1, <1>4, <1>2, Z3
  <2>2. n * c \in Nat
    BY <1>1
  <2> QED
    BY <1>1, <1>2, <1>3, <1>4, <2>1, <2>2 DEF n, c, f
<1>5. CASE i # n - 1
  <2>1. (i + 2) * c <= n * c
    BY <1>1, <1>2, <1>5, Z3
  <2>2. (i + 2) * c = i * c + c + c /\ i * c \in Nat /\ n * c \in Nat
    BY <1>1, <1>2, Z3
  <2> QED
    BY <1>1, <1>2, <1>3, <1>5, <2>1, <2>2 DEF n, c, f
<1> QED BY <1>4, <1>5

\* One chunk more is its size more.
LEMMA BytesAdd ==
  ASSUME NEW p \in Peers, NEW R \in SUBSET Chunks(p), NEW i \in Chunks(p), i \notin R
  PROVE  /\ BytesOf(p, R) \in Int
         /\ BytesOf(p, R \cup {i}) = BytesOf(p, R) + DataSize(p, i)
<1>1. IsFiniteSet(R) /\ Cardinality(R) \in Nat
  BY ChunkCount, FS_Subset, FS_CardinalityType
<1>2. Cardinality(R \cup {i}) = Cardinality(R) + 1
  BY <1>1, FS_AddElement, Zenon
<1>3. ChunkSize \in Nat /\ Missing(p) \in Int
  BY ChunkCount
<1>4. (Cardinality(R) + 1) * ChunkSize = Cardinality(R) * ChunkSize + ChunkSize
      /\ Cardinality(R) * ChunkSize \in Int
  BY <1>1, <1>3, Z3
<1>5. NumChunks(p) - 1 \in R \cup {i} <=> NumChunks(p) - 1 \in R \/ i = NumChunks(p) - 1
  OBVIOUS
<1> QED
  BY <1>2, <1>3, <1>4, <1>5, ChunkSizes DEF BytesOf

\* No chunks have no bytes.
LEMMA BytesNone ==
  ASSUME NEW p \in Peers
  PROVE  BytesOf(p, {}) = 0
BY FS_EmptySet, ChunkCount DEF BytesOf

\* The sum over a set of chunks, in whatever order it is taken, is BytesOf: BytesOf
\* satisfies the equation of the fold, and a least set on which the two differ would
\* differ without its chosen element.
LEMMA SumIsBytes ==
  ASSUME NEW p \in Peers, NEW R \in SUBSET Chunks(p)
  PROVE  MapThenSumSet(LAMBDA i : DataSize(p, i), R) = BytesOf(p, R)
<1> DEFINE pick(s) == CHOOSE x \in s : TRUE
           Eqn(f) == f = [s \in SUBSET R |-> IF s = {} THEN 0 ELSE DataSize(p, pick(s)) + f[s \ {pick(s)}]]
           g == [s \in SUBSET R |-> BytesOf(p, s)]
           sum == CHOOSE f : Eqn(f)
<1>1. \A s \in SUBSET R : s # {} => pick(s) \in s
  OBVIOUS
<1>2. \A s \in SUBSET R : s # {} => BytesOf(p, s) = DataSize(p, pick(s)) + BytesOf(p, s \ {pick(s)})
  <2> TAKE s \in SUBSET R
  <2> HAVE s # {}
  <2> DEFINE x == pick(s)
             t == s \ {x}
  <2>1. x \in s
    BY <1>1
  <2> HIDE DEF x
  <2>2. t \in SUBSET Chunks(p) /\ x \in Chunks(p) /\ x \notin t /\ t \cup {x} = s
    BY <2>1
  <2> HIDE DEF t
  <2>3. BytesOf(p, s) = BytesOf(p, t) + DataSize(p, x) /\ BytesOf(p, t) \in Int
    BY <2>2, BytesAdd
  <2>4. BytesOf(p, s) = DataSize(p, x) + BytesOf(p, t)
    BY <2>2, <2>3, ChunkSizes
  <2> QED BY <2>4 DEF t, x
<1> HIDE DEF pick
<1>3. Eqn(g)
  <2>1. ASSUME NEW s \in SUBSET R
        PROVE  g[s] = IF s = {} THEN 0 ELSE DataSize(p, pick(s)) + g[s \ {pick(s)}]
    BY <1>2, BytesNone, Zenon
  <2> QED BY <2>1, Zenon
<1> HIDE DEF g, Eqn
<1>4. Eqn(sum)
  BY <1>3
<1> HIDE DEF sum
<1>5. \A s \in SUBSET R : sum[s] = IF s = {} THEN 0 ELSE DataSize(p, pick(s)) + sum[s \ {pick(s)}]
  BY <1>4, Zenon DEF Eqn
<1>6. \A s \in SUBSET R : sum[s] = BytesOf(p, s)
  <2> DEFINE Bad == {s \in SUBSET R : sum[s] # BytesOf(p, s)}
  <2> SUFFICES ASSUME Bad # {} PROVE FALSE
    OBVIOUS
  <2>1. IsFiniteSet(R) /\ Bad \subseteq FiniteSubsetsOf(R)
    BY ChunkCount, FS_Subset DEF FiniteSubsetsOf
  <2>2. PICK s \in Bad : \A t \in Bad : ~(<<t, s>> \in StrictSubsetOrdering(R))
    BY <2>1, WFMin, FS_StrictSubsetOrderingWellFounded, Zenon
  <2>3. s # {}
    BY <1>5, BytesNone
  <2>4. pick(s) \in s /\ s \ {pick(s)} \in SUBSET R
    BY <1>1, <2>3
  <2>5. <<s \ {pick(s)}, s>> \in StrictSubsetOrdering(R)
    BY <2>4 DEF StrictSubsetOrdering
  <2>6. sum[s \ {pick(s)}] = BytesOf(p, s \ {pick(s)})
    BY <2>2, <2>4, <2>5, Zenon
  <2> QED
    BY <1>2, <1>5, <2>3, <2>6
<1>7. MapThenSumSet(LAMBDA i : DataSize(p, i), R) = sum[R]
  BY DEF MapThenSumSet, MapThenFoldSet, sum, Eqn, pick
<1> QED BY <1>6, <1>7
-----------------------------------------------------------------------------
(***************************************************************************)
(* The byte count.                                                         *)
(***************************************************************************)

\* What HandleFileChunk keeps of an active transfer.
CountOK(p) ==
  /\ incoming[p].received \subseteq Chunks(p)
  /\ incoming[p].bytes = BytesOf(p, incoming[p].received)
  /\ incoming[p].received # {} => incoming[p].bytes < FileSize[p]

Counted == TypeOK /\ \A p \in Peers : incoming[p].active => CountOK(p)

\* A set of chunks with all the bytes of the file has all its chunks: the bytes
\* of every other set stop short, since no chunk is empty.
LEMMA AllBytesAllChunks ==
  ASSUME NEW p \in Peers, NEW R \in SUBSET Chunks(p), BytesOf(p, R) >= FileSize[p], R # {}
  PROVE  R = Chunks(p)
<1> DEFINE n == NumChunks(p)
           c == ChunkSize
           k == Cardinality(R)
           m == Missing(p)
<1>1. IsFiniteSet(R) /\ k \in Nat /\ k <= n
  BY ChunkCount, FS_Subset, FS_CardinalityType
<1>2. n \in Nat /\ c \in Nat \ {0} /\ m \in 0 .. c - 1 /\ FileSize[p] = n * c - m
  <2>1. NumChunks(p) * ChunkSize \in Nat
    BY ChunkCount
  <2> QED BY <2>1, ChunkCount DEF Missing
<1>3. BytesOf(p, R) = k * c - (IF n - 1 \in R THEN m ELSE 0)
  BY DEF BytesOf
<1> HIDE DEF n, c, k, m
<1>4. CASE k = n
  BY <1>4, ChunkCount, FS_Subset DEF n, k
<1>5. CASE k # n
  <2>1. (k + 1) * c <= n * c
    BY <1>1, <1>2, <1>5, Z3
  <2>2. (k + 1) * c = k * c + c /\ k * c \in Nat /\ n * c \in Nat
    BY <1>1, <1>2, Z3
  <2> QED BY <1>2, <1>3, <2>1, <2>2
<1> QED BY <1>4, <1>5

\* The steps that leave a transfer alone, drop it or start it afresh.
LEMMA CountKept ==
  ASSUME Counted, NEW p \in Peers,
         incoming'[p] = incoming[p] \/ incoming'[p] = NoTransfer \/ incoming'[p] = NewTransfer
  PROVE  incoming'[p].active => CountOK(p)'
<1>1. CASE incoming'[p] = incoming[p]
  BY <1>1 DEF Counted, CountOK
<1>2. CASE incoming'[p] = NoTransfer
  BY <1>2 DEF NoTransfer
<1>3. CASE incoming'[p] = NewTransfer
  BY <1>3, BytesNone DEF NewTransfer, CountOK
<1> QED BY <1>1, <1>2, <1>3

\* What a step of HandleFileChunk does to the transfer of a chunk it counts.
LEMMA ChunkStep ==
  ASSUME Counted, NEW p \in Peers, NEW i \in Chunks(p),
         incoming[p].active, i \notin incoming[p].received, CountChunk(p, i)
  PROVE  /\ i \in AllChunks
         /\ incoming[p].received \cup {i} \in SUBSET Chunks(p)
         /\ incoming[p].bytes + DataSize(p, i) = BytesOf(p, incoming[p].received \cup {i})
         /\ incoming[p].bytes + DataSize(p, i) \in Nat
<1>1. CountOK(p) /\ incoming[p].bytes \in Nat
  BY DEF Counted, TypeOK
<1> QED
  BY <1>1, BytesAdd, ChunkSizes DEF CountOK, AllChunks

\* Every step keeps the count of every transfer right.
LEMMA CountedStep ==
  ASSUME Counted, [Next]_vars
  PROVE  Counted'
<1> USE FileAssumption
<1>t. TypeOK
  BY DEF Counted
<1>0. NoTransfer \in [active : BOOLEAN, bytes : Nat, received : SUBSET AllChunks]
      /\ NewTransfer \in [active : BOOLEAN, bytes : Nat, received : SUBSET AllChunks]
  BY DEF NoTransfer, NewTransfer
<1>e. EmptyFile \in [AllChunks -> Peers \cup {NoPeer, Lost}]
  BY DEF EmptyFile
<1> DEFINE Same(p) == incoming'[p] = incoming[p] \/ incoming'[p] = NoTransfer \/ incoming'[p] = NewTransfer
<1>k. ASSUME TypeOK', \A p \in Peers : Same(p)
      PROVE  Counted'
  BY <1>k, CountKept DEF Counted
<1>1. CASE StoreIncoming
  <2>1. TypeOK' /\ \A p \in Peers : Same(p)
    BY <1>t, <1>0, <1>1 DEF TypeOK, StoreIncoming, Idle, outVars
  <2> QED BY <2>1, <1>k
<1>2. CASE StoreOutgoing
  <2>1. TypeOK' /\ \A p \in Peers : Same(p)
    BY <1>t, <1>2 DEF TypeOK, StoreOutgoing, inVars
  <2> QED BY <2>1, <1>k
<1>3. CASE \E p \in Peers : HandleFileTransferRequest(p)
  <2>0. PICK p \in Peers : HandleFileTransferRequest(p)
    BY <1>3
  <2>a. requests' \in [Peers -> 0..MaxRequests]
    BY <1>t, <2>0 DEF TypeOK, HandleFileTransferRequest
  <2>b. disk' \in [Names -> [AllChunks -> Peers \cup {NoPeer, Lost}]]
    BY <1>t, <1>e, <2>0, ZenonT(30) DEF TypeOK, HandleFileTransferRequest
  <2>c. result' \in [Peers -> {"none", "ok", "failed"}] /\ opening' \in Peers \cup {NoPeer}
    <3>1. /\ result' = [result EXCEPT ![p] = "none"] \/ result' = result
          /\ opening' = p \/ opening' = opening
      BY <2>0 DEF HandleFileTransferRequest
    <3>2. result \in [Peers -> {"none", "ok", "failed"}] /\ opening \in Peers \cup {NoPeer}
      BY <1>t DEF TypeOK
    <3>3. result' \in [Peers -> {"none", "ok", "failed"}]
      BY <3>1, <3>2
    <3>4. opening' \in Peers \cup {NoPeer}
      BY <3>1, <3>2, Zenon
    <3> QED BY <3>3, <3>4
  <2>1. TypeOK' /\ \A q \in Peers : Same(q)
    BY <1>t, <2>0, <2>a, <2>b, <2>c DEF TypeOK, HandleFileTransferRequest, outVars
  <2> QED BY <2>1, <1>k
<1>4. CASE \E p \in Peers : \E i \in Chunks(p) : HandleFileChunk(p, i)
  <2>0. PICK p \in Peers : \E i \in Chunks(p) : HandleFileChunk(p, i)
    BY <1>4
  <2>1. PICK i \in Chunks(p) : HandleFileChunk(p, i)
    BY <2>0
  <2>2. UNCHANGED <<opening, requests, outgoing, requesting, answer>>
    BY <2>1 DEF HandleFileChunk, outVars
  <2>3. CASE UNCHANGED <<incoming, disk, result>>
    <3>1. TypeOK' /\ \A q \in Peers : Same(q)
      BY <1>t, <2>2, <2>3 DEF TypeOK
    <3> QED BY <3>1, <1>k
  <2>4. CASE FailChunk(p)
    <3>1. TypeOK' /\ \A q \in Peers : Same(q)
      BY <1>t, <1>0, <2>2, <2>4 DEF TypeOK, FailChunk
    <3> QED BY <3>1, <1>k
  <2>5. CASE incoming[p].active /\ i \notin incoming[p].received /\ CountChunk(p, i)
    <3> DEFINE R == incoming[p].received \cup {i}
               b == incoming[p].bytes + DataSize(p, i)
               rec == [active |-> TRUE, bytes |-> b, received |-> R]
    <3>1. i \in AllChunks /\ R \in SUBSET Chunks(p) /\ b = BytesOf(p, R) /\ b \in Nat
      BY <2>5, ChunkStep, SMTT(30)
    <3>2. incoming' = [incoming EXCEPT ![p] = IF b >= FileSize[p] THEN NoTransfer ELSE rec]
      BY <2>5 DEF CountChunk
    <3>3. rec \in [active : BOOLEAN, bytes : Nat, received : SUBSET AllChunks]
      BY <3>1 DEF AllChunks
    <3> HIDE DEF rec, b, R
    <3>4. /\ incoming' \in [Peers -> [active : BOOLEAN, bytes : Nat, received : SUBSET AllChunks]]
          /\ \A q \in Peers \ {p} : incoming'[q] = incoming[q]
          /\ incoming'[p] = IF b >= FileSize[p] THEN NoTransfer ELSE rec
      BY <1>t, <1>0, <3>2, <3>3 DEF TypeOK
    <3>5. disk' \in [Names -> [AllChunks -> Peers \cup {NoPeer, Lost}]]
      <4>1. PICK v \in {p, Lost} : disk' = [disk EXCEPT ![NameOf[p]][i] = v]
        BY <2>5 DEF CountChunk
      <4>2. [disk[NameOf[p]] EXCEPT ![i] = v] \in [AllChunks -> Peers \cup {NoPeer, Lost}]
        BY <1>t, <3>1 DEF TypeOK
      <4> QED BY <1>t, <4>1, <4>2 DEF TypeOK
    <3>6. result' \in [Peers -> {"none", "ok", "failed"}]
      BY <1>t, <2>5 DEF TypeOK, CountChunk
    <3>7. TypeOK'
      BY <1>t, <2>2, <3>4, <3>5, <3>6 DEF TypeOK
    <3>8. \A q \in Peers \ {p} : incoming'[q].active => CountOK(q)'
      BY <3>4, CountKept
    <3>9. incoming'[p].active => CountOK(p)'
      <4>1. CASE b >= FileSize[p]
        BY <3>4, <4>1, CountKept
      <4>2. CASE ~(b >= FileSize[p])
        <5>1. incoming'[p] = rec /\ b < FileSize[p]
          BY <3>1, <3>4, <4>2
        <5> QED BY <3>1, <5>1 DEF CountOK, rec
      <4> QED BY <4>1, <4>2
    <3> QED BY <3>7, <3>8, <3>9 DEF Counted
  <2> QED
    BY <2>1, <2>3, <2>4, <2>5 DEF HandleFileChunk, Known
<1>6. CASE \E p \in Peers : SendFile(p) \/ PeerAnswers(p) \/ HandleFileTransferComplete(p)
  <2>0. PICK p \in Peers : SendFile(p) \/ PeerAnswers(p) \/ HandleFileTransferComplete(p)
    BY <1>6
  <2>a. /\ UNCHANGED inVars
        /\ outgoing' \in [Peers -> {"none", "PENDING"}]
        /\ requesting' \in Peers \cup {NoPeer}
        /\ answer' \in [Peers -> {"none", "expected", "sent", "lost", "handled"}]
    <3>1. CASE SendFile(p)
      BY <1>t, <3>1 DEF TypeOK, SendFile
    <3>2. CASE PeerAnswers(p)
      BY <1>t, <3>2 DEF TypeOK, PeerAnswers
    <3>3. CASE HandleFileTransferComplete(p)
      BY <1>t, <3>3 DEF TypeOK, HandleFileTransferComplete
    <3> QED BY <2>0, <3>1, <3>2, <3>3
  <2>1. TypeOK' /\ \A q \in Peers : Same(q)
    BY <1>t, <2>a DEF TypeOK, inVars
  <2> QED BY <2>1, <1>k
<1>7. CASE \E p \in Peers : CancelTransfer(p)
  <2>0. PICK p \in Peers : CancelTransfer(p)
    BY <1>7
  <2>a. /\ outgoing' \in [Peers -> {"none", "PENDING"}]
        /\ incoming' = incoming \/ incoming' = [incoming EXCEPT ![p] = NoTransfer]
        /\ UNCHANGED <<opening, disk, result, requests, requesting, answer>>
    BY <1>t, <2>0, SMTT(30) DEF TypeOK, CancelTransfer
  <2>1. TypeOK' /\ \A q \in Peers : Same(q)
    <3> DEFINE T == [active : BOOLEAN, bytes : Nat, received : SUBSET AllChunks]
    <3>0. incoming \in [Peers -> T] /\ NoTransfer \in T
      BY <1>t, <1>0 DEF TypeOK
    <3> HIDE DEF T
    <3>a. incoming' \in [Peers -> T] /\ \A q \in Peers : Same(q)
      BY <2>a, <3>0
    <3>1. incoming' \in [Peers -> [active : BOOLEAN, bytes : Nat, received : SUBSET AllChunks]]
          /\ \A q \in Peers : Same(q)
      BY <3>a DEF T
    <3> QED BY <1>t, <2>a, <3>1 DEF TypeOK
  <2> QED BY <2>1, <1>k
<1>8. CASE UNCHANGED vars
  <2>1. TypeOK' /\ \A p \in Peers : Same(p)
    BY <1>t, <1>8 DEF TypeOK, vars, inVars, outVars
  <2> QED BY <2>1, <1>k
<1> QED
  BY <1>1, <1>2, <1>3, <1>4, <1>6, <1>7, <1>8 DEF Next

\* It is right at first.
LEMMA CountedInit == Init => Counted
<1> SUFFICES ASSUME Init PROVE Counted
  OBVIOUS
<1>1. TypeOK
  BY FileAssumption DEF Init, TypeOK, NoTransfer, EmptyFile
<1> QED BY <1>1 DEF Init, Counted, NoTransfer

\* The types of FileTransfer's variables.
THEOREM FileTypes == Spec => []TypeOK
<1>1. Counted => TypeOK
  BY DEF Counted
<1> QED BY <1>1, CountedInit, CountedStep, PTL DEF Spec

\* bytes_received in an IncomingTransfer is the size of the distinct chunks in
\* received_chunks, and short of the file size once there are any, in whatever
\* order HandleFileChunk got them and however often.
THEOREM BytesReceived == Spec => []BytesAreReceived
<1>1. Counted => BytesAreReceived
  <2> SUFFICES ASSUME Counted, NEW p \in Peers, incoming[p].active
               PROVE  /\ incoming[p].bytes = MapThenSumSet(LAMBDA i : DataSize(p, i), incoming[p].received)
                      /\ incoming[p].received # {} => incoming[p].bytes < FileSize[p]
    BY Zenon DEF BytesAreReceived
  <2>1. CountOK(p)
    BY DEF Counted
  <2> QED BY <2>1, SumIsBytes, Zenon DEF CountOK
<1> QED BY <1>1, CountedInit, CountedStep, PTL DEF Spec
-----------------------------------------------------------------------------
(***************************************************************************)
(* The file on disk.  Transfers are keyed by peer and file id, the output  *)
(* file by its name alone: what follows is about a peer whose file has a   *)
(* name of its own.                                                        *)
(***************************************************************************)

OwnName(p) == \A q \in Peers : NameOf[q] = NameOf[p] => q = p

\* While a transfer is active its chunks are on disk, unless the output file has
\* just been truncated for the next request, and it has not been reported.
FileOK(p) ==
  /\ incoming[p].active /\ opening # p =>
       \A i \in incoming[p].received : disk[NameOf[p]][i] = p
  /\ incoming[p].active \/ opening = p => result[p] # "ok"
  /\ result[p] = "ok" => \A i \in Chunks(p) : disk[NameOf[p]][i] \in {p, Lost}

Whole == Counted /\ \A p \in Peers : OwnName(p) => FileOK(p)

\* A step on another peer's file leaves FileOK alone.
LEMMA OtherFile ==
  ASSUME NEW p \in Peers, FileOK(p),
         incoming'[p] = incoming[p], result'[p] = result[p],
         disk'[NameOf[p]] = disk[NameOf[p]],
         opening' = opening \/ (opening # p /\ opening' # p)
  PROVE  FileOK(p)'
BY DEF FileOK

\* HandleFileChunk writes one chunk and counts it; the chunk that completes the
\* file is the only one missing.
LEMMA ChunkWritten ==
  ASSUME Counted, NEW p \in Peers, FileOK(p), NEW i \in Chunks(p), Idle, UNCHANGED opening,
         incoming[p].active, i \notin incoming[p].received, CountChunk(p, i)
  PROVE  FileOK(p)'
<1> USE FileAssumption
<1> DEFINE R == incoming[p].received \cup {i}
           b == incoming[p].bytes + DataSize(p, i)
           d == disk[NameOf[p]]
<1>1. i \in AllChunks /\ R \in SUBSET Chunks(p) /\ b = BytesOf(p, R) /\ b \in Nat
  BY ChunkStep, Zenon
<1>2. /\ incoming[p] \in [active : BOOLEAN, bytes : Nat, received : SUBSET AllChunks]
      /\ incoming' = [incoming EXCEPT ![p] = IF b >= FileSize[p] THEN NoTransfer
                        ELSE [active |-> TRUE, bytes |-> b, received |-> R]]
      /\ incoming \in [Peers -> [active : BOOLEAN, bytes : Nat, received : SUBSET AllChunks]]
      /\ result' = IF b >= FileSize[p] THEN [result EXCEPT ![p] = "ok"] ELSE result
      /\ disk \in [Names -> [AllChunks -> Peers \cup {NoPeer, Lost}]]
      /\ result \in [Peers -> {"none", "ok", "failed"}]
  BY DEF Counted, TypeOK, CountChunk
<1>3. PICK v \in {p, Lost} : /\ disk' = [disk EXCEPT ![NameOf[p]][i] = v]
                             /\ v = p \/ b >= FileSize[p]
  BY DEF CountChunk
<1>4. disk'[NameOf[p]] = [d EXCEPT ![i] = v] /\ d \in [AllChunks -> Peers \cup {NoPeer, Lost}]
  BY <1>2, <1>3, Zenon
<1>5. opening # p /\ opening' # p
  BY DEF Idle
<1>6. \A j \in incoming[p].received : d[j] = p /\ j \in AllChunks
  BY <1>2, <1>5 DEF FileOK
<1>7. result[p] # "ok"
  BY DEF FileOK
<1> HIDE DEF R, b, d
<1>8. CASE b >= FileSize[p]
  <2>1. R = Chunks(p)
    BY <1>1, <1>8, AllBytesAllChunks DEF R
  <2>2. ~incoming'[p].active
    BY <1>2, <1>8 DEF NoTransfer
  <2>3. \A j \in Chunks(p) : disk'[NameOf[p]][j] \in {p, Lost}
    <3> TAKE j \in Chunks(p)
    <3>1. CASE j = i
      BY <3>1, <1>1, <1>3, <1>4, Zenon
    <3>2. CASE j # i
      BY <3>2, <2>1, <1>4, <1>6 DEF R
    <3> QED BY <3>1, <3>2
  <2> QED BY <1>5, <2>2, <2>3 DEF FileOK
<1>9. CASE ~(b >= FileSize[p])
  <2>1. incoming'[p].received = R /\ result' = result /\ v = p
    BY <1>2, <1>3, <1>9
  <2>2. \A j \in R : disk'[NameOf[p]][j] = p
    <3> TAKE j \in R
    <3>1. CASE j = i
      BY <3>1, <2>1, <1>1, <1>4
    <3>2. CASE j # i
      BY <3>2, <1>4, <1>6 DEF R
    <3> QED BY <3>1, <3>2
  <2> QED BY <1>7, <2>1, <2>2 DEF FileOK
<1> QED BY <1>8, <1>9

\* Every step preserves Whole.
LEMMA WholeStep ==
  ASSUME Whole, [Next]_vars
  PROVE  Whole'
<1> USE FileAssumption
<1>c. Counted /\ Counted' /\ TypeOK
  BY CountedStep DEF Whole, Counted
<1> SUFFICES ASSUME NEW p \in Peers, OwnName(p) PROVE FileOK(p)'
  BY <1>c DEF Whole, OwnName
<1>p. FileOK(p)
  BY DEF Whole
<1>n. \A q \in Peers : NameOf[q] \in Names /\ (q # p => NameOf[q] # NameOf[p])
  BY DEF OwnName
<1>1. CASE StoreIncoming
  <2>1. CASE opening = p
    <3>1. incoming'[p] = NewTransfer /\ result[p] # "ok" /\ result' = result
      BY <1>1, <1>c, <1>p, <2>1 DEF StoreIncoming, TypeOK, FileOK
    <3> QED BY <3>1 DEF FileOK, NewTransfer
  <2>2. CASE opening # p
    <3>1. /\ incoming'[p] = incoming[p] /\ result' = result /\ disk' = disk
          /\ opening' # p
      BY <1>1, <1>c, <2>2 DEF StoreIncoming, TypeOK
    <3> QED BY <2>2, <3>1, <1>p, OtherFile
  <2> QED BY <2>1, <2>2
<1>2. CASE StoreOutgoing \/ UNCHANGED vars
         \/ \E q \in Peers : SendFile(q) \/ PeerAnswers(q) \/ HandleFileTransferComplete(q)
  <2>1. UNCHANGED <<incoming, opening, disk, result>>
    BY <1>2 DEF StoreOutgoing, SendFile, PeerAnswers, HandleFileTransferComplete,
                vars, inVars, outVars
  <2> QED BY <2>1, <1>p, OtherFile
<1>3. ASSUME NEW q \in Peers, HandleFileTransferRequest(q) PROVE FileOK(p)'
  <2>0. incoming' = incoming
    BY <1>3 DEF HandleFileTransferRequest
  <2>1. CASE UNCHANGED <<opening, disk, result>>
    BY <2>0, <2>1, <1>p, OtherFile
  <2>2. CASE /\ opening' = q
             /\ disk' = [disk EXCEPT ![NameOf[q]] = EmptyFile]
             /\ result' = [result EXCEPT ![q] = "none"]
    <3>1. CASE q = p
      <4>1. opening' = p /\ result'[p] = "none"
        BY <2>2, <3>1, <1>c DEF TypeOK
      <4> QED BY <4>1 DEF FileOK
    <3>2. CASE q # p
      <4>1. disk'[NameOf[p]] = disk[NameOf[p]] /\ result'[p] = result[p]
        BY <2>2, <3>2, <1>c, <1>n DEF TypeOK
      <4>2. opening # p /\ opening' # p
        BY <1>3, <2>2, <3>2 DEF HandleFileTransferRequest, Idle
      <4> QED BY <2>0, <4>1, <4>2, <1>p, OtherFile
    <3> QED BY <3>1, <3>2
  <2> QED BY <1>3, <2>1, <2>2 DEF HandleFileTransferRequest
<1>4. ASSUME NEW q \in Peers, NEW i \in Chunks(q), HandleFileChunk(q, i) PROVE FileOK(p)'
  <2>0. Idle /\ UNCHANGED opening /\ opening # p
    BY <1>4 DEF HandleFileChunk, Idle
  <2>1. CASE UNCHANGED <<incoming, disk, result>>
    BY <2>0, <2>1, <1>p, OtherFile
  <2>2. CASE FailChunk(q)
    <3>1. CASE q = p
      <4>1. incoming'[p] = NoTransfer /\ result'[p] = "failed"
        BY <2>2, <3>1, <1>c DEF FailChunk, TypeOK
      <4> QED BY <2>0, <4>1 DEF FileOK, NoTransfer
    <3>2. CASE q # p
      <4>1. incoming'[p] = incoming[p] /\ result'[p] = result[p] /\ disk' = disk
        BY <2>2, <3>2, <1>c DEF FailChunk, TypeOK
      <4> QED BY <2>0, <4>1, <1>p, OtherFile
    <3> QED BY <3>1, <3>2
  <2>3. CASE incoming[q].active /\ i \notin incoming[q].received /\ CountChunk(q, i)
    <3>1. CASE q = p
      BY <2>0, <2>3, <3>1, <1>c, <1>p, ChunkWritten
    <3>2. CASE q # p
      <4>1. incoming'[p] = incoming[p] /\ result'[p] = result[p]
        BY <2>3, <3>2, <1>c DEF CountChunk, TypeOK
      <4>2. disk'[NameOf[p]] = disk[NameOf[p]]
        BY <2>3, <3>2, <1>c, <1>n, SMTT(30) DEF CountChunk, TypeOK
      <4> QED BY <2>0, <4>1, <4>2, <1>p, OtherFile
    <3> QED BY <3>1, <3>2
  <2> QED BY <1>4, <2>1, <2>2, <2>3 DEF HandleFileChunk, Known
<1>5. ASSUME NEW q \in Peers, CancelTransfer(q) PROVE FileOK(p)'
  <2>1. UNCHANGED <<opening, disk, result>>
    BY <1>5 DEF CancelTransfer
  <2>2. incoming'[p] = incoming[p] \/ incoming'[p] = NoTransfer
    BY <1>5, <1>c DEF CancelTransfer, TypeOK
  <2>3. CASE incoming'[p] = NoTransfer
    BY <2>1, <2>3, <1>p DEF FileOK, NoTransfer
  <2> QED BY <2>1, <2>2, <2>3, <1>p, OtherFile
<1> QED
  BY <1>1, <1>2, <1>3, <1>4, <1>5 DEF Next

\* Whole holds initially.
LEMMA WholeInit == Init => Whole
<1> SUFFICES ASSUME Init PROVE Whole
  OBVIOUS
<1>1. Counted
  BY CountedInit
<1>2. \A p \in Peers : FileOK(p)
  BY FileAssumption DEF Init, FileOK, NoTransfer
<1> QED BY <1>1, <1>2 DEF Whole

\* When no two peers offer files of one name, HandleFileChunk reports a file
\* complete only when every chunk of it has been written, and what is then done
\* to other transfers does not touch it.
THEOREM CompletedIsWhole ==
  ASSUME \A p \in Peers : OwnName(p)
  PROVE  Spec => []CompletedFileIsWhole
<1>1. Whole => CompletedFileIsWhole
  BY DEF Whole, FileOK, CompletedFileIsWhole
<1> QED BY <1>1, WholeInit, WholeStep, PTL DEF Spec

\* A peer whose file has a name of its own is not affected by peers that share one.
THEOREM OwnFileIsWhole ==
  ASSUME NEW p \in Peers, OwnName(p)
  PROVE  Spec => [](result[p] = "ok" => \A i \in Chunks(p) : disk[NameOf[p]][i] \in {p, Lost})
<1>1. Whole => (result[p] = "ok" => \A i \in Chunks(p) : disk[NameOf[p]][i] \in {p, Lost})
  BY SMTT(30) DEF Whole, FileOK
<1> QED BY <1>1, WholeInit, WholeStep, PTL DEF Spec

\* A transfer that is active, or whose output file has just been opened, has not
\* been reported: HandleFileChunk erases what it reports.
Unreported ==
  TypeOK /\ \A p \in Peers : incoming[p].active \/ opening = p => result[p] = "none"

\* Every step keeps it so, and changes what was reported to "none" alone.
LEMMA UnreportedStep ==
  ASSUME Unreported, TypeOK', [Next]_vars
  PROVE  /\ Unreported'
         /\ \A p \in Peers : result[p] # "none" /\ result'[p] # result[p] => result'[p] = "none"
<1> USE FileAssumption
<1>t. TypeOK
  BY DEF Unreported
<1> SUFFICES ASSUME NEW p \in Peers
             PROVE  /\ incoming'[p].active \/ opening' = p => result'[p] = "none"
                    /\ result[p] # "none" /\ result'[p] # result[p] => result'[p] = "none"
  BY DEF Unreported
<1>p. incoming[p].active \/ opening = p => result[p] = "none"
  BY DEF Unreported
<1> DEFINE Goal == /\ incoming'[p].active \/ opening' = p => result'[p] = "none"
                   /\ result[p] # "none" /\ result'[p] # result[p] => result'[p] = "none"
<1>1. CASE StoreIncoming
  BY <1>t, <1>p, <1>1 DEF TypeOK, StoreIncoming, Idle
<1>2. CASE StoreOutgoing \/ UNCHANGED vars
         \/ \E q \in Peers : SendFile(q) \/ PeerAnswers(q) \/ HandleFileTransferComplete(q)
  <2>1. UNCHANGED <<incoming, opening, result>>
    BY <1>2 DEF StoreOutgoing, SendFile, PeerAnswers, HandleFileTransferComplete, vars, inVars
  <2> QED BY <2>1, <1>p, SMTT(30)
<1>3. ASSUME NEW q \in Peers, HandleFileTransferRequest(q) PROVE Goal
  BY <1>t, <1>p, <1>3 DEF TypeOK, HandleFileTransferRequest, Idle
<1>4. ASSUME NEW q \in Peers, NEW i \in Chunks(q), HandleFileChunk(q, i) PROVE Goal
  <2>0. opening' # p
    BY <1>4 DEF HandleFileChunk, Idle
  <2>1. CASE UNCHANGED <<incoming, disk, result>>
    BY <1>p, <2>0, <2>1, SMTT(30)
  <2>2. CASE incoming[q].active /\ FailChunk(q)
    BY <1>t, <1>p, <2>0, <2>2 DEF FailChunk, NoTransfer, TypeOK
  <2>3. CASE incoming[q].active /\ CountChunk(q, i)
    <3>1. CASE q = p
      <4>1. result[p] = "none"
        BY <1>p, <2>3, <3>1
      <4>2. (result' = result) \/ incoming'[p] = NoTransfer
        BY <1>t, <2>3, <3>1, SMTT(30) DEF CountChunk, TypeOK
      <4> QED BY <2>0, <4>1, <4>2 DEF NoTransfer
    <3>2. CASE q # p
      <4>1. incoming'[p] = incoming[p] /\ result'[p] = result[p]
        BY <1>t, <2>3, <3>2 DEF CountChunk, TypeOK
      <4> QED BY <1>p, <2>0, <4>1
    <3> QED BY <3>1, <3>2
  <2> QED BY <1>4, <2>1, <2>2, <2>3, SMTT(30) DEF HandleFileChunk, Known
<1>5. ASSUME NEW q \in Peers, CancelTransfer(q) PROVE Goal
  <2>1. UNCHANGED <<opening, result>>
    BY <1>5 DEF CancelTransfer
  <2>2. incoming'[p] = incoming[p] \/ incoming'[p] = NoTransfer
    BY <1>t, <1>5 DEF CancelTransfer, TypeOK
  <2> QED BY <1>p, <2>1, <2>2 DEF NoTransfer
<1> QED
  BY <1>1, <1>2, <1>3, <1>4, <1>5, Zenon DEF Next

\* What HandleFileChunk has reported through _completed_callback stands until the
\* sender offers the file again, for any peers and files, those that share a name
\* included.
THEOREM ReportStands == Spec => ReportedOnce
<1>1. Init => Unreported
  <2>1. Init => TypeOK
    BY CountedInit DEF Counted
  <2> QED BY <2>1, FileAssumption DEF Init, Unreported, NoTransfer
<1>2. Unreported /\ TypeOK' /\ [Next]_vars =>
        /\ Unreported'
        /\ [\A p \in Peers : result[p] # "none" /\ result'[p] # result[p] => result'[p] = "none"]_vars
  BY UnreportedStep
<1> QED BY <1>1, <1>2, FileTypes, PTL DEF Spec, ReportedOnce
-----------------------------------------------------------------------------
(***************************************************************************)
(* With the decoder of this repository.                                    *)
(***************************************************************************)

\* Nothing received is counted or reported, and no answer of a peer is handled.
NothingCompletes ==
  \A p \in Peers : /\ result[p] = "none" /\ answer[p] # "handled"
                   /\ incoming[p].received = {}

\* MessageFactory::CreateFromBuffer makes no FILE_CHUNK and no
\* FILE_TRANSFER_COMPLETE, so with AsioNetworkManager a transfer never gets
\* beyond its request: no chunk is counted, no completion is reported to the
\* receiving user and none reaches the sending node.
THEOREM FactoryCompletesNothing ==
  ASSUME DecodedTypes = FactoryTypes
  PROVE  Spec => []NothingCompletes
<1>1. Init => NothingCompletes
  BY SMTT(30) DEF Init, NothingCompletes, NoTransfer
<1>2. TypeOK /\ NothingCompletes /\ [Next]_vars => NothingCompletes'
  <2> SUFFICES ASSUME TypeOK, NothingCompletes, [Next]_vars, NEW p \in Peers
               PROVE  result'[p] = "none" /\ answer'[p] # "handled" /\ incoming'[p].received = {}
    BY DEF NothingCompletes
  <2>0. result[p] = "none" /\ answer[p] # "handled" /\ incoming[p].received = {}
    BY DEF NothingCompletes
  <2>1. "FILE_CHUNK" \notin DecodedTypes /\ "FILE_TRANSFER_COMPLETE" \notin DecodedTypes
    BY DEF FactoryTypes
  <2>2. CASE StoreIncoming
    BY <2>0, <2>2 DEF TypeOK, StoreIncoming, NewTransfer, outVars
  <2>3. CASE StoreOutgoing \/ UNCHANGED vars
    BY <2>0, <2>3 DEF StoreOutgoing, vars, inVars, outVars
  <2>4. ASSUME NEW q \in Peers, HandleFileTransferRequest(q)
        PROVE  result'[p] = "none" /\ answer'[p] # "handled" /\ incoming'[p].received = {}
    BY <2>0, <2>4 DEF TypeOK, HandleFileTransferRequest, outVars
  <2>5. ASSUME NEW q \in Peers, SendFile(q) \/ PeerAnswers(q)
        PROVE  result'[p] = "none" /\ answer'[p] # "handled" /\ incoming'[p].received = {}
    BY <2>0, <2>5 DEF TypeOK, SendFile, PeerAnswers, inVars
  <2>6. ASSUME NEW q \in Peers, CancelTransfer(q)
        PROVE  result'[p] = "none" /\ answer'[p] # "handled" /\ incoming'[p].received = {}
    BY <2>0, <2>6, SMTT(30) DEF TypeOK, CancelTransfer, NoTransfer
  <2> QED
    BY <2>1, <2>2, <2>3, <2>4, <2>5, <2>6 DEF Next, HandleFileChunk, HandleFileTransferComplete
<1> QED BY <1>1, <1>2, FileTypes, PTL DEF Spec
=============================================================================
