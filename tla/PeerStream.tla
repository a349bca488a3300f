----------------------------- MODULE PeerStream -----------------------------
(***************************************************************************)
(* The byte stream of one PeerSession (src/network/asio_network.cpp):      *)
(* PeerSession::SendMessage at one end, ReadMessage at the other.          *)
(*                                                                         *)
(* A message is written as a size word of 4 bytes and then its serialised  *)
(* form, by two writes that nothing makes atomic.  Several threads may be  *)
(* writing: the io thread sends the connection notification and the        *)
(* replies of file transfer, the console thread sends chat messages and    *)
(* file requests.                                                          *)
(***************************************************************************)
EXTENDS MessageCodec

CONSTANTS Writers,     \* threads that call SendMessage on the session
          Messages,    \* the messages they send
          PieceSizes,  \* how many bytes a socket may take at once
          MaxSent      \* bound on the calls of SendMessage

ASSUME StreamAssumption ==
  /\ \A m \in Messages : m \in Message /\ Fits(m)
  /\ PieceSizes \subseteq Nat \ {0}
  /\ MaxSent \in Nat

VARIABLES connected,  \* the sender's _is_connected
          writing,    \* what each writer is sending, and the bytes of it written
          wire,       \* bytes written and not yet read
          reader,     \* what ReadMessage waits for: "size", "body" or "closed"
          need,       \* message_size
          delivered,  \* messages handed to _message_callback
          flight,     \* messages written completely and not yet read
          calls       \* calls of SendMessage

writerVars == <<connected, writing, calls>>
readerVars == <<reader, need, delivered>>
vars == <<writerVars, readerVars, wire, flight>>

NotWriting == [msg |-> NoMessage, done |-> 0]

\* message.Serialize(), for each of them.
Data == [m \in Messages |-> Serialize(m)]

\* The messages the reader's factory knows.
Decodable == {m \in Messages : m \in FactoryMessage}

\* In particular what is delivered is a whole message: no byte of it was read
\* from beyond the end of _read_buffer, whatever the bytes of the stream are.
TypeOK ==
  /\ connected \in BOOLEAN
  /\ writing \in [Writers -> [msg : Messages, done : Nat] \cup {NotWriting}]
  /\ wire \in ByteBuffer
  /\ reader \in {"size", "body", "closed"}
  /\ need \in Nat
  /\ delivered \in Seq(FactoryMessage)
  /\ flight \in Seq(Messages)
  /\ calls \in 0..MaxSent

Init ==
  /\ connected = TRUE
  /\ writing = [w \in Writers |-> NotWriting]
  /\ wire = <<>>
  /\ reader = "size"
  /\ need = 0
  /\ delivered = <<>>
  /\ flight = <<>>
  /\ calls = 0
-----------------------------------------------------------------------------
(***************************************************************************)
(* PeerSession::SendMessage.                                               *)
(***************************************************************************)

\* The size word of a message, as it is on the wire.
SizeWord(n) == SwapBytes(Word(n))

\* if (!_is_connected) return false; then the size word, by the first write.
WriteSize(w, m) ==
  /\ connected
  /\ writing[w] = NotWriting
  /\ calls < MaxSent
  /\ calls' = calls + 1
  /\ writing' = [writing EXCEPT ![w] = [msg |-> m, done |-> 0]]
  /\ wire' = wire \o SizeWord(Len(Data[m]))
  /\ UNCHANGED <<connected, flight, readerVars>>

\* Mutant of WriteBody: after a partial write the body starts again.
WriteBodyAgain(w) ==
  LET m == writing[w].msg
      body == Data[m]
      done == writing[w].done
  IN  /\ connected
      /\ writing[w] # NotWriting
      /\ \E n \in PieceSizes :
           LET upto == IF done + n < Len(body) THEN done + n ELSE Len(body)
               all == upto = Len(body)
           IN  /\ wire' = wire \o SubSeq(body, 1, upto - done)
               /\ writing' = [writing EXCEPT ![w] = IF all THEN NotWriting
                                                           ELSE [msg |-> m, done |-> upto]]
               /\ flight' = IF all THEN Append(flight, m) ELSE flight
      /\ UNCHANGED <<connected, calls, readerVars>>

\* The second write, which may reach the socket in pieces.
WriteBody(w) ==
  LET m == writing[w].msg
      body == Data[m]
      done == writing[w].done
  IN  /\ connected
      /\ writing[w] # NotWriting
      /\ \E n \in PieceSizes :
           LET upto == IF done + n < Len(body) THEN done + n ELSE Len(body)
               all == upto = Len(body)
           IN  /\ wire' = wire \o SubSeq(body, done + 1, upto)
               /\ writing' = [writing EXCEPT ![w] = IF all THEN NotWriting
                                                           ELSE [msg |-> m, done |-> upto]]
               /\ flight' = IF all THEN Append(flight, m) ELSE flight
      /\ UNCHANGED <<connected, calls, readerVars>>

\* A write throws, because the other end has gone or another thread closed the
\* session: Close, return false.
WriteFails(w) ==
  /\ writing[w] # NotWriting
  /\ reader = "closed" \/ ~connected
  /\ connected' = FALSE
  /\ writing' = [writing EXCEPT ![w] = NotWriting]
  /\ UNCHANGED <<calls, wire, flight, readerVars>>

\* Another thread closes the session (DisconnectFromPeer, Stop).
Close ==
  /\ connected
  /\ connected' = FALSE
  /\ UNCHANGED <<writing, calls, wire, flight, readerVars>>
-----------------------------------------------------------------------------
(***************************************************************************)
(* PeerSession::ReadMessage, at the other end.                             *)
(***************************************************************************)

Rest(n) == SubSeq(wire, n + 1, Len(wire))

\* Mutant of ReadSize: the size word is taken to count itself.
ReadSizeWhole ==
  /\ reader = "size"
  /\ Len(wire) >= 4
  /\ need' = GetLength(wire, 0) - 4
  /\ wire' = Rest(4)
  /\ reader' = "body"
  /\ UNCHANGED <<delivered, flight, writerVars>>

\* The first async_read completes with 4 bytes, the size of what follows.
ReadSize ==
  /\ reader = "size"
  /\ Len(wire) >= 4
  /\ need' = GetLength(wire, 0)
  /\ wire' = Rest(4)
  /\ reader' = "body"
  /\ UNCHANGED <<delivered, flight, writerVars>>

\* Mutant of ReadBody: a message that is not decoded returns before ReadMessage().
ReadBodyReturns ==
  LET message == CreateFromBuffer(SubSeq(wire, 1, need))
  IN  /\ reader = "body"
      /\ Len(wire) >= need
      /\ delivered' = IF message = NoMessage THEN delivered ELSE Append(delivered, message)
      /\ wire' = Rest(need)
      /\ reader' = IF message = NoMessage THEN "body" ELSE "size"
      /\ need' = IF message = NoMessage THEN 1000 ELSE 0
      /\ flight' = IF flight = <<>> THEN flight ELSE Tail(flight)
      /\ UNCHANGED writerVars

\* The second async_read has filled _read_buffer: the factory decodes it, what
\* it returns is given to the callback, and ReadMessage() is called again.
ReadBody ==
  LET message == CreateFromBuffer(SubSeq(wire, 1, need))
  IN  /\ reader = "body"
      /\ Len(wire) >= need
      /\ delivered' = IF message = NoMessage THEN delivered ELSE Append(delivered, message)
      /\ wire' = Rest(need)
      /\ reader' = "size"
      /\ need' = 0
      /\ flight' = IF flight = <<>> THEN flight ELSE Tail(flight)
      /\ UNCHANGED writerVars

\* A read completes with an error, at the end of the stream or because the
\* reading end was closed, or the callback throws: Close.
ReadFails ==
  /\ reader # "closed"
  /\ reader' = "closed"
  /\ UNCHANGED <<need, delivered, wire, flight, writerVars>>
-----------------------------------------------------------------------------
Next == \/ ReadSize \/ ReadBody \/ ReadFails \/ Close
        \/ \E w \in Writers : \/ WriteBody(w) \/ WriteFails(w)
                              \/ \E m \in Messages : WriteSize(w, m)

Spec == Init /\ [][Next]_vars

\* The io thread of the reading node completes reads while there is data; a
\* write that is not finished goes on, or fails.
FairSpec == /\ Spec
            /\ WF_vars(ReadSize \/ ReadBody)
            /\ \A w \in Writers : WF_vars(WriteBody(w) \/ WriteFails(w))
-----------------------------------------------------------------------------
\* The bytes still to be read, with the size word of the message being read.
Unread == IF reader = "body" THEN SizeWord(need) \o wire ELSE wire
Frame(m) == SizeWord(Len(Data[m])) \o Data[m]

\* Buffers, one after the other.
Concatenation(buffers) ==
  LET upTo[i \in 1..Len(buffers)] ==
        IF i = 1 THEN buffers[i] ELSE upTo[i-1] \o buffers[i]
  IN  IF buffers = <<>> THEN <<>> ELSE upTo[Len(buffers)]

\* What the reader has before it begins with the bytes of b.
Before(b) == Len(b) <= Len(Unread) /\ SubSeq(Unread, 1, Len(b)) = b

\* The two ends agree on where messages begin: what the reader has before it
\* begins with exactly the frames of the messages written and not yet read.
FramesAreIntact ==
  reader # "closed" =>
    Before(Concatenation([i \in 1..Len(flight) |-> Frame(flight[i])]))

\* PeerSession implements the channel its users see: in order, once, unaltered.
Channel == INSTANCE MessageChannel WITH broken <- (reader = "closed")
ImplementsChannel == Channel!ChannelSpec

\* Every message written completely is read, unless a side closes the session;
\* in particular a message of unknown type does not stop the reader.
WrittenIsRead == flight # <<>> ~> (flight = <<>> \/ reader = "closed")

\* Deserialize of a message's class makes of what Serialize has given to a
\* writer the message itself, with every member, for the classes the factory
\* knows and for the two of file transfer.
RoundTrip ==
  \A w \in Writers : LET m == writing[w].msg
                     IN  m # NoMessage => DeserializeAs(m.type, Data[m]) = m

\* No Deserialize takes a message whose end is missing for a shorter one: every
\* proper beginning of a message being written is rejected.
CutIsRejected ==
  \A w \in Writers : LET m == writing[w].msg
                     IN  m # NoMessage =>
                           \A n \in 0..Len(Data[m]) - 1 :
                             DeserializeAs(m.type, SubSeq(Data[m], 1, n)) = NoMessage
-----------------------------------------------------------------------------
\* "Thread safety is ensured through careful synchronization using mutexes,
\* atomic variables, and lock-free data structures where possible"
\* (docs/architecture.md:164): threads that send at the same time do not garble
\* each other's messages.
ConcurrentSendsAreSafe == FramesAreIntact
=============================================================================
