# TLA+ models of LinkNet

LinkNet is a peer-to-peer chat and file sharing program in C++. This directory
holds TLA+ modules translated from its source, TLC configurations that check
them on small instances, and proofs that TLAPS checks. `PROJECT.json`
says for every definition which lines of code it models. There, and below,
paths begin with `src/`, the root of the repository.

## The system and its modules

| part | source | modules | state of the work |
|---|---|---|---|
| network manager: listener, io thread, sessions | `src/src/network/asio_network.cpp` | `AsioNetwork`, `AsioNetworkProofs` | modelled, proved |
| framing of a session's byte stream | same file, `PeerSession` | `PeerStream`, `MessageChannel`, `PeerStreamProofs` | modelled, refinement proved for one writer |
| message codec | `src/src/common/message.cpp`, `src/src/file/file_transfer.cpp` | `MessageCodec`, `MessageCodecProofs` | modelled, proved |
| chat manager | `src/src/chat/chat_manager.cpp` | `ChatManager`, `ChatHistory`, `ChatManagerProofs` | modelled except names, proved |
| file transfer | `src/src/file/file_transfer.cpp` | `FileTransfer`, `FileTransferProofs` | receiving side and requests, proved |
| peer discovery | `src/src/discovery/peer_discovery.cpp` | `PeerDiscovery`, `PeerDiscoveryProofs` | modelled, proved |
| console UI | `src/src/ui/console_ui.cpp` | `ConsoleUI`, `ConsoleUIProofs` | modelled, proved |
| `main`: wiring, signals, shutdown | `src/src/main.cpp` | `Application`, `ApplicationProofs` | modelled except the command line, proved |
| cryptography, logger | `src/src/crypto`, `src/include/linknet` | | not modelled |

How they interact: `main` starts the network manager, then sets its callbacks,
then creates the file transfer manager, the UI and the discovery. The io thread
of the network manager runs the message callback (chat, file transfer) and the
connection callback (UI). The discovery's listen thread calls `ConnectToPeer`.
The UI's input thread calls the chat and file transfer managers, which write
to sessions from that thread, while the io thread writes to them too.

In every module a thread is a program counter, a critical section of a mutex
is one step, and what a function does outside of it is a step of its own.
Every bound is a constant whose name begins with `Max`.

### AsioNetwork

A value of `Sessions` is one TCP connection. `appPc` is the application
thread's place in `Start` or `Stop`; `ioThread`, `ioPc`, `ioKind` and
`ioSession` are the io thread and the completion handler it executes; `phase`
and `remote` are the two ends of a connection; `connected`, `inMap`, `reading`
and `sending` are the sets of sessions that are connected, in
`_peer_sessions`, being read, and about to be written to. Accept and connect
handlers share the steps `CreateSession`, `InsertSession`, `SendHello` and
`NotifyConnected`, as the code of both is the same. Failures in the model:
`bind`, the creation of the thread, the accept, the resolver, the connection,
a reset before `remote_endpoint()`, a failed write, a failed read, an exception
of `resize()` and one of the message callback.

### MessageCodec

A message is the record of its members and a buffer a sequence of bytes;
`Serialize` and `Deserialize` of each of the five classes put and get at the
offsets of the source, with its length tests. A 4- or 8-byte integer is the
sequence of its bytes in a little-endian host's memory, so that `htobe64`
reverses it and nothing is cut off; a `size_t` length is reduced modulo 2^32 by
the cast. A byte read from beyond the end of a buffer has the value `Beyond`,
which is no byte: a decoder that tests too little returns what is no message.
`CreateFromBuffer` knows three of the five types.

### PeerStream and MessageChannel

The stream is a sequence of bytes. `SendMessage` appends the four bytes of the
size and then the body, in pieces of the sizes in `PieceSizes`, and may fail
between them; the reader takes four bytes, then as many as they say, and decodes
them with `MessageCodec`. `MessageChannel` is what users of a session rely on;
`ImplementsChannel` states that `PeerStream` implements it, with the closed
reader as the broken channel.

### ChatManager and ChatHistory

The console's thread in `SendMessage` or `BroadcastMessage`, the io thread in
`HandleMessage`, and sessions that come and go between their steps. The two
mutexes that are held across other calls are variables: `_history_mutex`, which
`BroadcastMessage` holds while `GetConnectedPeers` takes `_peers_mutex`, and
`_peers_mutex`, which `DisconnectFromPeer`, called by whoever uses the manager,
holds while it runs the connection callback. A text is its number. `wrote`, `sent` and `received` record what
happened, for the properties. What is sent is kept under the id drawn for the
session and what is received under the id in the message, as in the code, so
`Sessions` and `Users` are disjoint. `ReceivedIsKept` and `HandledOnce` say of a
sequence that it `Lists` a set of messages: exactly those, each as received, in
the order of their numbers. `ChatHistory` has the two queries as operators on the
state. `std::sort` is not stable, so entries with one timestamp may come in any
order: `SortedHistories` is the set of all results it may leave, and
`QueryReturnsNewest` speaks of each of them.

### FileTransfer

One node, with the transfers in and out. A file on disk is a function from
chunk numbers to the peer whose data is there. `DecodedTypes` is the set of
message types that reach `HandleMessage`. With the factory of the repository
(`FactoryTypes`, run `file_factory`) only requests do, and no transfer
completes. The run `file_transfer` lets all three through, so that the handlers
can be checked at all: what it shows holds once the factory decodes them. Two
more constants say how keys are built at the two ends. `SharedIds`: with
`AsioNetworkManager` each of two nodes draws an id of its own for the session
between them, so that an answer addressed to the sender named in a request is
looked up in vain and not sent. `BareNames`: `SendFile` makes the path the id of a
file and the request carries its name, so that chunks are recognised only when
path and name are the same. The run `file_transfer` sets both to the case in which
transfers work. A chunk is `Lost` when `close()` of the output file, whose result
the code does not test, fails to store it.

### PeerDiscovery

Time passes in broadcast intervals. `age` is the table of discovered peers;
`stale` are the entries over age when the clean-up read the clock, before it
took the mutex. A blocked `recvfrom` is woken by a datagram only, which is how
Linux treats a `close()` in another thread.

### ConsoleUI

The main, input and display threads, the queue with its condition variable, and
the mutex of the command table. `joinable` holds the `std::thread` members not
joined yet. A `std::mutex` locked twice by one thread blocks for ever, and a
thread that joins itself gets an exception, as in libstdc++. Signals are handled
on the main thread, in `Start`, in the `DisplayHelp` it ends with, or while `main`
polls: the handler runs `Stop` with the mutexes the interrupted code holds, and if
that is the mutex of the queue, `mainPc` is `"stuck"`.

### Application

Extends `AsioNetwork`: the threads of the program take that module's actions,
restricted to the order in which they make the calls. `mainPc` is the next
statement of `main` that another thread can tell apart; `callback` is the network
manager's message callback and `captured` the copy each session was made with;
`resolver` holds the `ConnectToPeer` a thread is in, `dialled` the sessions this
node has opened and `announced` those the UI was told of, which takes `uiSet`, the
assignment of `g_ui`. `input` is the UI's input thread, which tests `_running`
before it runs a line and not while it runs it, and which the command exit leaves
unjoined. A refused, empty or throwing callback decides which outcomes of
`Deliver` are possible. Discovery and UI are here no more than what they do to the
network manager.

## What the runs check

Each module has a type invariant. Those of `PeerStream` and `FileTransfer` are
checked by their runs; the others are theorems (below) and not part of a run.

Runs that pass:

- `network` (1 connection, 2 starts): no handler and no io thread outlives
  `Stop`, which leaves no session connected but one that a handler is about to
  insert; every connected session is in the map or about to be, and is being
  read while the io_context runs; no message is delivered before its session was
  announced; an accept handler accepts again as long as the manager runs; `Stop`
  returns; a dead peer is noticed. The safety properties are proved for any
  number of connections, so the run has one, and two starts for what a stopped
  manager leaves behind.
- `stream` (a message of each class, one of them also empty, 3 sends, pieces of
  40 and 100 bytes, which cut both the header and the body): frames stay intact,
  the channel is implemented, every message decodes to itself, no truncated one
  is accepted, and what is written is read, with types the factory does not know
  among them.
- `chat` (2 sessions, 1 user, 2 timestamps, 3 messages in all): entries are the
  messages as sent; a direct message is kept exactly if it was written; a
  broadcast is kept for the peers that got it and stay, although the list of
  peers is read twice; received messages are kept in order and announced once
  each; the queries return the newest entries; every call gets past the two
  mutexes, whoever disconnects a session meanwhile. Three messages allow
  a broadcast and a direct one around a received one.
- `app` (1 connection, 1 start): the program stops the network manager when
  nobody is in a call to it; when `main` returns no thread is in the managers, and
  the input thread, which may still be there, makes no further call; a session
  this node opened delivers nothing before the UI was told of it; the program ends
  once the exit command has stopped the UI and a datagram has woken the listen
  thread. The safety properties are proved for any number of connections.
- `file_transfer` (2 peers, 2 requests each): a file with a short last chunk and
  one of exactly one chunk, chunks in any order and repeated, failing writes,
  cancellations, and a second request for the same file. A completed file has
  all its chunks (except one that `close()` failed to store), the byte count is
  that of the chunks received, and a file reported complete or failed is not
  reported otherwise until it is offered again.
- `discovery` (this node and another, 2 starts): no thread outlives `Stop`, no
  entry of the table is announced twice, one made after the callback was set is
  announced or about to be, a refreshed entry is not dropped and a
  silent one is, as long as there is a broadcast thread (`Start` may fail to
  create it and leave `_running` set). Entries of the table do not influence each other, so one other
  node is enough. The time-out is two intervals instead of six: it is only
  compared with ages.
- `ui` (2 lines, each of any kind, 2 messages of other threads): no lost wake-up,
  messages are shown, the display thread ends after every kind of stop, and a
  stop by signal joins the threads there are and returns. The exceptions are
  named in the properties: the input thread is stuck in the help command, or the
  signal has interrupted the `DisplayHelp` of `main` while it held a mutex. The
  queue is filled by three threads at once.

Deadlock is not checked: in all of these systems it is legal that nothing
happens any more (the starts are used up, the UI has ended).

Runs that show where the code differs from what the repository says of it; each
has a finding in `PROJECT.json` with the quotation:

- `app_callback`: `FileTransferFactory::Create` replaces the message callback, so
  that sessions made afterwards deliver nothing to the chat manager.
- `stream_two_writers`: two threads that send at once break the framing.
- `file_factory`: the end of a transfer is never signalled. The peer's answer goes
  to an id that is not among its sessions, and `MessageFactory` would not decode
  `FILE_TRANSFER_COMPLETE` if it came.
- `discovery_stop`: `Stop` waits for a listen thread that `close()` does not wake.
- `ui_exit`: the exit command runs `Stop` on the thread that `Stop` joins.

Further behaviour that the models show and that differs from the documents, not
checked by a run of its own: an accept handler that ends before `Start` sets
`_is_running` is the last one; a session inserted after `Stop` has emptied the
map stays connected; the connection callback never hears of a peer that
closes its end; a session accepted before `main` sets the message callback is
closed by its first message; one accepted before `main` assigns `g_ui` is never
shown; the discovery connects twice to every peer it finds;
a conversation is kept under two keys, which no query joins (`src/docs/components/chat.md:78`
speaks of a "Separate chat history for each peer"); a peer that joins or leaves
during a broadcast has the entry without the message or the reverse;
the io_context is not restarted by a second `Start`;
`FILE_CHUNK` is not decoded by the factory either; an answer handled before
`SendFile` has stored the transfer would be lost; an empty file never completes; the receiver ignores a cancellation by the sender;
a file sent by a path other than its bare name has chunks the receiver does not know;
two files of one name share an output file; a node with the same port on another
host is skipped as this node; a peer heard before the callback is set is not
announced while it stays in the table; the help command blocks the input thread; a
signal during the `DisplayHelp` of `main` may block `Stop`; after the exit command
`main` returns without joining the UI's threads; messages queued at the
moment of `Stop` may not be shown.

Each property of a passing run has a mutant, an operator defined next to the
definition it mutates, under which TLC finds the property violated.

## Fairness

- A thread inside a call or a handler goes on: weak fairness of its steps.
- The io thread executes completions that are available again and again: strong
  fairness per session, because asio's queue is first-in first-out.
- The chat manager's two threads, and one in `DisconnectFromPeer`, go on inside a
  call. `main`, the listen thread
  inside its callback and the io thread inside a handler, or when it is to
  return, go on; the input thread need not, the user need not type and peers need not connect.
- A reader reads while there is data; an unfinished write goes on or fails.
- File transfer, `file_factory` only: a peer answers a request, and an answer that
  was sent and is decoded is handled.
- Discovery: a waiting datagram is read. Only `discovery` and `app` assume that
  some other node announces itself; `discovery_stop` shows that `Stop` needs it.
- UI: `getline` returns at some time. Without that, a stop by signal waits for
  the user.

Nothing is assumed of calls the application may or may not make, of failures,
or of other nodes beyond this.

## What is proved

All of it holds for every value of the constants, under the assumptions the
modules name: `NoSession` is not a session, sessions and users have different
ids, messages are of the five classes with lengths below 2^32, there are finitely
many keys in the history, timestamps and file sizes are natural numbers, a chunk
has at least one byte, bounds are natural numbers. A theorem that needs more says
so in its own hypotheses; they are named below. Every safety property of a passing
run is a theorem. TLC finds no violation of the inductive invariants named below on
the instances of the runs (for `InStep` with a smaller `TwoTo32`, which is beyond
TLC's integers).

**AsioNetworkProofs**: `TypeCorrect`, `StoppedQuiet`, `Registered`, `StopCloses`,
`AlwaysRead`, `NotifiedFirst`. None of the invariants is inductive alone. `IInv` adds

- `ThreadInv`: a handler is executed only by a running io thread, `_is_running`
  is false throughout `Start` and `Stop`, there is no thread before it is
  created and after it is joined;
- `ReadIsNotified`: a session being read has been announced, or will be by the
  handler that started the read (needed when a read completes);
- `NoThreadNoSession`: before the first io thread there is no session (needed
  when the thread starts, for `ConnectedIsRead`).

`AcceptLoop` is an action property, from `KindInv`, which says what a handler's
next step tells of its kind.

**ApplicationProofs**: the lemma `ProgramIsNetwork` says that every step of the
program is a step of `AsioNetwork` or leaves its variables alone, so the theorems
above hold in the program, and the program's own invariant may use them.
`ProgramTypes`, `ExitQuiet`, `StopAfterCallers` and `AnnouncedFirst` follow from
`PInv`: where `main` is in the life of the manager (`MainInv`), who can call it
then (`CallersInv`), which callbacks are set (`CallbackInv`), and what was
announced of a session (`AnnouncedInv`).

**MessageCodecProofs**: `DecodingInBounds`, `MessageRoundTrip` and
`CutMessageRejected`, from lemmas about `Put`, `Get` and the words, and about
what each class has at which offset. `PeerStreamProofs` carries them to the
stream: `TypeCorrect`, `RoundTripAlways`, `CutAlwaysRejected`.

**PeerStreamProofs** further has `FramesStayIntact` and the refinement
`SessionIsChannel`, for any messages, any sizes of the pieces, failures anywhere in
a write, and a close at any time. Both suppose that one thread does all the
sending, `Writers = {w}`: with two the statement is false, as `stream_two_writers`
shows, since nothing in `SendMessage` keeps them apart. Both also suppose
`ShortMessages`, that a serialized message is shorter than 2^32 bytes, since the
size word says its length modulo 2^32. `FramesAreIntact` speaks of whole frames
only, so it does not survive a `WriteBody` that writes a piece. `InStep` says what
comes after the whole frames: a proper beginning of one frame, and, as long as the
session is connected, exactly the part that the writer has written. A proper
beginning of a frame never satisfies the reader's demand for bytes, so the reader
takes a message only when `flight` has one, and it is that one; this is also why
every step of the stream is a step of the channel.

**ChatManagerProofs**, sending: `ChatTypes`, `Recorded`, `DirectKept`,
`BroadcastKept`.
`IInv` adds which message the call in progress is about (`CallInv`, `IoInv`,
`NotYetKept`), what is known of messages constructed and written (`SentInv`,
`WroteInv`), and that a collected session which is still connected was written to
and is in the second list of peers (`BroadcastInv`): sessions do not come back,
so that being connected at the end implies it all along.

Receiving: `ReceivedKept` and `Handled`. Their invariant is `Arrivals`: both
properties for the numbers of messages stored and announced so far, which differ
while `HandleMessage` is between its two critical sections; that a message carries
its number; and that past the test of its type there are only chat messages.
`QueryNewest` holds in every state whose variables have their types, for every
limit and every order `std::sort` may leave. It is an argument about injections
from positions to places: an entry is left out only if its place is before those
of all that are returned.

**FileTransferProofs**: `FileTypes` and `BytesReceived` follow from `Counted`,
which adds that the chunks received are chunks of the file. The step that needs an
argument is `AllBytesAllChunks`: no chunk is empty, so a set of chunks has all the
bytes of the file only if it has all its chunks, and `HandleFileChunk`, which
compares bytes, reports a file complete at the last chunk missing and not before.
`CompletedIsWhole` follows from `Whole`: an active transfer's chunks are on disk
unless the output file has just been truncated for the next request, and a
transfer being opened or active has not been reported. It supposes that every peer
offers a file under a name of its own, as in the instance TLC checks: files of one
name share an output file and overwrite each other. `OwnFileIsWhole` has the
hypothesis for one peer only. `ReportStands` is an action property, from
`Unreported`: a file being opened or received has not been reported yet. `FactoryCompletesNothing` is about the repository's
decoder, `DecodedTypes = FactoryTypes`, and says why `file_factory` fails: no chunk
and no completion ever arrives.

**PeerDiscoveryProofs**: `DiscoveryTypes`, `DiscoveryQuiet`, `Announcement`, and
the action property `Expiry`. `IInv` adds where the threads are during `Start`
and `Stop` (`ThreadInv`), that the entry about to be announced has not
been yet (`NotifyInv`), and that what the clean-up found over age is so until it
is refreshed (`StaleInv`).

**ConsoleUIProofs**: `UITypes`, `NoLostWakeup`, `Joined`. `IInv` adds the order of
the joins (`JoinInv`), and that outside of `main`'s own `Stop` only the exit
command clears `_running` (`ExitInv`).

The library's induction theorems cannot be used by the installed provers. Where
induction over data is needed (concatenations, sums over sets of chunks) it is done
with the least counterexample: `WFMin` gives a minimal element of a non-empty set of
numbers, or of finite sets under strict inclusion, and a lemma shows that there is
none (`LeastNat` and `FromZero` in `PeerStreamProofs`). `PeerStream` defines
`Concatenation` itself rather than take it from `SequencesExt`, because that module
makes every proof step several times slower to check.

Only model-checked: liveness (`StopReturns`, `DeadPeerNoticed`, `CallsReturn`,
`ProgramEnds`, `WrittenIsRead`, `SilentIsForgotten`,
`MessagesAreShown`, `DisplayEnds`), which the prover does not handle, as it has no
rule for fairness and `ENABLED`. The sessions of a program whose threads send at
the same time have no theorem, since the property does not hold of them.

## Not modelled

- Cryptography: calls of libsodium without state over time; `main` creates the
  provider, and no other part uses it.
- The logger: output under one mutex.
- `StartSendingFile` and `SendNextChunk`: private, and no code calls them.
  `FileTransfer` leaves sending to the peers, with the chunks those functions
  would make.
- `SetLocalUserId` and `SetLocalUserName`, which nothing calls; user names; how
  ids are drawn; the command line; texts, colours, progress callbacks,
  statistics.
- Data races on the callback members, which are set after the threads that read
  them have started: setting one is a single step here.
- Signals while a thread is being constructed or memory allocated, or delivered to
  a thread other than `main`'s.
- The destruction of statics and locals after `std::exit` or an exception while
  threads run.
