# asio_learn: TLA+ models, model checking and proofs

This directory holds TLA+ specifications of the servers in `src/example`, the
TLC configurations that check them and TLAPS proofs about them. Every
definition is a translation of code; `PROJECT.json` lists for each one the file
and the lines it stands for.

* [The system](#the-system)
* [The modules](#the-modules)
* [What the runs check](#what-the-runs-check)
* [Where the code disagrees with itself](#where-the-code-disagrees-with-itself)
* [What is proved](#what-is-proved)
* [What is not modelled](#what-is-not-modelled)
* [Plan](#plan)

## The system

The repository is a collection of network programs, most of them on Boost.Asio.
These have concurrent or stateful logic of their own.

### logicServer and BoostCoServer

Two versions of one layered server. A client sends frames, a head of a 16-bit
id and a 16-bit length, and a body of JSON. The parts:

| Part | State | Operations | Talks to |
|------|-------|------------|----------|
| `AsioServicePool` | the io_contexts, a thread and a work guard for each, the index of the next | constructor, `GetIOService`, `Stop` | runs the handlers of the sessions |
| `CServer` | acceptor, `_sessions` by uuid, `_mutex` | `StartAccept`, `HandleAccept`, `ClearSession` | makes sessions, is called back by them to be forgotten |
| `CSession`, reading | socket, buffers, parser state (`logicServer`) or the frame of a coroutine (`BoostCoServer`) | `Start`, `HandleRead` | posts whole messages to the logic layer |
| `CSession`, sending | `_send_que`, its lock, `_b_close` | `Send`, `HandleWrite`, `Close` | called by the logic layer; writes to the socket |
| `LogicSystem` | `_msg_que`, mutex, condition variable, `_b_stop`, the worker, callbacks by id | `PostMsgToQue`, `DealMsg`, destructor | callbacks call `CSession::Send` |

So a message crosses two threads: the io thread of the session reads it and
posts it, the one logic thread answers it with `Send`, and the io thread
completes the write. Shared between them are the logic queue, the send queue,
the socket and the references that keep a session alive; the map of sessions is
shared between the main thread and all io threads.

What makes this hard, and what correctness means:

* *The logic queue* notifies only when a push makes it non-empty, after the
  unlock, and is stopped by a flag written without the mutex. Correct: no
  message is left behind a sleeping worker; callbacks run once, in posting
  order; shutdown serves what was posted and ends.
* *The send queue* is driven by two threads, either of which may start a write;
  the buffer of a write belongs to the front of the queue; a write may fail
  after part of it is on the stream. Correct: one write at a time, of the
  front; no stall; replies in order, once; nothing behind a torn frame; the
  session is freed.
* *The read path of logicServer* is one state machine over chunks that the
  network cuts anywhere. Correct: messages are the frames sent, whole, in order
  and once; no copy leaves a buffer, whatever length a head gives; every path
  arms exactly one read or gives the session up.
* *The read coroutine of BoostCoServer* can be overtaken by a write that fails
  and closes the session while it is suspended. Correct: it ends, makes messages of
  the frames sent and of nothing else, and `ClearSession` was called for the session.
* *The map* is changed by `HandleAccept`, after the session was started, and by
  `ClearSession` on any io thread. Correct: the map holds the live sessions and,
  but for the two leaks the code has, no others.
* *Shutdown* by a signal: correct if `main` returns.

### The chat room of webSocketServer

`listener` accepts, `http_session` answers plain HTTP or turns the connection
into a `websocket_session` on upgrade, and `shared_state::send` passes what one
session reads on to all. Any number of threads run one io_context. Each session
has a strand; the set of sessions has a mutex but holds plain pointers, and
messages are passed on after the mutex is released by weak pointers copied
under it. Correct: no pointer in the set is to freed memory, nothing is posted
for a session that is gone, one write at a time, no message of a sender lost,
swapped or doubled, and every broken session is freed.

The HTTP half has its own hazards: requests may be sent ahead of the answers,
one deadline covers a request and its answer, and the upgrade moves the socket
away from the session. Correct: each request is answered in turn, nothing is
answered behind the last answer, and a silent connection ends.

### beastHttpServer

One thread, one io_context; an `http_connection` per client reads one request,
answers it and is done. The read or write and the wait for the deadline are
outstanding together and both hold the connection; each changes what the other
finds (`close`, `cancel`). Correct: every connection ends, whichever comes
first.

The clients of the repository, `jsonClient` and `testClient`, write a request,
block until they have read the reply, and go on. Correct: such a client is never
refused by the full send queue, and gets its reply.

### The N-queens client and servers

The client (`nqueen`) makes a task of each column of the first row, calls a gRPC
server for each from a thread of its own, adds up the counts in the order of the
tasks, and compares the sum with a search of its own. A call that fails counts
as 0. The messages go through code generated by protoc, which sizes a message
and writes it in two passes. Correct: an answer is the number of placements of
its task; the verdict is right if and only if no call failed that mattered; the
client comes to a verdict; the two passes agree.

### The echo servers

`coServer` with `coClient`, and `websocket_server_coro` with its client: a
listener coroutine starts a coroutine per connection, which reads, writes back
what it read, and does not read while it writes. Nobody waits for the
coroutines, and what they throw is dropped. Correct: the client gets back what it
wrote, in order and whole; neither side waits for the other for ever; no
coroutine outlives its client.

The remaining programs are samples of a library without state.

## The modules

| Module | Models | Lines |
|--------|--------|------:|
| `Mailbox` | abstract: a fair FIFO mailbox | 39 |
| `LogicSystem` | `LogicSystem` of both servers; the variable `coServer` says which | 323 |
| `LogicSystemProofs` | proofs about it | 594 |
| `Outbox` | abstract: what is handed over is delivered in order, none lost if it is reliable, until it breaks | 63 |
| `SendQueue` | the sending half of a session and what keeps the session alive, both servers | 405 |
| `FrameStream` | abstract: frames sent, messages posted, until a frame ends the stream or the receiver falls out of step | 78 |
| `HandleRead` | the reading half of a logicServer session, byte by byte | 333 |
| `HandleReadProofs` | proofs about it | 1573 |
| `MCHandleRead` | the frames TLC lets the peer send | 20 |
| `CoSession` | a whole BoostCoServer session: EXTENDS `SendQueue` with the read coroutine | 301 |
| `Conversation` | a session of either server with its client: EXTENDS `CoSession` with the reader of logicServer, frame by frame while it is in step, and the clients of the repository | 164 |
| `MCConversation` | the frames TLC lets the clients send | 19 |
| `SessionProofs` | proofs about `SendQueue`, `CoSession` and `Conversation` | 2255 |
| `Server` | `CServer`, `AsioServicePool` and `main` around the sessions, both servers | 302 |
| `ServerProofs` | proofs about it | 399 |
| `Chat` | the chat room: `websocket_session` and `shared_state` | 336 |
| `ChatProofs` | proofs about it | 1041 |
| `HttpSession` | the HTTP half of the same server: `listener`, `http_session` and `handle_request` | 280 |
| `MCHttpSession` | the requests TLC lets the client send | 18 |
| `HttpConnection` | `beastHttpServer` | 224 |
| `HttpProofs` | proofs about `HttpSession` and `HttpConnection` | 839 |
| `TaskMessages` | the two messages of `nqueen.proto` as the generated code writes, reads and sizes them | 95 |
| `NQueen` | the N-queens client and its servers: EXTENDS `TaskMessages` | 245 |
| `NQueenProofs` | proofs about it and about the messages | 1610 |
| `Echo` | both echo servers with their clients and the network between them | 319 |
| `EchoProofs` | proofs about it | 625 |

How state and actions correspond to the code:

* **LogicSystem.** `que` is `_msg_que`, `stop` is `_b_stop`; the mutex is no
  variable: an io thread holds it within one action, the worker while its
  position is in `Holding`. The test of the predicate and the start of the wait
  are two actions (`TestPredicate`, `Wait`) because the destructor (`SetStop`,
  `NotifyStop`) does not take the mutex. `PostMsgToQue` ends at the unlock,
  `PostNotify` is the notification after it. `front()` of an empty queue is
  undefined in C++: `FrontOfEmpty` either ends the process or corrupts the
  queue, and nothing is claimed afterwards.
* **SendQueue.** `ops` are the writes whose handler has not run; `Referenced`
  says what holds a `shared_ptr` to the session. `HandleWrite` is one action in
  logicServer, which holds the lock throughout; in BoostCoServer it is two,
  `HandleWriteUnlock` and `HandleWriteStart`. The reader is reduced to what it
  may do to this state: `ReceiveMessage`, `ReadFails` (`Close` and
  `ClearSession`), `ReadInvalid` (`ClearSession`), `ReadStops` (neither).
  `HandleAccept` has called `Start()` in the first state and inserts the session
  at some later time (`Insert`), on another thread; `entry` says what has become
  of the entry in the map: it is `due` or, if a `ClearSession` came too early,
  `missed`; it is `in`, or `leaked` if it was inserted after its last
  `ClearSession`; it is `out`. A message is answered (`Send`), dropped by a full
  queue (`SendDropped`), or has no callback (`Unanswered`).
* **HandleRead.** One action is one iteration of the loop. `headData`,
  `headCur`, `headParse` and `node` are the members with those names; `chunk` is
  what is left of `_data`. `Encode` and `Decode` are the byte order conversions
  into signed 16-bit values. `HeadShort` copies without counting, as the code
  does. A length of -1, which the peer sends or a parser out of step finds,
  has steps of its own: `HeadOverruns` makes `new char[0]` and copies what is left
  of the chunk there, since -1 as a `size_t` is larger than any chunk, and
  `BodyOverruns` does so with every chunk from then on. Either may end the process
  (`Survives`). `HandleReadAssumption` asks of a body that it be as long as its
  head says where the parser waits for that many bytes.
* **CoSession.** The position of the coroutine is the `co_await` it is suspended
  at, or about to return from: between the two, other handlers of the same
  thread run. Each of its steps is a step that `SendQueue` allows its reader,
  which is proved (`SessionImplementsSendQueue`). `astray` is the read of
  `(size_t)-1` bytes that a length of -1 begins and only the end of the connection
  ends; `lost` is where it ends. `Callbacks` are the ids with a callback; `Reply`
  takes the oldest message of the session in the logic layer, and answers it if its
  id has one.
* **Conversation.** `patient` says which client it is. `ClientSends` is the write
  of a request, which the patient client does only when it has read a reply to
  each request before. The reader of logicServer is here one action per frame
  (`HandleReadPosts`, `HandleReadInvalid`, `HandleReadThrows`,
  `HandleReadOverruns`, `HandleReadError`): how frames are found in chunks is
  `HandleRead`'s. At any frame the head may arrive in pieces (`HandleReadCut`);
  from then on, as behind a length of -1, the reader is `astray`: it may post what
  nobody sent, refuse a head, throw, or find nothing at all
  (`HandleReadAstray`). Both readers use the send queue as `SendQueue` allows,
  which is proved as well (`ConversationImplementsSendQueue`).
* **Server.** `HandleAccept` is four actions (`AcceptStarts`, `BeginInsert`,
  `EndInsert`, and `AcceptFails`), since sessions run from `Start()` on.
  `erasing` is a thread inside `ClearSession`; in logicServer, which does not
  lock, it may meet an insert or another erase. That is a data race on a
  `std::map`: `raced` records it and the behaviour stops there. A session is
  only its read loop here; it ends with a `ClearSession` (`ReadEnds`), by an
  exception in logicServer (`ReadThrows`) or at the test of `_b_close` in
  BoostCoServer (`ReadLeaves`), which call none.
* **Chat.** `PassOn` is one turn of the loop of `shared_state::send` outside the
  mutex, `Lockable` is `weak_ptr::lock()`. While a session is in `on_read` its
  strand runs nothing else (`StrandFree`). The destructor waits for the mutex
  between `LastReference` and `Leave`.
* **HttpSession.** A session has one operation outstanding at a time, so its
  state is one position: what it waits for, or which result its next handler
  will find. The result and the handler are two actions (`ReadCompletes` and
  `OnRead`), between which the client and other sessions act. `Expire` is the
  deadline of `tcp_stream`, which ends the operation with an error. A session
  that takes the upgrade is `Chat`'s from then on (its `Upgrade`). `Status` and
  `Answer` are `handle_request`.
* **HttpConnection.** A connection has two operations outstanding, a read or
  write (`phase`) and the wait for the deadline (`timer`); both handlers hold
  it, and it is `Freed` when both are over. The timer that expires and its
  handler are two actions: a wait whose handler is queued can no longer be
  cancelled. An exception of the JSON library leaves `run()`
  (`OnReadThrows`).
* **TaskMessages.** A message on the wire is a sequence of fields, each with its
  tag, its size in bytes and its values. The bytes of a varint are left out, its
  length is not (`Int32Size`: a negative value takes ten bytes).
  `partialSize` is the length `ByteSizeLong` leaves in the message for
  `_InternalSerialize`. Sums and the parsing of field after field are recursive
  functions (`Total`, `ReadRequest`).
* **NQueen.** `call[i]` is where the call of task `i` is, from the thread that was
  started for it to the future that is ready. `Search` is the backtracking of both
  programs on their one vector, which is set, passed on and restored, as a recursive
  function of the board with its count, the row and the column; the server enters it
  on a board with a queen in row 0 (`ServerBoard`), the client on an empty one. The
  boards are at most 19 wide (`NQueenAssumption`): the count of a task is an int32,
  which those of a board of 20 overflow. A server that is down when it should answer
  lets the call fail (`CallFails`), as does a connection that breaks.
* **Echo.** `toServer`, `data` and `toClient` are where a unit (a byte, or a
  message) can be between client and client; `Capacity` is what the network
  takes in before a write blocks. `session` is where the coroutine is.
  `AcceptThrows` is the exception that `detached` drops; `HandshakeExpires` the
  timeout that only the WebSocket server has.

Definitions introduced by "A mistake in" are changed versions of the one that
follows them. They are no part of the models; each property is known to fail
when one of them takes the place of the original.

## What the runs check

All bounds are in the `.cfg` files. Deadlock is not checked anywhere because
each of these systems ends: sessions close, processes exit, peers stop at the
bound; what must not stop is stated by leads-to properties instead.

| Run | Question | States |
|-----|----------|-------:|
| `LogicSystem` | Both servers: is a wakeup lost, is `front()` called without data but in the one known case, does shutdown drain, and do they implement `Mailbox`? | 5,561 |
| `LogicSystemLostStop` | Does the worker leave once told to? (It may not.) | |
| `SendQueueLost` | Are the bytes of a reply reported finished on the stream? (They are not.) | |
| `HandleReadSession` | Frames cut anywhere: are buffers respected but for a length of -1, is a read armed, do they become the messages `FrameStream` says? | 596,604 |
| `HandleReadSplit` | Was everything that is posted sent? (It was not.) | |
| `Conversation` | A session of either server with its client, and with writes that fail under its reader: one writer of the front; `ClearSession` is called for what ends, what is out of the map is freed, what is closed ends; is the client that waits ever dropped, and is it answered? `Outbox`, `FrameStream` | 275,538 |
| `Server` | The map of sessions, what leaks from it, the pool and shutdown of both servers | 24,513 |
| `Chat` | The chat room with sessions that come, break and die | 453,310 |
| `HttpSession` | Requests sent ahead of their answers: are they answered in turn, does the deadline end every session, is it `FrameStream` to the client? | 36,564 |
| `HttpConnection` | Two handlers hold a connection, and the deadline races the answer: does every connection end? | 14,936 |
| `NQueen` | Servers that come and go, calls that fail and end in any order: is each answer the count of its task, is the verdict right, do the sizes of the messages agree, is there a verdict? | 9,036 |
| `Echo` | A client that writes all before it reads and a server that does not read while it writes: do both end, and does the client get back what it wrote (`Outbox`)? | 154,585 |

Why the bounds are enough:

* `LogicSystem`: two io threads, because the notification is owed by the one
  that found the queue empty while another pushes; four messages, so that the
  queue empties, fills and is drained; ids with and without a callback.
* `Conversation`, `SendQueueLost`: a limit of 1 (2) and three (five) messages, so
  that the queue is full, refuses, and drains; a write in each position may fail
  with or without part of its frame on the stream. A limit of 1 is the tightest
  for the client that waits (`PatientSafe` shows that any limit above does as
  well). The five frames are one of each kind the readers tell apart: a request,
  an empty body with an id that has no callback, an id too large, and the lengths
  -1 and -2.
* `HandleRead`: `MAX_LENGTH` is 8 instead of 2048, with heads of the real size
  (`HeadIdLen` and `HeadTotalLen` are no parameters); three frames out of short,
  long, too long and negative ones (-1 and below), so that a chunk may hold the end
  of one, the whole of a second and the start of a third.
* `Server`: two io_contexts, so that two threads may meet in the map, and three
  connections, so that the pool wraps around.
* `Chat`: two sessions and three messages: a message may be queued behind one
  whose write is under way or done, while another is still being passed on.
* `HttpSession`: one client, because sessions share only the acceptor and the
  io_context, whose failures the model has for one client as for many; three
  requests, so that one is answered, one is being answered and one waits in the
  buffer, out of each kind `handle_request` tells apart.
* `HttpConnection`: two clients, so that one exception ends the connection of
  the other in each of its positions.
* `NQueen`: boards up to 4, the first size with columns that have solutions next
  to columns that have none, so that a failed call may or may not matter; 2 and 3
  have none at all. Two servers, so that a server has several tasks and one may
  be down while the other answers.
* `Echo`: two clients, so that one may be accepted while the other is not when the
  listener goes; a network of 2 each way and a buffer of 2, so that a request of
  2 * 2 + 1 = 5 fills all three. One unit more and both ends may wait for ever,
  which is why `EchoAssumption` limits the request: coClient writes at most 1023
  bytes, far below what sockets buffer. A request of 0 is an empty line.

Fairness. A thread that can run is scheduled, and a handler that is ready is run:
weak fairness of the actions of threads, handlers and destructors. An asynchronous
write ends one way or the other: it completes, or fails on a connection that is
lost. Peers, signals and spurious wakeups are never fair: no client need connect,
send, take what is written to it or go away. The exceptions are clients of this
repository that are programs without a user in the loop: in `Echo` and `NQueen` they
run on (coClient ends when its user presses return, which `Echo` takes as done).
Deadlines pass, where the code sets one. A gRPC call of `NQueen` has none; that it
ends, with an answer or an error, is an assumption: a server that holds a call for
ever holds the client. An asynchronous read completes only with data or an error;
`FrameStream` promises progress for bytes that have arrived, to a reader in step:
one that is astray need not find anything in what it reads.

## Where the code disagrees with itself

Three runs end in a violation of what a comment or a message of the code says.

* `LogicSystemLostStop`: the destructor sets `_b_stop` and notifies without the
  mutex (`BoostCoServer/LogicSystem.cc:17`), between the worker's test and its
  wait; the worker sleeps and `join()` does not return. Both servers.
* `SendQueueLost`: BoostCoServer writes a queued reply with `_cur_len`, which is
  0 (`BoostCoServer/CSession.cc:149`), and reports it finished.
* `HandleReadSplit`: a head cut by a chunk is copied but not counted
  (`logicServer/CSession.cc:92`), and the next bytes are taken for a new one.

Met on the way, visible in the models, and without a run of their own:

* Behind the shutdown drain logicServer falls through to `front()` of the empty
  queue (`logicServer/LogicSystem.cc:37`), which the comment there says has data.
  BoostCoServer has a `break`. `OnlyDrainLeavesNoData` states that this is the only
  way to an empty queue.
* The N-queens client reports FAILURE for a board of no rows, since its own search
  finds one placement and there is no task. `VerdictIsRight` has the exception.
* A call that fails counts as 0 solutions, and the client reports SUCCESS if its
  task had none.
* The send queue holds up to `MAX_SENDQUE + 1` replies, as the test comes before
  the push and is strict; the log says it is full at `MAX_SENDQUE`. `BoundSafe`
  proves the real bound.
* A frame with an empty body ends a BoostCoServer session with "recv peer
  closed" (`BodyEmpty`).
* `GetIOService` of BoostCoServer never moves on (`Following`): all sessions run
  on the first io_context, though the README speaks of several.
* `ClearSession` of logicServer does not lock, while the insert does; two threads
  in the map at once is a data race. `Server` records it (`raced`) and claims
  nothing from there on.
* The map of sessions leaks in two ways, and `OnlyTwoLeaks`, a part of `MapIsExact`,
  says that there is no third. A session whose last `ClearSession` comes between
  `Start()` and the insert of `HandleAccept` stays in it for good, in both servers
  (`logicServer/CServer.cc:19`, `BoostCoServer/CServer.cc:36`). One whose
  `HandleRead` throws stays there with no read armed, as logicServer only logs the
  exception (`logicServer/CSession.cc:222`).
* Only the upper bound of a length is tested. Below -1, `new char[]` throws. A
  length of -1 passes for a size of 0: logicServer writes in front of the empty
  block and copies all that arrives into it (`logicServer/CSession.cc:132`,
  `MsgNode.h:9`); BoostCoServer asks `async_read` for `(size_t)-1` bytes
  (`BoostCoServer/CSession.cc:85`). `BuffersFit` states, and `BuffersSafe` proves,
  that no other length does this.
* A head that arrives in pieces may leave a waiting client of logicServer without
  a reply on an open connection; `PatientIsAnswered` excepts a session that is out
  of step.
* `Stop` of BoostCoServer's pool does not stop the io_contexts, so shutdown
  waits for the last session (`StopEnds` claims no more).
* An error of `async_accept` is the last thing the listener of webSocketServer
  and the acceptor of beastHttpServer do: neither arms the acceptor again
  (`OnAcceptError`).
* JSON of another shape than beastHttpServer expects makes the JSON library
  throw in a handler, which ends the server (`OnReadThrows`); the check of the
  code is for text that is no JSON.

## What is proved

For every value of the constants, by TLAPS with the SMT, Zenon and PTL
backends, from the named assumptions on the constants in each module and no
others.

* **LogicSystemProofs**: `TypeCorrect`, `WakeupSafe`, `OrderSafe`, `DrainSafe`,
  `FrontSafe` and `MailboxSafe`, the safety part of the refinement. The
  invariant adds to the properties that the queue holds the last messages
  posted, in order (`QueueIsRest`), that the test of the predicate stays good
  while the mutex is held (`SleepsOnEmpty`), and what the worker's position says
  about the flag and the queue (`ShutdownOrder`). `NoLostWakeup` itself is
  inductive with the second: a push onto an empty queue makes the debt, only
  the notification that wakes the worker pays it.
* **SessionProofs**, in two parts. About `SendQueue`: `TypeCorrect`, `WriterSafe`,
  `StallSafe`, `WireSafe`, `BoundSafe`, `TornSafe` and `OutboxSafe`, for both
  servers. The invariant: the queue holds the last replies accepted
  (`QueueIsRest`), nothing on the stream is newer than the front
  (`WireBehindFront`), a failed write is never popped, which keeps later Sends
  from writing (`TornStops`), and a logicServer writes whole frames
  (`WritesWhole`), which makes its outbox reliable.

  About `Conversation`: to the sending half each step of either server's reader is
  one of `SendQueue`'s or leaves it alone (`SendingStep`), in step or not, so
  `ConversationImplementsSendQueue` carries these results to both servers and any
  client (`ConversationWriterSafe`, `ConversationOutboxSafe`).
  `ConversationEndedSafe` is `EndedIsCleared`: what is closed was cleared, and a
  reader ends by one of the two calls or by the exception. `PatientSafe` is about
  both halves and the client: for any limit of the queue from 1 on, the client that
  waits never has a reply dropped while the session is in step. The invariant: no
  more nodes are on the stream than have left the queue, but for the one whose
  handler is still to run (`WireCounted`); the client is at most one request ahead
  of the stream, and every message of it was queued or waits in the logic layer
  (`PatientInv`). So queue and backlog hold at most two together, and a Send, which
  takes one of them from the backlog, finds room. (The limit of the code is
  `MAX_SENDQUE`, 1000; with 0 the reply could be dropped.) `FrameStreamSafe` is the
  safety part of `ImplementsFrameStream`, for both readers: the stream accepts what
  this server does (`Becoming`), and `ReaderInv` ties the position of the reader to
  the frame it is at, so that a step that posts, refuses or gives up is the step of
  the stream for that frame, until a head in pieces or a length of -1 puts the
  reader out of step. `ConversationTypeCorrect` is `CoTypeOK`. The results about a
  BoostCoServer session alone are `SessionImplementsSendQueue`, by which the
  invariants of the send queue hold of it (`SessionWriterSafe`, `SessionStallSafe`),
  and `EndedSafe`: a coroutine that has ended leaves its session out of the map,
  unless its last `ClearSession` came before the insert.
* **HandleReadProofs**: `BuffersSafe`, `PostedUntilSplit` and `FrameStreamSafe`, the
  safety part of the refinement, for any frames, any `MAX_LENGTH` and any cut of the
  stream into chunks. A length of -1 is among them; that the parser never leaves
  such a body is part of `BuffersFit`. The rest of it follows from the fact that
  nothing ever advances `_cur_len` of the head (`BufferInv`), which is the defect
  that `split` records as well. For the rest the invariant says where the parser is
  in the stream: the chunk is the end of what was received (`ChunkInv`), the frames
  sent divide the stream (`Layout`), and until a chunk ends inside a head the parser
  stands at the end of the frame it posted last, or behind the next head by as many
  bytes as it has of the body, which are that body's (`InStep`). The ends of the
  frames are no part of the state; the invariant says that they exist, and a step of
  the peer adds one. `DecodeEncode` shows that a short survives the two conversions,
  `HeadOfFrame` that the head of a frame is read as it was sent.
* **ServerProofs**: `TypeCorrect` and `MapExact`. A session is erased only after it
  ended or was closed (`ErasedIsDone`); an insert meets no erase unless there is a
  race (`InsertIsAlone`); so what has ended with a `ClearSession`, or was closed,
  is out of the map, is being erased, or was erased before its insert
  (`EndedIsErased`).
* **ChatProofs**: `RoomSafe`, `GoneSafe`, `WriterSafe` and `OrderSafe`, the four
  invariants of the run. What is passed on outside the mutex goes only to
  sessions that were in the room, and those of them that can still be locked are
  there yet (`RoomInv`). The order needs an invariant about the one
  sequence of all that is written, queued or posted to a client: a session that
  has anything of a sender has the newest of it, unless that message is still on
  its way in the sender's `on_read` (`Newest`); so the next one the sender passes
  on is the next one there. Without it a session might have been missed once and
  reached again later.
* **HttpProofs**. About `HttpSession`, `TurnSafe` is `AnsweredInTurn`, and
  `RequestStreamSafe` the safety part of `ImplementsRequestStream`. What a session
  does next is about the first request without an answer (`PhaseOk`), and no phase
  behind an answer that closes leads back to a read (`AnswersOk`). About
  `HttpConnection`, which comes in by `INSTANCE` since it shares names with
  `HttpSession`, `ConnectionTypeCorrect` is `TypeOK`, for any finite number of
  clients: `request_count` is the number of clients that were shown a count
  (`CountInv`), none of which is handled again, and a connection whose wait is over
  is closed, by either handler (`DeadlineInv`), so that none is freed open.
* **EchoProofs**: `EchoesInOrder`, the safety part of `ImplementsOutbox`, for both pairs of
  programs. What was written and not read back is in three places, oldest first;
  a coroutine that reads has nothing left to write (`FlowInv`), so what it takes
  is next in order.
* **NQueenProofs**: `AnswersAreCounts`, `VerdictsAreRight` and `SizesAlwaysAgree`,
  the three invariants of the run, for boards up to 19 and any number of servers,
  and what they rest on.
  - `SearchFinds`: for boards of any size, the search counts each completion of its
    board once and nothing else. The function that gives each board, row and column
    the number of completions from there does what the recursion demands
    (`StepFinds`: with a queen set the board has those completions that begin so,
    and taking it back restores it), and by induction on rows and columns no other
    does. `LocalSolveCounts` and `ServerCounts` are its two uses.
  - `RequestRead` and `ResultRead`: a message is read as the one that was written;
    the sizes are lemmas about `Total` over the fields.
  - The invariant of the distribution says what the message under way is at each
    stage of a call (`TaskInv`) and that the sum is the number of placements whose
    task was collected and did not fail (`SumInv`). These are disjoint sets of
    placements, one per column, so the sum falls short exactly when a call failed
    whose task has a placement.

  The induction theorems of the library take a predicate, which the provers cannot
  instantiate. The two inductions here (`UpInduction`, `DownInduction`) are over
  sets of numbers instead, from a least element, which comes from the well-founded
  inclusion of finite sets (`LeastElement`).

Assumed of the constants is what the named assumptions say. Those about frames and
requests are the types of the data, and in `HandleRead` the two of
`HandleReadAssumption` above; `EchoAssumption` also bounds the request by what the
network takes in, which `ClientEnds` needs and no proof uses. `NQueenAssumption` is
the int32 of a result. `HttpProofs` asks for finitely many clients of
beastHttpServer, since it counts them.

Every invariant that a run checks is proved, and the safety part of every
refinement. Only model-checked is what speaks of progress (`StopHeard`,
`ClearedIsFreed`, `ClosedEnds`, `PatientIsAnswered`, `StopEnds`, `BrokenIsFreed`,
`QueuedIsWritten`, `SilentEnds`, `EveryConnectionEnds`, `VerdictComes`,
`ClientEnds`, `SessionsEnd` and the fairness of the refinements: the conjunct
`Progress`, or its like, of each `Implements...`), since the proof system does not
reason about `ENABLED`.

## What is not modelled

* The contents of messages and what the one callback does with its JSON; in
  particular an exception thrown by it.
* What happens inside Asio when `close()` and `async_write` meet on two threads,
  and inside the map of logicServer's sessions when two threads change it.
* What the bytes are that a length of -1 makes logicServer write over, beyond the
  fact that the process may end; after 32 KB the 16-bit `_cur_len` of that node
  would wrap.
* Static destruction order of the singletons, and the exit of a process whose
  acceptor could not be opened while the pool runs.
* What goes on after an error of `async_accept` or an exception of the JSON library
  in beastHttpServer: the models have both, and no line of the code promises
  anything of them, so no property does.
* Bytes that a client sends right behind an upgrade request, which `http_session`
  may have in its buffer when it gives the socket away.
* The exits of the generated parsers for bytes that are no message of this
  protocol: only the programs of the repository write them, and what these write
  always parses (`RequestRead`, `ResultRead`).
* The texts, files and mime types of the HTTP servers; the frames, pings and the
  upgrade inside Beast; the transport of gRPC, which is a call that returns or
  fails; times and printing.
* `AsioThreadPool` (nothing uses it) and `Singleton` (`std::call_once` around a
  constructor).
* The gRPC, protobuf and JSON samples: single calls of a library that print their
  result, and the generated code of their messages, of one or two strings, which
  has the shape of the code modelled in `TaskMessages`.

## Plan

Done, in this order: the logic queue, the send queue, the two read paths, the
frame of the servers, the chat room, the two HTTP servers; then the N-queens
programs with their messages, the conversation of a session with its client, the
echo servers; then the proofs about the conversation, the chat room, the HTTP
half of its server, the framing of logicServer, and the echo servers; last the
proofs about beastHttpServer and the N-queens programs, for which the search and
the messages became recursive functions. Next: a composition of several sessions
with one `LogicSystem`, in which a reply goes to the session its request came from.
