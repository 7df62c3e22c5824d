----------------------------- MODULE SendQueue -----------------------------
(***************************************************************************)
(* The sending half of a session (CSession) of logicServer and             *)
(* BoostCoServer.  The logic thread queues replies with Send; at most one  *)
(* async_write is meant to be outstanding, started by the Send that finds  *)
(* the queue empty and continued by HandleWrite on the io thread.  The     *)
(* buffer of a write belongs to the node at the front of the queue.        *)
(*                                                                         *)
(* The session lives as long as something refers to it: the server's map,  *)
(* an armed read, an outstanding write, or a message in the logic layer.   *)
(* HandleAccept starts the session before it puts it into the map, on      *)
(* another thread: what clears the session may be earlier, and then finds  *)
(* nothing to erase.                                                       *)
(*                                                                         *)
(* The servers differ in HandleWrite: BoostCoServer starts the next write  *)
(* after releasing the lock, and with _cur_len, which is 0 in a SendNode,  *)
(* for its length.                                                         *)
(***************************************************************************)
EXTENDS Naturals, Sequences

CONSTANTS
  MaxSendQue,   \* MAX_SENDQUE
  MaxPosts      \* bound on the messages the session receives

ASSUME SendQueueAssumption ==
  /\ MaxSendQue \in Nat
  /\ MaxPosts \in Nat

VARIABLES
  coServer,    \* which of the two servers this is; never changes
  sendQue,     \* _send_que; a node is the number of its Send among the accepted
  accepted,    \* Sends that queued a node
  backlog,     \* messages of this session in the logic layer, not yet answered
  posted,      \* messages received so far
  ops,         \* async_writes whose handler has not run yet
  started,     \* async_writes started so far
  next,        \* HandleWrite between unlock and async_write: its node, else 0
  wire,        \* nodes put on the stream whole, in order
  torn,        \* a failed write left part of a node on the stream
  open,        \* the socket is open
  reading,     \* a read is armed
  entry        \* the session's entry in the server's map, see Entries

vars == <<coServer, sendQue, accepted, backlog, posted, ops, started, next, wire, torn,
          open, reading, entry>>

\* Yet to be inserted: "due", or "missed" by a ClearSession.  Inserted: "in",
\* or "leaked" if that ClearSession was the last.  Erased: "out".
Entries == {"due", "missed", "in", "leaked", "out"}

Op == [id: Nat, node: Nat, full: BOOLEAN, result: {"writing", "ok", "error"}]

\* ClearSession was called since the session was put into the map, or before.
Cleared == entry \notin {"due", "in"}

\* What ClearSession leaves of the entry.
Erased == IF entry \in {"due", "missed"} THEN "missed" ELSE "out"

\* Something holds a shared_ptr to the session; until it is in the map,
\* HandleAccept does.
Referenced == entry # "out" \/ reading \/ ops # {} \/ next # 0 \/ backlog > 0

Init ==
  /\ coServer \in BOOLEAN
  /\ sendQue = <<>>
  /\ accepted = 0
  /\ backlog = 0
  /\ posted = 0
  /\ ops = {}
  /\ started = 0
  /\ next = 0
  /\ wire = <<>>
  /\ torn = FALSE
  /\ open = TRUE
  /\ reading = TRUE
  /\ entry = "due"

-----------------------------------------------------------------------------
(* The server's thread.                                                    *)

\* HandleAccept, once Start() has returned: the session goes into the map.
Insert ==
  /\ \/ entry = "due" /\ entry' = "in"
     \/ entry = "missed" /\ entry' = "leaked"
  /\ UNCHANGED <<coServer, sendQue, accepted, backlog, posted, ops, started,
                 next, wire, torn, open, reading>>

-----------------------------------------------------------------------------
(* The reading half, as far as the sending half can tell.                  *)

\* HandleRead posts a complete message and arms the next read.  What was read
\* before the socket was closed is still handled.
ReceiveMessage ==
  /\ reading
  /\ posted < MaxPosts
  /\ posted' = posted + 1
  /\ backlog' = backlog + 1
  /\ UNCHANGED <<coServer, sendQue, accepted, ops, started, next, wire, torn,
                 open, reading, entry>>

\* HandleRead with an error, the peer's or the abort that follows Close:
\* Close() and ClearSession.
ReadFails ==
  /\ reading
  /\ reading' = FALSE
  /\ open' = FALSE
  /\ entry' = Erased
  /\ UNCHANGED <<coServer, sendQue, accepted, backlog, posted, ops, started,
                 next, wire, torn>>

\* HandleRead with an invalid header: ClearSession without Close, no new read.
\* The destructor closes the socket when nothing else refers to the session.
ReadInvalid ==
  /\ reading
  /\ reading' = FALSE
  /\ entry' = Erased
  /\ UNCHANGED <<coServer, sendQue, accepted, backlog, posted, ops, started,
                 next, wire, torn>>
  /\ open' = (open /\ Referenced')

\* The reader ends and calls neither: the coroutine of BoostCoServer when it
\* finds _b_close set, HandleRead of logicServer after an exception.
ReadStops ==
  /\ reading
  /\ coServer => ~open
  /\ reading' = FALSE
  /\ UNCHANGED <<coServer, sendQue, accepted, backlog, posted, ops, started,
                 next, wire, torn, entry>>
  /\ open' = (open /\ Referenced')

-----------------------------------------------------------------------------
(* The logic thread.                                                       *)

\* async_write of a node, next to the writes in others.
StartWrite(others, node, full) ==
  /\ ops' = others \cup {[id |-> started + 1, node |-> node, full |-> full,
                          result |-> "writing"]}
  /\ started' = started + 1

\* A mistake in Accepts: a queue at its limit is taken for a full one.
AcceptsFewer(size) == size < MaxSendQue

\* Send refuses a node when the queue is LONGER than MAX_SENDQUE.
Accepts(size) == size <= MaxSendQue

\* A mistake in StartsWrite: every Send starts a write.
StartsWriteAlways(size) == size \in Nat

\* A mistake in StartsWrite: the size is taken to count the node just pushed.
StartsWriteAfterPush(size) == size = 1

\* Send leaves the write to HandleWrite unless the queue was empty.
StartsWrite(size) == size = 0

\* Send, under _send_lock.  The callback's reference goes when it returns.
Send ==
  /\ backlog > 0
  /\ Accepts(Len(sendQue))
  /\ accepted' = accepted + 1
  /\ sendQue' = Append(sendQue, accepted + 1)
  /\ backlog' = backlog - 1
  /\ IF StartsWrite(Len(sendQue))
     THEN StartWrite(ops, Head(sendQue'), TRUE)
     ELSE UNCHANGED <<ops, started>>
  /\ UNCHANGED <<coServer, posted, next, wire, torn, reading, entry>>
  /\ open' = (open /\ Referenced')

\* A message goes, with its reference to the session, and no reply is queued.
Discard ==
  /\ backlog > 0
  /\ backlog' = backlog - 1
  /\ UNCHANGED <<coServer, sendQue, accepted, posted, ops, started, next, wire,
                 torn, reading, entry>>
  /\ open' = (open /\ Referenced')

\* Send with the queue too long: the reply is dropped.
SendDropped == ~Accepts(Len(sendQue)) /\ Discard

\* No callback is registered for the id of the message.
Unanswered == Discard

-----------------------------------------------------------------------------
(* The operating system completes a write.                                 *)

Complete(op, result) == ops' = (ops \ {op}) \cup {[op EXCEPT !.result = result]}

\* All bytes of the buffer were written.  asio completes a write of no bytes
\* successfully without touching the socket, even a closed one.
WriteCompletes(op) ==
  /\ op.result = "writing"
  /\ open \/ ~op.full
  /\ Complete(op, "ok")
  /\ wire' = IF op.full THEN Append(wire, op.node) ELSE wire
  /\ UNCHANGED <<coServer, sendQue, accepted, backlog, posted, started, next,
                 torn, open, reading, entry>>

\* The connection breaks, or the socket was closed under the write.  Some of
\* the bytes may have gone out.
WriteFails(op) ==
  /\ op.result = "writing"
  /\ op.full
  /\ Complete(op, "error")
  /\ torn' \in {torn, TRUE}
  /\ UNCHANGED <<coServer, sendQue, accepted, backlog, posted, started, next,
                 wire, open, reading, entry>>

-----------------------------------------------------------------------------
(* HandleWrite, on the io thread.                                          *)

\* The node written last leaves the queue, which is empty now.
HandleWriteLast(op) ==
  /\ op.result = "ok"
  /\ Len(sendQue) = 1
  /\ sendQue' = <<>>
  /\ ops' = ops \ {op}
  /\ UNCHANGED <<coServer, accepted, backlog, posted, started, next, wire,
                 torn, reading, entry>>
  /\ open' = (open /\ Referenced')

\* A mistake in HandleWriteNext: no write is started for the next node.
HandleWriteNextForgotten(op) ==
  /\ ~coServer
  /\ op.result = "ok"
  /\ Len(sendQue) > 1
  /\ sendQue' = Tail(sendQue)
  /\ ops' = ops \ {op}
  /\ UNCHANGED <<coServer, accepted, backlog, posted, started, next, wire,
                 torn, reading, entry>>
  /\ open' = (open /\ Referenced')

\* logicServer: the next node is written under the same lock.
HandleWriteNext(op) ==
  /\ ~coServer
  /\ op.result = "ok"
  /\ Len(sendQue) > 1
  /\ sendQue' = Tail(sendQue)
  /\ StartWrite(ops \ {op}, Head(sendQue'), TRUE)
  /\ UNCHANGED <<coServer, accepted, backlog, posted, next, wire, torn, open,
                 reading, entry>>

\* BoostCoServer: the next node is taken under the lock ...
HandleWriteUnlock(op) ==
  /\ coServer
  /\ op.result = "ok"
  /\ Len(sendQue) > 1
  /\ sendQue' = Tail(sendQue)
  /\ next' = Head(sendQue')
  /\ ops' = ops \ {op}
  /\ UNCHANGED <<coServer, accepted, backlog, posted, started, wire, torn,
                 open, reading, entry>>

\* ... and written outside it, with a length of _cur_len = 0.
HandleWriteStart ==
  /\ next # 0
  /\ StartWrite(ops, next, FALSE)
  /\ next' = 0
  /\ UNCHANGED <<coServer, sendQue, accepted, backlog, posted, wire, torn,
                 open, reading, entry>>

\* A mistake in HandleWriteError: the session is cleared but not closed.
HandleWriteErrorNoClose(op) ==
  /\ op.result = "error"
  /\ ops' = ops \ {op}
  /\ entry' = Erased
  /\ UNCHANGED <<coServer, sendQue, accepted, backlog, posted, started, next,
                 wire, torn, reading>>
  /\ open' = (open /\ Referenced')

\* A mistake in HandleWriteError: the session stays in the map.
HandleWriteErrorNoClear(op) ==
  /\ op.result = "error"
  /\ ops' = ops \ {op}
  /\ open' = FALSE
  /\ UNCHANGED <<coServer, sendQue, accepted, backlog, posted, started, next,
                 wire, torn, reading, entry>>

\* Close() and ClearSession.  The node stays in the queue, so no later Send
\* starts a write.
HandleWriteError(op) ==
  /\ op.result = "error"
  /\ ops' = ops \ {op}
  /\ open' = FALSE
  /\ entry' = Erased
  /\ UNCHANGED <<coServer, sendQue, accepted, backlog, posted, started, next,
                 wire, torn, reading>>

-----------------------------------------------------------------------------

HandleWrite(op) ==
  \/ HandleWriteLast(op)
  \/ HandleWriteNext(op)
  \/ HandleWriteUnlock(op)
  \/ HandleWriteError(op)

Next ==
  \/ Insert
  \/ ReceiveMessage
  \/ ReadFails
  \/ ReadInvalid
  \/ ReadStops
  \/ Send
  \/ SendDropped
  \/ Unanswered
  \/ \E op \in ops : WriteCompletes(op) \/ WriteFails(op) \/ HandleWrite(op)
  \/ HandleWriteStart

SafeSpec == Init /\ [][Next]_vars

\* The server's, the logic and the io thread are scheduled, a write ends one way or
\* the other, and a read armed on a closed socket is aborted.  The peer need
\* not send anything, and nothing need fail.
Fairness ==
  /\ WF_vars(Insert)
  /\ WF_vars(Send \/ SendDropped \/ Unanswered)
  /\ WF_vars(\E op \in ops : WriteCompletes(op) \/ WriteFails(op))
  /\ WF_vars((\E op \in ops : HandleWrite(op)) \/ HandleWriteStart)
  /\ WF_vars(~open /\ ReadFails)

Spec == SafeSpec /\ Fairness

-----------------------------------------------------------------------------
(* Properties.                                                             *)

TypeOK ==
  /\ sendQue \in Seq(Nat)
  /\ accepted \in Nat
  /\ backlog \in Nat
  /\ posted \in Nat
  /\ ops \subseteq Op
  /\ started \in Nat
  /\ next \in Nat
  /\ wire \in Seq(Nat)
  /\ {coServer, torn, open, reading} \subseteq BOOLEAN
  /\ entry \in Entries

(***************************************************************************)
(* Send on the logic thread and HandleWrite on the io thread never have    *)
(* two writes of one socket under way, and the buffer of the write under   *)
(* way (or about to start, outside the lock) is the node that the queue    *)
(* keeps alive at its front; so pop() never meets an empty queue.          *)
(***************************************************************************)
SoleWriterOfFront ==
  /\ \A op1, op2 \in ops : op1 = op2
  /\ \A op \in ops : sendQue # <<>> /\ op.node = Head(sendQue) /\ next = 0
  /\ next # 0 => sendQue # <<>> /\ next = Head(sendQue)

(***************************************************************************)
(* A queue with replies in it always has someone who will go on with it,   *)
(* unless the session is already closed: the decision "somebody else is    *)
(* writing" in Send is never taken on a stale size.                        *)
(***************************************************************************)
NeverStalls == open /\ sendQue # <<>> => ops # {} \/ next # 0

(***************************************************************************)
(* Replies reach the stream in the order of their Sends, none twice, and a *)
(* reply still queued behind the front has not reached it.                 *)
(***************************************************************************)
WireInOrder ==
  /\ \A i, j \in 1..Len(wire) : i < j => wire[i] < wire[j]
  /\ \A i \in 1..Len(wire), j \in 2..Len(sendQue) : wire[i] < sendQue[j]

(***************************************************************************)
(* The queue, which Send lets grow past its limit by one, holds no more    *)
(* than that one, whatever the sends, completions and failures in between. *)
(***************************************************************************)
QueueBound == Len(sendQue) <= MaxSendQue + 1

(***************************************************************************)
(* Once a failed write has left part of a frame on the stream, nothing     *)
(* more is put behind it: the peer never reads a reply out of step.        *)
(***************************************************************************)
NothingAfterTorn == [][torn => UNCHANGED <<wire, torn>>]_vars

(***************************************************************************)
(* A session taken out of the server's map, for whatever reason, even the  *)
(* invalid header that calls no Close(), ends up closed and without any    *)
(* reference left to it.                                                   *)
(***************************************************************************)
ClearedIsFreed == entry = "out" ~> (~open /\ ~Referenced)

(***************************************************************************)
(* HandleWrite reports "finish one send node" for each node it pops: all   *)
(* nodes that left the queue have been put on the stream.                  *)
(***************************************************************************)
FinishedWasSent ==
  \A n \in 1..accepted - Len(sendQue) : \E i \in 1..Len(wire) : wire[i] = n

(***************************************************************************)
(* The queue, the write chain and their failures implement an outbox.  A   *)
(* node whose write is complete still sits in _send_que until HandleWrite  *)
(* runs; to the outbox it is sent.  BoostCoServer's outbox may lose        *)
(* replies (see FinishedWasSent), but not reorder or repeat them.          *)
(***************************************************************************)
Written == \E op \in ops : op.result = "ok"

Waiting == IF Written THEN Tail(sendQue) ELSE sendQue
Broken == ~open \/ \E op \in ops : op.result = "error"

Out == INSTANCE Outbox WITH
         Capacity <- MaxSendQue + 1, waiting <- Waiting, sent <- wire,
         broken <- Broken, reliable <- ~coServer

ImplementsOutbox == Out!Spec

=============================================================================
