-------------------------------- MODULE Chat --------------------------------
(***************************************************************************)
(* The chat room of the WebSocket server: a connection that was upgraded   *)
(* becomes a websocket_session, and what one session reads,                *)
(* shared_state::send passes on to all.                                    *)
(*                                                                         *)
(* Any number of threads run the io_context.  The handlers of one session  *)
(* are kept apart by its strand; the set of sessions is kept by a mutex,   *)
(* but it holds plain pointers, which the destructor of a session removes, *)
(* and the passing on happens after the mutex is released, by weak         *)
(* pointers copied under it.                                               *)
(***************************************************************************)
EXTENDS Naturals, Sequences, FiniteSets

CONSTANTS
  Clients,      \* connections; each has a session
  MaxMessages   \* bound on the messages the clients send, all told

ASSUME ChatAssumption == MaxMessages \in Nat

VARIABLES
  stage,      \* per session: "none", "handshake", "reading", "passing on", "ended",
              \* "destructor" (waiting for the mutex) or "freed"
  broken,     \* connections that are lost, closed by the client, or given up by
              \* Beast for a protocol error or a timeout
  room,       \* sessions_
  count,      \* per client: messages it has sent
  pending,    \* per session in on_read: sessions its message is yet to go to
  strand,     \* per session: messages of the on_send calls posted to its strand
  queue,      \* per session: queue_
  writing,    \* per session: async_writes whose handler has not run, in order
  written     \* history, per session: messages written to its client

vars == <<stage, broken, room, count, pending, strand, queue,
          writing, written>>

Init ==
  /\ stage = [c \in Clients |-> "none"]
  /\ broken = {}
  /\ room = {}
  /\ count = [c \in Clients |-> 0]
  /\ pending = [c \in Clients |-> {}]
  /\ strand = [c \in Clients |-> <<>>]
  /\ queue = [c \in Clients |-> <<>>]
  /\ writing = [c \in Clients |-> <<>>]
  /\ written = [c \in Clients |-> <<>>]

\* weak_ptr::lock() succeeds until the last reference is gone.
Lockable(c) == stage[c] \notin {"destructor", "freed"}

To(c, s) == [stage EXCEPT ![c] = s]

-----------------------------------------------------------------------------
(* Connections, and what the network does.                                 *)

\* http_session::on_read meets an upgrade request and makes the session.
Upgrade(c) ==
  /\ stage[c] = "none"
  /\ stage' = To(c, "handshake")
  /\ UNCHANGED <<broken, room, count, pending, strand, queue, writing, written>>

\* From here on operations may fail; writes may still go through.
Break(c) ==
  /\ stage[c] \notin {"none", "freed"}
  /\ broken' = broken \cup {c}
  /\ UNCHANGED <<stage, room, count, pending, strand, queue, writing, written>>

\* The network takes the message of the oldest write.
WriteCompletes(c) ==
  /\ writing[c] # <<>>
  /\ Head(writing[c]).result = "writing"
  /\ writing' = [writing EXCEPT ![c][1].result = "ok"]
  /\ written' = [written EXCEPT ![c] = Append(@, Head(writing[c]).message)]
  /\ UNCHANGED <<stage, broken, room, count, pending, strand, queue>>

WriteFails(c) ==
  /\ c \in broken
  /\ writing[c] # <<>>
  /\ Head(writing[c]).result = "writing"
  /\ writing' = [writing EXCEPT ![c][1].result = "error"]
  /\ UNCHANGED <<stage, broken, room, count, pending, strand, queue, written>>

-----------------------------------------------------------------------------
(* websocket_session: the reader.                                          *)

\* on_accept: join the others, and read.
OnAccept(c) ==
  /\ stage[c] = "handshake"
  /\ stage' = To(c, "reading")
  /\ room' = room \cup {c}
  /\ UNCHANGED <<broken, count, pending, strand, queue, writing, written>>

\* on_accept with an error: nothing refers to the session any more.
OnAcceptError(c) ==
  /\ stage[c] = "handshake"
  /\ c \in broken
  /\ stage' = To(c, "ended")
  /\ UNCHANGED <<broken, room, count, pending, strand, queue, writing, written>>

Sent == {m \in Clients \X (1..MaxMessages) : m[2] <= count[m[1]]}

\* on_read, shared_state::send: the weak pointers are copied under the mutex.
OnRead(c) ==
  /\ stage[c] = "reading"
  /\ Cardinality(Sent) < MaxMessages
  /\ count' = [count EXCEPT ![c] = @ + 1]
  /\ pending' = [pending EXCEPT ![c] = room]
  /\ stage' = To(c, "passing on")
  /\ UNCHANGED <<broken, room, strand, queue, writing, written>>

\* A mistake in PassOn: the pointers are used as they are.
PassOnUnchecked(c, d) ==
  /\ stage[c] = "passing on"
  /\ d \in pending[c]
  /\ pending' = [pending EXCEPT ![c] = @ \ {d}]
  /\ strand' = [strand EXCEPT ![d] = Append(@, [from |-> c, num |-> count[c]])]
  /\ UNCHANGED <<stage, broken, room, count, queue, writing, written>>

\* The rest of shared_state::send, without the mutex: each session that still
\* exists gets a call of on_send posted to its strand.
PassOn(c, d) ==
  /\ stage[c] = "passing on"
  /\ d \in pending[c]
  /\ pending' = [pending EXCEPT ![c] = @ \ {d}]
  /\ strand' = IF Lockable(d)
               THEN [strand EXCEPT ![d] = Append(@, [from |-> c, num |-> count[c]])]
               ELSE strand
  /\ UNCHANGED <<stage, broken, room, count, queue, writing, written>>

\* The end of on_read: another read.
ReadAgain(c) ==
  /\ stage[c] = "passing on"
  /\ pending[c] = {}
  /\ stage' = To(c, "reading")
  /\ UNCHANGED <<broken, room, count, pending, strand, queue, writing, written>>

\* A mistake in OnReadError: the next read is armed all the same.
OnReadErrorIgnored(c) ==
  /\ stage[c] = "reading"
  /\ c \in broken
  /\ stage' = To(c, "reading")
  /\ UNCHANGED <<broken, room, count, pending, strand, queue, writing, written>>

\* on_read with an error: no other read.
OnReadError(c) ==
  /\ stage[c] = "reading"
  /\ c \in broken
  /\ stage' = To(c, "ended")
  /\ UNCHANGED <<broken, room, count, pending, strand, queue, writing, written>>

-----------------------------------------------------------------------------
(* websocket_session: the writer.  The strand runs no handler while the    *)
(* session is in on_read.                                                  *)

StrandFree(c) == stage[c] # "passing on"

AsyncWrite(w, message) == Append(w, [message |-> message, result |-> "writing"])

\* A mistake in StartsWrite: each on_send starts a write.
StartsWriteAlways(size) == size > 0

\* Does on_send, its message being in the queue, start a write?
StartsWrite(size) == size = 1

\* A mistake in OnSend: a session that is writing ignores the message.
OnSendBusy(c) ==
  /\ StrandFree(c)
  /\ strand[c] # <<>>
  /\ strand' = [strand EXCEPT ![c] = Tail(@)]
  /\ IF queue[c] = <<>>
     THEN /\ queue' = [queue EXCEPT ![c] = Append(@, Head(strand[c]))]
          /\ writing' = [writing EXCEPT ![c] = AsyncWrite(@, Head(strand[c]))]
     ELSE UNCHANGED <<queue, writing>>
  /\ UNCHANGED <<stage, broken, room, count, pending, written>>

OnSend(c) ==
  /\ StrandFree(c)
  /\ strand[c] # <<>>
  /\ strand' = [strand EXCEPT ![c] = Tail(@)]
  /\ queue' = [queue EXCEPT ![c] = Append(@, Head(strand[c]))]
  /\ writing' = IF StartsWrite(Len(queue'[c]))
                THEN [writing EXCEPT ![c] = AsyncWrite(@, Head(queue'[c]))]
                ELSE writing
  /\ UNCHANGED <<stage, broken, room, count, pending, written>>

\* A mistake in OnWrite: it never goes on with the next message.
OnWriteForgetful(c) ==
  /\ StrandFree(c)
  /\ writing[c] # <<>>
  /\ Head(writing[c]).result = "ok"
  /\ queue' = [queue EXCEPT ![c] = Tail(@)]
  /\ writing' = [writing EXCEPT ![c] = Tail(@)]
  /\ UNCHANGED <<stage, broken, room, count, pending, strand, written>>

\* on_write erases the front and goes on with the next message, if any.
OnWrite(c) ==
  /\ StrandFree(c)
  /\ writing[c] # <<>>
  /\ Head(writing[c]).result = "ok"
  /\ queue' = [queue EXCEPT ![c] = Tail(@)]
  /\ writing' = [writing EXCEPT ![c] = IF Len(queue[c]) > 1
                                       THEN AsyncWrite(Tail(@), Head(queue'[c]))
                                       ELSE Tail(@)]
  /\ UNCHANGED <<stage, broken, room, count, pending, strand, written>>

\* on_write with an error returns: the queue stays as it is.
OnWriteError(c) ==
  /\ StrandFree(c)
  /\ writing[c] # <<>>
  /\ Head(writing[c]).result = "error"
  /\ writing' = [writing EXCEPT ![c] = Tail(@)]
  /\ UNCHANGED <<stage, broken, room, count, pending, strand, queue, written>>

-----------------------------------------------------------------------------
(* The end of a websocket_session.                                         *)

\* Handlers of the strand and outstanding operations hold references.
Unreferenced(c) == stage[c] = "ended" /\ strand[c] = <<>> /\ writing[c] = <<>>

\* The last reference goes, and the destructor starts.
LastReference(c) ==
  /\ Unreferenced(c)
  /\ stage' = To(c, "destructor")
  /\ UNCHANGED <<broken, room, count, pending, strand, queue, writing, written>>

\* A mistake in Leave: the destructor does not call it.
LeaveForgotten(c) ==
  /\ stage[c] = "destructor"
  /\ stage' = To(c, "freed")
  /\ UNCHANGED <<broken, room, count, pending, strand, queue, writing, written>>

\* The destructor: shared_state::leave, under the mutex; the memory is freed.
Leave(c) ==
  /\ stage[c] = "destructor"
  /\ room' = room \ {c}
  /\ stage' = To(c, "freed")
  /\ UNCHANGED <<broken, count, pending, strand, queue, writing, written>>

-----------------------------------------------------------------------------

\* What the threads of the io_context do for a session.
SessionStep(c) ==
  \/ OnAccept(c)
  \/ OnAcceptError(c)
  \/ \E d \in Clients : PassOn(c, d)
  \/ ReadAgain(c)
  \/ OnReadError(c)
  \/ LastReference(c)
  \/ Leave(c)

StrandStep(c) == OnSend(c) \/ OnWrite(c) \/ OnWriteError(c)

Next ==
  \E c \in Clients :
       \/ Upgrade(c)
       \/ Break(c)
       \/ OnRead(c)
       \/ WriteCompletes(c)
       \/ WriteFails(c)
       \/ SessionStep(c)
       \/ StrandStep(c)

\* The threads run every handler that is ready, and a write ends one way or
\* the other (the stream has a timeout).  Clients need not connect, upgrade,
\* send or go away.
Spec ==
  /\ Init
  /\ [][Next]_vars
  /\ \A c \in Clients :
       /\ WF_vars(SessionStep(c))
       /\ WF_vars(StrandStep(c))
       /\ WF_vars(WriteCompletes(c) \/ WriteFails(c))

-----------------------------------------------------------------------------
(* Properties.                                                             *)

(***************************************************************************)
(* The mutex protects a set of plain pointers, and the weak pointers are   *)
(* taken from them: none of them is ever to freed memory.  A session may   *)
(* be in its destructor, waiting for the mutex, while send visits it.      *)
(***************************************************************************)
RoomIsAllocated == \A c \in room : stage[c] # "freed"

(***************************************************************************)
(* After the mutex is released a session may die while a message is on its *)
(* way to it: no handler is ever posted for, and no operation outstanding  *)
(* on, a session whose last reference is gone.                             *)
(***************************************************************************)
GoneIsQuiet ==
  \A c \in Clients : ~Lockable(c) => strand[c] = <<>> /\ writing[c] = <<>>

(***************************************************************************)
(* A websocket stream allows one write at a time.  on_send and on_write,   *)
(* kept apart by the strand only, never have two, and the write under way  *)
(* is that of the queue's front, which keeps its buffer alive.             *)
(***************************************************************************)
OneWriteOfFront ==
  \A c \in Clients :
    /\ Len(writing[c]) <= 1
    /\ writing[c] # <<>> => queue[c] # <<>> /\ Head(writing[c]).message = Head(queue[c])

(***************************************************************************)
(* What a client gets of any one sender are consecutive messages, in the   *)
(* order they were sent and none twice, up to what is still under way to   *)
(* it: passing on without the mutex loses, swaps and doubles nothing, even *)
(* while sessions come and go.                                             *)
(***************************************************************************)
UnderWay(c) ==
  written[c] \o (IF writing[c] # <<>> /\ Head(writing[c]).result = "ok"
                 THEN Tail(queue[c]) ELSE queue[c]) \o strand[c]

Consecutive ==
  \A c \in Clients :
    LET all == UnderWay(c)
    IN  \A i, j \in 1..Len(all) :
          /\ i < j
          /\ all[i].from = all[j].from
          /\ \A k \in i + 1..j - 1 : all[k].from # all[i].from
          => all[j].num = all[i].num + 1

(***************************************************************************)
(* A session whose client is gone ends, leaves the room and is freed, with *)
(* whatever messages for it were queued or on their way.                   *)
(***************************************************************************)
BrokenIsFreed ==
  \A c \in Clients : c \in broken ~> stage[c] = "freed" /\ c \notin room

(***************************************************************************)
(* A message that was queued for a session is written to its client,       *)
(* unless the connection breaks.                                           *)
(***************************************************************************)
QueuedIsWritten ==
  \A c \in Clients : queue[c] # <<>> \/ strand[c] # <<>> ~>
                       (queue[c] = <<>> /\ strand[c] = <<>>) \/ c \in broken

=============================================================================
