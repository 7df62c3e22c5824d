-------------------------------- MODULE Echo --------------------------------
(***************************************************************************)
(* The two echo servers made of coroutines, and their clients: coServer    *)
(* and coClient, which exchange bytes, and the websocket_server_coro and   *)
(* websocket_client_coro, which exchange messages.  A listener accepts and *)
(* starts a coroutine per connection, which reads, writes what it read,    *)
(* and does not read while it writes.                                      *)
(*                                                                         *)
(* A unit is a byte or a message; units are numbered in the order the      *)
(* client sends them.                                                      *)
(***************************************************************************)
EXTENDS Integers, Sequences

CONSTANTS
  Clients,
  Requests,     \* how many bytes a request of coClient may have
  Capacity,     \* units the network takes in, in each direction of a connection
  ChunkMax      \* size of the buffer of a coServer connection

\* What coClient writes before it reads (at most 1023 bytes) fits into the
\* network on the way there and back, and a byte into the server.
ASSUME EchoAssumption ==
  /\ {Capacity, ChunkMax} \subseteq Nat \ {0}
  /\ Requests \subseteq 0..2 * Capacity + 1

VARIABLES
  webSocket,   \* which of the two pairs this is; never changes
  size,        \* per client: units of its request; never changes
  listening,   \* the coroutine of the listener runs
  client,      \* per client: where its program is
  session,     \* per connection: where its coroutine is
  toServer,    \* units on the way
  data,        \* what the coroutine has read and not written yet
  toClient,
  reply,       \* units the client has read
  written,     \* number of units the client has written
  broken       \* connections that were reset, or whose server has ended

config == <<webSocket, size>>
flow == <<toServer, data, toClient, reply, written>>
vars == <<config, listening, client, session, flow, broken>>

Empty == [c \in Clients |-> <<>>]

Init ==
  /\ webSocket \in BOOLEAN
  /\ size \in [Clients -> IF webSocket THEN {1} ELSE Requests]
  /\ listening = TRUE
  /\ client = [c \in Clients |-> "new"]
  /\ session = [c \in Clients |-> "none"]
  /\ toServer = Empty /\ data = Empty /\ toClient = Empty /\ reply = Empty
  /\ written = [c \in Clients |-> 0]
  /\ broken = {}

-----------------------------------------------------------------------------
(* The listener.                                                           *)

Accept(c) ==
  /\ listening
  /\ session[c] = "connected"
  /\ session' = [session EXCEPT ![c] = IF webSocket THEN "handshake" ELSE "reading"]
  /\ UNCHANGED <<config, listening, client, flow, broken>>

\* Connections nobody has accepted are reset when the acceptor goes.
Unaccepted == {c \in Clients : session[c] = "connected"}

\* accept, or bind, throws out of the coroutine of coServer, and nobody hears of
\* it; the connections there are go on.  websocket_server_coro accepts again.
AcceptThrows ==
  /\ ~webSocket
  /\ listening
  /\ listening' = FALSE
  /\ broken' = broken \cup Unaccepted
  /\ session' = [c \in Clients |-> IF c \in Unaccepted THEN "ended" ELSE session[c]]
  /\ UNCHANGED <<config, client, flow>>

\* SIGINT or SIGTERM, by ioctx.stop() or because nothing catches it.
Stop ==
  /\ listening' = FALSE
  /\ broken' = broken \cup {c \in Clients : session[c] # "none"}
  /\ session' = [c \in Clients |-> IF session[c] = "none" THEN "none" ELSE "ended"]
  /\ UNCHANGED <<config, client, flow>>

-----------------------------------------------------------------------------
(* The client.                                                             *)

ClientGoesTo(c, state) ==
  /\ client' = [client EXCEPT ![c] = state]
  /\ UNCHANGED <<config, listening>>

\* A mute client is none of this repository: it connects and says nothing.
Connect(c) ==
  /\ client[c] = "new"
  /\ listening
  /\ session' = [session EXCEPT ![c] = "connected"]
  /\ \/ ClientGoesTo(c, "mute")
     \/ ClientGoesTo(c, IF webSocket THEN "handshake"
                        ELSE IF size[c] = 0 THEN "reading" ELSE "writing")
  /\ UNCHANGED <<flow, broken>>

ConnectFails(c) ==
  /\ client[c] = "new"
  /\ ~listening
  /\ ClientGoesTo(c, "failed")
  /\ UNCHANGED <<session, flow, broken>>

ClientWrites(c) ==
  /\ client[c] = "writing"
  /\ c \notin broken
  /\ Len(toServer[c]) < Capacity
  /\ toServer' = [toServer EXCEPT ![c] = Append(@, written[c] + 1)]
  /\ written' = [written EXCEPT ![c] = @ + 1]
  /\ ClientGoesTo(c, IF written'[c] = size[c] THEN "reading" ELSE "writing")
  /\ UNCHANGED <<session, data, toClient, reply, broken>>

\* Even of a broken connection, what has arrived may be read.
ClientReads(c) ==
  /\ client[c] = "reading"
  /\ toClient[c] # <<>>
  /\ reply' = [reply EXCEPT ![c] = Append(@, Head(toClient[c]))]
  /\ toClient' = [toClient EXCEPT ![c] = Tail(@)]
  /\ UNCHANGED <<config, listening, client, session, toServer, data, written, broken>>

\* The reply is as long as the request.  coClient is done, once its user has
\* pressed return; the other closes, and prints the reply only after that.
ClientHasReply(c) ==
  /\ client[c] = "reading"
  /\ Len(reply[c]) = size[c]
  /\ ClientGoesTo(c, IF webSocket THEN "closing" ELSE "done")
  /\ UNCHANGED <<session, flow, broken>>

ClientClosed(c) ==
  /\ client[c] = "closing"
  /\ session[c] = "ended"
  /\ c \notin broken
  /\ ClientGoesTo(c, "done")
  /\ UNCHANGED <<session, flow, broken>>

ClientFails(c) ==
  /\ client[c] \in {"mute", "handshake", "writing", "reading", "closing"}
  /\ c \in broken
  /\ ClientGoesTo(c, "failed")
  /\ UNCHANGED <<session, flow, broken>>

Break(c) ==
  /\ session[c] \notin {"none", "ended"}
  /\ c \notin broken
  /\ broken' = broken \cup {c}
  /\ UNCHANGED <<config, listening, client, session, flow>>

-----------------------------------------------------------------------------
(* The coroutine of a connection.                                          *)

SessionGoesTo(c, state) ==
  /\ session' = [session EXCEPT ![c] = state]
  /\ UNCHANGED <<config, listening>>

Handshake(c) ==
  /\ session[c] = "handshake"
  /\ client[c] = "handshake"
  /\ c \notin broken
  /\ SessionGoesTo(c, "reading")
  /\ client' = [client EXCEPT ![c] = "writing"]
  /\ UNCHANGED <<flow, broken>>

\* A mistake in HandshakeExpires: expires_never() comes first.
HandshakeNeverExpires(c) ==
  /\ session[c] = "handshake"
  /\ c \in broken
  /\ SessionGoesTo(c, "ended")
  /\ UNCHANGED <<client, flow, broken>>

\* 30 seconds have gone by.
HandshakeExpires(c) ==
  /\ session[c] = "handshake"
  /\ SessionGoesTo(c, "ended")
  /\ broken' = broken \cup {c}
  /\ UNCHANGED <<client, flow>>

Chunks(units) ==
  {n \in 1..Len(units) : n <= IF webSocket THEN 1 ELSE ChunkMax}

\* A mistake in SessionReads: async_write is not awaited, and the buffer is
\* read into again while it is written from.
SessionReadsOver(c) ==
  /\ session[c] \in {"reading", "writing"}
  /\ c \notin broken
  /\ \E n \in Chunks(toServer[c]) :
       /\ data' = [data EXCEPT ![c] = SubSeq(toServer[c], 1, n)]
       /\ toServer' = [toServer EXCEPT ![c] = SubSeq(@, n + 1, Len(@))]
  /\ SessionGoesTo(c, "writing")
  /\ UNCHANGED <<client, toClient, reply, written, broken>>

\* async_read_some, or a message.
SessionReads(c) ==
  /\ session[c] = "reading"
  /\ c \notin broken
  /\ \E n \in Chunks(toServer[c]) :
       /\ data' = [data EXCEPT ![c] = SubSeq(toServer[c], 1, n)]
       /\ toServer' = [toServer EXCEPT ![c] = SubSeq(@, n + 1, Len(@))]
  /\ SessionGoesTo(c, "writing")
  /\ UNCHANGED <<client, toClient, reply, written, broken>>

\* A mistake in SessionWrites: async_write_some.
SessionWritesSome(c) ==
  /\ session[c] = "writing"
  /\ c \notin broken
  /\ Len(toClient[c]) < Capacity
  /\ toClient' = [toClient EXCEPT ![c] = Append(@, Head(data[c]))]
  /\ data' = [data EXCEPT ![c] = <<>>]
  /\ SessionGoesTo(c, "reading")
  /\ UNCHANGED <<client, toServer, reply, written, broken>>

\* async_write goes on until all of the buffer is written.
SessionWrites(c) ==
  /\ session[c] = "writing"
  /\ c \notin broken
  /\ Len(toClient[c]) < Capacity
  /\ toClient' = [toClient EXCEPT ![c] = Append(@, Head(data[c]))]
  /\ data' = [data EXCEPT ![c] = Tail(@)]
  /\ SessionGoesTo(c, IF data'[c] = <<>> THEN "reading" ELSE "writing")
  /\ UNCHANGED <<client, toServer, reply, written, broken>>

\* End of stream, which coServer takes as an exception; or the close of the
\* client, which the other answers.
SessionReadsEnd(c) ==
  /\ session[c] = "reading"
  /\ toServer[c] = <<>>
  /\ client[c] \in {"closing", "done"}
  /\ SessionGoesTo(c, "ended")
  /\ UNCHANGED <<client, flow, broken>>

SessionFails(c) ==
  /\ session[c] \in {"reading", "writing"}
  /\ c \in broken
  /\ SessionGoesTo(c, "ended")
  /\ UNCHANGED <<client, flow, broken>>

-----------------------------------------------------------------------------

ClientSteps(c) ==
  \/ ClientWrites(c)
  \/ ClientReads(c)
  \/ ClientHasReply(c)
  \/ ClientClosed(c)
  \/ ClientFails(c)

SessionSteps(c) ==
  \/ SessionReads(c)
  \/ SessionWrites(c)
  \/ SessionReadsEnd(c)
  \/ SessionFails(c)

Next ==
  \/ AcceptThrows
  \/ Stop
  \/ \E c \in Clients :
       \/ Connect(c)
       \/ ConnectFails(c)
       \/ Accept(c)
       \/ ClientSteps(c)
       \/ Break(c)
       \/ Handshake(c)
       \/ HandshakeExpires(c)
       \/ SessionSteps(c)

\* The io_context and the programs of the clients run, and a timer expires.
\* Nobody need connect, and nothing need break.
Fairness ==
  \A c \in Clients :
    /\ WF_vars(Accept(c))
    /\ WF_vars(ClientSteps(c))
    /\ WF_vars(Handshake(c) \/ HandshakeExpires(c))
    /\ WF_vars(SessionSteps(c))

Spec == Init /\ [][Next]_vars /\ Fairness

-----------------------------------------------------------------------------
(* Properties.                                                             *)

(***************************************************************************)
(* A client that writes all of its request before it reads anything, to a  *)
(* server that reads nothing while it writes, comes to its end: with all   *)
(* of its reply, or because the connection broke.  coServer has no timeout *)
(* that would see to it.                                                   *)
(***************************************************************************)
ClientEnds ==
  \A c \in Clients :
    client[c] \in {"handshake", "writing", "reading", "closing"} ~> client[c] \in {"done", "failed"}

(***************************************************************************)
(* A coroutine does not outlive its client, although nobody waits for it   *)
(* and its end is not reported.  The WebSocket server gets rid of a client *)
(* that says nothing, too; the other one holds on to it.                   *)
(***************************************************************************)
SessionsEnd ==
  \A c \in Clients :
    session[c] # "none" /\ (webSocket \/ client[c] \in {"done", "failed"}) ~> session[c] = "ended"

(***************************************************************************)
(* What a client gets back is what it wrote, in order and without gaps or  *)
(* repetitions, however it is cut on the way; and it gets all of it unless *)
(* the connection breaks: a connection is a reliable outbox of the client  *)
(* to itself.                                                              *)
(***************************************************************************)
Out(c) == INSTANCE Outbox WITH
            Capacity <- 2 * Capacity + ChunkMax,
            waiting <- toClient[c] \o data[c] \o toServer[c],
            sent <- reply[c],
            accepted <- written[c],
            broken <- client[c] = "failed",
            reliable <- TRUE

ImplementsOutbox ==
  /\ \A c \in Clients : Out(c)!Init
  /\ [][\A c \in Clients : Out(c)!Next \/ UNCHANGED Out(c)!outboxVars]_vars
  /\ \A c \in Clients : Out(c)!Progress

=============================================================================
