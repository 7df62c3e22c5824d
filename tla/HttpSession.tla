---------------------------- MODULE HttpSession ----------------------------
(***************************************************************************)
(* The HTTP half of the WebSocket server: the listener, which makes an     *)
(* http_session of every connection, and the sessions, which answer one    *)
(* request after the other until the connection ends or a request asks for *)
(* the upgrade that hands the socket to a websocket_session (see Chat).    *)
(*                                                                         *)
(* A client may send requests before it has the answers to earlier ones;   *)
(* they wait in the socket or in buffer_.  One deadline, set by do_read,   *)
(* covers the arrival of a request and the writing of its answer.          *)
(***************************************************************************)
EXTENDS Naturals, Sequences

CONSTANTS
  Clients,      \* connections
  Requests,     \* requests a client may send, a subset of Request
  MaxRequests   \* bound on the requests of a client

\* What the code tells apart.  "malformed" is a request the parser refuses.
Request == [method: {"get", "head", "other", "malformed"},
            target: {"illegal", "missing", "unreadable", "file"},
            upgrade: BOOLEAN,
            keepAlive: BOOLEAN]

ASSUME HttpSessionAssumption ==
  /\ Requests \subseteq Request
  /\ MaxRequests \in Nat

VARIABLES
  running,    \* the io_context has not been stopped
  accepting,  \* the acceptor is armed
  phase,      \* per client: what its session waits for ("backlog", "reading", "writing"),
              \* is about to handle, or how it ended ("closed", "upgraded")
  sent,       \* history, per client: requests sent
  answers,    \* history, per client: responses that reached it whole
  lost        \* connections that broke or were closed by the client

vars == <<running, accepting, phase, sent, answers, lost>>

Init ==
  /\ running = TRUE
  /\ accepting = TRUE
  /\ phase = [c \in Clients |-> "none"]
  /\ sent = [c \in Clients |-> <<>>]
  /\ answers = [c \in Clients |-> <<>>]
  /\ lost = {}

Goes(c, from, to) ==
  /\ running
  /\ phase[c] = from
  /\ phase' = [phase EXCEPT ![c] = to]

\* The request that is read or answered, once it has been sent.
Arrived(c) == Len(sent[c]) > Len(answers[c])
Current(c) == sent[c][Len(answers[c]) + 1]

-----------------------------------------------------------------------------
(* Clients and the network.                                                *)

Connect(c) ==
  /\ Goes(c, "none", "backlog")
  /\ UNCHANGED <<running, accepting, sent, answers, lost>>

SendRequest(c, r) ==
  /\ phase[c] \notin {"none", "closed", "upgraded"}
  /\ c \notin lost
  /\ Len(sent[c]) < MaxRequests
  /\ sent' = [sent EXCEPT ![c] = Append(@, r)]
  /\ UNCHANGED <<running, accepting, phase, answers, lost>>

Lose(c) ==
  /\ phase[c] \notin {"none", "closed", "upgraded"}
  /\ lost' = lost \cup {c}
  /\ UNCHANGED <<running, accepting, phase, sent, answers>>

\* async_read has a whole request.
ReadCompletes(c) ==
  /\ Goes(c, "reading", "got request")
  /\ Arrived(c)
  /\ Current(c).method # "malformed"
  /\ UNCHANGED <<running, accepting, sent, answers, lost>>

\* End of stream, a broken connection, or something that is no request.
ReadFails(c) ==
  /\ Goes(c, "reading", "read failed")
  /\ c \in lost \/ (Arrived(c) /\ Current(c).method = "malformed")
  /\ UNCHANGED <<running, accepting, sent, answers, lost>>

\* The deadline set by do_read passes.
Expire(c) ==
  /\ Goes(c, "reading", "read failed") \/ Goes(c, "writing", "write failed")
  /\ UNCHANGED <<running, accepting, sent, answers, lost>>

-----------------------------------------------------------------------------
(* handle_request.                                                         *)

Status(r) ==
  IF r.method \notin {"get", "head"} \/ r.target = "illegal" THEN "bad_request"
  ELSE IF r.target = "missing" THEN "not_found"
  ELSE IF r.target = "unreadable" THEN "server_error"
  ELSE "ok"

\* Only the answer to a HEAD that finds its file has no body.
Answer(r) ==
  [status |-> Status(r),
   body |-> ~(Status(r) = "ok" /\ r.method = "head"),
   keepAlive |-> r.keepAlive]

\* All bytes of the response are written.
WriteCompletes(c) ==
  /\ Goes(c, "writing", "written")
  /\ answers' = [answers EXCEPT ![c] = Append(@, Answer(Current(c)))]
  /\ UNCHANGED <<running, accepting, sent, lost>>

WriteFails(c) ==
  /\ Goes(c, "writing", "write failed")
  /\ c \in lost
  /\ UNCHANGED <<running, accepting, sent, answers, lost>>

-----------------------------------------------------------------------------
(* The listener.                                                           *)

\* A new session starts to read, and the acceptor is armed again.
OnAccept(c) ==
  /\ accepting
  /\ Goes(c, "backlog", "reading")
  /\ UNCHANGED <<running, accepting, sent, answers, lost>>

\* An error is reported, and nothing more: no connection is taken any more.
\* So it is, too, when the constructor could not open, bind or listen.
OnAcceptError ==
  /\ running
  /\ accepting
  /\ accepting' = FALSE
  /\ UNCHANGED <<running, phase, sent, answers, lost>>

-----------------------------------------------------------------------------
(* The handlers of a session, of which one operation is outstanding.       *)

\* A mistake in OnReadError: the session tries to read again.
OnReadErrorAgain(c) ==
  /\ Goes(c, "read failed", "reading")
  /\ UNCHANGED <<running, accepting, sent, answers, lost>>

\* on_read with an error or the end of the stream: the last reference to the
\* session goes, and with it the socket.
OnReadError(c) ==
  /\ Goes(c, "read failed", "closed")
  /\ UNCHANGED <<running, accepting, sent, answers, lost>>

\* A mistake in OnReadUpgrade: the session goes on reading its socket.
OnReadUpgradeAgain(c) ==
  /\ Goes(c, "got request", "reading")
  /\ Current(c).upgrade
  /\ UNCHANGED <<running, accepting, sent, answers, lost>>

\* The socket and the request go to a new websocket_session.
OnReadUpgrade(c) ==
  /\ Goes(c, "got request", "upgraded")
  /\ Current(c).upgrade
  /\ UNCHANGED <<running, accepting, sent, answers, lost>>

\* handle_request, and the answer is written.
OnRead(c) ==
  /\ Goes(c, "got request", "writing")
  /\ ~Current(c).upgrade
  /\ UNCHANGED <<running, accepting, sent, answers, lost>>

KeepAlive(c) == answers[c][Len(answers[c])].keepAlive

\* A mistake in OnWrite: keep_alive is not looked at.
OnWriteAlways(c) ==
  /\ Goes(c, "written", "reading")
  /\ UNCHANGED <<running, accepting, sent, answers, lost>>

\* on_write: do_read, with a new deadline.
OnWrite(c) ==
  /\ Goes(c, "written", "reading")
  /\ KeepAlive(c)
  /\ UNCHANGED <<running, accepting, sent, answers, lost>>

\* on_write after the last answer of the connection.
OnWriteLast(c) ==
  /\ Goes(c, "written", "closed")
  /\ ~KeepAlive(c)
  /\ UNCHANGED <<running, accepting, sent, answers, lost>>

OnWriteError(c) ==
  /\ Goes(c, "write failed", "closed")
  /\ UNCHANGED <<running, accepting, sent, answers, lost>>

\* SIGINT or SIGTERM stops the io_context: no handler runs any more.
Stop ==
  /\ running
  /\ running' = FALSE
  /\ UNCHANGED <<accepting, phase, sent, answers, lost>>

-----------------------------------------------------------------------------

Handler(c) ==
  \/ OnReadError(c)
  \/ OnReadUpgrade(c)
  \/ OnRead(c)
  \/ OnWrite(c)
  \/ OnWriteLast(c)
  \/ OnWriteError(c)

Next ==
  \/ \E c \in Clients :
       \/ Connect(c)
       \/ \E r \in Requests : SendRequest(c, r)
       \/ Lose(c)
       \/ ReadCompletes(c)
       \/ ReadFails(c)
       \/ Expire(c)
       \/ WriteCompletes(c)
       \/ WriteFails(c)
       \/ OnAccept(c)
       \/ Handler(c)
  \/ OnAcceptError
  \/ Stop

SafeSpec == Init /\ [][Next]_vars

\* What was sent arrives, the end of a connection is noticed, deadlines pass,
\* and handlers run.  A client need not take what is written to it.
Fairness ==
  \A c \in Clients :
    /\ WF_vars(ReadCompletes(c) \/ ReadFails(c))
    /\ WF_vars(Expire(c))
    /\ WF_vars(OnAccept(c))
    /\ WF_vars(Handler(c))

Spec == SafeSpec /\ Fairness

-----------------------------------------------------------------------------
(* Properties.                                                             *)

(***************************************************************************)
(* Requests sent ahead of the answers are answered in their order, each    *)
(* with its own answer; and nothing is answered behind an answer that      *)
(* closes the connection, or behind the upgrade, although the requests     *)
(* that follow may be in buffer_ already.                                  *)
(***************************************************************************)
AnsweredInTurn ==
  \A c \in Clients : \A i \in 1..Len(answers[c]) :
    /\ answers[c][i] = Answer(sent[c][i])
    /\ ~sent[c][i].upgrade
    /\ i < Len(answers[c]) => sent[c][i].keepAlive

(***************************************************************************)
(* A connection that was accepted does not stay for ever without requests: *)
(* whether the client is silent in the middle of one, does not take its    *)
(* answers, or is gone, the deadline of do_read ends it.                   *)
(***************************************************************************)
SilentEnds ==
  \A c \in Clients : phase[c] = "reading" ~> phase[c] \in {"closed", "upgraded"} \/ ~running

(***************************************************************************)
(* To the client a session is a stream of requests: each is answered in    *)
(* turn, until one cannot be, or asks for the upgrade.  A connection that  *)
(* the listener has given up taking counts as ended.                       *)
(***************************************************************************)
Stream(c) == INSTANCE FrameStream WITH
               Frame <- Requests,
               acceptable <- {r \in Requests : r.method # "malformed" /\ ~r.upgrade},
               inbox <- SubSeq(sent[c], Len(answers[c]) + 1, Len(sent[c])),
               delivered <- SubSeq(sent[c], 1, Len(answers[c])),
               ended <- \/ ~running
                        \/ ~accepting /\ phase[c] \in {"none", "backlog"}
                        \/ phase[c] \in {"read failed", "write failed", "closed", "upgraded"}
                        \/ phase[c] = "written" /\ ~KeepAlive(c),
               outOfStep <- FALSE

ImplementsRequestStream ==
  /\ \A c \in Clients : Stream(c)!Init
  /\ [][\A c \in Clients : [Stream(c)!Next]_(Stream(c)!frameVars)]_vars
  /\ \A c \in Clients : Stream(c)!Progress

=============================================================================
