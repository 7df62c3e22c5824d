--------------------------- MODULE HttpConnection ---------------------------
(***************************************************************************)
(* beastHttpServer: one thread, an acceptor, and an http_connection per    *)
(* client, which reads one request, answers it and is done.  Two           *)
(* operations of a connection are outstanding at a time, the read or write *)
(* and the wait for the deadline; both handlers hold it alive, and whoever *)
(* comes first changes what the other finds.                               *)
(***************************************************************************)
EXTENDS Naturals, FiniteSets

CONSTANT Clients

VARIABLES
  running,    \* ioc.run() has not been left by an exception
  accepting,  \* the acceptor is armed
  phase,      \* per client: what the connection waits for, or is about to handle
  timer,      \* per client: the wait on _dead_time
  open,       \* connections whose socket is open
  lost,       \* connections that broke or were closed by the client
  request,    \* per client: the request read
  shown,      \* per client: request_count() in its answer, or 0
  count       \* the count in request_count

vars == <<running, accepting, phase, timer, open, lost, request, shown, count>>

\* "throws": a POST of /email with JSON of another shape than the code expects,
\* for which the JSON library throws.
Request == {"count", "other", "throws"}

Phases == {"none", "backlog", "reading", "got request", "read failed",
           "writing", "written", "write failed", "over"}

Init ==
  /\ running = TRUE
  /\ accepting = TRUE
  /\ phase = [c \in Clients |-> "none"]
  /\ timer = [c \in Clients |-> "unset"]
  /\ open = {}
  /\ lost = {}
  /\ request = [c \in Clients |-> "other"]
  /\ shown = [c \in Clients |-> 0]
  /\ count = 0

Goes(c, from, to) ==
  /\ running
  /\ phase[c] = from
  /\ phase' = [phase EXCEPT ![c] = to]

Ticks(c, from, to) ==
  /\ running
  /\ timer[c] = from
  /\ timer' = [timer EXCEPT ![c] = to]

\* No handler holds the connection.
Freed(c) == phase[c] = "over" /\ timer[c] = "over"

-----------------------------------------------------------------------------
(* Clients, the network and the clock.                                     *)

Connect(c) ==
  /\ Goes(c, "none", "backlog")
  /\ UNCHANGED <<running, accepting, timer, open, lost, request, shown, count>>

Lose(c) ==
  /\ c \in open
  /\ lost' = lost \cup {c}
  /\ UNCHANGED <<running, accepting, phase, timer, open, request, shown, count>>

ReadCompletes(c, r) ==
  /\ Goes(c, "reading", "got request")
  /\ c \in open
  /\ request' = [request EXCEPT ![c] = r]
  /\ UNCHANGED <<running, accepting, timer, open, lost, shown, count>>

\* The connection is lost, closed by the deadline, or carries no request.
ReadFails(c) ==
  /\ Goes(c, "reading", "read failed")
  /\ UNCHANGED <<running, accepting, timer, open, lost, request, shown, count>>

WriteCompletes(c) ==
  /\ Goes(c, "writing", "written")
  /\ c \in open
  /\ UNCHANGED <<running, accepting, timer, open, lost, request, shown, count>>

WriteFails(c) ==
  /\ Goes(c, "writing", "write failed")
  /\ c \in lost \/ c \notin open
  /\ UNCHANGED <<running, accepting, timer, open, lost, request, shown, count>>

\* 60 seconds are over; the handler of the wait is queued.
TimerExpires(c) ==
  /\ Ticks(c, "set", "expired")
  /\ UNCHANGED <<running, accepting, phase, open, lost, request, shown, count>>

-----------------------------------------------------------------------------
(* The acceptor.                                                           *)

\* read_request, check_deadline, and the acceptor is armed again.
OnAccept(c) ==
  /\ accepting
  /\ Goes(c, "backlog", "reading")
  /\ Ticks(c, "unset", "set")
  /\ open' = open \cup {c}
  /\ UNCHANGED <<running, accepting, lost, request, shown, count>>

\* Nothing is done about an error: no connection is taken any more.
OnAcceptError ==
  /\ running
  /\ accepting
  /\ accepting' = FALSE
  /\ UNCHANGED <<running, phase, timer, open, lost, request, shown, count>>

-----------------------------------------------------------------------------
(* The handlers of a connection.                                           *)

\* The handler of the read does nothing about an error; the one of the wait
\* still holds the connection.
OnReadError(c) ==
  /\ Goes(c, "read failed", "over")
  /\ UNCHANGED <<running, accepting, timer, open, lost, request, shown, count>>

\* process_request and write_response, on a socket that may be closed by now.
OnRead(c) ==
  /\ request[c] # "throws"
  /\ Goes(c, "got request", "writing")
  /\ IF request[c] = "count"
     THEN /\ count' = count + 1
          /\ shown' = [shown EXCEPT ![c] = count + 1]
     ELSE UNCHANGED <<shown, count>>
  /\ UNCHANGED <<running, accepting, timer, open, lost, request>>

\* The exception leaves ioc.run(), and main returns.
OnReadThrows(c) ==
  /\ running
  /\ phase[c] = "got request"
  /\ request[c] = "throws"
  /\ running' = FALSE
  /\ UNCHANGED <<accepting, phase, timer, open, lost, request, shown, count>>

\* shutdown(), and cancel(), which reaches a wait that has not expired.  The
\* error of the write is not looked at.
OnWrite(c) ==
  /\ Goes(c, "written", "over") \/ Goes(c, "write failed", "over")
  /\ timer' = [timer EXCEPT ![c] = IF @ = "set" THEN "cancelled" ELSE @]
  /\ UNCHANGED <<running, accepting, open, lost, request, shown, count>>

\* A mistake in OnDeadline: the socket is not closed.
OnDeadlineNoClose(c) ==
  /\ Ticks(c, "expired", "over")
  /\ UNCHANGED <<running, accepting, phase, open, lost, request, shown, count>>

\* The deadline closes the socket, whatever the connection is doing.
OnDeadline(c) ==
  /\ Ticks(c, "expired", "over")
  /\ open' = open \ {c}
  /\ UNCHANGED <<running, accepting, phase, lost, request, shown, count>>

\* The wait was cancelled: the last handler goes, the destructor closes.
OnCancelled(c) ==
  /\ Ticks(c, "cancelled", "over")
  /\ open' = open \ {c}
  /\ UNCHANGED <<running, accepting, phase, lost, request, shown, count>>

-----------------------------------------------------------------------------

Handler(c) ==
  \/ OnReadError(c)
  \/ OnRead(c)
  \/ OnReadThrows(c)
  \/ OnWrite(c)
  \/ OnDeadline(c)
  \/ OnCancelled(c)

Next ==
  \/ \E c \in Clients :
       \/ Connect(c)
       \/ Lose(c)
       \/ \E r \in Request : ReadCompletes(c, r)
       \/ ReadFails(c)
       \/ WriteCompletes(c)
       \/ WriteFails(c)
       \/ TimerExpires(c)
       \/ OnAccept(c)
       \/ Handler(c)
  \/ OnAcceptError

SafeSpec == Init /\ [][Next]_vars

\* Time passes, handlers run, and an operation on a closed socket ends.  A
\* client need not send a request, nor take the answer.
Fairness ==
  \A c \in Clients :
    /\ WF_vars(TimerExpires(c))
    /\ WF_vars(Handler(c))
    /\ WF_vars(c \notin open /\ (ReadFails(c) \/ WriteFails(c)))

Spec == SafeSpec /\ Fairness

-----------------------------------------------------------------------------
(* Properties.                                                             *)

TypeOK ==
  /\ {running, accepting} \subseteq BOOLEAN
  /\ phase \in [Clients -> Phases]
  /\ timer \in [Clients -> {"unset", "set", "expired", "cancelled", "over"}]
  /\ {open, lost} \subseteq SUBSET Clients
  /\ request \in [Clients -> Request]
  /\ shown \in [Clients -> 0..count]
  /\ count \in 0..Cardinality(Clients)
  /\ \A c \in Clients :
       /\ timer[c] = "unset" <=> phase[c] \in {"none", "backlog"}
       /\ timer[c] = "cancelled" => phase[c] = "over"
       /\ Freed(c) => c \notin open

(***************************************************************************)
(* The deadline of check_deadline is enough to end every connection that   *)
(* was accepted, one whose client is silent and one whose read failed,     *)
(* which nothing else ends; and an answer that comes as the deadline       *)
(* passes leaves neither handler behind.                                   *)
(***************************************************************************)
EveryConnectionEnds ==
  \A c \in Clients : phase[c] = "reading" ~> Freed(c) \/ ~running

=============================================================================
