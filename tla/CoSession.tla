----------------------------- MODULE CoSession -----------------------------
(***************************************************************************)
(* A BoostCoServer session: the read coroutine started by CSession::Start  *)
(* on top of the sending half (SendQueue), which it shares the socket, the *)
(* entry in the server's map and the references with.                      *)
(*                                                                         *)
(* async_read suspends the coroutine until exactly the bytes asked for     *)
(* have arrived, first a head, then a body of the length the head gives.   *)
(* While it is suspended HandleWrite, on the same thread, may close the    *)
(* session.  Whatever the coroutine does to the state of the sending half  *)
(* is one of the steps SendQueue allows its reader.                        *)
(***************************************************************************)
EXTENDS SendQueue, Integers

CONSTANTS
  Frames,     \* heads a peer may send: [id, len]; a body of len bytes follows
  MaxLength,  \* MAX_LENGTH
  MaxFrames,  \* bound on the frames sent
  Callbacks   \* ids RegisterCallBack registers a callback for

ASSUME CoSessionAssumption ==
  /\ MaxLength \in Nat
  /\ MaxFrames \in Nat
  /\ Frames \subseteq [id: Int, len: Int]

VARIABLES
  sent,       \* history: frames sent by the peer
  hungUp,     \* the peer closed its end, or the connection broke
  coroutine   \* the co_await it is suspended at or about to return from; or
              \* it is "astray" among the bytes, or was and is "lost"

readVars == <<sent, hungUp, coroutine>>
coVars == <<vars, readVars>>

\* The frame the coroutine is working on.
Current == sent[posted + 1]
Arrived == Len(sent) > posted

\* The reader knows where the next frame begins, or did until it ended.
InStep == coroutine \notin {"astray", "lost"}

CoInit ==
  /\ Init
  /\ coServer
  /\ sent = <<>>
  /\ hungUp = FALSE
  /\ coroutine = "head"

-----------------------------------------------------------------------------
(* The peer and the connection.                                            *)

PeerSend(f) ==
  /\ ~hungUp
  /\ Len(sent) < MaxFrames
  /\ sent' = Append(sent, f)
  /\ UNCHANGED <<vars, hungUp, coroutine>>

HangUp ==
  /\ ~hungUp
  /\ hungUp' = TRUE
  /\ UNCHANGED <<vars, sent, coroutine>>

\* A head, or a body, has arrived whole.
AsyncReadCompletes ==
  /\ coroutine \in {"head", "body"}
  /\ open
  /\ Arrived
  /\ coroutine' = IF coroutine = "head" THEN "got head" ELSE "got body"
  /\ UNCHANGED <<vars, sent, hungUp>>

\* asio completes a read of no bytes at once, without looking at the socket.
EmptyReadCompletes ==
  /\ coroutine = "body"
  /\ Current.len = 0
  /\ ~open
  /\ coroutine' = "got body"
  /\ UNCHANGED <<vars, sent, hungUp>>

\* End of stream, a broken connection, or the abort by Close; a read that has
\* already completed is not affected.
AsyncReadFails ==
  /\ coroutine = "head" \/ (coroutine = "body" /\ Current.len # 0)
  /\ hungUp \/ ~open
  /\ coroutine' = "failed"
  /\ UNCHANGED <<vars, sent, hungUp>>

-----------------------------------------------------------------------------
(* The coroutine, resumed on the io thread.                                *)

ValidHead(f) == f.id <= MaxLength /\ f.len <= MaxLength

\* Id and length pass the tests: go on with the body.
HeadValid ==
  /\ coroutine = "got head"
  /\ ValidHead(Current)
  /\ Current.len >= 0
  /\ coroutine' = "body"
  /\ UNCHANGED <<vars, sent, hungUp>>

\* A mistake in HeadInvalid: the test is logged and nothing else.
HeadInvalidIgnored ==
  /\ coroutine = "got head"
  /\ ~ValidHead(Current)
  /\ coroutine' = "body"
  /\ UNCHANGED <<vars, sent, hungUp>>

\* An id or a length that is too large: ClearSession without Close.
HeadInvalid ==
  /\ coroutine = "got head"
  /\ ~ValidHead(Current)
  /\ ReadInvalid
  /\ coroutine' = "ended"
  /\ UNCHANGED <<sent, hungUp>>

\* A length below -1: new char[] throws, and the handler of the coroutine
\* closes the session.
HeadThrows ==
  /\ coroutine = "got head"
  /\ ValidHead(Current)
  /\ Current.len < -1
  /\ ReadFails
  /\ coroutine' = "ended"
  /\ UNCHANGED <<sent, hungUp>>

\* A length of -1: new char[0], a write before it, and a read of (size_t)-1
\* bytes into it, which takes whatever arrives and never completes.
HeadOverruns ==
  /\ coroutine = "got head"
  /\ ValidHead(Current)
  /\ Current.len = -1
  /\ coroutine' = "astray"
  /\ UNCHANGED <<vars, sent, hungUp>>

\* That read fails with the connection, or is aborted by Close, and throws.
AstrayReadFails ==
  /\ coroutine = "astray"
  /\ hungUp \/ ~open
  /\ ReadFails
  /\ coroutine' = "lost"
  /\ UNCHANGED <<sent, hungUp>>

\* n = 0 passes for the end of the connection ("recv peer closed").
BodyEmpty ==
  /\ coroutine = "got body"
  /\ Current.len = 0
  /\ ReadFails
  /\ coroutine' = "ended"
  /\ UNCHANGED <<sent, hungUp>>

\* A mistake in BodyPosted: the coroutine waits for another body.
BodyPostedNoHead ==
  /\ coroutine = "got body"
  /\ Current.len # 0
  /\ ReceiveMessage
  /\ coroutine' = "body"
  /\ UNCHANGED <<sent, hungUp>>

\* PostMsgToQue, and the loop tests _b_close.
BodyPosted ==
  /\ coroutine = "got body"
  /\ Current.len # 0
  /\ ReceiveMessage
  /\ coroutine' = IF open THEN "head" ELSE "leaving"
  /\ UNCHANGED <<sent, hungUp>>

\* The loop ends at _b_close and the coroutine drops its reference; Close and
\* ClearSession were called by whoever set the flag.
Leave ==
  /\ coroutine = "leaving"
  /\ ReadStops
  /\ coroutine' = "ended"
  /\ UNCHANGED <<sent, hungUp>>

\* A mistake in ReadThrows: the exception is caught inside the loop.
ReadThrowsInLoop ==
  /\ coroutine = "failed"
  /\ open' = FALSE
  /\ entry' = Erased
  /\ coroutine' = "head"
  /\ UNCHANGED <<coServer, sendQue, accepted, backlog, posted, ops, started,
                 next, wire, torn, reading, sent, hungUp>>

\* async_read throws, and the handler of the coroutine closes the session.
ReadThrows ==
  /\ coroutine = "failed"
  /\ ReadFails
  /\ coroutine' = "ended"
  /\ UNCHANGED <<sent, hungUp>>

-----------------------------------------------------------------------------

Resume ==
  \/ HeadValid
  \/ HeadInvalid
  \/ HeadThrows
  \/ HeadOverruns
  \/ AstrayReadFails
  \/ BodyEmpty
  \/ BodyPosted
  \/ Leave
  \/ ReadThrows

\* HandleAccept, the logic thread and the chain of writes are SendQueue's.
Inserted == Insert /\ UNCHANGED readVars

\* The message the logic thread has got to.  Which frame it was is known only
\* in step; what was posted out of step may have any id.
Oldest == sent[posted - backlog + 1]

Reply ==
  /\ backlog > 0
  /\ \/ (InStep => Oldest.id \in Callbacks) /\ (Send \/ SendDropped)
     \/ (InStep => Oldest.id \notin Callbacks) /\ Unanswered
  /\ UNCHANGED readVars

WriteEnds ==
  /\ \E op \in ops : WriteCompletes(op) \/ WriteFails(op)
  /\ UNCHANGED readVars

WriteHandled ==
  /\ (\E op \in ops : HandleWrite(op)) \/ HandleWriteStart
  /\ UNCHANGED readVars

CoNext ==
  \/ \E f \in Frames : PeerSend(f)
  \/ HangUp
  \/ AsyncReadCompletes
  \/ EmptyReadCompletes
  \/ AsyncReadFails
  \/ Resume
  \/ Inserted
  \/ Reply
  \/ WriteEnds
  \/ WriteHandled

\* Frames that were sent arrive, reads and writes end one way or the other,
\* and the threads run what is queued on them.  The peer need not send anything
\* or hang up.
CoSpec ==
  /\ CoInit
  /\ [][CoNext]_coVars
  /\ WF_coVars(AsyncReadCompletes \/ EmptyReadCompletes \/ AsyncReadFails)
  /\ WF_coVars(Resume)
  /\ WF_coVars(Inserted)
  /\ WF_coVars(Reply)
  /\ WF_coVars(WriteEnds)
  /\ WF_coVars(WriteHandled)

-----------------------------------------------------------------------------
(* Properties, next to those of SendQueue.                                 *)

CoTypeOK ==
  /\ TypeOK
  /\ sent \in Seq(Frames)
  /\ hungUp \in BOOLEAN
  /\ coroutine \in {"head", "got head", "body", "got body", "leaving", "failed", "ended",
                   "astray", "lost"}
  /\ InStep => posted <= Len(sent)
  /\ coroutine \in {"got head", "body", "got body"} => posted < Len(sent)
  /\ reading <=> coroutine \notin {"ended", "lost"}

(***************************************************************************)
(* ClearSession was called for a session that reads no more, if only too   *)
(* early (see OnlyTwoLeaks of Server).  Of the ways out of the coroutine   *)
(* one, the test of _b_close, does not see to that; it relies on the       *)
(* failed write, which set the flag, having done so.  The one exception is *)
(* an exception in HandleRead of logicServer (see Conversation): the       *)
(* length read was below -1, and the peer is never told that nobody        *)
(* listens.                                                                *)
(***************************************************************************)
EndedIsCleared ==
  ~reading /\ ~Cleared =>
    ~coServer /\ (InStep => Arrived /\ ValidHead(Current) /\ Current.len < -1)

(***************************************************************************)
(* A session that was closed, or whose peer is gone, stops reading.        *)
(***************************************************************************)
ClosedEnds == ~open \/ hungUp ~> ~reading

(***************************************************************************)
(* The reader of either server implements the frame stream, but for heads  *)
(* that put it out of step.  To the coroutine an empty frame is as         *)
(* unacceptable as a head with an invalid id or length; HandleRead takes   *)
(* it for a message.                                                       *)
(***************************************************************************)
Inbox == SubSeq(sent, posted + 1, Len(sent))
Delivered == IF posted <= Len(sent) THEN SubSeq(sent, 1, posted) ELSE sent

Becoming == {f \in Frames : ValidHead(f) /\ f.len >= IF coServer THEN 1 ELSE 0}

Stream == INSTANCE FrameStream WITH
            Frame <- Frames,
            acceptable <- Becoming,
            inbox <- Inbox,
            delivered <- Delivered,
            ended <- coroutine \in {"leaving", "failed", "ended", "lost"},
            outOfStep <- ~InStep

ImplementsFrameStream == Stream!Spec

=============================================================================
