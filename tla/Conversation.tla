---------------------------- MODULE Conversation ----------------------------
(***************************************************************************)
(* A session of either server together with its client: requests go in,    *)
(* through the read path and the logic layer, and replies come back,       *)
(* through the send queue.                                                 *)
(*                                                                         *)
(* The client is the one of jsonClient.cc and testClient.cc, which is      *)
(* patient: it writes a request, blocks until it has read the reply to it, *)
(* and goes on with the next; or it is any other, which sends what and     *)
(* when it likes.  BoostCoServer reads with the coroutine of CoSession,    *)
(* logicServer with HandleRead, of which only the frames it makes out      *)
(* count here; bytes that give a head short of its four lose it the step   *)
(* (module HandleRead has the bytes).                                      *)
(***************************************************************************)
EXTENDS CoSession

CONSTANT Requests   \* the frames the client of the repository sends

ASSUME ConversationAssumption ==
  Requests \subseteq {f \in Frames : /\ f.id <= MaxLength
                                    /\ f.id \in Callbacks
                                    /\ f.len \in 1..MaxLength}

VARIABLE patient   \* which client this is; never changes

conversationVars == <<coVars, patient>>

ConversationInit ==
  /\ Init
  /\ sent = <<>>
  /\ hungUp = FALSE
  /\ coroutine = "head"
  /\ patient \in BOOLEAN

-----------------------------------------------------------------------------
(* The client.                                                             *)

\* read() of the head and of the body returns once a reply is there whole; a
\* session out of step may give more replies than it had requests.
ClientSends(f) ==
  /\ patient => f \in Requests /\ Len(wire) >= Len(sent)
  /\ PeerSend(f)
  /\ UNCHANGED patient

-----------------------------------------------------------------------------
(* HandleRead of logicServer.  That it has ended shows in coroutine, too.  *)

Handles == ~coServer /\ reading /\ InStep /\ Arrived

HandleReadPosts ==
  /\ Handles
  /\ ValidHead(Current)
  /\ Current.len >= 0
  /\ ReceiveMessage
  /\ UNCHANGED readVars

HandleReadInvalid ==
  /\ Handles
  /\ ~ValidHead(Current)
  /\ ReadInvalid
  /\ coroutine' = "ended"
  /\ UNCHANGED <<sent, hungUp>>

\* A length below -1: new char[] throws, the exception is logged, no read is
\* armed again, and the session stays as it is.
HandleReadThrows ==
  /\ Handles
  /\ ValidHead(Current)
  /\ Current.len < -1
  /\ ReadStops
  /\ coroutine' = "ended"
  /\ UNCHANGED <<sent, hungUp>>

\* A length of -1: new char[0], and everything that arrives is copied there.
HandleReadOverruns ==
  /\ Handles
  /\ ValidHead(Current)
  /\ Current.len = -1
  /\ coroutine' = "astray"
  /\ UNCHANGED <<vars, sent, hungUp>>

\* The bytes read end within a head: they are copied and not counted.
HandleReadCut ==
  /\ Handles
  /\ coroutine' = "astray"
  /\ UNCHANGED <<vars, sent, hungUp>>

\* Any bytes are taken for heads and bodies from now on.
HandleReadAstray ==
  /\ ~coServer
  /\ coroutine = "astray"
  /\ \/ ReceiveMessage /\ coroutine' = "astray"
     \/ ReadInvalid /\ coroutine' = "lost"
     \/ ReadStops /\ coroutine' = "lost"
  /\ UNCHANGED <<sent, hungUp>>

HandleReadError ==
  /\ ~coServer
  /\ hungUp \/ ~open
  /\ ReadFails
  /\ coroutine' = IF InStep THEN "ended" ELSE "lost"
  /\ UNCHANGED <<sent, hungUp>>

HandleRead ==
  \/ HandleReadPosts
  \/ HandleReadInvalid
  \/ HandleReadThrows
  \/ HandleReadOverruns
  \/ HandleReadCut
  \/ HandleReadError

AsyncRead == AsyncReadCompletes \/ EmptyReadCompletes \/ AsyncReadFails

-----------------------------------------------------------------------------

ConversationNext ==
  \/ \E f \in Frames : ClientSends(f)
  \/ HangUp /\ UNCHANGED patient
  \/ HandleRead /\ UNCHANGED patient
  \/ HandleReadAstray /\ UNCHANGED patient
  \/ coServer /\ AsyncRead /\ UNCHANGED patient
  \/ coServer /\ Resume /\ UNCHANGED patient
  \/ Inserted /\ UNCHANGED patient
  \/ Reply /\ UNCHANGED patient
  \/ WriteEnds /\ UNCHANGED patient
  \/ WriteHandled /\ UNCHANGED patient

\* As in CoSession: what is sent arrives, and the threads of the server run.
\* A client need not send anything nor hang up, and a reader that is astray
\* need not find anything in what it reads.
ConversationSpec ==
  /\ ConversationInit
  /\ [][ConversationNext]_conversationVars
  /\ WF_coVars(HandleRead)
  /\ WF_coVars(coServer /\ AsyncRead)
  /\ WF_coVars(coServer /\ Resume)
  /\ WF_coVars(Inserted)
  /\ WF_coVars(Reply)
  /\ WF_coVars(WriteEnds)
  /\ WF_coVars(WriteHandled)

-----------------------------------------------------------------------------
(* Properties, next to those of SendQueue and CoSession.                   *)

(***************************************************************************)
(* A client that waits for each reply never has one dropped, even though   *)
(* the node of the reply it has just read may still be in the queue when   *)
(* its next request is answered; for as long as the session is in step.    *)
(***************************************************************************)
PatientNeverDropped ==
  [][patient /\ InStep /\ backlog' < backlog => accepted' = accepted + 1]_conversationVars

(***************************************************************************)
(* logicServer answers every request of a client that waits for each       *)
(* reply, unless the connection ends first or a head arrives in pieces: a  *)
(* session out of step may leave the client waiting on an open connection  *)
(* (see HandleReadSplit).  BoostCoServer may write the reply with length   *)
(* 0, and both ends wait for ever (see FinishedWasSent).                   *)
(***************************************************************************)
PatientIsAnswered ==
  \A k \in 1..MaxFrames :
    ~coServer /\ patient /\ Len(sent) >= k ~> Len(wire) >= k \/ hungUp \/ ~open \/ ~InStep

=============================================================================
