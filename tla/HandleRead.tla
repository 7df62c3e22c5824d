----------------------------- MODULE HandleRead -----------------------------
(***************************************************************************)
(* The reading half of a logicServer session (CSession::HandleRead): bytes *)
(* arrive in chunks cut anywhere, and are put together to frames, a head   *)
(* of an id and a length and a body, by one state machine that survives    *)
(* from one chunk to the next.                                             *)
(*                                                                         *)
(* One action is one iteration of the loop of HandleRead, which ends with  *)
(* the next read armed, or the session given up, when the chunk is used    *)
(* up.  The buffers are those of the code; their sizes are the constants.  *)
(***************************************************************************)
EXTENDS Integers, SequencesExt

CONSTANTS
  MaxLength,   \* MAX_LENGTH
  Frames,      \* the frames a peer may send: [id, len, body]
  MaxFrames    \* bound on the frames sent

HeadIdLen == 2
HeadTotalLen == 4

Byte == 0..255

\* What a short of two bytes holds.
ShortInt == {v \in Int : -32768 <= v /\ v <= 32767}

Frame == [id : ShortInt, len : ShortInt, body : Seq(Byte)]

ASSUME HandleReadAssumption ==
  /\ MaxLength \in Nat \ {0}
  /\ MaxFrames \in Nat
  /\ Frames \subseteq Frame
  \* A body is as long as its head says where the parser asks for one.
  /\ \A f \in Frames : f.len \in 0..MaxLength => Len(f.body) = f.len

VARIABLES
  sent,       \* history: frames sent by the peer
  stream,     \* history: the bytes of these frames
  received,   \* how many bytes of stream have been read
  chunk,      \* _data from copy_len on; bytes_transferred is its length
  headData,   \* _recv_head_node->_data
  headCur,    \* _recv_head_node->_cur_len
  headParse,  \* _b_head_parse
  node,       \* _recv_msg_node: [id, total, data]; _cur_len is Len(data)
  reader,     \* what the io thread does for the session
  posted,     \* history: messages given to the logic layer
  split       \* history: a chunk has ended inside a head

vars == <<sent, stream, received, chunk, headData, headCur, headParse,
          node, reader, posted, split>>

-----------------------------------------------------------------------------
(* Shorts in network byte order.                                           *)

\* host_to_network_short, memcpy: the low two bytes, most significant first.
Encode(v) == <<(v \div 256) % 256, v % 256>>

\* The short that has the bits of the unsigned v.
Signed(v) == IF v > 32767 THEN v - 65536 ELSE v

\* memcpy, network_to_host_short into a signed short.
Decode(bytes) == Signed(256 * bytes[1] + bytes[2])

Bytes(f) == Encode(f.id) \o Encode(f.len) \o f.body

Zeros(n) == [i \in 1..n |-> 0]

\* memcpy(dst + at, src, Len(src))
Overwrite(dst, at, src) ==
  [i \in 1..Len(dst) |-> IF i \in at + 1..at + Len(src) THEN src[i - at] ELSE dst[i]]

Drop(s, n) == SubSeq(s, n + 1, Len(s))

Init ==
  /\ sent = <<>>
  /\ stream = <<>>
  /\ received = 0
  /\ chunk = <<>>
  /\ headData = Zeros(HeadTotalLen)
  /\ headCur = 0
  /\ headParse = FALSE
  /\ node = [id |-> 0, len |-> 0, body |-> <<>>]
  /\ reader = "armed"
  /\ posted = <<>>
  /\ split = FALSE

-----------------------------------------------------------------------------
(* The peer and the connection.                                            *)

PeerSend(f) ==
  /\ Len(sent) < MaxFrames
  /\ sent' = Append(sent, f)
  /\ stream' = stream \o Bytes(f)
  /\ UNCHANGED <<received, chunk, headData, headCur, headParse, node, reader,
                 posted, split>>

\* What async_read_some may deliver: some of what has arrived, as far as it
\* fits into _data.
Available == {n \in 1..MaxLength : n <= Len(stream) - received}

\* async_read_some hands n bytes to HandleRead.
Receive(n) ==
  /\ reader = "armed"
  /\ chunk' = SubSeq(stream, received + 1, received + n)
  /\ received' = received + n
  /\ reader' = "handling"
  /\ UNCHANGED <<sent, stream, headData, headCur, headParse, node, posted, split>>

\* The peer hangs up or the connection breaks: Close and ClearSession.
ReadFails ==
  /\ reader = "armed"
  /\ reader' = "closed"
  /\ UNCHANGED <<sent, stream, received, chunk, headData, headCur,
                 headParse, node, posted, split>>

-----------------------------------------------------------------------------
(* One iteration of the loop of HandleRead: the head.                      *)

HeadRemain == HeadTotalLen - headCur

HeadNow == Overwrite(headData, headCur, SubSeq(chunk, 1, HeadRemain))
IdNow == Decode(SubSeq(HeadNow, 1, HeadIdLen))
LenNow == Decode(SubSeq(HeadNow, HeadIdLen + 1, HeadTotalLen))
Rest == Drop(chunk, HeadRemain)

AtHead == reader = "handling" /\ ~headParse /\ Len(chunk) >= HeadRemain

\* The chunk does not complete the head.  It is copied behind the bytes that
\* _cur_len counts, but _cur_len is left as it is.
HeadShort ==
  /\ reader = "handling"
  /\ ~headParse
  /\ Len(chunk) + headCur < HeadTotalLen
  /\ headData' = Overwrite(headData, headCur, chunk)
  /\ chunk' = <<>>
  /\ split' = TRUE
  /\ reader' = "armed"
  /\ UNCHANGED <<sent, stream, received, headCur, headParse, node, posted>>

\* A mistake in ValidHead: the length is not checked.
ValidHeadNoLength(id, len) == id <= MaxLength

ValidHead(id, len) == id <= MaxLength /\ len <= MaxLength

\* The id or the length is too large: ClearSession, and no further read.
HeadInvalid ==
  /\ AtHead
  /\ ~ValidHead(IdNow, LenNow)
  /\ headData' = HeadNow
  /\ chunk' = <<>>
  /\ reader' = "rejected"
  /\ UNCHANGED <<sent, stream, received, headCur, headParse, node, posted, split>>

\* A length below -1: new char[] throws and HandleRead only logs it.  The
\* session stays as it is, with no read armed.
HeadThrows ==
  /\ AtHead
  /\ ValidHead(IdNow, LenNow)
  /\ LenNow < -1
  /\ headData' = HeadNow
  /\ chunk' = <<>>
  /\ reader' = "stalled"
  /\ UNCHANGED <<sent, stream, received, headCur, headParse, node, posted, split>>

\* What is written beyond a block of the heap may end the process, or pass.
Survives == reader' \in {"armed", "died"}

\* A length of -1: the node is new char[0], with a zero written in front of it.
\* bytes_transferred is compared with the length as a size_t, so the body never
\* seems complete, and what is left of the chunk is copied behind the block.
HeadOverruns ==
  /\ AtHead
  /\ ValidHead(IdNow, LenNow)
  /\ LenNow = -1
  /\ headData' = HeadNow
  /\ node' = [id |-> IdNow, len |-> LenNow, body |-> Rest]
  /\ chunk' = <<>>
  /\ Survives
  /\ headParse' = TRUE
  /\ UNCHANGED <<sent, stream, received, headCur, posted, split>>

\* The head is complete and the body is not: _recv_msg_node keeps its part.
HeadThenPart ==
  /\ AtHead
  /\ ValidHead(IdNow, LenNow)
  /\ Len(Rest) < LenNow
  /\ headData' = HeadNow
  /\ node' = [id |-> IdNow, len |-> LenNow, body |-> Rest]
  /\ chunk' = <<>>
  /\ reader' = "armed"
  /\ headParse' = TRUE
  /\ UNCHANGED <<sent, stream, received, headCur, posted, split>>

\* A complete message is posted and the head node cleared.
PostMessage(id, len, body) ==
  /\ node' = [id |-> id, len |-> len, body |-> body]
  /\ posted' = Append(posted, node')
  /\ headData' = Zeros(HeadTotalLen)
  /\ headCur' = 0

\* A mistake in ContinueWith: what is left of the chunk is dropped.
ContinueWithNothing(unread) ==
  /\ headParse' = FALSE
  /\ chunk' = <<>>
  /\ reader' = "armed"

\* After a message the parser expects a head again, and the next read is armed
\* unless the chunk holds more.
ContinueWith(unread) ==
  /\ headParse' = FALSE
  /\ chunk' = unread
  /\ reader' = IF unread = <<>> THEN "armed" ELSE "handling"

\* Head and body are complete.
HeadThenBody ==
  /\ AtHead
  /\ ValidHead(IdNow, LenNow)
  /\ LenNow >= 0
  /\ Len(Rest) >= LenNow
  /\ PostMessage(IdNow, LenNow, SubSeq(Rest, 1, LenNow))
  /\ ContinueWith(Drop(Rest, LenNow))
  /\ UNCHANGED <<sent, stream, received, split>>

-----------------------------------------------------------------------------
(* One iteration of the loop: the rest of a body.                          *)

BodyRemain == node.len - Len(node.body)

BodyPart ==
  /\ reader = "handling"
  /\ headParse
  /\ node.len >= 0
  /\ Len(chunk) < BodyRemain
  /\ node' = [node EXCEPT !.body = node.body \o chunk]
  /\ chunk' = <<>>
  /\ reader' = "armed"
  /\ UNCHANGED <<sent, stream, received, headData, headCur, headParse, posted, split>>

BodyEnd ==
  /\ reader = "handling"
  /\ headParse
  /\ node.len >= 0
  /\ Len(chunk) >= BodyRemain
  /\ PostMessage(node.id, node.len, node.body \o SubSeq(chunk, 1, BodyRemain))
  /\ ContinueWith(Drop(chunk, BodyRemain))
  /\ UNCHANGED <<sent, stream, received, split>>

\* The parser took -1 for a length.  It does not get out of that body again.
Overrunning == node.len = -1

\* The rest of a body of -1 is negative, and as a size_t larger than any chunk:
\* all that arrives is copied behind the block.  (After 32 KB the short _cur_len
\* would wrap; that is not followed.)
BodyOverruns ==
  /\ reader = "handling"
  /\ headParse
  /\ Overrunning
  /\ node' = [node EXCEPT !.body = node.body \o chunk]
  /\ chunk' = <<>>
  /\ Survives
  /\ UNCHANGED <<sent, stream, received, headData, headCur, headParse, posted, split>>

-----------------------------------------------------------------------------

HandleRead ==
  \/ HeadShort
  \/ HeadInvalid
  \/ HeadThrows
  \/ HeadOverruns
  \/ HeadThenPart
  \/ HeadThenBody
  \/ BodyPart
  \/ BodyEnd
  \/ BodyOverruns

Next ==
  \/ \E f \in Frames : PeerSend(f)
  \/ \E n \in Available : Receive(n)
  \/ ReadFails
  \/ HandleRead

\* Bytes that were sent arrive and the io thread runs.  Nothing need be sent.
Spec ==
  /\ Init
  /\ [][Next]_vars
  /\ WF_vars(\E n \in Available : Receive(n))
  /\ WF_vars(HandleRead)

-----------------------------------------------------------------------------
(* Properties.                                                             *)

(***************************************************************************)
(* However the stream is cut, and even when the parser is out of step with *)
(* the peer: no node is larger than MAX_LENGTH, what HandleRead copies     *)
(* stays inside the node it allocated, a body that is complete is not left *)
(* waiting for more, and the loop neither goes on without bytes nor leaves *)
(* some behind when it arms the next read.  One length is the exception,   *)
(* -1: the parser writes beyond that node, never gets out of it again, and *)
(* may take the process with it, which nothing else does.                  *)
(***************************************************************************)
BuffersFit ==
  /\ headCur \in 0..HeadTotalLen
  /\ reader = "handling" <=> chunk # <<>>
  /\ node.len \in -1..MaxLength
  /\ ~Overrunning =>
       /\ Len(node.body) <= node.len
       /\ headParse => Len(node.body) < node.len
       /\ reader # "died"
  /\ Overrunning => headParse

(***************************************************************************)
(* The comments on the head, "the data received is less than a head" and   *)
(* "first copy the rest of the head": a head that arrives in pieces is put *)
(* together, so the messages posted are the frames sent.                   *)
(***************************************************************************)
PostedWereSent == IsPrefix(posted, sent)

(***************************************************************************)
(* The parser implements the frame stream, whatever the chunks are, until  *)
(* a chunk ends inside a head; from then on it may be out of step.  A head *)
(* with the length -1 ends the stream, too: all behind it is swallowed.    *)
(***************************************************************************)
Stream == INSTANCE FrameStream WITH
            Frame <- Frames,
            acceptable <- {f \in Frames : ValidHead(f.id, f.len) /\ f.len >= 0},
            inbox <- Drop(sent, Len(posted)),
            delivered <- posted,
            ended <- reader \in {"closed", "rejected", "stalled"} \/ Overrunning,
            outOfStep <- split

ImplementsFrameStream == Stream!Spec

=============================================================================
