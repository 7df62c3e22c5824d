--------------------------- MODULE SessionProofs ---------------------------
(***************************************************************************)
(* Proofs about a session: its send queue alone (SendQueue), with the      *)
(* reader of either server and its client (Conversation), and, at the end, *)
(* with the coroutine of BoostCoServer (CoSession).                        *)
(*                                                                         *)
(* The argument for the send queue, for any limit, any number of messages  *)
(* and either server: the queue holds the last nodes accepted, in order    *)
(* (QueueIsRest); the only write there ever is belongs to its front        *)
(* (SoleWriterOfFront); so nothing on the stream is newer than that front, *)
(* and it is as new only while the write is done and its handler has not   *)
(* run (WireBehindFront).  A failed write is never popped, which is what   *)
(* keeps every later Send from starting another (TornStops).               *)
(*                                                                         *)
(* These results hold with either server's reader, each step of which is   *)
(* one that SendQueue allows it, or none it sees (SendingStep).  A session *)
(* that is closed has been cleared, and while it is in step a reader is    *)
(* not ahead of what was sent (ReaderInv).                                 *)
(*                                                                         *)
(* The argument for the client that waits for each reply, while the        *)
(* session is in step: no more nodes are on the stream than have left the  *)
(* queue, but for the one whose write is done and whose handler has not    *)
(* run (WireCounted).  Such a client is at most one request ahead of the   *)
(* stream, and every message of it was queued or is still to be answered,  *)
(* by a callback (PatientInv).  So queue and backlog together hold at most *)
(* two, and a Send, which needs one of them in the backlog, finds at most  *)
(* one in the queue.                                                       *)
(***************************************************************************)
EXTENDS Conversation, SequenceTheorems, TLAPS

\* Nodes that left the queue.
Done == accepted - Len(sendQue)

QueueIsRest ==
  /\ Len(sendQue) <= accepted
  /\ \A i \in 1..Len(sendQue) : sendQue[i] = Done + i

WireBehindFront ==
  /\ \A i, j \in 1..Len(wire) : i < j => wire[i] < wire[j]
  /\ \A i \in 1..Len(wire) : wire[i] <= Done \/ (Written /\ wire[i] = Done + 1)

TornStops ==
  torn => /\ sendQue # <<>>
          /\ next = 0
          /\ \A op \in ops : op.result = "error"

IInv ==
  /\ TypeOK
  /\ QueueIsRest
  /\ SoleWriterOfFront
  /\ WireBehindFront
  /\ TornStops
  /\ NeverStalls
  /\ QueueBound

-----------------------------------------------------------------------------
(* Types.                                                                  *)

LEMMA TypeInit == Init => TypeOK
<1> SUFFICES ASSUME Init PROVE TypeOK
  OBVIOUS
<1>1. sendQue \in Seq(Nat) /\ wire \in Seq(Nat)
  BY EmptySeq DEF Init
<1>2. {coServer, torn, open, reading} \subseteq BOOLEAN /\ entry \in Entries
  BY DEF Init, Entries
<1>3. accepted \in Nat /\ backlog \in Nat /\ posted \in Nat /\ started \in Nat /\ next \in Nat
  BY DEF Init
<1>4. ops \subseteq Op
  BY DEF Init
<1> QED
  BY <1>1, <1>2, <1>3, <1>4, Zenon DEF TypeOK

\* What starting a write does to the set of writes.
LEMMA StartWriteTypes ==
  ASSUME TypeOK, NEW others \in SUBSET ops, NEW node \in Nat, NEW full \in BOOLEAN,
         StartWrite(others, node, full)
  PROVE  ops' \subseteq Op /\ started' \in Nat
BY DEF TypeOK, StartWrite, Op

\* What the end of a write does to it.
LEMMA CompleteTypes ==
  ASSUME TypeOK, NEW op \in ops, NEW result \in {"ok", "error"}, Complete(op, result)
  PROVE  ops' \subseteq Op
BY DEF TypeOK, Complete, Op

\* What removing the front of a queue of several nodes leaves.
LEMMA TailTypes ==
  ASSUME NEW que \in Seq(Nat), Len(que) > 1
  PROVE  /\ Tail(que) \in Seq(Nat)
         /\ Len(Tail(que)) = Len(que) - 1
         /\ Tail(que) # <<>>
         /\ Head(Tail(que)) = que[2]
         /\ Head(Tail(que)) \in Nat
         /\ \A i \in 1..Len(que) - 1 : Tail(que)[i] = que[i + 1]
<1>1. que # <<>>
  BY EmptySeq
<1>2. /\ Tail(que) \in Seq(Nat)
      /\ Len(Tail(que)) = Len(que) - 1
      /\ \A i \in 1..Len(Tail(que)) : Tail(que)[i] = que[i + 1]
  BY <1>1, HeadTailProperties
<1>3. Len(que) \in Nat /\ Tail(que) # <<>>
  <2>1. Len(que) \in Nat
    OBVIOUS
  <2>2. Len(Tail(que)) # 0
    <3>1. \A n \in Nat : n > 1 => n - 1 # 0
      OBVIOUS
    <3> QED
      BY <1>2, <2>1, <3>1
  <2> QED
    BY <2>1, <2>2, EmptySeq
<1>4. Head(Tail(que)) = Tail(que)[1] /\ Head(Tail(que)) \in Nat
  BY <1>2, <1>3, HeadTailProperties
<1> QED
  BY <1>2, <1>3, <1>4

\* What ClearSession does to the entry.
LEMMA ErasedCleared == Erased \in Entries /\ Erased \notin {"due", "in"}
BY DEF Erased, Entries

\* Every step keeps the types.
LEMMA TypeStep ==
  ASSUME TypeOK, [Next]_vars
  PROVE  TypeOK'
<1>1. CASE ReceiveMessage
  BY <1>1 DEF ReceiveMessage, TypeOK
<1>2. CASE ReadFails
  BY <1>2, ErasedCleared DEF ReadFails, TypeOK
<1>3. CASE ReadInvalid
  BY <1>3, ErasedCleared DEF ReadInvalid, TypeOK
<1>4. CASE Send
  <2>1. /\ sendQue' \in Seq(Nat) /\ Head(sendQue') \in Nat
        /\ accepted' \in Nat /\ backlog' \in Nat
    BY <1>4, AppendProperties, HeadTailProperties DEF Send, TypeOK
  <2>2. ops' \subseteq Op /\ started' \in Nat
    BY <1>4, <2>1, StartWriteTypes DEF Send, TypeOK
  <2> QED
    BY <1>4, <2>1, <2>2 DEF Send, TypeOK
<1>5. CASE SendDropped \/ Unanswered
  <2>1. Discard
    BY <1>5, Zenon DEF SendDropped, Unanswered
  <2> QED
    BY <2>1 DEF Discard, TypeOK
<1>6. ASSUME NEW op \in ops, WriteCompletes(op)
      PROVE  TypeOK'
  <2>1. ops' \subseteq Op
    BY <1>6, CompleteTypes DEF WriteCompletes
  <2>2. wire' \in Seq(Nat)
    BY <1>6, AppendProperties DEF WriteCompletes, TypeOK, Op
  <2> QED
    BY <1>6, <2>1, <2>2 DEF WriteCompletes, TypeOK
<1>7. ASSUME NEW op \in ops, WriteFails(op)
      PROVE  TypeOK'
  <2>1. ops' \subseteq Op
    BY <1>7, CompleteTypes DEF WriteFails
  <2>2. torn' \in BOOLEAN
    BY <1>7 DEF WriteFails, TypeOK
  <2> QED
    BY <1>7, <2>1, <2>2 DEF WriteFails, TypeOK
<1>8. ASSUME NEW op \in ops, HandleWriteLast(op)
      PROVE  TypeOK'
  BY <1>8, EmptySeq DEF HandleWriteLast, TypeOK
<1>9. ASSUME NEW op \in ops, HandleWriteNext(op)
      PROVE  TypeOK'
  <2>1. sendQue' \in Seq(Nat) /\ Head(sendQue') \in Nat
    BY <1>9, TailTypes DEF HandleWriteNext, TypeOK
  <2>2. ops' \subseteq Op /\ started' \in Nat
    BY <1>9, <2>1, StartWriteTypes DEF HandleWriteNext
  <2> QED
    BY <1>9, <2>1, <2>2 DEF HandleWriteNext, TypeOK
<1>10. ASSUME NEW op \in ops, HandleWriteUnlock(op)
       PROVE  TypeOK'
  BY <1>10, TailTypes DEF HandleWriteUnlock, TypeOK
<1>11. ASSUME NEW op \in ops, HandleWriteError(op)
       PROVE  TypeOK'
  BY <1>11, ErasedCleared DEF HandleWriteError, TypeOK
<1>12. CASE HandleWriteStart
  <2>1. ops' \subseteq Op /\ started' \in Nat
    BY <1>12, StartWriteTypes DEF HandleWriteStart, TypeOK
  <2> QED
    BY <1>12, <2>1 DEF HandleWriteStart, TypeOK
<1>13. CASE UNCHANGED vars
  BY <1>13 DEF vars, TypeOK
<1>14. CASE Insert
  BY <1>14 DEF Insert, Entries, TypeOK
<1>15. CASE ReadStops
  BY <1>15 DEF ReadStops, TypeOK
<1> QED
  BY <1>1, <1>2, <1>3, <1>4, <1>5, <1>6, <1>7, <1>8, <1>9, <1>10, <1>11,
     <1>12, <1>13, <1>14, <1>15 DEF Next, HandleWrite

-----------------------------------------------------------------------------
(* The queue.                                                              *)

\* Every step keeps the queue in order and within its bound.
LEMMA QueueStep ==
  ASSUME TypeOK, QueueIsRest, QueueBound, [Next]_vars
  PROVE  QueueIsRest' /\ QueueBound'
<1>1. CASE Send
  <2>1. /\ Len(sendQue') = Len(sendQue) + 1
        /\ accepted' = accepted + 1
        /\ \A i \in 1..Len(sendQue) : sendQue'[i] = sendQue[i]
        /\ sendQue'[Len(sendQue) + 1] = accepted + 1
    BY <1>1, AppendProperties DEF Send, TypeOK
  <2>2. Len(sendQue) \in Nat /\ Done' = Done /\ Done \in Int
    BY <2>1, LenProperties DEF Done, TypeOK
  <2>3. QueueBound'
    BY <1>1, <2>1, <2>2, SendQueueAssumption DEF Send, Accepts, QueueBound
  <2>4. ASSUME NEW i \in 1..Len(sendQue')
        PROVE  sendQue'[i] = Done' + i
    <3>1. CASE i \in 1..Len(sendQue)
      BY <2>1, <2>2, <3>1 DEF QueueIsRest
    <3>2. CASE i = Len(sendQue) + 1
      BY <2>1, <2>2, <3>2 DEF Done, TypeOK
    <3> QED
      BY <2>1, <2>2, <3>1, <3>2
  <2>5. Len(sendQue') <= accepted'
    BY <2>1, <2>2 DEF QueueIsRest, TypeOK
  <2> QED
    BY <2>3, <2>4, <2>5 DEF QueueIsRest
<1>2. ASSUME NEW op \in ops, HandleWriteLast(op)
      PROVE  QueueIsRest' /\ QueueBound'
  <2>1. Len(sendQue') = 0 /\ accepted' = accepted
    BY <1>2, EmptySeq DEF HandleWriteLast
  <2> QED
    BY <2>1, SendQueueAssumption DEF QueueIsRest, QueueBound, TypeOK
<1>3. CASE sendQue' = Tail(sendQue) /\ Len(sendQue) > 1 /\ accepted' = accepted
  <2>1. /\ Len(sendQue') = Len(sendQue) - 1
        /\ \A i \in 1..Len(sendQue) - 1 : sendQue'[i] = sendQue[i + 1]
    BY <1>3, TailTypes DEF TypeOK
  <2>2. Len(sendQue) \in Nat /\ Done' = Done + 1 /\ Done \in Int
    <3>1. Len(sendQue) \in Nat /\ accepted \in Nat
      BY LenProperties DEF TypeOK
    <3>2. accepted' = accepted /\ Len(sendQue') = Len(sendQue) - 1
      BY <1>3, <2>1
    <3> QED
      BY <3>1, <3>2 DEF Done
  <2>3. ASSUME NEW i \in 1..Len(sendQue')
        PROVE  sendQue'[i] = Done' + i
    <3>1. sendQue'[i] = Done + (i + 1)
      BY <2>1, <2>2 DEF QueueIsRest
    <3> QED
      BY <2>1, <2>2, <3>1
  <2> QED
    BY <1>3, <2>1, <2>2, <2>3, SendQueueAssumption DEF QueueIsRest, QueueBound, TypeOK
<1>4. CASE UNCHANGED <<sendQue, accepted>>
  BY <1>4 DEF QueueIsRest, QueueBound, Done
<1> QED
  BY <1>1, <1>2, <1>3, <1>4
     DEF Next, HandleWrite, Insert, ReceiveMessage, ReadFails, ReadInvalid, ReadStops, SendDropped,
         Unanswered, Discard,
         WriteCompletes, WriteFails, HandleWriteNext, HandleWriteUnlock,
         HandleWriteError, HandleWriteStart, vars

\* The front of the queue is the oldest node that has not left it.
LEMMA FrontNode ==
  ASSUME TypeOK, QueueIsRest, sendQue # <<>>
  PROVE  Head(sendQue) = Done + 1 /\ Done \in Nat
<1>1. Len(sendQue) \in Nat \ {0} /\ accepted \in Nat
  BY EmptySeq DEF TypeOK
<1>2. Head(sendQue) = sendQue[1]
  BY DEF TypeOK
<1> QED
  BY <1>1, <1>2 DEF QueueIsRest, Done

-----------------------------------------------------------------------------
(* The writes.                                                             *)

\* A write under way is the only one.
LEMMA OnlyWrite ==
  ASSUME SoleWriterOfFront, NEW op \in ops
  PROVE  ops = {op} /\ sendQue # <<>> /\ op.node = Head(sendQue) /\ next = 0
BY DEF SoleWriterOfFront

\* A write started while there is no other is the only one.
LEMMA StartOnly ==
  ASSUME NEW node, NEW full, StartWrite({}, node, full)
  PROVE  \E new : /\ ops' = {new}
                  /\ new.node = node
                  /\ new.full = full
                  /\ new.result = "writing"
<1> DEFINE new == [id |-> started + 1, node |-> node, full |-> full, result |-> "writing"]
<1>1. new.node = node /\ new.full = full /\ new.result = "writing"
  OBVIOUS
<1>2. ops' = {new}
  BY DEF StartWrite
<1> QED
  BY <1>1, <1>2

\* Every step keeps at most one write, the front's.
LEMMA SoleStep ==
  ASSUME TypeOK, SoleWriterOfFront, [Next]_vars
  PROVE  SoleWriterOfFront'
<1>1. CASE Send
  <2>1. /\ sendQue' # <<>>
        /\ next' = next
        /\ sendQue # <<>> => Head(sendQue') = Head(sendQue)
    BY <1>1, AppendProperties, HeadTailAppend DEF Send, TypeOK
  <2>2. CASE sendQue = <<>>
    <3>1. StartsWrite(Len(sendQue))
      BY <2>2, EmptySeq DEF StartsWrite
    <3>2. ops = {} /\ next = 0
      BY <2>2 DEF SoleWriterOfFront
    <3>3. \E op : ops' = {op} /\ op.node = Head(sendQue')
      <4>1. StartWrite({}, Head(sendQue'), TRUE)
        BY <1>1, <3>1, <3>2 DEF Send
      <4> QED
        BY <4>1, StartOnly
    <3> QED
      BY <2>1, <3>2, <3>3 DEF SoleWriterOfFront
  <2>3. CASE sendQue # <<>>
    <3>1. ~StartsWrite(Len(sendQue))
      BY <2>3, EmptySeq DEF StartsWrite, TypeOK
    <3>2. ops' = ops
      BY <1>1, <3>1 DEF Send
    <3> QED
      BY <2>1, <2>3, <3>2 DEF SoleWriterOfFront
  <2> QED
    BY <2>2, <2>3
<1>2. ASSUME NEW op \in ops, WriteCompletes(op) \/ WriteFails(op)
      PROVE  SoleWriterOfFront'
  <2>1. UNCHANGED <<sendQue, next>>
    BY <1>2 DEF WriteCompletes, WriteFails
  <2>2. \E result : ops' = {[op EXCEPT !.result = result]}
    BY <1>2, OnlyWrite DEF WriteCompletes, WriteFails, Complete
  <2>3. \A result : [op EXCEPT !.result = result].node = op.node
    BY DEF TypeOK, Op
  <2> QED
    BY <2>1, <2>2, <2>3, OnlyWrite DEF SoleWriterOfFront
<1>3. ASSUME NEW op \in ops, HandleWriteLast(op) \/ HandleWriteError(op)
      PROVE  SoleWriterOfFront'
  BY <1>3, OnlyWrite DEF HandleWriteLast, HandleWriteError, SoleWriterOfFront
<1>4. ASSUME NEW op \in ops, HandleWriteNext(op)
      PROVE  SoleWriterOfFront'
  <2>1. sendQue' # <<>> /\ next' = 0
    BY <1>4, OnlyWrite, TailTypes DEF HandleWriteNext, TypeOK
  <2>2. \E new : ops' = {new} /\ new.node = Head(sendQue')
    <3>1. ops \ {op} = {}
      BY OnlyWrite
    <3>2. StartWrite({}, Head(sendQue'), TRUE)
      BY <1>4, <3>1 DEF HandleWriteNext
    <3> QED
      BY <3>2, StartOnly
  <2> QED
    BY <2>1, <2>2 DEF SoleWriterOfFront
<1>5. ASSUME NEW op \in ops, HandleWriteUnlock(op)
      PROVE  SoleWriterOfFront'
  <2>1. sendQue' # <<>> /\ next' = Head(sendQue')
    BY <1>5, TailTypes DEF HandleWriteUnlock, TypeOK
  <2>2. ops' = {}
    BY <1>5, OnlyWrite DEF HandleWriteUnlock
  <2> QED
    BY <2>1, <2>2 DEF SoleWriterOfFront
<1>6. CASE HandleWriteStart
  <2>1. ops = {} /\ sendQue' = sendQue /\ sendQue # <<>> /\ next = Head(sendQue)
    BY <1>6 DEF HandleWriteStart, SoleWriterOfFront
  <2>2. next' = 0 /\ \E new : ops' = {new} /\ new.node = next
    <3>1. StartWrite({}, next, FALSE)
      BY <1>6, <2>1 DEF HandleWriteStart
    <3> QED
      BY <1>6, <3>1, StartOnly DEF HandleWriteStart
  <2> QED
    BY <2>1, <2>2 DEF SoleWriterOfFront
<1>7. CASE UNCHANGED <<sendQue, ops, next>>
  BY <1>7 DEF SoleWriterOfFront
<1> QED
  BY <1>1, <1>2, <1>3, <1>4, <1>5, <1>6, <1>7
     DEF Next, HandleWrite, Insert, ReceiveMessage, ReadFails, ReadInvalid, ReadStops, SendDropped,
         Unanswered, Discard, vars

\* A queue with nodes in it keeps its writer.
LEMMA StallStep ==
  ASSUME TypeOK, QueueIsRest, SoleWriterOfFront, NeverStalls, [Next]_vars
  PROVE  NeverStalls'
<1> SUFFICES ASSUME open', sendQue' # <<>>
             PROVE  ops' # {} \/ next' # 0
  BY DEF NeverStalls
<1>1. CASE Send
  <2>1. CASE sendQue = <<>>
    BY <1>1, <2>1, EmptySeq DEF Send, StartsWrite, StartWrite
  <2>2. CASE sendQue # <<>>
    <3>1. open /\ next' = next
      BY <1>1, Zenon DEF Send
    <3>2. ops \subseteq ops'
      BY <1>1 DEF Send, StartWrite
    <3> QED
      BY <2>2, <3>1, <3>2 DEF NeverStalls
  <2> QED
    BY <2>1, <2>2
<1>2. ASSUME NEW op \in ops, WriteCompletes(op) \/ WriteFails(op)
      PROVE  ops' # {}
  BY <1>2 DEF WriteCompletes, WriteFails, Complete
<1>3. ASSUME NEW op \in ops, HandleWriteLast(op) \/ HandleWriteError(op)
      PROVE  FALSE
  BY <1>3, Zenon DEF HandleWriteLast, HandleWriteError
<1>4. ASSUME NEW op \in ops, HandleWriteNext(op)
      PROVE  ops' # {}
  BY <1>4 DEF HandleWriteNext, StartWrite
<1>5. ASSUME NEW op \in ops, HandleWriteUnlock(op)
      PROVE  next' # 0
  <2>1. next' = sendQue[2] /\ Len(sendQue) > 1
    BY <1>5, TailTypes DEF HandleWriteUnlock, TypeOK
  <2>2. Len(sendQue) \in Nat /\ sendQue[2] = Done + 2
    BY <2>1, LenProperties DEF QueueIsRest, TypeOK
  <2> QED
    BY <2>1, <2>2, FrontNode, EmptySeq
<1>6. CASE HandleWriteStart
  BY <1>6 DEF HandleWriteStart, StartWrite
<1>7. CASE UNCHANGED <<sendQue, ops, next>> /\ open
  BY <1>7 DEF NeverStalls
<1>8. CASE ReadFails
  BY <1>8 DEF ReadFails
<1>9. CASE ReadInvalid \/ ReadStops \/ Discard
  BY <1>7, <1>9, Zenon DEF ReadInvalid, ReadStops, Discard
<1> QED
  BY <1>1, <1>2, <1>3, <1>4, <1>5, <1>6, <1>7, <1>8, <1>9
     DEF Next, HandleWrite, Insert, ReceiveMessage, SendDropped, Unanswered, vars

-----------------------------------------------------------------------------
(* The stream.                                                             *)

\* Every step keeps the stream behind the front of the queue.
LEMMA WireStep ==
  ASSUME TypeOK, QueueIsRest, QueueIsRest', SoleWriterOfFront, WireBehindFront,
         [Next]_vars
  PROVE  WireBehindFront'
<1>1. CASE Send
  <2>1. wire' = wire /\ Done' = Done
    <3>1. Len(sendQue') = Len(sendQue) + 1 /\ accepted' = accepted + 1
      BY <1>1, AppendProperties DEF Send, TypeOK
    <3> QED
      BY <1>1, <3>1, LenProperties DEF Send, Done, TypeOK
  <2>2. ops \subseteq ops'
    BY <1>1 DEF Send, StartWrite
  <2> QED
    BY <2>1, <2>2 DEF WireBehindFront, Written
<1>2. ASSUME NEW op \in ops, op.result = "writing" \/ op.result = "error"
      PROVE  \A i \in 1..Len(wire) : wire[i] <= Done
  BY <1>2, OnlyWrite DEF WireBehindFront, Written
<1>3. ASSUME NEW op \in ops, WriteCompletes(op)
      PROVE  WireBehindFront'
  <2>1. Done' = Done /\ op.node = Done + 1 /\ Done \in Nat
    BY <1>3, OnlyWrite, FrontNode DEF WriteCompletes, Done
  <2>2. \A i \in 1..Len(wire) : wire[i] <= Done
    BY <1>2, <1>3 DEF WriteCompletes
  <2>3. Written'
    <3>1. [op EXCEPT !.result = "ok"] \in ops'
      BY <1>3 DEF WriteCompletes, Complete
    <3>2. [op EXCEPT !.result = "ok"].result = "ok"
      BY DEF TypeOK, Op
    <3> QED
      BY <3>1, <3>2 DEF Written
  <2>4. CASE wire' = wire
    BY <2>1, <2>2, <2>4 DEF WireBehindFront
  <2>5. CASE wire' = Append(wire, op.node)
    <3>1. /\ 1..Len(wire') = 1..Len(wire) \cup {Len(wire) + 1}
          /\ \A i \in 1..Len(wire) : wire'[i] = wire[i] /\ wire[i] \in Nat
          /\ wire'[Len(wire) + 1] = Done + 1
          /\ Len(wire) \in Nat
      BY <2>1, <2>5, AppendProperties, ElementOfSeq DEF TypeOK
    <3>2. ASSUME NEW i \in 1..Len(wire'), NEW j \in 1..Len(wire'), i < j
          PROVE  wire'[i] < wire'[j]
      <4>1. i \in 1..Len(wire)
        BY <3>1, <3>2
      <4>2. CASE j \in 1..Len(wire)
        BY <3>1, <3>2, <4>1, <4>2 DEF WireBehindFront
      <4>3. CASE j = Len(wire) + 1
        BY <2>1, <2>2, <3>1, <4>1, <4>3
      <4> QED
        BY <3>1, <4>2, <4>3
    <3>3. \A i \in 1..Len(wire') : wire'[i] <= Done' \/ wire'[i] = Done' + 1
      BY <2>1, <2>2, <3>1
    <3> QED
      BY <2>3, <3>2, <3>3 DEF WireBehindFront
  <2> QED
    BY <1>3, <2>4, <2>5 DEF WriteCompletes
<1>4. ASSUME NEW op \in ops, WriteFails(op) \/ HandleWriteError(op)
      PROVE  WireBehindFront'
  <2>1. wire' = wire /\ Done' = Done
    BY <1>4 DEF WriteFails, HandleWriteError, Done
  <2> QED
    BY <1>2, <1>4, <2>1 DEF WriteFails, HandleWriteError, WireBehindFront
<1>5. ASSUME NEW op \in ops,
             HandleWriteLast(op) \/ HandleWriteNext(op) \/ HandleWriteUnlock(op)
      PROVE  WireBehindFront'
  <2>1. Len(sendQue') = Len(sendQue) - 1
    <3>1. CASE HandleWriteLast(op)
      BY <3>1, EmptySeq DEF HandleWriteLast
    <3>2. CASE HandleWriteNext(op) \/ HandleWriteUnlock(op)
      BY <3>2, TailTypes DEF HandleWriteNext, HandleWriteUnlock, TypeOK
    <3> QED
      BY <1>5, <3>1, <3>2
  <2>2. wire' = wire /\ accepted' = accepted
    BY <1>5 DEF HandleWriteLast, HandleWriteNext, HandleWriteUnlock
  <2>3. Done' = Done + 1 /\ Done \in Int
    BY <2>1, <2>2, LenProperties DEF Done, TypeOK
  <2>4. \A i \in 1..Len(wire) : wire[i] \in Nat
    BY ElementOfSeq DEF TypeOK
  <2> QED
    BY <2>2, <2>3, <2>4 DEF WireBehindFront
<1>6. CASE HandleWriteStart
  <2>1. wire' = wire /\ Done' = Done /\ ~Written
    BY <1>6, OnlyWrite DEF HandleWriteStart, Done, Written
  <2> QED
    BY <2>1 DEF WireBehindFront
<1>7. CASE UNCHANGED <<sendQue, accepted, ops, wire>>
  BY <1>7 DEF WireBehindFront, Written, Done
<1> QED
  BY <1>1, <1>3, <1>4, <1>5, <1>6, <1>7
     DEF Next, HandleWrite, Insert, ReceiveMessage, ReadFails, ReadInvalid, ReadStops, SendDropped,
         Unanswered, Discard, vars

\* Every step keeps a torn stream without a writer that could succeed.
LEMMA TornStep ==
  ASSUME TypeOK, SoleWriterOfFront, TornStops, [Next]_vars
  PROVE  TornStops' /\ (torn => UNCHANGED <<wire, torn>>)
<1>1. CASE Send
  <2> SUFFICES ASSUME torn PROVE TornStops' /\ UNCHANGED <<wire, torn>>
    BY <1>1, Zenon DEF Send, TornStops
  <2>1. sendQue # <<>> /\ ~StartsWrite(Len(sendQue))
    BY EmptySeq DEF TornStops, StartsWrite, TypeOK
  <2>2. ops' = ops /\ sendQue' # <<>>
    <3>1. ops' = ops
      BY <1>1, <2>1, Zenon DEF Send
    <3>2. sendQue' = Append(sendQue, accepted + 1)
      BY <1>1 DEF Send
    <3>3. sendQue \in Seq(Nat) /\ accepted + 1 \in Nat
      BY DEF TypeOK
    <3>4. sendQue' # <<>>
      BY <3>2, <3>3, AppendProperties
    <3> QED
      BY <3>1, <3>4
  <2>3. next' = next /\ wire' = wire /\ torn' = torn
    BY <1>1 DEF Send
  <2> QED
    BY <2>2, <2>3 DEF TornStops
<1>2. ASSUME NEW op \in ops, WriteCompletes(op)
      PROVE  ~torn /\ ~torn'
  BY <1>2, Zenon DEF WriteCompletes, TornStops
<1>3. ASSUME NEW op \in ops, WriteFails(op)
      PROVE  ~torn /\ TornStops'
  <2>1. ~torn
    BY <1>3, Zenon DEF WriteFails, TornStops
  <2>2. ops' = {[op EXCEPT !.result = "error"]} /\ sendQue' # <<>> /\ next' = 0
    BY <1>3, OnlyWrite DEF WriteFails, Complete
  <2>3. [op EXCEPT !.result = "error"].result = "error"
    BY DEF TypeOK, Op
  <2> QED
    BY <2>1, <2>2, <2>3 DEF TornStops
<1>4. ASSUME NEW op \in ops,
             HandleWriteLast(op) \/ HandleWriteNext(op) \/ HandleWriteUnlock(op)
      PROVE  ~torn /\ ~torn'
  <2>1. op.result = "ok" /\ torn' = torn
    BY <1>4 DEF HandleWriteLast, HandleWriteNext, HandleWriteUnlock
  <2> QED
    BY <2>1 DEF TornStops
<1>5. ASSUME NEW op \in ops, HandleWriteError(op)
      PROVE  TornStops' /\ UNCHANGED <<wire, torn>>
  BY <1>5 DEF HandleWriteError, TornStops
<1>6. CASE HandleWriteStart
  BY <1>6, Zenon DEF HandleWriteStart, TornStops
<1>7. CASE UNCHANGED <<sendQue, ops, next, wire, torn>>
  BY <1>7 DEF TornStops
<1> QED
  BY <1>1, <1>2, <1>3, <1>4, <1>5, <1>6, <1>7
     DEF Next, HandleWrite, Insert, ReceiveMessage, ReadFails, ReadInvalid, ReadStops, SendDropped,
         Unanswered, Discard,
         TornStops, vars

-----------------------------------------------------------------------------
(* The results.                                                            *)

LEMMA InvInit == Init => IInv
<1> SUFFICES ASSUME Init PROVE IInv
  OBVIOUS
<1>1. Len(sendQue) = 0 /\ Len(wire) = 0 /\ Done = 0
  <2>1. Len(sendQue) = 0 /\ Len(wire) = 0 /\ accepted = 0
    BY EmptySeq DEF Init
  <2> QED
    BY <2>1 DEF Done
<1>2. QueueIsRest /\ WireBehindFront /\ QueueBound
  BY <1>1, SendQueueAssumption DEF Init, QueueIsRest, WireBehindFront, QueueBound
<1>3. SoleWriterOfFront /\ TornStops /\ NeverStalls
  BY DEF Init, SoleWriterOfFront, TornStops, NeverStalls
<1> QED
  BY <1>2, <1>3, TypeInit DEF IInv

LEMMA InvStep ==
  ASSUME IInv, [Next]_vars
  PROVE  IInv'
BY TypeStep, QueueStep, SoleStep, WireStep, TornStep, StallStep DEF IInv

LEMMA Inductive == SafeSpec => []IInv
  BY InvInit, InvStep, PTL DEF SafeSpec

(***************************************************************************)
(* The types hold throughout.                                              *)
(***************************************************************************)
THEOREM TypeCorrect == SafeSpec => []TypeOK
<1>1. IInv => TypeOK
  BY DEF IInv
<1> QED
  BY <1>1, Inductive, PTL

(***************************************************************************)
(* Never two writes on one socket, and the buffer of the write is at the   *)
(* front of the queue for as long as it is in use.                         *)
(***************************************************************************)
THEOREM WriterSafe == SafeSpec => []SoleWriterOfFront
<1>1. IInv => SoleWriterOfFront
  BY DEF IInv
<1> QED
  BY <1>1, Inductive, PTL

(***************************************************************************)
(* An open session with replies in its queue always has someone to go on.  *)
(***************************************************************************)
THEOREM StallSafe == SafeSpec => []NeverStalls
<1>1. IInv => NeverStalls
  BY DEF IInv
<1> QED
  BY <1>1, Inductive, PTL

(***************************************************************************)
(* The replies on the stream are in the order of their Sends.              *)
(***************************************************************************)
THEOREM WireSafe == SafeSpec => []WireInOrder
<1>1. IInv => WireInOrder
  <2> SUFFICES ASSUME IInv, NEW i \in 1..Len(wire), NEW j \in 2..Len(sendQue)
               PROVE  wire[i] < sendQue[j]
    BY DEF IInv, WireBehindFront, WireInOrder
  <2>1. Len(sendQue) \in Nat /\ accepted \in Nat /\ wire[i] \in Nat
    BY LenProperties, ElementOfSeq DEF IInv, TypeOK
  <2>2. sendQue[j] = Done + j /\ Done \in Int
    BY <2>1 DEF IInv, QueueIsRest, Done
  <2>3. wire[i] <= Done + 1
    BY <2>1, <2>2 DEF IInv, WireBehindFront
  <2> QED
    BY <2>1, <2>2, <2>3
<1> QED
  BY <1>1, Inductive, PTL

(***************************************************************************)
(* The queue never holds more than one node above its limit.               *)
(***************************************************************************)
THEOREM BoundSafe == SafeSpec => []QueueBound
<1>1. IInv => QueueBound
  BY DEF IInv
<1> QED
  BY <1>1, Inductive, PTL

(***************************************************************************)
(* Nothing follows part of a frame on the stream.                          *)
(***************************************************************************)
THEOREM TornSafe == SafeSpec => NothingAfterTorn
<1>1. IInv /\ [Next]_vars => [torn => UNCHANGED <<wire, torn>>]_vars
  BY TornStep DEF IInv
<1> QED
  BY <1>1, Inductive, PTL DEF SafeSpec, NothingAfterTorn

-----------------------------------------------------------------------------
(* The session implements the outbox, as far as safety goes; a reliable    *)
(* one in logicServer, where every write is a whole node.                  *)

WritesWhole ==
  ~coServer => /\ next = 0
               /\ \A op \in ops : op.full = TRUE

\* Which of the nodes is written changes only where a write ends.
LEMMA WrittenNow ==
  ASSUME SoleWriterOfFront, NEW op \in ops
  PROVE  Written <=> op.result = "ok"
BY OnlyWrite DEF Written

\* Every step of logicServer keeps its writes whole.
LEMMA WholeStep ==
  ASSUME TypeOK, SoleWriterOfFront, WritesWhole, [Next]_vars
  PROVE  WritesWhole' /\ coServer' = coServer
<1>0. coServer' = coServer
  BY DEF Next, HandleWrite, Insert, ReceiveMessage, ReadFails, ReadInvalid, ReadStops, Send, SendDropped,
         Unanswered, Discard,
         WriteCompletes, WriteFails, HandleWriteLast, HandleWriteNext,
         HandleWriteUnlock, HandleWriteError, HandleWriteStart, vars
<1> SUFFICES ASSUME ~coServer
             PROVE  next' = 0 /\ \A op \in ops' : op.full = TRUE
  BY <1>0 DEF WritesWhole
<1>1. next = 0 /\ \A op \in ops : op.full = TRUE
  BY DEF WritesWhole
<1>2. CASE Send
  <2>1. next' = 0
    BY <1>1, <1>2 DEF Send
  <2>2. CASE StartsWrite(Len(sendQue))
    <3> DEFINE new == [id |-> started + 1, node |-> Head(sendQue'), full |-> TRUE,
                       result |-> "writing"]
    <3>1. ops' = ops \cup {new} /\ new.full = TRUE
      BY <1>2, <2>2 DEF Send, StartWrite
    <3> QED
      BY <1>1, <2>1, <3>1
  <2>3. CASE ~StartsWrite(Len(sendQue))
    BY <1>1, <1>2, <2>1, <2>3 DEF Send
  <2> QED
    BY <2>2, <2>3
<1>3. ASSUME NEW op \in ops, WriteCompletes(op) \/ WriteFails(op)
      PROVE  next' = 0 /\ \A op2 \in ops' : op2.full = TRUE
  <2>1. next' = 0 /\ \E result : ops' = {[op EXCEPT !.result = result]}
    BY <1>1, <1>3, OnlyWrite DEF WriteCompletes, WriteFails, Complete
  <2>2. \A result : [op EXCEPT !.result = result].full = op.full
    BY DEF TypeOK, Op
  <2> QED
    BY <1>1, <2>1, <2>2
<1>4. ASSUME NEW op \in ops, HandleWriteLast(op) \/ HandleWriteError(op)
      PROVE  next' = 0 /\ \A op2 \in ops' : op2.full = TRUE
  BY <1>1, <1>4 DEF HandleWriteLast, HandleWriteError
<1>5. ASSUME NEW op \in ops, HandleWriteNext(op)
      PROVE  next' = 0 /\ \A op2 \in ops' : op2.full = TRUE
  <2>1. next' = 0 /\ StartWrite({}, Head(sendQue'), TRUE)
    BY <1>1, <1>5, OnlyWrite DEF HandleWriteNext
  <2>2. PICK new : ops' = {new} /\ new.full = TRUE
    BY <2>1, StartOnly
  <2> QED
    BY <2>1, <2>2
<1>6. ~HandleWriteStart /\ \A op \in ops : ~HandleWriteUnlock(op)
  BY <1>1 DEF HandleWriteStart, HandleWriteUnlock
<1>7. CASE UNCHANGED <<ops, next>>
  BY <1>1, <1>7
<1> QED
  BY <1>2, <1>3, <1>4, <1>5, <1>6, <1>7
     DEF Next, HandleWrite, Insert, ReceiveMessage, ReadFails, ReadInvalid, ReadStops, SendDropped,
         Unanswered, Discard, vars

\* The outbox's waiting queue is never longer than _send_que.
LEMMA WaitingNow ==
  ASSUME TypeOK, SoleWriterOfFront
  PROVE  /\ Waiting \in Seq(Nat)
         /\ Len(Waiting) <= Len(sendQue)
<1>1. Len(sendQue) \in Nat
  BY LenProperties DEF TypeOK
<1>2. CASE Written
  <2>1. sendQue # <<>>
    BY <1>2, OnlyWrite DEF Written
  <2>2. Waiting \in Seq(Nat) /\ Len(Waiting) = Len(sendQue) - 1
    BY <1>2, <2>1, HeadTailProperties DEF Waiting, TypeOK
  <2> QED
    BY <1>1, <2>2
<1>3. CASE ~Written
  BY <1>1, <1>3 DEF Waiting, TypeOK
<1> QED
  BY <1>2, <1>3

\* A step that leaves both sequences alone stutters or breaks the outbox.
LEMMA OnlyBreaks ==
  ASSUME UNCHANGED <<Waiting, wire, accepted, coServer>>, Broken => Broken'
  PROVE  [Out!Next]_(Out!outboxVars)
<1>1. Broken \in BOOLEAN /\ Broken' \in BOOLEAN
  BY DEF Broken
<1>2. CASE Broken' = Broken
  BY <1>2 DEF Out!outboxVars
<1>3. CASE ~Broken /\ Broken' = TRUE
  BY <1>3 DEF Out!Next, Out!Break
<1> QED
  BY <1>1, <1>2, <1>3

\* Nothing but HandleWriteError removes a failed write, and it closes.
LEMMA StaysBroken ==
  ASSUME TypeOK, SoleWriterOfFront, [Next]_vars
  PROVE  Broken => Broken'
<1>1. CASE Send
  <2>1. open' => open
    BY <1>1, Zenon DEF Send
  <2>2. ops \subseteq ops'
    BY <1>1 DEF Send, StartWrite
  <2> QED
    BY <2>1, <2>2 DEF Broken
<1>2. ASSUME NEW op \in ops, WriteCompletes(op) \/ WriteFails(op)
      PROVE  Broken => Broken'
  <2>1. open' = open /\ op.result = "writing"
    BY <1>2 DEF WriteCompletes, WriteFails
  <2>2. \A op2 \in ops : op2.result = "writing"
    BY <2>1, OnlyWrite
  <2> QED
    BY <2>1, <2>2 DEF Broken
<1>3. ASSUME NEW op \in ops, HandleWriteError(op)
      PROVE  Broken'
  BY <1>3 DEF HandleWriteError, Broken
<1>4. ASSUME NEW op \in ops,
             HandleWriteLast(op) \/ HandleWriteNext(op) \/ HandleWriteUnlock(op)
      PROVE  Broken => Broken'
  <2>1. op.result = "ok"
    BY <1>4 DEF HandleWriteLast, HandleWriteNext, HandleWriteUnlock
  <2>2. \A op2 \in ops : op2.result = "ok"
    BY <2>1, OnlyWrite
  <2>3. open' => open
    BY <1>4, Zenon DEF HandleWriteLast, HandleWriteNext, HandleWriteUnlock
  <2> QED
    BY <2>2, <2>3 DEF Broken
<1>5. CASE HandleWriteStart
  BY <1>5 DEF HandleWriteStart, StartWrite, Broken
<1>6. CASE ReadFails
  BY <1>6 DEF ReadFails, Broken
<1>7. CASE ReadInvalid \/ ReadStops \/ Discard
  <2>1. ops' = ops /\ (open' => open)
    BY <1>7, Zenon DEF ReadInvalid, ReadStops, Discard
  <2> QED
    BY <2>1 DEF Broken
<1>8. CASE UNCHANGED <<ops, open>>
  BY <1>8 DEF Broken
<1> QED
  BY <1>1, <1>2, <1>3, <1>4, <1>5, <1>6, <1>7, <1>8
     DEF Next, HandleWrite, Insert, ReceiveMessage, SendDropped, Unanswered, vars

LEMMA SendImplementsAccept ==
  ASSUME TypeOK, SoleWriterOfFront, NeverStalls, Send
  PROVE  Out!Accept
<1>1. Len(Waiting) < MaxSendQue + 1
  BY WaitingNow, LenProperties, SendQueueAssumption DEF Send, Accepts, TypeOK
<1>2. UNCHANGED <<wire, coServer>> /\ accepted' = accepted + 1
  BY DEF Send
<1>3. CASE sendQue = <<>>
  <2>1. ops = {} /\ StartsWrite(Len(sendQue))
    BY <1>3, EmptySeq DEF SoleWriterOfFront, StartsWrite
  <2> DEFINE new == [id |-> started + 1, node |-> Head(sendQue'), full |-> TRUE,
                     result |-> "writing"]
  <2>2. ops' = {new} /\ new.result = "writing"
    BY <2>1 DEF Send, StartWrite
  <2>3. ~Written /\ ~Written'
    BY <2>1, <2>2 DEF Written
  <2>4. Waiting' = Append(Waiting, accepted + 1)
    BY <1>3, <2>3 DEF Send, Waiting
  <2>5. open' = open
    <3>1. Referenced'
      BY <2>2 DEF Referenced
    <3> QED
      BY <3>1, Zenon DEF Send, TypeOK
  <2>6. Broken' <=> Broken
    BY <2>1, <2>2, <2>5 DEF Broken
  <2> QED
    BY <1>1, <1>2, <2>4, <2>6, WaitingNow DEF Out!Accept, Broken
<1>4. CASE sendQue # <<>>
  <2>1. ops' = ops
    <3>1. ~StartsWrite(Len(sendQue))
      BY <1>4, EmptySeq DEF StartsWrite, TypeOK
    <3> QED
      BY <3>1 DEF Send
  <2>2. Written' <=> Written
    BY <2>1 DEF Written
  <2>3. Waiting' = Append(Waiting, accepted + 1)
    BY <1>4, <2>2, HeadTailAppend DEF Send, Waiting, TypeOK
  <2>4. open' <=> open
    <3>1. open => Referenced'
      BY <1>4, <2>1, Zenon DEF NeverStalls, Referenced, Send
    <3> QED
      BY <3>1, Zenon DEF Send
  <2>5. Broken' <=> Broken
    BY <2>1, <2>4 DEF Broken
  <2> QED
    BY <1>1, <1>2, <2>3, <2>5, WaitingNow DEF Out!Accept, Broken
<1> QED
  BY <1>3, <1>4

LEMMA CompletionImplementsTransmit ==
  ASSUME TypeOK, SoleWriterOfFront, WritesWhole, NEW op \in ops, WriteCompletes(op)
  PROVE  Out!Transmit \/ Out!Lose
<1>1. ~Written /\ op.result = "writing"
  BY WrittenNow DEF WriteCompletes
<1>2. UNCHANGED <<open, accepted, coServer>>
  BY DEF WriteCompletes
<1>3. ops' = {[op EXCEPT !.result = "ok"]}
  BY OnlyWrite DEF WriteCompletes, Complete
<1>4. [op EXCEPT !.result = "ok"].result = "ok"
  BY DEF TypeOK, Op
<1>5. Written'
  BY <1>3, <1>4 DEF Written
<1>6. Waiting = sendQue /\ Waiting' = Tail(sendQue)
  BY <1>1, <1>5 DEF Waiting, WriteCompletes
<1>7. Broken = ~open /\ Broken' = ~open
  <2>1. \A op2 \in ops : op2.result # "error"
    BY <1>1, OnlyWrite
  <2>2. \A op2 \in ops' : op2.result # "error"
    BY <1>3, <1>4
  <2> QED
    BY <1>2, <2>1, <2>2, Zenon DEF Broken
<1>8. sendQue # <<>> /\ op.node = Head(sendQue)
  BY OnlyWrite
<1>9. CASE op.full
  <2>1. open /\ wire' = Append(wire, Head(sendQue))
    BY <1>8, <1>9 DEF WriteCompletes
  <2> QED
    BY <1>2, <1>6, <1>7, <1>8, <2>1 DEF Out!Transmit
<1>10. CASE ~op.full
  <2>1. coServer /\ wire' = wire
    BY <1>10, Zenon DEF WriteCompletes, WritesWhole
  <2> QED
    BY <1>2, <1>6, <1>7, <1>8, <2>1 DEF Out!Lose
<1> QED
  BY <1>9, <1>10

\* The handler of a complete write takes out what the outbox has sent already.
LEMMA PopStutters ==
  ASSUME TypeOK, SoleWriterOfFront, NEW op \in ops,
         HandleWriteLast(op) \/ HandleWriteNext(op) \/ HandleWriteUnlock(op)
  PROVE  UNCHANGED <<Waiting, wire, accepted>>
<1>1. Waiting = Tail(sendQue)
  BY DEF HandleWriteLast, HandleWriteNext, HandleWriteUnlock, Written, Waiting
<1>2. CASE HandleWriteLast(op)
  <2>1. ~Written' /\ UNCHANGED <<wire, accepted>> /\ sendQue' = <<>>
    BY <1>2, OnlyWrite DEF HandleWriteLast, Written
  <2>2. Tail(sendQue) \in Seq(Nat) /\ Len(Tail(sendQue)) = 0
    BY <1>2, OnlyWrite, HeadTailProperties DEF HandleWriteLast, TypeOK
  <2>3. Tail(sendQue) = <<>>
    BY <2>2, EmptySeq
  <2> QED
    BY <1>1, <2>1, <2>3 DEF Waiting
<1>3. CASE HandleWriteNext(op)
  <2>1. StartWrite({}, Head(sendQue'), TRUE)
    BY <1>3, OnlyWrite DEF HandleWriteNext
  <2>2. PICK new : ops' = {new} /\ new.result = "writing"
    BY <2>1, StartOnly
  <2>3. ~Written'
    BY <2>2 DEF Written
  <2> QED
    BY <1>1, <1>3, <2>3 DEF HandleWriteNext, Waiting
<1>4. CASE HandleWriteUnlock(op)
  <2>1. ~Written'
    BY <1>4, OnlyWrite DEF HandleWriteUnlock, Written
  <2> QED
    BY <1>1, <1>4, <2>1 DEF HandleWriteUnlock, Waiting
<1> QED
  BY <1>2, <1>3, <1>4

\* No write is complete before and after a failure or a start.
LEMMA UnwrittenStutters ==
  ASSUME TypeOK, SoleWriterOfFront,
         \/ \E op \in ops : WriteFails(op) \/ HandleWriteError(op)
         \/ HandleWriteStart
  PROVE  UNCHANGED <<Waiting, wire, accepted>>
<1>1. UNCHANGED <<sendQue, wire, accepted>>
  BY DEF WriteFails, HandleWriteError, HandleWriteStart
<1>2. ASSUME NEW op \in ops, WriteFails(op)
      PROVE  ~Written /\ ~Written'
  <2>1. ops' = {[op EXCEPT !.result = "error"]}
    BY <1>2, OnlyWrite DEF WriteFails, Complete
  <2>2. [op EXCEPT !.result = "error"].result = "error"
    BY DEF TypeOK, Op
  <2> QED
    BY <1>2, <2>1, <2>2, WrittenNow DEF WriteFails, Written
<1>3. ASSUME NEW op \in ops, HandleWriteError(op)
      PROVE  ~Written /\ ~Written'
  <2>1. ops' = {} /\ op.result = "error"
    BY <1>3, OnlyWrite DEF HandleWriteError
  <2> QED
    BY <2>1, WrittenNow DEF Written
<1>4. CASE HandleWriteStart
  <2>1. ops = {} /\ StartWrite({}, next, FALSE)
    BY <1>4 DEF HandleWriteStart, SoleWriterOfFront
  <2>2. PICK new : ops' = {new} /\ new.result = "writing"
    BY <2>1, StartOnly
  <2>3. ~Written /\ ~Written'
    BY <2>1, <2>2 DEF Written
  <2> QED
    BY <1>1, <2>3 DEF Waiting
<1> QED
  BY <1>1, <1>2, <1>3, <1>4 DEF Waiting

\* Both hold at the start.
LEMMA OutboxInit == Init => WritesWhole /\ Out!Init
<1> SUFFICES ASSUME Init PROVE WritesWhole /\ Out!Init
  OBVIOUS
<1>1. /\ sendQue = <<>> /\ wire = <<>> /\ accepted = 0
      /\ ops = {} /\ next = 0 /\ open /\ coServer \in BOOLEAN
  BY DEF Init
<1>2. ~Written /\ Broken = FALSE
  BY <1>1 DEF Written, Broken
<1> QED
  BY <1>1, <1>2 DEF WritesWhole, Out!Init, Waiting

\* Every step of the session is one of the outbox, or none.
LEMMA OutboxStep ==
  ASSUME IInv, WritesWhole, [Next]_vars
  PROVE  [Out!Next]_(Out!outboxVars)
<1> USE DEF IInv
<1>1. CASE Send
  BY <1>1, SendImplementsAccept DEF Out!Next
<1>2. ASSUME NEW op \in ops, WriteCompletes(op)
      PROVE  Out!Next
  BY <1>2, CompletionImplementsTransmit DEF Out!Next
<1>3. CASE UNCHANGED <<Waiting, wire, accepted>>
  BY <1>3, StaysBroken, OnlyBreaks, WholeStep
<1>4. CASE \E op \in ops :
             HandleWriteLast(op) \/ HandleWriteNext(op) \/ HandleWriteUnlock(op)
  BY <1>3, <1>4, PopStutters
<1>5. CASE \/ \E op \in ops : WriteFails(op) \/ HandleWriteError(op)
           \/ HandleWriteStart
  BY <1>3, <1>5, UnwrittenStutters
<1>6. CASE UNCHANGED <<sendQue, ops, wire, accepted>>
  BY <1>3, <1>6 DEF Waiting, Written
<1> QED
  BY <1>1, <1>2, <1>4, <1>5, <1>6
     DEF Next, HandleWrite, Insert, ReceiveMessage, ReadFails, ReadInvalid, ReadStops, SendDropped,
         Unanswered, Discard, vars

(***************************************************************************)
(* Every behaviour of a session's queue and write chain is a behaviour of  *)
(* the outbox, a reliable one in logicServer: the refinement the run       *)
(* checks with fairness, proved for its safety part.                       *)
(***************************************************************************)
THEOREM OutboxSafe == SafeSpec => Out!SafeSpec
<1>1. IInv /\ WritesWhole /\ [Next]_vars => WritesWhole'
  BY WholeStep DEF IInv
<1> QED
  BY <1>1, OutboxInit, OutboxStep, Inductive, PTL DEF SafeSpec, Out!SafeSpec

-----------------------------------------------------------------------------
(* The conversation.                                                       *)

\* What the reader of either server keeps.
ReaderInv ==
  /\ {coServer, open, reading} \subseteq BOOLEAN
  /\ entry \in Entries
  /\ ~open => Cleared
  /\ reading <=> coroutine \notin {"ended", "lost"}
  /\ coroutine = "leaving" => ~open
  /\ ~coServer => coroutine \in {"head", "ended", "astray", "lost"}
  /\ posted \in Nat
  /\ sent \in Seq(Frames)
  /\ InStep => posted <= Len(sent)
  /\ coroutine \in {"got head", "body", "got body"} => posted < Len(sent)
  /\ EndedIsCleared

WireCounted == Len(wire) <= IF Written THEN Done + 1 ELSE Done

PatientInv ==
  patient /\ InStep => /\ Len(sent) <= Len(wire) + 1
                       /\ accepted + backlog = posted
                       /\ \A i \in 1..Len(sent) : sent[i] \in Requests

-----------------------------------------------------------------------------
(* The steps of a conversation.                                            *)

\* The kinds of steps, as the proofs tell them apart.
Sends == \E f \in Frames : ClientSends(f)

Moves ==
  /\ UNCHANGED <<vars, sent>>
  /\ coroutine' = coroutine \/ (coServer /\ coroutine \in {"head", "got head", "body", "got body"})
  /\ coroutine' = coroutine \/ coroutine' \in {"got head", "body", "got body", "failed"}
  /\ coroutine' \in {"got head", "body", "got body"} => posted < Len(sent)

Strays ==
  /\ UNCHANGED <<vars, sent>>
  /\ coroutine \in {"head", "got head"}
  /\ coroutine' = "astray"

Ends ==
  /\ ReadFails \/ ReadInvalid
  /\ \/ InStep /\ coroutine' = "ended"
     \/ ~InStep /\ coroutine' = "lost"
  /\ sent' = sent

Throws ==
  /\ ~coServer
  /\ ReadStops
  /\ \/ InStep /\ coroutine' = "ended" /\ Arrived /\ ValidHead(Current) /\ Current.len < -1
     \/ ~InStep /\ coroutine' = "lost"
  /\ sent' = sent

Posts ==
  /\ ReceiveMessage
  /\ InStep
  /\ posted < Len(sent)
  /\ coroutine' \in IF coServer THEN {"head", "leaving"} ELSE {coroutine}
  /\ ValidHead(Current)
  /\ IF coServer THEN coroutine = "got body" /\ Current.len # 0 ELSE Current.len >= 0
  /\ coServer => (coroutine' = "leaving" <=> ~open)
  /\ sent' = sent

Garbles ==
  /\ ReceiveMessage
  /\ ~coServer
  /\ coroutine = "astray"
  /\ UNCHANGED <<sent, coroutine>>

Answers == Inserted \/ Reply \/ WriteEnds \/ WriteHandled

\* What the coroutine knows of the frame whose body it reads.
CoroutineInv ==
  /\ hungUp \in BOOLEAN
  /\ coroutine \in {"head", "got head", "body", "got body", "leaving", "failed", "ended",
                   "astray", "lost"}
  /\ coroutine \in {"body", "got body"} => ValidHead(Current) /\ Current.len >= 0

\* Each step is of one of these kinds.
LEMMA Kinds ==
  ASSUME ReaderInv, CoroutineInv, [ConversationNext]_conversationVars
  PROVE  /\ patient' = patient
         /\ \/ Sends
            \/ Moves
            \/ Strays
            \/ Ends
            \/ Throws
            \/ Posts
            \/ Garbles
            \/ Leave
            \/ Answers
<1>1. patient' = patient
  BY DEF ConversationNext, conversationVars, ClientSends
<1>2. SUFFICES \/ Sends
               \/ Moves
               \/ Strays
               \/ Ends
               \/ Throws
               \/ Posts
               \/ Garbles
               \/ Leave
               \/ Answers
  BY <1>1
<1>3. Len(sent) \in Nat /\ (Arrived <=> posted < Len(sent))
  BY LenProperties DEF ReaderInv, Arrived
<1>4. CASE HangUp \/ UNCHANGED coVars
  BY <1>4 DEF HangUp, coVars, readVars, Moves, ReaderInv
<1>5. CASE coServer /\ AsyncRead
  BY <1>3, <1>5 DEF AsyncRead, AsyncReadCompletes, EmptyReadCompletes, AsyncReadFails, Moves, ReaderInv
<1>6. CASE coServer /\ Resume
  <2>1. CASE HeadValid
    BY <1>6, <2>1 DEF HeadValid, Moves, ReaderInv
  <2>2. CASE HeadInvalid \/ HeadThrows \/ BodyEmpty \/ ReadThrows
    BY <2>2 DEF HeadInvalid, HeadThrows, BodyEmpty, ReadThrows, InStep, Ends
  <2>3. CASE BodyPosted
    <3>1. ReceiveMessage /\ sent' = sent /\ coroutine = "got body" /\ Current.len # 0
      BY <2>3 DEF BodyPosted
    <3>2. InStep /\ posted < Len(sent) /\ ValidHead(Current)
      BY <3>1 DEF InStep, ReaderInv, CoroutineInv
    <3>3. coroutine' \in {"head", "leaving"} /\ (coroutine' = "leaving" <=> ~open)
      BY <2>3 DEF BodyPosted
    <3> QED
      BY <1>6, <3>1, <3>2, <3>3 DEF Posts
  <2>4. CASE HeadOverruns
    BY <2>4 DEF HeadOverruns, Strays
  <2>5. CASE AstrayReadFails
    BY <2>5 DEF AstrayReadFails, InStep, Ends
  <2> QED
    BY <1>6, <2>1, <2>2, <2>3, <2>4, <2>5 DEF Resume
<1>7. CASE HandleRead
  <2>1. CASE HandleReadPosts
    BY <1>3, <2>1 DEF HandleReadPosts, Handles, readVars, Posts, ReaderInv
  <2>2. CASE HandleReadInvalid \/ HandleReadError
    BY <2>2 DEF HandleReadInvalid, HandleReadError, Handles, Ends
  <2>3. CASE HandleReadThrows
    BY <2>3 DEF HandleReadThrows, Handles, Throws
  <2>4. CASE HandleReadOverruns \/ HandleReadCut
    BY <2>4 DEF HandleReadOverruns, HandleReadCut, Handles, InStep, Strays, ReaderInv
  <2> QED
    BY <1>7, <2>1, <2>2, <2>3, <2>4 DEF HandleRead
<1>8. CASE HandleReadAstray
  BY <1>8 DEF HandleReadAstray, InStep, Garbles, Ends, Throws
<1> QED
  BY <1>4, <1>5, <1>6, <1>7, <1>8 DEF ConversationNext, conversationVars, Sends, Answers

\* What the steps of the sending half, and the insert, do to the reader.
LEMMA AnswersKeep ==
  ASSUME ReaderInv, Answers
  PROVE  /\ Next
         /\ UNCHANGED <<coServer, posted, reading, sent, coroutine>>
         /\ open' \in BOOLEAN
         /\ entry' \in Entries
         /\ ~open' => Cleared'
         /\ Cleared => Cleared'
         /\ open' => open
<1> USE DEF ReaderInv
<1>1. CASE Reply
  <2>1. CASE Send
    BY <1>1, <2>1, Zenon DEF Reply, Send, Referenced, Cleared, readVars, Next
  <2>2. CASE SendDropped \/ Unanswered
    <3>1. Discard /\ Next
      BY <2>2, Zenon DEF SendDropped, Unanswered, Next
    <3> QED
      BY <1>1, <3>1, Zenon DEF Reply, Discard, Referenced, Cleared, readVars
  <2> QED
    BY <1>1, <2>1, <2>2 DEF Reply
<1>2. CASE WriteEnds
  <2> PICK op \in ops : WriteCompletes(op) \/ WriteFails(op)
    BY <1>2 DEF WriteEnds
  <2>1. Next
    BY DEF Next
  <2>2. UNCHANGED <<coServer, posted, open, reading, entry>>
    BY DEF WriteCompletes, WriteFails
  <2> QED
    BY <1>2, <2>1, <2>2 DEF WriteEnds, readVars, Cleared
<1>3. CASE WriteHandled
  <2>1. CASE HandleWriteStart
    BY <1>3, <2>1, Zenon DEF WriteHandled, HandleWriteStart, Cleared, readVars, Next
  <2>2. ASSUME NEW op \in ops, HandleWrite(op)
        PROVE  /\ UNCHANGED <<coServer, posted, reading>>
               /\ open' \in BOOLEAN
               /\ entry' \in Entries
               /\ ~open' => Cleared'
               /\ Cleared => Cleared'
               /\ open' => open
               /\ Next
    <3>1. Next
      BY <2>2 DEF Next
    <3>2. CASE HandleWriteLast(op)
      BY <3>1, <3>2, Zenon DEF HandleWriteLast, Referenced, Cleared
    <3>3. CASE HandleWriteNext(op)
      BY <3>1, <3>3, Zenon DEF HandleWriteNext, Cleared
    <3>4. CASE HandleWriteUnlock(op)
      BY <3>1, <3>4, Zenon DEF HandleWriteUnlock, Cleared
    <3>5. CASE HandleWriteError(op)
      BY <3>1, <3>5, ErasedCleared DEF HandleWriteError, Cleared
    <3> QED
      BY <2>2, <3>2, <3>3, <3>4, <3>5 DEF HandleWrite
  <2>3. sent' = sent /\ coroutine' = coroutine
    BY <1>3 DEF WriteHandled, readVars
  <2> QED
    BY <1>3, <2>1, <2>2, <2>3 DEF WriteHandled
<1>4. CASE Inserted
  BY <1>4 DEF Inserted, Insert, Entries, Cleared, readVars, Next
<1> QED
  BY <1>1, <1>2, <1>3, <1>4 DEF Answers

\* What a read that ends the session leaves behind.
LEMMA EndsKeep ==
  ASSUME ReaderInv, Ends
  PROVE  /\ Next
         /\ UNCHANGED <<coServer, posted, sent>>
         /\ reading' = FALSE
         /\ entry' \in Entries
         /\ Cleared'
         /\ open' \in BOOLEAN
<1>1. CASE ReadFails
  BY <1>1, ErasedCleared DEF ReadFails, Ends, Cleared, Next
<1>2. CASE ReadInvalid
  <2>1. entry' \in Entries /\ Cleared'
    BY <1>2, ErasedCleared DEF ReadInvalid, Cleared
  <2> QED
    BY <1>2, <2>1, Zenon DEF ReadInvalid, Ends, ReaderInv, Referenced, Next
<1> QED
  BY <1>1, <1>2 DEF Ends

\* An exception in HandleRead.
LEMMA ThrowsKeep ==
  ASSUME ReaderInv, Throws
  PROVE  /\ Next
         /\ UNCHANGED <<coServer, posted, sent, entry>>
         /\ reading' = FALSE
         /\ open' \in BOOLEAN
         /\ ~open' => Cleared'
BY Zenon DEF Throws, ReadStops, ReaderInv, Referenced, Cleared, Next

\* A coroutine that finds the session closed.
LEMMA LeaveKeeps ==
  ASSUME ReaderInv, Leave
  PROVE  /\ Next
         /\ UNCHANGED <<coServer, posted, sent, entry>>
         /\ reading' = FALSE
         /\ ~open /\ open' = FALSE
         /\ coroutine' = "ended"
BY Zenon DEF Leave, ReadStops, ReaderInv, Next

\* A session out of step stays so.
LEMMA StepLost ==
  ASSUME ReaderInv, CoroutineInv, [ConversationNext]_conversationVars, InStep'
  PROVE  InStep
<1>1. CASE Sends
  BY <1>1 DEF Sends, ClientSends, PeerSend, InStep
<1>2. CASE Answers
  BY <1>2, AnswersKeep DEF InStep
<1> QED
  BY <1>1, <1>2, Kinds DEF InStep, Moves, Strays, Ends, Throws, Posts, Garbles, Leave

-----------------------------------------------------------------------------
(* The reader.                                                             *)

LEMMA ReaderStep ==
  ASSUME ReaderInv, CoroutineInv, [ConversationNext]_conversationVars
  PROVE  ReaderInv'
<1>1. sent \in Seq(Frames) /\ posted \in Nat
  BY DEF ReaderInv
<1>2. Len(sent) \in Nat /\ (Arrived <=> posted < Len(sent))
  BY <1>1, LenProperties DEF Arrived
<1>3. CASE Sends
  <2> PICK f \in Frames : ClientSends(f)
    BY <1>3 DEF Sends
  <2>1. sent' = Append(sent, f) /\ UNCHANGED <<vars, coroutine>>
    BY DEF ClientSends, PeerSend
  <2>2. /\ sent' \in Seq(Frames)
        /\ Len(sent') = Len(sent) + 1
        /\ \A i \in 1..Len(sent) : sent'[i] = sent[i]
    BY <1>1, <2>1, AppendProperties
  <2>3. posted' = posted
    BY <2>1 DEF vars
  <2>4. Arrived => Arrived' /\ Current' = Current
    <3> SUFFICES ASSUME Arrived PROVE Arrived' /\ Current' = Current
      OBVIOUS
    <3>1. posted + 1 \in 1..Len(sent) /\ posted < Len(sent')
      BY <1>1, <1>2, <2>2
    <3>2. Current' = Current
      BY <2>2, <2>3, <3>1 DEF Current
    <3> QED
      BY <2>3, <3>1, <3>2 DEF Arrived
  <2>5. EndedIsCleared'
    BY <2>1, <2>4 DEF EndedIsCleared, InStep, Cleared, ValidHead, vars, ReaderInv
  <2>6. /\ posted <= Len(sent) => posted' <= Len(sent')
        /\ posted < Len(sent) => posted' < Len(sent')
    BY <1>1, <1>2, <2>2, <2>3
  <2> QED
    BY <2>1, <2>2, <2>5, <2>6 DEF vars, InStep, Cleared, ReaderInv
<1>4. CASE Moves
  BY <1>4 DEF Moves, vars, EndedIsCleared, InStep, Cleared, Arrived, Current, ReaderInv
<1>5. CASE Strays
  BY <1>5 DEF Strays, vars, EndedIsCleared, InStep, Cleared, ReaderInv
<1>6. CASE Ends
  <2>1. coroutine' \in {"ended", "lost"} /\ (InStep' => InStep)
    BY <1>6 DEF Ends, InStep
  <2> QED
    BY <1>6, <2>1, EndsKeep DEF EndedIsCleared, ReaderInv
<1>7. CASE Posts
  <2>1. /\ UNCHANGED <<coServer, open, reading, entry, sent>>
        /\ reading
        /\ posted' = posted + 1
        /\ posted < Len(sent)
    BY <1>7 DEF Posts, ReceiveMessage
  <2>2. posted' \in Nat /\ posted' <= Len(sent')
    BY <1>1, <1>2, <2>1
  <2>3. /\ coroutine' \notin {"ended", "lost"}
        /\ coroutine' \notin {"got head", "body", "got body"}
        /\ coroutine' = "leaving" => ~open
        /\ ~coServer => coroutine' \in {"head", "ended", "astray", "lost"}
    BY <1>7, <2>1 DEF Posts, ReaderInv
  <2> QED
    BY <2>1, <2>2, <2>3 DEF EndedIsCleared, Cleared, ReaderInv
<1>8. CASE Garbles
  <2>1. /\ UNCHANGED <<coServer, open, reading, entry, sent, coroutine>>
        /\ reading
        /\ posted' = posted + 1
        /\ coroutine = "astray"
    BY <1>8 DEF Garbles, ReceiveMessage
  <2> QED
    BY <1>1, <2>1 DEF EndedIsCleared, InStep, Cleared, ReaderInv
<1>9. CASE Leave
  <2>1. Cleared /\ Cleared'
    BY <1>9, LeaveKeeps DEF Cleared, ReaderInv
  <2>2. InStep /\ InStep'
    BY <1>9, LeaveKeeps DEF Leave, InStep
  <2> QED
    BY <1>9, <2>1, <2>2, LeaveKeeps DEF EndedIsCleared, ReaderInv
<1>10. CASE Throws
  <2>1. /\ ~coServer
        /\ coroutine' \in {"ended", "lost"} /\ (InStep' => InStep)
        /\ InStep => Arrived /\ ValidHead(Current) /\ Current.len < -1
    BY <1>10 DEF Throws, InStep
  <2>2. EndedIsCleared'
    BY <1>10, <2>1, ThrowsKeep DEF EndedIsCleared, Arrived, Current, ValidHead
  <2>3. UNCHANGED <<coServer, posted, sent, entry>>
    BY <1>10, ThrowsKeep
  <2> QED
    BY <1>10, <2>1, <2>2, <2>3, ThrowsKeep DEF ReaderInv
<1>11. CASE Answers
  <2>1. /\ UNCHANGED <<coServer, posted, reading, sent, coroutine>>
        /\ open' \in BOOLEAN
        /\ entry' \in Entries
        /\ ~open' => Cleared'
        /\ Cleared => Cleared'
        /\ open' => open
    BY <1>11, AnswersKeep
  <2>2. EndedIsCleared'
    BY <2>1 DEF EndedIsCleared, InStep, Arrived, Current, ValidHead, ReaderInv
  <2> QED
    BY <2>1, <2>2 DEF InStep, ReaderInv
<1> QED
  BY <1>3, <1>4, <1>5, <1>6, <1>7, <1>8, <1>9, <1>10, <1>11, Kinds

LEMMA HungUpStep ==
  ASSUME hungUp \in BOOLEAN, [ConversationNext]_conversationVars
  PROVE  hungUp' \in BOOLEAN
<1>1. CASE \E f \in Frames : ClientSends(f)
  BY <1>1 DEF ClientSends, PeerSend
<1>2. CASE HangUp \/ UNCHANGED coVars
  BY <1>2 DEF HangUp, coVars, readVars
<1>3. CASE HandleRead \/ HandleReadAstray
  BY <1>3 DEF HandleRead, HandleReadPosts, HandleReadInvalid, HandleReadThrows, HandleReadOverruns,
     HandleReadCut, HandleReadError, HandleReadAstray, readVars
<1>4. CASE AsyncRead \/ Resume
  BY <1>4 DEF AsyncRead, AsyncReadCompletes, EmptyReadCompletes, AsyncReadFails, Resume, HeadValid, HeadInvalid,
     HeadThrows, HeadOverruns, AstrayReadFails, BodyEmpty, BodyPosted, Leave, ReadThrows
<1>5. CASE Answers
  BY <1>5 DEF Answers, Inserted, Reply, WriteEnds, WriteHandled, readVars
<1> QED
  BY <1>1, <1>2, <1>3, <1>4, <1>5 DEF ConversationNext, conversationVars, Answers

\* A step that begins to read a body, or goes on with it.
LEMMA BodyStep ==
  ASSUME ReaderInv, CoroutineInv, [ConversationNext]_conversationVars,
         coroutine' \in {"body", "got body"}, ~Sends
  PROVE  UNCHANGED <<sent, posted>> /\ ValidHead(Current) /\ Current.len >= 0
<1> USE DEF CoroutineInv
<1>1. CASE HangUp \/ UNCHANGED coVars
  BY <1>1 DEF HangUp, coVars, readVars, vars
<1>2. CASE HandleRead \/ HandleReadAstray
  <2>1. ~coServer
    BY <1>2 DEF HandleRead, HandleReadPosts, HandleReadInvalid, HandleReadThrows, HandleReadOverruns,
       HandleReadCut, HandleReadError, HandleReadAstray, Handles
  <2>2. coroutine' \in {coroutine, "ended", "astray", "lost"}
    BY <1>2 DEF HandleRead, HandleReadPosts, HandleReadInvalid, HandleReadThrows, HandleReadOverruns,
       HandleReadCut, HandleReadError, HandleReadAstray, readVars
  <2> QED
    BY <2>1, <2>2 DEF ReaderInv
<1>3. CASE AsyncRead
  BY <1>3 DEF AsyncRead, AsyncReadCompletes, EmptyReadCompletes, AsyncReadFails, vars
<1>4. CASE Resume
  BY <1>4 DEF Resume, HeadValid, HeadInvalid, HeadThrows, HeadOverruns, AstrayReadFails, BodyEmpty, BodyPosted,
     Leave, ReadThrows, vars
<1>5. CASE Answers
  <2>1. UNCHANGED <<posted, sent, coroutine>>
    BY <1>5, AnswersKeep
  <2> QED
    BY <2>1
<1> QED
  BY <1>1, <1>2, <1>3, <1>4, <1>5 DEF ConversationNext, conversationVars, Answers, Sends

LEMMA CoroutineStep ==
  ASSUME ReaderInv, CoroutineInv, [ConversationNext]_conversationVars
  PROVE  CoroutineInv'
<1>1. hungUp' \in BOOLEAN
  BY HungUpStep DEF CoroutineInv
<1>2. coroutine' \in {"head", "got head", "body", "got body", "leaving", "failed", "ended",
                     "astray", "lost"}
  <2>1. CASE Sends
    BY <2>1 DEF Sends, ClientSends, PeerSend, CoroutineInv
  <2>2. CASE Moves
    BY <2>2 DEF Moves, CoroutineInv
  <2>3. CASE Strays \/ Ends \/ Leave \/ Throws
    BY <2>3 DEF Strays, Ends, Leave, Throws
  <2>4. CASE Posts \/ Garbles
    BY <2>4 DEF Posts, Garbles, CoroutineInv
  <2>5. CASE Answers
    BY <2>5, AnswersKeep DEF CoroutineInv
  <2> QED
    BY <2>1, <2>2, <2>3, <2>4, <2>5, Kinds
<1>3. ASSUME coroutine' \in {"body", "got body"} PROVE ValidHead(Current') /\ Current'.len >= 0
  <2>1. CASE Sends
    <3> PICK f \in Frames : ClientSends(f)
      BY <2>1 DEF Sends
    <3>1. sent' = Append(sent, f) /\ UNCHANGED <<posted, coroutine>>
      BY DEF ClientSends, PeerSend, vars
    <3>2. sent \in Seq(Frames) /\ Len(sent) \in Nat /\ posted \in Nat /\ posted < Len(sent)
      BY <1>3, <3>1, LenProperties DEF ReaderInv
    <3>3. posted + 1 \in 1..Len(sent)
      BY <3>2
    <3>4. Current' = Current
      BY <3>1, <3>2, <3>3, AppendProperties DEF Current
    <3> QED
      BY <1>3, <3>1, <3>4 DEF CoroutineInv
  <2>2. CASE ~Sends
    BY <1>3, <2>2, BodyStep DEF Current
  <2> QED
    BY <2>1, <2>2
<1> QED
  BY <1>1, <1>2, <1>3 DEF CoroutineInv, ValidHead

-----------------------------------------------------------------------------
(* The sending half.                                                       *)

\* To the sending half each step is one of its own, or none.
LEMMA SendingStep ==
  ASSUME ReaderInv, CoroutineInv, [ConversationNext]_conversationVars
  PROVE  [Next]_vars
<1>1. CASE Sends \/ Moves \/ Strays
  BY <1>1 DEF Sends, ClientSends, PeerSend, Moves, Strays
<1>2. CASE Ends \/ Throws \/ Leave \/ Answers
  BY <1>2, EndsKeep, ThrowsKeep, LeaveKeeps, AnswersKeep
<1>3. CASE Posts \/ Garbles
  BY <1>3 DEF Posts, Garbles, Next
<1> QED
  BY <1>1, <1>2, <1>3, Kinds

\* A write that ends well puts at most one node on the stream, and none
\* follows before that node is popped.
LEMMA CountStep ==
  ASSUME IInv, WireCounted, [Next]_vars
  PROVE  WireCounted'
<1> USE DEF IInv
<1>0. Len(wire) \in Nat /\ Len(sendQue) \in Nat /\ accepted \in Nat /\ Done \in Int
  BY LenProperties DEF TypeOK, Done
<1>1. CASE Send
  <2>1. Len(sendQue') = Len(sendQue) + 1 /\ accepted' = accepted + 1 /\ wire' = wire
    BY <1>1, AppendProperties DEF Send, TypeOK
  <2>2. Done' = Done
    BY <1>0, <2>1 DEF Done
  <2>3. ops \subseteq ops'
    BY <1>1 DEF Send, StartWrite
  <2>4. Written => Written'
    BY <2>3 DEF Written
  <2> QED
    BY <1>0, <2>1, <2>2, <2>4 DEF WireCounted
<1>2. ASSUME NEW op \in ops, WriteCompletes(op)
      PROVE  WireCounted'
  <2>1. ~Written /\ Done' = Done
    BY <1>2, WrittenNow DEF WriteCompletes, Done
  <2>2. Written'
    <3>1. ops' = {[op EXCEPT !.result = "ok"]}
      BY <1>2, OnlyWrite DEF WriteCompletes, Complete
    <3>2. [op EXCEPT !.result = "ok"].result = "ok"
      BY DEF TypeOK, Op
    <3> QED
      BY <3>1, <3>2 DEF Written
  <2>3. Len(wire') <= Len(wire) + 1
    <3>1. op.node \in Nat
      BY DEF TypeOK, Op
    <3> QED
      BY <1>0, <1>2, <3>1, AppendProperties DEF WriteCompletes, TypeOK
  <2>4. Len(wire') \in Nat
    BY TypeStep, LenProperties DEF TypeOK
  <2> QED
    BY <1>0, <2>1, <2>2, <2>3, <2>4 DEF WireCounted
<1>3. ASSUME NEW op \in ops, WriteFails(op) \/ HandleWriteError(op)
      PROVE  WireCounted'
  <2>1. ~Written /\ Done' = Done /\ wire' = wire
    BY <1>3, WrittenNow DEF WriteFails, HandleWriteError, Done
  <2> QED
    BY <1>0, <2>1 DEF WireCounted
<1>4. ASSUME NEW op \in ops,
             HandleWriteLast(op) \/ HandleWriteNext(op) \/ HandleWriteUnlock(op)
      PROVE  WireCounted'
  <2>1. Len(sendQue') = Len(sendQue) - 1
    <3>1. CASE HandleWriteLast(op)
      BY <3>1, EmptySeq DEF HandleWriteLast
    <3>2. CASE HandleWriteNext(op) \/ HandleWriteUnlock(op)
      BY <3>2, TailTypes DEF HandleWriteNext, HandleWriteUnlock, TypeOK
    <3> QED
      BY <1>4, <3>1, <3>2
  <2>2. wire' = wire /\ accepted' = accepted
    BY <1>4 DEF HandleWriteLast, HandleWriteNext, HandleWriteUnlock
  <2>3. Done' = Done + 1
    BY <1>0, <2>1, <2>2 DEF Done
  <2> QED
    BY <1>0, <2>2, <2>3 DEF WireCounted
<1>5. CASE HandleWriteStart
  <2>1. wire' = wire /\ Done' = Done /\ ~Written
    BY <1>5, OnlyWrite DEF HandleWriteStart, Done, Written
  <2> QED
    BY <1>0, <2>1 DEF WireCounted
<1>6. CASE UNCHANGED <<sendQue, accepted, ops, wire>>
  BY <1>6 DEF WireCounted, Written, Done
<1> QED
  BY <1>1, <1>2, <1>3, <1>4, <1>5, <1>6
     DEF Next, HandleWrite, Insert, ReceiveMessage, ReadFails, ReadInvalid, ReadStops, SendDropped,
         Unanswered, Discard, vars

\* What a conversation keeps, and what the proofs below start from.
ConversationInv == IInv /\ WireCounted /\ ReaderInv /\ CoroutineInv

LEMMA ConversationInvStep ==
  ASSUME ConversationInv, [ConversationNext]_conversationVars
  PROVE  ConversationInv'
BY SendingStep, InvStep, CountStep, ReaderStep, CoroutineStep DEF ConversationInv

LEMMA ConversationInductive == ConversationSpec => []ConversationInv
<1>1. ConversationInit => ConversationInv
  <2> SUFFICES ASSUME ConversationInit PROVE WireCounted /\ ReaderInv /\ CoroutineInv
    BY InvInit DEF ConversationInit, ConversationInv
  <2>1. Len(wire) = 0 /\ Len(sendQue) = 0 /\ Len(sent) = 0 /\ sent \in Seq(Frames)
    BY EmptySeq DEF ConversationInit, Init
  <2>2. WireCounted
    BY <2>1 DEF ConversationInit, Init, WireCounted, Written, Done
  <2>3. ReaderInv
    BY <2>1 DEF ConversationInit, Init, ReaderInv, EndedIsCleared, Entries
  <2>4. CoroutineInv
    BY DEF ConversationInit, CoroutineInv
  <2> QED
    BY <2>2, <2>3, <2>4
<1> QED
  BY <1>1, ConversationInvStep, PTL DEF ConversationSpec

-----------------------------------------------------------------------------
(* The client that waits for each reply.                                   *)

\* Only Send takes a message without discarding it, and queues a reply.
LEMMA BacklogFalls ==
  ASSUME IInv, [Next]_vars, ~Discard
  PROVE  /\ backlog' < backlog => accepted' = accepted + 1
         /\ accepted + backlog = posted => accepted' + backlog' = posted'
         /\ Len(wire') >= Len(wire)
<1> USE DEF IInv
<1>1. /\ accepted \in Nat /\ backlog \in Nat /\ posted \in Nat /\ Len(wire) \in Nat
      /\ \A op \in ops : op.node \in Nat
  BY LenProperties DEF TypeOK, Op
<1>2. CASE ReceiveMessage
  BY <1>1, <1>2 DEF ReceiveMessage
<1>3. CASE Send
  BY <1>1, <1>3 DEF Send
<1>4. ASSUME NEW op \in ops, WriteCompletes(op)
      PROVE  /\ UNCHANGED <<accepted, backlog, posted>>
             /\ Len(wire') >= Len(wire)
  BY <1>1, <1>4, AppendProperties DEF WriteCompletes, TypeOK
<1>5. CASE UNCHANGED <<accepted, backlog, posted>> /\ Len(wire') >= Len(wire)
  BY <1>1, <1>5
<1>6. CASE UNCHANGED <<accepted, backlog, posted, wire>>
  BY <1>1, <1>5, <1>6
<1> QED
  BY <1>2, <1>3, <1>4, <1>5, <1>6
     DEF Next, HandleWrite, Insert, ReadFails, ReadInvalid, ReadStops, SendDropped, Unanswered, WriteFails,
         HandleWriteLast, HandleWriteNext, HandleWriteUnlock, HandleWriteError, HandleWriteStart, vars

\* One request, and so one reply, at a time: never more than two nodes or
\* messages on their way.
LEMMA NoDropWhilePatient ==
  ASSUME MaxSendQue >= 1, ConversationInv, PatientInv, patient, InStep
  PROVE  ~SendDropped
<1> SUFFICES ASSUME SendDropped PROVE FALSE
  OBVIOUS
<1>1. /\ accepted \in Nat /\ backlog \in Nat /\ posted \in Nat
      /\ Len(wire) \in Nat /\ Len(sendQue) \in Nat /\ Len(sent) \in Nat
  BY LenProperties DEF ConversationInv, IInv, TypeOK, ReaderInv
<1>2. Len(wire) <= accepted - Len(sendQue) + 1
  BY <1>1 DEF ConversationInv, WireCounted, Done
<1>3. accepted + backlog = posted /\ posted <= Len(sent) /\ Len(sent) <= Len(wire) + 1
  BY DEF PatientInv, ReaderInv, ConversationInv
<1>4. backlog > 0 /\ Len(sendQue) > MaxSendQue
  BY <1>1, SendQueueAssumption DEF SendDropped, Discard, Accepts
<1> QED
  BY <1>1, <1>2, <1>3, <1>4, SendQueueAssumption

\* Each message of such a client in the logic layer is one of its requests, and
\* has a callback.
LEMMA OldestIsRequest ==
  ASSUME ConversationInv, PatientInv, patient, InStep, backlog > 0
  PROVE  Oldest.id \in Callbacks
<1>1. /\ accepted \in Nat /\ backlog \in Nat /\ posted \in Nat /\ Len(sent) \in Nat
      /\ posted <= Len(sent) /\ accepted + backlog = posted
  BY LenProperties DEF ConversationInv, IInv, TypeOK, ReaderInv, PatientInv
<1>2. posted - backlog + 1 \in 1..Len(sent)
  BY <1>1
<1>3. Oldest \in Requests
  BY <1>2 DEF Oldest, PatientInv
<1> QED
  BY <1>3, ConversationAssumption

\* So none of its messages is discarded.
LEMMA NoDiscardWhilePatient ==
  ASSUME MaxSendQue >= 1, ConversationInv, PatientInv, patient, InStep,
         Ends \/ Posts \/ Answers
  PROVE  ~Discard
<1> SUFFICES ASSUME Discard PROVE FALSE
  OBVIOUS
<1>1. backlog \in Nat /\ accepted \in Nat
  BY DEF ConversationInv, IInv, TypeOK
<1>2. backlog' = backlog - 1 /\ accepted' = accepted
  BY DEF Discard
<1>3. backlog' # backlog /\ backlog' # backlog + 1
  BY <1>1, <1>2
<1>4. CASE Ends \/ Posts
  BY <1>3, <1>4 DEF Ends, Posts, ReadFails, ReadInvalid, ReceiveMessage
<1>5. CASE Inserted \/ WriteEnds \/ WriteHandled
  BY <1>3, <1>5 DEF Inserted, Insert, WriteEnds, WriteHandled, WriteCompletes, WriteFails, HandleWrite,
     HandleWriteLast, HandleWriteNext, HandleWriteUnlock, HandleWriteError, HandleWriteStart
<1>6. CASE Reply
  <2>1. Oldest.id \in Callbacks
    BY <1>6, OldestIsRequest DEF Reply
  <2>2. Send
    BY <1>6, <2>1, NoDropWhilePatient DEF Reply
  <2>3. accepted' = accepted + 1
    BY <2>2 DEF Send
  <2> QED
    BY <1>1, <1>2, <2>3
<1> QED
  BY <1>4, <1>5, <1>6 DEF Answers

LEMMA PatientStep ==
  ASSUME MaxSendQue >= 1, ConversationInv, PatientInv, [ConversationNext]_conversationVars
  PROVE  /\ PatientInv'
         /\ patient /\ InStep /\ backlog' < backlog => accepted' = accepted + 1
<1> USE DEF ConversationInv
<1> SUFFICES ASSUME patient, InStep
             PROVE  /\ InStep' => /\ Len(sent') <= Len(wire') + 1
                                  /\ accepted' + backlog' = posted'
                                  /\ \A i \in 1..Len(sent') : sent'[i] \in Requests
                    /\ backlog' < backlog => accepted' = accepted + 1
  BY Kinds, StepLost DEF PatientInv
<1>1. /\ accepted \in Nat /\ backlog \in Nat /\ posted \in Nat
      /\ Len(wire) \in Nat /\ Len(sent) \in Nat /\ sent \in Seq(Frames)
  BY LenProperties DEF IInv, TypeOK, ReaderInv
<1>2. /\ accepted + backlog = posted /\ Len(sent) <= Len(wire) + 1
      /\ \A i \in 1..Len(sent) : sent[i] \in Requests
  BY DEF PatientInv
<1>3. CASE Sends
  <2> PICK f \in Frames : ClientSends(f)
    BY <1>3 DEF Sends
  <2>1. f \in Requests /\ Len(wire) >= Len(sent) /\ sent' = Append(sent, f)
    BY DEF ClientSends, PeerSend
  <2>2. /\ Len(sent') = Len(sent) + 1
        /\ \A i \in 1..Len(sent) : sent'[i] = sent[i]
        /\ sent'[Len(sent) + 1] = f
    BY <1>1, <2>1, AppendProperties
  <2>3. UNCHANGED <<accepted, backlog, posted, wire>>
    BY DEF ClientSends, PeerSend, vars
  <2>4. ASSUME NEW i \in 1..Len(sent') PROVE sent'[i] \in Requests
    <3>1. CASE i \in 1..Len(sent)
      BY <1>2, <2>2, <3>1
    <3>2. CASE i = Len(sent) + 1
      BY <2>1, <2>2, <3>2
    <3> QED
      BY <1>1, <2>2, <3>1, <3>2
  <2>5. Len(sent') <= Len(wire') + 1
    BY <1>1, <2>1, <2>2, <2>3
  <2> QED
    BY <1>1, <1>2, <2>3, <2>4, <2>5
<1>4. CASE UNCHANGED <<accepted, backlog, posted, wire, sent>>
  BY <1>1, <1>2, <1>4
<1>5. CASE Moves \/ Strays \/ Leave \/ Throws
  BY <1>4, <1>5 DEF Moves, Strays, Leave, Throws, ReadStops, vars
<1>6. CASE Ends \/ Posts \/ Answers
  <2>1. Next /\ sent' = sent
    BY <1>6, EndsKeep, AnswersKeep DEF Posts, Next
  <2>2. ~Discard
    BY <1>6, NoDiscardWhilePatient
  <2>3. /\ backlog' < backlog => accepted' = accepted + 1
        /\ accepted + backlog = posted => accepted' + backlog' = posted'
        /\ Len(wire') >= Len(wire)
    BY <2>1, <2>2, BacklogFalls
  <2>4. /\ accepted' \in Nat /\ backlog' \in Nat /\ posted' \in Nat /\ Len(wire') \in Nat
    BY <2>1, TypeStep, LenProperties DEF IInv, TypeOK
  <2>5. Len(sent') = Len(sent)
    BY <2>1
  <2>6. Len(sent') <= Len(wire') + 1
    BY <1>1, <1>2, <2>3, <2>4, <2>5
  <2> QED
    BY <1>2, <2>1, <2>3, <2>6
<1>7. ~Garbles
  BY DEF Garbles, InStep
<1> QED
  BY <1>3, <1>5, <1>6, <1>7, Kinds

-----------------------------------------------------------------------------
(* The results.                                                            *)

(***************************************************************************)
(* A session with the reader of either server, and any client, uses its    *)
(* sending half as SendQueue says: what is proved of that holds here.      *)
(***************************************************************************)
THEOREM ConversationImplementsSendQueue == ConversationSpec => SafeSpec
<1>1. ConversationInit => Init
  BY DEF ConversationInit
<1>2. ConversationInv /\ [ConversationNext]_conversationVars => [Next]_vars
  BY SendingStep DEF ConversationInv
<1> QED
  BY <1>1, <1>2, ConversationInductive, PTL DEF ConversationSpec, SafeSpec

(***************************************************************************)
(* With the reader of either server, and whatever the client: one          *)
(* async_write at a time, of the node at the front of the queue.           *)
(***************************************************************************)
THEOREM ConversationWriterSafe == ConversationSpec => []SoleWriterOfFront
  BY ConversationImplementsSendQueue, WriterSafe, PTL

(***************************************************************************)
(* A session of either server that reads no more had ClearSession called   *)
(* for it, before or after HandleAccept put it into the map, but for the   *)
(* one of logicServer whose HandleRead threw.                              *)
(***************************************************************************)
THEOREM ConversationEndedSafe == ConversationSpec => []EndedIsCleared
<1>1. ConversationInv => EndedIsCleared
  BY DEF ConversationInv, ReaderInv
<1> QED
  BY <1>1, ConversationInductive, PTL

(***************************************************************************)
(* A client that waits for the reply to each request before it sends the   *)
(* next never has a reply dropped by Send, for any limit of the queue but  *)
(* 0, and from either server, as long as the session is in step.           *)
(***************************************************************************)
THEOREM PatientSafe ==
  ASSUME MaxSendQue >= 1
  PROVE  ConversationSpec => PatientNeverDropped
<1>1. ConversationInit => PatientInv
  <2> SUFFICES ASSUME ConversationInit PROVE PatientInv
    OBVIOUS
  <2>1. Len(sent) = 0 /\ Len(wire) = 0 /\ accepted = 0 /\ backlog = 0 /\ posted = 0
    BY EmptySeq DEF ConversationInit, Init
  <2>2. 1..Len(sent) = {}
    BY <2>1
  <2> QED
    BY <2>1, <2>2 DEF PatientInv
<1>2. ConversationInv /\ PatientInv /\ [ConversationNext]_conversationVars
        => /\ PatientInv'
           /\ [patient /\ InStep /\ backlog' < backlog => accepted' = accepted + 1]_conversationVars
  BY PatientStep
<1> QED
  BY <1>1, <1>2, ConversationInductive, PTL DEF ConversationSpec, PatientNeverDropped

(***************************************************************************)
(* Whoever reads and whatever it reads, the replies of a session leave it  *)
(* as from an outbox: in order, none twice, and none lost by logicServer.  *)
(***************************************************************************)
THEOREM ConversationOutboxSafe == ConversationSpec => Out!SafeSpec
  BY ConversationImplementsSendQueue, OutboxSafe, PTL

(***************************************************************************)
(* The state of a session and its reader is well typed; in step, no more   *)
(* messages are posted than frames were sent, and a coroutine past a head  *)
(* has a frame to work on, for any client and either server.               *)
(***************************************************************************)
THEOREM ConversationTypeCorrect == ConversationSpec => []CoTypeOK
<1>1. ConversationInv => CoTypeOK
  BY DEF ConversationInv, IInv, ReaderInv, CoroutineInv, CoTypeOK
<1> QED
  BY <1>1, ConversationInductive, PTL

-----------------------------------------------------------------------------
(* The frames.                                                             *)

LEMMA PartOfAppend ==
  ASSUME NEW S, NEW s \in Seq(S), NEW e \in S, NEW m \in Nat \ {0}, NEW n \in 0..Len(s)
  PROVE  SubSeq(Append(s, e), m, n) = SubSeq(s, m, n)
<1>1. Len(s) \in Nat /\ Append(s, e) = s \o <<e>> /\ <<e>> \in Seq(S)
  BY AppendIsConcat, LenProperties
<1>2. CASE m <= n
  <2>1. m \in 1..Len(s) /\ n \in 1..Len(s)
    BY <1>1, <1>2
  <2>2. QED
    BY <1>1, <2>1, SubSeqOfConcat1
<1>3. CASE n < m
  BY <1>1, <1>3, SubSeqEmpty
<1>4. QED
  BY <1>1, <1>2, <1>3

\* What is posted and what waits, when a frame is sent ...
LEMMA SplitAppend ==
  ASSUME NEW S, NEW s \in Seq(S), NEW e \in S, NEW k \in 0..Len(s)
  PROVE  /\ SubSeq(Append(s, e), 1, k) = SubSeq(s, 1, k)
         /\ SubSeq(Append(s, e), k + 1, Len(s) + 1) = Append(SubSeq(s, k + 1, Len(s)), e)
<1> DEFINE n == Len(s)
           a == Append(s, e)
<1>1. /\ n \in Nat /\ a \in Seq(S) /\ Len(a) = n + 1 /\ a[n + 1] = e
      /\ k + 1 \in Nat \ {0} /\ n \in 0..n
  BY AppendProperties, LenProperties
<1>2. SubSeq(a, 1, k) = SubSeq(s, 1, k) /\ SubSeq(a, k + 1, n) = SubSeq(s, k + 1, n)
  BY <1>1, PartOfAppend
<1>3. SubSeq(s, k + 1, n) \in Seq(S)
  <2>1. \A i \in k + 1..n : s[i] \in S
    BY <1>1
  <2>2. QED
    BY <1>1, <2>1, SubSeqProperties
<1>4. k + 1 \in 1..n + 1 /\ n + 1 \in k + 1..n + 1 /\ (n + 1) - 1 = n
  BY <1>1
<1> HIDE DEF n, a
<1>5. SubSeq(a, k + 1, n + 1) = SubSeq(a, k + 1, (n + 1) - 1) \o <<e>>
  BY <1>1, <1>4, SubSeqRecursiveSecond
<1>6. SubSeq(a, k + 1, n + 1) = Append(SubSeq(s, k + 1, n), e)
  BY <1>2, <1>3, <1>4, <1>5, AppendIsConcat
<1>7. QED
  BY <1>2, <1>6 DEF n, a

\* ... and when the first of those that wait is posted.
LEMMA SplitMoves ==
  ASSUME NEW S, NEW s \in Seq(S), NEW k \in Nat, k + 1 \in 1..Len(s)
  PROVE  LET old == SubSeq(s, k + 1, Len(s))
         IN  /\ old # <<>>
             /\ Head(old) = s[k + 1]
             /\ SubSeq(s, k + 2, Len(s)) = Tail(old)
             /\ SubSeq(s, 1, k + 1) = Append(SubSeq(s, 1, k), s[k + 1])
<1> DEFINE n == Len(s)
           old == SubSeq(s, k + 1, n)
<1>1. /\ n \in Nat /\ k + 1 <= n /\ s[k + 1] \in S /\ n \in k + 1..n
      /\ (k + 1) + 1 = k + 2 /\ (k + 1) - 1 = k /\ 1 \in 1..n /\ k + 1 \in 1..k + 1
  BY LenProperties
<1>2. Head(old) = s[k + 1] /\ Tail(old) = SubSeq(s, k + 2, n)
  BY <1>1, HeadTailOfSubSeq
<1>3. Len(old) = n - k /\ n - k # 0
  <2>1. \A i \in k + 1..n : s[i] \in S
    BY <1>1
  <2>2. QED
    BY <1>1, <2>1, SubSeqProperties
<1>4. old # <<>>
  BY <1>3
<1>5. SubSeq(s, 1, k) \in Seq(S)
  <2>1. \A i \in 1..k : s[i] \in S
    BY <1>1
  <2>2. QED
    BY <1>1, <2>1, SubSeqProperties
<1>6. SubSeq(s, 1, k + 1) = SubSeq(s, 1, (k + 1) - 1) \o <<s[k + 1]>>
  <2>1. k + 1 \in 1..Len(s)
    BY <1>1
  <2>2. QED
    BY <1>1, <2>1, SubSeqRecursiveSecond
<1>7. SubSeq(s, 1, k + 1) = Append(SubSeq(s, 1, k), s[k + 1])
  BY <1>1, <1>5, <1>6, AppendIsConcat
<1>8. QED
  BY <1>2, <1>4, <1>7

ReadingEnds == coroutine \in {"leaving", "failed", "ended", "lost"}

LEMMA StreamSend ==
  ASSUME ReaderInv, InStep, Sends
  PROVE  Stream!Next
<1> PICK f \in Frames : ClientSends(f)
  BY DEF Sends
<1>1. sent \in Seq(Frames) /\ posted \in 0..Len(sent) /\ Len(sent) \in Nat
  <2>1. sent \in Seq(Frames) /\ posted \in Nat /\ posted <= Len(sent)
    BY DEF ReaderInv
  <2> QED
    BY <2>1, LenProperties
<1>2. sent' = Append(sent, f) /\ UNCHANGED <<coServer, posted, coroutine>>
  BY DEF ClientSends, PeerSend, vars
<1>3. Len(sent') = Len(sent) + 1
  BY <1>1, <1>2, AppendProperties
<1>4. Delivered' = Delivered /\ Inbox' = Append(Inbox, f)
  <2>1. Delivered = SubSeq(sent, 1, posted) /\ Delivered' = SubSeq(Append(sent, f), 1, posted)
    BY <1>1, <1>2, <1>3 DEF Delivered
  <2>2. Inbox' = SubSeq(Append(sent, f), posted + 1, Len(sent) + 1)
    BY <1>2, <1>3 DEF Inbox
  <2> QED
    BY <1>1, <2>1, <2>2, SplitAppend DEF Inbox
<1>5. UNCHANGED <<Becoming, ReadingEnds, InStep>>
  BY <1>2 DEF Becoming, ValidHead, ReadingEnds, InStep
<1>6. Stream!Send(f)
  BY <1>4, <1>5 DEF Stream!Send, ReadingEnds
<1> QED
  BY <1>6 DEF Stream!Next

LEMMA StreamDeliver ==
  ASSUME ReaderInv, CoroutineInv, Posts
  PROVE  Stream!Next
<1>1. /\ sent \in Seq(Frames) /\ posted \in Nat /\ Len(sent) \in Nat
      /\ posted + 1 \in 1..Len(sent)
  <2>1. sent \in Seq(Frames) /\ posted \in Nat /\ posted < Len(sent)
    BY DEF ReaderInv, Posts
  <2> QED
    BY <2>1, LenProperties
<1>2. sent' = sent /\ posted' = posted + 1 /\ coServer' = coServer
  BY DEF Posts, ReceiveMessage
<1>3. Current = sent[posted + 1] /\ Current \in Frames
  BY <1>1 DEF Current
<1>4. Current \in Becoming
  <2>1. Current.len \in Int /\ ValidHead(Current)
    BY <1>3, CoSessionAssumption DEF Posts
  <2>2. CASE coServer
    <3>1. Current.len >= 0 /\ Current.len # 0
      BY <2>2 DEF Posts, CoroutineInv
    <3>2. \A l \in Int : l >= 0 /\ l # 0 => l >= 1
      OBVIOUS
    <3> QED
      BY <1>3, <2>1, <2>2, <3>1, <3>2 DEF Becoming
  <2>3. CASE ~coServer
    BY <1>3, <2>1, <2>3 DEF Posts, Becoming
  <2> QED
    BY <2>2, <2>3
<1>5. /\ Inbox # <<>> /\ Head(Inbox) = Current
      /\ Inbox' = Tail(Inbox)
      /\ Delivered' = Append(Delivered, Current)
  <2>1. Inbox' = SubSeq(sent, posted + 2, Len(sent))
    <3>1. posted' + 1 = posted + 2
      <4>1. \A n \in Nat : (n + 1) + 1 = n + 2
        OBVIOUS
      <4> QED
        BY <1>1, <1>2, <4>1
    <3> QED
      BY <1>2, <3>1 DEF Inbox
  <2>2. posted <= Len(sent) /\ posted' <= Len(sent')
    BY <1>1, <1>2
  <2>3. Delivered = SubSeq(sent, 1, posted) /\ Delivered' = SubSeq(sent, 1, posted + 1)
    BY <1>2, <2>2 DEF Delivered
  <2> QED
    BY <1>1, <1>3, <2>1, <2>3, SplitMoves DEF Inbox
<1>6. ~ReadingEnds /\ InStep /\ InStep'
  BY DEF Posts, ReceiveMessage, ReaderInv, ReadingEnds, InStep
<1>7. Becoming' = Becoming
  BY <1>2 DEF Becoming, ValidHead
<1>8. Stream!Deliver
  BY <1>4, <1>5, <1>6, <1>7 DEF Stream!Deliver, ReadingEnds
<1> QED
  BY <1>8 DEF Stream!Next

\* Out of step nothing is promised but that it stays so.
LEMMA StreamGarble ==
  ASSUME coServer' = coServer, ~InStep, ~InStep'
  PROVE  Stream!Next
<1>1. Becoming' = Becoming
  BY DEF Becoming, ValidHead
<1> QED
  BY <1>1 DEF Stream!Next, Stream!Garble

LEMMA StreamStep ==
  ASSUME ReaderInv, CoroutineInv, [ConversationNext]_conversationVars
  PROVE  [Stream!Next]_(Stream!frameVars)
<1>1. coServer' = coServer
  BY Kinds, EndsKeep, ThrowsKeep, LeaveKeeps, AnswersKeep DEF Sends, ClientSends, PeerSend, Moves, Strays,
     Posts, Garbles, ReceiveMessage, vars
<1>2. Becoming' = Becoming
  BY <1>1 DEF Becoming, ValidHead
<1>3. CASE ~InStep
  BY <1>1, <1>3, StepLost, StreamGarble
<1>4. ASSUME UNCHANGED <<sent, posted>>, InStep' = InStep, ReadingEnds => ReadingEnds'
      PROVE  [Stream!Next]_(Stream!frameVars)
  <2>1. UNCHANGED <<Inbox, Delivered>>
    BY <1>4 DEF Inbox, Delivered
  <2>2. CASE ReadingEnds' = ReadingEnds
    BY <1>2, <1>4, <2>1, <2>2 DEF Stream!frameVars, ReadingEnds
  <2>3. CASE ~ReadingEnds /\ ReadingEnds'
    BY <1>2, <1>4, <2>1, <2>3 DEF Stream!Next, Stream!Hangup, ReadingEnds
  <2> QED
    BY <1>4, <2>2, <2>3 DEF ReadingEnds
<1>5. CASE InStep /\ Sends
  BY <1>5, StreamSend
<1>6. CASE Posts
  BY <1>6, StreamDeliver
<1>7. CASE Strays
  <2>1. UNCHANGED <<Inbox, Delivered>>
    BY <1>7 DEF Strays, vars, Inbox, Delivered
  <2>2. InStep /\ ~InStep' /\ ~ReadingEnds /\ ~ReadingEnds'
    BY <1>7 DEF Strays, InStep, ReadingEnds
  <2> QED
    BY <1>2, <2>1, <2>2 DEF Stream!Next, Stream!LoseStep, ReadingEnds
<1>8. CASE Moves
  BY <1>4, <1>8 DEF Moves, vars, InStep, ReadingEnds
<1>9. CASE InStep /\ (Ends \/ Throws \/ Leave)
  <2>1. UNCHANGED <<sent, posted>> /\ coroutine' = "ended"
    BY <1>9, EndsKeep, ThrowsKeep, LeaveKeeps DEF Ends, Throws
  <2> QED
    BY <1>4, <1>9, <2>1 DEF InStep, ReadingEnds
<1>10. CASE Answers
  BY <1>4, <1>10, AnswersKeep DEF InStep, ReadingEnds
<1>11. CASE Garbles
  BY <1>3, <1>11 DEF Garbles, InStep
<1> QED
  BY <1>3, <1>5, <1>6, <1>7, <1>8, <1>9, <1>10, <1>11, Kinds

(***************************************************************************)
(* The reader of either server, whatever becomes of the replies, makes     *)
(* messages of the frames sent as a frame stream does: whole, in order and *)
(* each once, up to the first that is not acceptable, the end of the       *)
(* connection or the loss of step (the safety part of                      *)
(* ImplementsFrameStream).                                                 *)
(***************************************************************************)
THEOREM FrameStreamSafe ==
  ConversationSpec => Stream!Init /\ [][Stream!Next]_(Stream!frameVars)
<1>1. ConversationInit => Stream!Init
  <2> SUFFICES ASSUME ConversationInit PROVE Stream!Init
    OBVIOUS
  <2>1. sent = <<>> /\ posted = 0 /\ coroutine = "head"
    BY DEF ConversationInit, Init
  <2>2. SubSeq(<<>>, 1, 0) = <<>> /\ SubSeq(<<>>, 0 + 1, 0) = <<>> /\ Len(<<>>) = 0
    BY SubSeqEmpty
  <2>3. Inbox = <<>> /\ Delivered = <<>>
    BY <2>1, <2>2 DEF Inbox, Delivered
  <2>4. Becoming \subseteq Frames
    BY DEF Becoming
  <2>5. InStep
    BY <2>1 DEF InStep
  <2> QED
    BY <2>1, <2>3, <2>4, <2>5 DEF Stream!Init
<1>2. ConversationInv /\ [ConversationNext]_conversationVars => [Stream!Next]_(Stream!frameVars)
  BY StreamStep DEF ConversationInv
<1> QED
  BY <1>1, <1>2, ConversationInductive, PTL DEF ConversationSpec

-----------------------------------------------------------------------------
(***************************************************************************)
(* A BoostCoServer session on its own (CoSession): the coroutine keeps to  *)
(* the part SendQueue gives its reader, so what is proved of the sending   *)
(* half holds of the session; and however the coroutine ends, ClearSession *)
(* has been called.                                                        *)
(*                                                                         *)
(* The argument for both: a socket is closed only together with, or after, *)
(* the call of ClearSession (ClosedIsCleared), so the coroutine that       *)
(* leaves because it found the session closed has nothing left to do.      *)
(***************************************************************************)

ClosedIsCleared ==
  /\ {open, reading} \subseteq BOOLEAN
  /\ entry \in Entries
  /\ ~open => Cleared

CoroutineState ==
  /\ reading <=> coroutine \notin {"ended", "lost"}
  /\ coroutine \in {"leaving", "ended", "lost"} => Cleared
  /\ coroutine = "leaving" => ~open

CoInv == ClosedIsCleared /\ CoroutineState

\* The steps of the coroutine that the sending half does not see.
LEMMA SilentSteps ==
  ASSUME \/ \E f \in Frames : PeerSend(f)
         \/ HangUp
         \/ AsyncReadCompletes
         \/ EmptyReadCompletes
         \/ AsyncReadFails
         \/ HeadValid
         \/ HeadOverruns
  PROVE  /\ UNCHANGED vars
         /\ coroutine' = coroutine \/ coroutine \notin {"leaving", "ended", "lost"}
         /\ coroutine' = coroutine \/ coroutine' \notin {"leaving", "ended", "lost"}
BY DEF PeerSend, HangUp, AsyncReadCompletes, EmptyReadCompletes, AsyncReadFails, HeadValid, HeadOverruns

\* Steps of the sending half close the socket only of a session that is, or
\* gets, cleared, and never touch the reader.
LEMMA SendingSteps ==
  ASSUME ClosedIsCleared, Inserted \/ Reply \/ WriteEnds \/ WriteHandled
  PROVE  /\ ClosedIsCleared'
         /\ reading' = reading
         /\ Cleared => Cleared'
         /\ open' => open
         /\ coroutine' = coroutine
         /\ Next
<1>1. CASE Reply
  <2>1. CASE Send
    BY <1>1, <2>1, Zenon DEF Reply, Send, ClosedIsCleared, Cleared, Referenced, readVars, Next
  <2>2. CASE SendDropped \/ Unanswered
    <3>1. Discard /\ Next
      BY <2>2, Zenon DEF SendDropped, Unanswered, Next
    <3> QED
      BY <1>1, <3>1, Zenon DEF Reply, Discard, ClosedIsCleared, Cleared, Referenced, readVars
  <2> QED
    BY <1>1, <2>1, <2>2 DEF Reply
<1>2. CASE WriteEnds
  <2> PICK op \in ops : WriteCompletes(op) \/ WriteFails(op)
    BY <1>2 DEF WriteEnds
  <2>1. Next
    BY DEF Next
  <2>2. UNCHANGED <<open, reading, entry>>
    BY DEF WriteCompletes, WriteFails
  <2> QED
    BY <1>2, <2>1, <2>2 DEF WriteEnds, ClosedIsCleared, Cleared, readVars
<1>3. CASE WriteHandled
  <2>1. CASE HandleWriteStart
    BY <1>3, <2>1, Zenon DEF WriteHandled, HandleWriteStart, ClosedIsCleared, Cleared, readVars, Next
  <2>2. ASSUME NEW op \in ops, HandleWrite(op)
        PROVE  /\ ClosedIsCleared'
               /\ reading' = reading
               /\ Cleared => Cleared'
               /\ open' => open
               /\ Next
    <3>1. Next
      BY <2>2 DEF Next
    <3>2. CASE HandleWriteLast(op)
      BY <3>1, <3>2, Zenon DEF HandleWriteLast, ClosedIsCleared, Cleared, Referenced
    <3>3. CASE HandleWriteNext(op)
      BY <3>1, <3>3, Zenon DEF HandleWriteNext, ClosedIsCleared, Cleared
    <3>4. CASE HandleWriteUnlock(op)
      BY <3>1, <3>4, Zenon DEF HandleWriteUnlock, ClosedIsCleared, Cleared
    <3>5. CASE HandleWriteError(op)
      BY <3>1, <3>5, ErasedCleared DEF HandleWriteError, ClosedIsCleared, Cleared
    <3> QED
      BY <2>2, <3>2, <3>3, <3>4, <3>5 DEF HandleWrite
  <2>3. coroutine' = coroutine
    BY <1>3 DEF WriteHandled, readVars
  <2> QED
    BY <1>3, <2>1, <2>2, <2>3 DEF WriteHandled
<1>4. CASE Inserted
  BY <1>4 DEF Inserted, Insert, Entries, ClosedIsCleared, Cleared, readVars, Next
<1> QED
  BY <1>1, <1>2, <1>3, <1>4

\* What ReadFails and ReadInvalid leave behind when the coroutine ends.
LEMMA EndingSteps ==
  ASSUME CoInv, coroutine' \in {"ended", "lost"}, ReadFails \/ ReadInvalid
  PROVE  CoInv' /\ Next
<1>1. entry' \in Entries /\ Cleared' /\ reading' = FALSE /\ Next
  BY ErasedCleared DEF ReadFails, ReadInvalid, Cleared, Next
<1>2. open' \in BOOLEAN
  <2>1. CASE ReadFails
    BY <2>1 DEF ReadFails
  <2>2. CASE ReadInvalid
    BY <2>2, Zenon DEF ReadInvalid, CoInv, ClosedIsCleared, Referenced
  <2> QED
    BY <2>1, <2>2
<1> QED
  BY <1>1, <1>2 DEF CoInv, ClosedIsCleared, CoroutineState

LEMMA CoInvStep ==
  ASSUME CoInv, [CoNext]_coVars
  PROVE  CoInv' /\ [Next]_vars
<1> USE DEF CoInv
<1>1. CASE \/ \E f \in Frames : PeerSend(f)
           \/ HangUp
           \/ AsyncReadCompletes
           \/ EmptyReadCompletes
           \/ AsyncReadFails
           \/ HeadValid
           \/ HeadOverruns
  BY <1>1, SilentSteps DEF ClosedIsCleared, CoroutineState, Cleared, vars
<1>2. CASE Inserted \/ Reply \/ WriteEnds \/ WriteHandled
  BY <1>2, SendingSteps DEF CoroutineState
<1>3. CASE HeadInvalid \/ HeadThrows \/ AstrayReadFails \/ BodyEmpty \/ ReadThrows
  BY <1>3, EndingSteps DEF HeadInvalid, HeadThrows, AstrayReadFails, BodyEmpty, ReadThrows
<1>4. CASE BodyPosted
  <2>1. UNCHANGED <<open, reading, entry>> /\ Next
    BY <1>4 DEF BodyPosted, ReceiveMessage, Next
  <2>2. coroutine = "got body" /\ coroutine' = IF open THEN "head" ELSE "leaving"
    BY <1>4 DEF BodyPosted
  <2> QED
    BY <2>1, <2>2 DEF ClosedIsCleared, CoroutineState, Cleared
<1>5. CASE Leave
  <2>1. ReadStops /\ coroutine = "leaving" /\ coroutine' = "ended" /\ Next
    BY <1>5, Zenon DEF Leave, Next
  <2>2. ~open /\ ~open' /\ reading' = FALSE /\ entry' = entry
    BY <2>1, Zenon DEF ReadStops, CoroutineState
  <2>3. open' = FALSE
    BY <2>1, <2>2, Zenon DEF ReadStops
  <2> QED
    BY <2>1, <2>2, <2>3 DEF ClosedIsCleared, CoroutineState, Cleared
<1>6. CASE UNCHANGED coVars
  BY <1>6 DEF coVars, vars, readVars, ClosedIsCleared, CoroutineState, Cleared
<1> QED
  BY <1>1, <1>2, <1>3, <1>4, <1>5, <1>6 DEF CoNext, Resume

LEMMA CoInductive == CoSpec => []CoInv
<1>1. CoInit => CoInv
  BY DEF CoInit, Init, CoInv, ClosedIsCleared, CoroutineState, Entries
<1>2. CoInv /\ [CoNext]_coVars => CoInv'
  BY CoInvStep
<1> QED
  BY <1>1, <1>2, PTL DEF CoSpec

(***************************************************************************)
(* The session uses its sending half as SendQueue says: every behaviour of *)
(* the coroutine and the writes together is one of SendQueue.              *)
(***************************************************************************)
THEOREM SessionImplementsSendQueue == CoSpec => SafeSpec
<1>1. CoInit => Init
  BY DEF CoInit
<1>2. CoInv /\ [CoNext]_coVars => [Next]_vars
  BY CoInvStep
<1> QED
  BY <1>1, <1>2, CoInductive, PTL DEF CoSpec, SafeSpec

(***************************************************************************)
(* However the coroutine ended, ClearSession was called; the way out at    *)
(* the test of _b_close included, which calls nothing itself.  So the map  *)
(* holds a session whose coroutine has ended only if the last of these     *)
(* calls came before the insert.                                           *)
(***************************************************************************)
THEOREM EndedSafe ==
  CoSpec => /\ []EndedIsCleared
            /\ [](~reading => entry \in {"missed", "leaked", "out"})
<1>1. CoInv => EndedIsCleared
  BY DEF CoInv, ClosedIsCleared, CoroutineState, EndedIsCleared
<1>2. CoInv => (~reading => entry \in {"missed", "leaked", "out"})
  BY DEF CoInv, ClosedIsCleared, CoroutineState, Cleared, Entries
<1> QED
  BY <1>1, <1>2, CoInductive, PTL

(***************************************************************************)
(* With the coroutine as the reader, as with any other: one write at a     *)
(* time, from the front of the queue.                                      *)
(***************************************************************************)
THEOREM SessionWriterSafe == CoSpec => []SoleWriterOfFront
  BY SessionImplementsSendQueue, WriterSafe, PTL

(***************************************************************************)
(* With the coroutine as the reader, as with any other: an open session    *)
(* with replies queued has a write under way or about to start.            *)
(***************************************************************************)
THEOREM SessionStallSafe == CoSpec => []NeverStalls
  BY SessionImplementsSendQueue, StallSafe, PTL

=============================================================================
