----------------------------- MODULE ChatProofs -----------------------------
(***************************************************************************)
(* Proofs about the chat room: what its runs check for two clients and     *)
(* three messages holds for any number of both.                            *)
(*                                                                         *)
(* The argument has three layers: the set of sessions against the life of  *)
(* a session (RoomInv), the one write of the queue's front (WriteInv), and *)
(* for the order of messages the sequence of all that is written or under  *)
(* way to a client (UnderWay), which only PassOn changes, by one message   *)
(* at its end (StreamInv).                                                 *)
(***************************************************************************)
EXTENDS Chat, SequenceTheorems, TLAPS

Stages == {"none", "handshake", "reading", "passing on", "ended", "destructor", "freed"}
Message == [from : Clients, num : Nat]
Write == [message : Message, result : {"writing", "ok", "error"}]

TypeInv ==
  /\ stage \in [Clients -> Stages]
  /\ room \subseteq Clients
  /\ count \in [Clients -> Nat]
  /\ pending \in [Clients -> SUBSET Clients]
  /\ strand \in [Clients -> Seq(Message)]
  /\ queue \in [Clients -> Seq(Message)]
  /\ writing \in [Clients -> Seq(Write)]
  /\ written \in [Clients -> Seq(Message)]

\* A session is in the room from its acceptance to the end of its destructor;
\* the sessions a message is yet to go to are there as long as they last.
RoomInv ==
  /\ \A c \in room : stage[c] \notin {"none", "handshake", "freed"}
  /\ \A c \in Clients :
       /\ stage[c] \in {"reading", "passing on"} => c \in room
       /\ pending[c] # {} => stage[c] = "passing on"
       /\ \A d \in pending[c] : Lockable(d) => d \in room

WriteInv == GoneIsQuiet /\ OneWriteOfFront

\* all[i] is the last message its sender has in all.
LastOfSender(all, i) == \A k \in i + 1..Len(all) : all[k].from # all[i].from

\* Consecutive, of one client.
InOrder(all) ==
  \A i, j \in 1..Len(all) :
    /\ i < j
    /\ all[i].from = all[j].from
    /\ \A k \in i + 1..j - 1 : all[k].from # all[i].from
    => all[j].num = all[i].num + 1

\* A session that has a message of a sender, and still exists, has the newest,
\* unless that is on its way in the sender's on_read.
Newest(c) ==
  LET all == UnderWay(c)
  IN  \A i \in 1..Len(all) :
        LastOfSender(all, i) =>
          count[all[i].from] = all[i].num + (IF c \in pending[all[i].from] THEN 1 ELSE 0)

StreamInv ==
  /\ Consecutive
  /\ \A c \in Clients :
       Lockable(c) => /\ UnderWay(c) # <<>> => c \in room
                      /\ Newest(c)

IInv == TypeInv /\ RoomInv /\ WriteInv /\ StreamInv
-----------------------------------------------------------------------------
(* Sequences.                                                              *)

\* A sequence of at most one element, and one of more.
LEMMA OneElement ==
  ASSUME NEW S, NEW s \in Seq(S), s # <<>>, Len(s) <= 1
  PROVE  Len(s) = 1 /\ Tail(s) = <<>>
<1>1. \A n \in Nat : n # 0 /\ n <= 1 => n = 1
  OBVIOUS
<1>2. Len(s) \in Nat /\ Len(s) # 0
  BY EmptySeq
<1>3. Len(s) = 1
  BY <1>1, <1>2
<1>4. Tail(s) \in Seq(S) /\ Len(Tail(s)) = 0
  BY <1>3, HeadTailProperties
<1>5. QED
  BY <1>3, <1>4, EmptySeq

LEMMA AppendToEmpty ==
  ASSUME NEW e PROVE Append(<<>>, e) = <<e>>
  OBVIOUS

LEMMA MoreElements ==
  ASSUME NEW S, NEW s \in Seq(S), Len(s) > 1
  PROVE  s # <<>> /\ Tail(s) # <<>>
<1>1. s # <<>>
  BY EmptySeq
<1>2. Len(Tail(s)) = Len(s) - 1 /\ Len(s) \in Nat
  BY <1>1, HeadTailProperties
<1>3. \A n \in Nat : n > 1 => n - 1 # 0
  OBVIOUS
<1>4. Len(Tail(s)) # 0
  BY <1>2, <1>3
<1>5. QED
  BY <1>1, <1>4, EmptySeq

-----------------------------------------------------------------------------
(* Types.                                                                  *)

LEMMA InitTypes == Init => TypeInv
  BY DEF Init, TypeInv, Stages

\* The first write of a session gets a result: the rest stays.
LEMMA ResultTypes ==
  ASSUME TypeInv, NEW c \in Clients, writing[c] # <<>>, NEW r \in {"ok", "error"}
  PROVE  [writing EXCEPT ![c][1].result = r] \in [Clients -> Seq(Write)]
<1>1. writing[c] \in Seq(Write) /\ 1 \in 1..Len(writing[c])
  BY DEF TypeInv
<1>2. writing[c][1] \in Write
  BY <1>1
<1>3. [writing[c][1] EXCEPT !.result = r] \in Write
  BY <1>2 DEF Write
<1>4. [writing[c] EXCEPT ![1] = [writing[c][1] EXCEPT !.result = r]] \in Seq(Write)
  BY <1>1, <1>3, ExceptSeq
<1>5. QED
  BY <1>4 DEF TypeInv

LEMMA Types == TypeInv /\ [Next]_vars => TypeInv'
<1> SUFFICES ASSUME TypeInv, [Next]_vars PROVE TypeInv'
  OBVIOUS
<1> USE DEF TypeInv
<1>1. ASSUME NEW c \in Clients, Upgrade(c) \/ Break(c) PROVE TypeInv'
  BY <1>1 DEF Upgrade, Break, To, Stages
<1>2. ASSUME NEW c \in Clients, OnRead(c) PROVE TypeInv'
  <2>1. /\ stage' \in [Clients -> Stages]
        /\ pending' \in [Clients -> SUBSET Clients]
    BY <1>2 DEF OnRead, To, Stages
  <2>2. count' \in [Clients -> Nat]
    <3>1. count' = [count EXCEPT ![c] = count[c] + 1]
      BY <1>2 DEF OnRead
    <3>2. count \in [Clients -> Nat]
      OBVIOUS
    <3> HIDE DEF TypeInv
    <3>3. QED
      BY <3>1, <3>2
  <2>3. QED
    BY <1>2, <2>1, <2>2 DEF OnRead
<1>3. ASSUME NEW c \in Clients, WriteCompletes(c) PROVE TypeInv'
  <2>1. writing' \in [Clients -> Seq(Write)]
    BY <1>3, ResultTypes DEF WriteCompletes
  <2>2. Head(writing[c]).message \in Message
    <3>1. Head(writing[c]) \in Write
      BY <1>3, HeadTailProperties DEF WriteCompletes
    <3>2. QED
      BY <3>1 DEF Write
  <2>3. written' \in [Clients -> Seq(Message)]
    BY <1>3, <2>2, AppendProperties DEF WriteCompletes
  <2>4. QED
    BY <1>3, <2>1, <2>3 DEF WriteCompletes
<1>4. ASSUME NEW c \in Clients, WriteFails(c) PROVE TypeInv'
  <2>1. writing' \in [Clients -> Seq(Write)]
    BY <1>4, ResultTypes DEF WriteFails
  <2>2. QED
    BY <1>4, <2>1 DEF WriteFails
<1>5. ASSUME NEW c \in Clients, OnAccept(c) \/ OnAcceptError(c) \/ ReadAgain(c)
                                \/ OnReadError(c) \/ LastReference(c) \/ Leave(c)
      PROVE TypeInv'
  BY <1>5 DEF OnAccept, OnAcceptError, ReadAgain, OnReadError, LastReference, Leave, To, Stages
<1>6. ASSUME NEW c \in Clients, NEW d \in Clients, PassOn(c, d) PROVE TypeInv'
  <2>1. [from |-> c, num |-> count[c]] \in Message
    BY DEF Message
  <2>2. strand' \in [Clients -> Seq(Message)]
    BY <1>6, <2>1, AppendProperties DEF PassOn
  <2>3. QED
    BY <1>6, <2>2 DEF PassOn
<1>7. ASSUME NEW c \in Clients, OnSend(c) PROVE TypeInv'
  <2>1. Head(strand[c]) \in Message /\ Tail(strand[c]) \in Seq(Message)
    BY <1>7, HeadTailProperties DEF OnSend
  <2>2. /\ strand' \in [Clients -> Seq(Message)]
        /\ queue' \in [Clients -> Seq(Message)]
        /\ queue'[c] = Append(queue[c], Head(strand[c]))
    BY <1>7, <2>1, AppendProperties DEF OnSend
  <2>3. queue'[c] # <<>> /\ Head(queue'[c]) \in Message
    BY <2>2, <2>1, HeadTailProperties, AppendProperties
  <2>4. [message |-> Head(queue'[c]), result |-> "writing"] \in Write
    BY <2>3 DEF Write
  <2>5. writing' \in [Clients -> Seq(Write)]
    BY <1>7, <2>4, AppendProperties DEF OnSend, AsyncWrite
  <2>6. QED
    BY <1>7, <2>2, <2>5 DEF OnSend
<1>8. ASSUME NEW c \in Clients, OnWrite(c) PROVE TypeInv'
  <2>1. queue' \in [Clients -> Seq(Message)] /\ Tail(writing[c]) \in Seq(Write)
    <3>1. CASE queue[c] # <<>>
      BY <1>8, <3>1, HeadTailProperties DEF OnWrite
    <3>2. CASE queue[c] = <<>>
      BY <1>8, <3>2, HeadTailProperties DEF OnWrite
    <3>3. QED
      BY <3>1, <3>2
  <2>2. CASE Len(queue[c]) > 1
    <3>1. queue'[c] = Tail(queue[c]) /\ queue'[c] # <<>>
      <4>1. queue[c] \in Seq(Message)
        OBVIOUS
      <4>2. Tail(queue[c]) # <<>>
        BY <2>2, <4>1, MoreElements
      <4>3. queue'[c] = Tail(queue[c])
        BY <1>8 DEF OnWrite
      <4>4. QED
        BY <4>2, <4>3
    <3>2. Head(queue'[c]) \in Message
      BY <2>1, <3>1, HeadTailProperties
    <3>3. [message |-> Head(queue'[c]), result |-> "writing"] \in Write
      BY <3>2 DEF Write
    <3>4. writing' \in [Clients -> Seq(Write)]
      BY <1>8, <2>1, <2>2, <3>3, AppendProperties DEF OnWrite, AsyncWrite
    <3>5. QED
      BY <1>8, <2>1, <3>4 DEF OnWrite
  <2>3. CASE ~(Len(queue[c]) > 1)
    BY <1>8, <2>1, <2>3 DEF OnWrite
  <2>4. QED
    BY <2>2, <2>3
<1>9. ASSUME NEW c \in Clients, OnWriteError(c) PROVE TypeInv'
  BY <1>9, HeadTailProperties DEF OnWriteError
<1>10. CASE UNCHANGED vars
  BY <1>10 DEF vars
<1>11. QED
  BY <1>1, <1>2, <1>3, <1>4, <1>5, <1>6, <1>7, <1>8, <1>9, <1>10
  DEF Next, SessionStep, StrandStep
-----------------------------------------------------------------------------
(* The set of sessions.                                                    *)

LEMMA RoomKept == TypeInv /\ RoomInv /\ [Next]_vars => RoomInv'
<1> SUFFICES ASSUME TypeInv, RoomInv, [Next]_vars PROVE RoomInv'
  OBVIOUS
<1> USE DEF RoomInv, Lockable, To
<1>0. /\ stage \in [Clients -> Stages]
      /\ room \subseteq Clients
      /\ pending \in [Clients -> SUBSET Clients]
  BY DEF TypeInv
<1>1. ASSUME NEW c \in Clients, Upgrade(c) PROVE RoomInv'
  BY <1>0, <1>1 DEF Upgrade
<1>2. ASSUME NEW c \in Clients, OnRead(c) PROVE RoomInv'
  BY <1>0, <1>2 DEF OnRead
<1>3. ASSUME NEW c \in Clients, OnAccept(c) PROVE RoomInv'
  BY <1>0, <1>3 DEF OnAccept
<1>4. ASSUME NEW c \in Clients, OnAcceptError(c) \/ OnReadError(c) PROVE RoomInv'
  BY <1>0, <1>4 DEF OnAcceptError, OnReadError
<1>5. ASSUME NEW c \in Clients, NEW d \in Clients, PassOn(c, d) PROVE RoomInv'
  BY <1>0, <1>5 DEF PassOn
<1>6. ASSUME NEW c \in Clients, ReadAgain(c) PROVE RoomInv'
  BY <1>0, <1>6 DEF ReadAgain
<1>7. ASSUME NEW c \in Clients, LastReference(c) PROVE RoomInv'
  BY <1>0, <1>7 DEF LastReference, Unreferenced
<1>8. ASSUME NEW c \in Clients, Leave(c) PROVE RoomInv'
  BY <1>0, <1>8 DEF Leave
<1>9. CASE UNCHANGED <<stage, room, pending>>
  BY <1>9
<1>10. ASSUME NEW c \in Clients, Break(c) \/ WriteCompletes(c) \/ WriteFails(c) \/ StrandStep(c)
       PROVE RoomInv'
  BY <1>9, <1>10 DEF Break, WriteCompletes, WriteFails, StrandStep, OnSend, OnWrite, OnWriteError
<1>11. CASE UNCHANGED vars
  BY <1>9, <1>11 DEF vars
<1>12. QED
  BY <1>1, <1>2, <1>3, <1>4, <1>5, <1>6, <1>7, <1>8, <1>10, <1>11 DEF Next, SessionStep

(***************************************************************************)
(* No pointer in sessions_ is to a session whose memory was freed          *)
(* (shared_state::send reads the set while destructors wait to leave it).  *)
(***************************************************************************)
THEOREM RoomSafe == Spec => []RoomIsAllocated
<1>1. Init => TypeInv /\ RoomInv
  BY InitTypes DEF Init, RoomInv
<1>2. TypeInv /\ RoomInv /\ [Next]_vars => (TypeInv /\ RoomInv)'
  BY Types, RoomKept
<1>3. TypeInv /\ RoomInv => RoomIsAllocated
  BY DEF RoomInv, RoomIsAllocated
<1>4. QED
  BY <1>1, <1>2, <1>3, PTL DEF Spec
-----------------------------------------------------------------------------
(* The writer of a session.                                                *)

\* What one session's writer depends on.
WriterOk(c) ==
  /\ ~Lockable(c) => strand[c] = <<>> /\ writing[c] = <<>>
  /\ Len(writing[c]) <= 1
  /\ writing[c] # <<>> => queue[c] # <<>> /\ Head(writing[c]).message = Head(queue[c])

LEMMA WriteInvIsWriterOk == WriteInv <=> \A c \in Clients : WriterOk(c)
  BY DEF WriteInv, GoneIsQuiet, OneWriteOfFront, WriterOk

LEMMA WriterKept ==
  ASSUME TypeInv, NEW c \in Clients, WriterOk(c),
         strand'[c] = strand[c], queue'[c] = queue[c], writing'[c] = writing[c],
         Lockable(c) => Lockable(c)'
  PROVE  WriterOk(c)'
  BY DEF WriterOk

\* A write of length one and its result.
LEMMA OneWrite ==
  ASSUME NEW c \in Clients, TypeInv, WriterOk(c), writing[c] # <<>>
  PROVE  /\ Len(writing[c]) = 1
         /\ Tail(writing[c]) = <<>>
         /\ writing[c][1] \in Write
         /\ Head(writing[c]) = writing[c][1]
         /\ queue[c] # <<>>
         /\ writing[c][1].message = Head(queue[c])
<1>1. writing[c] \in Seq(Write)
  BY DEF TypeInv
<1>2. Len(writing[c]) <= 1
  BY DEF WriterOk
<1>3. Len(writing[c]) = 1 /\ Tail(writing[c]) = <<>>
  BY <1>1, <1>2, OneElement
<1>6. Head(writing[c]) = writing[c][1] /\ writing[c][1] \in Write
  BY <1>1, <1>3
<1>7. QED
  BY <1>3, <1>6 DEF WriterOk

LEMMA WriterResult ==
  ASSUME NEW c \in Clients, TypeInv, WriterOk(c), writing[c] # <<>>,
         NEW r \in {"ok", "error"}, writing' = [writing EXCEPT ![c][1].result = r],
         UNCHANGED <<stage, strand, queue>>
  PROVE  /\ \A d \in Clients : d # c => writing'[d] = writing[d]
         /\ writing'[c] # <<>> /\ Head(writing'[c]).result = r
         /\ Head(writing'[c]).message = Head(writing[c]).message
         /\ WriterOk(c)'
<1>1. writing \in [Clients -> Seq(Write)]
  BY DEF TypeInv
<1>2. writing'[c] = [writing[c] EXCEPT ![1] = [writing[c][1] EXCEPT !.result = r]]
  BY <1>1
<1>3. Len(writing'[c]) = 1 /\ writing'[c] \in Seq(Write)
  <2>1. Len(writing[c]) = 1
    BY OneWrite
  <2>2. writing' \in [Clients -> Seq(Write)]
    BY ResultTypes
  <2>3. Len(writing'[c]) = Len(writing[c])
    BY <1>1, <1>2
  <2>4. QED
    BY <2>1, <2>2, <2>3
<1>4. Head(writing'[c]) = [writing[c][1] EXCEPT !.result = r] /\ writing'[c] # <<>>
  BY <1>1, <1>2, <1>3, OneWrite
<1>5. writing[c][1] \in Write /\ writing[c][1].message = Head(queue[c])
      /\ Head(writing[c]) = writing[c][1] /\ queue[c] # <<>>
  BY OneWrite
<1>6. Head(writing'[c]).message = Head(queue[c]) /\ Head(writing'[c]).result = r
  BY <1>4, <1>5 DEF Write
<1>7. \A d \in Clients : d # c => writing'[d] = writing[d]
  BY <1>1
<1>8. Lockable(c) => Lockable(c)'
  BY DEF Lockable
<1>9. WriterOk(c)'
  BY <1>3, <1>4, <1>5, <1>6, <1>8 DEF WriterOk, Lockable
<1>10. QED
  BY <1>4, <1>5, <1>6, <1>7, <1>9

\* The two handlers that change the queue.
LEMMA OnSendWriter ==
  ASSUME TypeInv, NEW c \in Clients, WriterOk(c), OnSend(c)
  PROVE  WriterOk(c)'
<1>1. /\ strand[c] \in Seq(Message) /\ strand[c] # <<>>
      /\ queue[c] \in Seq(Message) /\ writing[c] \in Seq(Write)
  BY DEF TypeInv, OnSend
<1>2. Head(strand[c]) \in Message
  BY <1>1, HeadTailProperties
<1>3. queue'[c] = Append(queue[c], Head(strand[c])) /\ Lockable(c)
  BY <1>1 DEF OnSend, TypeInv, WriterOk
<1>4. Lockable(c)'
  BY <1>3 DEF OnSend, Lockable
<1>5. Len(queue'[c]) = Len(queue[c]) + 1 /\ queue'[c] # <<>>
  BY <1>1, <1>2, <1>3, AppendProperties
<1>6. CASE queue[c] = <<>>
  <2>1. writing[c] = <<>> /\ Len(queue'[c]) = 1
    BY <1>5, <1>6 DEF WriterOk
  <2>2. writing'[c] = <<[message |-> Head(queue'[c]), result |-> "writing"]>>
    BY <2>1 DEF OnSend, TypeInv, StartsWrite, AsyncWrite
  <2>3. QED
    BY <1>4, <1>5, <2>2 DEF WriterOk
<1>7. CASE queue[c] # <<>>
  <2>1. Len(queue'[c]) # 1
    BY <1>1, <1>5, <1>7, EmptySeq
  <2>2. writing'[c] = writing[c]
    BY <2>1 DEF OnSend, StartsWrite
  <2>3. Head(queue'[c]) = Head(queue[c])
    BY <1>1, <1>2, <1>3, <1>7, HeadTailAppend
  <2>4. QED
    BY <1>4, <1>5, <2>2, <2>3 DEF WriterOk
<1>8. QED
  BY <1>6, <1>7

LEMMA OnWriteWriter ==
  ASSUME TypeInv, NEW c \in Clients, WriterOk(c), OnWrite(c)
  PROVE  WriterOk(c)'
<1>1. queue[c] \in Seq(Message) /\ writing[c] \in Seq(Write) /\ writing[c] # <<>>
  BY DEF TypeInv, OnWrite
<1>2. Tail(writing[c]) = <<>> /\ Lockable(c)
  BY <1>1, OneWrite DEF WriterOk
<1>3. Lockable(c)' /\ queue'[c] = Tail(queue[c])
  BY <1>2 DEF OnWrite, TypeInv, Lockable
<1>4. CASE Len(queue[c]) > 1
  <2>1. writing'[c] = <<[message |-> Head(queue'[c]), result |-> "writing"]>>
    <3>1. writing'[c] = Append(Tail(writing[c]), [message |-> Head(queue'[c]), result |-> "writing"])
      BY <1>4 DEF OnWrite, AsyncWrite, TypeInv
    <3>2. QED
      BY <1>2, <3>1, AppendToEmpty
  <2>2. queue'[c] # <<>>
    BY <1>1, <1>3, <1>4, MoreElements
  <2>3. QED
    BY <1>3, <2>1, <2>2 DEF WriterOk
<1>5. CASE ~(Len(queue[c]) > 1)
  <2>1. writing'[c] = <<>>
    BY <1>2, <1>5 DEF OnWrite, TypeInv
  <2>2. QED
    BY <1>3, <2>1 DEF WriterOk
<1>6. QED
  BY <1>4, <1>5

LEMMA OnWriteErrorWriter ==
  ASSUME TypeInv, NEW c \in Clients, WriterOk(c), OnWriteError(c)
  PROVE  WriterOk(c)'
<1>1. writing[c] # <<>>
  BY DEF OnWriteError
<1>2. Tail(writing[c]) = <<>> /\ Lockable(c)
  BY <1>1, OneWrite DEF WriterOk
<1>3. Lockable(c)' /\ writing'[c] = <<>>
  BY <1>2 DEF OnWriteError, TypeInv, Lockable
<1>4. QED
  BY <1>3 DEF WriterOk

LEMMA PassOnWriter ==
  ASSUME TypeInv, NEW c \in Clients, NEW d \in Clients, WriterOk(d), PassOn(c, d)
  PROVE  WriterOk(d)'
<1>1. CASE Lockable(d)
  BY <1>1 DEF PassOn, WriterOk, Lockable
<1>2. CASE ~Lockable(d)
  BY <1>2 DEF PassOn, WriterOk, Lockable
<1>3. QED
  BY <1>1, <1>2

LEMMA WritersKept == TypeInv /\ WriteInv /\ [Next]_vars => WriteInv'
<1> SUFFICES ASSUME TypeInv, WriteInv, [Next]_vars, NEW e \in Clients
             PROVE  WriterOk(e)'
  BY WriteInvIsWriterOk DEF WriteInv, GoneIsQuiet, OneWriteOfFront, WriterOk
<1>0. \A c \in Clients : WriterOk(c)
  BY WriteInvIsWriterOk
<1>1. ASSUME NEW c \in Clients, Upgrade(c) \/ Break(c) \/ OnRead(c) \/ OnAccept(c)
                                \/ OnAcceptError(c) \/ ReadAgain(c) \/ OnReadError(c) \/ Leave(c)
      PROVE WriterOk(e)'
  <2>1. strand' = strand /\ queue' = queue /\ writing' = writing
    BY <1>1 DEF Upgrade, Break, OnRead, OnAccept, OnAcceptError, ReadAgain, OnReadError, Leave
  <2>2. Lockable(e) => Lockable(e)'
    BY <1>1 DEF Upgrade, Break, OnRead, OnAccept, OnAcceptError, ReadAgain, OnReadError, Leave,
                Lockable, To, TypeInv
  <2>3. QED
    BY <1>0, <2>1, <2>2, WriterKept
<1>2. ASSUME NEW c \in Clients, LastReference(c) PROVE WriterOk(e)'
  <2>1. strand' = strand /\ queue' = queue /\ writing' = writing
    BY <1>2 DEF LastReference
  <2>2. e # c => (Lockable(e) => Lockable(e)')
    BY <1>2 DEF LastReference, Lockable, To, TypeInv
  <2>3. e = c => WriterOk(e)'
    BY <1>0, <1>2, <2>1 DEF LastReference, Unreferenced, WriterOk
  <2>4. QED
    BY <1>0, <2>1, <2>2, <2>3, WriterKept
<1>3. ASSUME NEW c \in Clients, WriteCompletes(c) \/ WriteFails(c) PROVE WriterOk(e)'
  <2>1. PICK r \in {"ok", "error"} : writing' = [writing EXCEPT ![c][1].result = r]
    BY <1>3 DEF WriteCompletes, WriteFails
  <2>2. writing[c] # <<>> /\ UNCHANGED <<stage, strand, queue>>
    BY <1>3 DEF WriteCompletes, WriteFails
  <2>3. WriterOk(c)' /\ (e # c => writing'[e] = writing[e])
    BY <1>0, <2>1, <2>2, WriterResult
  <2>4. Lockable(e) => Lockable(e)'
    BY <2>2 DEF Lockable
  <2>5. QED
    BY <1>0, <2>2, <2>3, <2>4, WriterKept
<1>4. ASSUME NEW c \in Clients, StrandStep(c) PROVE WriterOk(e)'
  <2>1. CASE e = c
    BY <1>0, <1>4, <2>1, OnSendWriter, OnWriteWriter, OnWriteErrorWriter DEF StrandStep
  <2>2. CASE e # c
    <3>1. strand'[e] = strand[e] /\ queue'[e] = queue[e] /\ writing'[e] = writing[e]
      BY <1>4, <2>2 DEF StrandStep, OnSend, OnWrite, OnWriteError, TypeInv
    <3>2. Lockable(e) => Lockable(e)'
      BY <1>4 DEF StrandStep, OnSend, OnWrite, OnWriteError, Lockable
    <3>3. QED
      BY <1>0, <3>1, <3>2, WriterKept
  <2>3. QED
    BY <2>1, <2>2
<1>5. ASSUME NEW c \in Clients, NEW d \in Clients, PassOn(c, d) PROVE WriterOk(e)'
  <2>1. CASE e = d
    BY <1>0, <1>5, <2>1, PassOnWriter
  <2>2. CASE e # d
    <3>1. strand'[e] = strand[e] /\ queue'[e] = queue[e] /\ writing'[e] = writing[e]
      BY <1>5, <2>2 DEF PassOn, TypeInv
    <3>2. Lockable(e) => Lockable(e)'
      BY <1>5 DEF PassOn, Lockable
    <3>3. QED
      BY <1>0, <3>1, <3>2, WriterKept
  <2>3. QED
    BY <2>1, <2>2
<1>6. CASE UNCHANGED vars
  BY <1>0, <1>6, WriterKept DEF vars, Lockable
<1>7. QED
  BY <1>1, <1>2, <1>3, <1>4, <1>5, <1>6 DEF Next, SessionStep

LEMMA InitWriters == Init => WriteInv
  BY DEF Init, WriteInv, GoneIsQuiet, OneWriteOfFront

(***************************************************************************)
(* A session whose last reference is gone has no handler posted and no     *)
(* write outstanding (lock() in shared_state::send decides it, after the   *)
(* mutex is released).                                                     *)
(***************************************************************************)
THEOREM GoneSafe == Spec => []GoneIsQuiet
<1>1. Init => TypeInv /\ WriteInv
  BY InitTypes, InitWriters
<1>2. TypeInv /\ WriteInv /\ [Next]_vars => (TypeInv /\ WriteInv)'
  BY Types, WritersKept
<1>3. TypeInv /\ WriteInv => GoneIsQuiet
  BY DEF WriteInv
<1>4. QED
  BY <1>1, <1>2, <1>3, PTL DEF Spec

(***************************************************************************)
(* on_send and on_write never have two writes on a session's stream, and   *)
(* the one they have is of the queue's front.                              *)
(***************************************************************************)
THEOREM WriterSafe == Spec => []OneWriteOfFront
<1>1. Init => TypeInv /\ WriteInv
  BY InitTypes, InitWriters
<1>2. TypeInv /\ WriteInv /\ [Next]_vars => (TypeInv /\ WriteInv)'
  BY Types, WritersKept
<1>3. TypeInv /\ WriteInv => OneWriteOfFront
  BY DEF WriteInv
<1>4. QED
  BY <1>1, <1>2, <1>3, PTL DEF Spec
-----------------------------------------------------------------------------
(* What is under way to a client.                                          *)

\* The queue without the message the network has already.
Unwritten(c) ==
  IF writing[c] # <<>> /\ Head(writing[c]).result = "ok" THEN Tail(queue[c]) ELSE queue[c]

LEMMA UnderWayParts ==
  ASSUME NEW c \in Clients PROVE UnderWay(c) = (written[c] \o Unwritten(c)) \o strand[c]
  BY DEF UnderWay, Unwritten

LEMMA UnwrittenType ==
  ASSUME TypeInv, WriteInv, NEW c \in Clients PROVE Unwritten(c) \in Seq(Message)
<1>1. queue[c] \in Seq(Message) /\ (writing[c] # <<>> => queue[c] # <<>>)
  BY DEF TypeInv, WriteInv, OneWriteOfFront
<1>2. queue[c] # <<>> => Tail(queue[c]) \in Seq(Message)
  BY <1>1, HeadTailProperties
<1>3. QED
  BY <1>1, <1>2 DEF Unwritten

LEMMA UnderWayType ==
  ASSUME TypeInv, WriteInv, NEW c \in Clients PROVE UnderWay(c) \in Seq(Message)
<1>1. written[c] \in Seq(Message) /\ strand[c] \in Seq(Message)
  BY DEF TypeInv
<1>2. written[c] \o Unwritten(c) \in Seq(Message)
  BY <1>1, UnwrittenType, ConcatProperties
<1>3. QED
  BY <1>1, <1>2, UnderWayParts, ConcatProperties

\* The front of a sequence moves to the end of the one before it.
LEMMA FrontMoves ==
  ASSUME NEW S, NEW a \in Seq(S), NEW b \in Seq(S), b # <<>>
  PROVE  Append(a, Head(b)) \o Tail(b) = a \o b
<1>1. Head(b) \in S /\ Tail(b) \in Seq(S) /\ b = <<Head(b)>> \o Tail(b)
  BY HeadTailProperties, AppendIsConcat
<1>2. Append(a, Head(b)) = a \o <<Head(b)>>
  BY <1>1, AppendIsConcat
<1>3. <<Head(b)>> \in Seq(S)
  BY <1>1
<1>4. (a \o <<Head(b)>>) \o Tail(b) = a \o (<<Head(b)>> \o Tail(b))
  BY <1>1, <1>3, ConcatAssociative
<1>5. QED
  BY <1>1, <1>2, <1>4

LEMMA EndGrows ==
  ASSUME NEW S, NEW a \in Seq(S), NEW b \in Seq(S), NEW e \in S
  PROVE  a \o Append(b, e) = Append(a \o b, e)
<1>1. Append(b, e) = b \o <<e>> /\ <<e>> \in Seq(S) /\ a \o b \in Seq(S)
  BY AppendIsConcat, ConcatProperties
<1>2. Append(a \o b, e) = (a \o b) \o <<e>>
  BY <1>1, AppendIsConcat
<1>3. QED
  BY <1>1, <1>2, ConcatAssociative

LEMMA OnSendUnderWay ==
  ASSUME TypeInv, WriteInv, NEW c \in Clients, OnSend(c)
  PROVE  UnderWay(c)' = UnderWay(c)
<1>1. /\ strand[c] \in Seq(Message) /\ strand[c] # <<>> /\ queue[c] \in Seq(Message)
      /\ written[c] \in Seq(Message)
  BY DEF TypeInv, OnSend
<1>2. Head(strand[c]) \in Message /\ Tail(strand[c]) \in Seq(Message)
  BY <1>1, HeadTailProperties
<1>3. /\ queue'[c] = Append(queue[c], Head(strand[c]))
      /\ strand'[c] = Tail(strand[c]) /\ written'[c] = written[c]
  BY DEF OnSend, TypeInv
<1>4. Unwritten(c)' = Append(Unwritten(c), Head(strand[c]))
  <2>1. CASE queue[c] = <<>>
    <3>1. writing[c] = <<>> /\ Len(queue'[c]) = 1
      BY <1>2, <1>3, <2>1 DEF WriteInv, OneWriteOfFront
    <3>2. writing'[c] = <<[message |-> Head(queue'[c]), result |-> "writing"]>>
      BY <3>1 DEF OnSend, TypeInv, StartsWrite, AsyncWrite
    <3>3. Head(writing'[c]).result = "writing"
      BY <3>2
    <3>4. QED
      BY <1>3, <3>1, <3>3 DEF Unwritten
  <2>2. CASE queue[c] # <<>>
    <3>1. Len(queue'[c]) # 1
      BY <1>1, <1>2, <1>3, <2>2, EmptySeq, AppendProperties
    <3>2. writing'[c] = writing[c]
      BY <3>1 DEF OnSend, StartsWrite
    <3>3. Tail(queue'[c]) = Append(Tail(queue[c]), Head(strand[c]))
      BY <1>1, <1>2, <1>3, <2>2, HeadTailAppend
    <3>4. QED
      BY <1>3, <3>2, <3>3 DEF Unwritten
  <2>3. QED
    BY <2>1, <2>2
<1> DEFINE u == Unwritten(c)
           w == written[c]
           s == strand[c]
<1>5. u \in Seq(Message) /\ w \in Seq(Message) /\ s \in Seq(Message) /\ s # <<>>
  BY <1>1, UnwrittenType
<1>6. UnderWay(c) = (w \o u) \o s
  BY UnderWayParts
<1>7. UnderWay(c)' = (w \o Append(u, Head(s))) \o Tail(s)
  BY <1>3, <1>4, UnderWayParts DEF UnderWay, Unwritten
<1>8. Head(s) \in Message /\ w \o u \in Seq(Message)
  BY <1>2, <1>5, ConcatProperties
<1> HIDE DEF u, w, s
<1>9. w \o Append(u, Head(s)) = Append(w \o u, Head(s))
  BY <1>5, <1>8, EndGrows
<1>10. Append(w \o u, Head(s)) \o Tail(s) = (w \o u) \o s
  BY <1>5, <1>8, FrontMoves
<1>11. QED
  BY <1>6, <1>7, <1>9, <1>10

LEMMA OnWriteUnderWay ==
  ASSUME TypeInv, WriteInv, NEW c \in Clients, OnWrite(c)
  PROVE  UnderWay(c)' = UnderWay(c)
<1>1. /\ writing[c] # <<>> /\ Head(writing[c]).result = "ok" /\ WriterOk(c)
      /\ writing[c] \in Seq(Write)
  BY WriteInvIsWriterOk DEF OnWrite, TypeInv
<1>2. Tail(writing[c]) = <<>>
  BY <1>1, OneWrite
<1>3. queue'[c] = Tail(queue[c]) /\ strand'[c] = strand[c] /\ written'[c] = written[c]
  BY DEF OnWrite, TypeInv
<1>4. writing'[c] = <<>> \/ Head(writing'[c]).result = "writing"
  <2>1. CASE Len(queue[c]) > 1
    <3>1. writing'[c] = Append(Tail(writing[c]), [message |-> Head(queue'[c]), result |-> "writing"])
      BY <2>1 DEF OnWrite, AsyncWrite, TypeInv
    <3>2. writing'[c] = <<[message |-> Head(queue'[c]), result |-> "writing"]>>
      BY <1>2, <3>1, AppendToEmpty
    <3>3. QED
      BY <3>2
  <2>2. CASE ~(Len(queue[c]) > 1)
    BY <1>2, <2>2 DEF OnWrite, TypeInv
  <2>3. QED
    BY <2>1, <2>2
<1>5. Unwritten(c)' = Tail(queue[c]) /\ Unwritten(c) = Tail(queue[c])
  BY <1>1, <1>3, <1>4 DEF Unwritten
<1>6. QED
  BY <1>3, <1>5, UnderWayParts DEF UnderWay, Unwritten

LEMMA OnWriteErrorUnderWay ==
  ASSUME TypeInv, WriteInv, NEW c \in Clients, OnWriteError(c)
  PROVE  UnderWay(c)' = UnderWay(c)
<1>1. writing[c] # <<>> /\ Head(writing[c]).result = "error" /\ WriterOk(c)
  BY WriteInvIsWriterOk DEF OnWriteError
<1>2. writing'[c] = <<>>
  BY <1>1, OneWrite DEF OnWriteError, TypeInv
<1>3. QED
  BY <1>1, <1>2 DEF OnWriteError, UnderWay

LEMMA WriteFailsUnderWay ==
  ASSUME TypeInv, WriteInv, NEW c \in Clients, WriteFails(c)
  PROVE  UnderWay(c)' = UnderWay(c)
<1>1. /\ writing[c] # <<>> /\ WriterOk(c) /\ Head(writing[c]).result = "writing"
      /\ UNCHANGED <<stage, strand, queue>>
  BY WriteInvIsWriterOk DEF WriteFails
<1>2. writing' = [writing EXCEPT ![c][1].result = "error"]
  BY DEF WriteFails
<1>3. Head(writing'[c]).result = "error"
  BY <1>1, <1>2, WriterResult
<1>4. QED
  BY <1>1, <1>3 DEF WriteFails, UnderWay

LEMMA WriteCompletesUnderWay ==
  ASSUME TypeInv, WriteInv, NEW c \in Clients, WriteCompletes(c)
  PROVE  UnderWay(c)' = UnderWay(c)
<1>1. /\ writing[c] # <<>> /\ WriterOk(c) /\ Head(writing[c]).result = "writing"
      /\ UNCHANGED <<stage, strand, queue>>
      /\ queue[c] \in Seq(Message) /\ written[c] \in Seq(Message)
  BY WriteInvIsWriterOk DEF WriteCompletes, TypeInv
<1>2. writing' = [writing EXCEPT ![c][1].result = "ok"]
  BY DEF WriteCompletes
<1>3. Head(writing'[c]).result = "ok" /\ writing'[c] # <<>>
  BY <1>1, <1>2, WriterResult
<1>4. queue[c] # <<>> /\ Head(writing[c]).message = Head(queue[c])
  BY <1>1 DEF WriterOk
<1>5. written'[c] = Append(written[c], Head(queue[c]))
  BY <1>4 DEF WriteCompletes, TypeInv
<1>6. Unwritten(c) = queue[c] /\ Unwritten(c)' = Tail(queue[c])
  BY <1>1, <1>3 DEF Unwritten
<1>7. Append(written[c], Head(queue[c])) \o Tail(queue[c]) = written[c] \o queue[c]
  BY <1>1, <1>4, FrontMoves
<1>8. UnderWay(c)' = (written'[c] \o Unwritten(c)') \o strand[c]
  BY <1>1 DEF UnderWay, Unwritten
<1>9. UnderWay(c) = (written[c] \o Unwritten(c)) \o strand[c]
  BY UnderWayParts
<1>10. QED
  BY <1>5, <1>6, <1>7, <1>8, <1>9

\* PassOn puts the newest message of its session at the end, if there is still
\* a session to have it.
LEMMA PassOnUnderWay ==
  ASSUME TypeInv, WriteInv, NEW c \in Clients, NEW d \in Clients, PassOn(c, d)
  PROVE  /\ ~Lockable(d) => UnderWay(d)' = UnderWay(d)
         /\ Lockable(d) => UnderWay(d)' = Append(UnderWay(d), [from |-> c, num |-> count[c]])
<1> DEFINE m == [from |-> c, num |-> count[c]]
<1>1. m \in Message /\ strand[d] \in Seq(Message) /\ written[d] \in Seq(Message)
  BY DEF TypeInv, Message
<1>2. UNCHANGED <<queue, writing, written>>
  BY DEF PassOn
<1>3. CASE ~Lockable(d)
  BY <1>2, <1>3 DEF PassOn, UnderWay
<1>4. CASE Lockable(d)
  <2>1. strand'[d] = Append(strand[d], m)
    BY <1>4 DEF PassOn, TypeInv
  <2> DEFINE w == written[d] \o Unwritten(d)
             s == strand[d]
  <2>2. UnderWay(d)' = w \o Append(s, m)
    BY <1>2, <2>1 DEF UnderWay, Unwritten
  <2>3. w \in Seq(Message) /\ s \in Seq(Message)
    BY <1>1, UnwrittenType, ConcatProperties
  <2>4. UnderWay(d) = w \o s
    BY UnderWayParts
  <2> HIDE DEF m, w, s
  <2>5. UnderWay(d)' = Append(UnderWay(d), m)
    BY <1>1, <2>2, <2>3, <2>4, EndGrows
  <2>6. QED
    BY <1>4, <2>5 DEF m
<1>5. QED
  BY <1>3, <1>4

\* All other steps leave what is under way to a session as it is.
LEMMA UnderWayKept ==
  ASSUME TypeInv, WriteInv, NEW e \in Clients, [Next]_vars,
         ~\E c \in Clients : PassOn(c, e)
  PROVE  UnderWay(e)' = UnderWay(e)
<1>1. CASE UNCHANGED <<written, queue, writing, strand>>
  BY <1>1 DEF UnderWay
<1>2. ASSUME NEW c \in Clients, Upgrade(c) \/ Break(c) \/ OnRead(c) \/ OnAccept(c)
                                \/ OnAcceptError(c) \/ ReadAgain(c) \/ OnReadError(c)
                                \/ LastReference(c) \/ Leave(c)
      PROVE UnderWay(e)' = UnderWay(e)
  BY <1>1, <1>2 DEF Upgrade, Break, OnRead, OnAccept, OnAcceptError, ReadAgain, OnReadError,
                    LastReference, Leave
<1>3. ASSUME NEW c \in Clients, WriteCompletes(c) \/ WriteFails(c) \/ StrandStep(c)
      PROVE UnderWay(e)' = UnderWay(e)
  <2>1. CASE e = c
    BY <1>3, <2>1, WriteCompletesUnderWay, WriteFailsUnderWay, OnSendUnderWay, OnWriteUnderWay,
       OnWriteErrorUnderWay DEF StrandStep
  <2>2. CASE e # c
    <3>1. /\ strand'[e] = strand[e] /\ queue'[e] = queue[e]
          /\ writing'[e] = writing[e] /\ written'[e] = written[e]
      BY <1>3, <2>2 DEF WriteCompletes, WriteFails, StrandStep, OnSend, OnWrite, OnWriteError, TypeInv
    <3>2. QED
      BY <3>1 DEF UnderWay
  <2>3. QED
    BY <2>1, <2>2
<1>4. ASSUME NEW c \in Clients, NEW d \in Clients, PassOn(c, d), d # e
      PROVE UnderWay(e)' = UnderWay(e)
  <2>1. /\ strand'[e] = strand[e] /\ queue'[e] = queue[e]
        /\ writing'[e] = writing[e] /\ written'[e] = written[e]
    BY <1>4 DEF PassOn, TypeInv
  <2>2. QED
    BY <2>1 DEF UnderWay
<1>5. CASE UNCHANGED vars
  BY <1>1, <1>5 DEF vars
<1>6. QED
  BY <1>2, <1>3, <1>4, <1>5 DEF Next, SessionStep
-----------------------------------------------------------------------------
(* The order of messages.                                                  *)

\* A message of s, one after its last, goes to the end.
LEMMA EndIsConsecutive ==
  ASSUME NEW all \in Seq(Message), NEW m \in Message, InOrder(all),
         \A i \in 1..Len(all) : LastOfSender(all, i) /\ all[i].from = m.from => m.num = all[i].num + 1
  PROVE  InOrder(Append(all, m))
<1> DEFINE new == Append(all, m)
           n == Len(all)
<1>1. /\ n \in Nat /\ Len(new) = n + 1
      /\ \A i \in 1..n : new[i] = all[i]
      /\ new[n + 1] = m
  BY AppendProperties, LenProperties
<1> HIDE DEF new
<1> SUFFICES ASSUME NEW i \in 1..Len(new), NEW j \in 1..Len(new), i < j, new[i].from = new[j].from,
                    \A k \in i + 1..j - 1 : new[k].from # new[i].from
             PROVE  new[j].num = new[i].num + 1
  BY DEF new, InOrder
<1>2. i \in 1..n
  BY <1>1
<1>3. CASE j = n + 1
  <2>1. \A k \in i + 1..n : all[k].from # all[i].from
    BY <1>1, <1>2, <1>3
  <2>2. LastOfSender(all, i)
    BY <2>1 DEF LastOfSender
  <2>3. QED
    BY <1>1, <1>2, <1>3, <2>2
<1>4. CASE j \in 1..n
  <2>1. \A k \in i + 1..j - 1 : all[k].from # all[i].from
    BY <1>1, <1>2, <1>4
  <2>2. QED
    BY <1>1, <1>2, <1>4, <2>1 DEF InOrder
<1>5. j \in 1..n \/ j = n + 1
  <2>1. \A k \in Nat : \A l \in 1..k + 1 : l \in 1..k \/ l = k + 1
    OBVIOUS
  <2>2. j \in 1..n + 1
    BY <1>1
  <2>3. QED
    BY <1>1, <2>1, <2>2
<1>6. QED
  BY <1>3, <1>4, <1>5

\* What the newest messages are when one goes to the end.
LEMMA EndIsLast ==
  ASSUME NEW all \in Seq(Message), NEW m \in Message, NEW i \in 1..Len(Append(all, m)),
         LastOfSender(Append(all, m), i)
  PROVE  \/ Append(all, m)[i] = m
         \/ /\ i \in 1..Len(all) /\ LastOfSender(all, i)
            /\ Append(all, m)[i] = all[i] /\ all[i].from # m.from
<1> DEFINE new == Append(all, m)
           n == Len(all)
<1>1. /\ n \in Nat /\ Len(new) = n + 1
      /\ \A k \in 1..n : new[k] = all[k]
      /\ new[n + 1] = m
  BY AppendProperties, LenProperties
<1> HIDE DEF new
<1>2. i \in 1..Len(new) /\ \A k \in i + 1..Len(new) : new[k].from # new[i].from
  BY DEF new, LastOfSender
<1>3. CASE i = n + 1
  BY <1>1, <1>3 DEF new
<1>4. CASE i \in 1..n
  <2>1. m.from # new[i].from
    BY <1>1, <1>2, <1>4
  <2>2. \A k \in i + 1..n : all[k].from # all[i].from
    BY <1>1, <1>2, <1>4
  <2>3. QED
    BY <1>1, <1>4, <2>1, <2>2 DEF new, LastOfSender
<1>5. QED
  BY <1>1, <1>2, <1>3, <1>4

LEMMA MessageParts == \A m \in Message : m.from \in Clients /\ m.num \in Nat
  BY DEF Message

\* Newest, and order, where a message is passed on to d.
LEMMA PassOnStream ==
  ASSUME TypeInv, RoomInv, WriteInv, StreamInv,
         NEW c \in Clients, NEW d \in Clients, PassOn(c, d), Lockable(d)
  PROVE  /\ InOrder(UnderWay(d)')
         /\ Newest(d)'
         /\ d \in room
<1> DEFINE all == UnderWay(d)
           m == [from |-> c, num |-> count[c]]
<1>1. /\ all \in Seq(Message) /\ m \in Message /\ UnderWay(d)' = Append(all, m)
      /\ m.from = c /\ m.num = count[c]
  BY UnderWayType, PassOnUnderWay DEF TypeInv, Message
<1>2. d \in pending[c] /\ count' = count /\ d \notin pending'[c] /\ count[c] \in Nat
  BY DEF PassOn, TypeInv
<1>3. d \in room
  BY <1>2 DEF RoomInv
<1>4. \A i \in 1..Len(all) : LastOfSender(all, i) =>
        count[all[i].from] = all[i].num + (IF d \in pending[all[i].from] THEN 1 ELSE 0)
  BY DEF StreamInv, Newest
<1>5. InOrder(all)
  BY DEF StreamInv, Consecutive, InOrder
<1> HIDE DEF all, m
<1>6. \A i \in 1..Len(all) : LastOfSender(all, i) /\ all[i].from = m.from => m.num = all[i].num + 1
  BY <1>1, <1>2, <1>4
<1>7. ASSUME NEW i \in 1..Len(Append(all, m)), LastOfSender(Append(all, m), i)
      PROVE  count'[Append(all, m)[i].from]
               = Append(all, m)[i].num + (IF d \in pending'[Append(all, m)[i].from] THEN 1 ELSE 0)
  <2>1. CASE Append(all, m)[i] = m
    BY <1>1, <1>2, <2>1
  <2>2. CASE /\ i \in 1..Len(all) /\ LastOfSender(all, i)
             /\ Append(all, m)[i] = all[i] /\ all[i].from # m.from
    <3>1. all[i].from \in Clients
      BY <1>1, <2>2, MessageParts
    <3>2. pending'[all[i].from] = pending[all[i].from]
      BY <1>1, <2>2, <3>1 DEF PassOn, TypeInv
    <3>3. QED
      BY <1>2, <1>4, <2>2, <3>2
  <2>3. QED
    BY <1>1, <1>7, <2>1, <2>2, EndIsLast
<1>8. Newest(d)'
  BY <1>1, <1>7 DEF Newest
<1>9. InOrder(Append(all, m))
  BY <1>1, <1>5, <1>6, EndIsConsecutive
<1>10. QED
  BY <1>1, <1>3, <1>8, <1>9

LEMMA NewestKept ==
  ASSUME TypeInv, WriteInv, NEW e \in Clients, Newest(e), UnderWay(e)' = UnderWay(e),
         UnderWay(e) # <<>> =>
           \A s \in Clients :
             \/ count'[s] = count[s] /\ (e \in pending'[s] <=> e \in pending[s])
             \/ count'[s] = count[s] + 1 /\ e \in pending'[s] /\ e \notin pending[s]
  PROVE  Newest(e)'
<1> DEFINE all == UnderWay(e)
<1>1. all \in Seq(Message)
  BY UnderWayType
<1>2. \A i \in 1..Len(all) : LastOfSender(all, i) =>
        count[all[i].from] = all[i].num + (IF e \in pending[all[i].from] THEN 1 ELSE 0)
  BY DEF Newest
<1> SUFFICES ASSUME NEW i \in 1..Len(all), LastOfSender(all, i)
             PROVE  count'[all[i].from] = all[i].num + (IF e \in pending'[all[i].from] THEN 1 ELSE 0)
  BY DEF Newest
<1>3. all # <<>>
  BY <1>1
<1> HIDE DEF all
<1>4. all[i].from \in Clients /\ all[i].num \in Nat
  BY <1>1, MessageParts
<1>5. CASE count'[all[i].from] = count[all[i].from]
           /\ (e \in pending'[all[i].from] <=> e \in pending[all[i].from])
  BY <1>2, <1>5
<1>6. CASE count'[all[i].from] = count[all[i].from] + 1
           /\ e \in pending'[all[i].from] /\ e \notin pending[all[i].from]
  BY <1>2, <1>4, <1>6
<1>7. QED
  BY <1>3, <1>4, <1>5, <1>6 DEF all

\* Where nothing is passed on to e: e stays in the room while it has messages,
\* and only a message e is to get makes it behind.
LEMMA Unpassed ==
  ASSUME TypeInv, RoomInv, WriteInv, StreamInv, [Next]_vars, NEW e \in Clients,
         Lockable(e)', UnderWay(e) # <<>>,
         ~\E c \in Clients : PassOn(c, e)
  PROVE  /\ Lockable(e) /\ e \in room'
         /\ \A s \in Clients :
              \/ count'[s] = count[s] /\ (e \in pending'[s] <=> e \in pending[s])
              \/ count'[s] = count[s] + 1 /\ e \in pending'[s] /\ e \notin pending[s]
<1>0. stage \in [Clients -> Stages] /\ count \in [Clients -> Nat] /\ pending \in [Clients -> SUBSET Clients]
  BY DEF TypeInv
<1>1. Lockable(e)
  BY <1>0 DEF Next, SessionStep, StrandStep, Upgrade, Break, OnRead, WriteCompletes, WriteFails, OnAccept,
     OnAcceptError, PassOn, ReadAgain, OnReadError, LastReference, Leave, OnSend, OnWrite, OnWriteError,
     To, Lockable, vars
<1>2. e \in room
  BY <1>1 DEF StreamInv
<1>3. e \in room'
  <2>1. ASSUME NEW c \in Clients, Leave(c) PROVE e \in room'
    <3>1. e # c
      BY <1>0, <2>1 DEF Leave, To, Lockable
    <3>2. QED
      BY <1>2, <2>1, <3>1 DEF Leave
  <2>2. ASSUME NEW c \in Clients, OnAccept(c) PROVE e \in room'
    BY <1>2, <2>2 DEF OnAccept
  <2>3. QED
    BY <1>2, <2>1, <2>2 DEF Next, SessionStep, StrandStep, Upgrade, Break, OnRead, WriteCompletes, WriteFails,
       OnAcceptError, PassOn, ReadAgain, OnReadError, LastReference, OnSend, OnWrite, OnWriteError, vars
<1>4. ASSUME NEW s \in Clients
      PROVE  \/ count'[s] = count[s] /\ (e \in pending'[s] <=> e \in pending[s])
             \/ count'[s] = count[s] + 1 /\ e \in pending'[s] /\ e \notin pending[s]
  <2>1. ASSUME NEW c \in Clients, OnRead(c)
        PROVE  \/ count'[s] = count[s] /\ (e \in pending'[s] <=> e \in pending[s])
               \/ count'[s] = count[s] + 1 /\ e \in pending'[s] /\ e \notin pending[s]
    <3>1. CASE s = c
      <4>1. pending'[c] = room /\ count'[c] = count[c] + 1
        BY <1>0, <2>1 DEF OnRead
      <4>2. pending[c] = {}
        BY <2>1 DEF OnRead, RoomInv
      <4>3. QED
        BY <1>2, <3>1, <4>1, <4>2
    <3>2. CASE s # c
      BY <1>0, <2>1, <3>2 DEF OnRead
    <3>3. QED
      BY <3>1, <3>2
  <2>2. ASSUME NEW c \in Clients, NEW d \in Clients, PassOn(c, d), d # e
        PROVE  count'[s] = count[s] /\ (e \in pending'[s] <=> e \in pending[s])
    BY <1>0, <2>2 DEF PassOn
  <2>3. CASE UNCHANGED <<count, pending>>
    BY <2>3
  <2>4. QED
    BY <2>1, <2>2, <2>3 DEF Next, SessionStep, StrandStep, Upgrade, Break, WriteCompletes, WriteFails,
       OnAccept, OnAcceptError, ReadAgain, OnReadError, LastReference, Leave, OnSend, OnWrite, OnWriteError, vars
<1>5. QED
  BY <1>1, <1>3, <1>4

LEMMA StreamKept ==
  TypeInv /\ RoomInv /\ WriteInv /\ StreamInv /\ [Next]_vars => StreamInv'
<1> SUFFICES ASSUME TypeInv, RoomInv, WriteInv, StreamInv, [Next]_vars, NEW e \in Clients
             PROVE  /\ InOrder(UnderWay(e)')
                    /\ Lockable(e)' => /\ UnderWay(e)' # <<>> => e \in room'
                                       /\ Newest(e)'
  BY DEF StreamInv, Consecutive, InOrder
<1>0. InOrder(UnderWay(e))
  BY DEF StreamInv, Consecutive, InOrder
<1>1. ASSUME NEW c \in Clients, PassOn(c, e), Lockable(e)
      PROVE  /\ InOrder(UnderWay(e)')
             /\ Newest(e)'
             /\ e \in room'
  BY <1>1, PassOnStream DEF PassOn
<1>2. CASE \E c \in Clients : PassOn(c, e) /\ ~Lockable(e)
  <2>1. UnderWay(e)' = UnderWay(e) /\ ~Lockable(e)'
    BY <1>2, PassOnUnderWay DEF PassOn, Lockable
  <2>2. QED
    BY <1>0, <2>1
<1>3. CASE ~\E c \in Clients : PassOn(c, e)
  <2>1. UnderWay(e)' = UnderWay(e)
    BY <1>3, UnderWayKept
  <2>2. ASSUME Lockable(e)', UnderWay(e) # <<>> PROVE Newest(e)' /\ e \in room'
    <3>1. Lockable(e)
      BY <1>3, <2>2, Unpassed
    <3>2. Newest(e)
      BY <3>1 DEF StreamInv
    <3>3. QED
      BY <1>3, <2>1, <2>2, <3>2, Unpassed, NewestKept
  <2>3. UnderWay(e) = <<>> => Newest(e)'
    BY <2>1 DEF Newest
  <2>4. QED
    BY <1>0, <2>1, <2>2, <2>3
<1>4. QED
  BY <1>1, <1>2, <1>3

(***************************************************************************)
(* What a client gets of a sender are consecutive messages, in order, none *)
(* twice: shared_state::send posts them to the strands without the mutex,  *)
(* while sessions join, end and are freed.                                 *)
(***************************************************************************)
THEOREM OrderSafe == Spec => []Consecutive
<1>1. Init => IInv
  <2>1. ASSUME Init, NEW c \in Clients PROVE UnderWay(c) = <<>>
    BY <2>1 DEF Init, UnderWay
  <2>2. Init => StreamInv
    BY <2>1 DEF StreamInv, Consecutive, Newest
  <2>3. Init => RoomInv
    BY DEF Init, RoomInv
  <2>4. QED
    BY <2>2, <2>3, InitTypes, InitWriters DEF IInv
<1>2. IInv /\ [Next]_vars => IInv'
  BY Types, RoomKept, WritersKept, StreamKept DEF IInv
<1>3. IInv => Consecutive
  BY DEF IInv, StreamInv
<1>4. QED
  BY <1>1, <1>2, <1>3, PTL DEF Spec
=============================================================================
