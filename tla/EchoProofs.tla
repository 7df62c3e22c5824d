----------------------------- MODULE EchoProofs -----------------------------
(***************************************************************************)
(* Proofs about the echo servers, for both pairs, any number of clients,   *)
(* any size of the requests, of the network and of the buffer: what a      *)
(* client reads back is what it wrote.                                     *)
(*                                                                         *)
(* The argument: the units of a connection that the client has written and *)
(* not read back are in three places, on the way to the client, in the     *)
(* coroutine and on the way to the server, oldest first; a unit moves only *)
(* from one of them to the next, since a coroutine that reads has nothing  *)
(* left to write (FlowInv).                                                *)
(***************************************************************************)
EXTENDS Echo, SequenceTheorems, TLAPS

ClientStates == {"new", "mute", "handshake", "writing", "reading", "closing", "done", "failed"}
SessionStates == {"none", "connected", "handshake", "reading", "writing", "ended"}
Flows == [Clients -> Seq(Nat)]

TypeInv ==
  /\ webSocket \in BOOLEAN
  /\ client \in [Clients -> ClientStates]
  /\ session \in [Clients -> SessionStates]
  /\ toServer \in Flows
  /\ data \in Flows
  /\ toClient \in Flows
  /\ reply \in Flows
  /\ written \in [Clients -> Nat]

\* A coroutine holds units only while it writes, or when it has ended.
FlowOf(c) ==
  /\ client[c] = "new" => session[c] = "none"
  /\ session[c] = "writing" => data[c] # <<>>
  /\ session[c] \notin {"writing", "ended"} => data[c] = <<>>
  /\ Len(toServer[c]) <= Capacity
  /\ Len(data[c]) <= ChunkMax
  /\ Len(toClient[c]) <= Capacity

FlowInv == \A c \in Clients : FlowOf(c)

IInv == TypeInv /\ FlowInv

-----------------------------------------------------------------------------
(* Sequences.                                                              *)

LEMMA TailOfConcat ==
  ASSUME NEW S, NEW s \in Seq(S), NEW t \in Seq(S), s # <<>>
  PROVE  s \o t # <<>> /\ Head(s \o t) = Head(s) /\ Tail(s \o t) = Tail(s) \o t
<1>1. Len(s) \in Nat \ {0} /\ Len(t) \in Nat
  BY EmptySeq
<1>2. /\ s \o t \in Seq(S) /\ Len(s \o t) = Len(s) + Len(t)
      /\ \A i \in 1..Len(s) + Len(t) : (s \o t)[i] = IF i <= Len(s) THEN s[i] ELSE t[i - Len(s)]
  BY ConcatProperties
<1>3. s \o t # <<>>
  BY <1>1, <1>2, EmptySeq
<1>4. Head(s \o t) = Head(s)
  BY <1>1, <1>2, <1>3
<1>5. /\ Tail(s) \in Seq(S) /\ Len(Tail(s)) = Len(s) - 1
      /\ \A i \in 1..Len(s) - 1 : Tail(s)[i] = s[i + 1]
  BY HeadTailProperties
<1>6. /\ Tail(s \o t) \in Seq(S) /\ Len(Tail(s \o t)) = Len(s) + Len(t) - 1
      /\ \A i \in 1..Len(s) + Len(t) - 1 : Tail(s \o t)[i] = (s \o t)[i + 1]
  BY <1>2, <1>3, HeadTailProperties
<1>7. /\ Tail(s) \o t \in Seq(S) /\ Len(Tail(s) \o t) = Len(s) - 1 + Len(t)
      /\ \A i \in 1..Len(s) - 1 + Len(t) :
           (Tail(s) \o t)[i] = IF i <= Len(s) - 1 THEN Tail(s)[i] ELSE t[i - (Len(s) - 1)]
  BY <1>5, ConcatProperties
<1>8. ASSUME NEW i \in 1..Len(s) + Len(t) - 1 PROVE Tail(s \o t)[i] = (Tail(s) \o t)[i]
  <2>1. i + 1 \in 1..Len(s) + Len(t) /\ i \in 1..Len(s) - 1 + Len(t)
    BY <1>1
  <2>2. CASE i <= Len(s) - 1
    <3>1. i \in 1..Len(s) - 1 /\ i + 1 <= Len(s)
      BY <1>1, <2>2
    <3> QED BY <1>2, <1>5, <1>6, <1>7, <2>1, <2>2, <3>1
  <2>3. CASE ~(i <= Len(s) - 1)
    <3>1. ~(i + 1 <= Len(s)) /\ (i + 1) - Len(s) = i - (Len(s) - 1)
      BY <1>1, <2>3
    <3> QED BY <1>2, <1>6, <1>7, <2>1, <2>3, <3>1
  <2> QED BY <2>2, <2>3
<1>9. Tail(s \o t) = Tail(s) \o t
  <2>1. Len(Tail(s \o t)) = Len(Tail(s) \o t)
    BY <1>1, <1>6, <1>7
  <2> QED BY <1>6, <1>7, <1>8, <2>1, SeqEqual
<1> QED BY <1>3, <1>4, <1>9

LEMMA HeadAndTail ==
  ASSUME NEW S, NEW s \in Seq(S), s # <<>>
  PROVE  Head(s) \in S /\ <<Head(s)>> \in Seq(S) /\ Tail(s) \in Seq(S) /\ <<Head(s)>> \o Tail(s) = s
<1>1. Head(s) \in S /\ Tail(s) \in Seq(S)
  BY HeadTailProperties
<1>2. Len(s) \in Nat \ {0}
  BY EmptySeq
<1>3. 1 \in 1..Len(s) /\ Len(s) \in 1..Len(s)
  BY <1>2
<1>4. SubSeq(s, 1, Len(s)) = <<s[1]>> \o SubSeq(s, 1 + 1, Len(s))
  BY <1>3, SubSeqRecursiveFirst
<1>5. SubSeq(s, 1, Len(s)) = s /\ Tail(s) = SubSeq(s, 2, Len(s)) /\ Head(s) = s[1]
  BY SubSeqFull, TailIsSubSeq
<1>6. <<Head(s)>> \in Seq(S)
  BY <1>1
<1> QED BY <1>1, <1>4, <1>5, <1>6

\* The two parts of what a coroutine reads from.
LEMMA ReadSplits ==
  ASSUME NEW S, NEW s \in Seq(S), NEW n \in 1..Len(s)
  PROVE  /\ SubSeq(s, 1, n) \in Seq(S) /\ Len(SubSeq(s, 1, n)) = n
         /\ SubSeq(s, n + 1, Len(s)) \in Seq(S) /\ Len(SubSeq(s, n + 1, Len(s))) = Len(s) - n
         /\ SubSeq(s, 1, n) \o SubSeq(s, n + 1, Len(s)) = s
<1>1. Len(s) \in Nat
  OBVIOUS
<1>2. n \in Nat \ {0} /\ n <= Len(s)
  BY <1>1
<1>3. SubSeq(s, 1, n) \in Seq(S) /\ Len(SubSeq(s, 1, n)) = n
  <2>1. \A i \in 1..n : s[i] \in S
    BY <1>1, <1>2, ElementOfSeq
  <2> QED BY <1>1, <1>2, <2>1, SubSeqProperties
<1>4. SubSeq(s, n + 1, Len(s)) \in Seq(S) /\ Len(SubSeq(s, n + 1, Len(s))) = Len(s) - n
  <2>1. \A i \in n + 1..Len(s) : s[i] \in S
    BY <1>1, <1>2, ElementOfSeq
  <2> QED BY <1>1, <1>2, <2>1, SubSeqProperties
<1>5. SubSeq(s, 1, n) \o SubSeq(s, n + 1, Len(s)) = s
  <2>1. SubSeq(s, 1, n) \o SubSeq(s, n + 1, Len(s)) = SubSeq(s, 1, Len(s))
    BY <1>1, <1>2, ConcatAdjacentSubSeq
  <2> QED BY <2>1, SubSeqFull
<1> QED BY <1>3, <1>4, <1>5

\* A sequence of three parts: a unit is added to the last of them, taken from
\* the first, cut off the last when the middle is empty, or goes from the middle
\* to the first.
LEMMA PartsAppend ==
  ASSUME NEW S, NEW s \in Seq(S), NEW t \in Seq(S), NEW x \in S
  PROVE  s \o Append(t, x) = Append(s \o t, x)
<1>1. Append(t, x) = t \o <<x>> /\ <<x>> \in Seq(S) /\ s \o t \in Seq(S)
  BY AppendIsConcat, ConcatProperties
<1>2. Append(s \o t, x) = (s \o t) \o <<x>>
  BY <1>1, AppendIsConcat
<1> QED BY <1>1, <1>2, ConcatAssociative

LEMMA PartsTail ==
  ASSUME NEW s \in Seq(Nat), NEW t \in Seq(Nat), NEW u \in Seq(Nat), s # <<>>
  PROVE  /\ s \o t \o u # <<>> /\ Head(s \o t \o u) = Head(s)
         /\ Tail(s \o t \o u) = Tail(s) \o t \o u
<1>1. PICK v \in Seq(Nat) : v = s \o t
  BY ConcatProperties
<1>2. v # <<>> /\ Head(v) = Head(s) /\ Tail(v) = Tail(s) \o t
  BY <1>1, TailOfConcat
<1>3. v \o u # <<>> /\ Head(v \o u) = Head(v) /\ Tail(v \o u) = Tail(v) \o u
  BY <1>2, TailOfConcat
<1> QED BY <1>1, <1>2, <1>3

LEMMA PartsCut ==
  ASSUME NEW S, NEW s \in Seq(S), NEW u \in Seq(S), NEW n \in 1..Len(u)
  PROVE  s \o SubSeq(u, 1, n) \o SubSeq(u, n + 1, Len(u)) = s \o <<>> \o u
<1>1. /\ SubSeq(u, 1, n) \in Seq(S) /\ SubSeq(u, n + 1, Len(u)) \in Seq(S)
      /\ SubSeq(u, 1, n) \o SubSeq(u, n + 1, Len(u)) = u
  BY ReadSplits
<1>2. (s \o SubSeq(u, 1, n)) \o SubSeq(u, n + 1, Len(u))
        = s \o (SubSeq(u, 1, n) \o SubSeq(u, n + 1, Len(u)))
  <2>1. ASSUME NEW v \in Seq(S), NEW w \in Seq(S) PROVE (s \o v) \o w = s \o (v \o w)
    BY ConcatAssociative, SMTT(60)
  <2> QED BY <1>1, <2>1
<1>3. s \o <<>> = s
  BY ConcatEmptySeq
<1> QED BY <1>1, <1>2, <1>3

LEMMA PartsShift ==
  ASSUME NEW S, NEW s \in Seq(S), NEW t \in Seq(S), t # <<>>
  PROVE  Append(s, Head(t)) \o Tail(t) = s \o t
<1>1. Head(t) \in S /\ <<Head(t)>> \in Seq(S) /\ <<Head(t)>> \o Tail(t) = t
  BY HeadAndTail
<1>2. PICK v \in Seq(S) : v = <<Head(t)>>
  BY <1>1
<1>3. PICK w \in Seq(S) : w = Tail(t)
  BY HeadAndTail
<1>4. Append(s, Head(t)) = s \o v
  BY <1>1, <1>2, AppendIsConcat
<1>5. (s \o v) \o w = s \o (v \o w)
  BY ConcatAssociative
<1> QED BY <1>1, <1>2, <1>3, <1>4, <1>5

-----------------------------------------------------------------------------
(* The invariant.                                                          *)

LEMMA InitIInv == Init => IInv
<1> SUFFICES ASSUME Init PROVE IInv
  OBVIOUS
<1> USE EchoAssumption
<1>1. <<>> \in Seq(Nat) /\ Len(<<>>) = 0
  BY EmptySeq
<1>2. TypeInv
  BY <1>1 DEF Init, TypeInv, Empty, Flows, ClientStates, SessionStates
<1>3. 0 <= Capacity /\ 0 <= ChunkMax
  OBVIOUS
<1>4. ASSUME NEW c \in Clients PROVE FlowOf(c)
  <2>1. toServer[c] = <<>> /\ data[c] = <<>> /\ toClient[c] = <<>>
    BY DEF Init, Empty
  <2>2. session[c] = "none"
    BY DEF Init
  <2> QED BY <1>1, <1>3, <2>1, <2>2 DEF FlowOf
<1> QED BY <1>2, <1>4 DEF IInv, FlowInv

\* The steps that move a unit.
LEMMA ClientWritesKeeps ==
  ASSUME IInv, NEW c \in Clients, ClientWrites(c)
  PROVE  IInv'
<1> USE EchoAssumption DEF IInv
<1>1. /\ Append(toServer[c], written[c] + 1) \in Seq(Nat)
      /\ Len(Append(toServer[c], written[c] + 1)) = Len(toServer[c]) + 1
  BY AppendProperties DEF TypeInv, Flows
<1>2. TypeInv'
  BY <1>1 DEF TypeInv, ClientWrites, ClientGoesTo, config, Flows, ClientStates
<1>3. ASSUME NEW d \in Clients PROVE FlowOf(d)'
  <2>1. Len(toServer[c]) \in Nat
    BY DEF TypeInv, Flows
  <2>2. FlowOf(d)
    BY DEF FlowInv
  <2>3. CASE d = c
    BY <1>1, <2>1, <2>2, <2>3 DEF TypeInv, FlowOf, ClientWrites, ClientGoesTo, Flows
  <2>4. CASE d # c
    BY <2>2, <2>4 DEF TypeInv, FlowOf, ClientWrites, ClientGoesTo, Flows
  <2> QED BY <2>3, <2>4
<1> QED BY <1>2, <1>3 DEF FlowInv

LEMMA ClientReadsKeeps ==
  ASSUME IInv, NEW c \in Clients, ClientReads(c)
  PROVE  IInv'
<1> USE EchoAssumption DEF IInv
<1>1. toClient[c] \in Seq(Nat) /\ toClient[c] # <<>> /\ reply[c] \in Seq(Nat)
  BY DEF ClientReads, TypeInv, Flows
<1>2. /\ Head(toClient[c]) \in Nat /\ Tail(toClient[c]) \in Seq(Nat)
      /\ Len(Tail(toClient[c])) = Len(toClient[c]) - 1
      /\ Append(reply[c], Head(toClient[c])) \in Seq(Nat)
  BY <1>1, HeadTailProperties
<1>3. TypeInv'
  BY <1>2 DEF TypeInv, ClientReads, config, Flows
<1>4. ASSUME NEW d \in Clients PROVE FlowOf(d)'
  <2>1. Len(toClient[c]) \in Nat
    BY <1>1
  <2>2. FlowOf(d)
    BY DEF FlowInv
  <2>3. CASE d = c
    BY <1>2, <2>1, <2>2, <2>3 DEF TypeInv, FlowOf, ClientReads, Flows
  <2>4. CASE d # c
    BY <2>2, <2>4 DEF TypeInv, FlowOf, ClientReads, Flows
  <2> QED BY <2>3, <2>4
<1> QED BY <1>3, <1>4 DEF FlowInv

\* What is read is at least one unit, and fits into the buffer.
LEMMA SessionReadsKeeps ==
  ASSUME IInv, NEW c \in Clients, SessionReads(c)
  PROVE  IInv'
<1> USE EchoAssumption DEF IInv
<1>1. toServer[c] \in Seq(Nat)
  BY DEF TypeInv, Flows
<1>2. PICK n \in Chunks(toServer[c]) :
        /\ data' = [data EXCEPT ![c] = SubSeq(toServer[c], 1, n)]
        /\ toServer' = [toServer EXCEPT ![c] = SubSeq(@, n + 1, Len(@))]
  BY DEF SessionReads
<1>3. n \in 1..Len(toServer[c]) /\ n <= ChunkMax
  BY DEF Chunks
<1>4. /\ SubSeq(toServer[c], 1, n) \in Seq(Nat) /\ Len(SubSeq(toServer[c], 1, n)) = n
      /\ SubSeq(toServer[c], n + 1, Len(toServer[c])) \in Seq(Nat)
      /\ Len(SubSeq(toServer[c], n + 1, Len(toServer[c]))) = Len(toServer[c]) - n
  BY <1>1, <1>3, ReadSplits
<1>5. TypeInv'
  BY <1>2, <1>4 DEF TypeInv, SessionReads, SessionGoesTo, config, Flows, SessionStates
<1>6. ASSUME NEW d \in Clients PROVE FlowOf(d)'
  <2>1. FlowOf(d)
    BY DEF FlowInv
  <2>2. CASE d = c
    <3>1. SubSeq(toServer[c], 1, n) # <<>>
      BY <1>3, <1>4, EmptySeq
    <3>2. /\ data'[c] = SubSeq(toServer[c], 1, n)
          /\ toServer'[c] = SubSeq(toServer[c], n + 1, Len(toServer[c]))
          /\ client' = client /\ toClient' = toClient
          /\ session[c] = "reading" /\ session'[c] = "writing"
      BY <1>2 DEF TypeInv, SessionReads, SessionGoesTo, Flows
    <3>3. Len(toServer[c]) \in Nat /\ n \in Nat
      BY <1>1, <1>3
    <3>4. Len(toServer[c]) - n <= Capacity
      <4>1. Len(toServer[c]) <= Capacity
        BY <2>1, <2>2 DEF FlowOf
      <4> QED BY <3>3, <4>1
    <3>5. Len(toServer'[c]) <= Capacity /\ Len(data'[c]) <= ChunkMax /\ data'[c] # <<>>
      BY <1>3, <1>4, <3>1, <3>2, <3>4
    <3> QED BY <2>1, <2>2, <3>2, <3>5 DEF FlowOf
  <2>3. CASE d # c
    BY <1>2, <2>1, <2>3 DEF TypeInv, FlowOf, SessionReads, SessionGoesTo, Flows
  <2> QED BY <2>2, <2>3
<1> QED BY <1>5, <1>6 DEF FlowInv

LEMMA SessionWritesKeeps ==
  ASSUME IInv, NEW c \in Clients, SessionWrites(c)
  PROVE  IInv'
<1> USE EchoAssumption DEF IInv
<1>1. data[c] \in Seq(Nat) /\ data[c] # <<>> /\ toClient[c] \in Seq(Nat)
  BY DEF SessionWrites, TypeInv, FlowInv, FlowOf, Flows
<1>2. /\ Head(data[c]) \in Nat /\ Tail(data[c]) \in Seq(Nat)
      /\ Len(Tail(data[c])) = Len(data[c]) - 1
      /\ Append(toClient[c], Head(data[c])) \in Seq(Nat)
      /\ Len(Append(toClient[c], Head(data[c]))) = Len(toClient[c]) + 1
  BY <1>1, HeadTailProperties, AppendProperties
<1>3. TypeInv'
  BY <1>2 DEF TypeInv, SessionWrites, SessionGoesTo, config, Flows, SessionStates
<1>4. ASSUME NEW d \in Clients PROVE FlowOf(d)'
  <2>1. Len(toClient[c]) \in Nat /\ Len(data[c]) \in Nat
    BY <1>1
  <2>2. FlowOf(d)
    BY DEF FlowInv
  <2>3. CASE d = c
    <3>1. /\ data'[c] = Tail(data[c]) /\ toServer' = toServer /\ client' = client
          /\ toClient'[c] = Append(toClient[c], Head(data[c]))
          /\ session[c] = "writing" /\ Len(toClient[c]) < Capacity
          /\ session'[c] = IF data'[c] = <<>> THEN "reading" ELSE "writing"
      BY DEF TypeInv, SessionWrites, SessionGoesTo, Flows
    <3>2. Len(data'[c]) <= ChunkMax
      <4>1. Len(data[c]) <= ChunkMax
        BY <2>2, <2>3 DEF FlowOf
      <4> QED BY <1>2, <2>1, <3>1, <4>1
    <3>3. Len(toClient'[c]) <= Capacity
      BY <1>2, <2>1, <3>1
    <3> QED BY <2>2, <2>3, <3>1, <3>2, <3>3 DEF FlowOf
  <2>4. CASE d # c
    BY <2>2, <2>4 DEF TypeInv, FlowOf, SessionWrites, SessionGoesTo, Flows
  <2> QED BY <2>3, <2>4
<1> QED BY <1>3, <1>4 DEF FlowInv

\* The steps that move none.
LEMMA IdleSteps ==
  ASSUME IInv,
         NEW c \in Clients,
         \/ AcceptThrows
         \/ Stop
         \/ Connect(c) \/ ConnectFails(c) \/ Accept(c) \/ Break(c)
         \/ ClientHasReply(c) \/ ClientClosed(c) \/ ClientFails(c)
         \/ Handshake(c) \/ HandshakeExpires(c)
         \/ SessionReadsEnd(c) \/ SessionFails(c)
  PROVE  IInv' /\ UNCHANGED flow
<1>1. UNCHANGED flow
  BY DEF AcceptThrows, Stop, Connect, ConnectFails, Accept, Break, ClientHasReply, ClientClosed,
         ClientFails, Handshake, HandshakeExpires, SessionReadsEnd, SessionFails
<1>2. UNCHANGED <<toServer, data, toClient, reply, written>>
  BY <1>1 DEF flow
<1>3. TypeInv' /\ UNCHANGED webSocket
  <2>1. CASE AcceptThrows \/ Stop
    BY <1>2, <2>1 DEF IInv, TypeInv, AcceptThrows, Stop, config, SessionStates
  <2>2. CASE Connect(c) \/ ConnectFails(c) \/ Accept(c) \/ Break(c)
    BY <1>2, <2>2 DEF IInv, TypeInv, Connect, ConnectFails, Accept, Break, ClientGoesTo, config,
       SessionStates, ClientStates
  <2>3. CASE ClientHasReply(c) \/ ClientClosed(c) \/ ClientFails(c)
    BY <1>2, <2>3 DEF IInv, TypeInv, ClientHasReply, ClientClosed, ClientFails, ClientGoesTo,
       config, ClientStates
  <2>4. CASE Handshake(c) \/ HandshakeExpires(c) \/ SessionReadsEnd(c) \/ SessionFails(c)
    BY <1>2, <2>4 DEF IInv, TypeInv, Handshake, HandshakeExpires, SessionReadsEnd, SessionFails,
       SessionGoesTo, config, SessionStates, ClientStates
  <2> QED BY <2>1, <2>2, <2>3, <2>4
<1>4. ASSUME NEW d \in Clients PROVE FlowOf(d)'
  <2>1. FlowOf(d)
    BY DEF IInv, FlowInv
  <2>2. (client'[d] = "new") => (session'[d] = "none")
    BY <2>1 DEF IInv, TypeInv, FlowOf, AcceptThrows, Stop, Connect, ConnectFails, Accept, Break,
       ClientHasReply, ClientClosed, ClientFails, Handshake, HandshakeExpires, SessionReadsEnd,
       SessionFails, ClientGoesTo, SessionGoesTo, Unaccepted
  <2>3. session'[d] = "writing" => session[d] = "writing"
    BY DEF IInv, TypeInv, AcceptThrows, Stop, Connect, ConnectFails, Accept, Break,
       ClientHasReply, ClientClosed, ClientFails, Handshake, HandshakeExpires, SessionReadsEnd,
       SessionFails, ClientGoesTo, SessionGoesTo, Unaccepted
  <2>4. session'[d] \notin {"writing", "ended"} => session[d] \notin {"writing", "ended"}
    BY <2>1 DEF IInv, TypeInv, FlowOf, AcceptThrows, Stop, Connect, ConnectFails, Accept, Break,
       ClientHasReply, ClientClosed, ClientFails, Handshake, HandshakeExpires, SessionReadsEnd,
       SessionFails, ClientGoesTo, SessionGoesTo, Unaccepted
  <2> QED BY <1>2, <2>1, <2>2, <2>3, <2>4 DEF FlowOf
<1> QED BY <1>1, <1>3, <1>4 DEF IInv, FlowInv

LEMMA StepIInv == IInv /\ [Next]_vars => IInv'
<1> SUFFICES ASSUME IInv, [Next]_vars PROVE IInv'
  OBVIOUS
<1>1. ASSUME NEW c \in Clients, ClientSteps(c) \/ SessionSteps(c) PROVE IInv'
  BY <1>1, ClientWritesKeeps, ClientReadsKeeps, SessionReadsKeeps, SessionWritesKeeps, IdleSteps
  DEF ClientSteps, SessionSteps
<1>2. ASSUME NEW c \in Clients,
             \/ Connect(c) \/ ConnectFails(c) \/ Accept(c) \/ Break(c)
             \/ Handshake(c) \/ HandshakeExpires(c)
      PROVE  IInv'
  BY <1>2, IdleSteps
<1>3. CASE AcceptThrows
  <2>1. UNCHANGED flow
    BY <1>3 DEF AcceptThrows
  <2>2. TypeInv'
    BY <1>3, <2>1 DEF IInv, TypeInv, AcceptThrows, flow, config, SessionStates
  <2>3. ASSUME NEW c \in Clients PROVE IInv'
    BY <1>3, <2>3, IdleSteps
  <2> QED BY <2>2, <2>3 DEF IInv, FlowInv
<1>4. CASE Stop
  <2>1. UNCHANGED flow
    BY <1>4 DEF Stop
  <2>2. TypeInv'
    BY <1>4, <2>1 DEF IInv, TypeInv, Stop, flow, config, SessionStates
  <2>3. ASSUME NEW c \in Clients PROVE IInv'
    BY <1>4, <2>3, IdleSteps
  <2> QED BY <2>2, <2>3 DEF IInv, FlowInv
<1>5. CASE UNCHANGED vars
  BY <1>5 DEF IInv, TypeInv, FlowInv, FlowOf, vars, config, flow
<1> QED BY <1>1, <1>2, <1>3, <1>4, <1>5 DEF Next

-----------------------------------------------------------------------------
(* The refinement.                                                         *)

\* What the client has written and not read back, oldest first.
Held(c) == toClient[c] \o data[c] \o toServer[c]

Cells(c) == <<toClient[c], data[c], toServer[c], reply[c], written[c]>>

\* A connection none of whose units moved, and whose client did not fail.
LEMMA StillStutters ==
  ASSUME NEW c \in Clients, UNCHANGED Cells(c), client'[c] = "failed" <=> client[c] = "failed"
  PROVE  UNCHANGED Out(c)!outboxVars
BY DEF Cells, Out!outboxVars

\* A unit that the client writes is the last of those held, and is numbered.
LEMMA WriteAccepts ==
  ASSUME IInv, NEW c \in Clients, ClientWrites(c)
  PROVE  Out(c)!Next
<1> USE EchoAssumption
<1>1. /\ toServer[c] \in Seq(Nat) /\ data[c] \in Seq(Nat) /\ toClient[c] \in Seq(Nat)
      /\ written[c] + 1 \in Nat
  BY DEF IInv, TypeInv, Flows
<1>2. toClient[c] \o data[c] \in Seq(Nat)
  BY <1>1, ConcatProperties
<1>3. Held(c)' = Append(Held(c), written[c] + 1)
  <2>1. /\ toServer'[c] = Append(toServer[c], written[c] + 1)
        /\ toClient'[c] = toClient[c] /\ data'[c] = data[c]
    BY DEF ClientWrites, IInv, TypeInv, Flows
  <2>2. \A s, t \in Seq(Nat) : \A n \in Nat : s \o Append(t, n) = Append(s \o t, n)
    BY PartsAppend
  <2>3. (toClient[c] \o data[c]) \o Append(toServer[c], written[c] + 1)
          = Append((toClient[c] \o data[c]) \o toServer[c], written[c] + 1)
    BY <1>1, <1>2, <2>2
  <2> QED BY <2>1, <2>3 DEF Held
<1>4. Len(Held(c)) < 2 * Capacity + ChunkMax
  <2>1. Len(Held(c)) = Len(toClient[c]) + Len(data[c]) + Len(toServer[c])
    BY <1>1, <1>2, ConcatProperties DEF Held
  <2>2. Len(toClient[c]) <= Capacity /\ Len(data[c]) <= ChunkMax /\ Len(toServer[c]) < Capacity
    BY DEF IInv, FlowInv, FlowOf, ClientWrites
  <2>3. Len(toClient[c]) \in Nat /\ Len(data[c]) \in Nat /\ Len(toServer[c]) \in Nat
    BY <1>1
  <2>4. Capacity \in Nat /\ ChunkMax \in Nat
    OBVIOUS
  <2>5. \A i, j, k, m, n \in Nat : i <= m /\ j <= n /\ k < m => i + j + k < 2 * m + n
    OBVIOUS
  <2> QED BY <2>1, <2>2, <2>3, <2>4, <2>5
<1>5. /\ written'[c] = written[c] + 1
      /\ reply'[c] = reply[c]
      /\ client[c] = "writing" /\ client'[c] # "failed"
  BY DEF ClientWrites, ClientGoesTo, IInv, TypeInv
<1>6. Out(c)!Accept
  BY <1>3, <1>4, <1>5 DEF Out!Accept, Held
<1> QED BY <1>6 DEF Out!Next

\* A unit that the client reads is the first of those held.
LEMMA ReadTransmits ==
  ASSUME IInv, NEW c \in Clients, ClientReads(c)
  PROVE  Out(c)!Next
<1>1. /\ toServer[c] \in Seq(Nat) /\ data[c] \in Seq(Nat)
      /\ toClient[c] \in Seq(Nat) /\ toClient[c] # <<>>
  BY DEF IInv, TypeInv, Flows, ClientReads
<1>2. /\ Held(c) # <<>>
      /\ Head(Held(c)) = Head(toClient[c])
      /\ Tail(Held(c)) = Tail(toClient[c]) \o data[c] \o toServer[c]
  <2>1. PICK s \in Seq(Nat), t \in Seq(Nat), u \in Seq(Nat) :
          s = toClient[c] /\ t = data[c] /\ u = toServer[c]
    BY <1>1
  <2>2. s # <<>>
    BY <1>1, <2>1
  <2>3. s \o t \o u # <<>> /\ Head(s \o t \o u) = Head(s)
    BY <2>2, PartsTail
  <2>4. Tail(s \o t \o u) = Tail(s) \o t \o u
    BY <2>2, PartsTail
  <2>5. Held(c) = s \o t \o u
    BY <2>1 DEF Held
  <2> QED BY <2>1, <2>3, <2>4, <2>5, Zenon
<1>3. /\ toClient'[c] = Tail(toClient[c])
      /\ reply'[c] = Append(reply[c], Head(toClient[c]))
      /\ client[c] = "reading"
      /\ UNCHANGED <<client, toServer, data, written>>
  BY DEF ClientReads, IInv, TypeInv, Flows
<1>4. Held(c)' = Tail(Held(c))
  BY <1>2, <1>3 DEF Held
<1>5. Out(c)!Transmit
  BY <1>2, <1>3, <1>4 DEF Out!Transmit, Held
<1> QED BY <1>5 DEF Out!Next

\* A coroutine that reads has nothing to write: what it takes stays in order.
LEMMA SessionReadsHolds ==
  ASSUME IInv, NEW c \in Clients, SessionReads(c)
  PROVE  UNCHANGED Out(c)!outboxVars
<1>1. toServer[c] \in Seq(Nat) /\ toClient[c] \in Seq(Nat) /\ data[c] = <<>>
  BY DEF IInv, TypeInv, FlowInv, FlowOf, Flows, SessionReads
<1>2. PICK n \in Chunks(toServer[c]) :
        /\ data' = [data EXCEPT ![c] = SubSeq(toServer[c], 1, n)]
        /\ toServer' = [toServer EXCEPT ![c] = SubSeq(@, n + 1, Len(@))]
  BY DEF SessionReads
<1>3. n \in 1..Len(toServer[c])
  BY DEF Chunks
<1>4. /\ data'[c] = SubSeq(toServer[c], 1, n)
      /\ toServer'[c] = SubSeq(toServer[c], n + 1, Len(toServer[c]))
      /\ UNCHANGED <<client, toClient, reply, written>>
  BY <1>2 DEF SessionReads, IInv, TypeInv, Flows
<1>5. Held(c)' = Held(c)
  BY <1>1, <1>3, <1>4, PartsCut DEF Held
<1> QED BY <1>4, <1>5 DEF Out!outboxVars, Held

\* It writes its units one after the other, the oldest first.
LEMMA SessionWritesHolds ==
  ASSUME IInv, NEW c \in Clients, SessionWrites(c)
  PROVE  UNCHANGED Out(c)!outboxVars
<1>1. /\ toServer[c] \in Seq(Nat) /\ toClient[c] \in Seq(Nat)
      /\ data[c] \in Seq(Nat) /\ data[c] # <<>>
  BY DEF IInv, TypeInv, FlowInv, FlowOf, Flows, SessionWrites
<1>2. /\ toClient'[c] = Append(toClient[c], Head(data[c]))
      /\ data'[c] = Tail(data[c])
      /\ UNCHANGED <<client, toServer, reply, written>>
  BY DEF SessionWrites, IInv, TypeInv, Flows
<1>3. toClient'[c] \o data'[c] = toClient[c] \o data[c]
  BY <1>1, <1>2, PartsShift
<1> QED BY <1>2, <1>3 DEF Out!outboxVars

\* A step of one connection does not touch another one.
LEMMA OthersStill ==
  ASSUME IInv, NEW c \in Clients, NEW d \in Clients, c # d,
         \/ Connect(c) \/ ConnectFails(c) \/ Accept(c) \/ ClientSteps(c) \/ Break(c)
         \/ Handshake(c) \/ HandshakeExpires(c) \/ SessionSteps(c)
  PROVE  UNCHANGED Cells(d) /\ client'[d] = client[d]
<1>1. CASE Connect(c) \/ ConnectFails(c) \/ Accept(c) \/ Break(c) \/ Handshake(c) \/ HandshakeExpires(c)
  BY <1>1 DEF IInv, TypeInv, Cells, flow, Connect, ConnectFails, Accept, Break, Handshake,
     HandshakeExpires, ClientGoesTo
<1>2. CASE ClientSteps(c)
  BY <1>2 DEF IInv, TypeInv, Cells, flow, ClientSteps, ClientWrites, ClientReads, ClientHasReply,
     ClientClosed, ClientFails, ClientGoesTo, Flows
<1>3. CASE SessionSteps(c)
  BY <1>3 DEF IInv, TypeInv, Cells, flow, SessionSteps, SessionReads, SessionWrites,
     SessionReadsEnd, SessionFails, Flows
<1> QED BY <1>1, <1>2, <1>3

\* A step of the server or of one client, as its outbox sees it: a step of the
\* outbox or none.
LEMMA ConnectionStep ==
  ASSUME IInv, NEW c \in Clients,
         \/ Connect(c) \/ ConnectFails(c) \/ Accept(c) \/ ClientSteps(c) \/ Break(c)
         \/ Handshake(c) \/ HandshakeExpires(c) \/ SessionSteps(c)
  PROVE  Out(c)!Next \/ UNCHANGED Out(c)!outboxVars
<1>1. CASE ClientWrites(c)
  BY <1>1, WriteAccepts
<1>2. CASE ClientReads(c)
  BY <1>2, ReadTransmits
<1>3. CASE SessionReads(c)
  BY <1>3, SessionReadsHolds
<1>4. CASE SessionWrites(c)
  BY <1>4, SessionWritesHolds
<1>5. CASE ClientFails(c) \/ ConnectFails(c)
  <2>1. UNCHANGED Cells(c)
    BY <1>5 DEF ClientFails, ConnectFails, flow, Cells
  <2>2. client[c] # "failed" /\ client'[c] = "failed"
    BY <1>5 DEF ClientFails, ConnectFails, ClientGoesTo, IInv, TypeInv
  <2>3. Out(c)!Break
    BY <2>1, <2>2 DEF Cells, Out!Break
  <2> QED BY <2>3 DEF Out!Next
<1>6. CASE \/ Connect(c) \/ Accept(c) \/ Break(c) \/ Handshake(c) \/ HandshakeExpires(c)
           \/ ClientHasReply(c) \/ ClientClosed(c) \/ SessionReadsEnd(c) \/ SessionFails(c)
  <2>1. UNCHANGED Cells(c)
    BY <1>6, IdleSteps DEF flow, Cells
  <2>2. client'[c] = "failed" <=> client[c] = "failed"
    BY <1>6 DEF Connect, Accept, Break, Handshake, HandshakeExpires, ClientHasReply, ClientClosed,
       SessionReadsEnd, SessionFails, ClientGoesTo, SessionGoesTo, IInv, TypeInv
  <2> QED BY <2>1, <2>2, StillStutters
<1> QED BY <1>1, <1>2, <1>3, <1>4, <1>5, <1>6 DEF ClientSteps, SessionSteps

LEMMA EveryOutboxSteps ==
  IInv /\ [Next]_vars => \A d \in Clients : Out(d)!Next \/ UNCHANGED Out(d)!outboxVars
<1> SUFFICES ASSUME IInv, [Next]_vars, NEW d \in Clients
             PROVE  Out(d)!Next \/ UNCHANGED Out(d)!outboxVars
  OBVIOUS
<1>1. CASE AcceptThrows \/ Stop
  <2>1. UNCHANGED Cells(d) /\ client' = client
    BY <1>1, IdleSteps DEF flow, Cells, AcceptThrows, Stop
  <2> QED BY <2>1, StillStutters
<1>2. ASSUME NEW c \in Clients,
             \/ Connect(c) \/ ConnectFails(c) \/ Accept(c) \/ ClientSteps(c) \/ Break(c)
             \/ Handshake(c) \/ HandshakeExpires(c) \/ SessionSteps(c)
      PROVE  Out(d)!Next \/ UNCHANGED Out(d)!outboxVars
  <2>1. CASE c = d
    BY <1>2, <2>1, ConnectionStep
  <2>2. CASE c # d
    <3>1. UNCHANGED Cells(d) /\ client'[d] = client[d]
      BY <1>2, <2>2, OthersStill
    <3> QED BY <3>1, StillStutters
  <2> QED BY <2>1, <2>2
<1>3. CASE UNCHANGED vars
  <2>1. UNCHANGED Cells(d) /\ client' = client
    BY <1>3 DEF vars, flow, Cells
  <2> QED BY <2>1, StillStutters
<1> QED BY <1>1, <1>2, <1>3 DEF Next

\* The safety part of ImplementsOutbox, for both pairs of programs: whatever is
\* cut, breaks, expires or stops, a client gets back what it wrote, in order,
\* and no unit twice; never more than two networks and a buffer full are under
\* way; and nothing comes to a client that has failed.
THEOREM EchoesInOrder ==
  Spec => /\ \A c \in Clients : Out(c)!Init
          /\ [][\A c \in Clients : Out(c)!Next \/ UNCHANGED Out(c)!outboxVars]_vars
<1>1. ASSUME Init, NEW c \in Clients PROVE Out(c)!Init
  <2>1. /\ toClient[c] = <<>> /\ data[c] = <<>> /\ toServer[c] = <<>> /\ reply[c] = <<>>
        /\ written[c] = 0 /\ client[c] = "new"
    BY <1>1 DEF Init, Empty
  <2>2. <<>> \o <<>> \o <<>> = <<>>
    BY EmptySeq, ConcatEmptySeq
  <2> QED BY <2>1, <2>2 DEF Out!Init
<1>2. Init => \A c \in Clients : Out(c)!Init
  BY <1>1
<1>3. Spec => []IInv
  BY InitIInv, StepIInv, PTL DEF Spec
<1>4. IInv /\ [Next]_vars => [\A c \in Clients : Out(c)!Next \/ UNCHANGED Out(c)!outboxVars]_vars
  BY EveryOutboxSteps
<1> QED BY <1>2, <1>3, <1>4, PTL DEF Spec

=============================================================================
