----------------------------- MODULE HttpProofs -----------------------------
(***************************************************************************)
(* Proofs about the HTTP servers.                                          *)
(*                                                                         *)
(* HttpSession: requests are answered in turn, and to its client a session *)
(* is a stream of requests, for any number of clients and requests and any *)
(* mixture of them.  The argument: what a session does next is about the   *)
(* first request that has no answer (PhaseOk), and an answer that closes   *)
(* the connection is the last, since no phase behind it leads back to a    *)
(* read (AnswersOk).                                                       *)
(*                                                                         *)
(* HttpConnection, at the end: what two handlers leave of a connection,    *)
(* for any finite number of clients.  The argument: the counter is the     *)
(* number of clients that were shown a count, and none of them is handled  *)
(* again (CountInv); whoever ends the wait closes the socket, and only the *)
(* accept opens it (DeadlineInv).                                          *)
(***************************************************************************)
EXTENDS HttpSession, FiniteSetTheorems, SequenceTheorems, TLAPS

Phases == {"none", "backlog", "reading", "got request", "read failed", "writing", "written",
           "write failed", "closed", "upgraded"}

TypeInv ==
  /\ running \in BOOLEAN
  /\ accepting \in BOOLEAN
  /\ phase \in [Clients -> Phases]
  /\ sent \in [Clients -> Seq(Requests)]
  /\ answers \in [Clients -> Seq({Answer(r) : r \in Requests})]

\* What a session in each phase knows of the request that comes next.
PhaseOk(c) ==
  /\ Len(answers[c]) <= Len(sent[c])
  /\ phase[c] \in {"got request", "writing"} => Arrived(c) /\ Current(c).method # "malformed"
  /\ phase[c] = "writing" => ~Current(c).upgrade
  /\ phase[c] \in {"none", "backlog"} => answers[c] = <<>>

\* The answers there are, and where the last one leaves the session.
AnswersOk(c) ==
  /\ \A i \in 1..Len(answers[c]) :
       /\ answers[c][i] = Answer(sent[c][i])
       /\ sent[c][i].method # "malformed" /\ ~sent[c][i].upgrade
       /\ i < Len(answers[c]) \/ phase[c] \notin {"written", "closed"} => sent[c][i].keepAlive
  /\ phase[c] = "written" => answers[c] # <<>>

IInv ==
  /\ TypeInv
  /\ \A c \in Clients : PhaseOk(c) /\ AnswersOk(c)
-----------------------------------------------------------------------------
(* Types.                                                                  *)

\* Steps that only take a session from one phase to another.
PhaseStep(c) ==
  \/ Connect(c) \/ ReadCompletes(c) \/ ReadFails(c) \/ Expire(c) \/ WriteFails(c)
  \/ OnAccept(c) \/ Handler(c)

LEMMA PhaseSteps ==
  ASSUME TypeInv, NEW c \in Clients, PhaseStep(c)
  PROVE  /\ UNCHANGED <<running, accepting, sent, answers>> /\ running
         /\ \E p \in Phases : phase' = [phase EXCEPT ![c] = p]
  BY DEF PhaseStep, Connect, ReadCompletes, ReadFails, Expire, WriteFails, OnAccept, Handler, OnReadError,
     OnReadUpgrade, OnRead, OnWrite, OnWriteLast, OnWriteError, Goes, Phases

LEMMA CurrentRequest ==
  ASSUME TypeInv, NEW c \in Clients, Arrived(c), PhaseOk(c)
  PROVE  /\ Current(c) \in Requests
         /\ Len(answers[c]) \in Nat /\ Len(sent[c]) \in Nat
         /\ Len(answers[c]) + 1 \in 1..Len(sent[c])
<1>1. sent[c] \in Seq(Requests) /\ answers[c] \in Seq({Answer(r) : r \in Requests})
  BY DEF TypeInv
<1>2. Len(answers[c]) \in Nat /\ Len(sent[c]) \in Nat
  BY <1>1
<1>3. \A m, n \in Nat : n > m => m + 1 \in 1..n
  OBVIOUS
<1>4. Len(answers[c]) + 1 \in 1..Len(sent[c])
  BY <1>2, <1>3 DEF Arrived
<1>5. QED
  BY <1>1, <1>2, <1>4 DEF Current

LEMMA Types == IInv /\ [Next]_vars => TypeInv'
<1> SUFFICES ASSUME IInv, [Next]_vars PROVE TypeInv'
  OBVIOUS
<1>0. TypeInv /\ \A c \in Clients : PhaseOk(c)
  BY DEF IInv
<1>1. ASSUME NEW c \in Clients, PhaseStep(c) PROVE TypeInv'
  BY <1>0, <1>1, PhaseSteps DEF TypeInv
<1>2. ASSUME NEW c \in Clients, NEW r \in Requests, SendRequest(c, r) PROVE TypeInv'
  BY <1>0, <1>2, AppendProperties DEF TypeInv, SendRequest
<1>3. ASSUME NEW c \in Clients, WriteCompletes(c) PROVE TypeInv'
  <2>1. Current(c) \in Requests
    BY <1>0, <1>3, CurrentRequest DEF WriteCompletes, Goes, PhaseOk
  <2>2. answers' = [answers EXCEPT ![c] = Append(answers[c], Answer(Current(c)))]
    BY <1>3 DEF WriteCompletes
  <2>3. answers' \in [Clients -> Seq({Answer(r) : r \in Requests})]
    BY <1>0, <2>1, <2>2, AppendProperties DEF TypeInv
  <2>4. phase' \in [Clients -> Phases]
    BY <1>0, <1>3 DEF TypeInv, WriteCompletes, Goes, Phases
  <2>5. QED
    BY <1>0, <1>3, <2>3, <2>4 DEF TypeInv, WriteCompletes
<1>4. ASSUME \/ \E c \in Clients : Lose(c)
             \/ OnAcceptError
             \/ Stop
             \/ UNCHANGED vars
      PROVE TypeInv'
  BY <1>0, <1>4 DEF TypeInv, Lose, OnAcceptError, Stop, vars
<1>5. QED
  BY <1>1, <1>2, <1>3, <1>4 DEF Next, PhaseStep

-----------------------------------------------------------------------------
(* Requests and their answers.                                             *)

LEMMA SessionKept ==
  ASSUME NEW e \in Clients, PhaseOk(e), AnswersOk(e),
         phase'[e] = phase[e], sent'[e] = sent[e], answers'[e] = answers[e]
  PROVE  PhaseOk(e)' /\ AnswersOk(e)'
  BY DEF PhaseOk, AnswersOk, Arrived, Current

LEMMA PhaseStepKeeps ==
  ASSUME TypeInv, NEW c \in Clients, PhaseOk(c), AnswersOk(c), PhaseStep(c)
  PROVE  PhaseOk(c)' /\ AnswersOk(c)'
<1> DEFINE n == Len(answers[c])
<1>0. /\ phase \in [Clients -> Phases] /\ sent' = sent /\ answers' = answers
      /\ answers[c] \in Seq({Answer(r) : r \in Requests})
  BY PhaseSteps DEF TypeInv
<1>1. PhaseOk(c)'
  <2>1. phase'[c] \in {"got request", "writing"} => Arrived(c) /\ Current(c).method # "malformed"
    BY <1>0 DEF PhaseStep, Connect, ReadCompletes, ReadFails, Expire, WriteFails, OnAccept, Handler,
       OnReadError, OnReadUpgrade, OnRead, OnWrite, OnWriteLast, OnWriteError, Goes, PhaseOk
  <2>2. phase'[c] = "writing" => ~Current(c).upgrade
    BY <1>0 DEF PhaseStep, Connect, ReadCompletes, ReadFails, Expire, WriteFails, OnAccept, Handler,
       OnReadError, OnReadUpgrade, OnRead, OnWrite, OnWriteLast, OnWriteError, Goes, PhaseOk
  <2>3. phase'[c] \in {"none", "backlog"} => answers[c] = <<>>
    BY <1>0 DEF PhaseStep, Connect, ReadCompletes, ReadFails, Expire, WriteFails, OnAccept, Handler,
       OnReadError, OnReadUpgrade, OnRead, OnWrite, OnWriteLast, OnWriteError, Goes, PhaseOk
  <2>4. QED
    BY <1>0, <2>1, <2>2, <2>3 DEF PhaseOk, Arrived, Current
<1>2. phase'[c] # "written"
  BY <1>0 DEF PhaseStep, Connect, ReadCompletes, ReadFails, Expire, WriteFails, OnAccept, Handler,
     OnReadError, OnReadUpgrade, OnRead, OnWrite, OnWriteLast, OnWriteError, Goes
<1>3. CASE phase'[c] = "closed" \/ phase[c] \notin {"written", "closed"}
  BY <1>0, <1>1, <1>2, <1>3 DEF AnswersOk
<1>4. CASE phase[c] \in {"written", "closed"} /\ phase'[c] # "closed"
  <2>1. phase[c] = "written" /\ KeepAlive(c)
    BY <1>0, <1>4 DEF PhaseStep, Connect, ReadCompletes, ReadFails, Expire, WriteFails, OnAccept, Handler,
       OnReadError, OnReadUpgrade, OnRead, OnWrite, OnWriteLast, OnWriteError, Goes
  <2>2. n \in Nat /\ n # 0 /\ n \in 1..n
    BY <1>0, <2>1, EmptySeq DEF AnswersOk
  <2>3. sent[c][n].keepAlive
    <3>1. answers[c][n].keepAlive /\ answers[c][n] = Answer(sent[c][n])
      BY <2>1, <2>2 DEF AnswersOk, KeepAlive
    <3>2. QED
      BY <3>1 DEF Answer
  <2>4. \A i \in 1..n : sent[c][i].keepAlive
    <3>1. \A i \in 1..n : i < n \/ i = n
      BY <2>2
    <3>2. QED
      BY <2>3, <3>1 DEF AnswersOk
  <2>5. QED
    BY <1>0, <1>1, <1>2, <2>4 DEF AnswersOk
<1>5. QED
  BY <1>1, <1>3, <1>4

LEMMA SendKeeps ==
  ASSUME TypeInv, NEW c \in Clients, PhaseOk(c), AnswersOk(c), NEW r \in Requests, SendRequest(c, r)
  PROVE  PhaseOk(c)' /\ AnswersOk(c)'
<1> DEFINE n == Len(answers[c])
           m == Len(sent[c])
<1>1. /\ sent[c] \in Seq(Requests) /\ sent'[c] = Append(sent[c], r)
      /\ answers' = answers /\ phase' = phase
      /\ n \in Nat /\ m \in Nat /\ n <= m
  <2>1. answers[c] \in Seq({Answer(q) : q \in Requests}) /\ sent[c] \in Seq(Requests)
    BY DEF TypeInv
  <2>2. sent'[c] = Append(sent[c], r) /\ answers' = answers /\ phase' = phase
    BY DEF SendRequest, TypeInv
  <2>3. n <= m
    BY DEF PhaseOk
  <2>4. QED
    BY <2>1, <2>2, <2>3
<1>2. Len(sent'[c]) = m + 1 /\ \A i \in 1..m : sent'[c][i] = sent[c][i]
  BY <1>1, AppendProperties
<1>3. Arrived(c) => Arrived(c)' /\ Current(c)' = Current(c)
  BY <1>1, <1>2 DEF Arrived, Current
<1>4. Len(answers'[c]) <= Len(sent'[c])
  BY <1>1, <1>2
<1>5. PhaseOk(c)'
  BY <1>1, <1>3, <1>4 DEF PhaseOk
<1>6. \A i \in 1..n : sent'[c][i] = sent[c][i]
  BY <1>1, <1>2
<1>7. AnswersOk(c)'
  BY <1>1, <1>6 DEF AnswersOk
<1>8. QED
  BY <1>5, <1>7

LEMMA WriteKeeps ==
  ASSUME TypeInv, NEW c \in Clients, PhaseOk(c), AnswersOk(c), WriteCompletes(c)
  PROVE  PhaseOk(c)' /\ AnswersOk(c)'
<1> DEFINE n == Len(answers[c])
<1>1. /\ phase[c] = "writing" /\ phase'[c] = "written" /\ sent' = sent
      /\ answers[c] \in Seq({Answer(r) : r \in Requests})
      /\ answers'[c] = Append(answers[c], Answer(Current(c)))
  BY DEF WriteCompletes, Goes, TypeInv
<1>2. /\ Arrived(c) /\ Current(c).method # "malformed" /\ ~Current(c).upgrade
      /\ Current(c) \in Requests
      /\ n \in Nat /\ Len(sent[c]) \in Nat /\ n + 1 \in 1..Len(sent[c])
  BY <1>1, CurrentRequest DEF PhaseOk
<1>3. /\ Len(answers'[c]) = n + 1
      /\ \A i \in 1..n : answers'[c][i] = answers[c][i]
      /\ answers'[c][n + 1] = Answer(Current(c))
  BY <1>1, <1>2, AppendProperties
<1>4. PhaseOk(c)'
  BY <1>1, <1>2, <1>3 DEF PhaseOk
<1>5. ASSUME NEW i \in 1..n + 1
      PROVE  /\ answers'[c][i] = Answer(sent[c][i])
             /\ sent[c][i].method # "malformed" /\ ~sent[c][i].upgrade
             /\ i < n + 1 => sent[c][i].keepAlive
  <2>1. CASE i = n + 1
    BY <1>2, <1>3, <2>1 DEF Current
  <2>2. CASE i \in 1..n
    <3>1. answers'[c][i] = Answer(sent[c][i])
      BY <1>3, <2>2 DEF AnswersOk
    <3>2. sent[c][i].method # "malformed" /\ ~sent[c][i].upgrade /\ sent[c][i].keepAlive
      BY <1>1, <2>2 DEF AnswersOk
    <3>3. QED
      BY <3>1, <3>2
  <2>3. QED
    BY <1>2, <2>1, <2>2
<1>6. answers'[c] # <<>>
  BY <1>2, <1>3
<1>7. AnswersOk(c)'
  BY <1>1, <1>3, <1>5, <1>6 DEF AnswersOk
<1>8. QED
  BY <1>4, <1>7

LEMMA Kept == IInv /\ [Next]_vars => IInv'
<1> SUFFICES ASSUME IInv, [Next]_vars, NEW e \in Clients PROVE PhaseOk(e)' /\ AnswersOk(e)'
  BY Types DEF IInv
<1>0. TypeInv /\ PhaseOk(e) /\ AnswersOk(e)
  BY DEF IInv
<1>1. ASSUME NEW c \in Clients, PhaseStep(c) PROVE PhaseOk(e)' /\ AnswersOk(e)'
  <2>1. CASE e = c
    BY <1>0, <1>1, <2>1, PhaseStepKeeps
  <2>2. CASE e # c
    <3>1. phase'[e] = phase[e] /\ sent' = sent /\ answers' = answers
      BY <1>0, <1>1, <2>2, PhaseSteps DEF TypeInv
    <3>2. QED
      BY <1>0, <3>1, SessionKept
  <2>3. QED
    BY <2>1, <2>2
<1>2. ASSUME NEW c \in Clients, NEW r \in Requests, SendRequest(c, r) PROVE PhaseOk(e)' /\ AnswersOk(e)'
  <2>1. CASE e = c
    BY <1>0, <1>2, <2>1, SendKeeps
  <2>2. CASE e # c
    BY <1>0, <1>2, <2>2, SessionKept DEF SendRequest, TypeInv
  <2>3. QED
    BY <2>1, <2>2
<1>3. ASSUME NEW c \in Clients, WriteCompletes(c) PROVE PhaseOk(e)' /\ AnswersOk(e)'
  <2>1. CASE e = c
    BY <1>0, <1>3, <2>1, WriteKeeps
  <2>2. CASE e # c
    BY <1>0, <1>3, <2>2, SessionKept DEF WriteCompletes, Goes, TypeInv
  <2>3. QED
    BY <2>1, <2>2
<1>4. ASSUME \/ \E c \in Clients : Lose(c)
             \/ OnAcceptError
             \/ Stop
             \/ UNCHANGED vars
      PROVE PhaseOk(e)' /\ AnswersOk(e)'
  BY <1>0, <1>4, SessionKept DEF Lose, OnAcceptError, Stop, vars
<1>5. QED
  BY <1>1, <1>2, <1>3, <1>4 DEF Next, PhaseStep

LEMMA Initially == Init => IInv
  BY DEF Init, IInv, TypeInv, PhaseOk, AnswersOk, Phases

LEMMA Invariant == SafeSpec => []IInv
<1>1. Init => IInv
  BY Initially
<1>2. IInv /\ [Next]_vars => IInv'
  BY Kept
<1>3. QED
  BY <1>1, <1>2, PTL DEF SafeSpec

(***************************************************************************)
(* Requests that a client sends ahead are answered in their order, each    *)
(* with its own answer, and none behind an answer that closes the          *)
(* connection or behind the upgrade (http_session::on_read, on_write).     *)
(***************************************************************************)
THEOREM TurnSafe == SafeSpec => []AnsweredInTurn
<1>1. IInv => AnsweredInTurn
  BY DEF IInv, AnswersOk, AnsweredInTurn
<1>2. QED
  BY <1>1, Invariant, PTL
-----------------------------------------------------------------------------
(* A session as a stream of requests.                                      *)

LEMMA PartOfAppend ==
  ASSUME NEW S, NEW s \in Seq(S), NEW e \in S, NEW m \in Nat \ {0}, NEW n \in 0..Len(s)
  PROVE  SubSeq(Append(s, e), m, n) = SubSeq(s, m, n)
<1>1. Len(s) \in Nat /\ Append(s, e) = s \o <<e>> /\ <<e>> \in Seq(S)
  BY AppendIsConcat, LenProperties
<1>2. CASE m <= n
  <2>1. m \in 1..Len(s) /\ n \in 1..Len(s)
    BY <1>1, <1>2
  <2>2. QED
    BY <1>1, <2>1, SubSeqOfConcat1
<1>3. CASE n < m
  BY <1>1, <1>3, SubSeqEmpty
<1>4. QED
  BY <1>1, <1>2, <1>3

\* What is answered and what waits, when a request is sent ...
LEMMA SplitAppend ==
  ASSUME NEW S, NEW s \in Seq(S), NEW e \in S, NEW k \in 0..Len(s)
  PROVE  /\ SubSeq(Append(s, e), 1, k) = SubSeq(s, 1, k)
         /\ SubSeq(Append(s, e), k + 1, Len(s) + 1) = Append(SubSeq(s, k + 1, Len(s)), e)
<1> DEFINE n == Len(s)
           a == Append(s, e)
<1>1. /\ n \in Nat /\ a \in Seq(S) /\ Len(a) = n + 1 /\ a[n + 1] = e
      /\ k + 1 \in Nat \ {0} /\ n \in 0..n
  BY AppendProperties, LenProperties
<1>2. SubSeq(a, 1, k) = SubSeq(s, 1, k) /\ SubSeq(a, k + 1, n) = SubSeq(s, k + 1, n)
  BY <1>1, PartOfAppend
<1>3. SubSeq(s, k + 1, n) \in Seq(S)
  <2>1. \A i \in k + 1..n : s[i] \in S
    BY <1>1
  <2>2. QED
    BY <1>1, <2>1, SubSeqProperties
<1>4. k + 1 \in 1..n + 1 /\ n + 1 \in k + 1..n + 1 /\ (n + 1) - 1 = n
  BY <1>1
<1> HIDE DEF n, a
<1>5. SubSeq(a, k + 1, n + 1) = SubSeq(a, k + 1, (n + 1) - 1) \o <<e>>
  BY <1>1, <1>4, SubSeqRecursiveSecond
<1>6. SubSeq(a, k + 1, n + 1) = Append(SubSeq(s, k + 1, n), e)
  BY <1>2, <1>3, <1>4, <1>5, AppendIsConcat
<1>7. QED
  BY <1>2, <1>6 DEF n, a

\* ... and when the first of those that wait is answered.
LEMMA SplitMoves ==
  ASSUME NEW S, NEW s \in Seq(S), NEW k \in Nat, k + 1 \in 1..Len(s)
  PROVE  LET old == SubSeq(s, k + 1, Len(s))
         IN  /\ old # <<>>
             /\ Head(old) = s[k + 1]
             /\ SubSeq(s, k + 2, Len(s)) = Tail(old)
             /\ SubSeq(s, 1, k + 1) = Append(SubSeq(s, 1, k), s[k + 1])
<1> DEFINE n == Len(s)
           old == SubSeq(s, k + 1, n)
<1>1. /\ n \in Nat /\ k + 1 <= n /\ s[k + 1] \in S /\ n \in k + 1..n
      /\ (k + 1) + 1 = k + 2 /\ (k + 1) - 1 = k /\ 1 \in 1..n /\ k + 1 \in 1..k + 1
  BY LenProperties
<1>2. Head(old) = s[k + 1] /\ Tail(old) = SubSeq(s, k + 2, n)
  BY <1>1, HeadTailOfSubSeq
<1>3. Len(old) = n - k /\ n - k # 0
  <2>1. \A i \in k + 1..n : s[i] \in S
    BY <1>1
  <2>2. QED
    BY <1>1, <2>1, SubSeqProperties
<1>4. old # <<>>
  BY <1>3
<1>5. SubSeq(s, 1, k) \in Seq(S)
  <2>1. \A i \in 1..k : s[i] \in S
    BY <1>1
  <2>2. QED
    BY <1>1, <2>1, SubSeqProperties
<1>6. SubSeq(s, 1, k + 1) = SubSeq(s, 1, (k + 1) - 1) \o <<s[k + 1]>>
  <2>1. k + 1 \in 1..Len(s)
    BY <1>1
  <2>2. QED
    BY <1>1, <2>1, SubSeqRecursiveSecond
<1>7. SubSeq(s, 1, k + 1) = Append(SubSeq(s, 1, k), s[k + 1])
  BY <1>1, <1>5, <1>6, AppendIsConcat
<1>8. QED
  BY <1>2, <1>4, <1>7

\* The states of the stream of one session.
Waiting(c) == SubSeq(sent[c], Len(answers[c]) + 1, Len(sent[c]))
Answered(c) == SubSeq(sent[c], 1, Len(answers[c]))
Ended(c) ==
  \/ ~running
  \/ ~accepting /\ phase[c] \in {"none", "backlog"}
  \/ phase[c] \in {"read failed", "write failed", "closed", "upgraded"}
  \/ phase[c] = "written" /\ ~KeepAlive(c)

LEMMA StreamSend ==
  ASSUME IInv, NEW c \in Clients, NEW r \in Requests, SendRequest(c, r)
  PROVE  Stream(c)!Send(r)
<1> DEFINE n == Len(answers[c])
           s == sent[c]
<1>1. s \in Seq(Requests) /\ n \in 0..Len(s) /\ Len(s) \in Nat
  <2>1. s \in Seq(Requests) /\ answers[c] \in Seq({Answer(q) : q \in Requests}) /\ n <= Len(s)
    BY DEF IInv, TypeInv, PhaseOk
  <2>2. QED
    BY <2>1
<1>2. /\ sent'[c] = Append(s, r) /\ Len(sent'[c]) = Len(s) + 1
      /\ UNCHANGED <<running, accepting, phase, answers>>
  BY <1>1, AppendProperties DEF SendRequest, IInv, TypeInv
<1>3. Answered(c)' = Answered(c) /\ Waiting(c)' = Append(Waiting(c), r)
  <2>1. Answered(c)' = SubSeq(Append(s, r), 1, n) /\ Answered(c) = SubSeq(s, 1, n)
    BY <1>2 DEF Answered
  <2>2. /\ Waiting(c)' = SubSeq(Append(s, r), n + 1, Len(s) + 1)
        /\ Waiting(c) = SubSeq(s, n + 1, Len(s))
    BY <1>2 DEF Waiting
  <2> HIDE DEF s, n
  <2>3. /\ SubSeq(Append(s, r), 1, n) = SubSeq(s, 1, n)
        /\ SubSeq(Append(s, r), n + 1, Len(s) + 1) = Append(SubSeq(s, n + 1, Len(s)), r)
    BY <1>1, SplitAppend
  <2>4. QED
    BY <2>1, <2>2, <2>3
<1>4. Ended(c)' = Ended(c)
  BY <1>2 DEF Ended, KeepAlive
<1>5. QED
  BY <1>3, <1>4 DEF Stream!Send, Answered, Waiting, Ended

LEMMA StreamDeliver ==
  ASSUME IInv, NEW c \in Clients, WriteCompletes(c)
  PROVE  Stream(c)!Deliver
<1> DEFINE n == Len(answers[c])
           s == sent[c]
<1>0. TypeInv /\ PhaseOk(c) /\ phase[c] = "writing" /\ running
  BY DEF IInv, WriteCompletes, Goes
<1>1. /\ Arrived(c) /\ Current(c).method # "malformed" /\ ~Current(c).upgrade
      /\ Current(c) \in Requests /\ n \in Nat /\ n + 1 \in 1..Len(s)
  BY <1>0, CurrentRequest DEF PhaseOk
<1>2. s \in Seq(Requests) /\ answers[c] \in Seq({Answer(q) : q \in Requests})
  BY <1>0 DEF TypeInv
<1>3. sent' = sent /\ Len(answers'[c]) = n + 1
  <2>1. answers'[c] = Append(answers[c], Answer(Current(c))) /\ sent' = sent
    BY <1>0 DEF WriteCompletes, TypeInv
  <2>2. QED
    BY <1>1, <1>2, <2>1, AppendProperties
<1>4. /\ Answered(c)' = SubSeq(s, 1, n + 1) /\ Answered(c) = SubSeq(s, 1, n)
      /\ Waiting(c)' = SubSeq(s, (n + 1) + 1, Len(s)) /\ Waiting(c) = SubSeq(s, n + 1, Len(s))
  BY <1>3 DEF Answered, Waiting
<1>5. Current(c) = s[n + 1] /\ (n + 1) + 1 = n + 2
  BY <1>1 DEF Current
<1>6. ~Ended(c)
  BY <1>0 DEF Ended
<1>7. Ended(c)' \in BOOLEAN
  BY DEF Ended
<1> HIDE DEF s, n
<1>8. /\ Waiting(c) # <<>> /\ Head(Waiting(c)) = Current(c)
      /\ Waiting(c)' = Tail(Waiting(c))
      /\ Answered(c)' = Append(Answered(c), Current(c))
  BY <1>1, <1>2, <1>4, <1>5, SplitMoves
<1>9. Current(c) \in {r \in Requests : r.method # "malformed" /\ ~r.upgrade}
  BY <1>1
<1>10. QED
  BY <1>6, <1>7, <1>8, <1>9 DEF Stream!Deliver, Answered, Waiting, Ended

\* Every other step leaves what is sent and answered, and may end the stream.
LEMMA StreamEnds ==
  ASSUME NEW c \in Clients, Answered(c)' = Answered(c), Waiting(c)' = Waiting(c),
         Ended(c) => Ended(c)'
  PROVE  [Stream(c)!Next]_(Stream(c)!frameVars)
<1>1. CASE Ended(c) = Ended(c)'
  BY <1>1 DEF Stream!frameVars, Answered, Waiting, Ended
<1>2. CASE ~Ended(c) /\ Ended(c)'
  BY <1>2 DEF Stream!Next, Stream!Hangup, Answered, Waiting, Ended
<1>3. QED
  BY <1>1, <1>2 DEF Ended

LEMMA StreamStep ==
  ASSUME IInv, [Next]_vars, NEW e \in Clients
  PROVE  [Stream(e)!Next]_(Stream(e)!frameVars)
<1>0. TypeInv
  BY DEF IInv
<1>1. ASSUME NEW c \in Clients, PhaseStep(c) PROVE [Stream(e)!Next]_(Stream(e)!frameVars)
  <2>1. UNCHANGED <<running, accepting, sent, answers>> /\ phase \in [Clients -> Phases]
    BY <1>0, <1>1, PhaseSteps DEF TypeInv
  <2>2. Answered(e)' = Answered(e) /\ Waiting(e)' = Waiting(e) /\ (KeepAlive(e)' <=> KeepAlive(e))
    BY <2>1 DEF Answered, Waiting, KeepAlive
  <2>3. Ended(e) => Ended(e)'
    <3>1. CASE e # c
      <4>1. phase'[e] = phase[e]
        BY <1>0, <1>1, <3>1, PhaseSteps DEF TypeInv
      <4>2. QED
        BY <2>1, <2>2, <4>1 DEF Ended
    <3>2. CASE e = c
      BY <1>1, <2>1, <2>2, <3>2 DEF Ended, PhaseStep, Connect, ReadCompletes, ReadFails, Expire, WriteFails,
         OnAccept, Handler, OnReadError, OnReadUpgrade, OnRead, OnWrite, OnWriteLast, OnWriteError, Goes
    <3>3. QED
      BY <3>1, <3>2
  <2>4. QED
    BY <2>2, <2>3, StreamEnds
<1>2. ASSUME NEW c \in Clients, NEW r \in Requests, SendRequest(c, r)
      PROVE [Stream(e)!Next]_(Stream(e)!frameVars)
  <2>1. CASE e = c
    BY <1>2, <2>1, StreamSend DEF Stream!Next
  <2>2. CASE e # c
    <3>1. sent'[e] = sent[e] /\ UNCHANGED <<running, accepting, phase, answers>>
      BY <1>0, <1>2, <2>2 DEF SendRequest, TypeInv
    <3>2. QED
      BY <3>1, StreamEnds DEF Answered, Waiting, Ended, KeepAlive
  <2>3. QED
    BY <2>1, <2>2
<1>3. ASSUME NEW c \in Clients, WriteCompletes(c) PROVE [Stream(e)!Next]_(Stream(e)!frameVars)
  <2>1. CASE e = c
    BY <1>3, <2>1, StreamDeliver DEF Stream!Next
  <2>2. CASE e # c
    <3>1. /\ answers'[e] = answers[e] /\ phase'[e] = phase[e]
          /\ UNCHANGED <<running, accepting, sent>>
      BY <1>0, <1>3, <2>2 DEF WriteCompletes, Goes, TypeInv
    <3>2. QED
      BY <3>1, StreamEnds DEF Answered, Waiting, Ended, KeepAlive
  <2>3. QED
    BY <2>1, <2>2
<1>4. ASSUME \/ \E c \in Clients : Lose(c)
             \/ OnAcceptError
             \/ Stop
             \/ UNCHANGED vars
      PROVE [Stream(e)!Next]_(Stream(e)!frameVars)
  <2>1. UNCHANGED <<phase, sent, answers>> /\ (running' => running) /\ (accepting' => accepting)
    BY <1>0, <1>4 DEF Lose, OnAcceptError, Stop, vars, TypeInv
  <2>2. QED
    BY <2>1, StreamEnds DEF Answered, Waiting, Ended, KeepAlive
<1>5. QED
  BY <1>1, <1>2, <1>3, <1>4 DEF Next, PhaseStep

(***************************************************************************)
(* To its client a session of http_session.cc is a stream of requests:     *)
(* each is answered in turn, whole and once, until one cannot be, or asks  *)
(* for the upgrade (the safety part of ImplementsRequestStream).           *)
(***************************************************************************)
THEOREM RequestStreamSafe ==
  SafeSpec => /\ \A c \in Clients : Stream(c)!Init
              /\ [][\A c \in Clients : [Stream(c)!Next]_(Stream(c)!frameVars)]_vars
<1>1. Init => \A c \in Clients : Stream(c)!Init
  <2> SUFFICES ASSUME Init, NEW c \in Clients PROVE Stream(c)!Init
    OBVIOUS
  <2>1. sent[c] = <<>> /\ answers[c] = <<>> /\ ~Ended(c)
    BY DEF Init, Ended
  <2>2. SubSeq(<<>>, 1, 0) = <<>> /\ SubSeq(<<>>, 0 + 1, 0) = <<>> /\ Len(<<>>) = 0
    BY SubSeqEmpty
  <2>3. Waiting(c) = <<>> /\ Answered(c) = <<>>
    BY <2>1, <2>2 DEF Waiting, Answered
  <2>4. QED
    BY <2>1, <2>3 DEF Stream!Init, Waiting, Answered, Ended
<1>2. IInv /\ [Next]_vars => \A c \in Clients : [Stream(c)!Next]_(Stream(c)!frameVars)
  BY StreamStep
<1>3. QED
  BY <1>1, <1>2, Invariant, PTL DEF SafeSpec

-----------------------------------------------------------------------------
(* beastHttpServer.  Variables that have a name in both servers are shared *)
(* here; what is proved is about either server alone.                      *)

VARIABLES timer, open, request, shown, count

Connection == INSTANCE HttpConnection

TimerStates == {"unset", "set", "expired", "cancelled", "over"}

\* The connection has not been answered.
Early(c) == phase[c] \in {"none", "backlog", "reading", "got request"}

\* The clients whose request was counted.
Counted == {c \in Clients : shown[c] # 0}

ShapeInv ==
  /\ running \in BOOLEAN
  /\ accepting \in BOOLEAN
  /\ phase \in [Clients -> Connection!Phases]
  /\ timer \in [Clients -> TimerStates]
  /\ open \subseteq Clients
  /\ lost \subseteq Clients
  /\ request \in [Clients -> Connection!Request]

\* Nobody is counted twice, since nobody who was counted is handled again.
CountInv ==
  /\ shown \in [Clients -> Nat]
  /\ count \in Nat
  /\ count = Cardinality(Counted)
  /\ \A c \in Clients : shown[c] <= count
  /\ \A c \in Clients : Early(c) => shown[c] = 0

\* Both handlers that end the wait leave the socket closed, and no later
\* handler opens it.
DeadlineInv ==
  \A c \in Clients :
    /\ timer[c] = "unset" <=> phase[c] \in {"none", "backlog"}
    /\ timer[c] = "cancelled" => phase[c] = "over"
    /\ timer[c] = "over" => c \notin open

ConnectionInv == ShapeInv /\ CountInv /\ DeadlineInv

LEMMA CountedBound ==
  ASSUME IsFiniteSet(Clients), NEW S \in SUBSET Clients
  PROVE  /\ IsFiniteSet(S)
         /\ Cardinality(S) \in Nat /\ Cardinality(Clients) \in Nat
         /\ Cardinality(S) <= Cardinality(Clients)
  BY FS_Subset, FS_CardinalityType

LEMMA ConnectionTyped ==
  ASSUME IsFiniteSet(Clients), ConnectionInv
  PROVE  Connection!TypeOK
<1>1. count \in 0..Cardinality(Clients)
  <2>1. Counted \in SUBSET Clients
    BY DEF Counted
  <2> QED BY <2>1, CountedBound DEF ConnectionInv, CountInv
<1>2. shown \in [Clients -> 0..count]
  <2>0. shown \in [Clients -> Nat] /\ count \in Nat /\ \A c \in Clients : shown[c] <= count
    BY DEF ConnectionInv, CountInv
  <2>1. ASSUME NEW c \in Clients PROVE shown[c] \in 0..count
    <3>1. shown[c] \in Nat /\ shown[c] <= count
      BY <2>0
    <3> QED BY <2>0, <3>1
  <2> QED BY <2>0, <2>1
<1>3. \A c \in Clients : Connection!Freed(c) => c \notin open
  BY DEF ConnectionInv, DeadlineInv, Connection!Freed
<1>4. {running, accepting} \subseteq BOOLEAN /\ {open, lost} \subseteq SUBSET Clients
  <2>1. \A x \in {running, accepting} : x \in BOOLEAN
    BY Zenon DEF ConnectionInv, ShapeInv
  <2>2. \A x \in {open, lost} : x \in SUBSET Clients
    BY Zenon DEF ConnectionInv, ShapeInv
  <2> QED BY <2>1, <2>2, Zenon
<1>5. /\ phase \in [Clients -> Connection!Phases]
      /\ timer \in [Clients -> {"unset", "set", "expired", "cancelled", "over"}]
      /\ request \in [Clients -> Connection!Request]
  BY DEF ConnectionInv, ShapeInv, TimerStates
<1>6. \A c \in Clients :
        /\ timer[c] = "unset" <=> phase[c] \in {"none", "backlog"}
        /\ timer[c] = "cancelled" => phase[c] = "over"
  BY DEF ConnectionInv, DeadlineInv
<1>7. count \in 0..Connection!Cardinality(Clients)
  BY <1>1, Zenon DEF Connection!Cardinality, Cardinality
<1> QED BY <1>2, <1>3, <1>4, <1>5, <1>6, <1>7, Zenon DEF Connection!TypeOK

LEMMA ConnectionInit ==
  ASSUME Connection!Init
  PROVE  ConnectionInv
<1>1. Counted = {} /\ Cardinality({}) = 0
  BY FS_EmptySet DEF Counted, Connection!Init
<1>2. ShapeInv
  BY DEF ShapeInv, TimerStates, Connection!Init, Connection!Phases, Connection!Request
<1>3. CountInv
  BY <1>1 DEF CountInv, Connection!Init
<1>4. DeadlineInv
  BY DEF DeadlineInv, Connection!Init
<1> QED BY <1>2, <1>3, <1>4 DEF ConnectionInv

\* A step that counts no request and takes no connection back to a request.
LEMMA CountKept ==
  ASSUME CountInv, UNCHANGED <<shown, count>>, \A c \in Clients : Early(c)' => Early(c)
  PROVE  CountInv'
  BY DEF CountInv, Counted

\* request_count in the answer to one more client.
LEMMA OneMoreCounted ==
  ASSUME IsFiniteSet(Clients), CountInv, NEW c \in Clients, shown[c] = 0,
         count' = count + 1, shown' = [shown EXCEPT ![c] = count + 1],
         \A d \in Clients : Early(d)' => Early(d) /\ d # c
  PROVE  CountInv'
<1>1. shown \in [Clients -> Nat] /\ count \in Nat /\ count' \in Nat
  BY DEF CountInv
<1>2. shown' \in [Clients -> Nat] /\ shown'[c] = count + 1
      /\ \A d \in Clients : d # c => shown'[d] = shown[d]
  BY <1>1
<1>3. Counted' = Counted \cup {c} /\ c \notin Counted /\ Counted \in SUBSET Clients
  BY <1>1, <1>2 DEF Counted
<1>4. count' = Cardinality(Counted')
  <2>1. IsFiniteSet(Counted)
    BY <1>3, CountedBound
  <2>2. Cardinality(Counted \cup {c}) = Cardinality(Counted) + 1
    BY <1>3, <2>1, FS_AddElement
  <2>3. count = Cardinality(Counted)
    BY DEF CountInv
  <2> QED BY <1>3, <2>2, <2>3
<1>5. \A d \in Clients : shown'[d] <= count'
  BY <1>1, <1>2 DEF CountInv
<1>6. \A d \in Clients : Early(d)' => shown'[d] = 0
  BY <1>2 DEF CountInv
<1> QED BY <1>1, <1>2, <1>4, <1>5, <1>6 DEF CountInv

LEMMA ConnectionNext ==
  ASSUME IsFiniteSet(Clients), ConnectionInv, [Connection!Next]_(Connection!vars)
  PROVE  ConnectionInv'
<1>1. ASSUME NEW c \in Clients, Connection!Connect(c)
      PROVE  ConnectionInv'
  <2>1. ShapeInv'
    BY <1>1 DEF ConnectionInv, ShapeInv, TimerStates, Connection!Connect, Connection!Goes, Connection!Phases
  <2>2. DeadlineInv'
    BY <1>1 DEF ConnectionInv, ShapeInv, DeadlineInv, TimerStates, Connection!Connect, Connection!Goes
  <2>3. UNCHANGED <<shown, count>> /\ \A d \in Clients : Early(d)' => Early(d)
    BY <1>1 DEF ConnectionInv, ShapeInv, Early, Connection!Connect, Connection!Goes
  <2> QED BY <2>1, <2>2, <2>3, CountKept DEF ConnectionInv
<1>2. ASSUME NEW c \in Clients, Connection!Lose(c)
      PROVE  ConnectionInv'
  <2>1. ShapeInv'
    BY <1>2 DEF ConnectionInv, ShapeInv, TimerStates, Connection!Lose, Connection!Phases
  <2>2. DeadlineInv'
    BY <1>2 DEF ConnectionInv, ShapeInv, DeadlineInv, TimerStates, Connection!Lose
  <2>3. UNCHANGED <<shown, count>> /\ \A d \in Clients : Early(d)' => Early(d)
    BY <1>2 DEF ConnectionInv, ShapeInv, Early, Connection!Lose
  <2> QED BY <2>1, <2>2, <2>3, CountKept DEF ConnectionInv
<1>3. ASSUME NEW c \in Clients, \E r \in Connection!Request : Connection!ReadCompletes(c, r)
      PROVE  ConnectionInv'
  <2>1. ShapeInv'
    BY <1>3 DEF ConnectionInv, ShapeInv, TimerStates, Connection!ReadCompletes, Connection!Goes, Connection!Phases
  <2>2. DeadlineInv'
    BY <1>3 DEF ConnectionInv, ShapeInv, DeadlineInv, TimerStates, Connection!ReadCompletes, Connection!Goes
  <2>3. UNCHANGED <<shown, count>> /\ \A d \in Clients : Early(d)' => Early(d)
    BY <1>3 DEF ConnectionInv, ShapeInv, Early, Connection!ReadCompletes, Connection!Goes
  <2> QED BY <2>1, <2>2, <2>3, CountKept DEF ConnectionInv
<1>4. ASSUME NEW c \in Clients, Connection!ReadFails(c)
      PROVE  ConnectionInv'
  <2>1. ShapeInv'
    BY <1>4 DEF ConnectionInv, ShapeInv, TimerStates, Connection!ReadFails, Connection!Goes, Connection!Phases
  <2>2. DeadlineInv'
    BY <1>4 DEF ConnectionInv, ShapeInv, DeadlineInv, TimerStates, Connection!ReadFails, Connection!Goes
  <2>3. UNCHANGED <<shown, count>> /\ \A d \in Clients : Early(d)' => Early(d)
    BY <1>4 DEF ConnectionInv, ShapeInv, Early, Connection!ReadFails, Connection!Goes
  <2> QED BY <2>1, <2>2, <2>3, CountKept DEF ConnectionInv
<1>5. ASSUME NEW c \in Clients, Connection!WriteCompletes(c)
      PROVE  ConnectionInv'
  <2>1. ShapeInv'
    BY <1>5 DEF ConnectionInv, ShapeInv, TimerStates, Connection!WriteCompletes, Connection!Goes, Connection!Phases
  <2>2. DeadlineInv'
    BY <1>5 DEF ConnectionInv, ShapeInv, DeadlineInv, TimerStates, Connection!WriteCompletes, Connection!Goes
  <2>3. UNCHANGED <<shown, count>> /\ \A d \in Clients : Early(d)' => Early(d)
    BY <1>5 DEF ConnectionInv, ShapeInv, Early, Connection!WriteCompletes, Connection!Goes
  <2> QED BY <2>1, <2>2, <2>3, CountKept DEF ConnectionInv
<1>6. ASSUME NEW c \in Clients, Connection!WriteFails(c)
      PROVE  ConnectionInv'
  <2>1. ShapeInv'
    BY <1>6 DEF ConnectionInv, ShapeInv, TimerStates, Connection!WriteFails, Connection!Goes, Connection!Phases
  <2>2. DeadlineInv'
    BY <1>6 DEF ConnectionInv, ShapeInv, DeadlineInv, TimerStates, Connection!WriteFails, Connection!Goes
  <2>3. UNCHANGED <<shown, count>> /\ \A d \in Clients : Early(d)' => Early(d)
    BY <1>6 DEF ConnectionInv, ShapeInv, Early, Connection!WriteFails, Connection!Goes
  <2> QED BY <2>1, <2>2, <2>3, CountKept DEF ConnectionInv
<1>7. ASSUME NEW c \in Clients, Connection!TimerExpires(c)
      PROVE  ConnectionInv'
  <2>1. ShapeInv'
    BY <1>7 DEF ConnectionInv, ShapeInv, TimerStates, Connection!TimerExpires, Connection!Ticks, Connection!Phases
  <2>2. DeadlineInv'
    BY <1>7 DEF ConnectionInv, ShapeInv, DeadlineInv, TimerStates, Connection!TimerExpires, Connection!Ticks
  <2>3. UNCHANGED <<shown, count>> /\ \A d \in Clients : Early(d)' => Early(d)
    BY <1>7 DEF ConnectionInv, ShapeInv, Early, Connection!TimerExpires, Connection!Ticks
  <2> QED BY <2>1, <2>2, <2>3, CountKept DEF ConnectionInv
<1>8. ASSUME NEW c \in Clients, Connection!OnAccept(c)
      PROVE  ConnectionInv'
  <2>1. ShapeInv'
    BY <1>8 DEF ConnectionInv, ShapeInv, TimerStates, Connection!OnAccept, Connection!Goes, Connection!Ticks, Connection!Phases
  <2>2. DeadlineInv'
    BY <1>8 DEF ConnectionInv, ShapeInv, DeadlineInv, TimerStates, Connection!OnAccept, Connection!Goes, Connection!Ticks
  <2>3. UNCHANGED <<shown, count>> /\ \A d \in Clients : Early(d)' => Early(d)
    BY <1>8 DEF ConnectionInv, ShapeInv, Early, Connection!OnAccept, Connection!Goes, Connection!Ticks
  <2> QED BY <2>1, <2>2, <2>3, CountKept DEF ConnectionInv
<1>9. ASSUME NEW c \in Clients, Connection!OnReadError(c)
      PROVE  ConnectionInv'
  <2>1. ShapeInv'
    BY <1>9 DEF ConnectionInv, ShapeInv, TimerStates, Connection!OnReadError, Connection!Goes, Connection!Phases
  <2>2. DeadlineInv'
    BY <1>9 DEF ConnectionInv, ShapeInv, DeadlineInv, TimerStates, Connection!OnReadError, Connection!Goes
  <2>3. UNCHANGED <<shown, count>> /\ \A d \in Clients : Early(d)' => Early(d)
    BY <1>9 DEF ConnectionInv, ShapeInv, Early, Connection!OnReadError, Connection!Goes
  <2> QED BY <2>1, <2>2, <2>3, CountKept DEF ConnectionInv
<1>10. ASSUME NEW c \in Clients, Connection!OnReadThrows(c)
      PROVE  ConnectionInv'
  <2>1. ShapeInv'
    BY <1>10 DEF ConnectionInv, ShapeInv, TimerStates, Connection!OnReadThrows, Connection!Phases
  <2>2. DeadlineInv'
    BY <1>10 DEF ConnectionInv, ShapeInv, DeadlineInv, TimerStates, Connection!OnReadThrows
  <2>3. UNCHANGED <<shown, count>> /\ \A d \in Clients : Early(d)' => Early(d)
    BY <1>10 DEF ConnectionInv, ShapeInv, Early, Connection!OnReadThrows
  <2> QED BY <2>1, <2>2, <2>3, CountKept DEF ConnectionInv
<1>11. ASSUME NEW c \in Clients, Connection!OnWrite(c)
      PROVE  ConnectionInv'
  <2>1. ShapeInv'
    BY <1>11 DEF ConnectionInv, ShapeInv, TimerStates, Connection!OnWrite, Connection!Goes, Connection!Phases
  <2>2. DeadlineInv'
    BY <1>11 DEF ConnectionInv, ShapeInv, DeadlineInv, TimerStates, Connection!OnWrite, Connection!Goes
  <2>3. UNCHANGED <<shown, count>> /\ \A d \in Clients : Early(d)' => Early(d)
    BY <1>11 DEF ConnectionInv, ShapeInv, Early, Connection!OnWrite, Connection!Goes
  <2> QED BY <2>1, <2>2, <2>3, CountKept DEF ConnectionInv
<1>12. ASSUME NEW c \in Clients, Connection!OnDeadline(c)
      PROVE  ConnectionInv'
  <2>1. ShapeInv'
    BY <1>12 DEF ConnectionInv, ShapeInv, TimerStates, Connection!OnDeadline, Connection!Ticks, Connection!Phases
  <2>2. DeadlineInv'
    BY <1>12 DEF ConnectionInv, ShapeInv, DeadlineInv, TimerStates, Connection!OnDeadline, Connection!Ticks
  <2>3. UNCHANGED <<shown, count>> /\ \A d \in Clients : Early(d)' => Early(d)
    BY <1>12 DEF ConnectionInv, ShapeInv, Early, Connection!OnDeadline, Connection!Ticks
  <2> QED BY <2>1, <2>2, <2>3, CountKept DEF ConnectionInv
<1>13. ASSUME NEW c \in Clients, Connection!OnCancelled(c)
      PROVE  ConnectionInv'
  <2>1. ShapeInv'
    BY <1>13 DEF ConnectionInv, ShapeInv, TimerStates, Connection!OnCancelled, Connection!Ticks, Connection!Phases
  <2>2. DeadlineInv'
    BY <1>13 DEF ConnectionInv, ShapeInv, DeadlineInv, TimerStates, Connection!OnCancelled, Connection!Ticks
  <2>3. UNCHANGED <<shown, count>> /\ \A d \in Clients : Early(d)' => Early(d)
    BY <1>13 DEF ConnectionInv, ShapeInv, Early, Connection!OnCancelled, Connection!Ticks
  <2> QED BY <2>1, <2>2, <2>3, CountKept DEF ConnectionInv
<1>14. ASSUME NEW c \in Clients, Connection!OnRead(c)
      PROVE  ConnectionInv'
  <2>1. ShapeInv'
    BY <1>14 DEF ConnectionInv, ShapeInv, Connection!OnRead, Connection!Goes, Connection!Phases
  <2>2. DeadlineInv'
    BY <1>14 DEF ConnectionInv, ShapeInv, DeadlineInv, Connection!OnRead, Connection!Goes
  <2>3. phase[c] = "got request" /\ phase' = [phase EXCEPT ![c] = "writing"]
    BY <1>14 DEF Connection!OnRead, Connection!Goes
  <2>4. \A d \in Clients : Early(d)' => Early(d) /\ d # c
    BY <2>3 DEF ConnectionInv, ShapeInv, Early
  <2>5. CASE request[c] = "count"
    <3>1. count' = count + 1 /\ shown' = [shown EXCEPT ![c] = count + 1]
      BY <1>14, <2>5 DEF Connection!OnRead
    <3>2. shown[c] = 0
      BY <2>3 DEF ConnectionInv, CountInv, Early
    <3> QED BY <2>1, <2>2, <2>4, <3>1, <3>2, OneMoreCounted DEF ConnectionInv
  <2>6. CASE request[c] # "count"
    <3>1. UNCHANGED <<shown, count>>
      BY <1>14, <2>6 DEF Connection!OnRead
    <3> QED BY <2>1, <2>2, <2>4, <3>1, CountKept DEF ConnectionInv
  <2> QED BY <2>5, <2>6
<1>15. CASE Connection!OnAcceptError \/ UNCHANGED Connection!vars
  <2>1. ShapeInv' /\ DeadlineInv'
    BY <1>15 DEF ConnectionInv, ShapeInv, DeadlineInv, Connection!OnAcceptError, Connection!vars
  <2>2. UNCHANGED <<shown, count>> /\ \A d \in Clients : Early(d)' => Early(d)
    BY <1>15 DEF Early, Connection!OnAcceptError, Connection!vars
  <2> QED BY <2>1, <2>2, CountKept DEF ConnectionInv
<1> QED
  BY <1>1, <1>2, <1>3, <1>4, <1>5, <1>6, <1>7, <1>8, <1>9, <1>10, <1>11, <1>12, <1>13, <1>14, <1>15
     DEF Connection!Next, Connection!Handler

(***************************************************************************)
(* beastHttpServer counts no client twice, since request_count is at most  *)
(* the number of clients; a wait is cancelled only behind the answer; and  *)
(* whichever handler of a connection goes last, the socket is closed.      *)
(***************************************************************************)
THEOREM ConnectionTypeCorrect ==
  ASSUME IsFiniteSet(Clients)
  PROVE  Connection!Spec => []Connection!TypeOK
<1>1. Connection!Init => ConnectionInv
  BY ConnectionInit
<1>2. ConnectionInv /\ [Connection!Next]_(Connection!vars) => ConnectionInv'
  BY ConnectionNext
<1>3. ConnectionInv => Connection!TypeOK
  BY ConnectionTyped
<1> QED BY <1>1, <1>2, <1>3, PTL DEF Connection!Spec, Connection!SafeSpec
=============================================================================
