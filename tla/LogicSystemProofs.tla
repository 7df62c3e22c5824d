------------------------- MODULE LogicSystemProofs -------------------------
(***************************************************************************)
(* Proofs about LogicSystem, for any number of io threads, any ids, any    *)
(* number of messages and either server.                                   *)
(*                                                                         *)
(* The inductive invariant has four parts beside the types.  QueueIsRest   *)
(* says which messages the queue holds, SleepsOnEmpty what the test of the *)
(* predicate is worth while the mutex is held, ShutdownOrder what the      *)
(* worker's position says about the flag and the queue, and the fourth is  *)
(* NoLostWakeup itself.                                                    *)
(***************************************************************************)
EXTENDS LogicSystem, SequenceTheorems, TLAPS

\* The queue holds the messages behind the removed ones, in posting order.
QueueIsRest == \A i \in 1..Len(que) : que[i] = Popped + i

\* Between the test of the predicate and the wait the worker has the mutex.
SleepsOnEmpty == worker = "sleep" => que = <<>>

\* What the worker knows where it is.
ShutdownOrder ==
  /\ stop => dtor # "none"
  /\ worker \in {"drain", "exited", "crashed", "corrupt"} => stop
  /\ worker \in {"deal", "front"} => que # <<>> \/ stop
  /\ coServer /\ worker = "front" => que # <<>>
  /\ worker \in {"exited", "crashed", "corrupt"} => que = <<>>

IInv ==
  /\ TypeOK
  /\ QueueIsRest
  /\ SleepsOnEmpty
  /\ NoLostWakeup
  /\ ShutdownOrder
  /\ CalledInPostingOrder

-----------------------------------------------------------------------------
(* Types.                                                                  *)

\* Taking the front message keeps the types of the two sequences it changes.
LEMMA ServeFrontTypes ==
  ASSUME TypeOK, que # <<>>, ServeFront
  PROVE  /\ que' \in Seq(1..Len(posted))
         /\ Len(que') = Len(que) - 1
         /\ calls' \in Seq(1..Len(posted))
<1>1. /\ Head(que) \in 1..Len(posted)
      /\ Tail(que) \in Seq(1..Len(posted))
      /\ Len(Tail(que)) = Len(que) - 1
  BY HeadTailProperties DEF TypeOK
<1>2. Append(calls, Head(que)) \in Seq(1..Len(posted))
  BY <1>1, AppendProperties DEF TypeOK
<1> QED
  BY <1>1, <1>2 DEF TypeOK, ServeFront

\* The initial state has the types.
LEMMA TypeInit == Init => TypeOK
<1> SUFFICES ASSUME Init PROVE TypeOK
  OBVIOUS
<1>1. /\ que \in Seq(1..Len(posted)) /\ Len(que) = 0
      /\ posted \in Seq(Ids) /\ Len(posted) = 0
      /\ calls \in Seq(1..Len(posted))
  BY EmptySeq DEF Init
<1>2. poster \in [Posters -> {"idle", "notify"}]
  BY DEF Init
<1>3. /\ coServer \in BOOLEAN
      /\ stop \in BOOLEAN
      /\ worker \in WorkerStates
      /\ dtor \in {"none", "notify", "join", "joined"}
  BY DEF Init, WorkerStates
<1>4. Len(que) <= Len(posted)
  BY <1>1
<1> QED
  BY <1>1, <1>2, <1>3, <1>4, Zenon DEF TypeOK

\* Every step keeps the types.
LEMMA TypeStep ==
  ASSUME TypeOK, [Next]_vars
  PROVE  TypeOK'
<1> USE LogicAssumption DEF TypeOK, WorkerStates, Holding
<1>1. ASSUME NEW p \in Posters, NEW id \in Ids, PostMsgToQue(p, id)
      PROVE  TypeOK'
  <2>1. posted' \in Seq(Ids) /\ Len(posted') = Len(posted) + 1
    BY <1>1 DEF PostMsgToQue
  <2>2. que' \in Seq(1..Len(posted')) /\ Len(que') = Len(que) + 1
    BY <1>1, <2>1 DEF PostMsgToQue
  <2>3. calls' \in Seq(1..Len(posted'))
    BY <1>1, <2>1 DEF PostMsgToQue
  <2> QED
    BY <1>1, <2>1, <2>2, <2>3 DEF PostMsgToQue
<1>2. ASSUME NEW p \in Posters, PostNotify(p)
      PROVE  TypeOK'
  BY <1>2 DEF PostNotify, NotifyOne
<1>3. CASE TestPredicate
  BY <1>3 DEF TestPredicate
<1>4. CASE Wait
  BY <1>4 DEF Wait
<1>5. CASE ReadStop
  BY <1>5 DEF ReadStop
<1>6. CASE DealOne
  BY <1>6, ServeFrontTypes DEF DealOne
<1>7. CASE DrainOne
  BY <1>7, ServeFrontTypes DEF DrainOne
<1>8. CASE DrainBreak \/ DrainFallThrough \/ FrontOfEmpty
  BY <1>8 DEF DrainBreak, DrainFallThrough, FrontOfEmpty
<1>9. CASE SpuriousWakeup
  BY <1>9 DEF SpuriousWakeup
<1>10. CASE SetStop
  BY <1>10 DEF SetStop
<1>11. CASE NotifyStop
  BY <1>11 DEF NotifyStop, NotifyOne
<1>12. CASE JoinWorker
  BY <1>12 DEF JoinWorker
<1>13. CASE UNCHANGED vars
  BY <1>13 DEF vars
<1> QED
  BY <1>1, <1>2, <1>3, <1>4, <1>5, <1>6, <1>7, <1>8, <1>9, <1>10, <1>11,
     <1>12, <1>13 DEF Next, WorkerStep

(***************************************************************************)
(* The types hold throughout.                                              *)
(***************************************************************************)
THEOREM TypeCorrect == Spec => []TypeOK
BY TypeInit, TypeStep, PTL DEF Spec, SafeSpec

-----------------------------------------------------------------------------
(* The queue and the callbacks.                                            *)

\* Removing the front message: it is the next one in posting order, and the
\* callbacks stay in step with the removals.
LEMMA ServeFrontOrder ==
  ASSUME TypeOK, QueueIsRest, CalledInPostingOrder,
         que # <<>>, ServeFront, posted' = posted
  PROVE  QueueIsRest' /\ CalledInPostingOrder'
<1> DEFINE k == Popped + 1
<1>1. /\ Head(que) = k
      /\ k \in 1..Len(posted)
      /\ Popped \in Nat
      /\ Popped' = k
  <2>1. Len(que) \in Nat \ {0} /\ Len(posted) \in Nat
    BY EmptySeq DEF TypeOK
  <2>2. Head(que) = que[1]
    BY DEF TypeOK
  <2>3. que[1] = Popped + 1
    BY <2>1 DEF QueueIsRest
  <2>4. Popped \in Nat /\ k \in 1..Len(posted)
    BY <2>1 DEF TypeOK, Popped
  <2>5. Popped' = k
    BY <2>1, ServeFrontTypes DEF Popped
  <2> QED
    BY <2>2, <2>3, <2>4, <2>5
<1>2. QueueIsRest'
  <2> SUFFICES ASSUME NEW i \in 1..Len(que')
               PROVE  que'[i] = Popped' + i
    BY DEF QueueIsRest
  <2>1. que'[i] = que[i + 1] /\ i + 1 \in 1..Len(que)
    BY ServeFrontTypes DEF TypeOK, ServeFront
  <2> QED
    BY <1>1, <2>1 DEF QueueIsRest, TypeOK
<1>3. CASE posted[k] \in Registered
  <2>1. calls' = Append(calls, k)
    BY <1>1, <1>3 DEF ServeFront
  <2>2. \A i \in 1..Len(calls) : calls[i] \in 1..Popped
    BY DEF CalledInPostingOrder
  <2>3. /\ Len(calls') = Len(calls) + 1
        /\ \A i \in 1..Len(calls) : calls'[i] = calls[i]
        /\ calls'[Len(calls) + 1] = k
    BY <1>1, <2>1 DEF TypeOK
  <2>4. 1..Len(calls') = 1..Len(calls) \cup {Len(calls) + 1}
    BY <2>3 DEF TypeOK
  <2>5. \A i, j \in 1..Len(calls') : i < j => calls'[i] < calls'[j]
    <3> SUFFICES ASSUME NEW i \in 1..Len(calls'), NEW j \in 1..Len(calls'), i < j
                 PROVE  calls'[i] < calls'[j]
      OBVIOUS
    <3>1. i \in 1..Len(calls) /\ calls'[i] = calls[i]
      BY <2>3 DEF TypeOK
    <3>2. CASE j \in 1..Len(calls)
      BY <2>3, <3>1, <3>2 DEF CalledInPostingOrder
    <3>3. CASE j = Len(calls) + 1
      <4>1. calls'[j] = Popped + 1
        BY <2>3, <3>3
      <4>2. calls'[i] \in 1..Popped
        BY <2>2, <3>1
      <4> QED
        BY <1>1, <4>1, <4>2
    <3> QED
      BY <3>2, <3>3, <2>4
  <2>6. {calls'[i] : i \in 1..Len(calls')} = {calls[i] : i \in 1..Len(calls)} \cup {k}
    BY <2>3, <2>4
  <2>7. {l \in 1..Popped' : posted'[l] \in Registered}
          = {l \in 1..Popped : posted[l] \in Registered} \cup {k}
    BY <1>1, <1>3
  <2> QED
    BY <1>2, <2>5, <2>6, <2>7 DEF CalledInPostingOrder
<1>4. CASE posted[k] \notin Registered
  <2>1. calls' = calls
    BY <1>1, <1>4 DEF ServeFront
  <2>2. {l \in 1..Popped' : posted'[l] \in Registered}
          = {l \in 1..Popped : posted[l] \in Registered}
    BY <1>1, <1>4
  <2> QED
    BY <1>2, <2>1, <2>2 DEF CalledInPostingOrder
<1> QED
  BY <1>3, <1>4

\* Posting a message leaves the removed ones and their callbacks alone.
LEMMA PostOrder ==
  ASSUME TypeOK, QueueIsRest, CalledInPostingOrder,
         NEW p \in Posters, NEW id \in Ids, PostMsgToQue(p, id)
  PROVE  QueueIsRest' /\ CalledInPostingOrder'
<1>1. /\ Len(posted') = Len(posted) + 1
      /\ \A k \in 1..Len(posted) : posted'[k] = posted[k]
      /\ Len(que') = Len(que) + 1
      /\ \A i \in 1..Len(que) : que'[i] = que[i]
      /\ que'[Len(que) + 1] = Len(posted) + 1
      /\ calls' = calls
  BY DEF PostMsgToQue, TypeOK
<1>2. Popped' = Popped /\ Popped \in 0..Len(posted)
  BY <1>1 DEF Popped, TypeOK
<1>3. QueueIsRest'
  <2> SUFFICES ASSUME NEW i \in 1..Len(que')
               PROVE  que'[i] = Popped' + i
    BY DEF QueueIsRest
  <2>1. CASE i \in 1..Len(que)
    BY <1>1, <1>2, <2>1 DEF QueueIsRest
  <2>2. CASE i = Len(que) + 1
    BY <1>1, <1>2, <2>2 DEF Popped, TypeOK
  <2> QED
    BY <1>1, <2>1, <2>2 DEF TypeOK
<1>4. {k \in 1..Popped' : posted'[k] \in Registered}
        = {k \in 1..Popped : posted[k] \in Registered}
  BY <1>1, <1>2
<1> QED
  BY <1>1, <1>3, <1>4 DEF CalledInPostingOrder

\* Every step keeps the order.
LEMMA OrderStep ==
  ASSUME TypeOK, QueueIsRest, CalledInPostingOrder, [Next]_vars
  PROVE  QueueIsRest' /\ CalledInPostingOrder'
<1>1. ASSUME NEW p \in Posters, NEW id \in Ids, PostMsgToQue(p, id)
      PROVE  QueueIsRest' /\ CalledInPostingOrder'
  BY <1>1, PostOrder
<1>2. CASE DealOne \/ DrainOne
  BY <1>2, ServeFrontOrder DEF DealOne, DrainOne
<1>3. CASE UNCHANGED <<que, posted, calls>>
  BY <1>3 DEF QueueIsRest, CalledInPostingOrder, Popped
<1> QED
  BY <1>1, <1>2, <1>3
     DEF Next, WorkerStep, PostNotify, NotifyOne, TestPredicate, Wait, ReadStop,
         DrainBreak, DrainFallThrough, FrontOfEmpty, SpuriousWakeup, SetStop,
         NotifyStop, JoinWorker, vars

-----------------------------------------------------------------------------
(* The condition variable.                                                 *)

\* Every step keeps the debt of a notification.
LEMMA WakeupStep ==
  ASSUME TypeOK, SleepsOnEmpty, NoLostWakeup, [Next]_vars
  PROVE  SleepsOnEmpty' /\ NoLostWakeup'
<1> USE DEF TypeOK, SleepsOnEmpty, NoLostWakeup
<1>1. ASSUME NEW p \in Posters, NEW id \in Ids, PostMsgToQue(p, id)
      PROVE  SleepsOnEmpty' /\ NoLostWakeup'
  <2>1. worker' = worker /\ worker \notin Holding
    BY <1>1 DEF PostMsgToQue
  <2>2. CASE que = <<>>
    <3>1. NeedsNotify(que')
      BY <1>1, <2>2 DEF PostMsgToQue, NeedsNotify
    <3>2. poster'[p] = "notify"
      BY <1>1, <3>1 DEF PostMsgToQue
    <3> QED
      BY <2>1, <3>2 DEF Holding
  <2>3. CASE que # <<>>
    <3>1. \A q \in Posters : poster[q] = "notify" => poster'[q] = "notify"
      BY <1>1 DEF PostMsgToQue
    <3> QED
      BY <2>1, <2>3, <3>1 DEF Holding
  <2> QED
    BY <2>2, <2>3
<1>2. ASSUME NEW p \in Posters, PostNotify(p)
      PROVE  SleepsOnEmpty' /\ NoLostWakeup'
  BY <1>2 DEF PostNotify, NotifyOne
<1>3. CASE TestPredicate
  BY <1>3 DEF TestPredicate
<1>4. CASE Wait
  BY <1>4 DEF Wait
<1>5. CASE WorkerStep /\ ~TestPredicate /\ ~Wait
  BY <1>5 DEF WorkerStep, ReadStop, DealOne, DrainOne, DrainBreak,
              DrainFallThrough, FrontOfEmpty
<1>6. CASE SpuriousWakeup
  BY <1>6 DEF SpuriousWakeup
<1>7. CASE SetStop
  BY <1>7 DEF SetStop
<1>8. CASE NotifyStop
  BY <1>8 DEF NotifyStop, NotifyOne
<1>9. CASE JoinWorker
  BY <1>9 DEF JoinWorker
<1>10. CASE UNCHANGED vars
  BY <1>10 DEF vars
<1> QED
  BY <1>1, <1>2, <1>3, <1>4, <1>5, <1>6, <1>7, <1>8, <1>9, <1>10 DEF Next

-----------------------------------------------------------------------------
(* Shutdown.                                                               *)

\* Every step keeps what the worker's position says.
LEMMA ShutdownStep ==
  ASSUME TypeOK, ShutdownOrder, [Next]_vars
  PROVE  ShutdownOrder'
<1> USE DEF TypeOK, ShutdownOrder
<1>1. ASSUME NEW p \in Posters, NEW id \in Ids, PostMsgToQue(p, id)
      PROVE  ShutdownOrder'
  BY <1>1 DEF PostMsgToQue, Holding
<1>2. ASSUME NEW p \in Posters, PostNotify(p)
      PROVE  ShutdownOrder'
  BY <1>2 DEF PostNotify, NotifyOne
<1>3. CASE WorkerStep
  BY <1>3 DEF WorkerStep, TestPredicate, Wait, ReadStop, DealOne, DrainOne,
              DrainBreak, DrainFallThrough, FrontOfEmpty
<1>4. CASE SpuriousWakeup
  BY <1>4 DEF SpuriousWakeup
<1>5. CASE SetStop
  BY <1>5 DEF SetStop
<1>6. CASE NotifyStop
  BY <1>6 DEF NotifyStop, NotifyOne
<1>7. CASE JoinWorker
  BY <1>7 DEF JoinWorker
<1>8. CASE UNCHANGED vars
  BY <1>8 DEF vars
<1> QED
  BY <1>1, <1>2, <1>3, <1>4, <1>5, <1>6, <1>7, <1>8 DEF Next

-----------------------------------------------------------------------------
(* The results.                                                            *)

LEMMA Inductive == Spec => []IInv
<1>1. Init => IInv
  <2> SUFFICES ASSUME Init PROVE IInv
    OBVIOUS
  <2>1. Len(que) = 0 /\ Len(posted) = 0 /\ Len(calls) = 0 /\ Popped = 0
    BY EmptySeq DEF Init, Popped
  <2>2. QueueIsRest /\ CalledInPostingOrder
    BY <2>1 DEF QueueIsRest, CalledInPostingOrder
  <2> QED
    BY <2>2, TypeInit DEF Init, IInv, SleepsOnEmpty, NoLostWakeup, ShutdownOrder
<1>2. IInv /\ [Next]_vars => IInv'
  BY TypeStep, OrderStep, WakeupStep, ShutdownStep DEF IInv
<1> QED
  BY <1>1, <1>2, PTL DEF Spec, SafeSpec

(***************************************************************************)
(* Notifying on the transition from empty to one message only, and after   *)
(* the mutex is released, loses no wakeup.                                 *)
(***************************************************************************)
THEOREM WakeupSafe == Spec => []NoLostWakeup
<1>1. IInv => NoLostWakeup
  BY DEF IInv
<1> QED
  BY <1>1, Inductive, PTL

(***************************************************************************)
(* The callbacks see the messages once, in posting order, and see exactly  *)
(* those that left the queue and have a callback.                          *)
(***************************************************************************)
THEOREM OrderSafe == Spec => []CalledInPostingOrder
<1>1. IInv => CalledInPostingOrder
  BY DEF IInv
<1> QED
  BY <1>1, Inductive, PTL

(***************************************************************************)
(* The worker leaves only when told to, with every message served.         *)
(***************************************************************************)
THEOREM DrainSafe == Spec => []LeavesDrained
<1>1. IInv => LeavesDrained
  <2> SUFFICES ASSUME IInv, worker \in {"exited", "crashed", "corrupt"},
                      NEW k \in 1..Len(posted), posted[k] \in Registered
               PROVE  stop /\ \E i \in 1..Len(calls) : calls[i] = k
    BY DEF LeavesDrained, IInv, ShutdownOrder
  <2>1. stop /\ que = <<>>
    BY DEF IInv, ShutdownOrder
  <2>2. k \in 1..Popped
    BY <2>1, EmptySeq DEF IInv, TypeOK, Popped
  <2> QED
    BY <2>1, <2>2 DEF IInv, CalledInPostingOrder
<1> QED
  BY <1>1, Inductive, PTL

(***************************************************************************)
(* front() is called on a queue with a message in it, but for the one call *)
(* of logicServer behind the shutdown drain.                               *)
(***************************************************************************)
THEOREM FrontSafe == Spec => []OnlyDrainLeavesNoData
<1>1. IInv => OnlyDrainLeavesNoData
  BY DEF IInv, ShutdownOrder, OnlyDrainLeavesNoData
<1> QED
  BY <1>1, Inductive, PTL

-----------------------------------------------------------------------------
(* LogicSystem implements the mailbox, as far as safety goes.              *)

\* The two queues of the mailbox, element by element, of any posted messages
\* of which the last Len(q) are still in the queue.
LEMMA View ==
  ASSUME NEW p \in Seq(Ids), NEW q \in Seq(1..Len(p)), NEW n \in Nat,
         n = Len(p) - Len(q), \A i \in 1..Len(q) : q[i] = n + i
  PROVE  LET pend == [i \in 1..Len(q) |-> p[q[i]]]
             done == SubSeq(p, 1, n)
         IN  /\ pend \in Seq(Ids)
             /\ Len(pend) = Len(q)
             /\ \A i \in 1..Len(q) : pend[i] = p[n + i]
             /\ done \in Seq(Ids)
             /\ Len(done) = n
             /\ \A i \in 1..n : done[i] = p[i]
<1> DEFINE pend == [i \in 1..Len(q) |-> p[q[i]]]
           done == SubSeq(p, 1, n)
<1>1. Len(p) \in Nat /\ Len(q) \in Nat /\ n <= Len(p)
  BY LenProperties
<1>2. \A i \in 1..Len(q) : p[q[i]] \in Ids
  BY ElementOfSeq
<1>3. pend \in [1..Len(q) -> Ids]
  BY <1>2
<1>4. pend \in Seq(Ids) /\ Len(pend) = Len(q)
  <2>1. pend \in Seq(Ids)
    BY <1>1, <1>3, SeqDef
  <2> QED
    BY <1>1, <1>3, <2>1, LenProperties
<1>5. \A i \in 1..n : p[i] \in Ids
  BY <1>1, ElementOfSeq
<1>6. /\ done \in Seq(Ids)
      /\ Len(done) = IF 1 <= n THEN n - 1 + 1 ELSE 0
      /\ \A i \in 1..n - 1 + 1 : done[i] = p[1 + i - 1]
  BY <1>5, SubSeqProperties
<1>7. /\ Len(done) = n
      /\ \A i \in 1..n : done[i] = p[i]
  BY <1>6
<1>8. \A i \in 1..Len(q) : pend[i] = p[n + i]
  OBVIOUS
<1> QED
  BY <1>4, <1>6, <1>7, <1>8

\* The view of the state before a step.
LEMMA ViewNow ==
  ASSUME TypeOK, QueueIsRest
  PROVE  /\ Popped \in Nat
         /\ Pending \in Seq(Ids) /\ Len(Pending) = Len(que)
         /\ \A i \in 1..Len(que) : Pending[i] = posted[Popped + i]
         /\ Taken \in Seq(Ids) /\ Len(Taken) = Popped
         /\ \A i \in 1..Popped : Taken[i] = posted[i]
<1>1. Popped \in Nat
  BY LenProperties DEF TypeOK, Popped
<1> QED
  BY <1>1, View DEF TypeOK, QueueIsRest, Popped, Pending, Taken

\* The view of the state after it.
LEMMA ViewNext ==
  ASSUME TypeOK', QueueIsRest'
  PROVE  /\ Popped' \in Nat
         /\ Pending' \in Seq(Ids) /\ Len(Pending') = Len(que')
         /\ \A i \in 1..Len(que') : Pending'[i] = posted'[Popped' + i]
         /\ Taken' \in Seq(Ids) /\ Len(Taken') = Popped'
         /\ \A i \in 1..Popped' : Taken'[i] = posted'[i]
<1>1. Popped' \in Nat
  BY LenProperties DEF TypeOK, Popped
<1> QED
  BY <1>1, View DEF TypeOK, QueueIsRest, Popped, Pending, Taken

LEMMA PostImplementsPost ==
  ASSUME TypeOK, QueueIsRest, TypeOK', QueueIsRest',
         NEW p \in Posters, NEW id \in Ids, PostMsgToQue(p, id)
  PROVE  Box!Post(id)
<1>1. /\ Len(posted) \in Nat /\ Len(que) \in Nat
      /\ Len(posted') = Len(posted) + 1
      /\ \A k \in 1..Len(posted) : posted'[k] = posted[k]
      /\ posted'[Len(posted) + 1] = id
      /\ Len(que') = Len(que) + 1
  BY DEF PostMsgToQue, TypeOK
<1>2. Popped' = Popped /\ Popped + Len(que) = Len(posted)
  BY <1>1 DEF Popped
<1>3. Pending' = Append(Pending, id)
  <2>1. /\ Append(Pending, id) \in Seq(Ids)
        /\ Len(Append(Pending, id)) = Len(que) + 1
        /\ \A i \in 1..Len(que) : Append(Pending, id)[i] = Pending[i]
        /\ Append(Pending, id)[Len(que) + 1] = id
    BY ViewNow, AppendProperties
  <2>2. \A i \in 1..Len(Pending') : Pending'[i] = Append(Pending, id)[i]
    <3> SUFFICES ASSUME NEW i \in 1..Len(que) + 1
                 PROVE  Pending'[i] = Append(Pending, id)[i]
      BY <1>1, ViewNext
    <3>1. Pending'[i] = posted'[Popped + i]
      BY <1>1, <1>2, ViewNext
    <3>2. CASE i \in 1..Len(que)
      BY <1>1, <1>2, <2>1, <3>1, <3>2, ViewNow
    <3>3. CASE i = Len(que) + 1
      BY <1>1, <1>2, <2>1, <3>1, <3>3, ViewNow
    <3>4. 1..Len(que) + 1 = 1..Len(que) \cup {Len(que) + 1}
      BY <1>1
    <3> QED
      BY <3>2, <3>3, <3>4
  <2> QED
    BY <1>1, <2>1, <2>2, ViewNext, SeqEqual
<1>4. Taken' = Taken
  <2>1. Len(Taken') = Len(Taken)
    BY <1>2, ViewNow, ViewNext
  <2>2. \A i \in 1..Len(Taken') : Taken'[i] = Taken[i]
    BY <1>1, <1>2, ViewNow, ViewNext
  <2> QED
    BY <2>1, <2>2, ViewNow, ViewNext, SeqEqual
<1> QED
  BY <1>3, <1>4 DEF Box!Post

LEMMA ServeImplementsTake ==
  ASSUME TypeOK, QueueIsRest, TypeOK', QueueIsRest',
         que # <<>>, ServeFront, posted' = posted
  PROVE  Box!Take
<1>1. /\ Len(posted) \in Nat /\ Len(que) \in Nat \ {0}
      /\ Len(que') = Len(que) - 1
  BY EmptySeq, ServeFrontTypes DEF TypeOK
<1>2. Popped' = Popped + 1 /\ Popped + Len(que) = Len(posted) /\ Popped \in Nat
  BY <1>1, ViewNow DEF Popped
<1>3. /\ Pending # <<>>
      /\ Head(Pending) = posted[Popped + 1]
      /\ Head(Pending) \in Ids
      /\ Tail(Pending) \in Seq(Ids)
      /\ Len(Tail(Pending)) = Len(que) - 1
      /\ \A i \in 1..Len(que) - 1 : Tail(Pending)[i] = Pending[i + 1]
  <2>1. Pending # <<>>
    BY <1>1, EmptySeq, ViewNow
  <2>2. Head(Pending) = Pending[1]
    BY <2>1, ViewNow
  <2> QED
    BY <1>1, <2>1, <2>2, HeadTailProperties, ViewNow
<1>4. Pending' = Tail(Pending)
  <2>1. \A i \in 1..Len(Pending') : Pending'[i] = Tail(Pending)[i]
    <3> SUFFICES ASSUME NEW i \in 1..Len(que) - 1
                 PROVE  Pending'[i] = Tail(Pending)[i]
      BY <1>1, ViewNext
    <3>1. Pending'[i] = posted[Popped + 1 + i]
      BY <1>1, <1>2, ViewNext
    <3>2. Tail(Pending)[i] = posted[Popped + (i + 1)]
      BY <1>1, <1>3, ViewNow
    <3>3. Popped + 1 + i = Popped + (i + 1)
      BY <1>2
    <3> QED
      BY <3>1, <3>2, <3>3
  <2> QED
    BY <1>1, <1>3, <2>1, ViewNext, SeqEqual
<1>5. Taken' = Append(Taken, Head(Pending))
  <2>1. /\ Append(Taken, Head(Pending)) \in Seq(Ids)
        /\ Len(Append(Taken, Head(Pending))) = Popped + 1
        /\ \A i \in 1..Popped : Append(Taken, Head(Pending))[i] = Taken[i]
        /\ Append(Taken, Head(Pending))[Popped + 1] = posted[Popped + 1]
    BY <1>3, ViewNow, AppendProperties
  <2>2. \A i \in 1..Len(Taken') : Taken'[i] = Append(Taken, Head(Pending))[i]
    BY <1>2, <2>1, ViewNow, ViewNext
  <2> QED
    BY <1>2, <2>1, <2>2, ViewNext, SeqEqual
<1> QED
  BY <1>3, <1>4, <1>5 DEF Box!Take

(***************************************************************************)
(* Every behaviour of the queue, its mutex, its condition variable and its *)
(* destructor is a behaviour of the FIFO mailbox: the refinement that the  *)
(* runs check with fairness, proved for its safety part.                   *)
(***************************************************************************)
THEOREM MailboxSafe == Spec => Box!SafeSpec
<1>1. Init => Box!Init
  <2> SUFFICES ASSUME Init PROVE Pending = <<>> /\ Taken = <<>>
    BY DEF Box!Init
  <2>1. TypeOK /\ QueueIsRest /\ Len(que) = 0 /\ Popped = 0
    BY TypeInit, EmptySeq DEF Init, QueueIsRest, Popped
  <2> QED
    BY <2>1, ViewNow, EmptySeq
<1>2. IInv /\ IInv' /\ [Next]_vars => [Box!Next]_(Box!mailboxVars)
  <2> SUFFICES ASSUME IInv, IInv', [Next]_vars
               PROVE  [Box!Next]_(Box!mailboxVars)
    OBVIOUS
  <2> USE DEF IInv
  <2>1. ASSUME NEW p \in Posters, NEW id \in Ids, PostMsgToQue(p, id)
        PROVE  Box!Next
    BY <2>1, PostImplementsPost DEF Box!Next
  <2>2. CASE DealOne \/ DrainOne
    <3>1. Box!Take
      BY <2>2, ServeImplementsTake DEF DealOne, DrainOne
    <3> QED
      BY <3>1 DEF Box!Next
  <2>3. CASE UNCHANGED <<que, posted>>
    BY <2>3 DEF Box!mailboxVars, Pending, Taken, Popped
  <2> QED
    BY <2>1, <2>2, <2>3
       DEF Next, WorkerStep, PostNotify, NotifyOne, TestPredicate, Wait, ReadStop,
           DrainBreak, DrainFallThrough, FrontOfEmpty, SpuriousWakeup, SetStop,
           NotifyStop, JoinWorker, vars
<1> QED
  BY <1>1, <1>2, Inductive, PTL DEF Spec, SafeSpec, Box!SafeSpec

=============================================================================
