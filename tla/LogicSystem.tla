---------------------------- MODULE LogicSystem ----------------------------
(***************************************************************************)
(* The logic layer of the two layered servers (logicServer and             *)
(* BoostCoServer): a queue of complete messages filled by the io threads   *)
(* (PostMsgToQue) and emptied by one worker thread (DealMsg), guarded by a *)
(* mutex and a condition variable, and shut down by the destructor.        *)
(*                                                                         *)
(* _mutex is not a variable: an io thread takes and releases it within one *)
(* action, and the worker holds it exactly when worker \in Holding.        *)
(* _b_stop is written and the condition variable notified by the           *)
(* destructor WITHOUT the mutex, so the predicate test and the start of    *)
(* the wait are separate actions of the worker.                            *)
(*                                                                         *)
(* The two servers differ in one place only: after the shutdown drain      *)
(* BoostCoServer leaves the loop, logicServer falls through to front().    *)
(***************************************************************************)
EXTENDS Naturals, Sequences

CONSTANTS
  Posters,          \* io threads that complete messages
  Ids,              \* message ids that occur in headers
  Registered,       \* ids with an entry in _fun_callbacks
  MaxPosts          \* bound on the number of messages posted

ASSUME LogicAssumption ==
  /\ Registered \subseteq Ids
  /\ MaxPosts \in Nat

VARIABLES
  coServer, \* which of the two servers this is; never changes
  que,      \* _msg_que; a message is the number of its post
  stop,     \* _b_stop
  worker,   \* where the worker is in DealMsg
  poster,   \* per io thread: about to call notify_one, or not in PostMsgToQue
  dtor,     \* progress of ~LogicSystem
  posted,   \* history: posted[k] is the id of the k-th message posted
  calls     \* history: messages handed to their callback, in order

vars == <<coServer, que, stop, worker, poster, dtor, posted, calls>>

\* Worker positions at which DealMsg owns _mutex.
Holding == {"sleep", "deal", "drain", "front"}

WorkerStates ==
  Holding \cup {"lock", "asleep", "exited", "crashed", "corrupt"}

\* Messages removed from the queue so far.
Popped == Len(posted) - Len(que)

Init ==
  /\ coServer \in BOOLEAN
  /\ que = <<>>
  /\ stop = FALSE
  /\ worker = "lock"
  /\ poster = [p \in Posters |-> "idle"]
  /\ dtor = "none"
  /\ posted = <<>>
  /\ calls = <<>>

-----------------------------------------------------------------------------
(* The io threads.                                                         *)

\* A mistake in NeedsNotify: the size the queue had before the push.
NeedsNotifyStale(q) == Len(q) = 2

\* PostMsgToQue notifies only when its push made the queue non-empty.
NeedsNotify(q) == Len(q) = 1

\* notify_one: the worker is the only thread that ever waits.
NotifyOne == worker' = IF worker = "asleep" THEN "lock" ELSE worker

\* PostMsgToQue up to the release of the mutex.  Once the destructor runs the
\* io threads have been joined, so nothing is posted any more.
PostMsgToQue(p, id) ==
  /\ dtor = "none"
  /\ poster[p] = "idle"
  /\ worker \notin Holding
  /\ Len(posted) < MaxPosts
  /\ posted' = Append(posted, id)
  /\ que' = Append(que, Len(posted) + 1)
  /\ poster' = [poster EXCEPT ![p] = IF NeedsNotify(que') THEN "notify" ELSE "idle"]
  /\ UNCHANGED <<coServer, stop, worker, dtor, calls>>

\* The rest of PostMsgToQue, after uni_lock.unlock().
PostNotify(p) ==
  /\ poster[p] = "notify"
  /\ poster' = [poster EXCEPT ![p] = "idle"]
  /\ NotifyOne
  /\ UNCHANGED <<coServer, que, stop, dtor, posted, calls>>

-----------------------------------------------------------------------------
(* The worker thread, DealMsg.                                             *)

\* Take the mutex (first entry, or return from wait) and test the predicate.
TestPredicate ==
  /\ worker = "lock"
  /\ worker' = IF que = <<>> /\ ~stop THEN "sleep" ELSE "deal"
  /\ UNCHANGED <<coServer, que, stop, poster, dtor, posted, calls>>

\* _consume.wait(lock): join the waiters and release the mutex, atomically.
Wait ==
  /\ worker = "sleep"
  /\ worker' = "asleep"
  /\ UNCHANGED <<coServer, que, stop, poster, dtor, posted, calls>>

\* A mistake in SpuriousWakeup: "if" for "while", the predicate is not re-tested.
SpuriousWakeupNoRetest ==
  /\ worker = "asleep"
  /\ worker' = "deal"
  /\ UNCHANGED <<coServer, que, stop, poster, dtor, posted, calls>>

\* wait may also return without a notification; the loop tests again.
SpuriousWakeup ==
  /\ worker = "asleep"
  /\ worker' = "lock"
  /\ UNCHANGED <<coServer, que, stop, poster, dtor, posted, calls>>

\* A mistake in ReadStop: leave at once, without draining the queue.
ReadStopNoDrain ==
  /\ worker = "deal"
  /\ worker' = IF stop THEN "exited" ELSE "front"
  /\ UNCHANGED <<coServer, que, stop, poster, dtor, posted, calls>>

\* if (_b_stop): the flag is read a second time, after the predicate.
ReadStop ==
  /\ worker = "deal"
  /\ worker' = IF stop THEN "drain" ELSE "front"
  /\ UNCHANGED <<coServer, que, stop, poster, dtor, posted, calls>>

\* A mistake in ServeFront: the callback gets the next message.
ServeFrontNext ==
  /\ calls' = IF posted[Head(que)] \in Registered THEN Append(calls, Head(que) + 1) ELSE calls
  /\ que' = Tail(que)

\* The callback of the front message, if its id has one, and then pop(); the
\* mutex is held all along.
ServeFront ==
  /\ calls' = IF posted[Head(que)] \in Registered THEN Append(calls, Head(que)) ELSE calls
  /\ que' = Tail(que)

\* One message in normal operation; the end of the loop body releases the mutex.
DealOne ==
  /\ worker = "front"
  /\ que # <<>>
  /\ ServeFront
  /\ worker' = "lock"
  /\ UNCHANGED <<coServer, stop, poster, dtor, posted>>

\* One message of the shutdown drain; the mutex is kept.
DrainOne ==
  /\ worker = "drain"
  /\ que # <<>>
  /\ ServeFront
  /\ UNCHANGED <<coServer, stop, worker, poster, dtor, posted>>

\* BoostCoServer: break out of the loop.
DrainBreak ==
  /\ coServer
  /\ worker = "drain"
  /\ que = <<>>
  /\ worker' = "exited"
  /\ UNCHANGED <<coServer, que, stop, poster, dtor, posted, calls>>

\* logicServer: no break, the code below the drain runs.
DrainFallThrough ==
  /\ ~coServer
  /\ worker = "drain"
  /\ que = <<>>
  /\ worker' = "front"
  /\ UNCHANGED <<coServer, que, stop, poster, dtor, posted, calls>>

\* front() of an empty std::queue is undefined: the process dies on the stale
\* slot, or the slot passes for a message and pop() corrupts the size, after
\* which the queue never looks empty again.
FrontOfEmpty ==
  /\ worker = "front"
  /\ que = <<>>
  /\ worker' \in {"crashed", "corrupt"}
  /\ UNCHANGED <<coServer, que, stop, poster, dtor, posted, calls>>

-----------------------------------------------------------------------------
(* The thread that runs ~LogicSystem.                                      *)

\* _b_stop = true, without the mutex.  Static destruction follows the return
\* of main, and main has joined the io threads (AsioServicePool::Stop).
SetStop ==
  /\ dtor = "none"
  /\ \A p \in Posters : poster[p] = "idle"
  /\ stop' = TRUE
  /\ dtor' = "notify"
  /\ UNCHANGED <<coServer, que, worker, poster, posted, calls>>

\* A mistake in NotifyStop: the flag is set and nobody is told.
NotifyStopSilent ==
  /\ dtor = "notify"
  /\ dtor' = "join"
  /\ UNCHANGED <<coServer, que, stop, worker, poster, posted, calls>>

\* _consume.notify_one()
NotifyStop ==
  /\ dtor = "notify"
  /\ dtor' = "join"
  /\ NotifyOne
  /\ UNCHANGED <<coServer, que, stop, poster, posted, calls>>

\* _worker_thread.join() returns.
JoinWorker ==
  /\ dtor = "join"
  /\ worker = "exited"
  /\ dtor' = "joined"
  /\ UNCHANGED <<coServer, que, stop, worker, poster, posted, calls>>

-----------------------------------------------------------------------------

\* What the worker thread does when it is scheduled.
WorkerStep ==
  \/ TestPredicate
  \/ Wait
  \/ ReadStop
  \/ DealOne
  \/ DrainOne
  \/ DrainBreak
  \/ DrainFallThrough
  \/ FrontOfEmpty

Next ==
  \/ \E p \in Posters, id \in Ids : PostMsgToQue(p, id)
  \/ \E p \in Posters : PostNotify(p)
  \/ WorkerStep
  \/ SpuriousWakeup
  \/ SetStop
  \/ NotifyStop
  \/ JoinWorker

SafeSpec == Init /\ [][Next]_vars

\* Every thread that can run is eventually scheduled.  The environment need
\* not post, the process need not end, and no spurious wakeup need happen.
Fairness ==
  /\ \A p \in Posters : WF_vars(PostNotify(p))
  /\ WF_vars(WorkerStep)
  /\ WF_vars(NotifyStop)
  /\ WF_vars(JoinWorker)

Spec == SafeSpec /\ Fairness

-----------------------------------------------------------------------------
(* Properties.                                                             *)

TypeOK ==
  /\ coServer \in BOOLEAN
  /\ que \in Seq(1..Len(posted))
  /\ Len(que) <= Len(posted)
  /\ stop \in BOOLEAN
  /\ worker \in WorkerStates
  /\ poster \in [Posters -> {"idle", "notify"}]
  /\ dtor \in {"none", "notify", "join", "joined"}
  /\ posted \in Seq(Ids)
  /\ calls \in Seq(1..Len(posted))

(***************************************************************************)
(* PostMsgToQue notifies only on the transition from empty to one element, *)
(* after the mutex is released, while other io threads may push meanwhile. *)
(* Still, the worker never sleeps on a non-empty queue unless the io       *)
(* thread that owes it the notification is just about to give it.          *)
(***************************************************************************)
NoLostWakeup ==
  worker = "asleep" /\ que # <<>> => \E p \in Posters : poster[p] = "notify"

(***************************************************************************)
(* A message is handed to its callback at most once, in posting order, and *)
(* the callbacks have seen exactly the removed messages whose id has one.  *)
(***************************************************************************)
CalledInPostingOrder ==
  /\ \A i, j \in 1..Len(calls) : i < j => calls[i] < calls[j]
  /\ {calls[i] : i \in 1..Len(calls)} = {k \in 1..Popped : posted[k] \in Registered}

(***************************************************************************)
(* Shutdown loses nothing: when the worker leaves DealMsg, in order        *)
(* (BoostCoServer) or through front() of the drained queue (logicServer),  *)
(* it was told to stop and the callbacks have seen all that was posted.    *)
(***************************************************************************)
LeavesDrained ==
  worker \in {"exited", "crashed", "corrupt"} =>
    /\ stop
    /\ \A k \in 1..Len(posted) :
         posted[k] \in Registered => \E i \in 1..Len(calls) : calls[i] = k

(***************************************************************************)
(* The comment above the normal path of DealMsg says that execution gets   *)
(* there with data in the queue.  That fails in one way only: logicServer  *)
(* goes on to front() after the shutdown drain.  Neither server does so    *)
(* before, whatever spurious wakeups and the destructor do to the wait.    *)
(***************************************************************************)
OnlyDrainLeavesNoData == worker = "front" /\ que = <<>> => ~coServer /\ stop

(***************************************************************************)
(* A destructor that notifies a worker already asleep is heard: the worker *)
(* drains the queue and leaves, and join() returns, or, in logicServer,    *)
(* front() of the drained queue has come first.                            *)
(***************************************************************************)
StopHeard ==
  (dtor = "notify" /\ worker = "asleep") ~>
    (dtor = "joined" \/ (~coServer /\ worker \in {"crashed", "corrupt"}))

(***************************************************************************)
(* The comment on the shutdown path of BoostCoServer's DealMsg: when       *)
(* closing, the worker finishes all logic and then leaves the loop.        *)
(***************************************************************************)
StopExits == coServer /\ stop ~> worker = "exited"

(***************************************************************************)
(* The queue, its lock, its condition variable and its shutdown implement  *)
(* a fair FIFO mailbox.                                                    *)
(***************************************************************************)
Pending == [i \in 1..Len(que) |-> posted[que[i]]]
Taken == SubSeq(posted, 1, Popped)

Box == INSTANCE Mailbox WITH Message <- Ids, pending <- Pending, taken <- Taken

ImplementsMailbox == Box!Spec

=============================================================================
