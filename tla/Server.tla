------------------------------- MODULE Server -------------------------------
(***************************************************************************)
(* The frame around the sessions of logicServer and BoostCoServer: CServer *)
(* accepts connections on the main thread and keeps the map of sessions,   *)
(* AsioServicePool runs each session on one of its io_contexts, a thread   *)
(* for each, and a signal stops the pool and ends main.                    *)
(*                                                                         *)
(* HandleAccept starts a session before it inserts it into the map, so its *)
(* thread may be done with it by then.  Both servers insert under _mutex;  *)
(* only BoostCoServer erases under it, so an erase of logicServer may      *)
(* overlap another change of the map, which is undefined: nothing is said  *)
(* of a behaviour from there on.                                           *)
(***************************************************************************)
EXTENDS Integers, FiniteSets

CONSTANTS
  NumServices,  \* size of the pool
  MaxSessions   \* bound on the sessions StartAccept makes

ASSUME ServerAssumption ==
  /\ NumServices \in Nat \ {0}
  /\ MaxSessions \in Nat

Services == 0..NumServices - 1
Sessions == 1..MaxSessions

VARIABLES
  coServer,     \* which of the two servers this is; never changes
  nextService,  \* _nextIOService, _next_IOService_idx
  created,      \* sessions made by StartAccept so far
  service,      \* the io_context a session was made with
  reader,       \* per session: its read loop
  closed,       \* sessions on which Close() was called
  failed,       \* sessions one of whose writes failed; none is started after it
  sessions,     \* _sessions
  early,        \* history: sessions erased before they were inserted
  main,         \* where the main thread is
  thread,       \* per io_context: its thread
  erasing,      \* per io_context: the session its thread is erasing, else 0
  raced         \* the map was changed by two threads at once

vars == <<coServer, nextService, created, service, reader, closed, failed,
          sessions, early, main, thread, erasing, raced>>

Init ==
  /\ coServer \in BOOLEAN
  /\ nextService = 0
  /\ created = 0
  /\ service = [s \in Sessions |-> 0]
  /\ reader = [s \in Sessions |-> "none"]
  /\ closed = {}
  /\ failed = {}
  /\ sessions = {}
  /\ early = {}
  /\ main = "accept"
  /\ thread = [i \in Services |-> "run"]
  /\ erasing = [i \in Services |-> 0]
  /\ raced = FALSE

Erasers == {i \in Services : erasing[i] # 0}

-----------------------------------------------------------------------------
(* The main thread: CServer and the signal handler on the main io_context. *)

\* A mistake in Following: the index wraps one too late.
FollowingTooLate(n) == IF n = NumServices THEN 0 ELSE n + 1

\* GetIOService: logicServer goes round the pool.  BoostCoServer tests for the
\* end of the pool too but never moves on.
Following(n) ==
  IF coServer THEN IF n = NumServices THEN 0 ELSE n
  ELSE IF n + 1 = NumServices THEN 0 ELSE n + 1

\* The session the acceptor waits with, or has just got a connection for.
Accepted == created

\* A session is made on the next io_context and async_accept armed for it.
StartAccept ==
  /\ main = "accept"
  /\ created < MaxSessions
  /\ created' = created + 1
  /\ service' = [service EXCEPT ![created + 1] = nextService]
  /\ nextService' = Following(nextService)
  /\ main' = "run"
  /\ UNCHANGED <<coServer, reader, closed, failed, sessions, early, thread, erasing, raced>>

\* HandleAccept with an error: the session is dropped.
AcceptFails ==
  /\ main = "run"
  /\ main' = "accept"
  /\ UNCHANGED <<coServer, nextService, created, service, reader, closed, failed,
                 sessions, early, thread, erasing, raced>>

\* HandleAccept: Start() comes first, and from here on the session's thread
\* may run its handlers.
AcceptStarts ==
  /\ main = "run"
  /\ reader' = [reader EXCEPT ![Accepted] = "reading"]
  /\ main' = "started"
  /\ UNCHANGED <<coServer, nextService, created, service, closed, failed, sessions,
                 early, thread, erasing, raced>>

\* _mutex is taken for the insert; BoostCoServer's erasers hold it too.
BeginInsert ==
  /\ main = "started"
  /\ coServer => Erasers = {}
  /\ raced' = (Erasers # {})
  /\ main' = "inserting"
  /\ UNCHANGED <<coServer, nextService, created, service, reader, closed, failed,
                 sessions, early, thread, erasing>>

\* A mistake in EndInsert: all sessions have the same key.
EndInsertSameKey ==
  /\ main = "inserting"
  /\ sessions' = IF sessions = {} THEN {Accepted} ELSE sessions
  /\ main' = "accept"
  /\ UNCHANGED <<coServer, nextService, created, service, reader, closed, failed,
                 early, thread, erasing, raced>>

EndInsert ==
  /\ main = "inserting"
  /\ sessions' = sessions \cup {Accepted}
  /\ main' = "accept"
  /\ UNCHANGED <<coServer, nextService, created, service, reader, closed, failed,
                 early, thread, erasing, raced>>

\* SIGINT or SIGTERM: the main io_context is stopped, and then the pool.
Signal ==
  /\ main = "run"
  /\ main' = "join"
  /\ UNCHANGED <<coServer, nextService, created, service, reader, closed, failed,
                 sessions, early, thread, erasing, raced>>

\* The pool's threads are joined; main returns and with it goes the CServer.
Join ==
  /\ main = "join"
  /\ \A i \in Services : thread[i] = "exited"
  /\ main' = "exited"
  /\ sessions' = {}
  /\ UNCHANGED <<coServer, nextService, created, service, reader, closed, failed,
                 early, thread, erasing, raced>>

-----------------------------------------------------------------------------
(* The threads of the pool.                                                *)

Free(i) == thread[i] = "run" /\ erasing[i] = 0

\* ClearSession up to the erase.
BeginClear(s) ==
  /\ coServer => Erasers = {} /\ main # "inserting"
  /\ raced' = (Erasers # {} \/ main = "inserting")
  /\ erasing' = [erasing EXCEPT ![service[s]] = s]

\* The read fails, or the head is invalid, in which case there is no Close().
ReadEnds(s) ==
  /\ reader[s] = "reading"
  /\ Free(service[s])
  /\ BeginClear(s)
  /\ reader' = [reader EXCEPT ![s] = "ended"]
  /\ closed' \in {closed, closed \cup {s}}
  /\ UNCHANGED <<coServer, nextService, created, service, failed, sessions,
                 early, main, thread>>

\* logicServer only logs an exception in HandleRead: nothing is closed or
\* cleared, and no read is armed.  (In BoostCoServer it ends like a failed read.)
ReadThrows(s) ==
  /\ ~coServer
  /\ reader[s] = "reading"
  /\ Free(service[s])
  /\ reader' = [reader EXCEPT ![s] = "stalled"]
  /\ UNCHANGED <<coServer, nextService, created, service, closed, failed,
                 sessions, early, main, thread, erasing, raced>>

\* The coroutine of BoostCoServer finds _b_close set, and ends with no
\* ClearSession of its own.
ReadLeaves(s) ==
  /\ coServer
  /\ reader[s] = "reading"
  /\ s \in closed
  /\ Free(service[s])
  /\ reader' = [reader EXCEPT ![s] = "ended"]
  /\ UNCHANGED <<coServer, nextService, created, service, closed, failed,
                 sessions, early, main, thread, erasing, raced>>

\* HandleWrite with an error, be it the first to close and clear the session
\* or not.  The read, if any, is aborted some time later.
WriteFails(s) ==
  /\ reader[s] # "none"
  /\ s \notin failed
  /\ Free(service[s])
  /\ BeginClear(s)
  /\ closed' = closed \cup {s}
  /\ failed' = failed \cup {s}
  /\ UNCHANGED <<coServer, nextService, created, service, reader, sessions,
                 early, main, thread>>

\* Before its insertion there is nothing to erase.
EndClear(i) ==
  /\ erasing[i] # 0
  /\ sessions' = sessions \ {erasing[i]}
  /\ early' = IF main = "started" /\ erasing[i] = Accepted
              THEN early \cup {erasing[i]} ELSE early
  /\ erasing' = [erasing EXCEPT ![i] = 0]
  /\ UNCHANGED <<coServer, nextService, created, service, reader, closed, failed,
                 main, thread, raced>>

\* A mistake in RunReturns: logicServer does not stop its io_contexts either.
RunReturnsWhenIdle(i) == \A s \in Sessions : service[s] = i => reader[s] # "reading"

\* run() returns from an io_context that was stopped (logicServer), or that has
\* lost its work guard and has no operation outstanding (BoostCoServer).
RunReturns(i) ==
  coServer => \A s \in Sessions : service[s] = i => reader[s] # "reading"

ThreadExits(i) ==
  /\ main = "join"
  /\ Free(i)
  /\ RunReturns(i)
  /\ thread' = [thread EXCEPT ![i] = "exited"]
  /\ UNCHANGED <<coServer, nextService, created, service, reader, closed, failed,
                 sessions, early, main, erasing, raced>>

-----------------------------------------------------------------------------

MainStep == StartAccept \/ BeginInsert \/ EndInsert \/ Join

Next ==
  /\ ~raced
  /\ \/ MainStep
     \/ AcceptFails
     \/ AcceptStarts
     \/ Signal
     \/ \E s \in Sessions :
          ReadEnds(s) \/ ReadThrows(s) \/ ReadLeaves(s) \/ WriteFails(s)
     \/ \E i \in Services : EndClear(i) \/ ThreadExits(i)

SafeSpec == Init /\ [][Next]_vars

\* Every thread runs what it can run; clients need not connect, hang up or
\* fail, and no signal need come.
Spec ==
  /\ SafeSpec
  /\ WF_vars(~raced /\ MainStep)
  /\ \A i \in Services :
       WF_vars(~raced /\ (EndClear(i) \/ ThreadExits(i)))

-----------------------------------------------------------------------------
(* Properties.                                                             *)

TypeOK ==
  /\ coServer \in BOOLEAN
  /\ nextService \in Services
  /\ created \in 0..MaxSessions
  /\ service \in [Sessions -> Services]
  /\ reader \in [Sessions -> {"none", "reading", "stalled", "ended"}]
  /\ main \in {"accept", "run", "started", "inserting", "join", "exited"}
  /\ thread \in [Services -> {"run", "exited"}]
  /\ erasing \in [Services -> 0..MaxSessions]
  /\ {closed, failed, sessions, early} \subseteq SUBSET Sessions
  /\ raced \in BOOLEAN

(***************************************************************************)
(* A session that was neither ended nor closed is known to the server: it  *)
(* is in the map, or on its way there in HandleAccept.  Whatever else      *)
(* clears and inserts in between, ClearSession takes no session but its    *)
(* own.                                                                    *)
(***************************************************************************)
LiveIsKnown ==
  \A s \in Sessions :
    reader[s] \in {"reading", "stalled"} /\ s \notin closed /\ main # "exited" =>
      s \in sessions \/ (s = Accepted /\ main \in {"started", "inserting"})

(***************************************************************************)
(* A session of the map that was closed or reads no more, and is not just  *)
(* being erased, stays there for one of two reasons.  In both servers a    *)
(* ClearSession that came between the Start() of HandleAccept and the      *)
(* insert behind it found nothing to erase; in logicServer an exception    *)
(* ended HandleRead, which clears nothing.                                 *)
(***************************************************************************)
OnlyTwoLeaks ==
  \A s \in sessions :
    \/ s \notin closed /\ reader[s] = "reading"
    \/ s \notin closed /\ reader[s] = "stalled" /\ ~coServer
    \/ s \in early
    \/ erasing[service[s]] = s

(***************************************************************************)
(* The map of sessions holds what is alive, and what is dead in it leaked  *)
(* in one of the two ways there are, through any order of accepts, ends,   *)
(* exceptions and clears on the main thread and those of the pool.         *)
(***************************************************************************)
MapIsExact == LiveIsKnown /\ OnlyTwoLeaks

(***************************************************************************)
(* After a signal the process ends: logicServer whatever its clients do,   *)
(* BoostCoServer, whose pool is not stopped, once no session reads.        *)
(***************************************************************************)
StopEnds ==
  main = "join" /\ (coServer => \A s \in Sessions : reader[s] # "reading")
    ~> main = "exited" \/ raced

=============================================================================
