------------------------------- MODULE NQueen -------------------------------
(***************************************************************************)
(* The distributed N-queens solver.  The client makes a task of every      *)
(* column of the first row, hands each to a thread that calls the server   *)
(* of its turn, adds up the counts, task by task, and compares the sum     *)
(* with its own search.  A call that fails counts as 0 solutions.          *)
(***************************************************************************)
EXTENDS TaskMessages

CONSTANTS
  MaxN,        \* bound on the size of the board
  MaxServers   \* bound on the number of servers

\* The placements counted for a task fit into the int32 of its result.
ASSUME NQueenAssumption == MaxN \in 0..19 /\ MaxServers \in Nat

VARIABLES
  n,             \* arguments of the client; never change
  serverCount,
  up,            \* servers that run
  dispatched,    \* tasks handed to threads
  call,          \* per task: where its call is
  wire,          \* per task: the message under way
  result,        \* per task: what Solve returned
  failed,        \* tasks whose call failed
  collected,     \* futures main has taken
  distributed,   \* distributed_solutions
  verdict        \* outcome of the comparison

vars == <<n, serverCount, up, dispatched, call, wire, result, failed, collected,
          distributed, verdict>>

config == <<n, serverCount>>

Tasks == 0..n - 1
Server(i) == i % serverCount

-----------------------------------------------------------------------------
(* The search, of the server and of the client alike.  It has the board in *)
(* one vector, on which a queen is set before the recursion and taken back *)
(* after it.  A row that has a queen when it is reached is left alone,     *)
(* which happens on the server only.                                       *)

\* A mistake in IsSafe: the row next to the queen is not looked at.
IsSafeBut(board, row, col) ==
  \A i \in 0..row - 2 : board[i] # col /\ board[i] - col \notin {row - i, i - row}

IsSafe(board, row, col) ==
  \A i \in 0..row - 1 : board[i] # col /\ board[i] - col \notin {row - i, i - row}

\* The search that has come to a row and a column of it: backtrack, solve.
Search(size) ==
  LET State == [board : [0..size - 1 -> -1..size - 1], solutions : Nat]
      search[x \in State \X (0..size) \X (0..size)] ==
        LET s == x[1]  row == x[2]  col == x[3]
        IN  CASE row = size -> [s EXCEPT !.solutions = @ + 1]
              [] row < size /\ s.board[row] # -1 ->
                   IF IsSafe(s.board, row, s.board[row]) THEN search[<<s, row + 1, 0>>] ELSE s
              [] row < size /\ s.board[row] = -1 /\ col = size -> s
              [] OTHER ->
                   search[<<IF IsSafe(s.board, row, col)
                            THEN [search[<<[s EXCEPT !.board[row] = col], row + 1, 0>>]
                                    EXCEPT !.board[row] = -1]
                            ELSE s,
                            row, col + 1>>]
  IN  search

Count(size, board) == Search(size)[<<[board |-> board, solutions |-> 0], 0, 0>>].solutions

\* The client's own search.  It has no test for a row that has a queen, which
\* its board, empty at first and restored after every queen, never shows it.
LocalSolve(size) == Count(size, [row \in 0..size - 1 |-> -1])

\* The task of a column: a queen in the first row and -1 in the others.
InitialTask(size, col) == [k \in 1..size |-> IF k = 1 THEN col ELSE -1]

\* The server fills up with -1 what the request has too little of.
ServerBoard(m) ==
  [row \in 0..m.n - 1 |-> IF row < Len(m.partial) THEN m.partial[row + 1] ELSE -1]

-----------------------------------------------------------------------------

Init ==
  /\ n \in 0..MaxN
  /\ serverCount \in 1..MaxServers
  /\ up \in SUBSET (0..serverCount - 1)
  /\ dispatched = 0
  /\ call = [i \in Tasks |-> "none"]
  /\ wire = [i \in Tasks |-> <<>>]
  /\ result = [i \in Tasks |-> 0]
  /\ failed = {}
  /\ collected = 0
  /\ distributed = 0
  /\ verdict = "none"

\* The loop of distribute_tasks: a channel, a client and a thread for a task.
Dispatch ==
  /\ dispatched < n
  /\ call' = [call EXCEPT ![dispatched] = "started"]
  /\ dispatched' = dispatched + 1
  /\ UNCHANGED <<config, up, wire, result, failed, collected, distributed, verdict>>

\* A mistake in CallStarts: the thread has i by reference, like initial_tasks.
CallStartsByReference(i) ==
  /\ call[i] = "started"
  /\ dispatched < n
  /\ call' = [call EXCEPT ![i] = "requested"]
  /\ wire' = [wire EXCEPT ![i] = WriteRequest(RequestSized(TaskRequest(n, InitialTask(n, dispatched))))]
  /\ UNCHANGED <<config, up, dispatched, result, failed, collected, distributed, verdict>>

\* NQueenClient::Solve fills in the request, and the stub sends it.
CallStarts(i) ==
  /\ call[i] = "started"
  /\ call' = [call EXCEPT ![i] = "requested"]
  /\ \E request \in {RequestSized(TaskRequest(n, InitialTask(n, i)))} :
       wire' = [wire EXCEPT ![i] = WriteRequest(request)]
  /\ UNCHANGED <<config, up, dispatched, result, failed, collected, distributed, verdict>>

\* The service, in a thread of the server.
Serve(i) ==
  /\ call[i] = "requested"
  /\ Server(i) \in up
  /\ call' = [call EXCEPT ![i] = "answered"]
  /\ \E request \in {ReadRequest(wire[i])} : \E board \in {ServerBoard(request)} :
       wire' = [wire EXCEPT ![i] = WriteResult(TaskResult(Count(request.n, board)))]
  /\ UNCHANGED <<config, up, dispatched, result, failed, collected, distributed, verdict>>

\* status.ok()
CallReturns(i) ==
  /\ call[i] = "answered"
  /\ call' = [call EXCEPT ![i] = "ready"]
  /\ wire' = [wire EXCEPT ![i] = <<>>]
  /\ result' = [result EXCEPT ![i] = ReadResult(wire[i]).solutions]
  /\ UNCHANGED <<config, up, dispatched, failed, collected, distributed, verdict>>

\* A mistake in CallFails: the future is never made ready.
CallFailsSilently(i) ==
  /\ call[i] \in {"requested", "answered"}
  /\ call' = [call EXCEPT ![i] = "lost"]
  /\ UNCHANGED <<config, up, dispatched, wire, result, failed, collected, distributed, verdict>>

\* The connection breaks, before or after the server has done its work.
CallFails(i) ==
  /\ call[i] \in {"requested", "answered"}
  /\ call' = [call EXCEPT ![i] = "ready"]
  /\ wire' = [wire EXCEPT ![i] = <<>>]
  /\ failed' = failed \cup {i}
  /\ UNCHANGED <<config, up, dispatched, result, collected, distributed, verdict>>

\* Servers come and go.  A call that waits for one that is down fails.
ServerStarts(s) ==
  /\ s \notin up
  /\ up' = up \cup {s}
  /\ UNCHANGED <<config, dispatched, call, wire, result, failed, collected, distributed, verdict>>

ServerStops(s) ==
  /\ s \in up
  /\ up' = up \ {s}
  /\ UNCHANGED <<config, dispatched, call, wire, result, failed, collected, distributed, verdict>>

\* futures[i].get(), in the order of the tasks, whatever order they end in.
Collect ==
  /\ dispatched = n
  /\ collected < n
  /\ call[collected] = "ready"
  /\ distributed' = distributed + result[collected]
  /\ collected' = collected + 1
  /\ UNCHANGED <<config, up, dispatched, call, wire, result, failed, verdict>>

\* main: local_solve, and the comparison.
Compare ==
  /\ dispatched = n
  /\ collected = n
  /\ verdict = "none"
  /\ verdict' = IF distributed = LocalSolve(n) THEN "SUCCESS" ELSE "FAILURE"
  /\ UNCHANGED <<config, up, dispatched, call, wire, result, failed, collected, distributed>>

-----------------------------------------------------------------------------

Call(i) == CallStarts(i) \/ Serve(i) \/ CallReturns(i) \/ CallFails(i)

Main == Dispatch \/ Collect \/ Compare

Next ==
  \/ Main
  \/ \E i \in Tasks : Call(i)
  \/ \E s \in 0..serverCount - 1 : ServerStarts(s) \/ ServerStops(s)

SafeSpec == Init /\ [][Next]_vars

\* Threads run, and a call ends in one way or the other.  It has no deadline:
\* a server that holds a call for ever holds the client for ever.
Fairness ==
  /\ WF_vars(Main)
  /\ \A i \in 0..MaxN - 1 : WF_vars(i \in Tasks /\ Call(i))

Spec == SafeSpec /\ Fairness

-----------------------------------------------------------------------------
(* Properties.                                                             *)

\* All ways to put a queen into each row such that none attacks another.
Placements ==
  [size \in 0..MaxN |->
    {p \in [0..size - 1 -> 0..size - 1] :
       \A i, j \in 0..size - 1 : i < j => p[i] # p[j] /\ p[i] - p[j] \notin {j - i, i - j}}]

(***************************************************************************)
(* A call that did not fail returns the number of placements that have the *)
(* first queen in the column of its task: the request is understood by the *)
(* server as it was meant, -1 and all, the search on one board that is     *)
(* changed and restored finds each of them once, and each thread has the   *)
(* task it was started for.                                                *)
(***************************************************************************)
AnswersCount ==
  \A i \in Tasks : call[i] = "ready" /\ i \notin failed =>
    result[i] = Cardinality({p \in Placements[n] : p[0] = i})

(***************************************************************************)
(* The program finds its two searches in agreement if and only if all      *)
(* calls were answered whose tasks have solutions.  A board of no rows is  *)
(* the exception: there is no task, and one solution.                      *)
(***************************************************************************)
VerdictIsRight ==
  verdict # "none" =>
    (verdict = "SUCCESS" <=> n > 0 /\ \A p \in Placements[n] : p[0] \notin failed)

(***************************************************************************)
(* The size that ByteSizeLong announces is the size of what is written,    *)
(* and the packed values have their own length in front of them, although  *)
(* each was computed from the message apart.                               *)
(***************************************************************************)
SizesAgree ==
  \A i \in Tasks :
    /\ call[i] = "requested" =>
         /\ WireSize(wire[i]) = RequestByteSize(TaskRequest(n, InitialTask(n, i)))
         /\ \A k \in DOMAIN wire[i] : wire[i][k].size = DataSize(wire[i][k].values)
    /\ call[i] = "answered" => WireSize(wire[i]) = ResultByteSize(ReadResult(wire[i]))

(***************************************************************************)
(* The client comes to a verdict, whatever servers go down and whenever.   *)
(***************************************************************************)
VerdictComes == <>(verdict # "none")

=============================================================================
