---------------------------- MODULE ServerProofs ----------------------------
(***************************************************************************)
(* Proofs about Server, for any number of io_contexts and connections.     *)
(*                                                                         *)
(* The argument: a session is erased only once it has ended or was closed  *)
(* (ErasedIsDone), so no erase can take a live one; and an insert meets    *)
(* no erase (InsertIsAlone), so a session that ended or was closed before  *)
(* its insert was erased while HandleAccept had yet to take the mutex      *)
(* (EndedIsErased).  This covers a coroutine that leaves without a word to *)
(* the map: whoever closed its session had the erase done.                 *)
(* What else is in the map and reads no more was ended by an exception,    *)
(* which only logicServer lets pass (Started).                             *)
(***************************************************************************)
EXTENDS Server, TLAPS

\* The session HandleAccept is about to insert, or is inserting.
Underway(s) == s = created /\ main \in {"started", "inserting"}

Numbered ==
  /\ sessions \subseteq 1..created
  /\ \A s \in Sessions : reader[s] # "none" => s <= created
  /\ \A s \in Sessions : reader[s] = "none" => s \notin closed
  /\ main \in {"run", "started", "inserting"} => created # 0
  /\ main = "run" => reader[created] = "none"

\* What is in the map, or about to be, was started, and only logicServer lets
\* an exception end a read loop without a word to the map.
Started ==
  /\ \A s \in Sessions : s \in sessions \/ Underway(s) => reader[s] # "none"
  /\ \A s \in Sessions : reader[s] = "stalled" => ~coServer

ErasedIsDone ==
  \A i \in Services :
    erasing[i] # 0 => erasing[i] \in closed \/ reader[erasing[i]] = "ended"

InsertIsAlone == ~raced /\ main = "inserting" => Erasers = {}

EndedIsErased ==
  \A s \in Sessions :
    (s \in sessions \/ Underway(s)) /\ (reader[s] = "ended" \/ s \in closed) =>
      s \in early \/ erasing[service[s]] = s

IInv ==
  /\ TypeOK
  /\ Numbered
  /\ ErasedIsDone
  /\ InsertIsAlone
  /\ EndedIsErased
  /\ Started
  /\ LiveIsKnown

-----------------------------------------------------------------------------
(* The initial state.                                                      *)

LEMMA InitIInv == Init => IInv
<1> SUFFICES ASSUME Init PROVE IInv
  OBVIOUS
<1>1. 0 \in Services
  BY ServerAssumption DEF Services
<1>2. TypeOK
  <2>1. nextService \in Services /\ created \in 0..MaxSessions
    BY <1>1, ServerAssumption DEF Init
  <2>2. coServer \in BOOLEAN /\ raced \in BOOLEAN
    BY Zenon DEF Init
  <2>3. /\ service \in [Sessions -> Services]
        /\ reader \in [Sessions -> {"none", "reading", "stalled", "ended"}]
        /\ thread \in [Services -> {"run", "exited"}]
        /\ erasing \in [Services -> 0..MaxSessions]
    BY <1>1, ServerAssumption DEF Init
  <2>4. /\ main \in {"accept", "run", "started", "inserting", "join", "exited"}
        /\ {closed, failed, sessions, early} \subseteq SUBSET Sessions
    BY DEF Init
  <2> QED
    BY <2>1, <2>2, <2>3, <2>4 DEF TypeOK
<1>3. Numbered /\ Started /\ LiveIsKnown
  BY DEF Init, Numbered, Started, Underway, LiveIsKnown
<1>4. ErasedIsDone /\ InsertIsAlone /\ EndedIsErased
  BY DEF Init, ErasedIsDone, InsertIsAlone, EndedIsErased, Erasers
<1> QED
  BY <1>2, <1>3, <1>4 DEF IInv

-----------------------------------------------------------------------------
(* Types.                                                                  *)

LEMMA FollowingType == \A n \in Services : Following(n) \in Services
BY ServerAssumption DEF Following, Services

LEMMA TypeStep == TypeOK /\ Numbered /\ [Next]_vars => TypeOK'
<1> SUFFICES ASSUME TypeOK, Numbered, [Next]_vars PROVE TypeOK'
  OBVIOUS
<1> USE DEF TypeOK
<1>1. CASE StartAccept
  <2>1. nextService' \in Services /\ service' \in [Sessions -> Services]
    BY <1>1, FollowingType DEF StartAccept
  <2>2. created' \in 0..MaxSessions
    BY <1>1, ServerAssumption DEF StartAccept
  <2> QED
    BY <1>1, <2>1, <2>2 DEF StartAccept
<1>2. CASE AcceptFails
  BY <1>2 DEF AcceptFails
<1>3. CASE AcceptStarts
  <2>1. Accepted \in Sessions
    BY <1>3, ServerAssumption DEF AcceptStarts, Numbered, Accepted, Sessions
  <2> QED
    BY <1>3, <2>1 DEF AcceptStarts
<1>4. CASE BeginInsert
  BY <1>4 DEF BeginInsert
<1>5. CASE EndInsert
  <2>1. Accepted \in Sessions
    BY <1>5, ServerAssumption DEF EndInsert, Numbered, Accepted, Sessions
  <2> QED
    BY <1>5, <2>1 DEF EndInsert
<1>6. CASE Signal
  BY <1>6 DEF Signal
<1>7. CASE Join
  BY <1>7 DEF Join
<1>8. ASSUME NEW s \in Sessions, ReadEnds(s) PROVE TypeOK'
  <2>1. erasing' \in [Services -> 0..MaxSessions]
    BY <1>8, ServerAssumption DEF ReadEnds, BeginClear, Sessions
  <2> QED
    BY <1>8, <2>1 DEF ReadEnds, BeginClear
<1>9. ASSUME NEW s \in Sessions, WriteFails(s) PROVE TypeOK'
  <2>1. erasing' \in [Services -> 0..MaxSessions]
    BY <1>9, ServerAssumption DEF WriteFails, BeginClear, Sessions
  <2> QED
    BY <1>9, <2>1 DEF WriteFails, BeginClear
<1>10. ASSUME NEW i \in Services, EndClear(i) PROVE TypeOK'
  <2>1. erasing[i] \in Sessions
    BY <1>10, ServerAssumption DEF EndClear, Sessions
  <2>2. sessions' \subseteq Sessions /\ early' \subseteq Sessions
    BY <1>10, <2>1 DEF EndClear
  <2>3. erasing' \in [Services -> 0..MaxSessions]
    BY <1>10, ServerAssumption DEF EndClear
  <2> QED
    BY <1>10, <2>2, <2>3 DEF EndClear
<1>11. ASSUME NEW i \in Services, ThreadExits(i) PROVE TypeOK'
  BY <1>11 DEF ThreadExits
<1>12. ASSUME NEW s \in Sessions, ReadThrows(s) PROVE TypeOK'
  BY <1>12 DEF ReadThrows
<1>13. ASSUME NEW s \in Sessions, ReadLeaves(s) PROVE TypeOK'
  BY <1>13 DEF ReadLeaves
<1>14. CASE UNCHANGED vars
  BY <1>14 DEF vars
<1> QED
  BY <1>1, <1>2, <1>3, <1>4, <1>5, <1>6, <1>7, <1>8, <1>9, <1>10, <1>11, <1>12, <1>13,
     <1>14
  DEF Next, MainStep

-----------------------------------------------------------------------------
(* The rest of the invariant, a step at a time.                            *)

LEMMA NumberedStep == TypeOK /\ Numbered /\ [Next]_vars => Numbered'
<1> SUFFICES ASSUME TypeOK, Numbered, [Next]_vars PROVE Numbered'
  OBVIOUS
<1> USE ServerAssumption DEF TypeOK, Numbered, Sessions
<1>1. CASE StartAccept
  BY <1>1 DEF StartAccept
<1>2. CASE AcceptFails
  BY <1>2 DEF AcceptFails
<1>3. CASE AcceptStarts
  BY <1>3 DEF AcceptStarts, Accepted
<1>4. CASE BeginInsert
  BY <1>4 DEF BeginInsert
<1>5. CASE EndInsert
  BY <1>5 DEF EndInsert, Accepted
<1>6. CASE Signal
  BY <1>6 DEF Signal
<1>7. CASE Join
  BY <1>7 DEF Join
<1>8. ASSUME NEW s \in Sessions, ReadEnds(s) PROVE Numbered'
  BY <1>8 DEF ReadEnds, BeginClear
<1>9. ASSUME NEW s \in Sessions, WriteFails(s) PROVE Numbered'
  BY <1>9 DEF WriteFails, BeginClear
<1>10. ASSUME NEW i \in Services, EndClear(i) PROVE Numbered'
  BY <1>10 DEF EndClear
<1>11. ASSUME NEW i \in Services, ThreadExits(i) PROVE Numbered'
  BY <1>11 DEF ThreadExits
<1>12. ASSUME NEW s \in Sessions, ReadThrows(s) PROVE Numbered'
  BY <1>12 DEF ReadThrows
<1>13. ASSUME NEW s \in Sessions, ReadLeaves(s) PROVE Numbered'
  BY <1>13 DEF ReadLeaves
<1>14. CASE UNCHANGED vars
  BY <1>14 DEF vars
<1> QED
  BY <1>1, <1>2, <1>3, <1>4, <1>5, <1>6, <1>7, <1>8, <1>9, <1>10, <1>11, <1>12, <1>13,
     <1>14
  DEF Next, MainStep

LEMMA ErasedIsDoneStep ==
  TypeOK /\ Numbered /\ ErasedIsDone /\ [Next]_vars => ErasedIsDone'
<1> SUFFICES ASSUME TypeOK, Numbered, ErasedIsDone, [Next]_vars PROVE ErasedIsDone'
  OBVIOUS
<1> USE DEF ErasedIsDone
<1>1. CASE AcceptStarts
  <2>1. \A i \in Services : erasing[i] # 0 => erasing[i] \in Sessions
    BY ServerAssumption DEF TypeOK, Sessions
  <2>2. created \in Sessions /\ reader[created] = "none"
    BY <1>1, ServerAssumption DEF AcceptStarts, Numbered, TypeOK, Sessions
  <2>3. \A i \in Services : erasing[i] # 0 /\ erasing[i] \notin closed => erasing[i] # created
    BY <2>2
  <2> QED
    BY <1>1, <2>1, <2>3 DEF AcceptStarts, Accepted, TypeOK
<1>2. CASE StartAccept \/ AcceptFails \/ BeginInsert \/ EndInsert \/ Signal \/ Join
  BY <1>2 DEF StartAccept, AcceptFails, BeginInsert, EndInsert, Signal, Join
<1>3. ASSUME NEW s \in Sessions, ReadEnds(s) \/ WriteFails(s) PROVE ErasedIsDone'
  <2>1. \A i \in Services : erasing[i] # 0 => erasing[i] \in Sessions
    BY ServerAssumption DEF TypeOK, Sessions
  <2> QED
    BY <1>3, <2>1 DEF ReadEnds, WriteFails, BeginClear, TypeOK
<1>4. ASSUME NEW i \in Services, EndClear(i) \/ ThreadExits(i) PROVE ErasedIsDone'
  BY <1>4 DEF EndClear, ThreadExits, TypeOK
<1>5. ASSUME NEW s \in Sessions, ReadThrows(s) \/ ReadLeaves(s) PROVE ErasedIsDone'
  <2>1. UNCHANGED <<erasing, closed>> /\ reader[s] # "ended"
    BY <1>5 DEF ReadThrows, ReadLeaves
  <2>2. \A t \in Sessions : t # s => reader'[t] = reader[t]
    BY <1>5 DEF ReadThrows, ReadLeaves, TypeOK
  <2>3. \A i \in Services : erasing[i] # 0 => erasing[i] \in Sessions
    BY ServerAssumption DEF TypeOK, Sessions
  <2> QED
    BY <2>1, <2>2, <2>3
<1>6. CASE UNCHANGED vars
  BY <1>6 DEF vars
<1> QED
  BY <1>1, <1>2, <1>3, <1>4, <1>5, <1>6 DEF Next, MainStep

LEMMA InsertIsAloneStep ==
  TypeOK /\ InsertIsAlone /\ [Next]_vars => InsertIsAlone'
<1> SUFFICES ASSUME TypeOK, InsertIsAlone, [Next]_vars PROVE InsertIsAlone'
  OBVIOUS
<1> USE DEF InsertIsAlone
<1>1. CASE BeginInsert
  BY <1>1 DEF BeginInsert, Erasers
<1>2. CASE StartAccept \/ AcceptFails \/ AcceptStarts \/ EndInsert \/ Signal \/ Join
  BY <1>2 DEF StartAccept, AcceptFails, AcceptStarts, EndInsert, Signal, Join
<1>3. ASSUME NEW s \in Sessions, ReadEnds(s) \/ WriteFails(s) PROVE InsertIsAlone'
  BY <1>3 DEF ReadEnds, WriteFails, BeginClear
<1>4. ASSUME NEW i \in Services, EndClear(i) PROVE InsertIsAlone'
  BY <1>4 DEF EndClear, Erasers, TypeOK
<1>5. ASSUME NEW i \in Services, ThreadExits(i) PROVE InsertIsAlone'
  BY <1>5 DEF ThreadExits, Erasers
<1>6. ASSUME NEW s \in Sessions, ReadThrows(s) \/ ReadLeaves(s) PROVE InsertIsAlone'
  BY <1>6 DEF ReadThrows, ReadLeaves, Erasers
<1>7. CASE UNCHANGED vars
  BY <1>7 DEF vars, Erasers
<1> QED
  BY <1>1, <1>2, <1>3, <1>4, <1>5, <1>6, <1>7 DEF Next, MainStep

LEMMA EndedIsErasedStep ==
  TypeOK /\ Numbered /\ InsertIsAlone /\ EndedIsErased /\ [Next]_vars => EndedIsErased'
<1> SUFFICES ASSUME TypeOK, Numbered, InsertIsAlone, EndedIsErased, [Next]_vars
             PROVE EndedIsErased'
  OBVIOUS
<1> USE DEF EndedIsErased, Underway
<1>1. CASE StartAccept
  <2>1. \A s \in sessions : s # created + 1
    BY ServerAssumption DEF TypeOK, Numbered
  <2> QED
    BY <1>1, <2>1 DEF StartAccept, TypeOK
<1>2. CASE AcceptStarts
  <2>1. created \in Sessions /\ created \notin closed
    BY <1>2, ServerAssumption DEF AcceptStarts, Numbered, TypeOK, Sessions
  <2> QED
    BY <1>2, <2>1 DEF AcceptStarts, Accepted, TypeOK
<1>3. CASE EndInsert
  BY <1>3 DEF EndInsert, Accepted
<1>4. CASE AcceptFails \/ BeginInsert \/ Signal \/ Join
  BY <1>4 DEF AcceptFails, BeginInsert, Signal, Join
<1>5. ASSUME NEW s \in Sessions, ReadEnds(s) \/ WriteFails(s) PROVE EndedIsErased'
  <2>1. /\ erasing[service[s]] = 0
        /\ erasing' = [erasing EXCEPT ![service[s]] = s]
        /\ UNCHANGED <<created, main, sessions, early, service>>
    BY <1>5 DEF ReadEnds, WriteFails, BeginClear, Free
  <2>2. /\ \A t \in Sessions : t # s => reader'[t] = reader[t]
        /\ \A t \in Sessions : t # s => (t \in closed' => t \in closed)
    BY <1>5 DEF ReadEnds, WriteFails, TypeOK
  <2>3. erasing'[service[s]] = s
    BY <2>1 DEF TypeOK
  <2>4. \A t \in Sessions : t # s /\ erasing[service[t]] = t => erasing'[service[t]] = t
    BY <2>1, ServerAssumption DEF TypeOK, Sessions
  <2>5. ASSUME NEW t \in Sessions, t # s, t \in sessions' \/ Underway(t)',
               reader'[t] = "ended" \/ t \in closed'
        PROVE  t \in early' \/ erasing'[service'[t]] = t
    <3>1. t \in sessions \/ Underway(t)
      BY <2>1, <2>5
    <3>2. reader[t] = "ended" \/ t \in closed
      BY <2>2, <2>5
    <3>3. t \in early \/ erasing[service[t]] = t
      BY <3>1, <3>2
    <3>4. erasing[service[t]] = t => erasing'[service[t]] = t
      BY <2>4, <2>5
    <3> QED
      BY <2>1, <3>3, <3>4
  <2>6. erasing'[service'[s]] = s
    BY <2>1, <2>3
  <2> QED
    BY <2>5, <2>6
<1>6. ASSUME NEW i \in Services, EndClear(i), ~raced PROVE EndedIsErased'
  <2>1. main # "inserting"
    BY <1>6 DEF EndClear, InsertIsAlone, Erasers
  <2> QED
    BY <1>6, <2>1 DEF EndClear, Accepted, TypeOK
<1>7. ASSUME NEW i \in Services, ThreadExits(i) PROVE EndedIsErased'
  BY <1>7 DEF ThreadExits
<1>8. ASSUME NEW s \in Sessions, ReadThrows(s) \/ ReadLeaves(s) PROVE EndedIsErased'
  BY <1>8 DEF ReadThrows, ReadLeaves, TypeOK
<1>9. CASE UNCHANGED vars
  BY <1>9 DEF vars
<1> QED
  BY <1>1, <1>2, <1>3, <1>4, <1>5, <1>6, <1>7, <1>8, <1>9 DEF Next, MainStep

LEMMA StartedStep ==
  TypeOK /\ Numbered /\ Started /\ [Next]_vars => Started'
<1> SUFFICES ASSUME TypeOK, Numbered, Started, [Next]_vars PROVE Started'
  OBVIOUS
<1> USE DEF Started, Underway
<1>1. CASE StartAccept
  BY <1>1 DEF StartAccept
<1>2. CASE AcceptStarts
  BY <1>2 DEF AcceptStarts, Accepted, TypeOK
<1>3. CASE EndInsert
  BY <1>3 DEF EndInsert, Accepted
<1>4. CASE AcceptFails \/ BeginInsert \/ Signal \/ Join
  BY <1>4 DEF AcceptFails, BeginInsert, Signal, Join
<1>5. ASSUME NEW s \in Sessions, ReadEnds(s) PROVE Started'
  BY <1>5 DEF ReadEnds, TypeOK
<1>6. ASSUME NEW s \in Sessions, ReadThrows(s) \/ ReadLeaves(s) PROVE Started'
  BY <1>6 DEF ReadThrows, ReadLeaves, TypeOK
<1>7. ASSUME NEW s \in Sessions, WriteFails(s) PROVE Started'
  BY <1>7 DEF WriteFails
<1>8. ASSUME NEW i \in Services, EndClear(i) \/ ThreadExits(i) PROVE Started'
  BY <1>8 DEF EndClear, ThreadExits
<1>9. CASE UNCHANGED vars
  BY <1>9 DEF vars
<1> QED
  BY <1>1, <1>2, <1>3, <1>4, <1>5, <1>6, <1>7, <1>8, <1>9 DEF Next, MainStep

LEMMA LiveIsKnownStep ==
  TypeOK /\ ErasedIsDone /\ LiveIsKnown /\ [Next]_vars => LiveIsKnown'
<1> SUFFICES ASSUME TypeOK, ErasedIsDone, LiveIsKnown, [Next]_vars PROVE LiveIsKnown'
  OBVIOUS
<1> USE DEF LiveIsKnown, Accepted
<1>1. CASE StartAccept \/ AcceptFails \/ BeginInsert \/ EndInsert \/ Signal \/ Join
  BY <1>1 DEF StartAccept, AcceptFails, BeginInsert, EndInsert, Signal, Join
<1>2. CASE AcceptStarts
  BY <1>2 DEF AcceptStarts, TypeOK
<1>3. ASSUME NEW s \in Sessions, ReadEnds(s) \/ WriteFails(s) PROVE LiveIsKnown'
  BY <1>3 DEF ReadEnds, WriteFails, TypeOK
<1>4. ASSUME NEW i \in Services, EndClear(i) PROVE LiveIsKnown'
  BY <1>4 DEF EndClear, ErasedIsDone
<1>5. ASSUME NEW i \in Services, ThreadExits(i) PROVE LiveIsKnown'
  BY <1>5 DEF ThreadExits
<1>6. ASSUME NEW s \in Sessions, ReadThrows(s) \/ ReadLeaves(s) PROVE LiveIsKnown'
  BY <1>6 DEF ReadThrows, ReadLeaves, TypeOK
<1>7. CASE UNCHANGED vars
  BY <1>7 DEF vars
<1> QED
  BY <1>1, <1>2, <1>3, <1>4, <1>5, <1>6, <1>7 DEF Next, MainStep

LEMMA StepIInv == IInv /\ [Next]_vars => IInv'
BY TypeStep, NumberedStep, ErasedIsDoneStep, InsertIsAloneStep, EndedIsErasedStep,
   StartedStep, LiveIsKnownStep
DEF IInv

-----------------------------------------------------------------------------
(* The theorems.                                                           *)

LEMMA Invariance == SafeSpec => []IInv
BY InitIInv, StepIInv, PTL DEF SafeSpec

\* The state of the frame around the sessions is well typed: the index into the
\* pool, advanced and wrapped by GetIOService, stays inside it.
THEOREM TypeCorrect == SafeSpec => []TypeOK
<1>1. IInv => TypeOK
  BY DEF IInv
<1> QED
  BY <1>1, Invariance, PTL

\* A session that was neither ended nor closed is in the map, or on its way
\* there; and a closed one, or one that reads no more, that is still in the map
\* was cleared between the Start() and the insert of HandleAccept, or, in
\* logicServer, its HandleRead was ended by an exception.
THEOREM MapExact == SafeSpec => []MapIsExact
<1>1. IInv => LiveIsKnown
  BY DEF IInv
<1>2. IInv => OnlyTwoLeaks
  <2> SUFFICES ASSUME IInv, NEW s \in sessions
               PROVE  \/ s \notin closed /\ reader[s] = "reading"
                      \/ s \notin closed /\ reader[s] = "stalled" /\ ~coServer
                      \/ s \in early
                      \/ erasing[service[s]] = s
    BY DEF OnlyTwoLeaks
  <2>1. s \in Sessions /\ reader[s] \in {"none", "reading", "stalled", "ended"}
    BY DEF IInv, TypeOK
  <2> QED
    BY <2>1 DEF IInv, Started, EndedIsErased
<1> QED
  BY <1>1, <1>2, Invariance, PTL DEF MapIsExact

=============================================================================
