---------------------------- MODULE FrameStream ----------------------------
(***************************************************************************)
(* What the reading half of a session promises: the frames a peer sends    *)
(* become messages one by one, whole and in order, until the first frame   *)
(* that is not acceptable or the end of the connection; and a session that *)
(* goes on gets to every frame sent.  A session may lose step with its     *)
(* peer, after which it promises nothing.                                  *)
(***************************************************************************)
EXTENDS Sequences

CONSTANT
  Frame        \* what a peer may send

VARIABLES
  acceptable,  \* the frames that become messages; never changes
  inbox,       \* frames sent and not yet delivered, oldest first
  delivered,   \* frames delivered as messages, in order
  ended,       \* the session reads no more
  outOfStep    \* the session has lost the boundaries of the frames

frameVars == <<acceptable, inbox, delivered, ended, outOfStep>>

Init ==
  /\ acceptable \subseteq Frame
  /\ inbox = <<>>
  /\ delivered = <<>>
  /\ ended = FALSE
  /\ outOfStep = FALSE

Send(f) ==
  /\ inbox' = Append(inbox, f)
  /\ UNCHANGED <<acceptable, delivered, ended, outOfStep>>

\* The session may learn meanwhile that it is to end.
Deliver ==
  /\ ~ended
  /\ ~outOfStep
  /\ inbox # <<>>
  /\ Head(inbox) \in acceptable
  /\ delivered' = Append(delivered, Head(inbox))
  /\ inbox' = Tail(inbox)
  /\ ended' \in BOOLEAN
  /\ UNCHANGED <<acceptable, outOfStep>>

Reject ==
  /\ ~ended
  /\ ~outOfStep
  /\ inbox # <<>>
  /\ Head(inbox) \notin acceptable
  /\ ended' = TRUE
  /\ UNCHANGED <<acceptable, inbox, delivered, outOfStep>>

Hangup ==
  /\ ~ended
  /\ ended' = TRUE
  /\ UNCHANGED <<acceptable, inbox, delivered, outOfStep>>

LoseStep ==
  /\ ~outOfStep
  /\ outOfStep' = TRUE
  /\ UNCHANGED <<acceptable, inbox, delivered, ended>>

\* Nothing is promised any more: every change is allowed.
Garble == outOfStep /\ UNCHANGED <<acceptable, outOfStep>>

Next ==
  \/ \E f \in Frame : Send(f)
  \/ Deliver
  \/ Reject
  \/ Hangup
  \/ LoseStep
  \/ Garble

Progress == WF_frameVars(Deliver \/ Reject)

Spec == Init /\ [][Next]_frameVars /\ Progress

=============================================================================
