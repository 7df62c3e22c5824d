------------------------------- MODULE Outbox -------------------------------
(***************************************************************************)
(* What a session promises for the replies given to it: at most Capacity   *)
(* of them wait; they reach the stream whole, once each and in the order   *)
(* they were accepted; and as long as the connection is not broken every   *)
(* one of them gets there.  An outbox that is not reliable may lose some,  *)
(* and promises the rest.                                                  *)
(***************************************************************************)
EXTENDS Naturals, Sequences

CONSTANT Capacity

VARIABLES
  waiting,   \* replies accepted and not yet on the stream, oldest first
  sent,      \* replies on the stream
  accepted,  \* number of replies accepted
  broken,    \* the connection is lost
  reliable   \* whether every reply is sent; never changes

outboxVars == <<waiting, sent, accepted, broken, reliable>>

Init ==
  /\ waiting = <<>>
  /\ sent = <<>>
  /\ accepted = 0
  /\ broken = FALSE
  /\ reliable \in BOOLEAN

\* Replies are numbered as they are accepted.
Accept ==
  /\ Len(waiting) < Capacity
  /\ accepted' = accepted + 1
  /\ waiting' = Append(waiting, accepted + 1)
  /\ UNCHANGED <<sent, broken, reliable>>

Transmit ==
  /\ ~broken
  /\ waiting # <<>>
  /\ sent' = Append(sent, Head(waiting))
  /\ waiting' = Tail(waiting)
  /\ UNCHANGED <<accepted, broken, reliable>>

Lose ==
  /\ ~reliable
  /\ waiting # <<>>
  /\ waiting' = Tail(waiting)
  /\ UNCHANGED <<sent, accepted, broken, reliable>>

Break ==
  /\ ~broken
  /\ broken' = TRUE
  /\ UNCHANGED <<waiting, sent, accepted, reliable>>

Next == Accept \/ Transmit \/ Lose \/ Break

SafeSpec == Init /\ [][Next]_outboxVars

\* A reply that waits goes somewhere unless the connection is lost.
Progress == WF_outboxVars(Transmit \/ (~broken /\ Lose))

Spec == SafeSpec /\ Progress

=============================================================================
