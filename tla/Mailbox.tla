------------------------------ MODULE Mailbox ------------------------------
(***************************************************************************)
(* What the logic layer promises to the network layer: messages are taken  *)
(* one at a time, in the order they were posted, and every message that is *)
(* posted is eventually taken.  Mutex, condition variable and shutdown are *)
(* details of LogicSystem, which implements this specification.            *)
(***************************************************************************)
EXTENDS Sequences

CONSTANT Message

VARIABLES
  pending,  \* messages posted and not yet taken, oldest first
  taken     \* messages taken so far, in the order they were taken

mailboxVars == <<pending, taken>>

Init ==
  /\ pending = <<>>
  /\ taken = <<>>

Post(m) ==
  /\ pending' = Append(pending, m)
  /\ UNCHANGED taken

Take ==
  /\ pending # <<>>
  /\ taken' = Append(taken, Head(pending))
  /\ pending' = Tail(pending)

Next ==
  \/ \E m \in Message : Post(m)
  \/ Take

SafeSpec == Init /\ [][Next]_mailboxVars

Spec == SafeSpec /\ WF_mailboxVars(Take)

=============================================================================
