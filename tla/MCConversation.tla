--------------------------- MODULE MCConversation ---------------------------
(***************************************************************************)
(* Model values for Conversation: the request of the clients in the        *)
(* repository, a frame with an empty body and an id without a callback,    *)
(* one with an id above MAX_LENGTH = 8, and two with a negative length,    *)
(* the one that is not noticed and one that is.                            *)
(***************************************************************************)
EXTENDS Conversation

OurRequests == {[id |-> 1, len |-> 2]}

OurCallbacks == {1}

AllFrames ==
  OurRequests \cup
  {[id |-> 2, len |-> 0], [id |-> 9, len |-> 2],
   [id |-> 1, len |-> -1], [id |-> 1, len |-> -2]}

=============================================================================
