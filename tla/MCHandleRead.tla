---------------------------- MODULE MCHandleRead ----------------------------
(***************************************************************************)
(* Model values for HandleRead: MAX_LENGTH is 8, so ids and lengths up to  *)
(* 8 are valid and a chunk may hold two small frames, or the end of one    *)
(* body and the head of the next frame.                                    *)
(***************************************************************************)
EXTENDS HandleRead

Empty == [id |-> 1, len |-> 0, body |-> <<>>]
Short == [id |-> 2, len |-> 1, body |-> <<5>>]
Long == [id |-> 3, len |-> 4, body |-> <<1, 2, 3, 4>>]
BadId == [id |-> 300, len |-> 1, body |-> <<5>>]
BadLength == [id |-> 2, len |-> 300, body |-> <<>>]
Negative == [id |-> 2, len |-> -2, body |-> <<>>]
Overrun == [id |-> 2, len |-> -1, body |-> <<>>]

AllFrames == {Empty, Short, Long, BadId, BadLength, Negative, Overrun}
ValidFrames == {Empty, Short, Long}

=============================================================================
