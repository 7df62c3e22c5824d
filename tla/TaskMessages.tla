---------------------------- MODULE TaskMessages ----------------------------
(***************************************************************************)
(* The messages of nqueen.proto as protoc compiled them: what              *)
(* _InternalSerialize writes, what _InternalParse makes of it, and the     *)
(* size ByteSizeLong announces.                                            *)
(*                                                                         *)
(* A field on the wire is a tag, which is the number of the field and its  *)
(* wire type, and the values behind it; their encoding as varints is kept  *)
(* as far as its length goes, which is written in front of packed values.  *)
(***************************************************************************)
EXTENDS Integers, FiniteSets, Sequences

\* Bytes of an int32 as a varint: 7 bits each, and a negative value is
\* extended to 64 bits.
Int32Size(v) == IF v < 0 THEN 10 ELSE 1 + Cardinality({k \in 1..4 : v >= 128^k})

\* The sum of a sequence of numbers.
Total(numbers) ==
  LET total[k \in 0..Len(numbers)] == IF k = 0 THEN 0 ELSE total[k - 1] + numbers[k]
  IN  total[Len(numbers)]

DataSize(values) == Total([k \in 1..Len(values) |-> Int32Size(values[k])])

Field(tag, size, values) == [tag |-> tag, size |-> size, values |-> values]

\* A scalar that has its default value is not written.
Scalar(number, v) ==
  IF v = 0 THEN <<>> ELSE <<Field(8 * number, Int32Size(v), <<v>>)>>

\* A tag takes a byte, and so does the length that packed values have in front
\* as long as there are fewer than 128 bytes of them.
FieldSize(f) == 1 + f.size + (IF f.tag % 8 = 2 THEN Int32Size(f.size) ELSE 0)

WireSize(wire) == Total([k \in 1..Len(wire) |-> FieldSize(wire[k])])

-----------------------------------------------------------------------------
(* TaskRequest: the size of the board, and a queen or -1 for each row.     *)

EmptyRequest == [n |-> 0, partial |-> <<>>, partialSize |-> 0, unknown |-> <<>>]

TaskRequest(n, partial) == [EmptyRequest EXCEPT !.n = n, !.partial = partial]

\* ByteSizeLong remembers the length of the packed values in the message ...
RequestSized(m) == [m EXCEPT !.partialSize = DataSize(m.partial)]

RequestByteSize(m) ==
  LET dataSize == DataSize(m.partial)
  IN  dataSize
      + (IF dataSize > 0 THEN 1 + Int32Size(dataSize) ELSE 0)
      + (IF m.n # 0 THEN 1 + Int32Size(m.n) ELSE 0)
      + WireSize(m.unknown)

\* A mistake in WriteRequest: a length of 0 is taken for the one of the values.
WriteRequestUnsized(m) == Scalar(1, m.n) \o m.unknown

\* ... and _InternalSerialize relies on it.
WriteRequest(m) ==
  Scalar(1, m.n)
  \o (IF m.partialSize > 0 THEN <<Field(18, m.partialSize, m.partial)>> ELSE <<>>)
  \o m.unknown

\* Packed values or one by one; what has an unknown number or the wrong wire
\* type is kept aside.
ReadRequestField(m, f) ==
  CASE f.tag = 8 -> [m EXCEPT !.n = f.values[1]]
    [] f.tag \in {16, 18} -> [m EXCEPT !.partial = @ \o f.values]
    [] OTHER -> [m EXCEPT !.unknown = Append(@, f)]

ReadRequest(wire) ==
  LET read[k \in 0..Len(wire)] ==
        IF k = 0 THEN EmptyRequest ELSE ReadRequestField(read[k - 1], wire[k])
  IN  read[Len(wire)]

-----------------------------------------------------------------------------
(* TaskResult: the number of solutions.                                    *)

EmptyResult == [solutions |-> 0, unknown |-> <<>>]

TaskResult(solutions) == [EmptyResult EXCEPT !.solutions = solutions]

ResultByteSize(m) ==
  (IF m.solutions # 0 THEN 1 + Int32Size(m.solutions) ELSE 0) + WireSize(m.unknown)

WriteResult(m) == Scalar(1, m.solutions) \o m.unknown

ReadResultField(m, f) ==
  IF f.tag = 8 THEN [m EXCEPT !.solutions = f.values[1]]
  ELSE [m EXCEPT !.unknown = Append(@, f)]

ReadResult(wire) ==
  LET read[k \in 0..Len(wire)] ==
        IF k = 0 THEN EmptyResult ELSE ReadResultField(read[k - 1], wire[k])
  IN  read[Len(wire)]

=============================================================================
