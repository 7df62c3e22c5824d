---------------------------- MODULE NQueenProofs ----------------------------
(***************************************************************************)
(* Proofs about the distributed N-queens solver, for boards of any size    *)
(* and any number of servers.                                              *)
(*                                                                         *)
(* The argument: the search adds to the solutions the number of ways to    *)
(* complete its board from where it is (Found), because that function is   *)
(* one that does what Search demands (StepFinds), and the only one, by     *)
(* induction on rows and columns.  A request is read as it was meant, so   *)
(* that a server counts the placements of the task (ServerCounts).  The    *)
(* client adds up the sizes of disjoint sets of placements (Counted), and  *)
(* the verdict is about whether these are all of them.                     *)
(*                                                                         *)
(* The induction theorems of the library take a predicate, for which the   *)
(* provers cannot put one in.  Induction is had here on sets, from the     *)
(* well-founded inclusion of finite sets.                                  *)
(***************************************************************************)
EXTENDS NQueen, FiniteSetTheorems, SequenceTheorems, TLAPS

-----------------------------------------------------------------------------
(* Induction.                                                              *)

\* A set of numbers has a least one: the intervals below them have a smallest.
LEMMA LeastElement ==
  ASSUME NEW U \in SUBSET Nat, U # {}
  PROVE  \E m \in U : \A k \in U : m <= k
<1> DEFINE Chain == {0..k - 1 : k \in U}
<1>1. Chain \subseteq FiniteSubsetsOf(Nat)
  <2>1. ASSUME NEW k \in U PROVE 0..k - 1 \in FiniteSubsetsOf(Nat)
    BY FS_Interval DEF FiniteSubsetsOf
  <2> QED BY <2>1
<1>2. Chain # {}
  OBVIOUS
<1>3. IsWellFoundedOn(StrictSubsetOrdering(Nat), FiniteSubsetsOf(Nat))
  BY FS_StrictSubsetOrderingWellFounded
<1>4. \E S \in Chain : \A T \in Chain : <<T, S>> \notin StrictSubsetOrdering(Nat)
  <2> HIDE DEF Chain
  <2> QED BY <1>1, <1>2, <1>3, WFMin
<1>5. PICK m \in U : \A T \in Chain : <<T, 0..m - 1>> \notin StrictSubsetOrdering(Nat)
  BY <1>4
<1>6. ASSUME NEW k \in U, k < m PROVE FALSE
  <2>1. 0..k - 1 \subseteq 0..m - 1 /\ k \in 0..m - 1 /\ k \notin 0..k - 1
    BY <1>6
  <2>2. 0..k - 1 \in SUBSET Nat /\ 0..m - 1 \in SUBSET Nat
    OBVIOUS
  <2>3. <<0..k - 1, 0..m - 1>> \in StrictSubsetOrdering(Nat)
    BY <2>1, <2>2, Zenon DEF StrictSubsetOrdering
  <2> QED BY <1>5, <2>3
<1>7. \A k \in U : m <= k
  BY <1>6
<1> QED BY <1>7

LEMMA UpInduction ==
  ASSUME NEW size \in Nat, NEW A, 0 \in A, \A k \in 1..size : k - 1 \in A => k \in A
  PROVE  \A k \in 0..size : k \in A
<1> DEFINE U == {k \in 0..size : k \notin A}
<1> SUFFICES ASSUME U # {} PROVE FALSE
  OBVIOUS
<1>1. PICK m \in U : \A k \in U : m <= k
  <2>1. U \in SUBSET Nat
    OBVIOUS
  <2> QED BY <2>1, LeastElement
<1>2. m \in 1..size /\ m - 1 \in 0..size /\ m - 1 < m
  OBVIOUS
<1>3. m - 1 \in A
  BY <1>1, <1>2
<1> QED BY <1>2, <1>3

LEMMA DownInduction ==
  ASSUME NEW size \in Nat, NEW A, size \in A, \A k \in 0..size - 1 : k + 1 \in A => k \in A
  PROVE  \A k \in 0..size : k \in A
<1> DEFINE B == {k \in 0..size : size - k \in A}
<1>1. 0 \in B
  OBVIOUS
<1>2. ASSUME NEW k \in 1..size, k - 1 \in B PROVE k \in B
  <2>1. size - k \in 0..size - 1 /\ (size - k) + 1 = size - (k - 1)
    OBVIOUS
  <2> QED BY <2>1, <1>2
<1>3. \A k \in 0..size : k \in B
  <2> HIDE DEF B
  <2> QED BY <1>1, <1>2, UpInduction
<1>4. ASSUME NEW k \in 0..size PROVE k \in A
  <2>1. size - k \in 0..size /\ size - (size - k) = k
    OBVIOUS
  <2> QED BY <2>1, <1>3
<1> QED BY <1>4

\* A function is the set of its pairs.
LEMMA FunctionsFinite ==
  ASSUME NEW S, IsFiniteSet(S), NEW T, IsFiniteSet(T)
  PROVE  IsFiniteSet([S -> T])
<1> DEFINE graph == [f \in [S -> T] |-> {<<s, f[s]>> : s \in S}]
<1>1. graph \in [[S -> T] -> SUBSET (S \X T)]
  OBVIOUS
<1>2. ASSUME NEW f \in [S -> T], NEW g \in [S -> T], graph[f] = graph[g] PROVE f = g
  <2>1. ASSUME NEW s \in S PROVE f[s] = g[s]
    <3>1. <<s, f[s]>> \in {<<t, g[t]>> : t \in S}
      BY <1>2
    <3> QED BY <3>1
  <2> QED BY <2>1
<1>3. graph \in Injection([S -> T], SUBSET (S \X T))
  BY <1>1, <1>2 DEF Injection, IsInjective
<1>4. IsFiniteSet(SUBSET (S \X T))
  BY FS_Product, FS_SUBSET
<1> QED BY <1>3, <1>4, FS_Injection

-----------------------------------------------------------------------------
(* Sums.                                                                   *)

\* What Total demands of the function it is made from.
Totals(numbers, total) ==
  total = [k \in 0..Len(numbers) |-> IF k = 0 THEN 0 ELSE total[k - 1] + numbers[k]]

LEMMA TotalsExist ==
  ASSUME NEW numbers \in Seq(Nat)
  PROVE  \E total : Totals(numbers, total)
<1> DEFINE size == Len(numbers)
           Sum(k, t) == /\ t \in [0..k -> Nat]
                        /\ t[0] = 0
                        /\ \A j \in 1..k : t[j] = t[j - 1] + numbers[j]
           A == {k \in 0..size : \E t : Sum(k, t)}
<1>0. size \in Nat
  OBVIOUS
<1>1. 0 \in A
  <2>1. Sum(0, [k \in 0..0 |-> 0])
    OBVIOUS
  <2>2. 0 \in 0..size
    BY <1>0
  <2> HIDE DEF Sum
  <2> QED BY <2>1, <2>2
<1>2. ASSUME NEW k \in 1..size, k - 1 \in A PROVE k \in A
  <2>1. PICK t : Sum(k - 1, t)
    BY <1>2
  <2> DEFINE u == [j \in 0..k |-> IF j = k THEN t[k - 1] + numbers[k] ELSE t[j]]
  <2>2. numbers[k] \in Nat /\ t[k - 1] \in Nat
    BY <2>1
  <2>3. u \in [0..k -> Nat]
    BY <2>1, <2>2
  <2>4. u[0] = 0
    BY <2>1
  <2>5. ASSUME NEW j \in 1..k PROVE u[j] = u[j - 1] + numbers[j]
    BY <2>1
  <2>6. Sum(k, u)
    BY <2>3, <2>4, <2>5
  <2> HIDE DEF u, Sum
  <2> QED BY <2>6
<1>3. size \in A
  <2>1. \A k \in 0..size : k \in A
    <3> HIDE DEF A, size
    <3> QED BY <1>0, <1>1, <1>2, UpInduction
  <2>2. size \in 0..size
    BY <1>0
  <2> HIDE DEF A, size
  <2> QED BY <2>1, <2>2
<1>4. PICK t : Sum(size, t)
  BY <1>3
<1>5. Totals(numbers, t)
  <2>1. t = [k \in 0..size |-> t[k]]
    BY <1>4
  <2>2. ASSUME NEW k \in 0..size PROVE t[k] = IF k = 0 THEN 0 ELSE t[k - 1] + numbers[k]
    BY <1>4
  <2> QED BY <2>1, <2>2 DEF Totals
<1> QED BY <1>5

LEMMA TotalSteps ==
  ASSUME NEW numbers \in Seq(Nat)
  PROVE  \E t \in [0..Len(numbers) -> Nat] :
           /\ t[0] = 0
           /\ \A k \in 1..Len(numbers) : t[k] = t[k - 1] + numbers[k]
           /\ Total(numbers) = t[Len(numbers)]
<1> DEFINE t == CHOOSE total : Totals(numbers, total)
<1>1. Total(numbers) = t[Len(numbers)]
  BY DEF Total, Totals
<1>2. Totals(numbers, t)
  BY TotalsExist, Zenon
<1> HIDE DEF t
<1>3. t = [k \in 0..Len(numbers) |-> t[k]] /\ t[0] = 0
      /\ \A k \in 1..Len(numbers) : t[k] = t[k - 1] + numbers[k]
  BY <1>2 DEF Totals
<1>4. \A k \in 0..Len(numbers) : t[k] \in Nat
  <2> DEFINE A == {k \in 0..Len(numbers) : t[k] \in Nat}
  <2>1. 0 \in A
    BY <1>3
  <2>2. ASSUME NEW k \in 1..Len(numbers), k - 1 \in A PROVE k \in A
    <3>1. numbers[k] \in Nat
      OBVIOUS
    <3>2. t[k - 1] \in Nat /\ t[k] = t[k - 1] + numbers[k]
      BY <2>2, <1>3
    <3> QED BY <3>1, <3>2
  <2>3. Len(numbers) \in Nat
    OBVIOUS
  <2>4. \A k \in 0..Len(numbers) : k \in A
    <3> HIDE DEF A
    <3> QED BY <2>1, <2>2, <2>3, UpInduction
  <2> QED BY <2>4
<1> QED BY <1>1, <1>3, <1>4

LEMMA TotalType ==
  ASSUME NEW numbers \in Seq(Nat)
  PROVE  Total(numbers) \in Nat
  BY TotalSteps

LEMMA TotalShort ==
  ASSUME NEW a \in Nat, NEW b \in Nat
  PROVE  Total(<<>>) = 0 /\ Total(<<a>>) = a /\ Total(<<a, b>>) = a + b
<1>1. Total(<<>>) = 0
  <2>1. <<>> \in Seq(Nat) /\ Len(<<>>) = 0
    OBVIOUS
  <2> QED BY <2>1, TotalSteps
<1>2. Total(<<a>>) = a
  <2>1. <<a>> \in Seq(Nat) /\ Len(<<a>>) = 1 /\ <<a>>[1] = a
    OBVIOUS
  <2>2. PICK t \in [0..1 -> Nat] :
          t[0] = 0 /\ (\A k \in 1..1 : t[k] = t[k - 1] + <<a>>[k]) /\ Total(<<a>>) = t[1]
    BY <2>1, TotalSteps
  <2>3. t[1] = t[0] + a
    BY <2>1, <2>2
  <2> QED BY <2>2, <2>3
<1>3. Total(<<a, b>>) = a + b
  <2>1. <<a, b>> \in Seq(Nat) /\ Len(<<a, b>>) = 2 /\ <<a, b>>[1] = a /\ <<a, b>>[2] = b
    OBVIOUS
  <2>2. PICK t \in [0..2 -> Nat] :
          t[0] = 0 /\ (\A k \in 1..2 : t[k] = t[k - 1] + <<a, b>>[k]) /\ Total(<<a, b>>) = t[2]
    BY <2>1, TotalSteps
  <2>3. t[1] = t[0] + a /\ t[2] = t[1] + b
    BY <2>1, <2>2
  <2> QED BY <2>2, <2>3
<1> QED BY <1>1, <1>2, <1>3

LEMMA TotalPositive ==
  ASSUME NEW numbers \in Seq(Nat), numbers # <<>>, \A k \in 1..Len(numbers) : numbers[k] > 0
  PROVE  Total(numbers) > 0
<1>1. PICK t \in [0..Len(numbers) -> Nat] :
           /\ t[0] = 0
           /\ \A k \in 1..Len(numbers) : t[k] = t[k - 1] + numbers[k]
           /\ Total(numbers) = t[Len(numbers)]
  BY TotalSteps
<1>2. Len(numbers) \in 1..Len(numbers) /\ Len(numbers) - 1 \in 0..Len(numbers)
  OBVIOUS
<1>3. t[Len(numbers)] = t[Len(numbers) - 1] + numbers[Len(numbers)] /\ t[Len(numbers) - 1] \in Nat
  BY <1>1, <1>2
<1>4. numbers[Len(numbers)] > 0 /\ numbers[Len(numbers)] \in Nat
  BY <1>2
<1> QED BY <1>1, <1>3, <1>4

-----------------------------------------------------------------------------
(* The messages: sizes, and what is read of what was written.              *)

LEMMA Int32SizeType ==
  ASSUME NEW v \in Int
  PROVE  Int32Size(v) \in Nat /\ Int32Size(v) > 0
<1> DEFINE K == {k \in 1..4 : v >= 128^k}
<1>1. Cardinality(K) \in Nat
  <2>1. K \in SUBSET (1..4)
    OBVIOUS
  <2>2. IsFiniteSet(1..4)
    BY 1 \in Int, 4 \in Int, FS_Interval
  <2> HIDE DEF K
  <2> QED BY <2>1, <2>2, FS_Subset, FS_CardinalityType
<1>2. Int32Size(v) = IF v < 0 THEN 10 ELSE 1 + Cardinality(K)
  BY DEF Int32Size
<1> HIDE DEF K
<1> QED BY <1>1, <1>2

LEMMA DataSizeType ==
  ASSUME NEW values \in Seq(Int)
  PROVE  DataSize(values) \in Nat /\ (values # <<>> => DataSize(values) > 0)
<1> DEFINE sizes == [k \in 1..Len(values) |-> Int32Size(values[k])]
<1>1. \A k \in 1..Len(values) : sizes[k] \in Nat /\ sizes[k] > 0
  <2>1. \A k \in 1..Len(values) : values[k] \in Int
    OBVIOUS
  <2> QED BY <2>1, Int32SizeType
<1>2. sizes \in Seq(Nat) /\ Len(sizes) = Len(values)
  <2>1. Len(values) \in Nat
    OBVIOUS
  <2> QED BY <2>1, <1>1
<1>3. values # <<>> => sizes # <<>>
  BY <1>2
<1>4. DataSize(values) = Total(sizes)
  BY DEF DataSize
<1> HIDE DEF sizes
<1> QED BY <1>1, <1>2, <1>3, <1>4, TotalType, TotalPositive

LEMMA DataSizeSingle ==
  ASSUME NEW v \in Int
  PROVE  DataSize(<<v>>) = Int32Size(v)
<1>1. DataSize(<<v>>) = Total(<<Int32Size(v)>>)
  <2>1. [k \in 1..Len(<<v>>) |-> Int32Size(<<v>>[k])] = <<Int32Size(v)>>
    OBVIOUS
  <2> QED BY <2>1 DEF DataSize
<1> QED BY <1>1, Int32SizeType, TotalShort

LEMMA PairConcat ==
  ASSUME NEW x, NEW y
  PROVE  <<x>> \o <<y>> = <<x, y>>
<1> DEFINE S == {x, y}  s == <<x>> \o <<y>>  t == <<x, y>>
<1>1. <<x>> \in Seq(S) /\ <<y>> \in Seq(S) /\ <<x, y>> \in Seq(S)
  OBVIOUS
<1>2. Len(<<x>> \o <<y>>) = 2 /\ Len(<<x>>) = 1
  BY <1>1
<1>3. (<<x>> \o <<y>>)[1] = x /\ (<<x>> \o <<y>>)[2] = y
  BY <1>1, <1>2
<1>4. <<x>> \o <<y>> \in Seq(S)
  BY <1>1
<1>5. \A i \in 1..2 : i = 1 \/ i = 2
  OBVIOUS
<1>6. \A i \in 1..2 : (<<x>> \o <<y>>)[i] = <<x, y>>[i]
  BY <1>3, <1>5
<1>7. Len(<<x, y>>) = Len(<<x>> \o <<y>>)
  BY <1>2
<1>8. \A i \in 1..Len(s) : s[i] = t[i]
  BY <1>2, <1>6
<1>9. s \in Seq(S) /\ t \in Seq(S) /\ Len(s) = Len(t)
  BY <1>1, <1>4, <1>7
<1> HIDE DEF s, t
<1>10. s = t
  BY <1>8, <1>9, SeqEqual
<1> QED BY <1>10 DEF s, t

LEMMA RequestMade ==
  ASSUME NEW size, NEW partial
  PROVE  /\ TaskRequest(size, partial)
              = [n |-> size, partial |-> partial, partialSize |-> 0, unknown |-> <<>>]
         /\ RequestSized(TaskRequest(size, partial))
              = [n |-> size, partial |-> partial, partialSize |-> DataSize(partial), unknown |-> <<>>]
<1> DEFINE e == [n |-> size, partial |-> <<>>, partialSize |-> 0, unknown |-> <<>>]
           d == DataSize(partial)
<1> HIDE DEF d
<1>1. [EmptyRequest EXCEPT !.n = size] = e
  BY DEF EmptyRequest
<1>2. TaskRequest(size, partial) = [[EmptyRequest EXCEPT !.n = size] EXCEPT !.partial = partial]
  BY DEF TaskRequest
<1>3. TaskRequest(size, partial) = [n |-> size, partial |-> partial, partialSize |-> 0, unknown |-> <<>>]
  BY <1>1, <1>2
<1>4. RequestSized(TaskRequest(size, partial)) = [TaskRequest(size, partial) EXCEPT !.partialSize = d]
  <2>1. TaskRequest(size, partial).partial = partial
    BY <1>3
  <2> QED BY <2>1, Zenon DEF RequestSized, d
<1> QED BY <1>3, <1>4 DEF d

\* A request as the client makes it.
LEMMA RequestWritten ==
  ASSUME NEW size \in Nat \ {0}, NEW partial \in Seq(Int), partial # <<>>
  PROVE  WriteRequest(RequestSized(TaskRequest(size, partial)))
           = <<Field(8, Int32Size(size), <<size>>), Field(18, DataSize(partial), partial)>>
<1> DEFINE m == RequestSized(TaskRequest(size, partial))
<1>1. m = [n |-> size, partial |-> partial, partialSize |-> DataSize(partial), unknown |-> <<>>]
  BY RequestMade
<1>2. DataSize(partial) > 0
  BY DataSizeType
<1>3. Scalar(1, size) = <<Field(8, Int32Size(size), <<size>>)>>
  BY DEF Scalar
<1> HIDE DEF m
<1>4. WriteRequest(m)
        = <<Field(8, Int32Size(size), <<size>>)>> \o <<Field(18, DataSize(partial), partial)>> \o <<>>
  BY <1>1, <1>2, <1>3 DEF WriteRequest
<1>5. ASSUME NEW x, NEW y PROVE <<x>> \o <<y>> \o <<>> = <<x, y>>
  <2>1. <<x>> \o <<y>> = <<x, y>>
    BY PairConcat
  <2>2. <<x, y>> \o <<>> = <<x, y>>
    OBVIOUS
  <2> QED BY <2>1, <2>2
<1>6. WriteRequest(m) = <<Field(8, Int32Size(size), <<size>>), Field(18, DataSize(partial), partial)>>
  BY <1>4, <1>5
<1> QED BY <1>6 DEF m

(***************************************************************************)
(* _InternalParse makes of what _InternalSerialize wrote the request that  *)
(* NQueenClient::Solve filled in, for every board: the -1 of the rows that *)
(* have no queen come through, and nothing is taken for an unknown field.  *)
(***************************************************************************)
THEOREM RequestRead ==
  ASSUME NEW size \in Nat \ {0}, NEW partial \in Seq(Int), partial # <<>>
  PROVE  ReadRequest(WriteRequest(RequestSized(TaskRequest(size, partial)))) = TaskRequest(size, partial)
<1> DEFINE f == Field(8, Int32Size(size), <<size>>)
           g == Field(18, DataSize(partial), partial)
           w == <<f, g>>
           one == ReadRequestField(EmptyRequest, f)
           Reads(read) == read = [k \in 0..Len(w) |->
                            IF k = 0 THEN EmptyRequest ELSE ReadRequestField(read[k - 1], w[k])]
           r == CHOOSE read : Reads(read)
<1>1. ReadRequest(w) = r[Len(w)]
  BY DEF ReadRequest
<1>2. one = [n |-> size, partial |-> <<>>, partialSize |-> 0, unknown |-> <<>>]
  <2>1. f.tag = 8 /\ f.values[1] = size
    BY DEF Field
  <2> HIDE DEF f
  <2>2. ReadRequestField(EmptyRequest, f) = [EmptyRequest EXCEPT !.n = f.values[1]]
    BY <2>1 DEF ReadRequestField
  <2> QED BY <2>1, <2>2 DEF EmptyRequest
<1>3. ReadRequestField(one, g) = TaskRequest(size, partial)
  <2>1. g.tag = 18 /\ g.values = partial
    BY DEF Field
  <2> HIDE DEF g, one
  <2>2. ReadRequestField(one, g) = [one EXCEPT !.partial = one.partial \o g.values]
    BY <2>1 DEF ReadRequestField
  <2>3. <<>> \o partial = partial
    OBVIOUS
  <2> QED BY <1>2, <2>1, <2>2, <2>3, RequestMade
<1> HIDE DEF f, g, one
<1>4. Len(w) = 2 /\ w[1] = f /\ w[2] = g
  OBVIOUS
<1> HIDE DEF w
<1>5. Reads([k \in 0..2 |-> IF k = 0 THEN EmptyRequest
                           ELSE IF k = 1 THEN one ELSE TaskRequest(size, partial)])
  BY <1>3, <1>4 DEF one
<1>6. Reads(r)
  BY <1>5, Zenon
<1> HIDE DEF r
<1>7. r[0] = EmptyRequest /\ r[1] = ReadRequestField(r[0], f) /\ r[2] = ReadRequestField(r[1], g)
  BY <1>6, <1>4
<1>8. ReadRequest(w) = TaskRequest(size, partial)
  BY <1>1, <1>3, <1>4, <1>7 DEF one
<1>9. WriteRequest(RequestSized(TaskRequest(size, partial))) = w
  BY RequestWritten DEF w, f, g
<1> QED BY <1>8, <1>9

(***************************************************************************)
(* The same of a result, one of 0 solutions, which is not written, too.    *)
(***************************************************************************)
THEOREM ResultRead ==
  ASSUME NEW solutions \in Nat
  PROVE  ReadResult(WriteResult(TaskResult(solutions))) = TaskResult(solutions)
<1> DEFINE w == WriteResult(TaskResult(solutions))
           Reads(read) == read = [k \in 0..Len(w) |->
                            IF k = 0 THEN EmptyResult ELSE ReadResultField(read[k - 1], w[k])]
           r == CHOOSE read : Reads(read)
           f == Field(8, Int32Size(solutions), <<solutions>>)
<1>1. ReadResult(w) = r[Len(w)]
  BY DEF ReadResult
<1>2. TaskResult(solutions) = [solutions |-> solutions, unknown |-> <<>>]
  BY DEF TaskResult, EmptyResult
<1>3. w = IF solutions = 0 THEN <<>> ELSE <<f>>
  <2>1. w = Scalar(1, solutions) \o <<>>
    BY <1>2 DEF WriteResult
  <2>2. Scalar(1, solutions) = IF solutions = 0 THEN <<>> ELSE <<f>>
    BY DEF Scalar
  <2>3. <<>> \o <<>> = <<>> /\ <<f>> \o <<>> = <<f>>
    OBVIOUS
  <2> QED BY <2>1, <2>2, <2>3
<1>4. ReadResultField(EmptyResult, f) = TaskResult(solutions)
  BY <1>2 DEF ReadResultField, Field, EmptyResult
<1> HIDE DEF w, f
<1>5. \E read : Reads(read)
  <2>1. CASE solutions = 0
    <3>1. Len(w) = 0
      BY <1>3, <2>1
    <3>2. Reads([k \in 0..0 |-> EmptyResult])
      BY <3>1
    <3> QED BY <3>2
  <2>2. CASE solutions # 0
    <3>1. Len(w) = 1 /\ w[1] = f
      BY <1>3, <2>2
    <3>2. Reads([k \in 0..1 |-> IF k = 0 THEN EmptyResult ELSE TaskResult(solutions)])
      BY <3>1, <1>4
    <3> QED BY <3>2
  <2> QED BY <2>1, <2>2
<1>6. Reads(r)
  BY <1>5, Zenon
<1> HIDE DEF r
<1>7. CASE solutions = 0
  <2>1. Len(w) = 0 /\ r[0] = EmptyResult
    BY <1>3, <1>6, <1>7
  <2> QED BY <2>1, <1>1, <1>2, <1>7 DEF EmptyResult, w
<1>8. CASE solutions # 0
  <2>1. Len(w) = 1 /\ w[1] = f
    BY <1>3, <1>8
  <2>2. r[0] = EmptyResult /\ r[1] = ReadResultField(r[0], w[1])
    BY <2>1, <1>6
  <2> QED BY <2>1, <2>2, <1>1, <1>4 DEF w
<1> QED BY <1>7, <1>8

LEMMA RequestSizesAgree ==
  ASSUME NEW size \in Nat \ {0}, NEW partial \in Seq(Int), partial # <<>>
  PROVE  LET w == WriteRequest(RequestSized(TaskRequest(size, partial))) IN
         /\ WireSize(w) = RequestByteSize(TaskRequest(size, partial))
         /\ \A k \in DOMAIN w : w[k].size = DataSize(w[k].values)
<1> DEFINE f == Field(8, Int32Size(size), <<size>>)
           g == Field(18, DataSize(partial), partial)
<1>1. WriteRequest(RequestSized(TaskRequest(size, partial))) = <<f, g>>
  BY RequestWritten
<1>2. f.size = DataSize(f.values) /\ g.size = DataSize(g.values)
  BY DataSizeSingle DEF Field
<1>3. FieldSize(f) = 1 + Int32Size(size)
  <2>1. f.tag = 8 /\ f.size = Int32Size(size) /\ 8 % 8 # 2
    BY DEF Field
  <2> HIDE DEF f
  <2> QED BY <2>1, Int32SizeType DEF FieldSize
<1>4. FieldSize(g) = 1 + DataSize(partial) + Int32Size(DataSize(partial))
  <2>1. g.tag = 18 /\ g.size = DataSize(partial) /\ 18 % 8 = 2
    BY DEF Field
  <2> HIDE DEF g
  <2> QED BY <2>1 DEF FieldSize
<1> HIDE DEF f, g
<1>5. WireSize(<<f, g>>) = Total(<<FieldSize(f), FieldSize(g)>>)
  <2>1. [k \in 1..Len(<<f, g>>) |-> FieldSize(<<f, g>>[k])] = <<FieldSize(f), FieldSize(g)>>
    OBVIOUS
  <2> QED BY <2>1 DEF WireSize
<1>6. WireSize(<<>>) = 0
  <2>1. [k \in 1..Len(<<>>) |-> FieldSize(<<>>[k])] = <<>>
    OBVIOUS
  <2>2. Total(<<>>) = 0
    BY TotalShort
  <2> QED BY <2>1, <2>2 DEF WireSize
<1>7. RequestByteSize(TaskRequest(size, partial))
        = DataSize(partial) + (1 + Int32Size(DataSize(partial))) + (1 + Int32Size(size)) + 0
  <2>1. TaskRequest(size, partial) = [n |-> size, partial |-> partial, partialSize |-> 0, unknown |-> <<>>]
    BY RequestMade
  <2>2. DataSize(partial) > 0
    BY DataSizeType
  <2> QED BY <2>1, <2>2, <1>6 DEF RequestByteSize
<1>8. Int32Size(size) \in Nat /\ DataSize(partial) \in Nat /\ Int32Size(DataSize(partial)) \in Nat
  <2>1. \A i \in Nat : i \in Int
    OBVIOUS
  <2>2. DataSize(partial) \in Nat
    BY DataSizeType
  <2> QED BY <2>1, <2>2, Int32SizeType
<1>9. WireSize(<<f, g>>) = RequestByteSize(TaskRequest(size, partial))
  <2>1. FieldSize(f) \in Nat /\ FieldSize(g) \in Nat
    BY <1>3, <1>4, <1>8
  <2>2. Total(<<FieldSize(f), FieldSize(g)>>) = FieldSize(f) + FieldSize(g)
    BY <2>1, TotalShort
  <2> QED BY <2>2, <1>3, <1>4, <1>5, <1>7, <1>8
<1>10. \A k \in DOMAIN <<f, g>> : <<f, g>>[k].size = DataSize(<<f, g>>[k].values)
  BY <1>2
<1> QED BY <1>1, <1>9, <1>10

LEMMA ResultSizesAgree ==
  ASSUME NEW solutions \in Nat
  PROVE  WireSize(WriteResult(TaskResult(solutions))) = ResultByteSize(TaskResult(solutions))
<1> DEFINE f == Field(8, Int32Size(solutions), <<solutions>>)
<1>1. TaskResult(solutions) = [solutions |-> solutions, unknown |-> <<>>]
  BY DEF TaskResult, EmptyResult
<1>2. WriteResult(TaskResult(solutions)) = IF solutions = 0 THEN <<>> ELSE <<f>>
  <2>1. WriteResult(TaskResult(solutions)) = Scalar(1, solutions) \o <<>>
    BY <1>1 DEF WriteResult
  <2>2. Scalar(1, solutions) = IF solutions = 0 THEN <<>> ELSE <<f>>
    BY DEF Scalar
  <2>3. <<>> \o <<>> = <<>> /\ <<f>> \o <<>> = <<f>>
    OBVIOUS
  <2> QED BY <2>1, <2>2, <2>3
<1>3. FieldSize(f) = 1 + Int32Size(solutions)
  <2>1. f.tag = 8 /\ f.size = Int32Size(solutions) /\ 8 % 8 # 2
    BY DEF Field
  <2> HIDE DEF f
  <2> QED BY <2>1, Int32SizeType DEF FieldSize
<1> HIDE DEF f
<1>4. WireSize(<<f>>) = Total(<<FieldSize(f)>>)
  <2>1. [k \in 1..Len(<<f>>) |-> FieldSize(<<f>>[k])] = <<FieldSize(f)>>
    OBVIOUS
  <2> QED BY <2>1 DEF WireSize
<1>5. WireSize(<<>>) = 0
  <2>1. [k \in 1..Len(<<>>) |-> FieldSize(<<>>[k])] = <<>>
    OBVIOUS
  <2>2. Total(<<>>) = 0
    BY TotalShort
  <2> QED BY <2>1, <2>2 DEF WireSize
<1>6. ResultByteSize(TaskResult(solutions)) = (IF solutions # 0 THEN 1 + Int32Size(solutions) ELSE 0) + 0
  BY <1>1, <1>5 DEF ResultByteSize
<1>7. Int32Size(solutions) \in Nat
  BY Int32SizeType
<1>8. Total(<<FieldSize(f)>>) = FieldSize(f)
  <2>1. FieldSize(f) \in Nat
    BY <1>3, <1>7
  <2> QED BY <2>1, TotalShort
<1> QED BY <1>2, <1>3, <1>4, <1>5, <1>6, <1>7, <1>8

-----------------------------------------------------------------------------
(* The completions of a board, which the search counts.                    *)

\* -1: no queen in the row.
Board(size) == [0..size - 1 -> -1..size - 1]

\* p has the queens of the rows before row, and safe ones from there on, which are
\* those of the board where it has any; the one of row is in col or later.
Completes(p, size, board, row, col) ==
  /\ \A k \in 0..row - 1 : p[k] = board[k]
  /\ \A k \in row..size - 1 : p[k] # -1 /\ board[k] \in {-1, p[k]} /\ IsSafe(p, k, p[k])
  /\ row < size /\ board[row] = -1 => p[row] >= col

Completions(size, board, row, col) == {p \in Board(size) : Completes(p, size, board, row, col)}

LEMMA SafeSame ==
  ASSUME NEW p, NEW q, NEW row, \A k \in 0..row - 1 : p[k] = q[k], NEW c
  PROVE  IsSafe(p, row, c) = IsSafe(q, row, c)
  BY DEF IsSafe

LEMMA BoardsFinite ==
  ASSUME NEW size \in Nat
  PROVE  IsFiniteSet(Board(size))
<1>1. IsFiniteSet(0..size - 1) /\ IsFiniteSet(-1..size - 1)
  <2>1. 0 \in Int /\ -1 \in Int /\ size - 1 \in Int
    OBVIOUS
  <2> QED BY <2>1, FS_Interval
<1> QED BY <1>1, FunctionsFinite DEF Board

LEMMA CompletionsCount ==
  ASSUME NEW size \in Nat, NEW board, NEW row, NEW col
  PROVE  /\ IsFiniteSet(Completions(size, board, row, col))
         /\ Cardinality(Completions(size, board, row, col)) \in Nat
<1>1. Completions(size, board, row, col) \in SUBSET Board(size)
  BY DEF Completions
<1> QED BY <1>1, BoardsFinite, FS_Subset, FS_CardinalityType

LEMMA NoRowLeft ==
  ASSUME NEW size \in Nat, NEW board \in Board(size), NEW col
  PROVE  Completions(size, board, size, col) = {board}
<1>1. Completes(board, size, board, size, col)
  BY DEF Completes
<1>2. ASSUME NEW p \in Board(size), Completes(p, size, board, size, col) PROVE p = board
  BY <1>2 DEF Completes, Board
<1> QED BY <1>1, <1>2 DEF Completions

\* The rows from the next one on, and this row.
LEMMA FirstRow ==
  ASSUME NEW size \in Nat, NEW row \in 0..size - 1, NEW p, NEW board, NEW col
  PROVE  Completes(p, size, board, row, col) <=>
           /\ \A k \in 0..row - 1 : p[k] = board[k]
           /\ p[row] # -1 /\ board[row] \in {-1, p[row]} /\ IsSafe(p, row, p[row])
           /\ \A k \in row + 1..size - 1 : p[k] # -1 /\ board[k] \in {-1, p[k]} /\ IsSafe(p, k, p[k])
           /\ board[row] = -1 => p[row] >= col
<1> DEFINE Fits(k) == p[k] # -1 /\ board[k] \in {-1, p[k]} /\ IsSafe(p, k, p[k])
<1>1. (\A k \in row..size - 1 : Fits(k)) <=> Fits(row) /\ (\A k \in row + 1..size - 1 : Fits(k))
  <2>1. \A k \in row..size - 1 : k = row \/ k \in row + 1..size - 1
    OBVIOUS
  <2>2. row \in row..size - 1 /\ \A k \in row + 1..size - 1 : k \in row..size - 1
    OBVIOUS
  <2> HIDE DEF Fits
  <2> QED BY <2>1, <2>2
<1>2. row < size
  OBVIOUS
<1> QED BY <1>1, <1>2 DEF Completes

\* The same of the next row, which is bound to no column.
LEMMA NextRow ==
  ASSUME NEW size \in Nat, NEW row \in 0..size - 1, NEW p \in Board(size), NEW board \in Board(size)
  PROVE  Completes(p, size, board, row + 1, 0) <=>
           /\ p[row] = board[row]
           /\ \A k \in 0..row - 1 : p[k] = board[k]
           /\ \A k \in row + 1..size - 1 : p[k] # -1 /\ board[k] \in {-1, p[k]} /\ IsSafe(p, k, p[k])
<1>1. (\A k \in 0..(row + 1) - 1 : p[k] = board[k])
        <=> p[row] = board[row] /\ \A k \in 0..row - 1 : p[k] = board[k]
  <2>1. \A k \in 0..(row + 1) - 1 : k = row \/ k \in 0..row - 1
    OBVIOUS
  <2>2. row \in 0..(row + 1) - 1 /\ \A k \in 0..row - 1 : k \in 0..(row + 1) - 1
    OBVIOUS
  <2> QED BY <2>1, <2>2
<1>2. ASSUME \A k \in row + 1..size - 1 : p[k] # -1, row + 1 < size PROVE p[row + 1] >= 0
  BY <1>2 DEF Board
<1> QED BY <1>1, <1>2 DEF Completes

LEMMA RowHasQueen ==
  ASSUME NEW size \in Nat, NEW row \in 0..size - 1, NEW board \in Board(size), NEW col,
         board[row] # -1
  PROVE  Completions(size, board, row, col)
           = IF IsSafe(board, row, board[row]) THEN Completions(size, board, row + 1, 0) ELSE {}
<1>1. ASSUME NEW p \in Board(size)
      PROVE  Completes(p, size, board, row, col) <=>
               IsSafe(board, row, board[row]) /\ Completes(p, size, board, row + 1, 0)
  <2>1. (\A k \in 0..row - 1 : p[k] = board[k]) =>
           IsSafe(p, row, board[row]) = IsSafe(board, row, board[row])
    BY SafeSame
  <2> QED BY <2>1, FirstRow, NextRow
<1> QED BY <1>1 DEF Completions

LEMMA NoColumnLeft ==
  ASSUME NEW size \in Nat, NEW row \in 0..size - 1, NEW board \in Board(size), board[row] = -1
  PROVE  Completions(size, board, row, size) = {}
<1>1. ASSUME NEW p \in Board(size), Completes(p, size, board, row, size) PROVE FALSE
  <2>1. p[row] >= size
    BY <1>1, FirstRow
  <2> QED BY <2>1 DEF Board
<1> QED BY <1>1 DEF Completions

LEMMA ThisColumnOrLater ==
  ASSUME NEW size \in Nat, NEW row \in 0..size - 1, NEW col \in 0..size - 1,
         NEW board \in Board(size), board[row] = -1
  PROVE  LET here  == IF IsSafe(board, row, col)
                      THEN Completions(size, [board EXCEPT ![row] = col], row + 1, 0) ELSE {}
             later == Completions(size, board, row, col + 1)
         IN  /\ Completions(size, board, row, col) = here \cup later
             /\ here \cap later = {}
<1> DEFINE b == [board EXCEPT ![row] = col]
           here  == IF IsSafe(board, row, col) THEN Completions(size, b, row + 1, 0) ELSE {}
           later == Completions(size, board, row, col + 1)
<1>1. b \in Board(size) /\ b[row] = col /\ \A k \in 0..size - 1 : k # row => b[k] = board[k]
  BY DEF Board
<1> HIDE DEF b
<1>2. ASSUME NEW p \in Board(size)
      PROVE  p \in here <=> Completes(p, size, board, row, col) /\ p[row] = col
  <2>1. Completes(p, size, b, row + 1, 0) <=>
           /\ p[row] = col
           /\ \A k \in 0..row - 1 : p[k] = board[k]
           /\ \A k \in row + 1..size - 1 : p[k] # -1 /\ board[k] \in {-1, p[k]} /\ IsSafe(p, k, p[k])
    <3>1. \A k \in 0..row - 1 : k \in 0..size - 1 /\ k # row
      OBVIOUS
    <3>2. \A k \in row + 1..size - 1 : k \in 0..size - 1 /\ k # row
      OBVIOUS
    <3>3. /\ b \in Board(size) /\ b[row] = col
          /\ \A k \in 0..row - 1 : b[k] = board[k]
          /\ \A k \in row + 1..size - 1 : b[k] = board[k]
      BY <1>1, <3>1, <3>2, Zenon
    <3>4. Completes(p, size, b, row + 1, 0) <=>
            /\ p[row] = b[row]
            /\ \A k \in 0..row - 1 : p[k] = b[k]
            /\ \A k \in row + 1..size - 1 : p[k] # -1 /\ b[k] \in {-1, p[k]} /\ IsSafe(p, k, p[k])
      BY <3>3, NextRow
    <3>5. (\A k \in 0..row - 1 : p[k] = b[k]) <=> (\A k \in 0..row - 1 : p[k] = board[k])
      BY <3>3, Zenon
    <3>6. (\A k \in row + 1..size - 1 : p[k] # -1 /\ b[k] \in {-1, p[k]} /\ IsSafe(p, k, p[k]))
            <=> (\A k \in row + 1..size - 1 :
                   p[k] # -1 /\ board[k] \in {-1, p[k]} /\ IsSafe(p, k, p[k]))
      BY <3>3, Zenon
    <3> QED BY <3>3, <3>4, <3>5, <3>6, Zenon
  <2>2. (\A k \in 0..row - 1 : p[k] = board[k]) => IsSafe(p, row, col) = IsSafe(board, row, col)
    BY SafeSame
  <2>3. col # -1 /\ col >= col
    OBVIOUS
  <2> QED BY <2>1, <2>2, <2>3, FirstRow DEF Completions
<1>3. ASSUME NEW p \in Board(size)
      PROVE  p \in later <=> Completes(p, size, board, row, col) /\ p[row] # col
  <2>1. p[row] \in Int /\ (p[row] >= col + 1 <=> p[row] >= col /\ p[row] # col)
    BY DEF Board
  <2> QED BY <2>1, FirstRow DEF Completions
<1>4. here \subseteq Board(size) /\ later \subseteq Board(size)
  BY DEF Completions
<1> HIDE DEF here, later
<1>5. Completions(size, board, row, col) = here \cup later
  BY <1>2, <1>3, <1>4 DEF Completions
<1>6. here \cap later = {}
  BY <1>2, <1>3, <1>4
<1> QED BY <1>5, <1>6 DEF here, later, b

-----------------------------------------------------------------------------
(* The search.                                                             *)

Progress(size) == [board : Board(size), solutions : Nat]

At(search, s, row, col) == search[<<s, row, col>>]

Columns(search, size, s, row, col) ==
  At(search,
     IF IsSafe(s.board, row, col)
     THEN [At(search, [s EXCEPT !.board[row] = col], row + 1, 0) EXCEPT !.board[row] = -1]
     ELSE s,
     row, col + 1)

\* What Search demands of the function that it is.
SearchStep(search, size, s, row, col) ==
  CASE row = size -> [s EXCEPT !.solutions = @ + 1]
    [] row < size /\ s.board[row] # -1 ->
         IF IsSafe(s.board, row, s.board[row]) THEN At(search, s, row + 1, 0) ELSE s
    [] row < size /\ s.board[row] = -1 /\ col = size -> s
    [] OTHER -> Columns(search, size, s, row, col)

Places(size) == Progress(size) \X (0..size) \X (0..size)

Searches(search, size) ==
  search = [x \in Places(size) |-> SearchStep(search, size, x[1], x[2], x[3])]

LEMMA SearchIsChosen ==
  ASSUME NEW size
  PROVE  Search(size) = CHOOSE search : Searches(search, size)
  BY DEF Search, Searches, SearchStep, Columns, At, Places, Progress, Board

\* What it comes to.
Found(size, s, row, col) ==
  [s EXCEPT !.solutions = @ + Cardinality(Completions(size, s.board, row, col))]

LEMMA FoundType ==
  ASSUME NEW size \in Nat, NEW s \in Progress(size), NEW row, NEW col
  PROVE  /\ Found(size, s, row, col) \in Progress(size)
         /\ Found(size, s, row, col).board = s.board
         /\ Found(size, s, row, col).solutions = s.solutions + Cardinality(Completions(size, s.board, row, col))
<1> DEFINE d == Cardinality(Completions(size, s.board, row, col))
<1>1. d \in Nat
  BY CompletionsCount
<1>2. Found(size, s, row, col) = [s EXCEPT !.solutions = @ + d]
  BY DEF Found
<1> HIDE DEF d
<1>3. s.solutions \in Nat /\ s.board \in Board(size)
  BY DEF Progress
<1>4. [s EXCEPT !.solutions = @ + d] = [board |-> s.board, solutions |-> s.solutions + d]
  BY DEF Progress
<1> QED BY <1>1, <1>2, <1>3, <1>4 DEF Progress, d

LEMMA ProgressEqual ==
  ASSUME NEW size, NEW s \in Progress(size), NEW t \in Progress(size),
         s.board = t.board, s.solutions = t.solutions
  PROVE  s = t
  BY DEF Progress

LEMMA StepFinds ==
  ASSUME NEW size \in Nat, NEW search, NEW s \in Progress(size),
         NEW row \in 0..size, NEW col \in 0..size,
         row < size => \A t \in Progress(size) : At(search, t, row + 1, 0) = Found(size, t, row + 1, 0),
         row < size /\ col < size =>
           \A t \in Progress(size) : At(search, t, row, col + 1) = Found(size, t, row, col + 1)
  PROVE  SearchStep(search, size, s, row, col) = Found(size, s, row, col)
<1>0. s.board \in Board(size) /\ s.solutions \in Nat
  BY DEF Progress
<1>1. CASE row = size
  <2>1. SearchStep(search, size, s, row, col) = [s EXCEPT !.solutions = @ + 1]
    BY <1>1 DEF SearchStep
  <2>2. Cardinality(Completions(size, s.board, row, col)) = 1
    <3>1. Completions(size, s.board, row, col) = {s.board}
      BY <1>0, <1>1, NoRowLeft
    <3> QED BY <3>1, FS_Singleton
  <2> QED BY <2>1, <2>2 DEF Found
<1>2. CASE row < size /\ s.board[row] # -1
  <2>0. row \in 0..size - 1
    BY <1>2
  <2>1. SearchStep(search, size, s, row, col)
          = IF IsSafe(s.board, row, s.board[row]) THEN At(search, s, row + 1, 0) ELSE s
    BY <1>2 DEF SearchStep
  <2>2. CASE IsSafe(s.board, row, s.board[row])
    <3>1. Completions(size, s.board, row, col) = Completions(size, s.board, row + 1, 0)
      BY <1>0, <1>2, <2>0, <2>2, RowHasQueen
    <3>2. SearchStep(search, size, s, row, col) = Found(size, s, row + 1, 0)
      BY <1>2, <2>1, <2>2
    <3> QED BY <3>1, <3>2 DEF Found
  <2>3. CASE ~IsSafe(s.board, row, s.board[row])
    <3>1. Cardinality(Completions(size, s.board, row, col)) = 0
      BY <1>0, <1>2, <2>0, <2>3, RowHasQueen, FS_EmptySet
    <3>2. Found(size, s, row, col).board = s.board /\ Found(size, s, row, col).solutions = s.solutions
      BY <1>0, <3>1, FoundType
    <3>3. Found(size, s, row, col) = s
      BY <3>2, FoundType, ProgressEqual
    <3> QED BY <3>3, <2>1, <2>3
  <2> QED BY <2>2, <2>3
<1>3. CASE row < size /\ s.board[row] = -1 /\ col = size
  <2>0. row \in 0..size - 1
    BY <1>3
  <2>1. SearchStep(search, size, s, row, col) = s
    BY <1>3 DEF SearchStep
  <2>2. Cardinality(Completions(size, s.board, row, col)) = 0
    BY <1>0, <1>3, <2>0, NoColumnLeft, FS_EmptySet
  <2>3. Found(size, s, row, col).board = s.board /\ Found(size, s, row, col).solutions = s.solutions
    BY <1>0, <2>2, FoundType
  <2>4. Found(size, s, row, col) = s
    BY <2>3, FoundType, ProgressEqual
  <2> QED BY <2>1, <2>4
<1>4. CASE row < size /\ s.board[row] = -1 /\ col < size
  <2>0. row \in 0..size - 1 /\ col \in 0..size - 1 /\ row + 1 \in 0..size
    BY <1>4
  <2>1. SearchStep(search, size, s, row, col) = Columns(search, size, s, row, col)
    BY <1>4 DEF SearchStep
  <2> DEFINE later == Completions(size, s.board, row, col + 1)
             taken == [s EXCEPT !.board[row] = col]
             here == Completions(size, taken.board, row + 1, 0)
  <2>2. taken \in Progress(size) /\ taken.board = [s.board EXCEPT ![row] = col]
        /\ taken.solutions = s.solutions
    <3>1. taken = [board |-> [s.board EXCEPT ![row] = col], solutions |-> s.solutions]
      BY DEF Progress
    <3>2. [s.board EXCEPT ![row] = col] \in Board(size)
      BY <1>0, <2>0 DEF Board
    <3> QED BY <1>0, <3>1, <3>2 DEF Progress
  <2>3. IsFiniteSet(later) /\ IsFiniteSet(here) /\ Cardinality(later) \in Nat /\ Cardinality(here) \in Nat
    BY CompletionsCount
  <2>4. CASE IsSafe(s.board, row, col)
    <3> DEFINE back == [At(search, taken, row + 1, 0) EXCEPT !.board[row] = -1]
    <3>1. Cardinality(Completions(size, s.board, row, col)) = Cardinality(here) + Cardinality(later)
      <4>1. Completions(size, s.board, row, col) = here \cup later /\ here \cap later = {}
        BY <1>0, <1>4, <2>0, <2>2, <2>4, ThisColumnOrLater
      <4> HIDE DEF here, later
      <4>2. Cardinality(here \cap later) = 0
        BY <4>1, FS_EmptySet
      <4>3. Cardinality(here \cup later)
              = Cardinality(here) + Cardinality(later) - Cardinality(here \cap later)
        BY <2>3, FS_Union
      <4>4. \A i, j \in Nat : i + j - 0 = i + j
        OBVIOUS
      <4> QED BY <2>3, <4>1, <4>2, <4>3, <4>4
    <3>2. At(search, taken, row + 1, 0) \in Progress(size)
          /\ At(search, taken, row + 1, 0).board = taken.board
          /\ At(search, taken, row + 1, 0).solutions = s.solutions + Cardinality(here)
      <4>1. At(search, taken, row + 1, 0) = Found(size, taken, row + 1, 0)
        BY <1>4, <2>2
      <4> HIDE DEF taken
      <4> QED BY <4>1, <2>2, FoundType
    <3> HIDE DEF taken, here, later
    <3>3. back.board = s.board /\ back.solutions = s.solutions + Cardinality(here)
          /\ back \in Progress(size)
      <4> DEFINE r == At(search, taken, row + 1, 0)
      <4>1. [r EXCEPT !.board[row] = -1] = [board |-> [r.board EXCEPT ![row] = -1], solutions |-> r.solutions]
        <5> HIDE DEF r
        <5> QED BY <3>2 DEF Progress, r
      <4>2. [taken.board EXCEPT ![row] = -1] = s.board
        BY <1>0, <1>4, <2>0, <2>2 DEF Board
      <4>3. back = [board |-> s.board, solutions |-> s.solutions + Cardinality(here)]
        BY <4>1, <4>2, <3>2
      <4> QED BY <1>0, <2>3, <4>3 DEF Progress
    <3> HIDE DEF back
    <3>4. Columns(search, size, s, row, col) = Found(size, back, row, col + 1)
      <4>1. Columns(search, size, s, row, col) = At(search, back, row, col + 1)
        BY <2>4 DEF Columns, back, taken
      <4> QED BY <4>1, <3>3, <1>4
    <3>5. Found(size, back, row, col + 1).board = s.board
          /\ Found(size, back, row, col + 1).solutions = s.solutions + Cardinality(here) + Cardinality(later)
      BY <3>3, FoundType DEF later
    <3>6. Found(size, s, row, col).board = s.board
          /\ Found(size, s, row, col).solutions = s.solutions + Cardinality(here) + Cardinality(later)
      <4>1. Found(size, s, row, col).solutions = s.solutions + Cardinality(Completions(size, s.board, row, col))
        BY FoundType
      <4>2. \A i, j, k \in Nat : i + (j + k) = i + j + k
        OBVIOUS
      <4> QED BY <1>0, <2>3, <3>1, <4>1, <4>2, FoundType
    <3>7. Found(size, back, row, col + 1) = Found(size, s, row, col)
      BY <3>3, <3>5, <3>6, FoundType, ProgressEqual
    <3> QED BY <2>1, <3>4, <3>7
  <2>5. CASE ~IsSafe(s.board, row, col)
    <3>1. Completions(size, s.board, row, col) = later
      <4>1. Completions(size, s.board, row, col)
              = (IF IsSafe(s.board, row, col)
                 THEN Completions(size, [s.board EXCEPT ![row] = col], row + 1, 0) ELSE {})
                \cup later
        BY <1>0, <1>4, <2>0, ThisColumnOrLater
      <4> HIDE DEF later
      <4> QED BY <4>1, <2>5
    <3>2. Columns(search, size, s, row, col) = Found(size, s, row, col + 1)
      BY <1>4, <2>5 DEF Columns
    <3> QED BY <2>1, <3>1, <3>2 DEF Found
  <2> QED BY <2>4, <2>5
<1>5. \/ row = size
      \/ row < size /\ s.board[row] # -1
      \/ row < size /\ s.board[row] = -1 /\ col = size
      \/ row < size /\ s.board[row] = -1 /\ col < size
  <2>1. (row = size \/ row < size) /\ (col = size \/ col < size)
    OBVIOUS
  <2> QED BY <2>1
<1> QED BY <1>1, <1>2, <1>3, <1>4, <1>5

LEMMA SearchesExist ==
  ASSUME NEW size \in Nat
  PROVE  \E search : Searches(search, size)
<1> DEFINE f == [x \in Places(size) |-> Found(size, x[1], x[2], x[3])]
           g == [x \in Places(size) |-> SearchStep(f, size, x[1], x[2], x[3])]
<1>1. \A s \in Progress(size), row \in 0..size, col \in 0..size :
        At(f, s, row, col) = Found(size, s, row, col)
  BY DEF At, Places
<1>2. ASSUME NEW x \in Places(size)
      PROVE  SearchStep(f, size, x[1], x[2], x[3]) = Found(size, x[1], x[2], x[3])
  <2> DEFINE s == x[1]  row == x[2]  col == x[3]
  <2>0. s \in Progress(size) /\ row \in 0..size /\ col \in 0..size
    BY DEF Places
  <2> HIDE DEF f, s, row, col
  <2>1. row < size => row + 1 \in 0..size /\ 0 \in 0..size
    BY <2>0
  <2>2. col < size => col + 1 \in 0..size
    BY <2>0
  <2>3. SearchStep(f, size, s, row, col) = Found(size, s, row, col)
    BY <1>1, <2>0, <2>1, <2>2, StepFinds
  <2> QED BY <2>3 DEF s, row, col
<1>3. f = g
  BY <1>2, Zenon
<1> QED BY <1>3 DEF Searches

LEMMA SearchesStep ==
  ASSUME NEW search, NEW size, Searches(search, size),
         NEW s \in Progress(size), NEW row \in 0..size, NEW col \in 0..size
  PROVE  At(search, s, row, col) = SearchStep(search, size, s, row, col)
<1> DEFINE x == <<s, row, col>>
<1>1. x \in Places(size) /\ x[1] = s /\ x[2] = row /\ x[3] = col
  BY DEF Places
<1> HIDE DEF x
<1>2. search[x] = SearchStep(search, size, x[1], x[2], x[3])
  BY <1>1 DEF Searches
<1> QED BY <1>1, <1>2 DEF At, x

LEMMA SearchesFind ==
  ASSUME NEW search, NEW size \in Nat, Searches(search, size)
  PROVE  \A s \in Progress(size), row \in 0..size, col \in 0..size :
           At(search, s, row, col) = Found(size, s, row, col)
<1> DEFINE RowFinds(row) == \A s \in Progress(size), col \in 0..size :
                              At(search, s, row, col) = Found(size, s, row, col)
           Rows == {row \in 0..size : RowFinds(row)}
<1>1. size \in Rows
  <2>1. ASSUME NEW s \in Progress(size), NEW col \in 0..size
        PROVE  At(search, s, size, col) = Found(size, s, size, col)
    <3>1. size \in 0..size /\ ~(size < size)
      OBVIOUS
    <3> QED BY <3>1, SearchesStep, StepFinds
  <2> QED BY <2>1
<1>2. ASSUME NEW row \in 0..size - 1, row + 1 \in Rows PROVE row \in Rows
  <2> DEFINE Cols == {col \in 0..size : \A s \in Progress(size) :
                                          At(search, s, row, col) = Found(size, s, row, col)}
  <2>0. row \in 0..size /\ 0 \in 0..size
    OBVIOUS
  <2>1. \A s \in Progress(size) : At(search, s, row + 1, 0) = Found(size, s, row + 1, 0)
    BY <1>2, <2>0
  <2>2. size \in Cols
    <3>1. ASSUME NEW s \in Progress(size) PROVE At(search, s, row, size) = Found(size, s, row, size)
      <4>1. size \in 0..size /\ ~(size < size)
        OBVIOUS
      <4> QED BY <4>1, <2>0, <2>1, SearchesStep, StepFinds
    <3> QED BY <3>1
  <2>3. ASSUME NEW col \in 0..size - 1, col + 1 \in Cols PROVE col \in Cols
    <3>1. col \in 0..size
      OBVIOUS
    <3>2. ASSUME NEW s \in Progress(size) PROVE At(search, s, row, col) = Found(size, s, row, col)
      <4>1. \A t \in Progress(size) : At(search, t, row, col + 1) = Found(size, t, row, col + 1)
        BY <2>3
      <4> QED BY <4>1, <3>1, <2>0, <2>1, SearchesStep, StepFinds
    <3> QED BY <3>1, <3>2
  <2>4. \A col \in 0..size : col \in Cols
    <3> HIDE DEF Cols
    <3> QED BY <2>2, <2>3, DownInduction
  <2> QED BY <2>0, <2>4
<1>3. \A row \in 0..size : row \in Rows
  <2> HIDE DEF Rows
  <2> QED BY <1>1, <1>2, DownInduction
<1> QED BY <1>3

(***************************************************************************)
(* solve and backtrack, on one board that is changed and restored, count   *)
(* each completion of the board they are given once and nothing else, for  *)
(* boards of every size.                                                   *)
(***************************************************************************)
THEOREM SearchFinds ==
  ASSUME NEW size \in Nat, NEW board \in Board(size)
  PROVE  Count(size, board) = Cardinality(Completions(size, board, 0, 0))
<1> DEFINE s == [board |-> board, solutions |-> 0]
<1>1. Searches(Search(size), size)
  BY SearchIsChosen, SearchesExist, Zenon
<1>2. s \in Progress(size) /\ s.board = board /\ s.solutions = 0
  BY DEF Progress
<1>3. Count(size, board) = At(Search(size), s, 0, 0).solutions
  BY DEF Count, At
<1> HIDE DEF s
<1>4. 0 \in 0..size
  OBVIOUS
<1>5. At(Search(size), s, 0, 0) = Found(size, s, 0, 0)
  BY <1>1, <1>2, <1>4, SearchesFind
<1>6. Cardinality(Completions(size, board, 0, 0)) \in Nat
  BY CompletionsCount
<1>7. Found(size, s, 0, 0).solutions = 0 + Cardinality(Completions(size, board, 0, 0))
  BY <1>2, FoundType
<1> QED BY <1>3, <1>5, <1>6, <1>7

-----------------------------------------------------------------------------
(* Placements, on the client and on a server.                              *)

LEMMA SafePlacement ==
  ASSUME NEW size \in 0..MaxN, NEW p
  PROVE  p \in Placements[size]
           <=> p \in Board(size) /\ \A k \in 0..size - 1 : p[k] # -1 /\ IsSafe(p, k, p[k])
<1> DEFINE Apart(i, j) == p[i] # p[j] /\ p[i] - p[j] \notin {j - i, i - j}
<1>1. Placements[size] = {q \in [0..size - 1 -> 0..size - 1] :
        \A i, j \in 0..size - 1 : i < j => q[i] # q[j] /\ q[i] - q[j] \notin {j - i, i - j}}
  BY DEF Placements
<1>2. p \in Placements[size] <=>
        p \in [0..size - 1 -> 0..size - 1] /\ \A i, j \in 0..size - 1 : i < j => Apart(i, j)
  BY <1>1
<1>3. p \in [0..size - 1 -> 0..size - 1] <=> p \in Board(size) /\ \A k \in 0..size - 1 : p[k] # -1
  <2>1. size \in Nat /\ \A v : v \in 0..size - 1 <=> v \in -1..size - 1 /\ v # -1
    BY NQueenAssumption
  <2> QED BY <2>1 DEF Board
<1>4. \A k : IsSafe(p, k, p[k]) <=> \A i \in 0..k - 1 : Apart(i, k)
  BY DEF IsSafe
<1> HIDE DEF Apart
<1>5. (\A i, j \in 0..size - 1 : i < j => Apart(i, j))
        <=> \A k \in 0..size - 1 : \A i \in 0..k - 1 : Apart(i, k)
  <2>0. size \in Nat
    BY NQueenAssumption
  <2>1. ASSUME NEW k \in 0..size - 1, NEW i \in 0..k - 1 PROVE i \in 0..size - 1 /\ i < k
    BY <2>0
  <2>2. ASSUME NEW k \in 0..size - 1, NEW i \in 0..size - 1, i < k PROVE i \in 0..k - 1
    BY <2>0, <2>2
  <2> QED BY <2>1, <2>2
<1> QED BY <1>2, <1>3, <1>4, <1>5

LEMMA SizeOfBoard ==
  ASSUME NEW size \in 0..MaxN
  PROVE  size \in Nat
  BY NQueenAssumption

(***************************************************************************)
(* LocalNQueenSolver counts the placements of n queens.                    *)
(***************************************************************************)
THEOREM LocalSolveCounts ==
  ASSUME NEW size \in 0..MaxN
  PROVE  LocalSolve(size) = Cardinality(Placements[size])
<1> DEFINE empty == [row \in 0..size - 1 |-> -1]
<1>0. size \in Nat /\ empty \in Board(size)
  BY SizeOfBoard DEF Board
<1>1. ASSUME NEW p \in Board(size)
      PROVE  p \in Placements[size] <=> Completes(p, size, empty, 0, 0)
  <2>1. \A k \in 0..size - 1 : empty[k] \in {-1, p[k]}
    OBVIOUS
  <2>2. (\A k \in 0..size - 1 : p[k] # -1) /\ 0 < size => p[0] >= 0
    BY <1>0 DEF Board
  <2>3. 0..0 - 1 = {}
    OBVIOUS
  <2> QED BY <2>1, <2>2, <2>3, SafePlacement DEF Completes
<1>2. Placements[size] \subseteq Board(size)
  BY SafePlacement
<1>3. Completions(size, empty, 0, 0) = Placements[size]
  BY <1>1, <1>2 DEF Completions
<1>4. LocalSolve(size) = Count(size, empty)
  BY DEF LocalSolve
<1> HIDE DEF empty
<1> QED BY <1>0, <1>3, <1>4, SearchFinds

\* The placements of the task of a column.
WithFirst(size, col) == {p \in Placements[size] : p[0] = col}

(***************************************************************************)
(* NQueenServiceImpl::Solve, given the task of a column, counts the        *)
(* placements that have their first queen there.                           *)
(***************************************************************************)
THEOREM ServerCounts ==
  ASSUME NEW size \in 0..MaxN, NEW col \in 0..size - 1
  PROVE  Count(size, ServerBoard(TaskRequest(size, InitialTask(size, col))))
           = Cardinality(WithFirst(size, col))
<1> DEFINE board == [row \in 0..size - 1 |-> IF row = 0 THEN col ELSE -1]
           partial == InitialTask(size, col)
<1>0. size \in Nat /\ 0 < size /\ 0 \in 0..size - 1 /\ col # -1
  BY SizeOfBoard
<1>1. board \in Board(size)
  BY <1>0 DEF Board
<1>2. ServerBoard(TaskRequest(size, partial)) = board
  <2>1. Len(partial) = size /\ \A k \in 1..size : partial[k] = IF k = 1 THEN col ELSE -1
    BY <1>0 DEF InitialTask
  <2> DEFINE m == TaskRequest(size, partial)
  <2>2. m.n = size /\ m.partial = partial
    BY RequestMade
  <2> HIDE DEF m, partial
  <2>3. ServerBoard(m) = [row \in 0..size - 1 |-> IF row < Len(partial) THEN partial[row + 1] ELSE -1]
    BY <2>2 DEF ServerBoard
  <2>4. ASSUME NEW row \in 0..size - 1
        PROVE  (IF row < Len(partial) THEN partial[row + 1] ELSE -1) = IF row = 0 THEN col ELSE -1
    <3>1. row < Len(partial) /\ row + 1 \in 1..size /\ (row + 1 = 1 <=> row = 0)
      BY <1>0, <2>1
    <3> QED BY <2>1, <3>1
  <2> QED BY <2>3, <2>4 DEF m
<1>3. ASSUME NEW p \in Board(size)
      PROVE  p \in Placements[size] /\ p[0] = col <=> Completes(p, size, board, 0, 0)
  <2>1. (\A k \in 0..size - 1 : board[k] \in {-1, p[k]}) <=> p[0] = col
    BY <1>0
  <2>2. board[0] # -1 /\ 0..0 - 1 = {}
    BY <1>0
  <2> HIDE DEF board
  <2>3. Completes(p, size, board, 0, 0) <=>
          \A k \in 0..size - 1 : p[k] # -1 /\ board[k] \in {-1, p[k]} /\ IsSafe(p, k, p[k])
    BY <2>2 DEF Completes
  <2> QED BY <2>1, <2>3, SafePlacement
<1>4. Placements[size] \subseteq Board(size)
  BY SafePlacement
<1> HIDE DEF board, partial
<1>5. Completions(size, board, 0, 0) = WithFirst(size, col)
  BY <1>3, <1>4 DEF Completions, WithFirst
<1> QED BY <1>0, <1>1, <1>2, <1>5, SearchFinds DEF partial

LEMMA PlacementsFinite ==
  ASSUME NEW size \in 0..MaxN, NEW S \in SUBSET Placements[size]
  PROVE  IsFiniteSet(S) /\ Cardinality(S) \in Nat
<1>1. S \in SUBSET Board(size)
  BY SafePlacement
<1> QED BY <1>1, SizeOfBoard, BoardsFinite, FS_Subset, FS_CardinalityType

-----------------------------------------------------------------------------
(* The invariant.                                                          *)

TypeInv ==
  /\ n \in 0..MaxN
  /\ dispatched \in 0..n
  /\ collected \in 0..n
  /\ call \in [Tasks -> {"none", "started", "requested", "answered", "ready"}]
  /\ wire = [i \in Tasks |-> wire[i]]
  /\ result \in [Tasks -> Nat]
  /\ failed \subseteq Tasks
  /\ distributed \in Nat

\* What is under way, and what has come back, is about the task of the thread.
TaskInv(i) ==
  /\ i >= dispatched => call[i] = "none"
  /\ call[i] = "requested" => wire[i] = WriteRequest(RequestSized(TaskRequest(n, InitialTask(n, i))))
  /\ call[i] = "answered" => wire[i] = WriteResult(TaskResult(Cardinality(WithFirst(n, i))))
  /\ i \in failed => call[i] = "ready"
  /\ result[i] = IF call[i] = "ready" /\ i \notin failed THEN Cardinality(WithFirst(n, i)) ELSE 0

\* The sum so far counts the placements of the tasks collected and not failed.
Counted == {p \in Placements[n] : n > 0 /\ p[0] \in (0..collected - 1) \ failed}

SumInv ==
  /\ \A i \in 0..collected - 1 : call[i] = "ready"
  /\ distributed = Cardinality(Counted)
  /\ verdict # "none" => collected = n /\ (verdict = "SUCCESS" <=> distributed = LocalSolve(n))

IInv == TypeInv /\ (\A i \in Tasks : TaskInv(i)) /\ SumInv

LEMMA WithFirstCount ==
  ASSUME TypeInv, NEW i \in Tasks
  PROVE  Cardinality(WithFirst(n, i)) \in Nat
  BY PlacementsFinite DEF TypeInv, WithFirst

LEMMA InitInv ==
  ASSUME Init
  PROVE  IInv
<1>1. TypeInv
  <2>1. n \in Nat
    BY SizeOfBoard DEF Init
  <2>2. wire = [i \in Tasks |-> wire[i]]
    BY Zenon DEF Init
  <2> QED BY <2>1, <2>2 DEF Init, TypeInv
<1>2. ASSUME NEW i \in Tasks PROVE TaskInv(i)
  BY DEF Init, TaskInv
<1>3. SumInv
  <2>1. Counted = {} /\ 0..collected - 1 = {}
    BY DEF Init, Counted
  <2> QED BY <2>1, FS_EmptySet DEF Init, SumInv
<1> QED BY <1>1, <1>2, <1>3 DEF IInv

LEMMA DispatchInv ==
  ASSUME IInv, Dispatch
  PROVE  IInv'
<1>1. n \in Nat /\ dispatched \in Tasks /\ Tasks' = Tasks
  BY SizeOfBoard DEF IInv, TypeInv, Dispatch, Tasks, config
<1>2. TypeInv'
  BY <1>1 DEF IInv, TypeInv, Dispatch, config
<1>3. \A i \in Tasks : call'[i] = IF i = dispatched THEN "started" ELSE call[i]
  BY <1>1 DEF IInv, TypeInv, Dispatch
<1>4. call[dispatched] = "none"
  <2>1. dispatched >= dispatched
    BY DEF IInv, TypeInv
  <2> QED BY <1>1, <2>1 DEF IInv, TaskInv
<1>5. ASSUME NEW i \in Tasks PROVE TaskInv(i)'
  <2>1. TaskInv(i)
    BY DEF IInv
  <2>2. UNCHANGED <<n, wire, result, failed>> /\ dispatched' = dispatched + 1
    BY DEF Dispatch, config
  <2>3. i >= dispatched + 1 => i # dispatched /\ i >= dispatched
    BY <1>1 DEF Tasks
  <2>4. i = dispatched => i \notin failed /\ result[i] = 0
    BY <1>4, <2>1 DEF TaskInv
  <2> QED BY <1>3, <2>1, <2>2, <2>3, <2>4 DEF TaskInv
<1>6. SumInv'
  <2>1. UNCHANGED <<n, failed, collected, distributed, verdict>>
    BY DEF Dispatch, config
  <2>2. 0..collected - 1 \subseteq Tasks
    BY <1>1 DEF IInv, TypeInv, Tasks
  <2> QED BY <1>3, <1>4, <2>1, <2>2 DEF IInv, SumInv, Counted
<1> QED BY <1>1, <1>2, <1>5, <1>6 DEF IInv

\* A step of a call leaves the loops of main alone.
LEMMA CallInv ==
  ASSUME IInv, NEW i \in Tasks, NEW state \in {"requested", "answered", "ready"},
         call[i] \in {"started", "requested", "answered"},
         call' = [call EXCEPT ![i] = state],
         \E w : wire' = [wire EXCEPT ![i] = w],
         UNCHANGED <<n, dispatched, collected, distributed, verdict>>,
         \E r \in Nat : result' = [result EXCEPT ![i] = r],
         failed' \in {failed, failed \cup {i}},
         TaskInv(i)'
  PROVE  IInv'
<1>1. Tasks' = Tasks /\ n \in Nat
  BY SizeOfBoard DEF IInv, TypeInv, Tasks
<1>2. TypeInv'
  <2>1. wire' = [j \in Tasks |-> wire'[j]]
    <3>1. PICK w : wire' = [wire EXCEPT ![i] = w]
      OBVIOUS
    <3>2. wire = [j \in Tasks |-> wire[j]]
      BY DEF IInv, TypeInv
    <3> QED BY <3>1, <3>2
  <2> QED BY <1>1, <2>1 DEF IInv, TypeInv
<1>3. ASSUME NEW j \in Tasks, j # i
      PROVE  call'[j] = call[j] /\ wire'[j] = wire[j] /\ result'[j] = result[j] /\ (j \in failed' <=> j \in failed)
  BY <1>3 DEF IInv, TypeInv
<1>4. ASSUME NEW j \in Tasks PROVE TaskInv(j)'
  <2>1. TaskInv(j)
    BY DEF IInv
  <2>2. CASE j # i
    BY <1>3, <2>1, <2>2 DEF TaskInv
  <2>3. CASE j = i
    BY <2>3
  <2> QED BY <2>2, <2>3
<1>5. SumInv'
  <2>1. 0..collected - 1 \subseteq Tasks
    BY <1>1 DEF IInv, TypeInv, Tasks
  <2>2. i \notin 0..collected - 1
    BY DEF IInv, SumInv
  <2>3. (0..collected - 1) \ failed' = (0..collected - 1) \ failed
    BY <2>2
  <2>4. Counted' = Counted
    BY <2>3 DEF Counted
  <2>5. \A j \in 0..collected - 1 : call'[j] = "ready"
    BY <1>3, <2>1, <2>2 DEF IInv, SumInv
  <2> QED BY <2>4, <2>5 DEF IInv, SumInv
<1> QED BY <1>1, <1>2, <1>4, <1>5 DEF IInv

LEMMA PartialTask ==
  ASSUME TypeInv, NEW i \in Tasks
  PROVE  /\ n \in Nat \ {0}
         /\ InitialTask(n, i) \in Seq(Int)
         /\ InitialTask(n, i) # <<>>
<1>1. n \in Nat \ {0} /\ i \in Int
  BY SizeOfBoard DEF TypeInv, Tasks
<1> DEFINE task == InitialTask(n, i)
<1>2. task = [k \in 1..n |-> IF k = 1 THEN i ELSE -1]
  BY DEF InitialTask
<1> HIDE DEF task
<1>3. task \in Seq(Int) /\ Len(task) = n
  BY <1>1, <1>2
<1>4. task # <<>>
  BY <1>1, <1>3
<1> QED BY <1>1, <1>3, <1>4 DEF task

LEMMA CallStartsInv ==
  ASSUME IInv, NEW i \in Tasks, CallStarts(i)
  PROVE  IInv'
<1> DEFINE w == WriteRequest(RequestSized(TaskRequest(n, InitialTask(n, i))))
<1>1. /\ call[i] = "started"
      /\ call' = [call EXCEPT ![i] = "requested"]
      /\ wire' = [wire EXCEPT ![i] = w]
      /\ UNCHANGED <<n, dispatched, collected, distributed, verdict, result, failed>>
  BY DEF CallStarts, config
<1>2. call'[i] = "requested" /\ wire'[i] = w /\ result' = [result EXCEPT ![i] = result[i]]
      /\ result[i] \in Nat
  <2>1. i \in DOMAIN wire
    <3>1. wire = [j \in Tasks |-> wire[j]]
      BY DEF IInv, TypeInv
    <3> QED BY <3>1
  <2> HIDE DEF w
  <2> QED BY <1>1, <2>1 DEF IInv, TypeInv
<1>3. TaskInv(i)'
  <2>1. TaskInv(i)
    BY DEF IInv
  <2>2. w = w'
    BY <1>1
  <2> QED BY <1>1, <1>2, <2>1, <2>2 DEF TaskInv
<1> HIDE DEF w
<1> QED BY <1>1, <1>2, <1>3, CallInv

LEMMA ServeInv ==
  ASSUME IInv, NEW i \in Tasks, Serve(i)
  PROVE  IInv'
<1> DEFINE request == ReadRequest(wire[i])
           w == WriteResult(TaskResult(Count(request.n, ServerBoard(request))))
           answer == WriteResult(TaskResult(Cardinality(WithFirst(n, i))))
<1>1. /\ call[i] = "requested"
      /\ call' = [call EXCEPT ![i] = "answered"]
      /\ wire' = [wire EXCEPT ![i] = w]
      /\ UNCHANGED <<n, dispatched, collected, distributed, verdict, result, failed>>
  BY DEF Serve, config
<1>2. w = answer
  <2>1. wire[i] = WriteRequest(RequestSized(TaskRequest(n, InitialTask(n, i))))
    BY <1>1 DEF IInv, TaskInv
  <2>2. request = TaskRequest(n, InitialTask(n, i))
    BY <2>1, PartialTask, RequestRead DEF IInv
  <2>3. request.n = n
    BY <2>2, RequestMade
  <2>4. n \in 0..MaxN /\ i \in 0..n - 1
    BY DEF IInv, TypeInv, Tasks
  <2>5. Count(request.n, ServerBoard(request)) = Cardinality(WithFirst(n, i))
    BY <2>2, <2>3, <2>4, ServerCounts
  <2> QED BY <2>5
<1> HIDE DEF w
<1>3. call'[i] = "answered" /\ wire'[i] = answer /\ result' = [result EXCEPT ![i] = result[i]]
      /\ result[i] \in Nat
  <2>1. i \in DOMAIN wire
    <3>1. wire = [j \in Tasks |-> wire[j]]
      BY DEF IInv, TypeInv
    <3> QED BY <3>1
  <2> HIDE DEF answer
  <2> QED BY <1>1, <1>2, <2>1 DEF IInv, TypeInv
<1>4. TaskInv(i)'
  <2>1. TaskInv(i)
    BY DEF IInv
  <2>2. answer = answer' /\ WithFirst(n, i) = WithFirst(n, i)'
    BY <1>1
  <2> HIDE DEF answer
  <2> QED BY <1>1, <1>3, <2>1, <2>2 DEF TaskInv, answer
<1> HIDE DEF answer
<1> QED BY <1>1, <1>3, <1>4, CallInv

LEMMA CallReturnsInv ==
  ASSUME IInv, NEW i \in Tasks, CallReturns(i)
  PROVE  IInv'
<1> DEFINE count == Cardinality(WithFirst(n, i))
<1>1. /\ call[i] = "answered"
      /\ call' = [call EXCEPT ![i] = "ready"]
      /\ wire' = [wire EXCEPT ![i] = <<>>]
      /\ result' = [result EXCEPT ![i] = ReadResult(wire[i]).solutions]
      /\ UNCHANGED <<n, dispatched, collected, distributed, verdict, failed>>
  BY DEF CallReturns, config
<1>2. ReadResult(wire[i]).solutions = count /\ count \in Nat
  <2>1. count \in Nat
    BY WithFirstCount DEF IInv
  <2>2. wire[i] = WriteResult(TaskResult(count))
    BY <1>1 DEF IInv, TaskInv
  <2> HIDE DEF count
  <2>3. ReadResult(wire[i]) = TaskResult(count)
    BY <2>1, <2>2, ResultRead
  <2>4. TaskResult(count).solutions = count
    BY DEF TaskResult, EmptyResult
  <2> QED BY <2>1, <2>3, <2>4
<1>3. count = count'
  BY <1>1
<1> HIDE DEF count
<1>4. call'[i] = "ready" /\ result'[i] = count /\ i \notin failed
  BY <1>1, <1>2 DEF IInv, TypeInv, TaskInv
<1>5. TaskInv(i)'
  <2>1. TaskInv(i)
    BY DEF IInv
  <2> QED BY <1>1, <1>3, <1>4, <2>1 DEF TaskInv, count
<1> QED BY <1>1, <1>2, <1>5, CallInv

LEMMA CallFailsInv ==
  ASSUME IInv, NEW i \in Tasks, CallFails(i)
  PROVE  IInv'
<1>1. /\ call[i] \in {"requested", "answered"}
      /\ call' = [call EXCEPT ![i] = "ready"]
      /\ wire' = [wire EXCEPT ![i] = <<>>]
      /\ failed' = failed \cup {i}
      /\ UNCHANGED <<n, dispatched, collected, distributed, verdict, result>>
  BY DEF CallFails, config
<1>2. call'[i] = "ready" /\ i \in failed' /\ result[i] = 0 /\ result' = [result EXCEPT ![i] = 0]
  BY <1>1 DEF IInv, TypeInv, TaskInv
<1>3. TaskInv(i)'
  <2>1. TaskInv(i)
    BY DEF IInv
  <2> QED BY <1>1, <1>2, <2>1 DEF TaskInv
<1> QED BY <1>1, <1>2, <1>3, CallInv

LEMMA StutterInv ==
  ASSUME IInv, UNCHANGED <<n, dispatched, call, wire, result, failed, collected, distributed, verdict>>
  PROVE  IInv'
<1>1. Tasks' = Tasks /\ TypeInv' /\ SumInv'
  BY DEF IInv, TypeInv, SumInv, Counted, Tasks
<1>2. ASSUME NEW i \in Tasks PROVE TaskInv(i)'
  BY DEF IInv, TaskInv
<1> QED BY <1>1, <1>2 DEF IInv

LEMMA CollectInv ==
  ASSUME IInv, Collect
  PROVE  IInv'
<1>1. /\ dispatched = n /\ collected < n /\ call[collected] = "ready"
      /\ distributed' = distributed + result[collected]
      /\ collected' = collected + 1
      /\ UNCHANGED <<n, dispatched, call, wire, result, failed, verdict>>
  BY DEF Collect, config
<1>2. n \in Nat /\ n > 0 /\ collected \in Tasks /\ collected \in Nat /\ Tasks' = Tasks
      /\ n \in 0..MaxN
  BY <1>1, SizeOfBoard DEF IInv, TypeInv, Tasks
<1>3. TypeInv'
  BY <1>1, <1>2 DEF IInv, TypeInv
<1>4. ASSUME NEW i \in Tasks PROVE TaskInv(i)'
  BY <1>1 DEF IInv, TaskInv
<1>5. distributed' = Cardinality(Counted')
  <2> DEFINE more == IF collected \in failed THEN {} ELSE WithFirst(n, collected)
  <2>1. Counted' = Counted \cup more
    <3>1. \A j : j \in 0..(collected + 1) - 1 <=> j \in 0..collected - 1 \/ j = collected
      BY <1>2
    <3> QED BY <1>1, <1>2, <3>1 DEF Counted, WithFirst
  <2>2. Counted \cap more = {}
    <3>1. collected \notin 0..collected - 1
      BY <1>2
    <3> QED BY <3>1 DEF Counted, WithFirst
  <2>3. Cardinality(more) = result[collected]
    <3>1. TaskInv(collected)
      BY <1>2 DEF IInv
    <3> QED BY <1>1, <3>1, FS_EmptySet DEF TaskInv
  <2>4. Counted \in SUBSET Placements[n] /\ more \in SUBSET Placements[n]
    BY DEF Counted, WithFirst
  <2> HIDE DEF more
  <2>5. IsFiniteSet(Counted) /\ IsFiniteSet(more) /\ Cardinality(Counted) \in Nat /\ Cardinality(more) \in Nat
    BY <1>2, <2>4, PlacementsFinite
  <2>6. Cardinality(Counted \cup more)
          = Cardinality(Counted) + Cardinality(more) - Cardinality(Counted \cap more)
    BY <2>5, FS_Union
  <2>7. Cardinality(Counted \cap more) = 0
    BY <2>2, FS_EmptySet
  <2>8. distributed = Cardinality(Counted)
    BY DEF IInv, SumInv
  <2>9. \A j, k \in Nat : j + k - 0 = j + k
    OBVIOUS
  <2> QED BY <1>1, <2>1, <2>3, <2>5, <2>6, <2>7, <2>8, <2>9
<1>6. \A j \in 0..collected' - 1 : call'[j] = "ready"
  BY <1>1, <1>2 DEF IInv, SumInv
<1>7. verdict = "none"
  BY <1>1, <1>2 DEF IInv, SumInv
<1> QED BY <1>1, <1>2, <1>3, <1>4, <1>5, <1>6, <1>7 DEF IInv, SumInv

LEMMA CompareInv ==
  ASSUME IInv, Compare
  PROVE  IInv'
<1>1. /\ collected = n
      /\ verdict' = IF distributed = LocalSolve(n) THEN "SUCCESS" ELSE "FAILURE"
      /\ UNCHANGED <<n, dispatched, call, wire, result, failed, collected, distributed>>
  BY DEF Compare, config
<1>2. TypeInv' /\ Tasks' = Tasks
  BY <1>1 DEF IInv, TypeInv, Tasks
<1>3. ASSUME NEW i \in Tasks PROVE TaskInv(i)'
  BY <1>1 DEF IInv, TaskInv
<1>4. SumInv'
  <2>1. LocalSolve(n') = LocalSolve(n) /\ Counted' = Counted
    BY <1>1 DEF Counted
  <2> QED BY <1>1, <2>1 DEF IInv, SumInv
<1> QED BY <1>2, <1>3, <1>4 DEF IInv

LEMMA NextInv ==
  ASSUME IInv, [Next]_vars
  PROVE  IInv'
<1>1. CASE Dispatch
  BY <1>1, DispatchInv
<1>2. CASE Collect
  BY <1>2, CollectInv
<1>3. CASE Compare
  BY <1>3, CompareInv
<1>4. ASSUME NEW i \in Tasks, Call(i) PROVE IInv'
  BY <1>4, CallStartsInv, ServeInv, CallReturnsInv, CallFailsInv DEF Call
<1>5. ASSUME NEW s, ServerStarts(s) \/ ServerStops(s) PROVE IInv'
  BY <1>5, StutterInv DEF ServerStarts, ServerStops, config
<1>6. CASE UNCHANGED vars
  BY <1>6, StutterInv DEF vars
<1> QED BY <1>1, <1>2, <1>3, <1>4, <1>5, <1>6 DEF Next, Main

LEMMA Invariance == Spec => []IInv
<1>1. Init => IInv
  BY InitInv
<1>2. IInv /\ [Next]_vars => IInv'
  BY NextInv
<1> QED BY <1>1, <1>2, PTL DEF Spec, SafeSpec

(***************************************************************************)
(* A call that did not fail returns the count of its own task, whatever    *)
(* calls fail, servers go down and threads overtake each other.            *)
(***************************************************************************)
THEOREM AnswersAreCounts == Spec => []AnswersCount
<1>1. IInv => AnswersCount
  BY DEF IInv, TaskInv, AnswersCount, WithFirst
<1> QED BY <1>1, Invariance, PTL

LEMMA VerdictImplied ==
  ASSUME IInv
  PROVE  VerdictIsRight
<1> SUFFICES ASSUME verdict # "none"
             PROVE  verdict = "SUCCESS" <=> n > 0 /\ \A p \in Placements[n] : p[0] \notin failed
  BY DEF VerdictIsRight
<1>1. n \in 0..MaxN /\ n \in Nat /\ collected = n
  BY SizeOfBoard DEF IInv, TypeInv, SumInv
<1>2. verdict = "SUCCESS" <=> Cardinality(Counted) = Cardinality(Placements[n])
  BY <1>1, LocalSolveCounts DEF IInv, SumInv
<1>3. Counted \in SUBSET Placements[n] /\ IsFiniteSet(Placements[n])
  BY <1>1, PlacementsFinite DEF Counted
<1>4. Cardinality(Counted) = Cardinality(Placements[n]) <=> Counted = Placements[n]
  BY <1>3, FS_Subset
<1>5. CASE n = 0
  <2> DEFINE empty == [k \in 0..n - 1 |-> -1]
  <2>1. 0..n - 1 = {}
    BY <1>5
  <2>2. empty \in Placements[n]
    <3>1. empty \in Board(n)
      BY <1>1 DEF Board
    <3> HIDE DEF empty
    <3> QED BY <1>1, <2>1, <3>1, SafePlacement
  <2>3. Counted = {}
    BY <1>5 DEF Counted
  <2> QED BY <1>2, <1>4, <1>5, <2>2, <2>3
<1>6. CASE n > 0
  <2>1. ASSUME NEW p \in Placements[n] PROVE p[0] \in 0..collected - 1
    <3>1. p \in [0..n - 1 -> 0..n - 1]
      BY <1>1 DEF Placements
    <3> QED BY <1>1, <1>6, <3>1
  <2>2. Counted = Placements[n] <=> \A p \in Placements[n] : p[0] \notin failed
    BY <1>6, <2>1 DEF Counted
  <2> QED BY <1>2, <1>4, <1>6, <2>2
<1> QED BY <1>1, <1>5, <1>6

(***************************************************************************)
(* The client says SUCCESS if and only if the board has rows and each call *)
(* was answered whose task has solutions: the counts of the tasks add up   *)
(* to the one of its own search, and a lost one is never made up for.      *)
(***************************************************************************)
THEOREM VerdictsAreRight == Spec => []VerdictIsRight
  BY Invariance, VerdictImplied, PTL

LEMMA SizesImplied ==
  ASSUME IInv
  PROVE  SizesAgree
<1> SUFFICES ASSUME NEW i \in Tasks
             PROVE  /\ call[i] = "requested" =>
                         /\ WireSize(wire[i]) = RequestByteSize(TaskRequest(n, InitialTask(n, i)))
                         /\ \A k \in DOMAIN wire[i] : wire[i][k].size = DataSize(wire[i][k].values)
                    /\ call[i] = "answered" => WireSize(wire[i]) = ResultByteSize(ReadResult(wire[i]))
  BY DEF SizesAgree
<1>1. CASE call[i] = "requested"
  <2>1. wire[i] = WriteRequest(RequestSized(TaskRequest(n, InitialTask(n, i))))
    BY <1>1 DEF IInv, TaskInv
  <2>2. n \in Nat \ {0} /\ InitialTask(n, i) \in Seq(Int) /\ InitialTask(n, i) # <<>>
    BY PartialTask DEF IInv
  <2> QED BY <1>1, <2>1, <2>2, RequestSizesAgree
<1>2. CASE call[i] = "answered"
  <2> DEFINE count == Cardinality(WithFirst(n, i))
  <2>1. wire[i] = WriteResult(TaskResult(count))
    BY <1>2 DEF IInv, TaskInv
  <2>2. count \in Nat
    BY WithFirstCount DEF IInv
  <2> HIDE DEF count
  <2> QED BY <1>2, <2>1, <2>2, ResultRead, ResultSizesAgree
<1> QED BY <1>1, <1>2

(***************************************************************************)
(* What ByteSizeLong announces of a message that is under way is what was  *)
(* written, and so is the length in front of packed values.                *)
(***************************************************************************)
THEOREM SizesAlwaysAgree == Spec => []SizesAgree
  BY Invariance, SizesImplied, PTL

=============================================================================
