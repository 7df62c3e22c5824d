-------------------------- MODULE HandleReadProofs --------------------------
(***************************************************************************)
(* Proofs about the reading half of a logicServer session, for any frames, *)
(* any value of MAX_LENGTH and any way the stream is cut into chunks: no   *)
(* buffer is overrun but for a length of -1 (BuffersSafe), and until a     *)
(* chunk ends inside a head the parser is a frame stream (FrameStreamSafe, *)
(* PostedUntilSplit).                                                      *)
(*                                                                         *)
(* The argument: the chunk is the end of what has been received, so the    *)
(* bytes that HandleRead has gone through are a prefix of the stream       *)
(* (ChunkInv); the frames sent divide the stream (Layout); and the parser  *)
(* stands at the end of a frame, or as far behind a head as the body it    *)
(* has collected is long (InStep).  Where each frame ends is not part of   *)
(* the state: the invariant says that such a division exists.              *)
(***************************************************************************)
EXTENDS HandleRead, SequenceTheorems, TLAPS

TypeInv ==
  /\ sent \in Seq(Frames)
  /\ stream \in Seq(Byte)
  /\ received \in Nat
  /\ chunk \in Seq(Byte)
  /\ headData \in Seq(Byte)
  /\ Len(headData) = HeadTotalLen
  /\ headParse \in BOOLEAN
  /\ node \in Frame
  /\ posted \in Seq(Frame)
  /\ split \in BOOLEAN

\* BuffersFit holds because nothing ever advances _cur_len of the head.
BufferInv ==
  /\ headCur = 0
  /\ reader = "handling" <=> chunk # <<>>
  /\ node.len <= MaxLength
  /\ ~Overrunning => /\ 0 <= node.len
                     /\ Len(node.body) <= node.len
                     /\ headParse => Len(node.body) < node.len
                     /\ reader # "died"
  /\ Overrunning => headParse

Consumed == received - Len(chunk)

\* The chunk is the end of what has been received.
ChunkInv ==
  /\ received <= Len(stream)
  /\ Len(chunk) <= received
  /\ \A i \in 1..Len(chunk) : chunk[i] = stream[Consumed + i]

\* The i-th frame sent is the part of the stream that ends at ends[i].
Layout(ends) ==
  /\ ends[0] = 0
  /\ ends[Len(sent)] = Len(stream)
  /\ \A i \in 1..Len(sent) :
       /\ ends[i] = ends[i - 1] + Len(Bytes(sent[i]))
       /\ ends[i] <= Len(stream)
       /\ \A j \in 1..Len(Bytes(sent[i])) : stream[ends[i - 1] + j] = Bytes(sent[i])[j]

\* Where the parser is in the stream, while it is in step with its peer.
InStep(ends) ==
  ~split /\ ~Overrunning /\ reader \in {"armed", "handling"} =>
    /\ ~headParse => Consumed = ends[Len(posted)]
    /\ headParse =>
         LET f == sent[Len(posted) + 1] IN
         /\ Len(posted) < Len(sent)
         /\ ValidHead(f.id, f.len) /\ 0 <= f.len
         /\ node.id = f.id /\ node.len = f.len
         /\ Consumed = ends[Len(posted)] + HeadTotalLen + Len(node.body)
         /\ \A j \in 1..Len(node.body) : node.body[j] = f.body[j]

PostedInv ==
  ~split => /\ Len(posted) <= Len(sent)
            /\ \A i \in 1..Len(posted) : posted[i] = sent[i]

StreamInv ==
  /\ PostedInv
  /\ \E ends \in [0..Len(sent) -> Nat] : Layout(ends) /\ InStep(ends)

IInv == TypeInv /\ BufferInv /\ ChunkInv /\ StreamInv

-----------------------------------------------------------------------------
(* Copies and conversions.                                                 *)

LEMMA Slice ==
  ASSUME NEW S, NEW s \in Seq(S), NEW m \in Nat, NEW n \in Nat, m <= n, n <= Len(s)
  PROVE  /\ SubSeq(s, m + 1, n) \in Seq(S)
         /\ Len(SubSeq(s, m + 1, n)) = n - m
         /\ \A i \in 1..n - m : SubSeq(s, m + 1, n)[i] = s[m + i]
  BY SubSeqProperties

LEMMA DropPart ==
  ASSUME NEW S, NEW s \in Seq(S), NEW n \in Nat, n <= Len(s)
  PROVE  /\ Drop(s, n) \in Seq(S)
         /\ Len(Drop(s, n)) = Len(s) - n
         /\ \A i \in 1..Len(s) - n : Drop(s, n)[i] = s[n + i]
  BY SubSeqProperties DEF Drop

LEMMA FirstPart ==
  ASSUME NEW S, NEW s \in Seq(S), NEW n \in Nat, n <= Len(s)
  PROVE  /\ SubSeq(s, 1, n) \in Seq(S)
         /\ Len(SubSeq(s, 1, n)) = n
         /\ \A i \in 1..n : SubSeq(s, 1, n)[i] = s[i]
  BY SubSeqProperties

LEMMA Joined ==
  ASSUME NEW S, NEW s \in Seq(S), NEW t \in Seq(S)
  PROVE  /\ s \o t \in Seq(S)
         /\ Len(s \o t) = Len(s) + Len(t)
         /\ \A i \in 1..Len(s) : (s \o t)[i] = s[i]
         /\ \A i \in 1..Len(t) : (s \o t)[Len(s) + i] = t[i]
<1>1. /\ s \o t \in Seq(S)
      /\ Len(s \o t) = Len(s) + Len(t)
      /\ \A i \in 1..Len(s) + Len(t) : (s \o t)[i] = IF i <= Len(s) THEN s[i] ELSE t[i - Len(s)]
  BY ConcatProperties
<1>2. Len(s) \in Nat /\ Len(t) \in Nat
  OBVIOUS
<1>3. ASSUME NEW i \in 1..Len(s) PROVE (s \o t)[i] = s[i]
  BY <1>1, <1>2
<1>4. ASSUME NEW i \in 1..Len(t) PROVE (s \o t)[Len(s) + i] = t[i]
  <2>1. Len(s) + i \in 1..Len(s) + Len(t) /\ ~(Len(s) + i <= Len(s)) /\ Len(s) + i - Len(s) = i
    BY <1>2
  <2> QED BY <1>1, <2>1
<1> QED BY <1>1, <1>3, <1>4

LEMMA OverwriteType ==
  ASSUME NEW dst \in Seq(Byte), NEW src \in Seq(Byte), Len(src) <= Len(dst)
  PROVE  /\ Overwrite(dst, 0, src) \in Seq(Byte)
         /\ Len(Overwrite(dst, 0, src)) = Len(dst)
         /\ \A i \in 1..Len(src) : Overwrite(dst, 0, src)[i] = src[i]
<1> DEFINE new == [i \in 1..Len(dst) |-> IF i \in 1..Len(src) THEN src[i] ELSE dst[i]]
<1>1. Overwrite(dst, 0, src) = new
  BY DEF Overwrite
<1>2. \A i \in 1..Len(dst) : new[i] \in Byte
  OBVIOUS
<1>3. new \in Seq(Byte)
  BY <1>2, IsASeq
<1>4. Len(new) = Len(dst)
  BY LenProperties
<1>5. \A i \in 1..Len(src) : new[i] = src[i]
  OBVIOUS
<1> QED BY <1>1, <1>3, <1>4, <1>5

(* A short that is written in network byte order is read back.             *)
LEMMA DecodeEncode ==
  ASSUME NEW v \in ShortInt
  PROVE  /\ Encode(v) \in Seq(Byte)
         /\ Len(Encode(v)) = 2
         /\ Decode(Encode(v)) = v
<1> DEFINE q == v \div 256
           high == q % 256
           low == v % 256
<1>1. \A i \in Int : i \div 256 \in Int /\ i % 256 \in 0..255 /\ i % 256 = i - 256 * (i \div 256)
  OBVIOUS
<1>2. \A i \in 0..127 : i % 256 = i
  OBVIOUS
<1>3. \A i \in -128..-1 : i % 256 = i + 256
  OBVIOUS
<1>4. v \in Int /\ v >= -32768 /\ v <= 32767
  BY DEF ShortInt
<1>5. q \in Int /\ high \in 0..255 /\ low \in 0..255 /\ low = v - 256 * q
  BY <1>1, <1>4
<1>6. Encode(v) = <<high, low>>
  BY DEF Encode
<1>7. (q \in 0..127 => high = q) /\ (q \in -128..-1 => high = q + 256)
  BY <1>2, <1>3
<1> HIDE DEF q, high, low
<1>8. <<high, low>> \in Seq(Byte) /\ Len(<<high, low>>) = 2 /\ <<high, low>>[1] = high /\ <<high, low>>[2] = low
  BY <1>5 DEF Byte
<1>9. Signed(256 * high + low) = v
  <2>1. CASE v >= 0
    <3>1. q \in 0..127
      BY <1>4, <1>5, <2>1
    <3>2. 256 * high + low = v
      BY <1>4, <1>5, <1>7, <3>1
    <3> QED BY <1>4, <3>2 DEF Signed
  <2>2. CASE v < 0
    <3>1. q \in -128..-1
      BY <1>4, <1>5, <2>2
    <3>2. 256 * high + low = v + 65536
      BY <1>4, <1>5, <1>7, <3>1
    <3> QED BY <1>4, <2>2, <3>2 DEF Signed
  <2> QED BY <1>4, <2>1, <2>2
<1>10. Decode(<<high, low>>) = Signed(256 * high + low)
  BY <1>8, Zenon DEF Decode
<1> QED BY <1>6, <1>8, <1>9, <1>10

\* Whatever the bytes of a head are, they are some short.
LEMMA DecodeType ==
  ASSUME NEW bytes \in Seq(Byte), Len(bytes) = 2
  PROVE  Decode(bytes) \in ShortInt
<1>1. bytes[1] \in Byte /\ bytes[2] \in Byte
  OBVIOUS
<1>2. \A b \in Byte : b \in Int /\ 0 <= b /\ b <= 255
  BY DEF Byte
<1>3. \A high, low \in Int : 0 <= high /\ high <= 255 /\ 0 <= low /\ low <= 255 =>
        256 * high + low \in Int /\ 0 <= 256 * high + low /\ 256 * high + low <= 65535
  OBVIOUS
<1>4. \A n \in Int : 0 <= n /\ n <= 65535 => Signed(n) \in ShortInt
  BY DEF Signed, ShortInt
<1> QED BY <1>1, <1>2, <1>3, <1>4 DEF Decode

-----------------------------------------------------------------------------
(* Heads.                                                                  *)

\* The id and the length are as long, and make up the head.
LEMMA Sizes ==
  /\ HeadIdLen \in Nat /\ HeadTotalLen \in Nat
  /\ HeadTotalLen = HeadIdLen + HeadIdLen /\ HeadIdLen <= HeadTotalLen
  BY DEF HeadIdLen, HeadTotalLen

LEMMA FrameBytes ==
  ASSUME NEW f \in Frames
  PROVE  /\ Bytes(f) \in Seq(Byte)
         /\ f.body \in Seq(Byte)
         /\ Len(Bytes(f)) = HeadTotalLen + Len(f.body)
         /\ \A i \in 1..HeadIdLen : /\ Bytes(f)[i] = Encode(f.id)[i]
                                   /\ Bytes(f)[HeadIdLen + i] = Encode(f.len)[i]
         /\ \A j \in 1..Len(f.body) : Bytes(f)[HeadTotalLen + j] = f.body[j]
<1>1. f.id \in ShortInt /\ f.len \in ShortInt /\ f.body \in Seq(Byte)
  BY HandleReadAssumption DEF Frame
<1>2. /\ Encode(f.id) \in Seq(Byte) /\ Len(Encode(f.id)) = HeadIdLen
      /\ Encode(f.len) \in Seq(Byte) /\ Len(Encode(f.len)) = HeadIdLen
  BY <1>1, DecodeEncode DEF HeadIdLen
<1>3. ASSUME NEW a \in Seq(Byte), Len(a) = HeadIdLen,
             NEW b \in Seq(Byte), Len(b) = HeadIdLen, NEW c \in Seq(Byte)
      PROVE  /\ a \o b \o c \in Seq(Byte)
             /\ Len(a \o b \o c) = HeadTotalLen + Len(c)
             /\ \A i \in 1..HeadIdLen : (a \o b \o c)[i] = a[i] /\ (a \o b \o c)[HeadIdLen + i] = b[i]
             /\ \A j \in 1..Len(c) : (a \o b \o c)[HeadTotalLen + j] = c[j]
  <2>1. /\ a \o b \in Seq(Byte) /\ Len(a \o b) = HeadTotalLen
        /\ \A i \in 1..HeadIdLen : (a \o b)[i] = a[i]
        /\ \A i \in 1..HeadIdLen : (a \o b)[HeadIdLen + i] = b[i]
    <3>1. /\ a \o b \in Seq(Byte) /\ Len(a \o b) = Len(a) + Len(b)
          /\ \A i \in 1..Len(a) : (a \o b)[i] = a[i]
          /\ \A j \in 1..Len(b) : (a \o b)[Len(a) + j] = b[j]
      BY Joined
    <3> QED BY <1>3, <3>1, Sizes
  <2>2. ASSUME NEW ab \in Seq(Byte), Len(ab) = HeadTotalLen
        PROVE  /\ ab \o c \in Seq(Byte) /\ Len(ab \o c) = HeadTotalLen + Len(c)
               /\ \A i \in 1..HeadTotalLen : (ab \o c)[i] = ab[i]
               /\ \A j \in 1..Len(c) : (ab \o c)[HeadTotalLen + j] = c[j]
    <3>1. /\ ab \o c \in Seq(Byte) /\ Len(ab \o c) = Len(ab) + Len(c)
          /\ \A i \in 1..Len(ab) : (ab \o c)[i] = ab[i]
          /\ \A j \in 1..Len(c) : (ab \o c)[Len(ab) + j] = c[j]
      BY Joined
    <3> QED BY <2>2, <3>1
  <2>3. \A i \in 1..HeadIdLen : i \in 1..HeadTotalLen /\ HeadIdLen + i \in 1..HeadTotalLen
    BY Sizes
  <2> QED BY <2>1, <2>2, <2>3
<1>4. Bytes(f) = Encode(f.id) \o Encode(f.len) \o f.body
  BY DEF Bytes
<1> DEFINE x == Encode(f.id)
           y == Encode(f.len)
           z == f.body
<1>5. /\ x \in Seq(Byte) /\ Len(x) = HeadIdLen /\ y \in Seq(Byte) /\ Len(y) = HeadIdLen
      /\ z \in Seq(Byte)
  BY <1>1, <1>2
<1> HIDE DEF x, y, z
<1>6. /\ x \o y \o z \in Seq(Byte)
      /\ Len(x \o y \o z) = HeadTotalLen + Len(z)
      /\ \A i \in 1..HeadIdLen : (x \o y \o z)[i] = x[i] /\ (x \o y \o z)[HeadIdLen + i] = y[i]
      /\ \A j \in 1..Len(z) : (x \o y \o z)[HeadTotalLen + j] = z[j]
  BY <1>3, <1>5
<1> QED BY <1>1, <1>4, <1>6 DEF x, y, z

\* Bytes that begin a frame are read as its id and its length.
LEMMA HeadOfFrame ==
  ASSUME NEW f \in Frames, NEW head \in Seq(Byte), Len(head) = HeadTotalLen,
         \A i \in 1..HeadTotalLen : head[i] = Bytes(f)[i]
  PROVE  /\ Decode(SubSeq(head, 1, HeadIdLen)) = f.id
         /\ Decode(SubSeq(head, HeadIdLen + 1, HeadTotalLen)) = f.len
<1>1. f.id \in ShortInt /\ f.len \in ShortInt
  BY HandleReadAssumption DEF Frame
<1> DEFINE a == SubSeq(head, 1, HeadIdLen)
           b == SubSeq(head, HeadIdLen + 1, HeadTotalLen)
<1>2. /\ Encode(f.id) \in Seq(Byte) /\ Len(Encode(f.id)) = HeadIdLen /\ Decode(Encode(f.id)) = f.id
      /\ Encode(f.len) \in Seq(Byte) /\ Len(Encode(f.len)) = HeadIdLen /\ Decode(Encode(f.len)) = f.len
  BY <1>1, DecodeEncode DEF HeadIdLen
<1>3. a \in Seq(Byte) /\ Len(a) = HeadIdLen /\ \A i \in 1..HeadIdLen : a[i] = head[i]
  BY FirstPart, Sizes
<1>4. HeadTotalLen - HeadIdLen = HeadIdLen
  BY Sizes
<1>5. b \in Seq(Byte) /\ Len(b) = HeadIdLen /\ \A i \in 1..HeadIdLen : b[i] = head[HeadIdLen + i]
  BY <1>4, Slice, Sizes
<1> HIDE DEF a, b
<1>6. ASSUME NEW i \in 1..HeadIdLen PROVE a[i] = Encode(f.id)[i] /\ b[i] = Encode(f.len)[i]
  <2>1. i \in 1..HeadTotalLen /\ HeadIdLen + i \in 1..HeadTotalLen
    BY Sizes
  <2> QED BY <1>3, <1>5, <2>1, FrameBytes
<1>7. a = Encode(f.id) /\ b = Encode(f.len)
  BY <1>2, <1>3, <1>5, <1>6, SeqEqual
<1> QED BY <1>2, <1>7 DEF a, b

\* What an iteration that completes a head works on.
LEMMA HeadFacts ==
  ASSUME TypeInv, BufferInv, AtHead
  PROVE  /\ HeadRemain = HeadTotalLen
         /\ HeadNow \in Seq(Byte) /\ Len(HeadNow) = HeadTotalLen
         /\ \A i \in 1..HeadTotalLen : HeadNow[i] = chunk[i]
         /\ IdNow \in ShortInt /\ LenNow \in ShortInt
         /\ Len(chunk) >= HeadTotalLen
         /\ Rest \in Seq(Byte) /\ Len(Rest) = Len(chunk) - HeadTotalLen
         /\ \A i \in 1..Len(chunk) - HeadTotalLen : Rest[i] = chunk[HeadTotalLen + i]
<1>1. chunk \in Seq(Byte) /\ headData \in Seq(Byte) /\ Len(headData) = HeadTotalLen /\ headCur = 0
  BY DEF TypeInv, BufferInv
<1>2. HeadRemain = HeadTotalLen
  BY <1>1, Sizes DEF HeadRemain
<1>3. Len(chunk) >= HeadTotalLen
  BY <1>2 DEF AtHead
<1> DEFINE part == SubSeq(chunk, 1, HeadTotalLen)
<1>4. /\ part \in Seq(Byte) /\ Len(part) = HeadTotalLen
      /\ \A i \in 1..HeadTotalLen : part[i] = chunk[i]
  BY <1>1, <1>3, FirstPart, Sizes
<1>5. HeadNow = Overwrite(headData, 0, part)
  BY <1>1, <1>2 DEF HeadNow
<1> HIDE DEF part
<1>6. Len(part) <= Len(headData)
  BY <1>1, <1>4, Sizes
<1>7. /\ HeadNow \in Seq(Byte) /\ Len(HeadNow) = HeadTotalLen
      /\ \A i \in 1..HeadTotalLen : HeadNow[i] = chunk[i]
  BY <1>1, <1>4, <1>5, <1>6, OverwriteType
<1> DEFINE a == SubSeq(HeadNow, 1, HeadIdLen)
           b == SubSeq(HeadNow, HeadIdLen + 1, HeadTotalLen)
<1>8. a \in Seq(Byte) /\ Len(a) = HeadIdLen
  BY <1>7, FirstPart, Sizes
<1>9. b \in Seq(Byte) /\ Len(b) = HeadIdLen
  BY <1>7, Slice, Sizes
<1>10. IdNow = Decode(a) /\ LenNow = Decode(b)
  BY DEF IdNow, LenNow
<1> HIDE DEF a, b
<1>11. IdNow \in ShortInt /\ LenNow \in ShortInt
  BY <1>8, <1>9, <1>10, DecodeType DEF HeadIdLen
<1>12. /\ Rest \in Seq(Byte) /\ Len(Rest) = Len(chunk) - HeadTotalLen
       /\ \A i \in 1..Len(chunk) - HeadTotalLen : Rest[i] = chunk[HeadTotalLen + i]
  <2>1. Rest = Drop(chunk, HeadTotalLen)
    BY <1>2 DEF Rest
  <2>2. HeadTotalLen <= Len(chunk)
    BY <1>1, <1>3, Sizes
  <2> QED BY <1>1, <2>1, <2>2, SubSeqProperties, Sizes DEF Drop
<1> QED BY <1>2, <1>3, <1>7, <1>11, <1>12

-----------------------------------------------------------------------------
(* The chunk.                                                              *)

LEMMA ChunkDrop ==
  ASSUME TypeInv, ChunkInv, NEW n \in Nat, n <= Len(chunk), chunk' = Drop(chunk, n),
         UNCHANGED <<stream, received>>
  PROVE  chunk' \in Seq(Byte) /\ Len(chunk') = Len(chunk) - n /\ ChunkInv' /\ Consumed' = Consumed + n
<1>1. chunk \in Seq(Byte) /\ received \in Nat /\ Len(chunk) \in Nat /\ stream \in Seq(Byte)
  BY DEF TypeInv
<1>2. /\ chunk' \in Seq(Byte) /\ Len(chunk') = Len(chunk) - n
      /\ \A i \in 1..Len(chunk) - n : chunk'[i] = chunk[n + i]
  BY <1>1, DropPart
<1>3. Consumed' = Consumed + n /\ Consumed \in Int
  BY <1>1, <1>2 DEF Consumed
<1>4. ASSUME NEW i \in 1..Len(chunk') PROVE chunk'[i] = stream'[Consumed' + i]
  <2>1. i \in 1..Len(chunk) - n /\ n + i \in 1..Len(chunk) /\ Consumed + (n + i) = Consumed' + i
    BY <1>1, <1>2, <1>3
  <2>2. chunk'[i] = chunk[n + i]
    BY <1>2, <2>1
  <2>3. chunk[n + i] = stream[Consumed + (n + i)]
    BY <2>1 DEF ChunkInv
  <2> QED BY <2>1, <2>2, <2>3
<1>5. received' <= Len(stream') /\ Len(chunk') <= received'
  BY <1>1, <1>2 DEF ChunkInv
<1> QED BY <1>2, <1>3, <1>4, <1>5 DEF ChunkInv

LEMMA ChunkDone ==
  ASSUME TypeInv, ChunkInv, chunk' = <<>>, UNCHANGED <<stream, received>>
  PROVE  chunk' \in Seq(Byte) /\ ChunkInv' /\ Consumed' = received
<1>1. received \in Nat /\ chunk' \in Seq(Byte) /\ Len(chunk') = 0
  BY EmptySeq DEF TypeInv
<1>2. Consumed' = received
  BY <1>1 DEF Consumed
<1> QED BY <1>1, <1>2 DEF ChunkInv

\* What follows a message that ends with the next n bytes of the chunk.
LEMMA Continues ==
  ASSUME TypeInv, ChunkInv, NEW n \in Nat, n <= Len(chunk), ContinueWith(Drop(chunk, n)),
         UNCHANGED <<stream, received>>
  PROVE  /\ chunk' \in Seq(Byte) /\ ChunkInv' /\ Consumed' = Consumed + n
         /\ headParse' = FALSE
         /\ reader' = "handling" <=> chunk' # <<>>
         /\ reader' \in {"armed", "handling"}
  BY ChunkDrop DEF ContinueWith

LEMMA ZerosType == Zeros(HeadTotalLen) \in Seq(Byte) /\ Len(Zeros(HeadTotalLen)) = HeadTotalLen
<1>1. \A i \in 1..HeadTotalLen : 0 \in Byte
  BY DEF Byte
<1>2. [i \in 1..HeadTotalLen |-> 0] \in Seq(Byte)
  BY <1>1, Sizes, IsASeq
<1> QED BY <1>2, Sizes, LenProperties DEF Zeros

-----------------------------------------------------------------------------
(* Buffers: no step runs over one.                                         *)

Buffers == TypeInv /\ BufferInv /\ ChunkInv

LEMMA SendBuffers ==
  ASSUME Buffers, NEW f \in Frames, PeerSend(f)
  PROVE  Buffers'
<1>1. stream \in Seq(Byte) /\ Bytes(f) \in Seq(Byte)
  BY FrameBytes DEF Buffers, TypeInv
<1>2. /\ stream' \in Seq(Byte) /\ Len(stream') = Len(stream) + Len(Bytes(f))
      /\ \A i \in 1..Len(stream) : stream'[i] = stream[i]
  BY <1>1, Joined DEF PeerSend
<1>3. received \in Nat /\ Len(chunk) \in Nat /\ Len(stream) \in Nat /\ Len(Bytes(f)) \in Nat
  BY <1>1 DEF Buffers, TypeInv
<1>4. UNCHANGED <<received, chunk>> /\ Consumed' = Consumed /\ Consumed = received - Len(chunk)
  BY DEF PeerSend, Consumed
<1>5. ASSUME NEW i \in 1..Len(chunk) PROVE chunk'[i] = stream'[Consumed' + i]
  <2>1. Consumed + i \in 1..Len(stream)
    BY <1>3, <1>4 DEF Buffers, ChunkInv
  <2> QED BY <1>2, <1>4, <2>1 DEF Buffers, ChunkInv
<1>6. ChunkInv'
  BY <1>2, <1>3, <1>4, <1>5 DEF Buffers, ChunkInv
<1>7. sent \in Seq(Frames) /\ sent' = Append(sent, f)
  BY DEF Buffers, TypeInv, PeerSend
<1>8. sent' \in Seq(Frames)
  BY <1>7, AppendProperties
<1>9. TypeInv' /\ BufferInv'
  BY <1>2, <1>8 DEF Buffers, TypeInv, BufferInv, Overrunning, PeerSend
<1> QED BY <1>6, <1>9 DEF Buffers

LEMMA ReceiveBuffers ==
  ASSUME Buffers, NEW n \in Available, Receive(n)
  PROVE  Buffers' /\ Consumed' = Consumed
<1>1. /\ stream \in Seq(Byte) /\ received \in Nat /\ chunk = <<>> /\ n \in Nat /\ n >= 1
      /\ n <= Len(stream) - received /\ Len(stream) \in Nat
  BY DEF Buffers, TypeInv, BufferInv, Receive, Available
<1> DEFINE m == received + n
<1>2. m \in Nat /\ received <= m /\ m <= Len(stream) /\ m - received = n
  BY <1>1
<1>3. chunk' = SubSeq(stream, received + 1, m) /\ received' = m
  BY DEF Receive
<1> HIDE DEF m
<1>4. /\ chunk' \in Seq(Byte) /\ Len(chunk') = m - received
      /\ \A i \in 1..m - received : chunk'[i] = stream[received + i]
  BY <1>1, <1>2, <1>3, Slice
<1>5. Len(chunk) = 0 /\ Consumed = received /\ Consumed' = received
  BY <1>1, <1>2, <1>3, <1>4 DEF Consumed
<1>6. chunk' # <<>>
  BY <1>1, <1>2, <1>4
<1>7. ChunkInv'
  BY <1>1, <1>2, <1>3, <1>4, <1>5 DEF ChunkInv, Receive
<1>8. TypeInv' /\ BufferInv'
  BY <1>2, <1>3, <1>4, <1>6 DEF Buffers, TypeInv, BufferInv, Overrunning, Receive
<1> QED BY <1>5, <1>7, <1>8 DEF Buffers

LEMMA EndBuffers ==
  ASSUME Buffers, ReadFails \/ HeadInvalid \/ HeadThrows
  PROVE  Buffers'
<1>1. CASE ReadFails
  BY <1>1 DEF Buffers, TypeInv, BufferInv, Overrunning, ChunkInv, Consumed, ReadFails
<1>2. CASE HeadInvalid \/ HeadThrows
  <2>1. /\ AtHead /\ headData' = HeadNow /\ chunk' = <<>> /\ reader' \in {"rejected", "stalled"}
        /\ UNCHANGED <<sent, stream, received, headCur, headParse, node, posted, split>>
    BY <1>2 DEF HeadInvalid, HeadThrows
  <2>2. headData' \in Seq(Byte) /\ Len(headData') = HeadTotalLen
    BY <2>1, HeadFacts DEF Buffers
  <2>3. chunk' \in Seq(Byte) /\ ChunkInv'
    BY <2>1, ChunkDone DEF Buffers
  <2> QED BY <2>1, <2>2, <2>3 DEF Buffers, TypeInv, BufferInv, Overrunning
<1> QED BY <1>1, <1>2

LEMMA HeadShortBuffers ==
  ASSUME Buffers, HeadShort
  PROVE  Buffers'
<1>1. /\ chunk \in Seq(Byte) /\ headData \in Seq(Byte) /\ Len(headData) = HeadTotalLen
      /\ headCur = 0 /\ Len(chunk) \in Nat
  BY DEF Buffers, TypeInv, BufferInv
<1>2. Len(chunk) <= Len(headData) /\ headData' = Overwrite(headData, 0, chunk)
  BY <1>1, Sizes DEF HeadShort
<1>3. headData' \in Seq(Byte) /\ Len(headData') = HeadTotalLen
  BY <1>1, <1>2, OverwriteType
<1>4. chunk' \in Seq(Byte) /\ ChunkInv'
  BY ChunkDone DEF HeadShort, Buffers
<1> QED BY <1>3, <1>4 DEF Buffers, TypeInv, BufferInv, Overrunning, HeadShort

LEMMA HeadThenPartBuffers ==
  ASSUME Buffers, HeadThenPart
  PROVE  Buffers' /\ Consumed' = received
<1>1. AtHead /\ ValidHead(IdNow, LenNow) /\ Len(Rest) < LenNow
  BY DEF HeadThenPart
<1>2. /\ HeadNow \in Seq(Byte) /\ Len(HeadNow) = HeadTotalLen
      /\ IdNow \in ShortInt /\ LenNow \in ShortInt /\ Rest \in Seq(Byte)
  BY <1>1, HeadFacts DEF Buffers
<1>3. chunk' \in Seq(Byte) /\ ChunkInv' /\ Consumed' = received
  BY ChunkDone DEF HeadThenPart, Buffers
<1>4. node' = [id |-> IdNow, len |-> LenNow, body |-> Rest]
  BY DEF HeadThenPart
<1>5. node' \in Frame /\ node'.len = LenNow /\ node'.body = Rest
  BY <1>2, <1>4 DEF Frame
<1>6. LenNow \in Int /\ Len(Rest) \in Nat /\ 0 <= LenNow /\ LenNow <= MaxLength
  BY <1>1, <1>2, HandleReadAssumption DEF ValidHead, ShortInt
<1>7. TypeInv' /\ BufferInv'
  BY <1>1, <1>2, <1>3, <1>5, <1>6 DEF Buffers, TypeInv, BufferInv, Overrunning, HeadThenPart
<1> QED BY <1>3, <1>7 DEF Buffers

\* A length of -1 is put into the node, and nothing else changes that matters.
LEMMA HeadOverrunsBuffers ==
  ASSUME Buffers, HeadOverruns
  PROVE  Buffers' /\ Overrunning'
<1>1. AtHead /\ LenNow = -1
  BY DEF HeadOverruns
<1>2. /\ HeadNow \in Seq(Byte) /\ Len(HeadNow) = HeadTotalLen
      /\ IdNow \in ShortInt /\ LenNow \in ShortInt /\ Rest \in Seq(Byte)
  BY <1>1, HeadFacts DEF Buffers
<1>3. chunk' \in Seq(Byte) /\ ChunkInv'
  BY ChunkDone DEF HeadOverruns, Buffers
<1>4. node' = [id |-> IdNow, len |-> LenNow, body |-> Rest]
  BY DEF HeadOverruns
<1>5. node' \in Frame /\ node'.len = LenNow
  BY <1>2, <1>4 DEF Frame
<1>6. Overrunning' /\ node'.len <= MaxLength
  BY <1>1, <1>5, HandleReadAssumption DEF Overrunning
<1>7. TypeInv' /\ BufferInv'
  BY <1>1, <1>2, <1>3, <1>5, <1>6 DEF Buffers, TypeInv, BufferInv, HeadOverruns, Survives
<1> QED BY <1>3, <1>6, <1>7 DEF Buffers

\* A message is posted whose body is as long as its head says.
LEMMA PostBuffers ==
  ASSUME Buffers, NEW id \in ShortInt, NEW len \in ShortInt, 0 <= len, len <= MaxLength,
         NEW body \in Seq(Byte), Len(body) = len, PostMessage(id, len, body),
         NEW n \in Nat, n <= Len(chunk), ContinueWith(Drop(chunk, n)),
         UNCHANGED <<sent, stream, received, split>>
  PROVE  Buffers' /\ Consumed' = Consumed + n
<1>1. /\ chunk' \in Seq(Byte) /\ ChunkInv' /\ Consumed' = Consumed + n
      /\ headParse' = FALSE /\ (reader' = "handling" <=> chunk' # <<>>)
  BY Continues DEF Buffers
<1>0. reader' # "died"
  BY DEF ContinueWith
<1>2. node' = [id |-> id, len |-> len, body |-> body] /\ node' \in Frame
  BY DEF PostMessage, Frame
<1>3. posted' \in Seq(Frame)
  BY <1>2, AppendProperties DEF PostMessage, Buffers, TypeInv
<1>4. headData' \in Seq(Byte) /\ Len(headData') = HeadTotalLen /\ headCur' = 0
  BY ZerosType DEF PostMessage
<1>5. BufferInv'
  <2>1. len \in Int /\ node'.len = len /\ node'.body = body
    BY <1>2 DEF ShortInt
  <2> QED BY <1>0, <1>1, <1>4, <2>1 DEF BufferInv, Overrunning
<1>6. TypeInv'
  BY <1>1, <1>2, <1>3, <1>4 DEF Buffers, TypeInv
<1> QED BY <1>1, <1>5, <1>6 DEF Buffers

\* The body that follows a head in the same chunk.
LEMMA HeadThenBodyFacts ==
  ASSUME Buffers, HeadThenBody
  PROVE  LET body == SubSeq(Rest, 1, LenNow) IN
         /\ AtHead /\ ValidHead(IdNow, LenNow)
         /\ 0 <= LenNow /\ LenNow <= MaxLength /\ LenNow \in Nat
         /\ body \in Seq(Byte) /\ Len(body) = LenNow
         /\ \A i \in 1..LenNow : body[i] = chunk[HeadTotalLen + i]
         /\ HeadTotalLen + LenNow \in Nat /\ HeadTotalLen + LenNow <= Len(chunk)
         /\ Drop(Rest, LenNow) = Drop(chunk, HeadTotalLen + LenNow)
<1>1. AtHead /\ ValidHead(IdNow, LenNow) /\ LenNow >= 0 /\ Len(Rest) >= LenNow
  BY DEF HeadThenBody
<1>2. /\ LenNow \in ShortInt /\ Rest \in Seq(Byte) /\ Len(Rest) = Len(chunk) - HeadTotalLen
      /\ \A i \in 1..Len(chunk) - HeadTotalLen : Rest[i] = chunk[HeadTotalLen + i]
      /\ chunk \in Seq(Byte)
  BY <1>1, HeadFacts DEF Buffers, TypeInv
<1>3. LenNow \in Nat /\ LenNow <= MaxLength /\ LenNow <= Len(Rest) /\ Len(chunk) \in Nat
  BY <1>1, <1>2 DEF ShortInt, ValidHead
<1> DEFINE n == HeadTotalLen + LenNow
           body == SubSeq(Rest, 1, LenNow)
<1>4. n \in Nat /\ n <= Len(chunk) /\ Len(chunk) - n = Len(Rest) - LenNow
  BY <1>2, <1>3, Sizes
<1>5. /\ body \in Seq(Byte) /\ Len(body) = LenNow
      /\ \A i \in 1..LenNow : body[i] = Rest[i]
  BY <1>2, <1>3, FirstPart
<1>6. \A i \in 1..LenNow : body[i] = chunk[HeadTotalLen + i]
  BY <1>2, <1>3, <1>5, Sizes
<1>7. /\ Drop(Rest, LenNow) \in Seq(Byte) /\ Len(Drop(Rest, LenNow)) = Len(Rest) - LenNow
      /\ \A i \in 1..Len(Rest) - LenNow : Drop(Rest, LenNow)[i] = Rest[LenNow + i]
  <2>1. \A r \in Seq(Byte), k \in Nat : k <= Len(r) =>
          /\ Drop(r, k) \in Seq(Byte) /\ Len(Drop(r, k)) = Len(r) - k
          /\ \A i \in 1..Len(r) - k : Drop(r, k)[i] = r[k + i]
    BY DropPart
  <2> QED BY <1>2, <1>3, <2>1, Zenon
<1> HIDE DEF n
<1>8. /\ Drop(chunk, n) \in Seq(Byte) /\ Len(Drop(chunk, n)) = Len(chunk) - n
      /\ \A i \in 1..Len(chunk) - n : Drop(chunk, n)[i] = chunk[n + i]
  BY <1>2, <1>4, DropPart
<1>9. ASSUME NEW i \in 1..Len(Rest) - LenNow
      PROVE  Drop(Rest, LenNow)[i] = Drop(chunk, n)[i]
  <2>1. LenNow + i \in 1..Len(chunk) - HeadTotalLen /\ HeadTotalLen + (LenNow + i) = n + i
    BY <1>2, <1>3, Sizes DEF n
  <2>2. i \in 1..Len(chunk) - n
    BY <1>4
  <2> QED BY <1>2, <1>7, <1>8, <2>1, <2>2
<1>10. Drop(Rest, LenNow) = Drop(chunk, n)
  BY <1>4, <1>7, <1>8, <1>9, SeqEqual
<1> QED BY <1>1, <1>3, <1>4, <1>5, <1>6, <1>10 DEF n

LEMMA HeadThenBodyBuffers ==
  ASSUME Buffers, HeadThenBody
  PROVE  Buffers' /\ Consumed' = Consumed + (HeadTotalLen + LenNow)
<1> DEFINE n == HeadTotalLen + LenNow
           body == SubSeq(Rest, 1, LenNow)
<1>1. IdNow \in ShortInt /\ LenNow \in ShortInt
  BY HeadFacts DEF HeadThenBody, Buffers
<1>2. /\ 0 <= LenNow /\ LenNow <= MaxLength
      /\ body \in Seq(Byte) /\ Len(body) = LenNow
      /\ n \in Nat /\ n <= Len(chunk) /\ Drop(Rest, LenNow) = Drop(chunk, n)
  BY HeadThenBodyFacts
<1>3. PostMessage(IdNow, LenNow, body) /\ ContinueWith(Drop(chunk, n))
  BY <1>2 DEF HeadThenBody
<1>4. UNCHANGED <<sent, stream, received, split>>
  BY DEF HeadThenBody
<1> HIDE DEF n, body
<1>5. Buffers' /\ Consumed' = Consumed + n
  BY <1>1, <1>2, <1>3, <1>4, PostBuffers
<1> QED BY <1>5 DEF n

LEMMA BodyPartFacts ==
  ASSUME Buffers, NEW part \in Seq(Byte)
  PROVE  /\ node.body \in Seq(Byte) /\ node.id \in ShortInt /\ node.len \in ShortInt
         /\ node.body \o part \in Seq(Byte)
         /\ Len(node.body \o part) = Len(node.body) + Len(part)
         /\ \A i \in 1..Len(node.body) : (node.body \o part)[i] = node.body[i]
         /\ \A i \in 1..Len(part) : (node.body \o part)[Len(node.body) + i] = part[i]
<1>1. node.body \in Seq(Byte) /\ node.id \in ShortInt /\ node.len \in ShortInt
  BY DEF Buffers, TypeInv, Frame
<1> DEFINE b == node.body
<1>2. b \in Seq(Byte)
  BY <1>1
<1> HIDE DEF b
<1>3. /\ b \o part \in Seq(Byte)
      /\ Len(b \o part) = Len(b) + Len(part)
      /\ \A i \in 1..Len(b) : (b \o part)[i] = b[i]
      /\ \A i \in 1..Len(part) : (b \o part)[Len(b) + i] = part[i]
  BY <1>2, Joined
<1> QED BY <1>1, <1>3 DEF b

LEMMA BodyPartBuffers ==
  ASSUME Buffers, BodyPart
  PROVE  Buffers' /\ Consumed' = received
<1>1. chunk \in Seq(Byte) /\ Len(chunk) \in Nat /\ node \in Frame
  BY DEF Buffers, TypeInv
<1>2. /\ node.body \in Seq(Byte) /\ node.len \in ShortInt
      /\ node.body \o chunk \in Seq(Byte)
      /\ Len(node.body \o chunk) = Len(node.body) + Len(chunk)
  BY <1>1, BodyPartFacts
<1>3. /\ node' \in Frame /\ node'.len = node.len /\ node'.id = node.id
      /\ node'.body = node.body \o chunk
  BY <1>1, <1>2 DEF BodyPart, Frame
<1>4. node.len \in Int /\ Len(node.body) \in Nat /\ ~Overrunning
  BY <1>2 DEF ShortInt, BodyPart, Overrunning
<1>5. Len(node'.body) < node'.len
  BY <1>1, <1>2, <1>3, <1>4 DEF BodyPart, BodyRemain
<1>6. chunk' \in Seq(Byte) /\ ChunkInv' /\ Consumed' = received
  BY ChunkDone DEF BodyPart, Buffers
<1>7. BufferInv'
  BY <1>3, <1>4, <1>5, <1>6 DEF BodyPart, Buffers, BufferInv, Overrunning
<1>8. TypeInv'
  BY <1>3, <1>6 DEF BodyPart, Buffers, TypeInv
<1> QED BY <1>6, <1>7, <1>8 DEF Buffers

LEMMA BodyOverrunsBuffers ==
  ASSUME Buffers, BodyOverruns
  PROVE  Buffers' /\ Overrunning'
<1>1. chunk \in Seq(Byte) /\ node \in Frame
  BY DEF Buffers, TypeInv
<1>2. node.body \o chunk \in Seq(Byte)
  BY <1>1, BodyPartFacts
<1>3. node' \in Frame /\ node'.len = node.len
  BY <1>1, <1>2 DEF BodyOverruns, Frame
<1>4. chunk' \in Seq(Byte) /\ ChunkInv'
  BY ChunkDone DEF BodyOverruns, Buffers
<1>5. Overrunning'
  BY <1>3 DEF BodyOverruns, Overrunning
<1>6. BufferInv'
  BY <1>3, <1>4, <1>5 DEF BodyOverruns, Survives, Buffers, BufferInv
<1>7. TypeInv'
  BY <1>3, <1>4 DEF BodyOverruns, Buffers, TypeInv
<1> QED BY <1>4, <1>5, <1>6, <1>7 DEF Buffers

\* The end of a body that began in an earlier chunk.
LEMMA BodyEndFacts ==
  ASSUME Buffers, BodyEnd
  PROVE  LET body == node.body \o SubSeq(chunk, 1, BodyRemain) IN
         /\ node.id \in ShortInt /\ node.len \in ShortInt /\ 0 <= node.len /\ node.len <= MaxLength
         /\ BodyRemain \in Nat /\ BodyRemain <= Len(chunk) /\ Len(node.body) + BodyRemain = node.len
         /\ body \in Seq(Byte) /\ Len(body) = node.len
         /\ \A i \in 1..Len(node.body) : body[i] = node.body[i]
         /\ \A i \in 1..BodyRemain : body[Len(node.body) + i] = chunk[i]
<1>1. chunk \in Seq(Byte) /\ node \in Frame /\ Len(chunk) >= BodyRemain /\ headParse
  BY DEF Buffers, TypeInv, BodyEnd
<1>2. node.id \in ShortInt /\ node.len \in ShortInt /\ node.len \in Int /\ Len(node.body) \in Nat
  BY <1>1 DEF Frame, ShortInt
<1>0. ~Overrunning
  BY <1>2 DEF BodyEnd, Overrunning
<1>3. BodyRemain \in Nat /\ BodyRemain <= Len(chunk) /\ Len(node.body) + BodyRemain = node.len
  BY <1>0, <1>1, <1>2 DEF BodyRemain, Buffers, BufferInv
<1> DEFINE part == SubSeq(chunk, 1, BodyRemain)
<1>4. part \in Seq(Byte) /\ Len(part) = BodyRemain /\ \A i \in 1..BodyRemain : part[i] = chunk[i]
  BY <1>1, <1>3, FirstPart
<1> HIDE DEF part
<1>5. /\ node.body \o part \in Seq(Byte) /\ Len(node.body \o part) = Len(node.body) + Len(part)
      /\ \A i \in 1..Len(node.body) : (node.body \o part)[i] = node.body[i]
      /\ \A i \in 1..Len(part) : (node.body \o part)[Len(node.body) + i] = part[i]
  BY <1>4, BodyPartFacts
<1>6. 0 <= node.len /\ node.len <= MaxLength
  BY <1>0 DEF Buffers, BufferInv
<1> QED BY <1>2, <1>3, <1>4, <1>5, <1>6 DEF part

LEMMA BodyEndBuffers ==
  ASSUME Buffers, BodyEnd
  PROVE  Buffers' /\ Consumed' = Consumed + BodyRemain
<1> DEFINE body == node.body \o SubSeq(chunk, 1, BodyRemain)
<1>1. /\ node.id \in ShortInt /\ node.len \in ShortInt /\ 0 <= node.len /\ node.len <= MaxLength
      /\ BodyRemain \in Nat /\ BodyRemain <= Len(chunk)
      /\ body \in Seq(Byte) /\ Len(body) = node.len
  BY BodyEndFacts
<1>2. /\ PostMessage(node.id, node.len, body) /\ ContinueWith(Drop(chunk, BodyRemain))
      /\ UNCHANGED <<sent, stream, received, split>>
  BY DEF BodyEnd
<1> HIDE DEF body
<1> QED BY <1>1, <1>2, PostBuffers

LEMMA InitBuffers == Init => Buffers
<1> SUFFICES ASSUME Init PROVE Buffers
  OBVIOUS
<1>1. /\ <<>> \in Seq(Frames) /\ <<>> \in Seq(Byte) /\ <<>> \in Seq(Frame) /\ Len(<<>>) = 0
  BY EmptySeq
<1>2. node \in Frame /\ node.len = 0 /\ node.body = <<>>
  BY <1>1 DEF Init, Frame, ShortInt
<1>3. headData \in Seq(Byte) /\ Len(headData) = HeadTotalLen
  BY ZerosType DEF Init
<1>4. TypeInv
  BY <1>1, <1>2, <1>3 DEF Init, TypeInv
<1>5. BufferInv
  BY <1>1, <1>2, HandleReadAssumption DEF Init, BufferInv, Overrunning
<1>6. ChunkInv
  BY <1>1 DEF Init, ChunkInv
<1> QED BY <1>4, <1>5, <1>6 DEF Buffers

LEMMA NextBuffers == Buffers /\ [Next]_vars => Buffers'
<1> SUFFICES ASSUME Buffers, [Next]_vars PROVE Buffers'
  OBVIOUS
<1>1. CASE \E f \in Frames : PeerSend(f)
  BY <1>1, SendBuffers
<1>2. CASE \E n \in Available : Receive(n)
  BY <1>2, ReceiveBuffers
<1>3. CASE ReadFails \/ HeadInvalid \/ HeadThrows
  BY <1>3, EndBuffers
<1>4. CASE HeadShort
  BY <1>4, HeadShortBuffers
<1>5. CASE HeadThenPart
  BY <1>5, HeadThenPartBuffers
<1>6. CASE HeadThenBody
  BY <1>6, HeadThenBodyBuffers
<1>7. CASE BodyPart
  BY <1>7, BodyPartBuffers
<1>8. CASE BodyEnd
  BY <1>8, BodyEndBuffers
<1>9. CASE HeadOverruns \/ BodyOverruns
  BY <1>9, HeadOverrunsBuffers, BodyOverrunsBuffers
<1>10. CASE UNCHANGED vars
  BY <1>10 DEF vars, Buffers, TypeInv, BufferInv, Overrunning, ChunkInv, Consumed
<1> QED BY <1>1, <1>2, <1>3, <1>4, <1>5, <1>6, <1>7, <1>8, <1>9, <1>10 DEF Next, HandleRead

(***************************************************************************)
(* Whatever a peer sends and however it is cut: no copy of HandleRead goes *)
(* over the end of its buffer but behind a head with the length -1, which  *)
(* the parser never gets over; no node is larger than MAX_LENGTH, and the  *)
(* loop ends with the last byte of the chunk.                              *)
(***************************************************************************)
THEOREM BuffersSafe == Spec => []BuffersFit
<1>1. Buffers => BuffersFit
  <2> SUFFICES ASSUME Buffers PROVE BuffersFit
    OBVIOUS
  <2>1. node.len \in Int
    BY DEF Buffers, TypeInv, Frame, ShortInt
  <2>2. headCur \in 0..HeadTotalLen
    BY Sizes DEF Buffers, BufferInv
  <2>3. node.len \in -1..MaxLength
    BY <2>1, HandleReadAssumption DEF Buffers, BufferInv, Overrunning
  <2> QED BY <2>2, <2>3 DEF Buffers, BufferInv, BuffersFit
<1> QED BY <1>1, InitBuffers, NextBuffers, PTL DEF Spec

-----------------------------------------------------------------------------
(* The parser is in step with its peer until a chunk ends inside a head.   *)

Ends == [0..Len(sent) -> Nat]

LEMMA FrameAt ==
  ASSUME TypeInv, NEW ends \in Ends, Layout(ends), NEW k \in Nat, k < Len(sent)
  PROVE  /\ sent[k + 1] \in Frames
         /\ ends[k] \in Nat
         /\ ends[k + 1] = ends[k] + HeadTotalLen + Len(sent[k + 1].body)
         /\ \A j \in 1..HeadTotalLen + Len(sent[k + 1].body) : stream[ends[k] + j] = Bytes(sent[k + 1])[j]
<1>1. sent \in Seq(Frames) /\ Len(sent) \in Nat
  BY DEF TypeInv
<1>2. k + 1 \in 1..Len(sent) /\ k \in 0..Len(sent) /\ (k + 1) - 1 = k
  BY <1>1
<1>3. sent[k + 1] \in Frames
  BY <1>1, <1>2
<1>4. Len(Bytes(sent[k + 1])) = HeadTotalLen + Len(sent[k + 1].body) /\ sent[k + 1].body \in Seq(Byte)
  BY <1>3, FrameBytes
<1>5. ends[k] \in Nat
  BY <1>2 DEF Ends
<1>6. /\ ends[k + 1] = ends[k] + Len(Bytes(sent[k + 1]))
      /\ \A j \in 1..Len(Bytes(sent[k + 1])) : stream[ends[k] + j] = Bytes(sent[k + 1])[j]
  BY <1>2 DEF Layout
<1>7. \A a, b, c \in Nat : a + (b + c) = a + b + c
  OBVIOUS
<1>8. Len(sent[k + 1].body) \in Nat /\ HeadTotalLen \in Nat
  BY <1>4, Sizes
<1>9. ends[k + 1] = ends[k] + HeadTotalLen + Len(sent[k + 1].body)
  BY <1>4, <1>5, <1>6, <1>7, <1>8
<1>10. \A j \in 1..HeadTotalLen + Len(sent[k + 1].body) : stream[ends[k] + j] = Bytes(sent[k + 1])[j]
  BY <1>4, <1>6
<1> QED BY <1>3, <1>5, <1>9, <1>10

LEMMA HeadInStep ==
  ASSUME Buffers, PostedInv, NEW ends \in Ends, Layout(ends), InStep(ends), AtHead, ~split
  PROVE  LET f == sent[Len(posted) + 1] IN
         /\ Len(posted) < Len(sent) /\ f \in Frames
         /\ Consumed = ends[Len(posted)]
         /\ IdNow = f.id /\ LenNow = f.len
         /\ \A j \in 1..Len(Rest) : j <= Len(f.body) => Rest[j] = f.body[j]
<1> DEFINE k == Len(posted)
           f == sent[k + 1]
<1>1. /\ k \in Nat /\ Len(sent) \in Nat /\ k <= Len(sent) /\ Consumed = ends[k]
      /\ Len(chunk) \in Nat /\ received \in Nat /\ Len(stream) \in Nat
  BY DEF Buffers, TypeInv, BufferInv, PostedInv, InStep, AtHead
<1>2. /\ HeadNow \in Seq(Byte) /\ Len(HeadNow) = HeadTotalLen
      /\ \A i \in 1..HeadTotalLen : HeadNow[i] = chunk[i]
      /\ Len(chunk) >= HeadTotalLen
      /\ Rest \in Seq(Byte) /\ Len(Rest) = Len(chunk) - HeadTotalLen
      /\ \A i \in 1..Len(chunk) - HeadTotalLen : Rest[i] = chunk[HeadTotalLen + i]
  BY HeadFacts DEF Buffers
<1>3. Consumed < Len(stream)
  <2>1. HeadTotalLen > 0
    BY DEF HeadTotalLen
  <2>2. Consumed = received - Len(chunk) /\ received <= Len(stream)
    BY DEF Consumed, Buffers, ChunkInv
  <2> QED BY <1>1, <1>2, <2>1, <2>2, Sizes
<1>4. k # Len(sent)
  BY <1>1, <1>3 DEF Layout
<1>5. k < Len(sent)
  BY <1>1, <1>4
<1>6. /\ f \in Frames /\ ends[k] \in Nat
      /\ \A j \in 1..HeadTotalLen + Len(f.body) : stream[ends[k] + j] = Bytes(f)[j]
  BY <1>1, <1>5, FrameAt DEF Buffers
<1>7. \A i \in 1..Len(chunk) : chunk[i] = stream[ends[k] + i]
  BY <1>1 DEF Buffers, ChunkInv
<1> HIDE DEF k, f
<1>8. f.body \in Seq(Byte) /\ Len(f.body) \in Nat
      /\ \A j \in 1..Len(f.body) : Bytes(f)[HeadTotalLen + j] = f.body[j]
  BY <1>6, FrameBytes
<1>9. ASSUME NEW i \in 1..HeadTotalLen PROVE HeadNow[i] = Bytes(f)[i]
  <2>1. i \in 1..Len(chunk) /\ i \in 1..HeadTotalLen + Len(f.body)
    <3>1. \A h, c, b \in Nat : h <= c => \A n \in 1..h : n \in 1..c /\ n \in 1..h + b
      OBVIOUS
    <3>2. HeadTotalLen \in Nat /\ HeadTotalLen <= Len(chunk)
      BY <1>1, <1>2, Sizes
    <3> QED BY <1>1, <1>8, <3>1, <3>2
  <2> QED BY <1>2, <1>6, <1>7, <2>1
<1>10. IdNow = f.id /\ LenNow = f.len
  BY <1>2, <1>6, <1>9, HeadOfFrame DEF IdNow, LenNow
<1>11. ASSUME NEW j \in 1..Len(Rest), j <= Len(f.body) PROVE Rest[j] = f.body[j]
  <2>1. /\ HeadTotalLen + j \in 1..Len(chunk) /\ HeadTotalLen + j \in 1..HeadTotalLen + Len(f.body)
        /\ j \in 1..Len(chunk) - HeadTotalLen /\ j \in 1..Len(f.body)
    BY <1>1, <1>2, <1>8, <1>11, Sizes
  <2> QED BY <1>2, <1>6, <1>7, <1>8, <2>1
<1> QED BY <1>1, <1>5, <1>6, <1>10, <1>11 DEF k, f

LEMMA BodyInStep ==
  ASSUME Buffers, PostedInv, NEW ends \in Ends, Layout(ends), InStep(ends),
         reader = "handling", headParse, ~split, ~Overrunning
  PROVE  LET f == sent[Len(posted) + 1] IN
         /\ Len(posted) < Len(sent) /\ f \in Frames
         /\ ValidHead(f.id, f.len) /\ 0 <= f.len /\ Len(f.body) = f.len
         /\ node.id = f.id /\ node.len = f.len
         /\ Consumed = ends[Len(posted)] + HeadTotalLen + Len(node.body)
         /\ \A j \in 1..Len(node.body) : node.body[j] = f.body[j]
         /\ \A j \in 1..Len(chunk) : Len(node.body) + j <= f.len => chunk[j] = f.body[Len(node.body) + j]
<1> DEFINE k == Len(posted)
           f == sent[k + 1]
<1>1. /\ k < Len(sent) /\ ValidHead(f.id, f.len) /\ 0 <= f.len
      /\ node.id = f.id /\ node.len = f.len
      /\ Consumed = ends[k] + HeadTotalLen + Len(node.body)
      /\ \A j \in 1..Len(node.body) : node.body[j] = f.body[j]
  BY DEF InStep
<1>2. k \in Nat /\ Len(chunk) \in Nat /\ node.body \in Seq(Byte) /\ Len(node.body) \in Nat
  BY DEF Buffers, TypeInv, Frame
<1>3. /\ f \in Frames /\ ends[k] \in Nat
      /\ \A j \in 1..HeadTotalLen + Len(f.body) : stream[ends[k] + j] = Bytes(f)[j]
  BY <1>1, <1>2, FrameAt DEF Buffers
<1>4. \A i \in 1..Len(chunk) : chunk[i] = stream[Consumed + i]
  BY DEF Buffers, ChunkInv
<1> HIDE DEF k, f
<1>5. f.len \in Int
  BY <1>3, HandleReadAssumption DEF Frame, ShortInt
<1>6. f.len \in 0..MaxLength
  BY <1>1, <1>5, HandleReadAssumption DEF ValidHead
<1>7. Len(f.body) = f.len
  BY <1>3, <1>6, HandleReadAssumption
<1>8. \A j \in 1..Len(f.body) : Bytes(f)[HeadTotalLen + j] = f.body[j]
  BY <1>3, FrameBytes
<1>9. ASSUME NEW j \in 1..Len(chunk), Len(node.body) + j <= f.len
      PROVE  chunk[j] = f.body[Len(node.body) + j]
  <2> DEFINE m == Len(node.body) + j
  <2>1. m \in 1..Len(f.body) /\ HeadTotalLen + m \in 1..HeadTotalLen + Len(f.body)
    <3>1. \A h, b, i, l \in Nat : b + i <= l /\ i >= 1 => b + i \in 1..l /\ h + (b + i) \in 1..h + l
      OBVIOUS
    <3>2. j \in Nat /\ j >= 1 /\ HeadTotalLen \in Nat /\ Len(f.body) \in Nat
      BY <1>2, <1>6, <1>7, Sizes
    <3> QED BY <1>2, <1>7, <1>9, <3>1, <3>2
  <2>2. Consumed + j = ends[k] + (HeadTotalLen + m)
    <3>1. \A e, h, b, i \in Nat : (e + h + b) + i = e + (h + (b + i))
      OBVIOUS
    <3>2. j \in Nat /\ HeadTotalLen \in Nat
      BY <1>2, Sizes
    <3> QED BY <1>1, <1>2, <1>3, <3>1, <3>2
  <2>3. chunk[j] = stream[Consumed + j]
    BY <1>4
  <2> HIDE DEF m
  <2>4. chunk[j] = f.body[m]
    BY <1>3, <1>8, <2>1, <2>2, <2>3
  <2> QED BY <2>4 DEF m
<1> QED BY <1>1, <1>3, <1>7, <1>9 DEF k, f

-----------------------------------------------------------------------------
(* The steps keep it so.                                                   *)

LEMMA SameLayout ==
  ASSUME NEW ends \in Ends, Layout(ends), UNCHANGED <<sent, stream>>, PostedInv', InStep(ends)'
  PROVE  StreamInv'
<1>1. ends \in Ends' /\ Layout(ends)'
  BY DEF Ends, Layout
<1> QED BY <1>1 DEF StreamInv, Ends

\* A frame more is a part of the stream more.
LEMMA SendStream ==
  ASSUME Buffers, PostedInv, NEW ends \in Ends, Layout(ends), InStep(ends),
         NEW f \in Frames, PeerSend(f)
  PROVE  StreamInv'
<1> DEFINE n == Len(sent)
<1>0. PICK more : more = [i \in 0..n + 1 |-> IF i <= n THEN ends[i] ELSE Len(stream) + Len(Bytes(f))]
  OBVIOUS
<1>1. /\ sent \in Seq(Frames) /\ n \in Nat /\ stream \in Seq(Byte) /\ Len(stream) \in Nat
      /\ Bytes(f) \in Seq(Byte) /\ Len(Bytes(f)) \in Nat /\ Len(posted) \in Nat
  BY FrameBytes DEF Buffers, TypeInv
<1>2. /\ sent' = Append(sent, f) /\ Len(sent') = n + 1 /\ sent'[n + 1] = f
      /\ \A i \in 1..n : sent'[i] = sent[i]
  BY <1>1, AppendProperties DEF PeerSend
<1>3. /\ Len(stream') = Len(stream) + Len(Bytes(f))
      /\ \A i \in 1..Len(stream) : stream'[i] = stream[i]
      /\ \A i \in 1..Len(Bytes(f)) : stream'[Len(stream) + i] = Bytes(f)[i]
  BY <1>1, Joined DEF PeerSend
<1>4. \A i \in 0..n : ends[i] \in Nat
  BY DEF Ends
<1>5. more \in Ends'
  BY <1>0, <1>1, <1>2, <1>4 DEF Ends
<1>6. (\A i \in 0..n : more[i] = ends[i]) /\ more[n + 1] = Len(stream')
  BY <1>0, <1>1, <1>3
<1> HIDE DEF n
<1>7. more[0] = 0 /\ more[Len(sent')] = Len(stream')
  BY <1>1, <1>2, <1>6 DEF Layout
<1>8. ASSUME NEW i \in 1..Len(sent')
      PROVE  /\ more[i] = more[i - 1] + Len(Bytes(sent'[i]))
             /\ more[i] <= Len(stream')
             /\ \A j \in 1..Len(Bytes(sent'[i])) : stream'[more[i - 1] + j] = Bytes(sent'[i])[j]
  <2>1. CASE i \in 1..n
    <3>1. i \in 0..n /\ i - 1 \in 0..n
      BY <1>1, <2>1
    <3>2. /\ ends[i] = ends[i - 1] + Len(Bytes(sent[i])) /\ ends[i] <= Len(stream)
          /\ \A j \in 1..Len(Bytes(sent[i])) : stream[ends[i - 1] + j] = Bytes(sent[i])[j]
      BY <2>1 DEF Layout, n
    <3>3. more[i] = ends[i] /\ more[i - 1] = ends[i - 1] /\ sent'[i] = sent[i] /\ sent[i] \in Frames
      BY <1>1, <1>2, <1>6, <2>1, <3>1 DEF n
    <3>4. Len(Bytes(sent[i])) \in Nat /\ ends[i - 1] \in Nat /\ ends[i] \in Nat
      BY <1>4, <3>1, <3>3, FrameBytes
    <3>5. ASSUME NEW j \in 1..Len(Bytes(sent[i])) PROVE stream'[ends[i - 1] + j] = Bytes(sent[i])[j]
      <4>1. \A a, b, c \in Nat, e \in Nat : e = a + b /\ e <= c => \A m \in 1..b : a + m \in 1..c
        OBVIOUS
      <4>2. ends[i - 1] + j \in 1..Len(stream)
        BY <1>1, <3>2, <3>4, <4>1
      <4> QED BY <1>3, <3>2, <4>2
    <3>6. ends[i] <= Len(stream')
      BY <1>1, <1>3, <3>2, <3>4
    <3> QED BY <3>2, <3>3, <3>5, <3>6
  <2>2. CASE i = n + 1
    <3>1. i - 1 = n /\ n \in 0..n
      BY <1>1, <2>2
    <3>2. more[i - 1] = Len(stream) /\ more[i] = Len(stream') /\ sent'[i] = f
      BY <1>2, <1>6, <2>2, <3>1 DEF Layout, n
    <3> QED BY <1>1, <1>3, <3>2
  <2>3. \A l \in Nat : \A m \in 1..l + 1 : m \in 1..l \/ m = l + 1
    OBVIOUS
  <2> QED BY <1>1, <1>2, <2>1, <2>2, <2>3
<1>9. Layout(more)'
  BY <1>7, <1>8 DEF Layout
<1>10. PostedInv'
  BY <1>1, <1>2 DEF PostedInv, PeerSend, n
<1>11. ASSUME ~split PROVE Len(posted) \in 0..n /\ more[Len(posted)] = ends[Len(posted)]
  BY <1>1, <1>6, <1>11 DEF PostedInv, n
<1>12. ASSUME Len(posted) < n PROVE sent'[Len(posted) + 1] = sent[Len(posted) + 1]
  BY <1>1, <1>2, <1>12
<1>13. UNCHANGED <<split, reader, headParse, posted, node, received, chunk>> /\ Consumed' = Consumed
  BY DEF PeerSend, Consumed
<1>14. InStep(more)'
  <2> SUFFICES ASSUME ~split, ~Overrunning, reader \in {"armed", "handling"}
               PROVE  /\ ~headParse => Consumed = more[Len(posted)]
                      /\ headParse =>
                           LET g == sent'[Len(posted) + 1] IN
                           /\ Len(posted) < Len(sent')
                           /\ ValidHead(g.id, g.len) /\ 0 <= g.len
                           /\ node.id = g.id /\ node.len = g.len
                           /\ Consumed = more[Len(posted)] + HeadTotalLen + Len(node.body)
                           /\ \A j \in 1..Len(node.body) : node.body[j] = g.body[j]
    BY <1>13 DEF InStep, Overrunning
  <2>1. ~headParse => Consumed = more[Len(posted)]
    BY <1>11 DEF InStep
  <2>2. ASSUME headParse PROVE Len(posted) < n
    BY <2>2 DEF InStep, n
  <2>3. n < Len(sent')
    BY <1>1, <1>2
  <2> QED BY <1>1, <1>2, <1>11, <1>12, <2>1, <2>2, <2>3 DEF InStep
<1> QED BY <1>5, <1>9, <1>10, <1>14 DEF StreamInv, Ends

\* The frame the parser is at becomes a message.
LEMMA PostStream ==
  ASSUME Buffers, PostedInv, NEW ends \in Ends, Layout(ends), ~split, Len(posted) < Len(sent),
         posted' = Append(posted, sent[Len(posted) + 1]), headParse' = FALSE,
         Consumed' = ends[Len(posted)] + HeadTotalLen + Len(sent[Len(posted) + 1].body),
         UNCHANGED <<sent, stream>>
  PROVE  StreamInv'
<1> DEFINE k == Len(posted)
<1>1. k \in Nat /\ posted \in Seq(Frame) /\ Len(sent) \in Nat
  BY DEF Buffers, TypeInv
<1>2. sent[k + 1] \in Frame /\ ends[k + 1] = Consumed'
  BY <1>1, FrameAt, HandleReadAssumption DEF Buffers
<1>3. Len(posted') = k + 1 /\ posted'[k + 1] = sent[k + 1] /\ \A i \in 1..k : posted'[i] = posted[i]
  BY <1>1, <1>2, AppendProperties
<1>4. PostedInv'
  BY <1>1, <1>3 DEF PostedInv
<1>5. InStep(ends)'
  BY <1>2, <1>3 DEF InStep
<1> QED BY <1>4, <1>5, SameLayout

\* Its record is put together from what has been read.
LEMMA PostedFrame ==
  ASSUME NEW f \in Frames, NEW body, body = f.body
  PROVE  [id |-> f.id, len |-> f.len, body |-> body] = f
  BY HandleReadAssumption DEF Frame

\* What a step does that posts a message while the parser is in step.
Posts(ends) ==
  LET f == sent[Len(posted) + 1] IN
  /\ Len(posted) < Len(sent)
  /\ f \in Frames /\ ValidHead(f.id, f.len) /\ 0 <= f.len
  /\ posted' = Append(posted, f)
  /\ headParse' = FALSE
  /\ Consumed' = ends[Len(posted)] + HeadTotalLen + Len(f.body)
  /\ UNCHANGED <<sent, stream, split>>

LEMMA HeadThenBodyPosts ==
  ASSUME Buffers, PostedInv, NEW ends \in Ends, Layout(ends), InStep(ends), ~split, HeadThenBody
  PROVE  Posts(ends)
<1> DEFINE f == sent[Len(posted) + 1]
           body == SubSeq(Rest, 1, LenNow)
<1>1. /\ AtHead /\ ValidHead(IdNow, LenNow) /\ 0 <= LenNow /\ LenNow <= MaxLength /\ LenNow \in Nat
      /\ body \in Seq(Byte) /\ Len(body) = LenNow
  BY HeadThenBodyFacts
<1>2. /\ Len(posted) < Len(sent) /\ f \in Frames /\ Consumed = ends[Len(posted)]
      /\ IdNow = f.id /\ LenNow = f.len
      /\ \A j \in 1..Len(Rest) : j <= Len(f.body) => Rest[j] = f.body[j]
  BY <1>1, HeadInStep
<1>3. Len(f.body) = f.len /\ f.body \in Seq(Byte)
  BY <1>1, <1>2, HandleReadAssumption DEF Frame
<1>4. Rest \in Seq(Byte) /\ Len(Rest) >= LenNow
  BY <1>1, HeadFacts DEF Buffers, HeadThenBody
<1> HIDE DEF f
<1>5. \A j \in 1..LenNow : body[j] = f.body[j]
  <2>1. \A j \in 1..LenNow : body[j] = Rest[j]
    BY <1>1, <1>4, FirstPart
  <2>2. LenNow \in Nat /\ LenNow = Len(f.body) /\ Len(Rest) \in Nat /\ LenNow <= Len(Rest)
    BY <1>1, <1>2, <1>3, <1>4
  <2>3. \A j \in 1..LenNow : j \in 1..Len(Rest) /\ j <= Len(f.body)
    BY <2>2
  <2>4. \A j \in 1..Len(Rest) : j <= Len(f.body) => Rest[j] = f.body[j]
    BY <1>2
  <2> HIDE DEF body
  <2> QED BY <2>1, <2>3, <2>4, Zenon
<1> HIDE DEF body
<1>6. body = f.body
  BY <1>1, <1>2, <1>3, <1>5, SeqEqual
<1>7. posted' = Append(posted, [id |-> IdNow, len |-> LenNow, body |-> body])
  BY DEF HeadThenBody, PostMessage, body
<1>8. [id |-> f.id, len |-> f.len, body |-> body] = f
  BY <1>2, <1>6, PostedFrame
<1>9. posted' = Append(posted, f)
  BY <1>2, <1>7, <1>8
<1>10. Consumed' = Consumed + (HeadTotalLen + LenNow)
  BY HeadThenBodyBuffers
<1>11. Consumed' = ends[Len(posted)] + HeadTotalLen + Len(f.body)
  <2>1. Len(posted) \in Nat /\ Len(posted) \in 0..Len(sent)
    BY <1>2 DEF Buffers, TypeInv
  <2>2. ends[Len(posted)] \in Nat
    BY <2>1 DEF Ends
  <2>3. \A a, b, c \in Nat : a + (b + c) = a + b + c
    OBVIOUS
  <2>4. Consumed' = ends[Len(posted)] + (HeadTotalLen + LenNow)
    BY <1>2, <1>10
  <2>5. LenNow \in Nat /\ LenNow = Len(f.body)
    BY <1>1, <1>2, <1>3
  <2>6. HeadTotalLen \in Nat
    BY Sizes
  <2>7. Consumed' = ends[Len(posted)] + HeadTotalLen + LenNow
    BY <2>2, <2>3, <2>4, <2>5, <2>6
  <2> QED BY <2>5, <2>7
<1> QED BY <1>1, <1>2, <1>9, <1>11 DEF Posts, HeadThenBody, ContinueWith, f

LEMMA BodyEndPosts ==
  ASSUME Buffers, PostedInv, NEW ends \in Ends, Layout(ends), InStep(ends), ~split, BodyEnd
  PROVE  Posts(ends)
<1> DEFINE f == sent[Len(posted) + 1]
           body == node.body \o SubSeq(chunk, 1, BodyRemain)
<1>1. reader = "handling" /\ headParse /\ ~Overrunning
  <2>1. node.len \in Int
    BY DEF Buffers, TypeInv, Frame, ShortInt
  <2> QED BY <2>1 DEF BodyEnd, Overrunning
<1>2. /\ Len(posted) < Len(sent) /\ f \in Frames
      /\ ValidHead(f.id, f.len) /\ 0 <= f.len /\ Len(f.body) = f.len
      /\ node.id = f.id /\ node.len = f.len
      /\ Consumed = ends[Len(posted)] + HeadTotalLen + Len(node.body)
      /\ \A j \in 1..Len(node.body) : node.body[j] = f.body[j]
      /\ \A j \in 1..Len(chunk) : Len(node.body) + j <= f.len => chunk[j] = f.body[Len(node.body) + j]
  BY <1>1, BodyInStep
<1>3. /\ BodyRemain \in Nat /\ BodyRemain <= Len(chunk) /\ Len(node.body) + BodyRemain = node.len
      /\ body \in Seq(Byte) /\ Len(body) = node.len
      /\ \A i \in 1..Len(node.body) : body[i] = node.body[i]
      /\ \A i \in 1..BodyRemain : body[Len(node.body) + i] = chunk[i]
  BY BodyEndFacts
<1>4. f.body \in Seq(Byte) /\ Len(node.body) \in Nat /\ Len(chunk) \in Nat
  BY <1>2, HandleReadAssumption DEF Frame, Buffers, TypeInv
<1>5. posted' = Append(posted, [id |-> node.id, len |-> node.len, body |-> body])
  BY DEF BodyEnd, PostMessage
<1> HIDE DEF f, body
<1>6. ASSUME NEW j \in 1..Len(body) PROVE body[j] = f.body[j]
  <2>1. CASE j <= Len(node.body)
    BY <1>2, <1>3, <1>4, <2>1
  <2>2. CASE ~(j <= Len(node.body))
    <3> DEFINE i == j - Len(node.body)
    <3>1. \A a, r, l \in Nat : a + r = l => \A m \in 1..l : ~(m <= a) =>
            m - a \in 1..r /\ a + (m - a) = m /\ m <= l
      OBVIOUS
    <3>2. i \in 1..BodyRemain /\ Len(node.body) + i = j /\ j <= f.len
      BY <1>2, <1>3, <1>4, <2>2, <3>1
    <3> HIDE DEF i
    <3>3. i \in 1..Len(chunk)
      BY <1>3, <1>4, <3>2
    <3> QED BY <1>2, <1>3, <3>2, <3>3
  <2> QED BY <2>1, <2>2
<1>7. body = f.body
  <2>1. Len(body) = Len(f.body) /\ body \in Seq(Byte)
    BY <1>2, <1>3
  <2> QED BY <1>4, <1>6, <2>1, SeqEqual
<1>8. [id |-> f.id, len |-> f.len, body |-> body] = f
  BY <1>2, <1>7, PostedFrame
<1>9. posted' = Append(posted, f)
  BY <1>2, <1>5, <1>8
<1>10. Consumed' = Consumed + BodyRemain
  BY BodyEndBuffers
<1>11. Consumed' = ends[Len(posted)] + HeadTotalLen + Len(f.body)
  <2>1. Len(posted) \in Nat /\ Len(posted) \in 0..Len(sent)
    BY <1>2 DEF Buffers, TypeInv
  <2>2. ends[Len(posted)] \in Nat
    BY <2>1 DEF Ends
  <2>3. \A a, b, c, d \in Nat : (a + b + c) + d = a + b + (c + d)
    OBVIOUS
  <2> QED BY <1>2, <1>3, <1>4, <1>10, <2>2, <2>3, Sizes
<1> QED BY <1>2, <1>9, <1>11 DEF Posts, BodyEnd, ContinueWith, f

\* Steps within a chunk that do not end a message.
LEMMA PartStream ==
  ASSUME Buffers, PostedInv, NEW ends \in Ends, Layout(ends), InStep(ends),
         HeadThenPart \/ BodyPart
  PROVE  StreamInv'
<1>1. UNCHANGED <<sent, stream, posted, split, received>> /\ headParse'
  BY DEF HeadThenPart, BodyPart
<1>2. PostedInv'
  BY <1>1 DEF PostedInv
<1> DEFINE f == sent[Len(posted) + 1]
<1>3. ASSUME ~split
      PROVE  /\ Len(posted) < Len(sent) /\ ValidHead(f.id, f.len) /\ 0 <= f.len
             /\ node'.id = f.id /\ node'.len = f.len
             /\ Consumed' = ends[Len(posted)] + HeadTotalLen + Len(node'.body)
             /\ \A j \in 1..Len(node'.body) : node'.body[j] = f.body[j]
  <2>0. Len(chunk) \in Nat /\ received \in Nat /\ Len(posted) \in Nat /\ Len(sent) \in Nat
    BY DEF Buffers, TypeInv
  <2>1. CASE HeadThenPart
    <3>1. AtHead /\ ValidHead(IdNow, LenNow) /\ Len(Rest) < LenNow
          /\ node' = [id |-> IdNow, len |-> LenNow, body |-> Rest]
      BY <2>1 DEF HeadThenPart
    <3>2. /\ Len(posted) < Len(sent) /\ f \in Frames /\ Consumed = ends[Len(posted)]
          /\ IdNow = f.id /\ LenNow = f.len
          /\ \A j \in 1..Len(Rest) : j <= Len(f.body) => Rest[j] = f.body[j]
      BY <1>3, <3>1, HeadInStep
    <3>3. Rest \in Seq(Byte) /\ Len(Rest) \in Nat /\ Len(Rest) = Len(chunk) - HeadTotalLen
          /\ LenNow \in Int
      BY <3>1, HeadFacts DEF Buffers, ShortInt
    <3>4. LenNow \in 0..MaxLength
      BY <3>1, <3>3, HandleReadAssumption DEF ValidHead
    <3>5. Len(f.body) = LenNow
      BY <3>2, <3>4, HandleReadAssumption
    <3>6. Consumed' = received
      BY <2>1, HeadThenPartBuffers
    <3>7. Consumed' = ends[Len(posted)] + HeadTotalLen + Len(Rest)
      BY <2>0, <3>2, <3>3, <3>6, Sizes DEF Consumed
    <3>8. \A j \in 1..Len(Rest) : Rest[j] = f.body[j]
      BY <3>1, <3>2, <3>3, <3>5
    <3> QED BY <3>1, <3>2, <3>4, <3>7, <3>8
  <2>2. CASE BodyPart
    <3>0. node.len \in Int
      BY DEF Buffers, TypeInv, Frame, ShortInt
    <3>1. reader = "handling" /\ headParse /\ Len(chunk) < BodyRemain /\ ~Overrunning
      BY <2>2, <3>0 DEF BodyPart, Overrunning
    <3>2. /\ Len(posted) < Len(sent) /\ f \in Frames
          /\ ValidHead(f.id, f.len) /\ 0 <= f.len /\ Len(f.body) = f.len
          /\ node.id = f.id /\ node.len = f.len
          /\ Consumed = ends[Len(posted)] + HeadTotalLen + Len(node.body)
          /\ \A j \in 1..Len(node.body) : node.body[j] = f.body[j]
          /\ \A j \in 1..Len(chunk) : Len(node.body) + j <= f.len => chunk[j] = f.body[Len(node.body) + j]
      BY <1>3, <3>1, BodyInStep
    <3>3. /\ node.body \in Seq(Byte) /\ Len(node.body) \in Nat /\ node \in Frame
          /\ Len(node.body \o chunk) = Len(node.body) + Len(chunk)
          /\ \A i \in 1..Len(node.body) : (node.body \o chunk)[i] = node.body[i]
          /\ \A i \in 1..Len(chunk) : (node.body \o chunk)[Len(node.body) + i] = chunk[i]
      BY BodyPartFacts DEF Buffers, TypeInv, Frame
    <3>4. /\ node'.id = node.id /\ node'.len = node.len /\ node'.body = node.body \o chunk
      BY <2>2, <3>3 DEF BodyPart, Frame
    <3>5. f.len \in Int
      BY <3>2, HandleReadAssumption DEF Frame, ShortInt
    <3>6. Consumed' = received
      BY <2>2, BodyPartBuffers
    <3>7. Len(posted) \in 0..Len(sent)
      BY <2>0, <3>2
    <3>8. ends[Len(posted)] \in Nat
      BY <3>7 DEF Ends
    <3>9. Consumed' = ends[Len(posted)] + HeadTotalLen + Len(node'.body)
      <4> DEFINE e == ends[Len(posted)]
                 b == Len(node.body)
                 c == Len(chunk)
      <4>1. e \in Nat /\ b \in Nat /\ c \in Nat /\ received \in Nat /\ HeadTotalLen \in Nat
        BY <2>0, <3>3, <3>8, Sizes
      <4>2. received - c = e + HeadTotalLen + b
        BY <3>2 DEF Consumed
      <4> HIDE DEF e, b, c
      <4>3. received = e + HeadTotalLen + (b + c)
        BY <4>1, <4>2
      <4>4. received = ends[Len(posted)] + HeadTotalLen + (Len(node.body) + Len(chunk))
        BY <4>3 DEF e, b, c
      <4> QED BY <3>3, <3>4, <3>6, <4>4
    <3>10. ASSUME NEW j \in 1..Len(node'.body) PROVE node'.body[j] = f.body[j]
      <4> DEFINE i == j - Len(node.body)
      <4>1. \A b, c \in Nat : \A m \in 1..b + c :
              m \in 1..b \/ (m - b \in 1..c /\ b + (m - b) = m /\ m <= b + c)
        OBVIOUS
      <4>2. j \in 1..Len(node.body) \/ (i \in 1..Len(chunk) /\ Len(node.body) + i = j)
        BY <2>0, <3>3, <3>4, <4>1
      <4> HIDE DEF i
      <4>3. ASSUME i \in 1..Len(chunk) PROVE Len(node.body) + i <= f.len
        BY <2>0, <3>1, <3>2, <3>3, <3>5, <4>3 DEF BodyRemain
      <4> QED BY <3>2, <3>3, <3>4, <4>2, <4>3
    <3> QED BY <3>2, <3>4, <3>9, <3>10
  <2> QED BY <2>1, <2>2
<1> HIDE DEF f
<1>4. InStep(ends)'
  BY <1>1, <1>3 DEF InStep, f
<1> QED BY <1>1, <1>2, <1>4, SameLayout

LEMMA InitStream == Init => StreamInv
<1> SUFFICES ASSUME Init PROVE StreamInv
  OBVIOUS
<1>1. Len(sent) = 0 /\ Len(stream) = 0 /\ Len(posted) = 0 /\ Len(chunk) = 0
  BY EmptySeq DEF Init
<1>2. PostedInv
  BY <1>1 DEF PostedInv
<1> DEFINE none == [i \in 0..0 |-> 0]
<1>3. none \in [0..Len(sent) -> Nat] /\ none[0] = 0
  BY <1>1
<1> HIDE DEF none
<1>4. Layout(none)
  BY <1>1, <1>3 DEF Layout
<1>5. InStep(none)
  BY <1>1, <1>3 DEF InStep, Consumed, Init
<1> QED BY <1>2, <1>3, <1>4, <1>5 DEF StreamInv

LEMMA NextStream == Buffers /\ StreamInv /\ [Next]_vars => StreamInv'
<1> SUFFICES ASSUME Buffers, StreamInv, [Next]_vars PROVE StreamInv'
  OBVIOUS
<1>1. PICK ends \in Ends : Layout(ends) /\ InStep(ends)
  BY DEF StreamInv, Ends
<1>2. PostedInv
  BY DEF StreamInv
<1>3. CASE \E f \in Frames : PeerSend(f)
  BY <1>1, <1>2, <1>3, SendStream
<1>4. CASE \E n \in Available : Receive(n)
  <2>1. PICK n \in Available : Receive(n)
    BY <1>4
  <2>2. Consumed' = Consumed
    BY <2>1, ReceiveBuffers
  <2>3. PostedInv'
    BY <1>2, <2>1 DEF PostedInv, Receive
  <2>4. InStep(ends)'
    BY <1>1, <2>1, <2>2 DEF InStep, Overrunning, Receive
  <2> QED BY <1>1, <2>1, <2>3, <2>4, SameLayout DEF Receive
<1>5. CASE ReadFails \/ HeadInvalid \/ HeadThrows \/ HeadShort
  <2>1. /\ split' \/ (split' = split /\ reader' \notin {"armed", "handling"})
        /\ UNCHANGED <<sent, stream, posted>>
    BY <1>5 DEF ReadFails, HeadInvalid, HeadThrows, HeadShort
  <2>2. PostedInv'
    BY <1>2, <2>1 DEF PostedInv
  <2>3. InStep(ends)'
    BY <2>1 DEF InStep
  <2> QED BY <1>1, <2>1, <2>2, <2>3, SameLayout
<1>6. CASE HeadThenPart \/ BodyPart
  BY <1>1, <1>2, <1>6, PartStream
<1>7. CASE HeadThenBody \/ BodyEnd
  <2>1. CASE split
    <3>1. split' /\ UNCHANGED <<sent, stream>>
      BY <1>7, <2>1 DEF HeadThenBody, BodyEnd
    <3>2. PostedInv' /\ InStep(ends)'
      BY <3>1 DEF PostedInv, InStep
    <3> QED BY <1>1, <3>1, <3>2, SameLayout
  <2>2. CASE ~split
    <3>1. Posts(ends)
      BY <1>1, <1>2, <1>7, <2>2, HeadThenBodyPosts, BodyEndPosts
    <3> QED BY <1>1, <1>2, <2>2, <3>1, PostStream DEF Posts
  <2> QED BY <2>1, <2>2
<1>8. CASE HeadOverruns \/ BodyOverruns
  <2>1. UNCHANGED <<sent, stream, posted, split>> /\ Overrunning'
    BY <1>8, HeadOverrunsBuffers, BodyOverrunsBuffers DEF HeadOverruns, BodyOverruns
  <2>2. PostedInv' /\ InStep(ends)'
    BY <1>2, <2>1 DEF PostedInv, InStep
  <2> QED BY <1>1, <2>1, <2>2, SameLayout
<1>9. CASE UNCHANGED vars
  <2>1. UNCHANGED <<sent, stream>> /\ PostedInv' /\ InStep(ends)'
    BY <1>1, <1>2, <1>9 DEF vars, PostedInv, InStep, Overrunning, Consumed
  <2> QED BY <1>1, <2>1, SameLayout
<1> QED BY <1>3, <1>4, <1>5, <1>6, <1>7, <1>8, <1>9 DEF Next, HandleRead

LEMMA Inductive == Spec => [](Buffers /\ StreamInv)
  BY InitBuffers, InitStream, NextBuffers, NextStream, PTL DEF Spec

(***************************************************************************)
(* As long as no chunk has ended inside a head, every message posted is a  *)
(* frame that was sent, in order and without gaps: the short head, whose   *)
(* bytes are not counted, is all that stands between HandleRead and what   *)
(* its comments say (PostedWereSent, which fails without the condition).   *)
(***************************************************************************)
THEOREM PostedUntilSplit == Spec => [](~split => PostedWereSent)
<1>1. Buffers /\ StreamInv => (~split => PostedWereSent)
  <2> SUFFICES ASSUME Buffers, StreamInv, ~split PROVE PostedWereSent
    OBVIOUS
  <2> DEFINE k == Len(posted)
  <2>1. /\ posted \in Seq(Frame) /\ sent \in Seq(Frame) /\ k \in Nat
        /\ k <= Len(sent) /\ \A i \in 1..k : posted[i] = sent[i]
    <3>1. posted \in Seq(Frame) /\ sent \in Seq(Frames) /\ Frames \subseteq Frame
      BY HandleReadAssumption DEF Buffers, TypeInv
    <3>2. sent \in Seq(Frame)
      BY <3>1, SeqMonotonic
    <3> QED BY <3>1, <3>2 DEF StreamInv, PostedInv
  <2>2. /\ SubSeq(posted, 1, k) \in Seq(Frame) /\ Len(SubSeq(posted, 1, k)) = k
        /\ \A i \in 1..k : SubSeq(posted, 1, k)[i] = posted[i]
    BY <2>1, FirstPart
  <2>3. /\ SubSeq(sent, 1, k) \in Seq(Frame) /\ Len(SubSeq(sent, 1, k)) = k
        /\ \A i \in 1..k : SubSeq(sent, 1, k)[i] = sent[i]
    BY <2>1, FirstPart
  <2>4. SubSeq(posted, 1, k) = SubSeq(sent, 1, k)
    BY <2>1, <2>2, <2>3, SeqEqual
  <2> QED BY <2>1, <2>4 DEF PostedWereSent, IsPrefix
<1> QED BY <1>1, Inductive, PTL

-----------------------------------------------------------------------------
(* The parser is a frame stream.                                           *)

LEMMA InboxHead ==
  ASSUME NEW S, NEW s \in Seq(S), NEW k \in Nat, k < Len(s)
  PROVE  Drop(s, k) # <<>> /\ Head(Drop(s, k)) = s[k + 1] /\ Tail(Drop(s, k)) = Drop(s, k + 1)
<1>1. Len(s) \in Nat /\ k + 1 \in 1..Len(s) /\ Len(s) \in k + 1..Len(s)
  OBVIOUS
<1>2. Head(Drop(s, k)) = s[k + 1] /\ Tail(Drop(s, k)) = Drop(s, k + 1)
  BY <1>1, HeadTailOfSubSeq DEF Drop
<1>3. Len(Drop(s, k)) = Len(s) - k
  BY DropPart
<1>4. Drop(s, k) # <<>>
  BY <1>1, <1>3, EmptySeq
<1> QED BY <1>2, <1>4

LEMMA InboxSend ==
  ASSUME NEW S, NEW s \in Seq(S), NEW k \in Nat, k <= Len(s), NEW f \in S
  PROVE  Drop(Append(s, f), k) = Append(Drop(s, k), f)
<1> DEFINE a == Append(s, f)
           d == Drop(s, k)
<1>1. a \in Seq(S) /\ Len(a) = Len(s) + 1 /\ a[Len(s) + 1] = f /\ \A i \in 1..Len(s) : a[i] = s[i]
  BY AppendProperties
<1>2. d \in Seq(S) /\ Len(d) = Len(s) - k /\ \A i \in 1..Len(s) - k : d[i] = s[k + i]
  BY DropPart
<1>3. Len(s) \in Nat
  OBVIOUS
<1> HIDE DEF a, d
<1>4. /\ Drop(a, k) \in Seq(S) /\ Len(Drop(a, k)) = Len(s) - k + 1
      /\ \A i \in 1..Len(s) - k + 1 : Drop(a, k)[i] = a[k + i]
  <2>1. k <= Len(a) /\ Len(a) - k = Len(s) - k + 1
    BY <1>1, <1>3
  <2>2. /\ Drop(a, k) \in Seq(S) /\ Len(Drop(a, k)) = Len(a) - k
        /\ \A i \in 1..Len(a) - k : Drop(a, k)[i] = a[k + i]
    BY <1>1, <2>1, DropPart
  <2> QED BY <2>1, <2>2
<1>5. /\ Append(d, f) \in Seq(S) /\ Len(Append(d, f)) = Len(s) - k + 1
      /\ Append(d, f)[Len(s) - k + 1] = f
      /\ \A i \in 1..Len(s) - k : Append(d, f)[i] = d[i]
  BY <1>2, AppendProperties
<1>6. ASSUME NEW i \in 1..Len(s) - k + 1 PROVE Drop(a, k)[i] = Append(d, f)[i]
  <2>1. CASE i \in 1..Len(s) - k
    <3>1. k + i \in 1..Len(s)
      BY <1>3, <2>1
    <3> QED BY <1>1, <1>2, <1>4, <1>5, <2>1, <3>1
  <2>2. CASE i = Len(s) - k + 1
    <3>1. k + i = Len(s) + 1
      BY <1>3, <2>2
    <3> QED BY <1>1, <1>4, <1>5, <2>2, <3>1
  <2>3. \A l \in Nat : \A m \in 1..l + 1 : m \in 1..l \/ m = l + 1
    OBVIOUS
  <2>4. Len(s) - k \in Nat
    BY <1>3
  <2> QED BY <2>1, <2>2, <2>3, <2>4
<1>7. Drop(a, k) = Append(d, f)
  BY <1>4, <1>5, <1>6, SeqEqual
<1> QED BY <1>7 DEF a, d

Goes == Stream!Next \/ UNCHANGED Stream!frameVars

LEMMA StreamStep == Buffers /\ StreamInv /\ [Next]_vars => Goes
<1> SUFFICES ASSUME Buffers, StreamInv, [Next]_vars PROVE Goes
  OBVIOUS
<1>1. PICK ends \in Ends : Layout(ends) /\ InStep(ends)
  BY DEF StreamInv, Ends
<1>2. PostedInv
  BY DEF StreamInv
<1>3. sent \in Seq(Frames) /\ Len(posted) \in Nat /\ Len(sent) \in Nat /\ split \in BOOLEAN
  BY DEF Buffers, TypeInv
<1>4. ASSUME split, split' PROVE Goes
  BY <1>4 DEF Goes, Stream!Next, Stream!Garble
<1>5. CASE \E f \in Frames : PeerSend(f)
  <2>1. PICK f \in Frames : PeerSend(f)
    BY <1>5
  <2>2. UNCHANGED <<posted, reader, split>> /\ sent' = Append(sent, f)
    BY <2>1 DEF PeerSend
  <2>3. CASE ~split
    <3>1. Len(posted) <= Len(sent)
      BY <1>2, <2>3 DEF PostedInv
    <3>2. Drop(sent', Len(posted')) = Append(Drop(sent, Len(posted)), f)
      BY <1>3, <2>2, <3>1, InboxSend
    <3>3. Stream!Send(f)
      BY <2>1, <2>2, <3>2 DEF Stream!Send, PeerSend, Overrunning
    <3> QED BY <3>3 DEF Goes, Stream!Next
  <2> QED BY <1>3, <1>4, <2>2, <2>3
<1>6. CASE \E n \in Available : Receive(n)
  BY <1>6 DEF Goes, Stream!frameVars, Receive, Overrunning
<1>7. CASE ReadFails
  <2>1. CASE Overrunning
    BY <1>7, <2>1 DEF Goes, Stream!frameVars, ReadFails, Overrunning
  <2>2. CASE ~Overrunning
    <3>1. Stream!Hangup
      BY <1>7, <2>2 DEF Stream!Hangup, ReadFails, Overrunning
    <3> QED BY <3>1 DEF Goes, Stream!Next
  <2> QED BY <2>1, <2>2
<1>8. CASE HeadShort
  <2>1. CASE ~split
    <3>1. Stream!LoseStep
      BY <1>8, <2>1 DEF Stream!LoseStep, HeadShort, Overrunning
    <3> QED BY <3>1 DEF Goes, Stream!Next
  <2> QED BY <1>3, <1>4, <1>8, <2>1 DEF HeadShort
<1>9. CASE HeadInvalid \/ HeadThrows \/ HeadOverruns
  <2>0. UNCHANGED <<sent, posted, split>> /\ AtHead /\ reader = "handling" /\ ~Overrunning
        /\ (reader' \in {"rejected", "stalled"} \/ Overrunning')
    BY <1>9, HeadOverrunsBuffers DEF HeadInvalid, HeadThrows, HeadOverruns, AtHead, Buffers, BufferInv
  <2>1. CASE ~split
    <3> DEFINE f == sent[Len(posted) + 1]
    <3>1. Len(posted) < Len(sent) /\ f \in Frames /\ IdNow = f.id /\ LenNow = f.len
      BY <1>1, <1>2, <2>0, <2>1, HeadInStep
    <3>2. LenNow \in Int
      BY <2>0, HeadFacts DEF Buffers, ShortInt
    <3>3. ~(ValidHead(f.id, f.len) /\ f.len >= 0)
      BY <1>9, <3>1, <3>2 DEF HeadInvalid, HeadThrows, HeadOverruns
    <3>4. Drop(sent, Len(posted)) # <<>> /\ Head(Drop(sent, Len(posted))) = f
      BY <1>3, <3>1, InboxHead
    <3>5. Stream!Reject
      BY <2>0, <2>1, <3>3, <3>4 DEF Stream!Reject
    <3> QED BY <3>5 DEF Goes, Stream!Next
  <2> QED BY <1>3, <1>4, <2>0, <2>1
<1>10. CASE HeadThenPart \/ BodyPart
  <2>1. ~Overrunning /\ ~Overrunning'
    <3>1. CASE HeadThenPart
      <4>1. AtHead /\ Len(Rest) < LenNow
            /\ node' = [id |-> IdNow, len |-> LenNow, body |-> Rest]
        BY <3>1 DEF HeadThenPart
      <4>2. LenNow \in Int /\ Len(Rest) \in Nat
        BY <4>1, HeadFacts DEF Buffers, ShortInt
      <4> QED BY <4>1, <4>2 DEF Overrunning, AtHead, Buffers, BufferInv
    <3>2. CASE BodyPart
      <4>1. node \in Frame /\ node.len \in Int /\ node.len >= 0
        BY <3>2 DEF Buffers, TypeInv, Frame, ShortInt, BodyPart
      <4>2. node'.len = node.len
        BY <3>2, <4>1 DEF BodyPart, Frame
      <4> QED BY <4>1, <4>2 DEF Overrunning
    <3> QED BY <1>10, <3>1, <3>2
  <2>2. /\ UNCHANGED <<sent, posted, split>>
        /\ reader = "handling" /\ reader' = "armed"
    BY <1>10 DEF HeadThenPart, BodyPart, AtHead
  <2> QED BY <2>1, <2>2 DEF Goes, Stream!frameVars
<1>11. CASE HeadThenBody \/ BodyEnd
  <2>0. UNCHANGED split /\ reader = "handling" /\ reader' \in {"armed", "handling"}
        /\ ~Overrunning
    <3>1. node.len \in Int
      BY DEF Buffers, TypeInv, Frame, ShortInt
    <3> QED BY <1>11, <3>1 DEF HeadThenBody, BodyEnd, AtHead, ContinueWith, Overrunning,
                               Buffers, BufferInv
  <2>1. CASE ~split
    <3> DEFINE f == sent[Len(posted) + 1]
    <3>1. Posts(ends)
      BY <1>1, <1>2, <1>11, <2>1, HeadThenBodyPosts, BodyEndPosts
    <3>2. /\ Len(posted) < Len(sent) /\ f \in Frames /\ ValidHead(f.id, f.len) /\ 0 <= f.len
          /\ posted' = Append(posted, f) /\ sent' = sent
      BY <3>1 DEF Posts
    <3>3. f.len >= 0
      BY <3>2, HandleReadAssumption DEF Frame, ShortInt
    <3>4. /\ Drop(sent, Len(posted)) # <<>> /\ Head(Drop(sent, Len(posted))) = f
          /\ Tail(Drop(sent, Len(posted))) = Drop(sent, Len(posted) + 1)
      BY <1>3, <3>2, InboxHead
    <3>5. Len(posted') = Len(posted) + 1
      BY <3>2, AppendProperties DEF Buffers, TypeInv
    <3>6. Drop(sent', Len(posted')) = Tail(Drop(sent, Len(posted)))
      BY <3>2, <3>4, <3>5
    <3> HIDE DEF f
    <3>7. Stream!Deliver
      BY <2>0, <2>1, <3>2, <3>3, <3>4, <3>6 DEF Stream!Deliver
    <3> QED BY <3>7 DEF Goes, Stream!Next
  <2> QED BY <1>3, <1>4, <2>0, <2>1
<1>12. CASE UNCHANGED vars
  BY <1>12 DEF Goes, Stream!frameVars, vars, Overrunning
<1>13. CASE BodyOverruns
  <2>1. Overrunning /\ Overrunning' /\ UNCHANGED <<sent, posted, split>>
    BY <1>13, BodyOverrunsBuffers DEF BodyOverruns
  <2> QED BY <2>1 DEF Goes, Stream!frameVars
<1> QED BY <1>5, <1>6, <1>7, <1>8, <1>9, <1>10, <1>11, <1>12, <1>13
    DEF Next, HandleRead

(***************************************************************************)
(* However the bytes are cut into chunks, HandleRead makes messages of the *)
(* frames sent as a frame stream does: whole, in order and each once, up   *)
(* to the first that is not acceptable or the end of the connection, until *)
(* a chunk ends inside a head (the safety part of ImplementsFrameStream).  *)
(***************************************************************************)
THEOREM FrameStreamSafe == Spec => Stream!Init /\ [][Stream!Next]_(Stream!frameVars)
<1>1. Init => Stream!Init
  <2> SUFFICES ASSUME Init PROVE Stream!Init
    OBVIOUS
  <2>1. Drop(<<>>, 0) = <<>> /\ Len(<<>>) = 0
    BY SubSeqEmpty DEF Drop
  <2> QED BY <2>1 DEF Init, Stream!Init, Overrunning
<1>2. Buffers /\ StreamInv /\ [Next]_vars => [Stream!Next]_(Stream!frameVars)
  BY StreamStep DEF Goes
<1> QED BY <1>1, <1>2, Inductive, PTL DEF Spec

=============================================================================
