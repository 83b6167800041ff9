-------------------------- MODULE WinBufferProofs --------------------------
(***************************************************************************)
(* The ring of winQueue.cpp is a queue of bytes, for every size of the     *)
(* buffer, every set of bytes and every input; and what IOCPServer receives *)
(* through it are the packets that were sent.                              *)
(*                                                                         *)
(* Everything rests on four facts about positions on a circle: where Ahead *)
(* lands, that Distance undoes it, and how the used size follows Rear and  *)
(* Front.  Then each operation is followed from the ring to the queue, and *)
(* each step of a receive from the queue to the stream of packets.         *)
(***************************************************************************)
EXTENDS RecvQueue, SequenceTheorems, TLAPS

Counts == INSTANCE OccurrencesProofs

(* Ahead goes round the buffer at most once. *)
LEMMA AheadLands ==
  ASSUME NEW p \in Positions, NEW n \in 0 .. bufSize
  PROVE  /\ Ahead(p, n) = IF p + n < bufSize THEN p + n ELSE p + n - bufSize
         /\ Ahead(p, n) \in Positions
  BY BufSizeAssumption DEF Ahead, Positions

(* The distance to a position, going forward. *)
LEMMA DistanceForward ==
  ASSUME NEW p \in Positions, NEW i \in Positions
  PROVE  /\ Distance(p, i) = IF i >= p THEN i - p ELSE i - p + bufSize
         /\ Distance(p, i) \in Positions
  BY BufSizeAssumption DEF Distance, Positions

(* The used size leaves one byte of the buffer free. *)
LEMMA UsedSizeBounds ==
  ASSUME NEW r \in Positions, NEW f \in Positions
  PROVE  /\ dummyUsedSize(r, f) \in Nat
         /\ dummyUsedSize(r, f) \in 0 .. bufSize - 1
         /\ Ahead(f, dummyUsedSize(r, f)) = r
<1>1. dummyUsedSize(r, f) \in 0 .. bufSize - 1
  BY BufSizeAssumption DEF dummyUsedSize, Positions
<1>2. Ahead(f, dummyUsedSize(r, f)) = r
  <2> DEFINE u == dummyUsedSize(r, f)
  <2>1. u \in 0 .. bufSize
    BY <1>1, BufSizeAssumption
  <2>2. Ahead(f, u) = IF f + u < bufSize THEN f + u ELSE f + u - bufSize
    BY <2>1, AheadLands
  <2> QED BY <2>2, BufSizeAssumption DEF dummyUsedSize, Positions
<1> QED BY <1>1, <1>2, BufSizeAssumption

(* Moving Rear by n, with room for it, adds n to the used size. *)
LEMMA UsedGrows ==
  ASSUME NEW r \in Positions, NEW f \in Positions, NEW n \in Nat,
         n <= bufSize - 1 - dummyUsedSize(r, f)
  PROVE  dummyUsedSize(Ahead(r, n), f) = dummyUsedSize(r, f) + n
<1>1. n \in 0 .. bufSize
  BY UsedSizeBounds, BufSizeAssumption
<1> DEFINE q == Ahead(r, n)
<1>2. q \in Positions /\ q = IF r + n < bufSize THEN r + n ELSE r + n - bufSize
  BY <1>1, AheadLands
<1> HIDE DEF q
<1>3. dummyUsedSize(q, f) = dummyUsedSize(r, f) + n
  BY <1>1, <1>2, BufSizeAssumption DEF dummyUsedSize, Positions
<1> QED BY <1>3 DEF q

(* Moving Front by n used bytes takes n off the used size. *)
LEMMA UsedShrinks ==
  ASSUME NEW r \in Positions, NEW f \in Positions, NEW n \in Nat,
         n <= dummyUsedSize(r, f)
  PROVE  dummyUsedSize(r, Ahead(f, n)) = dummyUsedSize(r, f) - n
<1>1. n \in 0 .. bufSize
  BY UsedSizeBounds, BufSizeAssumption
<1> DEFINE q == Ahead(f, n)
<1>2. q \in Positions /\ q = IF f + n < bufSize THEN f + n ELSE f + n - bufSize
  BY <1>1, AheadLands
<1> HIDE DEF q
<1>3. dummyUsedSize(r, q) = dummyUsedSize(r, f) - n
  BY <1>1, <1>2, BufSizeAssumption DEF dummyUsedSize, Positions
<1> QED BY <1>3 DEF q

(* Two steps forward are one. *)
LEMMA AheadTwice ==
  ASSUME NEW p \in Positions, NEW a \in Nat, NEW b \in Nat, a + b <= bufSize
  PROVE  Ahead(Ahead(p, a), b) = Ahead(p, a + b)
<1>1. a \in 0 .. bufSize /\ b \in 0 .. bufSize /\ a + b \in 0 .. bufSize
  BY BufSizeAssumption
<1> DEFINE q == Ahead(p, a)
<1>2. q \in Positions /\ q = IF p + a < bufSize THEN p + a ELSE p + a - bufSize
  BY <1>1, AheadLands
<1>3. Ahead(q, b) = IF q + b < bufSize THEN q + b ELSE q + b - bufSize
  BY <1>1, <1>2, AheadLands
<1>4. Ahead(p, a + b) = IF p + (a + b) < bufSize THEN p + (a + b) ELSE p + (a + b) - bufSize
  BY <1>1, AheadLands
<1>5. p \in Int /\ 0 <= p /\ p < bufSize /\ bufSize \in Int
  BY BufSizeAssumption DEF Positions
<1> HIDE DEF q
<1>6. Ahead(q, b) = Ahead(p, a + b)
  BY <1>1, <1>2, <1>3, <1>4, <1>5
<1> QED BY <1>6 DEF q

(* A byte that is in the ring lies behind all that is written from Rear on, *)
(* as long as no more is written than is free.                              *)
LEMMA UsedOutOfReach ==
  ASSUME NEW r \in Positions, NEW f \in Positions, NEW n \in Nat, NEW j \in Nat,
         n <= bufSize - 1 - dummyUsedSize(r, f), j < dummyUsedSize(r, f)
  PROVE  Distance(r, Ahead(f, j)) >= n
<1>1. j \in 0 .. bufSize
  BY UsedSizeBounds, BufSizeAssumption
<1> DEFINE i == Ahead(f, j)
<1>2. i \in Positions /\ i = IF f + j < bufSize THEN f + j ELSE f + j - bufSize
  BY <1>1, AheadLands
<1>3. Distance(r, i) = IF i >= r THEN i - r ELSE i - r + bufSize
  BY <1>2, DistanceForward
<1> HIDE DEF i
<1>4. Distance(r, i) >= n
  BY <1>1, <1>2, <1>3, BufSizeAssumption DEF dummyUsedSize, Positions
<1> QED BY <1>4 DEF i

(* The k-th position written from r on is k away from r. *)
LEMMA DistanceUndoes ==
  ASSUME NEW r \in Positions, NEW k \in Positions
  PROVE  Distance(r, Ahead(r, k)) = k
<1>1. k \in 0 .. bufSize
  BY BufSizeAssumption DEF Positions
<1> DEFINE i == Ahead(r, k)
<1>2. i \in Positions /\ i = IF r + k < bufSize THEN r + k ELSE r + k - bufSize
  BY <1>1, AheadLands
<1>3. Distance(r, i) = IF i >= r THEN i - r ELSE i - r + bufSize
  BY <1>2, DistanceForward
<1> HIDE DEF i
<1>4. Distance(r, i) = k
  BY <1>2, <1>3, BufSizeAssumption DEF Positions
<1> QED BY <1>4 DEF i
-----------------------------------------------------------------------------
(* enqueue never takes more than there is room for, although it computes   *)
(* the room with rear + front.                                             *)
LEMMA TakenFits ==
  ASSUME TypeOK, NEW size \in Nat
  PROVE  Taken(size) \in 0 .. size /\ Taken(size) <= getFreeSize
<1>1. dummyFreeSize(Rear, Front) \in Int /\ dummyFreeSize(Rear, Front) <= getFreeSize
  BY BufSizeAssumption
     DEF TypeOK, Positions, dummyFreeSize, getFreeSize, getUsedSize, dummyUsedSize
<1>2. getFreeSize \in Nat
  BY UsedSizeBounds, BufSizeAssumption DEF TypeOK, getFreeSize, getUsedSize
<1> QED BY <1>1, <1>2 DEF Taken, Least

(* What Written leaves is an array of bytes. *)
LEMMA WrittenType ==
  ASSUME TypeOK, NEW s \in Seq(Bytes)
  PROVE  Written(Rear, s) \in [Positions -> Bytes]
<1> SUFFICES ASSUME NEW i \in Positions
             PROVE  (IF Distance(Rear, i) < Len(s) THEN s[Distance(Rear, i) + 1]
                     ELSE buffer[i]) \in Bytes
  BY DEF Written
<1>1. Distance(Rear, i) \in Nat
  <2>1. Rear \in Positions
    BY DEF TypeOK
  <2> QED BY <2>1, DistanceForward, BufSizeAssumption DEF Positions
<1>2. CASE Distance(Rear, i) < Len(s)
  <2>1. Distance(Rear, i) + 1 \in 1 .. Len(s)
    BY <1>1, <1>2
  <2> QED BY <1>2, <2>1
<1>3. CASE ~(Distance(Rear, i) < Len(s))
  BY <1>3 DEF TypeOK
<1> QED BY <1>2, <1>3

(* Contents is a sequence of bytes as long as the used size. *)
LEMMA ContentsType ==
  ASSUME TypeOK
  PROVE  /\ Contents \in Seq(Bytes)
         /\ Len(Contents) = getUsedSize
         /\ getUsedSize \in 0 .. bufSize - 1
<1>1. getUsedSize \in Nat /\ getUsedSize \in 0 .. bufSize - 1
  BY UsedSizeBounds DEF TypeOK, getUsedSize
<1>2. \A i \in 1 .. getUsedSize : Ahead(Front, i - 1) \in Positions
  BY <1>1, AheadLands, BufSizeAssumption DEF TypeOK
<1> QED BY <1>1, <1>2 DEF Contents, Read, TypeOK

(* Concatenation, element by element. *)
LEMMA Concatenation ==
  ASSUME NEW S, NEW a \in Seq(S), NEW b \in Seq(S)
  PROVE  a \o b = [i \in 1 .. Len(a) + Len(b) |->
                     IF i <= Len(a) THEN a[i] ELSE b[i - Len(a)]]
<1> DEFINE c == a \o b
<1>1. c \in Seq(S) /\ Len(c) = Len(a) + Len(b)
  OBVIOUS
<1>2. \A i \in 1 .. Len(a) + Len(b) : c[i] = IF i <= Len(a) THEN a[i] ELSE b[i - Len(a)]
  OBVIOUS
<1> HIDE DEF c
<1>3. c = [i \in 1 .. Len(c) |-> c[i]]
  BY <1>1
<1>4. c = [i \in 1 .. Len(a) + Len(b) |-> IF i <= Len(a) THEN a[i] ELSE b[i - Len(a)]]
  BY <1>1, <1>2, <1>3
<1> QED BY <1>4 DEF c

(* Writing s behind Rear puts s behind the contents. *)
LEMMA ContentsGrow ==
  ASSUME TypeOK, NEW s \in Seq(Bytes), Len(s) <= getFreeSize,
         buffer' = Written(Rear, s), Rear' = Ahead(Rear, Len(s)), Front' = Front
  PROVE  Contents' = Contents \o s
<1> DEFINE u == getUsedSize
           n == Len(s)
<1>1. u \in Nat /\ n \in Nat /\ n <= bufSize - 1 - u /\ bufSize \in Nat
  BY ContentsType, BufSizeAssumption DEF getFreeSize
<1>2. getUsedSize' = u + n
  BY <1>1, UsedGrows DEF getUsedSize, TypeOK
<1>3. Contents' = [i \in 1 .. u + n |-> Written(Rear, s)[Ahead(Front, i - 1)]]
  BY <1>2 DEF Contents, Read, Ahead
<1>4. Contents \o s = [i \in 1 .. u + n |-> IF i <= u THEN Contents[i] ELSE s[i - u]]
  <2>1. Contents \in Seq(Bytes) /\ Len(Contents) = u
    BY ContentsType
  <2> HIDE DEF u
  <2>2. Contents \o s = [i \in 1 .. Len(Contents) + Len(s) |->
                           IF i <= Len(Contents) THEN Contents[i] ELSE s[i - Len(Contents)]]
    BY <2>1, Concatenation
  <2> QED BY <2>1, <2>2
<1>5. ASSUME NEW i \in 1 .. u + n
      PROVE  Written(Rear, s)[Ahead(Front, i - 1)]
               = IF i <= u THEN Contents[i] ELSE s[i - u]
  <2>1. i - 1 \in 0 .. bufSize /\ Ahead(Front, i - 1) \in Positions
    BY <1>1, AheadLands DEF TypeOK
  <2> DEFINE p == Ahead(Front, i - 1)
  <2>2. Written(Rear, s)[p] = IF Distance(Rear, p) < n THEN s[Distance(Rear, p) + 1]
                              ELSE buffer[p]
    BY <2>1 DEF Written
  <2>3. Distance(Rear, p) \in Nat
    BY <2>1, DistanceForward, BufSizeAssumption DEF TypeOK, Positions
  <2>4. CASE i <= u
    <3>1. Distance(Rear, p) >= n
      BY <1>1, <2>4, UsedOutOfReach DEF TypeOK, getUsedSize
    <3>2. Contents[i] = buffer[p]
      BY <1>1, <2>4 DEF Contents, Read
    <3> QED BY <1>1, <2>2, <2>3, <2>4, <3>1, <3>2
  <2>5. CASE i > u
    <3> DEFINE k == i - 1 - u
    <3>1. k \in Positions /\ k \in Nat /\ k < n
      BY <1>1, <2>5 DEF Positions
    <3>2. p = Ahead(Ahead(Front, u), k)
      BY <1>1, <3>1, AheadTwice DEF TypeOK
    <3>3. p = Ahead(Rear, k)
      BY <3>2, UsedSizeBounds DEF TypeOK, getUsedSize
    <3>4. Distance(Rear, p) = k
      BY <3>1, <3>3, DistanceUndoes DEF TypeOK
    <3> QED BY <1>1, <2>2, <2>5, <3>1, <3>4
  <2> QED BY <1>1, <2>4, <2>5
<1> QED BY <1>3, <1>4, <1>5

(* What is read from within the contents. *)
LEMMA ReadInside ==
  ASSUME TypeOK, NEW pos \in Nat, NEW n \in Nat, pos + n <= getUsedSize
  PROVE  Read(Ahead(Front, pos), n) = SubSeq(Contents, pos + 1, pos + n)
<1>1. getUsedSize \in Nat /\ getUsedSize <= bufSize /\ bufSize \in Nat
  BY ContentsType, BufSizeAssumption
<1>2. SubSeq(Contents, pos + 1, pos + n) = [i \in 1 .. n |-> Contents[i + pos]]
  BY <1>1, ContentsType
<1>3. ASSUME NEW i \in 1 .. n
      PROVE  buffer[Ahead(Ahead(Front, pos), i - 1)] = Contents[i + pos]
  <2>1. Ahead(Ahead(Front, pos), i - 1) = Ahead(Front, pos + (i - 1))
    BY <1>1, AheadTwice DEF TypeOK
  <2>2. i + pos \in 1 .. getUsedSize /\ (i + pos) - 1 = pos + (i - 1)
    BY <1>1
  <2> QED BY <2>1, <2>2 DEF Contents, Read
<1> QED BY <1>2, <1>3 DEF Read

(* Moving Front over n used bytes takes them off the contents. *)
LEMMA ContentsShrink ==
  ASSUME TypeOK, NEW n \in Nat, n <= getUsedSize,
         Front' = Ahead(Front, n), Rear' = Rear, buffer' = buffer
  PROVE  Contents' = SubSeq(Contents, n + 1, Len(Contents))
<1>1. getUsedSize \in Nat /\ getUsedSize' = getUsedSize - n
  BY UsedShrinks, ContentsType DEF getUsedSize, TypeOK
<1>2. Contents' = Read(Ahead(Front, n), getUsedSize - n)
  BY <1>1 DEF Contents, Read, Ahead
<1>3. Read(Ahead(Front, n), getUsedSize - n) = SubSeq(Contents, n + 1, n + (getUsedSize - n))
  BY <1>1, ReadInside
<1> QED BY <1>1, <1>2, <1>3, ContentsType
-----------------------------------------------------------------------------
(* What enqueue puts in: the first count bytes of s. *)
LEMMA Prefix ==
  ASSUME NEW s \in Seq(Bytes), NEW count \in 0 .. Len(s)
  PROVE  SubSeq(s, 1, count) \in Seq(Bytes) /\ Len(SubSeq(s, 1, count)) = count
  OBVIOUS

(* dequeue and peek copy at most what is there. *)
LEMMA LeastBounds ==
  ASSUME NEW a \in Nat, NEW b \in Nat
  PROVE  Least(a, b) \in Nat /\ Least(a, b) <= a /\ Least(a, b) <= b
  BY DEF Least

(* Every operation keeps the positions inside the buffer. *)
LEMMA StepType ==
  ASSUME TypeOK, [Next]_vars
  PROVE  TypeOK'
<1>1. Rear \in Positions /\ Front \in Positions /\ bufSize \in Nat
      /\ getUsedSize \in 0 .. bufSize - 1 /\ getFreeSize \in 0 .. bufSize - 1
  BY ContentsType, BufSizeAssumption DEF TypeOK, getFreeSize
<1>2. ASSUME NEW s \in Inputs, enqueue(s)
      PROVE  TypeOK'
  <2>1. s \in Seq(Bytes) /\ Len(s) \in Nat
    BY InputsAssumption
  <2> DEFINE count == Taken(Len(s))
  <2>2. count \in 0 .. Len(s) /\ count \in 0 .. bufSize
    BY <1>1, <2>1, TakenFits
  <2>3. buffer' \in [Positions -> Bytes]
    BY <1>2, <2>1, <2>2, Prefix, WrittenType DEF enqueue
  <2>4. Rear' \in Positions /\ Front' \in Positions
    BY <1>1, <1>2, <2>2, AheadLands DEF enqueue
  <2> QED BY <2>3, <2>4 DEF TypeOK
<1>3. ASSUME NEW s \in Inputs, Received(s)
      PROVE  TypeOK'
  <2>1. s \in Seq(Bytes) /\ Len(s) \in 0 .. bufSize
    BY <1>1, <1>3, InputsAssumption DEF Received
  <2>2. Rear' \in Positions
    <3>1. Ahead(Rear, Len(s)) \in Positions
      BY <1>1, <2>1, AheadLands
    <3>2. CASE Rear + Len(s) >= bufSize
      BY <1>3, <3>1, <3>2 DEF Received
    <3>3. CASE ~(Rear + Len(s) >= bufSize)
      <4>1. Rear' = Rear + Len(s)
        BY <1>3, <3>3 DEF Received
      <4> QED BY <1>1, <2>1, <3>3, <4>1 DEF Positions
    <3> QED BY <3>2, <3>3
  <2> QED BY <1>1, <1>3, <2>1, <2>2, WrittenType DEF Received, TypeOK
<1>4. ASSUME NEW size \in 0 .. bufSize, dequeue(size)
      PROVE  TypeOK'
  <2>1. Least(size, getUsedSize) \in 0 .. bufSize
    BY <1>1, LeastBounds
  <2> QED BY <1>1, <1>4, <2>1, AheadLands DEF dequeue, TypeOK
<1>5. ASSUME NEW size \in 0 .. bufSize, removeData(size)
      PROVE  TypeOK'
  BY <1>1, <1>5, AheadLands DEF removeData, TypeOK, Positions
<1>6. CASE clearBuffer
  BY <1>6, BufSizeAssumption DEF clearBuffer, TypeOK, Positions
<1>7. ASSUME NEW size \in 0 .. bufSize, peek(size)
      PROVE  TypeOK'
  BY <1>7 DEF peek, TypeOK
<1>8. ASSUME NEW size \in 0 .. bufSize, NEW pos \in 0 .. bufSize, peekAt(pos, size)
      PROVE  TypeOK'
  BY <1>8 DEF peekAt, TypeOK
<1>9. CASE UNCHANGED vars
  BY <1>9 DEF vars, TypeOK
<1> QED BY <1>2, <1>3, <1>4, <1>5, <1>6, <1>7, <1>8, <1>9 DEF Next

(* The positions stay inside the buffer, whatever the operations, which    *)
(* wrap in four different ways (winQueue.cpp:89, 164, 185, 193).           *)
THEOREM TypeCorrect == Spec => []TypeOK
<1>1. Init => TypeOK
  BY BufSizeAssumption DEF Init, TypeOK, Positions
<1> QED BY <1>1, StepType, PTL DEF Spec

(* Every operation of the ring is one of the queue. *)
LEMMA StepImplements ==
  ASSUME TypeOK, [Next]_vars
  PROVE  [Queue!Next]_(Queue!vars)
<1> DEFINE Size == 0 .. bufSize - 1
<1>1. /\ Rear \in Positions /\ Front \in Positions /\ bufSize \in Nat \ {0}
      /\ getUsedSize \in Size /\ getUsedSize \in Nat /\ getFreeSize = bufSize - 1 - getUsedSize
      /\ Contents \in Seq(Bytes) /\ Len(Contents) = getUsedSize
  BY ContentsType, BufSizeAssumption DEF TypeOK, getFreeSize
<1>2. ASSUME NEW s \in Inputs, enqueue(s)
      PROVE  Queue!Put(s)
  <2>1. s \in Seq(Bytes) /\ Len(s) \in Nat
    BY InputsAssumption
  <2> DEFINE count == Taken(Len(s))
             part == SubSeq(s, 1, count)
  <2>2. count \in 0 .. Len(s) /\ count <= getFreeSize
    BY <2>1, TakenFits
  <2>3. part \in Seq(Bytes) /\ Len(part) = count
    BY <2>1, <2>2, Prefix
  <2>4. Contents' = Contents \o part
    BY <1>2, <2>2, <2>3, ContentsGrow DEF enqueue
  <2>5. Len(Contents') <= bufSize - 1
    BY <1>1, <2>2, <2>3, <2>4
  <2>6. Queue!Called("put", count) /\ UNCHANGED dest
    BY <1>2 DEF enqueue, Returns, Queue!Called
  <2> HIDE DEF count
  <2> QED BY <2>2, <2>4, <2>5, <2>6 DEF Queue!Put
<1>3. ASSUME NEW s \in Inputs, Received(s)
      PROVE  Queue!Receive(s)
  <2>1. s \in Seq(Bytes) /\ Len(s) \in 0 .. bufSize /\ Len(s) <= getFreeSize
    BY <1>1, <1>3, InputsAssumption DEF Received
  <2>2. Rear' = Ahead(Rear, Len(s))
    BY <1>1, <1>3, <2>1, AheadLands DEF Received, Positions
  <2>3. Contents' = Contents \o s
    BY <1>3, <2>1, <2>2, ContentsGrow DEF Received
  <2>4. Len(Contents') <= bufSize - 1
    BY <1>1, <2>1, <2>3
  <2> QED BY <1>3, <2>3, <2>4 DEF Received, Returns, Queue!Receive, Queue!Called
<1>4. ASSUME NEW size \in 0 .. bufSize, dequeue(size)
      PROVE  \E n \in Size : Queue!Get(n)
  <2> DEFINE n == Least(size, getUsedSize)
  <2>1. n \in Size /\ n \in Nat /\ n <= getUsedSize
    <3>1. size \in Nat
      BY <1>1
    <3>2. n \in Nat /\ n <= getUsedSize
      BY <1>1, <3>1, LeastBounds
    <3> QED BY <1>1, <3>2
  <2>2. Front = Ahead(Front, 0)
    BY <1>1, AheadLands DEF Positions
  <2>3. dest' = SubSeq(Contents, 1, n)
    <3>1. Read(Ahead(Front, 0), n) = SubSeq(Contents, 0 + 1, 0 + n)
      BY <2>1, ReadInside
    <3> QED BY <1>4, <2>1, <2>2, <3>1 DEF dequeue
  <2>4. Contents' = SubSeq(Contents, n + 1, Len(Contents))
    BY <1>4, <2>1, ContentsShrink DEF dequeue
  <2>5. Queue!Get(n)
    BY <1>1, <1>4, <2>1, <2>3, <2>4 DEF dequeue, Returns, Queue!Get, Queue!Called
  <2> QED BY <2>1, <2>5
<1>5. ASSUME NEW size \in 0 .. bufSize, removeData(size)
      PROVE  \E n \in Size : Queue!Skip(n)
  <2>1. size \in Size /\ size \in Nat /\ size <= getUsedSize
    BY <1>1, <1>5 DEF removeData
  <2>2. Front' = Ahead(Front, size)
    BY <1>1, <1>5, <2>1, AheadLands DEF removeData, Positions
  <2>3. Contents' = SubSeq(Contents, size + 1, Len(Contents))
    BY <1>5, <2>1, <2>2, ContentsShrink DEF removeData
  <2>4. Queue!Skip(size)
    BY <1>1, <1>5, <2>1, <2>3 DEF removeData, Returns, Queue!Skip, Queue!Called
  <2> QED BY <2>1, <2>4
<1>6. CASE clearBuffer
  <2>1. getUsedSize' = 0
    BY <1>6 DEF clearBuffer, getUsedSize, dummyUsedSize
  <2>2. Contents' = <<>>
    BY <2>1 DEF Contents, Read
  <2> QED BY <1>6, <2>2 DEF clearBuffer, Returns, Queue!Next, Queue!Clear, Queue!Called
<1>7. ASSUME NEW pos \in Nat, NEW n \in Nat, pos + n <= getUsedSize,
             dest' = Read(Ahead(Front, pos), n), Returns("look", n),
             UNCHANGED <<buffer, Rear, Front>>
      PROVE  \E m \in Size : \E p \in Size : Queue!Look(p, m)
  <2>1. dest' = SubSeq(Contents, pos + 1, pos + n)
    BY <1>7, ReadInside
  <2>2. Contents' = Contents
    BY <1>7 DEF Contents, Read, getUsedSize
  <2>3. Queue!Look(pos, n)
    BY <1>1, <1>7, <2>1, <2>2 DEF Returns, Queue!Look, Queue!Called
  <2>4. pos \in Size /\ n \in Size
    BY <1>1, <1>7
  <2> QED BY <2>3, <2>4
<1>8. ASSUME NEW size \in 0 .. bufSize, peek(size)
      PROVE  \E m \in Size : \E p \in Size : Queue!Look(p, m)
  <2>1. Least(size, getUsedSize) \in Nat /\ 0 + Least(size, getUsedSize) <= getUsedSize
    <3> DEFINE n == Least(size, getUsedSize)
    <3>1. size \in Nat
      BY <1>1
    <3>2. n \in Nat /\ n <= getUsedSize
      BY <1>1, <3>1, LeastBounds
    <3> HIDE DEF n
    <3>3. n \in Nat /\ 0 + n <= getUsedSize
      BY <3>2
    <3> QED BY <3>3 DEF n
  <2>2. Front = Ahead(Front, 0)
    BY <1>1, AheadLands DEF Positions
  <2> QED BY <1>7, <1>8, <2>1, <2>2 DEF peek
<1>9. ASSUME NEW size \in 0 .. bufSize, NEW pos \in 0 .. bufSize, peekAt(pos, size)
      PROVE  \E m \in Size : \E p \in Size : Queue!Look(p, m)
  BY <1>7, <1>9 DEF peekAt
<1>10. CASE UNCHANGED vars
  BY <1>10 DEF vars, Queue!vars, Contents, Read, getUsedSize
<1> QED BY <1>2, <1>3, <1>4, <1>5, <1>6, <1>8, <1>9, <1>10 DEF Next, Queue!Next

(* winBuffer implements the queue of bytes, whatever the size of the       *)
(* buffer, as long as callers keep to the free and the used bytes.         *)
THEOREM RingImplementsByteQueue == Spec => ImplementsByteQueue
<1>1. Init => Queue!Init
  <2> SUFFICES ASSUME Init PROVE Queue!Init
    OBVIOUS
  <2>1. getUsedSize = 0
    BY DEF Init, getUsedSize, dummyUsedSize
  <2> QED BY <2>1 DEF Init, Queue!Init, Contents, Read
<1> QED BY <1>1, TypeCorrect, StepImplements, PTL DEF Spec, ImplementsByteQueue, Queue!Spec
-----------------------------------------------------------------------------
(* Sequences of packets *)

(* Whether the two ways to join three sequences give the same. *)
Regroups(a, b, c) == (a \o b) \o c = a \o (b \o c)

LEMMA Regroup ==
  ASSUME NEW S, NEW a \in Seq(S), NEW b \in Seq(S), NEW c \in Seq(S)
  PROVE  Regroups(a, b, c)
BY ConcatAssociative DEF Regroups

(* The first n of a sequence of sequences, joined one after the other. *)
Joins(f, s, n) ==
  \A i \in 1 .. n : f[i] = IF i = 1 THEN s[i] ELSE f[i - 1] \o s[i]

LEMMA JoinsExist ==
  ASSUME NEW S, NEW s \in Seq(Seq(S))
  PROVE  \E f \in [1 .. Len(s) -> Seq(S)] : Joins(f, s, Len(s))
<1> DEFINE n == Len(s)
           T == {k \in 0 .. n : \E f \in [1 .. k -> Seq(S)] : Joins(f, s, k)}
<1>1. n \in Nat /\ \A i \in 1 .. n : s[i] \in Seq(S)
  OBVIOUS
<1>2. 0 \in T
  <2> DEFINE none == [i \in 1 .. 0 |-> <<>>]
  <2>1. none \in [1 .. 0 -> Seq(S)] /\ Joins(none, s, 0)
    BY DEF Joins
  <2> HIDE DEF none
  <2>2. 0 \in 0 .. n
    BY <1>1
  <2>3. \E f \in [1 .. 0 -> Seq(S)] : Joins(f, s, 0)
    BY <2>1
  <2> QED BY <2>2, <2>3
<1>3. ASSUME NEW k \in 1 .. n, k - 1 \in T  PROVE k \in T
  <2>1. PICK f \in [1 .. k - 1 -> Seq(S)] : Joins(f, s, k - 1)
    BY <1>3
  <2> DEFINE last == IF k = 1 THEN s[k] ELSE f[k - 1] \o s[k]
             g == [i \in 1 .. k |-> IF i = k THEN last ELSE f[i]]
  <2>2. last \in Seq(S)
    <3>1. CASE k = 1
      BY <1>1, <3>1
    <3>2. CASE k # 1
      <4>1. f[k - 1] \in Seq(S) /\ s[k] \in Seq(S)
        BY <1>1, <3>2
      <4> QED BY <3>2, <4>1
    <3> QED BY <3>1, <3>2
  <2> HIDE DEF last
  <2>3. g \in [1 .. k -> Seq(S)]
    BY <1>1, <2>2
  <2>4. ASSUME NEW i \in 1 .. k  PROVE g[i] = IF i = 1 THEN s[i] ELSE g[i - 1] \o s[i]
    <3>1. CASE i = k
      BY <1>1, <3>1 DEF last
    <3>2. CASE i # k
      <4>1. i \in 1 .. k - 1 /\ g[i] = f[i] /\ (i # 1 => g[i - 1] = f[i - 1])
        BY <1>1, <3>2
      <4> QED BY <2>1, <4>1 DEF Joins
    <3> QED BY <3>1, <3>2
  <2>5. Joins(g, s, k)
    BY <2>4 DEF Joins
  <2> HIDE DEF g
  <2> QED BY <1>1, <2>3, <2>5
<1>4. 0 .. n \subseteq T
  <2> HIDE DEF T
  <2> QED BY <1>1, <1>2, <1>3, Counts!Induction
<1>5. n \in T
  <2> HIDE DEF T
  <2> QED BY <1>1, <1>4
<1> QED BY <1>5

(* There is one way to do it. *)
LEMMA JoinsUnique ==
  ASSUME NEW s, NEW n \in Nat, NEW f, NEW g, Joins(f, s, n), Joins(g, s, n)
  PROVE  \A i \in 1 .. n : f[i] = g[i]
<1> DEFINE T == {k \in 0 .. n : k = 0 \/ f[k] = g[k]}
<1>1. 0 \in T
  OBVIOUS
<1>2. ASSUME NEW k \in 1 .. n, k - 1 \in T  PROVE k \in T
  BY <1>2 DEF Joins
<1> HIDE DEF T
<1>3. 0 .. n \subseteq T
  BY <1>1, <1>2, Counts!Induction
<1> QED BY <1>3 DEF T

(* FlattenSeq does it. *)
LEMMA Flattened ==
  ASSUME NEW S, NEW s \in Seq(Seq(S)), s # <<>>
  PROVE  \E f \in [1 .. Len(s) -> Seq(S)] :
           Joins(f, s, Len(s)) /\ Seqs!FlattenSeq(s) = f[Len(s)]
<1>1. PICK f \in [1 .. Len(s) -> Seq(S)] : Joins(f, s, Len(s))
  BY JoinsExist
<1>2. Len(s) \in Nat \ {0}
  OBVIOUS
<1> DEFINE P(h) == h = [i \in 1 .. Len(s) |-> IF i = 1 THEN s[i] ELSE h[i - 1] \o s[i]]
           c == CHOOSE h : P(h)
<1>3. P(f)
  BY <1>1 DEF Joins
<1>4. P(c)
  BY <1>3, Zenon
<1> HIDE DEF c
<1>5. Joins(c, s, Len(s))
  BY <1>4 DEF Joins
<1>6. Seqs!FlattenSeq(s) = c[Len(s)]
  BY <1>2 DEF Seqs!FlattenSeq, c
<1>7. c[Len(s)] = f[Len(s)]
  BY <1>1, <1>2, <1>5, JoinsUnique
<1> QED BY <1>1, <1>6, <1>7

LEMMA FlattenNone == Seqs!FlattenSeq(<<>>) = <<>>
  BY DEF Seqs!FlattenSeq

(* One more at the end. *)
LEMMA FlattenAppend ==
  ASSUME NEW S, NEW s \in Seq(Seq(S)), NEW p \in Seq(S)
  PROVE  /\ Seqs!FlattenSeq(s) \in Seq(S)
         /\ Seqs!FlattenSeq(Append(s, p)) = Seqs!FlattenSeq(s) \o p
<1> DEFINE n == Len(s)
           t == Append(s, p)
<1>1. /\ n \in Nat /\ t \in Seq(Seq(S)) /\ t # <<>> /\ Len(t) = n + 1
      /\ \A i \in 1 .. n : t[i] = s[i]
      /\ t[n + 1] = p
  BY AppendProperties, LenProperties, EmptySeq
<1> HIDE DEF t
<1>2. PICK g \in [1 .. n + 1 -> Seq(S)] :
        Joins(g, t, n + 1) /\ Seqs!FlattenSeq(t) = g[n + 1]
  BY <1>1, Flattened
<1>3. CASE s = <<>>
  <2>1. n = 0 /\ g[1] = t[1] /\ t[1] = p
    BY <1>1, <1>2, <1>3 DEF Joins
  <2>2. Seqs!FlattenSeq(s) = <<>> /\ <<>> \o p = p
    BY <1>3, FlattenNone
  <2>3. Seqs!FlattenSeq(t) = p /\ Seqs!FlattenSeq(s) = <<>> /\ <<>> \in Seq(S)
    BY <1>2, <2>1, <2>2
  <2> QED BY <2>2, <2>3 DEF t
<1>4. CASE s # <<>>
  <2>1. PICK f \in [1 .. n -> Seq(S)] : Joins(f, s, n) /\ Seqs!FlattenSeq(s) = f[n]
    BY <1>4, Flattened
  <2>2. n # 0 /\ n + 1 # 1 /\ n + 1 \in 1 .. n + 1 /\ (n + 1) - 1 = n /\ n \in 1 .. n
    BY <1>1, <1>4
  <2>3. Joins(g, s, n)
    <3>1. \A i \in 1 .. n : i \in 1 .. n + 1 /\ (i # 1 => i - 1 \in 1 .. n)
      BY <1>1
    <3> QED BY <1>1, <1>2, <3>1 DEF Joins
  <2>4. g[n] = f[n]
    BY <1>1, <2>1, <2>2, <2>3, JoinsUnique
  <2>5. g[n + 1] = g[n] \o p
    BY <1>1, <1>2, <2>2 DEF Joins
  <2>6. f[n] \in Seq(S)
    BY <2>1, <2>2
  <2> QED BY <1>2, <2>1, <2>4, <2>5, <2>6 DEF t
<1> QED BY <1>3, <1>4

(* The first of them, and the rest. *)
LEMMA FlattenTail ==
  ASSUME NEW S, NEW s \in Seq(Seq(S)), s # <<>>
  PROVE  /\ Head(s) \in Seq(S) /\ Tail(s) \in Seq(Seq(S))
         /\ Seqs!FlattenSeq(Tail(s)) \in Seq(S)
         /\ Seqs!FlattenSeq(s) = Head(s) \o Seqs!FlattenSeq(Tail(s))
<1> DEFINE t == Tail(s)
           h == Head(s)
           n == Len(t)
<1>1. /\ h \in Seq(S) /\ t \in Seq(Seq(S)) /\ n \in Nat /\ Len(s) = n + 1 /\ h = s[1]
      /\ \A i \in 1 .. n : t[i] = s[i + 1] /\ t[i] \in Seq(S)
  OBVIOUS
<1> HIDE DEF t, h
<1>2. PICK f \in [1 .. n + 1 -> Seq(S)] :
        Joins(f, s, n + 1) /\ Seqs!FlattenSeq(s) = f[n + 1]
  BY <1>1, Flattened
<1>3. f[1] = h
  BY <1>1, <1>2 DEF Joins
<1>4. CASE t = <<>>
  <2>1. n = 0
    BY <1>4
  <2>2. Seqs!FlattenSeq(t) = <<>> /\ <<>> \in Seq(S) /\ h \o <<>> = h
    BY <1>1, <1>4, FlattenNone
  <2>3. Seqs!FlattenSeq(t) \in Seq(S) /\ Seqs!FlattenSeq(s) = h \o Seqs!FlattenSeq(t)
    BY <1>2, <1>3, <2>1, <2>2
  <2> QED BY <1>1, <2>3 DEF t, h
<1>5. CASE t # <<>>
  <2>1. PICK g \in [1 .. n -> Seq(S)] : Joins(g, t, n) /\ Seqs!FlattenSeq(t) = g[n]
    BY <1>1, <1>5, Flattened
  <2>2. n \in 1 .. n /\ n # 0
    BY <1>1, <1>5
  <2> DEFINE T == {k \in 0 .. n : k = 0 \/ f[k + 1] = h \o g[k]}
  <2>3. 0 \in T
    BY <1>1
  <2>4. ASSUME NEW k \in 1 .. n, k - 1 \in T  PROVE k \in T
    <3>1. /\ k + 1 \in 1 .. n + 1 /\ k + 1 # 1 /\ (k + 1) - 1 = k /\ k \in 1 .. n /\ k \in 0 .. n
          /\ (k - 1) + 1 = k
      BY <1>1, <2>4
    <3>2. f[k + 1] = f[k] \o t[k]
      BY <1>1, <1>2, <3>1 DEF Joins
    <3>3. CASE k = 1
      <4>1. g[1] = t[1]
        BY <2>1, <2>2, <3>1, <3>3 DEF Joins
      <4> QED BY <1>3, <3>1, <3>2, <3>3, <4>1
    <3>4. CASE k # 1
      <4>1. k - 1 # 0 /\ k - 1 \in 1 .. n
        BY <1>1, <3>4
      <4>2. f[k] = h \o g[k - 1]
        BY <2>4, <3>1, <4>1
      <4>3. g[k] = g[k - 1] \o t[k]
        BY <2>1, <3>1, <3>4 DEF Joins
      <4>4. g[k - 1] \in Seq(S) /\ t[k] \in Seq(S) /\ h \in Seq(S)
        BY <1>1, <2>1, <3>1, <4>1
      <4>5. (h \o g[k - 1]) \o t[k] = h \o (g[k - 1] \o t[k])
        <5>1. Regroups(h, g[k - 1], t[k])
          BY <4>4, Regroup
        <5> QED BY <5>1 DEF Regroups
      <4> QED BY <3>1, <3>2, <4>2, <4>3, <4>5
    <3> QED BY <3>3, <3>4
  <2> HIDE DEF T
  <2>5. 0 .. n \subseteq T
    BY <1>1, <2>3, <2>4, Counts!Induction
  <2>6. f[n + 1] = h \o g[n] /\ g[n] \in Seq(S)
    <3>1. n \in 0 .. n
      BY <1>1
    <3> QED BY <2>1, <2>2, <2>5, <3>1 DEF T
  <2> QED BY <1>1, <1>2, <2>1, <2>6 DEF t, h
<1> QED BY <1>4, <1>5
-----------------------------------------------------------------------------
(* Receiving *)

RecvTypeOK ==
  /\ TypeOK
  /\ net \in Seq(Bytes)
  /\ outstanding \in Seq(Inputs)

RecvInv == RecvTypeOK /\ StreamIntact

(* Packets are sequences of bytes. *)
LEMMA PacketsFlatten ==
  ASSUME NEW s \in Seq(Inputs)
  PROVE  s \in Seq(Seq(Bytes)) /\ Seqs!FlattenSeq(s) \in Seq(Bytes)
<1>1. s \in Seq(Seq(Bytes))
  BY InputsAssumption
<1>2. <<>> \in Seq(Bytes)
  OBVIOUS
<1> QED BY <1>1, <1>2, FlattenAppend

(* A sequence is its first n elements and the others. *)
LEMMA CutInTwo ==
  ASSUME NEW S, NEW s \in Seq(S), NEW n \in 0 .. Len(s)
  PROVE  /\ SubSeq(s, 1, n) \in Seq(S) /\ Len(SubSeq(s, 1, n)) = n
         /\ SubSeq(s, n + 1, Len(s)) \in Seq(S)
         /\ s = SubSeq(s, 1, n) \o SubSeq(s, n + 1, Len(s))
<1> DEFINE a == SubSeq(s, 1, n)
           b == SubSeq(s, n + 1, Len(s))
<1>1. /\ a \in Seq(S) /\ Len(a) = n /\ b \in Seq(S) /\ Len(b) = Len(s) - n
      /\ \A i \in 1 .. n : a[i] = s[i]
      /\ \A i \in 1 .. Len(s) - n : b[i] = s[n + i]
  OBVIOUS
<1> HIDE DEF a, b
<1>2. Len(s) \in Nat /\ n \in Nat /\ Len(a) + Len(b) = Len(s)
  BY <1>1
<1>3. /\ a \o b \in Seq(S) /\ Len(a \o b) = Len(a) + Len(b)
      /\ \A i \in 1 .. Len(s) : (a \o b)[i] = IF i <= n THEN a[i] ELSE b[i - n]
  BY <1>1, <1>2, ConcatProperties
<1>5. ASSUME NEW i \in 1 .. Len(s)  PROVE (a \o b)[i] = s[i]
  <2>1. CASE i <= n
    BY <1>1, <1>2, <1>3, <2>1
  <2>2. CASE ~(i <= n)
    <3>1. i - n \in 1 .. Len(s) - n /\ n + (i - n) = i
      BY <1>2, <2>2
    <3> QED BY <1>1, <1>3, <2>2, <3>1
  <2> QED BY <2>1, <2>2
<1>4. s = a \o b
  BY <1>2, <1>3, <1>5, SeqEqual
<1> QED BY <1>1, <1>4 DEF a, b

(* Two ways to put the same bytes together. *)
SameBytes(a, b, p, r) == a \o b = p \o r

(* What comes first is the same, as far as both have it. *)
LEMMA SamePrefix ==
  ASSUME NEW S, NEW a \in Seq(S), NEW b \in Seq(S), NEW p \in Seq(S), NEW r \in Seq(S),
         SameBytes(a, b, p, r), Len(p) <= Len(a)
  PROVE  /\ \A i \in 1 .. Len(p) : a[i] = p[i]
         /\ SubSeq(a, 1, Len(p)) = p
         /\ SubSeq(a, Len(p) + 1, Len(a)) \o b = r
<1> DEFINE n == Len(p)
           d == SubSeq(a, n + 1, Len(a))
<1>1. n \in Nat /\ Len(a) \in Nat /\ n \in 0 .. Len(a)
  OBVIOUS
<1>2. \A i \in 1 .. n : (a \o b)[i] = a[i] /\ (p \o r)[i] = p[i]
  BY <1>1
<1>3. \A i \in 1 .. n : a[i] = p[i]
  BY <1>2 DEF SameBytes
<1>4. SubSeq(a, 1, n) = p
  <2>1. SubSeq(a, 1, n) \in Seq(S) /\ Len(SubSeq(a, 1, n)) = n
    BY <1>1, CutInTwo
  <2>2. \A i \in 1 .. n : SubSeq(a, 1, n)[i] = a[i]
    BY <1>1
  <2> QED BY <1>3, <2>1, <2>2, SeqEqual
<1>5. d \in Seq(S) /\ a = p \o d
  BY <1>1, <1>4, CutInTwo
<1> HIDE DEF d
<1>6. p \o (d \o b) = p \o r
  <2>1. (p \o d) \o b = p \o (d \o b)
    <3>1. p \in Seq(S) /\ d \in Seq(S) /\ b \in Seq(S)
      BY <1>5
    <3>2. Regroups(p, d, b)
      BY <3>1, Regroup
    <3> QED BY <3>2 DEF Regroups
  <2> QED BY <1>5, <2>1, Zenon DEF SameBytes
<1>7. d \o b = r
  <2>1. d \o b \in Seq(S)
    BY <1>5
  <2> DEFINE e == d \o b
  <2> HIDE DEF e
  <2>2. e \in Seq(S) /\ p \o e = p \o r
    BY <1>6, <2>1 DEF e
  <2>3. e = r
    BY <2>2, ConcatSimplifications
  <2> QED BY <2>3 DEF e
<1> QED BY <1>3, <1>4, <1>7 DEF d

(* A receive: what of it fits goes behind the contents. *)
LEMMA ArriveStep ==
  ASSUME RecvInv, NEW n \in 1 .. Len(net), Arrive(n)
  PROVE  RecvInv'
<1> DEFINE s == SubSeq(net, 1, n)
           rest == SubSeq(net, n + 1, Len(net))
<1>1. /\ TypeOK /\ net \in Seq(Bytes) /\ outstanding \in Seq(Inputs)
      /\ Rear \in Positions /\ Front \in Positions /\ bufSize \in Nat \ {0}
  BY BufSizeAssumption DEF RecvInv, RecvTypeOK, TypeOK
<1>2. /\ n \in Nat /\ s \in Seq(Bytes) /\ Len(s) = n /\ rest \in Seq(Bytes)
      /\ net = s \o rest
  <2>1. n \in 0 .. Len(net)
    BY <1>1
  <2> QED BY <1>1, <2>1, CutInTwo
<1>3. /\ phase = "pending"
      /\ net' = rest
      /\ buffer' = Written(Rear, s)
      /\ Rear' = IF Rear + n >= bufSize THEN Ahead(Rear, n) ELSE Rear + n
      /\ phase' = IF n > getFreeSize THEN "overrun" ELSE "parse"
      /\ Front' = Front /\ outstanding' = outstanding /\ astray' = astray
  BY DEF Arrive
<1> HIDE DEF s, rest
<1>4. Rear' = Ahead(Rear, n) /\ Rear' \in Positions
  <2>1. Ahead(Rear, n) \in Positions
    BY <1>1, <1>2 DEF Ahead, Positions
  <2>3. Rear + n < bufSize => Ahead(Rear, n) = Rear + n
    <3>1. Rear + n < bufSize => n \in 0 .. bufSize
      BY <1>1, <1>2 DEF Positions
    <3> QED BY <1>1, <3>1, AheadLands
  <2>2. Rear + n < bufSize \/ Rear + n >= bufSize
    BY <1>1, <1>2 DEF Positions
  <2> QED BY <1>1, <1>2, <1>3, <2>1, <2>2, <2>3 DEF Positions
<1>5. TypeOK'
  <2>1. buffer' \in [Positions -> Bytes]
    BY <1>1, <1>2, <1>3, WrittenType
  <2> QED BY <1>1, <1>3, <1>4, <2>1 DEF TypeOK
<1>6. RecvTypeOK'
  BY <1>1, <1>2, <1>3, <1>5 DEF RecvTypeOK
<1>7. CASE n > getFreeSize
  BY <1>3, <1>6, <1>7 DEF RecvInv, StreamIntact
<1>8. CASE ~(n > getFreeSize) /\ astray
  BY <1>3, <1>6, <1>8 DEF RecvInv, StreamIntact
<1>9. CASE ~(n > getFreeSize) /\ ~astray
  <2>1. getFreeSize \in Int
    BY <1>1, ContentsType DEF getFreeSize
  <2>2. Contents' = Contents \o s
    BY <1>1, <1>2, <1>3, <1>4, <1>9, <2>1, ContentsGrow
  <2>3. Contents \o net = Seqs!FlattenSeq(outstanding)
    BY <1>3, <1>9 DEF RecvInv, StreamIntact, Arrive
  <2>4. Contents' \o net' = Contents \o net
    <3>1. (Contents \o s) \o rest = Contents \o (s \o rest)
      BY <1>1, <1>2, ContentsType, Regroup DEF Regroups
    <3> QED BY <1>2, <1>3, <2>2, <3>1, Zenon
  <2>5. Contents' \o net' = Seqs!FlattenSeq(outstanding')
    BY <1>3, <2>3, <2>4
  <2> QED BY <1>3, <1>6, <1>9, <2>5 DEF RecvInv, StreamIntact
<1> QED BY <1>7, <1>8, <1>9

(* A packet is sent. *)
LEMMA SendStep ==
  ASSUME RecvInv, NEW p \in Inputs, Send(p)
  PROVE  RecvInv'
<1>1. /\ TypeOK /\ net \in Seq(Bytes) /\ outstanding \in Seq(Inputs) /\ p \in Seq(Bytes)
      /\ net' = net \o p /\ outstanding' = IF astray THEN outstanding ELSE Append(outstanding, p)
      /\ UNCHANGED <<buffer, Rear, Front, dest, ret, phase, astray>>
  BY InputsAssumption DEF RecvInv, RecvTypeOK, Send, vars
<1>2. /\ TypeOK' /\ Contents' = Contents /\ getUsedSize' = getUsedSize /\ dest' = dest
      /\ phase' = phase
  BY <1>1 DEF TypeOK, Contents, Read, getUsedSize
<1>3. outstanding' \in Seq(Inputs) /\ net' \in Seq(Bytes)
  BY <1>1
<1>4. ~astray => Seqs!FlattenSeq(outstanding') = Seqs!FlattenSeq(outstanding) \o p
  BY <1>1, PacketsFlatten, FlattenAppend
<1>5. Contents' \o net' = (Contents \o net) \o p
  <2>1. Contents \in Seq(Bytes) /\ net \in Seq(Bytes) /\ p \in Seq(Bytes)
    BY <1>1, ContentsType
  <2>2. (Contents \o net) \o p = Contents \o (net \o p)
    BY <2>1, Regroup DEF Regroups
  <2> QED BY <1>1, <1>2, <2>2, Zenon
<1> QED BY <1>1, <1>2, <1>3, <1>4, <1>5 DEF RecvInv, RecvTypeOK, StreamIntact

(* What a step that takes nothing off the ring leaves alone. *)
LEMMA PhaseStep ==
  ASSUME RecvInv, UNCHANGED <<buffer, Rear, Front, dest, ret, net, outstanding, astray>>,
         phase' = phase \/ (phase \notin {"crashed", "overrun"} /\ phase' # "crashed")
  PROVE  RecvInv'
<1>1. TypeOK' = TypeOK /\ Contents' = Contents /\ getUsedSize' = getUsedSize
  BY DEF TypeOK, Contents, Read, getUsedSize
<1> QED BY <1>1 DEF RecvInv, RecvTypeOK, StreamIntact

(* A packet is taken off whole; or all that there is of a header, or        *)
(* anything at all once that has happened.                                  *)
LEMMA TakeStep ==
  ASSUME RecvInv, Take
  PROVE  RecvInv'
<1> DEFINE u == getUsedSize
           H == HeaderSize
<1>1. /\ TypeOK /\ net \in Seq(Bytes) /\ outstanding \in Seq(Inputs)
      /\ Rear \in Positions /\ Front \in Positions /\ bufSize \in Nat \ {0}
      /\ H \in Nat \ {0} /\ LengthAt \in 1 .. H /\ SbufSize \in Nat
      /\ ~astray => Contents \o net = Seqs!FlattenSeq(outstanding)
  BY BufSizeAssumption, HeaderAssumption DEF RecvInv, RecvTypeOK, TypeOK, StreamIntact, Take
<1>2. /\ Contents \in Seq(Bytes) /\ Len(Contents) = u /\ u \in 0 .. bufSize - 1 /\ u \in Nat
  BY <1>1, ContentsType
<1>3. PICK len \in HeadLens :
        /\ phase = "parse" /\ u # 0 /\ (u < H \/ u - H >= len)
        /\ dequeue(H + len)
        /\ astray' = (astray \/ u < H) /\ net' = net
        /\ \/ len > SbufSize /\ UNCHANGED <<phase, outstanding>>
           \/ /\ len <= SbufSize
              /\ \E decoded \in Decodes(dest') :
                   /\ phase' = IF decoded THEN phase ELSE "crashed"
                   /\ outstanding' =
                        IF decoded /\ ~astray' THEN Tail(outstanding) ELSE outstanding
  BY DEF Take, Complete
<1>4. len \in Nat /\ (u >= LengthAt => len = Contents[LengthAt])
  <2>1. CASE u < LengthAt
    BY <1>1, <1>2, <2>1 DEF HeadLens
  <2>2. CASE u >= LengthAt
    <3>1. len = Read(Front, LengthAt)[LengthAt] /\ LengthAt \in 1 .. u
      BY <1>1, <1>2, <2>2 DEF HeadLens
    <3>2. Read(Front, LengthAt)[LengthAt] = Contents[LengthAt]
      BY <1>1, <1>2, <3>1 DEF Contents, Read
    <3>3. Contents[LengthAt] \in Bytes
      BY <1>2, <3>1
    <3> QED BY <3>1, <3>2, <3>3, BytesAssumption
  <2> QED BY <1>1, <1>2, <2>1, <2>2
<1>5. PICK k \in 0 .. u : k = Least(H + len, u)
  BY <1>1, <1>2, <1>4 DEF Least
<1>6. /\ UNCHANGED <<buffer, Rear>> /\ dest' = Read(Front, k) /\ Front' = Ahead(Front, k)
  BY <1>3, <1>5 DEF dequeue
<1>7. /\ TypeOK'
      /\ dest' = SubSeq(Contents, 1, k)
      /\ Contents' = SubSeq(Contents, k + 1, u)
  <2>1. Front = Ahead(Front, 0)
    BY <1>1, AheadLands DEF Positions
  <2>2. Read(Ahead(Front, 0), k) = SubSeq(Contents, 0 + 1, 0 + k)
    BY <1>1, <1>2, <1>5, ReadInside
  <2>3. Front' \in Positions
    BY <1>1, <1>2, <1>5, <1>6, AheadLands
  <2> QED BY <1>1, <1>2, <1>5, <1>6, <2>1, <2>2, <2>3, ContentsShrink DEF TypeOK
<1>8. CASE astray \/ u < H
  <2>1. astray'
    BY <1>3, <1>8
  <2>2. outstanding' = outstanding
    BY <1>3, <2>1
  <2> QED BY <1>1, <1>3, <1>7, <2>1, <2>2 DEF RecvInv, RecvTypeOK, StreamIntact
<1>9. CASE ~astray /\ ~(u < H)
  <2>1. outstanding # <<>>
    BY <1>1, <1>2, <1>3, <1>9, FlattenNone, EmptySeq, ConcatProperties
  <2> DEFINE p == Head(outstanding)
             r == Seqs!FlattenSeq(Tail(outstanding))
  <2>2. /\ p \in Inputs /\ p \in Seq(Bytes) /\ r \in Seq(Bytes)
        /\ Tail(outstanding) \in Seq(Inputs)
        /\ Contents \o net = p \o r
    <3>1. p \in Inputs /\ Tail(outstanding) \in Seq(Inputs)
      BY <1>1, <2>1
    <3>2. p \in Seq(Bytes) /\ r \in Seq(Bytes) /\ Seqs!FlattenSeq(outstanding) = p \o r
      BY <1>1, <2>1, PacketsFlatten, FlattenTail
    <3> QED BY <1>1, <1>9, <3>1, <3>2
  <2> HIDE DEF p
  <2>3. Len(p) \in Nat /\ Len(p) >= H /\ p[LengthAt] = Len(p) - H /\ p[LengthAt] <= SbufSize
    BY <2>2, PacketsAssumption
  <2>4. len = p[LengthAt]
    <3>1. LengthAt \in 1 .. u /\ LengthAt \in 1 .. Len(p)
      BY <1>1, <1>2, <1>9, <2>3
    <3>2. (Contents \o net)[LengthAt] = Contents[LengthAt]
      BY <1>1, <1>2, <3>1
    <3>3. (p \o r)[LengthAt] = p[LengthAt]
      BY <2>2, <3>1
    <3> QED BY <1>2, <1>4, <2>2, <3>1, <3>2, <3>3
  <2>5. k = Len(p) /\ Len(p) <= u /\ len <= SbufSize
    BY <1>1, <1>2, <1>3, <1>5, <1>9, <2>3, <2>4 DEF Least
  <2>6. dest' = p /\ Contents' \o net = r
    <3> DEFINE c == Contents
    <3>1. c \in Seq(Bytes) /\ c \o net = p \o r /\ Len(c) = u
      BY <1>2, <2>2
    <3>2. dest' = SubSeq(c, 1, Len(p)) /\ Contents' = SubSeq(c, Len(p) + 1, Len(c))
      BY <1>2, <1>7, <2>5
    <3> HIDE DEF c
    <3>3. /\ c \in Seq(Bytes) /\ net \in Seq(Bytes) /\ p \in Seq(Bytes) /\ r \in Seq(Bytes)
          /\ SameBytes(c, net, p, r) /\ Len(p) <= Len(c)
      BY <1>1, <2>2, <2>5, <3>1 DEF SameBytes
    <3>4. SubSeq(c, 1, Len(p)) = p /\ SubSeq(c, Len(p) + 1, Len(c)) \o net = r
      BY <3>3, SamePrefix
    <3> QED BY <3>2, <3>4
  <2>7. Decodes(dest') = {TRUE}
    BY <1>9, <2>2, <2>6 DEF Decodes
  <2>8. phase' = phase /\ outstanding' = Tail(outstanding) /\ ~astray' /\ phase = "parse"
    <3>1. ~astray' /\ phase = "parse"
      BY <1>3, <1>9
    <3>2. ~(len > SbufSize)
      BY <1>1, <1>4, <2>5
    <3>3. \A decoded \in Decodes(dest') : decoded = TRUE
      BY <2>7
    <3>4. PICK decoded \in Decodes(dest') :
            /\ phase' = IF decoded THEN phase ELSE "crashed"
            /\ outstanding' = IF decoded /\ ~astray' THEN Tail(outstanding) ELSE outstanding
      BY <1>3, <3>2
    <3> QED BY <3>1, <3>3, <3>4
  <2> QED BY <1>1, <1>3, <1>7, <2>2, <2>6, <2>8 DEF RecvInv, RecvTypeOK, StreamIntact
<1> QED BY <1>8, <1>9

LEMMA RecvInitially == RecvInit => RecvInv
<1> SUFFICES ASSUME RecvInit PROVE RecvInv
  OBVIOUS
<1>1. TypeOK
  BY BufSizeAssumption DEF RecvInit, Init, TypeOK, Positions
<1>2. getUsedSize = 0 /\ Contents = <<>>
  <2>1. getUsedSize = 0
    BY DEF RecvInit, Init, getUsedSize, dummyUsedSize
  <2> QED BY <2>1 DEF Contents, Read
<1>3. net = <<>> /\ outstanding = <<>> /\ phase = "post" /\ <<>> \o <<>> = <<>>
  BY DEF RecvInit
<1> QED BY <1>1, <1>2, <1>3, FlattenNone
        DEF RecvInv, RecvTypeOK, StreamIntact

LEMMA RecvStep ==
  ASSUME RecvInv, [RecvNext]_recvVars
  PROVE  RecvInv'
<1>1. ASSUME NEW p \in Inputs, Send(p)  PROVE RecvInv'
  BY <1>1, SendStep
<1>2. CASE RecvPost
  BY <1>2, PhaseStep DEF RecvPost, vars
<1>3. CASE NoRoom
  BY <1>3, PhaseStep DEF NoRoom, vars
<1>4. CASE Take
  BY <1>4, TakeStep
<1>5. CASE NoMore
  BY <1>5, PhaseStep DEF NoMore, Waits, vars
<1>6. ASSUME NEW n \in 1 .. Len(net), Arrive(n)  PROVE RecvInv'
  BY <1>6, ArriveStep
<1>7. CASE UNCHANGED recvVars
  <2>1. /\ UNCHANGED <<buffer, Rear, Front, dest, ret, net, outstanding, astray>>
        /\ phase' = phase
    BY <1>7 DEF recvVars, vars
  <2> QED BY <2>1, PhaseStep
<1> QED BY <1>1, <1>2, <1>3, <1>4, <1>5, <1>6, <1>7 DEF RecvNext

(* No receive overwrites what is not read yet, OnRecv gets every packet     *)
(* whole, once and in order, and none fails to decode (IOCPServer.cpp:327-  *)
(* 467), whatever the packets, wherever TCP cuts them and however large the *)
(* ring is: until a receive fills it or a part of a header is taken for a   *)
(* packet.                                                                  *)
THEOREM StreamTheorem == RecvSpec => []StreamIntact
<1>1. RecvInv => StreamIntact
  BY DEF RecvInv
<1> QED BY <1>1, RecvInitially, RecvStep, PTL DEF RecvSpec
=============================================================================
