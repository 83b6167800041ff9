----------------------------- MODULE WinBuffer -----------------------------
(***************************************************************************)
(* The byte ring of winQueue.h/.cpp: every session's recvQ.  One byte of   *)
(* the buffer stays free, so that Front = Rear means empty.  One thread at *)
(* a time uses a ring: the next receive is posted by the thread that took  *)
(* the packets of the last one.                                            *)
(*                                                                         *)
(* Received stands for the kernel, which writes at getRearPosPtr() and     *)
(* getBufferPtr(), followed by moveRearPos.  The callers of moveRearPos    *)
(* and removeData must not go past the free or the used bytes; RecvQueue   *)
(* shows whether they keep to it.  moveFrontPos has no caller and is left  *)
(* out.                                                                    *)
(***************************************************************************)
EXTENDS Integers, Sequences

CONSTANTS
  bufSize,  \* bytes in the buffer
  Bytes,    \* the values of a byte
  Inputs    \* the byte strings that callers put in

ASSUME BufSizeAssumption == bufSize \in Nat \ {0}
ASSUME InputsAssumption == Inputs \subseteq Seq(Bytes)

VARIABLES
  buffer,  \* the array, from 0
  Rear,    \* where the next byte goes
  Front,   \* where the oldest byte is
  dest,    \* what the last peek or dequeue copied out
  ret      \* the last call, and the number of bytes it returned or was given

vars == <<buffer, Rear, Front, dest, ret>>

Returns(call, n) == ret' = [call |-> call, n |-> n]

Positions == 0 .. bufSize - 1
-----------------------------------------------------------------------------
(* Sizes *)

(* A mutant: a wrapped ring as getNotBrokenUsedSize sees it (l.70). *)
dummyUsedSizeUnbroken(rear, front) ==
  IF rear - front >= 0 THEN rear - front ELSE bufSize - front

dummyUsedSize(rear, front) ==
  IF rear - front >= 0 THEN rear - front ELSE bufSize - front + rear

(* enqueue's own idea of the free room: with rear + front for rear - front *)
(* it is too small, and negative at times.                                 *)
dummyFreeSize(rear, front) ==
  IF rear - front >= 0 THEN bufSize - (rear + front) - 1 ELSE front - rear - 1

getUsedSize == dummyUsedSize(Rear, Front)
getFreeSize == bufSize - getUsedSize - 1

(* With Rear >= Front it counts the byte that must stay free, too, if the  *)
(* free room ends with the buffer (Front = 0).                             *)
getNotBrokenFreeSize ==
  IF Rear - Front >= 0 THEN bufSize - Rear ELSE Front - Rear - 1

(* Going n bytes on from pos: moveRearPos, removeData and the loops.       *)
Ahead(pos, n) == (pos + n) % bufSize

(* The n bytes from pos on. *)
Read(pos, n) == [i \in 1 .. n |-> buffer[Ahead(pos, i - 1)]]

(* The distance from pos to i, going forward. *)
Distance(pos, i) == (i - pos) % bufSize

(* The array after s was written from pos on. *)
Written(pos, s) ==
  [i \in Positions |->
     IF Distance(pos, i) < Len(s) THEN s[Distance(pos, i) + 1] ELSE buffer[i]]

Least(a, b) == IF a < b THEN a ELSE b
-----------------------------------------------------------------------------
Init ==
  /\ buffer \in [Positions -> Bytes]
  /\ Rear = 0
  /\ Front = 0
  /\ dest = <<>>
  /\ ret = [call |-> "none", n |-> 0]

(* A mutant: room counted with the byte that must stay free. *)
TakenFull(size) == Least(size, bufSize - getUsedSize)

(* How many of size bytes enqueue takes. *)
Taken(size) ==
  LET free == dummyFreeSize(Rear, Front)
  IN  IF Least(size, free) > 0 THEN Least(size, free) ELSE 0

enqueue(s) ==
  LET count == Taken(Len(s))
  IN  /\ buffer' = Written(Rear, SubSeq(s, 1, count))
      /\ Rear' = Ahead(Rear, count)
      /\ Returns("put", count)
      /\ UNCHANGED <<Front, dest>>

(* A receive of s, l.182-191. *)
Received(s) ==
  /\ Len(s) <= getFreeSize
  /\ buffer' = Written(Rear, s)
  /\ Rear' = IF Rear + Len(s) >= bufSize THEN Ahead(Rear, Len(s)) ELSE Rear + Len(s)
  /\ Returns("receive", Len(s))
  /\ UNCHANGED <<Front, dest>>

dequeue(size) ==
  LET count == Least(size, getUsedSize)
  IN  /\ getUsedSize # 0
      /\ dest' = Read(Front, count)
      /\ Front' = Ahead(Front, count)
      /\ Returns("get", count)
      /\ UNCHANGED <<buffer, Rear>>

peek(size) ==
  /\ getUsedSize # 0
  /\ dest' = Read(Front, Least(size, getUsedSize))
  /\ Returns("look", Least(size, getUsedSize))
  /\ UNCHANGED <<buffer, Rear, Front>>

(* The overload with a position, l.142-159. *)
peekAt(pos, size) ==
  /\ getUsedSize >= pos + size
  /\ dest' = Read(Ahead(Front, pos), size)
  /\ Returns("look", size)
  /\ UNCHANGED <<buffer, Rear, Front>>

removeData(size) ==
  /\ size <= getUsedSize
  /\ Front' = IF Front + size < bufSize THEN Front + size ELSE Ahead(Front, size)
  /\ Returns("skip", size)
  /\ UNCHANGED <<buffer, Rear, dest>>

clearBuffer ==
  /\ Front' = 0
  /\ Rear' = 0
  /\ Returns("clear", 0)
  /\ UNCHANGED <<buffer, dest>>

Next ==
  \/ \E s \in Inputs : enqueue(s) \/ Received(s)
  \/ \E size \in 0 .. bufSize :
       \/ dequeue(size) \/ peek(size) \/ removeData(size)
       \/ \E pos \in 0 .. bufSize : peekAt(pos, size)
  \/ clearBuffer

Spec == Init /\ [][Next]_vars
-----------------------------------------------------------------------------
TypeOK ==
  /\ buffer \in [Positions -> Bytes]
  /\ Rear \in Positions
  /\ Front \in Positions

(* What is in the ring, oldest byte first. *)
Contents == Read(Front, getUsedSize)

Queue == INSTANCE ByteQueue WITH
  Capacity <- bufSize - 1, queue <- Contents, got <- dest, last <- ret

(* The ring is a queue of bufSize - 1 bytes: nothing is overwritten, lost, *)
(* repeated or reordered where the buffer wraps (winQueue.cpp:73-191).     *)
ImplementsByteQueue == Queue!Spec
=============================================================================
