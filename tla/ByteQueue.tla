----------------------------- MODULE ByteQueue -----------------------------
(***************************************************************************)
(* What winBuffer promises: a queue of at most Capacity bytes.  Bytes are  *)
(* never overwritten, they come out once, in order, as they went in.       *)
(***************************************************************************)
EXTENDS Integers, Sequences

CONSTANTS Bytes, Capacity, Inputs

VARIABLES
  queue,  \* the bytes inside
  got,    \* the bytes the last read copied out
  last    \* the last call and its number of bytes

vars == <<queue, got, last>>

Init == queue = <<>> /\ got = <<>> /\ last = [call |-> "none", n |-> 0]

Called(call, n) == last' = [call |-> call, n |-> n]

(* A writer may get only the first bytes in. *)
Put(s) ==
  /\ \E n \in 0 .. Len(s) :
       Called("put", n) /\ queue' = queue \o SubSeq(s, 1, n)
  /\ Len(queue') <= Capacity
  /\ UNCHANGED got

(* The receive of a whole string. *)
Receive(s) ==
  /\ Called("receive", Len(s))
  /\ queue' = queue \o s
  /\ Len(queue') <= Capacity
  /\ UNCHANGED got

Get(n) ==
  /\ Called("get", n)
  /\ n <= Len(queue)
  /\ got' = SubSeq(queue, 1, n)
  /\ queue' = SubSeq(queue, n + 1, Len(queue))

Look(pos, n) ==
  /\ Called("look", n)
  /\ pos + n <= Len(queue)
  /\ got' = SubSeq(queue, pos + 1, pos + n)
  /\ UNCHANGED queue

Skip(n) ==
  /\ Called("skip", n)
  /\ n <= Len(queue)
  /\ queue' = SubSeq(queue, n + 1, Len(queue))
  /\ UNCHANGED got

Clear == Called("clear", 0) /\ queue' = <<>> /\ UNCHANGED got

Next ==
  \/ \E s \in Inputs : Put(s) \/ Receive(s)
  \/ \E n \in 0 .. Capacity : Get(n) \/ Skip(n) \/ \E pos \in 0 .. Capacity : Look(pos, n)
  \/ Clear

Spec == Init /\ [][Next]_vars
=============================================================================
