------------------------------- MODULE Fifo -------------------------------
(***************************************************************************)
(* What a queue promises: values leave in the order in which they came,    *)
(* each once.  Several values may come at once: an enqueue that linked to  *)
(* a node not yet in the queue comes with that node.                       *)
(***************************************************************************)
EXTENDS SequencesExt

CONSTANT Values

VARIABLES
  queue,  \* first to last
  taken   \* the values dequeued, in order

vars == <<queue, taken>>

Init == queue = <<>> /\ taken = <<>>

Enqueue(s) ==
  /\ s # <<>> /\ IsInjective(s)
  /\ ToSet(s) \cap (ToSet(queue) \cup ToSet(taken)) = {}
  /\ queue' = queue \o s
  /\ UNCHANGED taken

Dequeue ==
  /\ queue # <<>>
  /\ queue' = Tail(queue)
  /\ taken' = Append(taken, Head(queue))

Next == (\E s \in SeqOf(Values, 2) : Enqueue(s)) \/ Dequeue

Spec == Init /\ [][Next]_vars
=============================================================================
