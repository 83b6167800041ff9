--------------------------- MODULE LockFreeQueue ---------------------------
(***************************************************************************)
(* lockFreeQueue<T> (lockFreeQueue.h): sendQ of LanServer and of the       *)
(* virtual client, whose packets any thread queues and the one that holds  *)
(* sendFlag looks at and takes off.  A dummy node is first; head and tail  *)
(* carry a tag, the link to the next node (l.103) does not.                *)
(*                                                                         *)
(* One action is one access to shared memory, except that Alloc and Free   *)
(* of the pool are atomic (ObjectPool), that a call takes its own tag with *)
(* the access before, and that a pair of head or tail is one read where a  *)
(* torn one only makes a compare-and-swap fail.  Freed memory stays        *)
(* readable.  The values are told apart by their number.                   *)
(***************************************************************************)
EXTENDS Integers, FiniteSets, SequencesExt

CONSTANTS
  Producers,  \* the threads that call enqueue
  Consumer,   \* the thread that calls dequeue and peek
  Size,       \* bound of the model: nodes of the pool
  MaxMade     \* bound of the model: values queued

Nodes == 1 .. Size
NULL == 0

VARIABLES
  headTop, tailTop,  \* a node and a tag
  next, data,        \* of each node
  usedSize,
  uniqueIndex,
  free,              \* the nodes in the pool, the last one freed first
  pc,
  node,              \* local of enqueue: _node
  unq,               \* local: the tag of the call
  head,              \* local of the consumer: headTop as read
  tail,              \* local: tailTop as read
  iter,              \* local of peek: where it is, and how many are to go
  made, taken,       \* values queued so far; values dequeued, in order
  astray,            \* history: a node was linked to one outside the queue
  crashed

queue == <<headTop, tailTop, next, data, usedSize, uniqueIndex, free>>
locals == <<node, unq, head, tail, iter>>
history == <<made, taken, astray, crashed>>
vars == <<queue, pc, locals, history>>

Threads == Producers \cup {Consumer}
Nowhere == [node |-> NULL, tag |-> 0]
NoIter == [node |-> NULL, pos |-> 0, left |-> 0]

Init ==
  /\ headTop = [node |-> 1, tag |-> 0] /\ tailTop = headTop
  /\ next = [n \in Nodes |-> NULL] /\ data = [n \in Nodes |-> 0]
  /\ usedSize = 0 /\ uniqueIndex = 0
  /\ free = [i \in 1 .. Size - 1 |-> i + 1]
  /\ pc = [t \in Threads |-> "idle"]
  /\ node = [t \in Threads |-> NULL] /\ unq = [t \in Threads |-> 0]
  /\ head = Nowhere /\ tail = [t \in Threads |-> Nowhere]
  /\ iter = NoIter
  /\ made = 0 /\ taken = <<>>
  /\ astray = FALSE /\ crashed = FALSE

Goto(t, from, to) ==
  /\ ~crashed
  /\ pc[t] = from
  /\ pc' = [pc EXCEPT ![t] = to]

(* The end of a call: its locals are gone. *)
Forget(t) ==
  /\ node' = [node EXCEPT ![t] = NULL]
  /\ unq' = [unq EXCEPT ![t] = 0]
  /\ tail' = [tail EXCEPT ![t] = Nowhere]
  /\ head' = IF t = Consumer THEN Nowhere ELSE head
  /\ iter' = IF t = Consumer THEN NoIter ELSE iter

(* The compare-and-swap of tailTop, l.106, 111 and 139: it moves on by one, *)
(* or somebody else moved it.                                               *)
MoveTail(t) ==
  IF tailTop = tail[t]
  THEN tailTop' = [node |-> next[tail[t].node], tag |-> unq[t]]
  ELSE UNCHANGED tailTop
(* The nodes from n on; cut keeps the list finite. *)
List[n \in Nodes \cup {NULL}, cut \in 0 .. Size] ==
  IF n = NULL \/ cut = 0 THEN <<>> ELSE <<n>> \o List[next[n], cut - 1]
Chain == List[next[headTop.node], Size]
Contents == [i \in 1 .. Len(Chain) |-> data[Chain[i]]]
-----------------------------------------------------------------------------
(* enqueue *)

(* Bound of the model: no call starts after a link went astray; the calls   *)
(* under way go on.                                                         *)
EnqBegin(t) ==
  /\ Goto(t, "idle", "e_tag")
  /\ made < MaxMade /\ free # <<>> /\ ~astray
  /\ made' = made + 1
  /\ uniqueIndex' = uniqueIndex + 1
  /\ unq' = [unq EXCEPT ![t] = uniqueIndex']
  /\ free' = Tail(free)
  /\ node' = [node EXCEPT ![t] = Head(free)]
  /\ data' = [data EXCEPT ![Head(free)] = made']
  /\ next' = [next EXCEPT ![Head(free)] = NULL]
  /\ UNCHANGED <<headTop, tailTop, usedSize, head, tail, iter, taken, astray, crashed>>

EnqReadTag(t) ==
  /\ Goto(t, "e_tag", "e_node")
  /\ tail' = [tail EXCEPT ![t].tag = tailTop.tag]
  /\ UNCHANGED <<queue, node, unq, head, iter, history>>

EnqReadNode(t) ==
  /\ Goto(t, "e_node", "e_next")
  /\ tail' = [tail EXCEPT ![t].node = tailTop.node]
  /\ UNCHANGED <<queue, node, unq, head, iter, history>>

(* l.101 *)
EnqTest(t) ==
  /\ pc[t] = "e_next"
  /\ Goto(t, "e_next", IF next[tail[t].node] = NULL THEN "e_link" ELSE "e_help")
  /\ UNCHANGED <<queue, locals, history>>

EnqHelp(t) ==
  /\ Goto(t, "e_help", "e_tag")
  /\ MoveTail(t)
  /\ UNCHANGED <<headTop, next, data, usedSize, uniqueIndex, free, locals, history>>

(* A mutant: the link is stored, without looking again (l.103). *)
LinkAlways(t) == TRUE

MayLink(t) == next[tail[t].node] = NULL

(* The node linked to may have left the queue, and may be the next node of  *)
(* another thread: the link has no tag.                                     *)
EnqLink(t) ==
  /\ pc[t] = "e_link"
  /\ Goto(t, "e_link", IF MayLink(t) THEN "e_inc" ELSE "e_tag")
  /\ next' = IF MayLink(t) THEN [next EXCEPT ![tail[t].node] = node[t]] ELSE next
  /\ astray' = (astray \/ (MayLink(t) /\ tail[t].node \notin ToSet(Chain) \cup {headTop.node}))
  /\ UNCHANGED <<headTop, tailTop, data, usedSize, uniqueIndex, free, locals>>
  /\ UNCHANGED <<made, taken, crashed>>

EnqCount(t) ==
  /\ Goto(t, "e_inc", "e_move")
  /\ usedSize' = usedSize + 1
  /\ UNCHANGED <<headTop, tailTop, next, data, uniqueIndex, free, locals, history>>

EnqEnd(t) ==
  /\ Goto(t, "e_move", "idle")
  /\ MoveTail(t)
  /\ Forget(t)
  /\ UNCHANGED <<headTop, next, data, usedSize, uniqueIndex, free, history>>
-----------------------------------------------------------------------------
(* dequeue *)

MayTake(n) == n >= 0

(* l.122-129 *)
DeqReserve(t) ==
  /\ Goto(t, "idle", IF MayTake(usedSize - 1) THEN "d_read" ELSE "d_none")
  /\ usedSize' = usedSize - 1
  /\ uniqueIndex' = IF MayTake(usedSize - 1) THEN uniqueIndex + 1 ELSE uniqueIndex
  /\ unq' = [unq EXCEPT ![t] = IF MayTake(usedSize - 1) THEN uniqueIndex + 1 ELSE 0]
  /\ UNCHANGED <<headTop, tailTop, next, data, free, node, head, tail, iter>>
  /\ UNCHANGED <<made, taken, astray, crashed>>

DeqNone(t) ==
  /\ Goto(t, "d_none", "idle")
  /\ usedSize' = usedSize + 1
  /\ UNCHANGED <<headTop, tailTop, next, data, uniqueIndex, free, locals, history>>

(* l.132-135; nobody but the consumer changes headTop. *)
DeqRead(t) ==
  /\ Goto(t, "d_read", "d_test")
  /\ head' = headTop
  /\ tail' = [tail EXCEPT ![t] = tailTop]
  /\ UNCHANGED <<queue, node, unq, iter, history>>

(* l.137 *)
DeqTest(t) ==
  /\ pc[t] = "d_test"
  /\ Goto(t, "d_test", IF next[tail[t].node] # NULL THEN "d_help" ELSE "d_data")
  /\ UNCHANGED <<queue, locals, history>>

DeqHelp(t) ==
  /\ Goto(t, "d_help", "d_read")
  /\ MoveTail(t)
  /\ UNCHANGED <<headTop, next, data, usedSize, uniqueIndex, free, locals, history>>

(* l.143-149: the first node after the dummy, if there is one, becomes the  *)
(* dummy.  With one consumer the compare-and-swap of l.145 succeeds.        *)
DeqTake(t) ==
  LET first == next[head.node]
  IN  /\ pc[t] = "d_data"
      /\ IF first = NULL
         THEN /\ Goto(t, "d_data", "d_data")
              /\ crashed' = TRUE
              /\ UNCHANGED <<headTop, free, taken, locals>>
         ELSE /\ Goto(t, "d_data", "idle")
              /\ headTop' = [node |-> first, tag |-> unq[t]]
              /\ free' = <<head.node>> \o free
              /\ taken' = Append(taken, data[first])
              /\ Forget(t)
              /\ UNCHANGED crashed
      /\ UNCHANGED <<tailTop, next, data, usedSize, uniqueIndex, made, astray>>
-----------------------------------------------------------------------------
(* peek *)

(* l.164-167: the position may be one past the end. *)
PeekBegin(t) ==
  /\ \E pos \in 0 .. 1 :
       /\ usedSize >= pos
       /\ iter' = [node |-> NULL, pos |-> pos, left |-> pos]
  /\ Goto(t, "idle", "k_tail")
  /\ head' = headTop
  /\ UNCHANGED <<queue, node, unq, tail, made, taken, astray, crashed>>

PeekReadTail(t) ==
  /\ Goto(t, "k_tail", "k_first")
  /\ tail' = [tail EXCEPT ![t] = tailTop]
  /\ UNCHANGED <<queue, node, unq, head, iter, history>>

(* A mutant: the walk starts at the dummy. *)
PeekFromDummy(t) ==
  /\ Goto(t, "k_first", "k_walk")
  /\ iter' = [iter EXCEPT !.node = head.node]
  /\ UNCHANGED <<queue, node, unq, head, tail, history>>

PeekFirst(t) ==
  /\ Goto(t, "k_first", "k_walk")
  /\ iter' = [iter EXCEPT !.node = next[head.node]]
  /\ UNCHANGED <<queue, node, unq, head, tail, history>>

PeekOver == iter.node = NULL \/ (iter.left > 0 /\ iter.node = next[tail[Consumer].node])

(* l.171-180 *)
PeekWalk(t) ==
  /\ Goto(t, "k_walk", "k_walk")
  /\ ~PeekOver /\ iter.left > 0
  /\ iter' = [iter EXCEPT !.node = next[iter.node], !.left = @ - 1]
  /\ UNCHANGED <<queue, node, unq, head, tail, history>>

PeekEnd(t) ==
  /\ Goto(t, "k_walk", "idle")
  /\ PeekOver \/ iter.left = 0
  /\ Forget(t)
  /\ UNCHANGED <<queue, history>>

Enqueue(t) ==
  \/ EnqBegin(t) \/ EnqReadTag(t) \/ EnqReadNode(t) \/ EnqTest(t) \/ EnqHelp(t)
  \/ EnqLink(t) \/ EnqCount(t) \/ EnqEnd(t)

Dequeue(t) ==
  DeqReserve(t) \/ DeqNone(t) \/ DeqRead(t) \/ DeqTest(t) \/ DeqHelp(t) \/ DeqTake(t)

Peek(t) ==
  PeekBegin(t) \/ PeekReadTail(t) \/ PeekFirst(t) \/ PeekWalk(t) \/ PeekEnd(t)

Next == (\E t \in Producers : Enqueue(t)) \/ Dequeue(Consumer) \/ Peek(Consumer)

Spec == Init /\ [][Next]_vars
-----------------------------------------------------------------------------
(* The properties *)

(* What peek finds at a position is what as many dequeues later will find   *)
(* at the front (l.162-182), although l.164 lets a position past the end    *)
(* through and producers link meanwhile.                                    *)
Found == pc[Consumer] = "k_walk" /\ iter.left = 0 /\ ~PeekOver /\ head.tag = headTop.tag
PeekExact ==
  Found => iter.pos < Len(Contents) /\ Contents[iter.pos + 1] = data[iter.node]

(* dequeue finds the node that its reservation (l.122) promises, when no    *)
(* producer linked to a node that had left the queue (l.103).               *)
DeqFindsNode == crashed => astray

Abstract == INSTANCE Fifo WITH queue <- Contents, Values <- 1 .. MaxMade
=============================================================================
