--------------------------- MODULE LockFreeStack ---------------------------
(***************************************************************************)
(* lockFreeStack<T> (lockFreeStack.h), the free slots of LanServer: any    *)
(* thread that ends a session pushes, the accept thread alone pops.  The   *)
(* tag that goes with the top is not the operation's own but the counter   *)
(* as it is at the compare-and-swap, so two operations may install the     *)
(* same one.                                                               *)
(*                                                                         *)
(* One action is one access to shared memory, except that Alloc and Free   *)
(* of the pool are atomic (ObjectPool), and that what is done with a node  *)
(* nobody else can reach goes with the access before.  Freed memory stays  *)
(* readable.  The values pushed are told apart by their number.            *)
(***************************************************************************)
EXTENDS Integers, FiniteSets, SequencesExt

CONSTANTS
  Producers,  \* the threads that push
  Consumer,   \* the thread that pops
  Size,       \* bound of the model: nodes of the pool
  MaxOps      \* bound of the model: calls of push and pop

Nodes == 1 .. Size
NULL == 0

VARIABLES
  topNode,      \* the first node, and the tag
  next, data,   \* of each node
  usedSize,
  uniqueIndex,
  free,         \* the nodes in the pool, the last one freed first
  pc,
  node,         \* local of push
  top,          \* local: topNode as read
  nextVal,      \* local of pop: top.node->next as read
  newTag,       \* local: uniqueIndex as read
  made, taken,  \* values pushed so far; values popped, in order
  crashed

stack == <<topNode, next, data, usedSize, uniqueIndex, free>>
locals == <<node, top, nextVal, newTag>>
vars == <<stack, pc, locals, made, taken, crashed>>

Threads == Producers \cup {Consumer}
NoTop == [node |-> NULL, tag |-> 0]

Init ==
  /\ topNode = NoTop
  /\ next = [n \in Nodes |-> NULL] /\ data = [n \in Nodes |-> 0]
  /\ usedSize = 0 /\ uniqueIndex = 0
  /\ free = [i \in 1 .. Size |-> i]
  /\ pc = [t \in Threads |-> "idle"]
  /\ node = [t \in Threads |-> NULL]
  /\ top = [t \in Threads |-> NoTop]
  /\ nextVal = NULL
  /\ newTag = [t \in Threads |-> 0]
  /\ made = 0 /\ taken = <<>>
  /\ crashed = FALSE

Goto(t, from, to) ==
  /\ ~crashed
  /\ pc[t] = from
  /\ pc' = [pc EXCEPT ![t] = to]

TopUnchanged(t) == topNode = top[t]
InstallTop(t, n) == topNode' = [node |-> n, tag |-> newTag[t]]

(* The end of a call: its locals are gone. *)
Forget(t) ==
  /\ top' = [top EXCEPT ![t] = NoTop]
  /\ newTag' = [newTag EXCEPT ![t] = 0]
  /\ node' = [node EXCEPT ![t] = NULL]
  /\ nextVal' = IF t = Consumer THEN NULL ELSE nextVal
-----------------------------------------------------------------------------
(* push *)

PushBegin(t) ==
  /\ Goto(t, "idle", "p_index")
  /\ uniqueIndex < MaxOps /\ free # <<>>
  /\ uniqueIndex' = uniqueIndex + 1
  /\ made' = made + 1
  /\ free' = Tail(free)
  /\ node' = [node EXCEPT ![t] = Head(free)]
  /\ data' = [data EXCEPT ![Head(free)] = made']
  /\ UNCHANGED <<topNode, next, usedSize, top, nextVal, newTag, taken, crashed>>

ReadIndex(t, from, to) ==
  /\ Goto(t, from, to)
  /\ top' = [top EXCEPT ![t].tag = topNode.tag]
  /\ UNCHANGED <<stack, node, nextVal, newTag, made, taken, crashed>>

PushLink(t) ==
  /\ Goto(t, "p_node", "p_tag")
  /\ top' = [top EXCEPT ![t].node = topNode.node]
  /\ next' = [next EXCEPT ![node[t]] = topNode.node]
  /\ UNCHANGED <<topNode, data, usedSize, uniqueIndex, free, node, nextVal, newTag>>
  /\ UNCHANGED <<made, taken, crashed>>

(* The argument of the compare-and-swap is read before it. *)
ReadTag(t, from, to) ==
  /\ Goto(t, from, to)
  /\ newTag' = [newTag EXCEPT ![t] = uniqueIndex]
  /\ UNCHANGED <<stack, node, top, nextVal, made, taken, crashed>>

Retry(t, from, to) ==
  /\ ~TopUnchanged(t)
  /\ Goto(t, from, to)
  /\ UNCHANGED <<stack, locals, made, taken, crashed>>

(* A mutant: the result of the compare-and-swap ignored, as a plain store. *)
PushStore(t) ==
  /\ Goto(t, "p_cas", "p_inc")
  /\ InstallTop(t, node[t])
  /\ Forget(t)
  /\ UNCHANGED <<next, data, usedSize, uniqueIndex, free, made, taken, crashed>>

PushCAS(t) ==
  /\ TopUnchanged(t)
  /\ Goto(t, "p_cas", "p_inc")
  /\ InstallTop(t, node[t])
  /\ Forget(t)
  /\ UNCHANGED <<next, data, usedSize, uniqueIndex, free, made, taken, crashed>>

Resize(t, from, n) ==
  /\ Goto(t, from, "idle")
  /\ usedSize' = usedSize + n
  /\ UNCHANGED <<topNode, next, data, uniqueIndex, free, locals, made, taken, crashed>>
-----------------------------------------------------------------------------
(* pop *)

PopBegin(t) ==
  /\ Goto(t, "idle", "o_dec")
  /\ uniqueIndex < MaxOps
  /\ uniqueIndex' = uniqueIndex + 1
  /\ UNCHANGED <<topNode, next, data, usedSize, free, locals, made, taken, crashed>>

(* A mutant: the test of l.105 one off. *)
MayPopNone(n) == n >= -1

MayPop(n) == n >= 0

(* A pop reserves its node; the push counts only after it linked, l.95. *)
PopReserve(t) ==
  /\ Goto(t, "o_dec", IF MayPop(usedSize - 1) THEN "o_index" ELSE "o_none")
  /\ usedSize' = usedSize - 1
  /\ UNCHANGED <<topNode, next, data, uniqueIndex, free, locals, made, taken, crashed>>

PopReadNode(t) ==
  /\ Goto(t, "o_node", "o_next")
  /\ top' = [top EXCEPT ![t].node = topNode.node]
  /\ UNCHANGED <<stack, node, nextVal, newTag, made, taken, crashed>>

(* l.118, before the test of l.119 *)
PopReadNext(t) ==
  IF top[t].node = NULL
  THEN /\ Goto(t, "o_next", "o_next")
       /\ crashed' = TRUE
       /\ UNCHANGED <<stack, locals, made, taken>>
  ELSE /\ Goto(t, "o_next", "o_tag")
       /\ nextVal' = next[top[t].node]
       /\ UNCHANGED <<stack, node, top, newTag, made, taken, crashed>>

(* The node is the consumer's now: its data, and the end of the node. *)
PopCAS(t) ==
  /\ TopUnchanged(t)
  /\ Goto(t, "o_cas", "idle")
  /\ InstallTop(t, nextVal)
  /\ taken' = Append(taken, data[top[t].node])
  /\ free' = <<top[t].node>> \o free
  /\ Forget(t)
  /\ UNCHANGED <<next, data, usedSize, uniqueIndex, made, crashed>>

Push(t) ==
  \/ PushBegin(t) \/ ReadIndex(t, "p_index", "p_node") \/ PushLink(t)
  \/ ReadTag(t, "p_tag", "p_cas") \/ PushCAS(t) \/ Retry(t, "p_cas", "p_index")
  \/ Resize(t, "p_inc", 1)

Pop(t) ==
  \/ PopBegin(t) \/ PopReserve(t) \/ Resize(t, "o_none", 1)
  \/ ReadIndex(t, "o_index", "o_node") \/ PopReadNode(t) \/ PopReadNext(t)
  \/ ReadTag(t, "o_tag", "o_cas") \/ PopCAS(t) \/ Retry(t, "o_cas", "o_index")

Next == (\E t \in Producers : Push(t)) \/ Pop(Consumer)

Spec == Init /\ [][Next]_vars
-----------------------------------------------------------------------------
(* The properties *)

(* The list from node n on; Cut keeps it finite. *)
List[n \in Nodes \cup {NULL}, cut \in 0 .. Cardinality(Nodes)] ==
  IF n = NULL \/ cut = 0 THEN <<>> ELSE <<n>> \o List[next[n], cut - 1]
Chain == List[topNode.node, Cardinality(Nodes)]
Contents == [i \in 1 .. Len(Chain) |-> data[Chain[i]]]

(* pop dereferences the top before it tests it (l.118-119): the reservation *)
(* must rule an empty list out.                                             *)
PopFindsNode == ~crashed

Abstract == INSTANCE Lifo WITH stack <- Contents, Values <- 1 .. MaxOps
=============================================================================
