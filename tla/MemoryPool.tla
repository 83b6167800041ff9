----------------------------- MODULE MemoryPool -----------------------------
(***************************************************************************)
(* memoryPool<T> of memoryPool.h: a free list of nodes under a 128-bit     *)
(* compare-and-swap whose second half is a tag.  Every operation takes a   *)
(* tag of its own from uniqueIndex and installs it with the new top, which *)
(* is what keeps a stale compare-and-swap from succeeding when a node came *)
(* back to the top of the list (ABA).                                      *)
(*                                                                         *)
(* Any thread may free any node that is in use.  One action is one access  *)
(* to shared memory, in program order; the two counters that no code of    *)
(* the pool reads (usedCount, allocCount) move with a neighbouring access. *)
(* A thread's locals return to their initial value when its call returns.  *)
(***************************************************************************)
EXTENDS Integers, FiniteSets, SequencesExt

CONSTANTS
  Threads,   \* the threads that call Alloc and Free
  Nodes,     \* the memory blocks that `new memoryBuffer()` may return
  NULL,      \* the null pointer
  MaxUsed,   \* the application never has more than this many blocks in use
  MaxOps     \* bound of the model: the calls made in a behaviour

ASSUME NULLAssumption == NULL \notin Nodes
ASSUME BoundsAssumption == MaxUsed \in Nat /\ MaxOps \in Nat
ASSUME NodesAssumption == IsFiniteSet(Nodes) /\ Cardinality(Nodes) >= MaxUsed
(* The threads of a process. *)
ASSUME ThreadsAssumption == IsFiniteSet(Threads)

VARIABLES
  topNode,      \* TOP: the first node of the free list and the tag
  next,         \* memoryBuffer::next of each node
  uniqueIndex,  \* the last tag handed out
  usedCount,    \* blocks in use, as the pool counts them
  allocCount,   \* blocks obtained from `new` and not deleted
  created,      \* the nodes obtained from `new` and not deleted
  held,         \* how many callers of Alloc a node was given to and not freed by
  alive,        \* FALSE once the destructor has run
  pc,           \* where each thread is
  unq,          \* local: the tag of the running operation
  dummyTop,     \* local: what the operation read from *topNode
  nextVal,      \* local of Alloc: dummyTop.tailNode->next as read
  node          \* local of Free: dummyBuffer

vars == <<topNode, next, uniqueIndex, usedCount, allocCount, created, held,
          alive, pc, unq, dummyTop, nextVal, node>>

counters == <<usedCount, allocCount, created, alive>>

NodeOrNull == Nodes \cup {NULL}
TOP == [tailNode : NodeOrNull, uniqueIndex : Nat]
NoTop == [tailNode |-> NULL, uniqueIndex |-> 0]

AllocPC == {"a_check", "a_index", "a_node", "a_next", "a_cas", "a_new"}
LinkPC == {"f_index", "f_node", "f_link", "f_cas"}  \* Free, node not on the list yet
FreePC == LinkPC \cup {"f_dec"}

-----------------------------------------------------------------------------
Init ==
  /\ topNode = NoTop
  /\ next = [n \in Nodes |-> NULL]
  /\ uniqueIndex = 0
  /\ usedCount = 0
  /\ allocCount = 0
  /\ created = {}
  /\ held = [n \in Nodes |-> 0]
  /\ alive = TRUE
  /\ pc = [t \in Threads |-> "idle"]
  /\ unq = [t \in Threads |-> 0]
  /\ dummyTop = [t \in Threads |-> NoTop]
  /\ nextVal = [t \in Threads |-> NULL]
  /\ node = [t \in Threads |-> NULL]

(* The thread goes from one place to another. *)
Goto(t, from, to) ==
  /\ pc[t] = from
  /\ pc' = [pc EXCEPT ![t] = to]

(* The call returns: its locals are gone. *)
Return(t) ==
  /\ unq' = [unq EXCEPT ![t] = 0]
  /\ dummyTop' = [dummyTop EXCEPT ![t] = NoTop]
  /\ nextVal' = [nextVal EXCEPT ![t] = NULL]
  /\ node' = [node EXCEPT ![t] = NULL]

(* InterlockedIncrement64(&uniqueIndex): a tag no other operation has. *)
TakeTag(t) ==
  /\ uniqueIndex < MaxOps
  /\ uniqueIndex' = uniqueIndex + 1
  /\ unq' = [unq EXCEPT ![t] = uniqueIndex + 1]

(* A mutant: the compare-and-swap of a pool without the tag. *)
TopUnchangedUntagged(t) == topNode.tailNode = dummyTop[t].tailNode

(* InterlockedCompareExchange128 on *topNode, against dummyTop. *)
TopUnchanged(t) == topNode = dummyTop[t]

InstallTop(t, n) == topNode' = [tailNode |-> n, uniqueIndex |-> unq[t]]
-----------------------------------------------------------------------------
(* Alloc *)

AllocBegin(t) ==
  /\ alive
  /\ usedCount < MaxUsed
  /\ Goto(t, "idle", "a_check")
  /\ usedCount' = usedCount + 1
  /\ TakeTag(t)
  /\ UNCHANGED <<topNode, next, allocCount, created, held, alive, dummyTop,
                 nextVal, node>>

(* A mutant: the test of the list dropped. *)
AllocCheckSkipped(t) ==
  /\ Goto(t, "a_check", "a_new")
  /\ UNCHANGED <<topNode, next, uniqueIndex, counters, held, unq, dummyTop,
                 nextVal, node>>

(* The list looks empty: the operation will use `new`, whatever happens to *)
(* the list before it does.                                                *)
AllocCheck(t) ==
  /\ Goto(t, "a_check", IF topNode.tailNode = NULL THEN "a_new" ELSE "a_index")
  /\ UNCHANGED <<topNode, next, uniqueIndex, counters, held, unq, dummyTop,
                 nextVal, node>>

AllocReadIndex(t) ==
  /\ Goto(t, "a_index", "a_node")
  /\ dummyTop' = [dummyTop EXCEPT ![t].uniqueIndex = topNode.uniqueIndex]
  /\ UNCHANGED <<topNode, next, uniqueIndex, counters, held, unq, nextVal, node>>

(* A mutant: the test of l.101 dropped. *)
AllocReadNodeUnchecked(t) ==
  /\ Goto(t, "a_node", "a_next")
  /\ dummyTop' = [dummyTop EXCEPT ![t].tailNode = topNode.tailNode]
  /\ UNCHANGED <<topNode, next, uniqueIndex, counters, held, unq, nextVal, node>>

AllocReadNode(t) ==
  /\ Goto(t, "a_node", IF topNode.tailNode = NULL THEN "a_new" ELSE "a_next")
  /\ dummyTop' = [dummyTop EXCEPT ![t].tailNode = topNode.tailNode]
  /\ UNCHANGED <<topNode, next, uniqueIndex, counters, held, unq, nextVal, node>>

(* The node may have been given to another thread since it was read. *)
AllocReadNext(t) ==
  /\ Goto(t, "a_next", "a_cas")
  /\ nextVal' = [nextVal EXCEPT ![t] = next[dummyTop[t].tailNode]]
  /\ UNCHANGED <<topNode, next, uniqueIndex, counters, held, unq, dummyTop, node>>

AllocCAS(t) ==
  /\ TopUnchanged(t)
  /\ Goto(t, "a_cas", "idle")
  /\ InstallTop(t, nextVal[t])
  /\ held' = [held EXCEPT ![dummyTop[t].tailNode] = @ + 1]
  /\ Return(t)
  /\ UNCHANGED <<next, uniqueIndex, counters>>

AllocRetry(t) ==
  /\ ~TopUnchanged(t)
  /\ Goto(t, "a_cas", "a_index")
  /\ UNCHANGED <<topNode, next, uniqueIndex, counters, held, unq, dummyTop,
                 nextVal, node>>

AllocNew(t) ==
  /\ Goto(t, "a_new", "idle")
  /\ \E n \in Nodes \ created :
       /\ created' = created \cup {n}
       /\ next' = [next EXCEPT ![n] = NULL]
       /\ held' = [held EXCEPT ![n] = @ + 1]
  /\ allocCount' = allocCount + 1
  /\ Return(t)
  /\ UNCHANGED <<topNode, uniqueIndex, usedCount, alive>>
-----------------------------------------------------------------------------
(* Free *)

FreeBegin(t) ==
  /\ alive
  /\ Goto(t, "idle", "f_index")
  /\ \E n \in Nodes :
       /\ held[n] > 0
       /\ held' = [held EXCEPT ![n] = @ - 1]
       /\ node' = [node EXCEPT ![t] = n]
  /\ TakeTag(t)
  /\ UNCHANGED <<topNode, next, counters, dummyTop, nextVal>>

FreeReadIndex(t) ==
  /\ Goto(t, "f_index", "f_node")
  /\ dummyTop' = [dummyTop EXCEPT ![t].uniqueIndex = topNode.uniqueIndex]
  /\ UNCHANGED <<topNode, next, uniqueIndex, counters, held, unq, nextVal, node>>

FreeReadNode(t) ==
  /\ Goto(t, "f_node", "f_link")
  /\ dummyTop' = [dummyTop EXCEPT ![t].tailNode = topNode.tailNode]
  /\ UNCHANGED <<topNode, next, uniqueIndex, counters, held, unq, nextVal, node>>

FreeLink(t) ==
  /\ Goto(t, "f_link", "f_cas")
  /\ next' = [next EXCEPT ![node[t]] = dummyTop[t].tailNode]
  /\ UNCHANGED <<topNode, uniqueIndex, counters, held, unq, dummyTop, nextVal, node>>

(* A mutant: the result of the compare-and-swap ignored, as a plain store. *)
FreeStore(t) ==
  /\ Goto(t, "f_cas", "f_dec")
  /\ InstallTop(t, node[t])
  /\ Return(t)
  /\ UNCHANGED <<next, uniqueIndex, counters, held>>

FreeCAS(t) ==
  /\ TopUnchanged(t)
  /\ Goto(t, "f_cas", "f_dec")
  /\ InstallTop(t, node[t])
  /\ Return(t)
  /\ UNCHANGED <<next, uniqueIndex, counters, held>>

FreeRetry(t) ==
  /\ ~TopUnchanged(t)
  /\ Goto(t, "f_cas", "f_index")
  /\ UNCHANGED <<topNode, next, uniqueIndex, counters, held, unq, dummyTop,
                 nextVal, node>>

FreeDec(t) ==
  /\ Goto(t, "f_dec", "idle")
  /\ usedCount' = usedCount - 1
  /\ UNCHANGED <<topNode, next, uniqueIndex, allocCount, created, held, alive,
                 unq, dummyTop, nextVal, node>>
-----------------------------------------------------------------------------
(* The nodes reached from top along nxt, first to last, up to a NULL: the  *)
(* k-th of them, and how many they are.                                    *)
Walk(top, nxt) ==
  LET walk[k \in 0..Cardinality(Nodes)] ==
        IF k = 0 THEN top
        ELSE IF walk[k - 1] = NULL THEN NULL ELSE nxt[walk[k - 1]]
  IN  walk

ListFrom(top, nxt) ==
  LET reached == {k \in 1..Cardinality(Nodes) : Walk(top, nxt)[k - 1] # NULL}
  IN  [k \in 1..Cardinality(reached) |-> Walk(top, nxt)[k - 1]]

(* The nodes of the free list. *)
FreeList == ListFrom(topNode.tailNode, next)

(* The blocks that clear deletes. *)
OnList == {n \in created : n \in ToSet(FreeList)}

(* ~memoryPool, clear: the free list is deleted, blocks in use are not. *)
Clear ==
  /\ alive
  /\ \A t \in Threads : pc[t] = "idle"
  /\ alive' = FALSE
  /\ created' = created \ OnList
  /\ allocCount' = allocCount - Cardinality(OnList)
  /\ topNode' = [topNode EXCEPT !.tailNode = NULL]
  /\ UNCHANGED <<next, uniqueIndex, usedCount, held, pc, unq, dummyTop,
                 nextVal, node>>

(* A running operation goes on. *)
Step(t) ==
  \/ AllocCheck(t) \/ AllocReadIndex(t) \/ AllocReadNode(t) \/ AllocReadNext(t)
  \/ AllocCAS(t) \/ AllocRetry(t) \/ AllocNew(t)
  \/ FreeReadIndex(t) \/ FreeReadNode(t) \/ FreeLink(t)
  \/ FreeCAS(t) \/ FreeRetry(t) \/ FreeDec(t)

Next ==
  \/ \E t \in Threads : AllocBegin(t) \/ FreeBegin(t) \/ Step(t)
  \/ Clear

Spec == Init /\ [][Next]_vars
-----------------------------------------------------------------------------
(* Derived state *)

(* The thread is freeing its node, which is not on the list yet. *)
Freeing(t) == pc[t] \in LinkPC

(* The nodes that belong on the free list. *)
FreeNodes ==
  {n \in created : held[n] = 0 /\ \A t \in Threads : Freeing(t) => node[t] # n}

(* The blocks given back that are not on the list yet. *)
Returning == {node[t] : t \in {t \in Threads : Freeing(t)}}

(* The threads that saw an empty list and will use `new`. *)
Growing == {t \in Threads : pc[t] = "a_new"}

(* The nodes some caller owns. *)
HeldNodes == {n \in Nodes : held[n] > 0}
-----------------------------------------------------------------------------
(* Properties *)

(* Types of the variables of memoryPool and of the operations' locals; no  *)
(* Alloc follows a null dummyTop.tailNode (memoryPool.h:103).              *)
TypeOK ==
  /\ topNode \in TOP
  /\ next \in [Nodes -> NodeOrNull]
  /\ uniqueIndex \in Nat
  /\ usedCount \in Int
  /\ allocCount \in Int
  /\ created \subseteq Nodes
  /\ held \in [Nodes -> Nat]
  /\ alive \in BOOLEAN
  /\ pc \in [Threads -> {"idle"} \cup AllocPC \cup FreePC]
  /\ unq \in [Threads -> Nat]
  /\ dummyTop \in [Threads -> TOP]
  /\ nextVal \in [Threads -> NodeOrNull]
  /\ node \in [Threads -> NodeOrNull]
  /\ \A t \in Threads : pc[t] \in {"a_next", "a_cas"} => dummyTop[t].tailNode # NULL
  /\ \A t \in Threads : Freeing(t) => node[t] # NULL

(* Alloc never returns a block that is in use or that some Free is still   *)
(* putting on the list, and the top of the list is a free block: no ABA in *)
(* the compare-and-swap of Alloc (memoryPool.h:103).                       *)
NoDoubleAlloc ==
  /\ \A n \in Nodes : held[n] <= 1
  /\ \A t \in Threads : Freeing(t) => held[node[t]] = 0
  /\ \A t, u \in Threads : t # u /\ Freeing(t) /\ Freeing(u) => node[t] # node[u]
  /\ topNode.tailNode # NULL => topNode.tailNode \in FreeNodes

(* No block is lost: while the pool lives, every block that is neither in  *)
(* use nor inside a Free can be reached from topNode, once, and nothing    *)
(* else can.                                                               *)
NoLostNode ==
  alive => /\ ToSet(FreeList) = FreeNodes
           /\ Len(FreeList) = Cardinality(FreeNodes)

(* `new` is used only when the pool is really exhausted: counting those    *)
(* about to be created, there are never more blocks than the application   *)
(* had in use at one time.                                                 *)
GrowthBound == Cardinality(created) + Cardinality(Growing) <= MaxUsed

(* The pool implements the abstract one: seen from outside, each Alloc and *)
(* each Free happens at one instant, its successful compare-and-swap.      *)
Abstract == INSTANCE ObjectPool
  WITH free <- FreeList, used <- HeldNodes, growing <- Growing,
       returning <- Returning

ImplementsObjectPool == Abstract!Spec
-----------------------------------------------------------------------------
(* The inductive invariant behind NoDoubleAlloc. *)

(* The thread holds a tag it has not installed. *)
Tagged(t) == pc[t] \in AllocPC \cup LinkPC

(* A tag is used once: one not installed yet is neither the tag of the top *)
(* nor one that any operation has read.                                    *)
Tags ==
  /\ topNode.uniqueIndex <= uniqueIndex
  /\ \A t \in Threads : unq[t] <= uniqueIndex /\ dummyTop[t].uniqueIndex <= uniqueIndex
  /\ \A t \in Threads : Tagged(t) =>
       /\ unq[t] > 0
       /\ unq[t] # topNode.uniqueIndex
       /\ \A u \in Threads : unq[t] # dummyTop[u].uniqueIndex
       /\ \A u \in Threads : u # t /\ Tagged(u) => unq[u] # unq[t]

(* What an operation read is current as long as the tag is. *)
Reads ==
  \A t \in Threads :
    /\ pc[t] \in {"a_next", "a_cas"} /\ dummyTop[t].uniqueIndex = topNode.uniqueIndex
         => dummyTop[t].tailNode = topNode.tailNode
    /\ pc[t] = "a_cas" /\ dummyTop[t].uniqueIndex = topNode.uniqueIndex
         => nextVal[t] = next[topNode.tailNode]
    /\ pc[t] = "f_cas" => next[node[t]] = dummyTop[t].tailNode

(* Blocks in use, and blocks being freed, came from `new`. *)
Owned ==
  /\ \A n \in Nodes : held[n] > 0 => n \in created
  /\ \A t \in Threads : Freeing(t) => node[t] \in created

(* The free blocks are linked one way only, and nothing points to the top. *)
Links ==
  \A n \in FreeNodes : next[n] # NULL =>
    /\ next[n] \in FreeNodes
    /\ next[n] # topNode.tailNode
    /\ \A m \in FreeNodes : m # n => next[m] # next[n]

(* Once the destructor has run nobody is inside a call. *)
Destroyed == ~alive => topNode.tailNode = NULL /\ \A t \in Threads : pc[t] = "idle"

IInv ==
  /\ TypeOK
  /\ NoDoubleAlloc
  /\ Tags
  /\ Reads
  /\ Destroyed
  /\ alive => Owned /\ Links

-----------------------------------------------------------------------------
(* What it takes to say how the list and usedCount come out. *)

(* l is the list from top along nxt. *)
Linked(l, top, nxt) ==
  /\ top = IF l = <<>> THEN NULL ELSE l[1]
  /\ \A i \in 1..Len(l) : nxt[l[i]] = IF i = Len(l) THEN NULL ELSE l[i + 1]

(* FreeList is that, has every free block once, and nothing else. *)
Listed ==
  /\ FreeList \in Seq(Nodes)
  /\ IsInjective(FreeList)
  /\ ToSet(FreeList) = FreeNodes
  /\ Linked(FreeList, topNode.tailNode, next)

(* usedCount counts the blocks in use and the calls of Alloc and Free. *)
Busy == {t \in Threads : pc[t] # "idle"}

Counted ==
  /\ usedCount = Cardinality(HeldNodes) + Cardinality(Busy)
  /\ usedCount <= MaxUsed

ListInv == IInv /\ Listed /\ Counted /\ GrowthBound
=============================================================================
