-------------------------- MODULE MemoryPoolProofs --------------------------
(***************************************************************************)
(* The memory pool never hands out a block twice, for any number of        *)
(* threads, blocks and calls.                                              *)
(***************************************************************************)
EXTENDS MemoryPool, OccurrencesProofs

USE NULLAssumption DEF NodeOrNull, TOP, NoTop, AllocPC, LinkPC, FreePC

(* What every action uses. *)
LEMMA IInvInit == Init => IInv
  BY DEF Init, IInv, TypeOK, NoDoubleAlloc, Tags, Reads, Destroyed, Owned,
         Links, FreeNodes, Freeing, Tagged

(* Starting an Alloc takes a new tag. *)
LEMMA AllocBeginStep ==
  ASSUME IInv, NEW t \in Threads, AllocBegin(t)  PROVE IInv'
<1> USE DEF AllocBegin, Goto, TakeTag
<1>1. TypeOK'
  BY DEF IInv, TypeOK, Freeing
<1>2. FreeNodes' = FreeNodes /\ \A u \in Threads : Freeing(u)' = Freeing(u)
  BY DEF IInv, TypeOK, FreeNodes, Freeing
<1>3. NoDoubleAlloc'
  BY <1>2 DEF IInv, TypeOK, NoDoubleAlloc, Freeing
<1>4. Tags'
  BY DEF IInv, TypeOK, Tags, Tagged
<1>5. Reads'
  BY DEF IInv, TypeOK, Reads
<1>6. Destroyed'
  BY DEF IInv, Destroyed
<1>7. (alive => Owned /\ Links)'
  BY <1>2 DEF IInv, TypeOK, Owned, Links
<1> QED BY <1>1, <1>3, <1>4, <1>5, <1>6, <1>7 DEF IInv

(* Seeing the list empty, or not, changes nothing but the place. *)
LEMMA AllocCheckStep ==
  ASSUME IInv, NEW t \in Threads, AllocCheck(t)  PROVE IInv'
<1> USE DEF AllocCheck, Goto, counters
<1>1. TypeOK'
  BY DEF IInv, TypeOK, Freeing, TopUnchanged
<1>2. FreeNodes' = FreeNodes /\ \A u \in Threads : Freeing(u)' = Freeing(u)
  BY DEF IInv, TypeOK, FreeNodes, Freeing
<1>3. NoDoubleAlloc'
  BY <1>2 DEF IInv, TypeOK, NoDoubleAlloc, Freeing
<1>4. Tags'
  BY DEF IInv, TypeOK, Tags, Tagged
<1>5. Reads'
  BY DEF IInv, TypeOK, Reads
<1>6. Destroyed'
  BY DEF IInv, TypeOK, Destroyed
<1>7. (alive => Owned /\ Links)'
  BY <1>2 DEF IInv, TypeOK, Owned, Links
<1> QED BY <1>1, <1>3, <1>4, <1>5, <1>6, <1>7 DEF IInv

(* Reading the tag of the top. *)
LEMMA AllocReadIndexStep ==
  ASSUME IInv, NEW t \in Threads, AllocReadIndex(t)  PROVE IInv'
<1> USE DEF AllocReadIndex, Goto, counters
<1>1. TypeOK'
  BY DEF IInv, TypeOK, Freeing, TopUnchanged
<1>2. FreeNodes' = FreeNodes /\ \A u \in Threads : Freeing(u)' = Freeing(u)
  BY DEF IInv, TypeOK, FreeNodes, Freeing
<1>3. NoDoubleAlloc'
  BY <1>2 DEF IInv, TypeOK, NoDoubleAlloc, Freeing
<1>4. Tags'
  BY DEF IInv, TypeOK, Tags, Tagged
<1>5. Reads'
  BY DEF IInv, TypeOK, Reads
<1>6. Destroyed'
  BY DEF IInv, TypeOK, Destroyed
<1>7. (alive => Owned /\ Links)'
  BY <1>2 DEF IInv, TypeOK, Owned, Links
<1> QED BY <1>1, <1>3, <1>4, <1>5, <1>6, <1>7 DEF IInv

(* Reading the first node: current if the tag read before still is. *)
LEMMA AllocReadNodeStep ==
  ASSUME IInv, NEW t \in Threads, AllocReadNode(t)  PROVE IInv'
<1> USE DEF AllocReadNode, Goto, counters
<1>1. TypeOK'
  BY DEF IInv, TypeOK, Freeing, TopUnchanged
<1>2. FreeNodes' = FreeNodes /\ \A u \in Threads : Freeing(u)' = Freeing(u)
  BY DEF IInv, TypeOK, FreeNodes, Freeing
<1>3. NoDoubleAlloc'
  BY <1>2 DEF IInv, TypeOK, NoDoubleAlloc, Freeing
<1>4. Tags'
  BY DEF IInv, TypeOK, Tags, Tagged
<1>5. Reads'
  BY DEF IInv, TypeOK, Reads
<1>6. Destroyed'
  BY DEF IInv, TypeOK, Destroyed
<1>7. (alive => Owned /\ Links)'
  BY <1>2 DEF IInv, TypeOK, Owned, Links
<1> QED BY <1>1, <1>3, <1>4, <1>5, <1>6, <1>7 DEF IInv

(* Reading its link: current if the tag still is, since only a node that is *)
(* not on the list is relinked. *)
LEMMA AllocReadNextStep ==
  ASSUME IInv, NEW t \in Threads, AllocReadNext(t)  PROVE IInv'
<1> USE DEF AllocReadNext, Goto, counters
<1>1. TypeOK'
  BY DEF IInv, TypeOK, Freeing, TopUnchanged
<1>2. FreeNodes' = FreeNodes /\ \A u \in Threads : Freeing(u)' = Freeing(u)
  BY DEF IInv, TypeOK, FreeNodes, Freeing
<1>3. NoDoubleAlloc'
  BY <1>2 DEF IInv, TypeOK, NoDoubleAlloc, Freeing
<1>4. Tags'
  BY DEF IInv, TypeOK, Tags, Tagged
<1>5. Reads'
  BY DEF IInv, TypeOK, Reads
<1>6. Destroyed'
  BY DEF IInv, TypeOK, Destroyed
<1>7. (alive => Owned /\ Links)'
  BY <1>2 DEF IInv, TypeOK, Owned, Links
<1> QED BY <1>1, <1>3, <1>4, <1>5, <1>6, <1>7 DEF IInv

(* A failed compare-and-swap starts over. *)
LEMMA AllocRetryStep ==
  ASSUME IInv, NEW t \in Threads, AllocRetry(t)  PROVE IInv'
<1> USE DEF AllocRetry, Goto, counters
<1>1. TypeOK'
  BY DEF IInv, TypeOK, Freeing, TopUnchanged
<1>2. FreeNodes' = FreeNodes /\ \A u \in Threads : Freeing(u)' = Freeing(u)
  BY DEF IInv, TypeOK, FreeNodes, Freeing
<1>3. NoDoubleAlloc'
  BY <1>2 DEF IInv, TypeOK, NoDoubleAlloc, Freeing
<1>4. Tags'
  BY DEF IInv, TypeOK, Tags, Tagged
<1>5. Reads'
  BY DEF IInv, TypeOK, Reads
<1>6. Destroyed'
  BY DEF IInv, TypeOK, Destroyed
<1>7. (alive => Owned /\ Links)'
  BY <1>2 DEF IInv, TypeOK, Owned, Links
<1> QED BY <1>1, <1>3, <1>4, <1>5, <1>6, <1>7 DEF IInv

(* Free reads the tag. *)
LEMMA FreeReadIndexStep ==
  ASSUME IInv, NEW t \in Threads, FreeReadIndex(t)  PROVE IInv'
<1> USE DEF FreeReadIndex, Goto, counters
<1>1. TypeOK'
  BY DEF IInv, TypeOK, Freeing, TopUnchanged
<1>2. FreeNodes' = FreeNodes /\ \A u \in Threads : Freeing(u)' = Freeing(u)
  BY DEF IInv, TypeOK, FreeNodes, Freeing
<1>3. NoDoubleAlloc'
  BY <1>2 DEF IInv, TypeOK, NoDoubleAlloc, Freeing
<1>4. Tags'
  BY DEF IInv, TypeOK, Tags, Tagged
<1>5. Reads'
  BY DEF IInv, TypeOK, Reads
<1>6. Destroyed'
  BY DEF IInv, TypeOK, Destroyed
<1>7. (alive => Owned /\ Links)'
  BY <1>2 DEF IInv, TypeOK, Owned, Links
<1> QED BY <1>1, <1>3, <1>4, <1>5, <1>6, <1>7 DEF IInv

(* Free reads the first node. *)
LEMMA FreeReadNodeStep ==
  ASSUME IInv, NEW t \in Threads, FreeReadNode(t)  PROVE IInv'
<1> USE DEF FreeReadNode, Goto, counters
<1>1. TypeOK'
  BY DEF IInv, TypeOK, Freeing, TopUnchanged
<1>2. FreeNodes' = FreeNodes /\ \A u \in Threads : Freeing(u)' = Freeing(u)
  BY DEF IInv, TypeOK, FreeNodes, Freeing
<1>3. NoDoubleAlloc'
  BY <1>2 DEF IInv, TypeOK, NoDoubleAlloc, Freeing
<1>4. Tags'
  BY DEF IInv, TypeOK, Tags, Tagged
<1>5. Reads'
  BY DEF IInv, TypeOK, Reads
<1>6. Destroyed'
  BY DEF IInv, TypeOK, Destroyed
<1>7. (alive => Owned /\ Links)'
  BY <1>2 DEF IInv, TypeOK, Owned, Links
<1> QED BY <1>1, <1>3, <1>4, <1>5, <1>6, <1>7 DEF IInv

(* A failed compare-and-swap of Free starts over. *)
LEMMA FreeRetryStep ==
  ASSUME IInv, NEW t \in Threads, FreeRetry(t)  PROVE IInv'
<1> USE DEF FreeRetry, Goto, counters
<1>1. TypeOK'
  BY DEF IInv, TypeOK, Freeing, TopUnchanged
<1>2. FreeNodes' = FreeNodes /\ \A u \in Threads : Freeing(u)' = Freeing(u)
  BY DEF IInv, TypeOK, FreeNodes, Freeing
<1>3. NoDoubleAlloc'
  BY <1>2 DEF IInv, TypeOK, NoDoubleAlloc, Freeing
<1>4. Tags'
  BY DEF IInv, TypeOK, Tags, Tagged
<1>5. Reads'
  BY DEF IInv, TypeOK, Reads
<1>6. Destroyed'
  BY DEF IInv, TypeOK, Destroyed
<1>7. (alive => Owned /\ Links)'
  BY <1>2 DEF IInv, TypeOK, Owned, Links
<1> QED BY <1>1, <1>3, <1>4, <1>5, <1>6, <1>7 DEF IInv

(* Free writes the link of a node that is not on the list. *)
LEMMA FreeLinkStep ==
  ASSUME IInv, NEW t \in Threads, FreeLink(t)  PROVE IInv'
<1> USE DEF FreeLink, Goto, counters
<1>1. TypeOK'
  BY DEF IInv, TypeOK, Freeing
<1>2. FreeNodes' = FreeNodes /\ \A u \in Threads : Freeing(u)' = Freeing(u)
  BY DEF IInv, TypeOK, FreeNodes, Freeing
<1>3. node[t] \in Nodes /\ node[t] \notin FreeNodes
  BY DEF IInv, TypeOK, FreeNodes, Freeing
<1>4. \A n \in FreeNodes : next'[n] = next[n]
  BY <1>3 DEF IInv, TypeOK, FreeNodes
<1>5. NoDoubleAlloc'
  BY <1>2 DEF IInv, TypeOK, NoDoubleAlloc, Freeing
<1>6. Tags'
  BY DEF IInv, TypeOK, Tags, Tagged
<1>7. Reads'
  <2> SUFFICES ASSUME NEW u \in Threads
               PROVE  Reads!(u)'
    BY DEF Reads
  <2> QED BY <1>3, <1>4 DEF IInv, TypeOK, Reads, NoDoubleAlloc, Freeing
<1>8. Destroyed'
  BY DEF IInv, TypeOK, Destroyed
<1>9. (alive => Owned /\ Links)'
  BY <1>2, <1>4 DEF IInv, TypeOK, Owned, Links
<1> QED BY <1>1, <1>5, <1>6, <1>7, <1>8, <1>9 DEF IInv

(* A successful compare-and-swap of Alloc takes the top of the list: by     *)
(* Tags and Reads the link it installs is the current one.                  *)
LEMMA AllocCASStep ==
  ASSUME IInv, NEW t \in Threads, AllocCAS(t)  PROVE IInv'
<1> DEFINE n == dummyTop[t].tailNode
<1> USE DEF AllocCAS, Goto, Return, InstallTop, TopUnchanged, counters
<1>1. /\ alive
      /\ n \in Nodes
      /\ topNode.tailNode = n
      /\ n \in FreeNodes
      /\ nextVal[t] = next[n]
  BY DEF IInv, TypeOK, Reads, Destroyed, NoDoubleAlloc
<1>2. TypeOK'
  BY <1>1 DEF IInv, TypeOK, Freeing
<1>3. \A u \in Threads : Freeing(u)' = Freeing(u) /\ (Freeing(u) => node'[u] = node[u])
  BY DEF IInv, TypeOK, Freeing
<1>4. FreeNodes' = FreeNodes \ {n}
  BY <1>1, <1>3 DEF IInv, TypeOK, FreeNodes
<1>5. next[n] # NULL => next[n] \in FreeNodes \ {n}
  BY <1>1 DEF IInv, TypeOK, Links
<1>6. NoDoubleAlloc'
  <2>1. \A m \in Nodes : held'[m] <= 1
    BY <1>1 DEF IInv, TypeOK, NoDoubleAlloc, FreeNodes
  <2>2. \A u \in Threads : Freeing(u)' => held'[node'[u]] = 0
    BY <1>1, <1>3 DEF IInv, TypeOK, NoDoubleAlloc, FreeNodes
  <2>3. \A u, v \in Threads : u # v /\ Freeing(u)' /\ Freeing(v)' => node'[u] # node'[v]
    BY <1>3 DEF IInv, NoDoubleAlloc
  <2>4. topNode'.tailNode # NULL => topNode'.tailNode \in FreeNodes'
    BY <1>1, <1>4, <1>5
  <2> QED BY <2>1, <2>2, <2>3, <2>4 DEF NoDoubleAlloc
<1>7. Tags'
  BY DEF IInv, TypeOK, Tags, Tagged
<1>8. Reads'
  BY DEF IInv, TypeOK, Reads, Tags, Tagged
<1>9. Destroyed'
  BY <1>1 DEF Destroyed
<1>10. Owned'
  BY <1>1, <1>3 DEF IInv, TypeOK, Owned, FreeNodes
<1>11. Links'
  BY <1>1, <1>4, <1>5 DEF IInv, TypeOK, Links
<1> QED BY <1>2, <1>6, <1>7, <1>8, <1>9, <1>10, <1>11 DEF IInv

(* `new` returns a block nobody has. *)
LEMMA AllocNewStep ==
  ASSUME IInv, NEW t \in Threads, AllocNew(t)  PROVE IInv'
<1> USE DEF AllocNew, Goto, Return
<1>1. PICK n \in Nodes \ created :
        /\ created' = created \cup {n}
        /\ next' = [next EXCEPT ![n] = NULL]
        /\ held' = [held EXCEPT ![n] = @ + 1]
  OBVIOUS
<1>2. alive /\ held[n] = 0
  BY DEF IInv, TypeOK, Owned, Destroyed
<1>3. TypeOK'
  BY <1>1 DEF IInv, TypeOK, Freeing
<1>4. \A u \in Threads : Freeing(u)' = Freeing(u) /\ (Freeing(u) => node'[u] = node[u])
  BY DEF IInv, TypeOK, Freeing
<1>5. FreeNodes' = FreeNodes
  BY <1>1, <1>2, <1>4 DEF IInv, TypeOK, FreeNodes
<1>6. NoDoubleAlloc'
  BY <1>1, <1>2, <1>4, <1>5 DEF IInv, TypeOK, NoDoubleAlloc, Owned
<1>7. Tags'
  BY DEF IInv, TypeOK, Tags, Tagged
<1>8. \A u \in Threads : pc[u] = "a_cas" /\ dummyTop[u].uniqueIndex = topNode.uniqueIndex
        => topNode.tailNode # n
  BY DEF IInv, TypeOK, NoDoubleAlloc, FreeNodes, Reads
<1>9. Reads'
  BY <1>1, <1>2, <1>8 DEF IInv, TypeOK, Reads, Owned, Freeing
<1>10. Destroyed'
  BY <1>2 DEF Destroyed
<1>11. Owned'
  BY <1>1, <1>2, <1>4 DEF IInv, TypeOK, Owned
<1>12. Links'
  BY <1>1, <1>2, <1>5 DEF IInv, TypeOK, Links, FreeNodes
<1> QED BY <1>3, <1>6, <1>7, <1>9, <1>10, <1>11, <1>12 DEF IInv

(* A block that is given back had one owner and now has none. *)
LEMMA FreeBeginStep ==
  ASSUME IInv, NEW t \in Threads, FreeBegin(t)  PROVE IInv'
<1> USE DEF FreeBegin, Goto, TakeTag, counters
<1>1. PICK n \in Nodes : /\ held[n] > 0
                         /\ held' = [held EXCEPT ![n] = @ - 1]
                         /\ node' = [node EXCEPT ![t] = n]
  OBVIOUS
<1>2. held[n] = 1 /\ n \in created
  BY <1>1 DEF IInv, TypeOK, NoDoubleAlloc, Owned
<1>3. TypeOK'
  BY <1>1 DEF IInv, TypeOK, Freeing
<1>4. /\ Freeing(t)' /\ ~Freeing(t) /\ node'[t] = n
      /\ \A u \in Threads : u # t => Freeing(u)' = Freeing(u) /\ node'[u] = node[u]
  BY <1>1 DEF IInv, TypeOK, Freeing
<1>5. FreeNodes' = FreeNodes
  BY <1>1, <1>2, <1>4 DEF IInv, TypeOK, FreeNodes
<1>6. NoDoubleAlloc'
  BY <1>1, <1>2, <1>4, <1>5 DEF IInv, TypeOK, NoDoubleAlloc
<1>7. Tags'
  BY DEF IInv, TypeOK, Tags, Tagged
<1>8. Reads'
  BY <1>1 DEF IInv, TypeOK, Reads
<1>9. Destroyed'
  BY DEF IInv, Destroyed
<1>10. Owned'
  BY <1>1, <1>2, <1>4 DEF IInv, TypeOK, Owned
<1>11. Links'
  BY <1>5 DEF IInv, TypeOK, Links
<1> QED BY <1>3, <1>6, <1>7, <1>8, <1>9, <1>10, <1>11 DEF IInv

(* A successful compare-and-swap of Free puts its block before the top. *)
LEMMA FreeCASStep ==
  ASSUME IInv, NEW t \in Threads, FreeCAS(t)  PROVE IInv'
<1> DEFINE n == node[t]
<1> USE DEF FreeCAS, Goto, Return, InstallTop, TopUnchanged, counters
<1>1. /\ alive
      /\ n \in created /\ held[n] = 0 /\ n \notin FreeNodes
      /\ n \in Nodes
      /\ next[n] = topNode.tailNode
  BY DEF IInv, TypeOK, Reads, Destroyed, NoDoubleAlloc, Owned, FreeNodes, Freeing
<1>2. TypeOK'
  BY <1>1 DEF IInv, TypeOK, Freeing
<1>3. /\ Freeing(t) /\ ~Freeing(t)'
      /\ \A u \in Threads : u # t => Freeing(u)' = Freeing(u) /\ node'[u] = node[u]
  BY DEF IInv, TypeOK, Freeing
<1>4. FreeNodes' = FreeNodes \cup {n}
  <2>1. \A m \in created : m # n => (m \in FreeNodes' <=> m \in FreeNodes)
    BY <1>1, <1>3 DEF FreeNodes
  <2>2. \A u \in Threads : Freeing(u)' => node'[u] # n
    BY <1>3 DEF IInv, NoDoubleAlloc
  <2>3. n \in FreeNodes'
    BY <1>1, <2>2 DEF FreeNodes
  <2> QED BY <1>1, <2>1, <2>3 DEF FreeNodes
<1>5. NoDoubleAlloc'
  BY <1>1, <1>3, <1>4 DEF IInv, TypeOK, NoDoubleAlloc
<1>6. Tags'
  BY DEF IInv, TypeOK, Tags, Tagged
<1>7. Reads'
  BY DEF IInv, TypeOK, Reads, Tags, Tagged
<1>8. Destroyed'
  BY <1>1 DEF Destroyed
<1>9. Owned'
  BY <1>3 DEF IInv, TypeOK, Owned, Destroyed, Freeing
<1>10. Links'
  <2>1. \A m \in FreeNodes : next[m] # n
    BY <1>1 DEF IInv, Links
  <2>2. \A m \in FreeNodes : next[m] # NULL => next[m] # topNode.tailNode
    BY <1>1 DEF IInv, Links
  <2>3. next[n] # NULL => next[n] \in FreeNodes
    BY <1>1 DEF IInv, NoDoubleAlloc
  <2> QED BY <1>1, <1>4, <2>1, <2>2, <2>3 DEF IInv, Links
<1> QED BY <1>2, <1>5, <1>6, <1>7, <1>8, <1>9, <1>10 DEF IInv

(* The last step of Free only counts. *)
LEMMA FreeDecStep ==
  ASSUME IInv, NEW t \in Threads, FreeDec(t)  PROVE IInv'
<1> USE DEF FreeDec, Goto
<1>1. TypeOK'
  BY DEF IInv, TypeOK, Freeing
<1>2. FreeNodes' = FreeNodes /\ \A u \in Threads : Freeing(u)' = Freeing(u)
  BY DEF IInv, TypeOK, FreeNodes, Freeing
<1>3. NoDoubleAlloc'
  BY <1>2 DEF IInv, TypeOK, NoDoubleAlloc, Freeing
<1>4. Tags'
  BY DEF IInv, TypeOK, Tags, Tagged
<1>5. Reads'
  BY DEF IInv, TypeOK, Reads
<1>6. Destroyed'
  BY DEF IInv, TypeOK, Destroyed
<1>7. (alive => Owned /\ Links)'
  BY <1>2 DEF IInv, TypeOK, Owned, Links
<1> QED BY <1>1, <1>3, <1>4, <1>5, <1>6, <1>7 DEF IInv

(* The destructor runs when no thread is inside a call. *)
LEMMA ClearStep ==
  ASSUME IInv, Clear  PROVE IInv'
<1> USE DEF Clear
<1>1. IsFiniteSet(OnList)
  BY NodesAssumption, FS_Subset DEF IInv, TypeOK, OnList
<1>2. Cardinality(OnList) \in Nat
  BY <1>1, FS_CardinalityType
<1>3. TypeOK'
  <2>1. allocCount' \in Int
    BY <1>2 DEF IInv, TypeOK
  <2>2. created' \subseteq Nodes
    BY DEF IInv, TypeOK
  <2>3. topNode' \in TOP
    BY DEF IInv, TypeOK
  <2>4. alive' \in BOOLEAN
    OBVIOUS
  <2>5. \A t \in Threads : Freeing(t)' => node'[t] # NULL
    BY DEF Freeing
  <2> QED BY <2>1, <2>2, <2>3, <2>4, <2>5 DEF IInv, TypeOK
<1>4. NoDoubleAlloc'
  BY DEF IInv, TypeOK, NoDoubleAlloc, Freeing
<1>5. Tags'
  BY DEF IInv, TypeOK, Tags, Tagged
<1>6. Reads'
  BY DEF Reads
<1>7. Destroyed'
  BY DEF IInv, TypeOK, Destroyed
<1> QED BY <1>3, <1>4, <1>5, <1>6, <1>7 DEF IInv

-----------------------------------------------------------------------------
LEMMA IInvStep == IInv /\ [Next]_vars => IInv'
<1> SUFFICES ASSUME IInv, [Next]_vars  PROVE IInv'
  OBVIOUS
<1>1. ASSUME NEW t \in Threads, AllocBegin(t) \/ FreeBegin(t) \/ Step(t)
      PROVE  IInv'
  BY <1>1, AllocBeginStep, AllocCheckStep, AllocReadIndexStep,
     AllocReadNodeStep, AllocReadNextStep, AllocCASStep, AllocRetryStep,
     AllocNewStep, FreeBeginStep, FreeReadIndexStep, FreeReadNodeStep,
     FreeLinkStep, FreeCASStep, FreeRetryStep, FreeDecStep DEF Step
<1>2. CASE Clear
  BY <1>2, ClearStep
<1>3. CASE UNCHANGED vars
  BY <1>3 DEF vars, IInv, TypeOK, NoDoubleAlloc, Tags, Reads, Destroyed,
     Owned, Links, FreeNodes, Freeing, Tagged
<1> QED BY <1>1, <1>2, <1>3 DEF Next

(* The invariant holds in every state of every behaviour of the pool. *)
THEOREM IInvInvariant == Spec => []IInv
  BY IInvInit, IInvStep, PTL DEF Spec

(* The pool's state is well typed, and Alloc never follows a null pointer,  *)
(* for any number of threads, blocks and calls.                             *)
THEOREM TypeCorrect == Spec => []TypeOK
<1>1. IInv => TypeOK
  BY DEF IInv
<1> QED BY <1>1, IInvInvariant, PTL

(* memoryPool never gives one block to two callers, for any number of       *)
(* threads, blocks and calls: the tag of Alloc's compare-and-swap rules out *)
(* the ABA problem.                                                         *)
THEOREM DoubleAllocFree == Spec => []NoDoubleAlloc
<1>1. IInv => NoDoubleAlloc
  BY DEF IInv
<1> QED BY <1>1, IInvInvariant, PTL

-----------------------------------------------------------------------------
(* The list *)

(* The walk along a list finds its nodes in order, and then NULL. *)
LEMMA WalkList ==
  ASSUME NEW nxt \in [Nodes -> NodeOrNull], NEW l \in Seq(Nodes), NEW top,
         Linked(l, top, nxt), Len(l) <= Cardinality(Nodes)
  PROVE  \A k \in 0 .. Cardinality(Nodes) :
           Walk(top, nxt)[k] = IF k < Len(l) THEN l[k + 1] ELSE NULL
<1> DEFINE size == Cardinality(Nodes)
           f == Walk(top, nxt)
           g == [k \in 0 .. size |-> IF k < Len(l) THEN l[k + 1] ELSE NULL]
           step(h) == [k \in 0 .. size |->
                         IF k = 0 THEN top
                         ELSE IF h[k - 1] = NULL THEN NULL ELSE nxt[h[k - 1]]]
<1>1. size \in Nat /\ Len(l) \in Nat /\ \A i \in 1 .. Len(l) : l[i] \in Nodes
  BY NodesAssumption, FS_CardinalityType, LenProperties, ElementOfSeq
<1>2. ASSUME NEW k \in 0 .. size  PROVE g[k] = step(g)[k]
  <2>1. CASE k = 0
    BY <1>1, <2>1, EmptySeq DEF Linked
  <2>2. CASE k > 0 /\ k - 1 < Len(l)
    BY <1>1, <2>2 DEF Linked
  <2>3. CASE k > 0 /\ k - 1 >= Len(l)
    BY <1>1, <2>3
  <2> QED BY <1>1, <2>1, <2>2, <2>3
<1>3. g = step(g)
  BY <1>2
<1>4. f = CHOOSE h : h = step(h)
  BY DEF Walk
<1>5. f = step(f)
  <2> HIDE DEF f, g, step
  <2> QED BY <1>3, <1>4
<1>6. {k \in 0 .. size : f[k] = g[k]} = 0 .. size
  <2> DEFINE T == {k \in 0 .. size : f[k] = g[k]}
  <2>1. f[0] = top /\ g[0] = top
    BY <1>1, <1>2, <1>5
  <2>2. 0 \in T
    BY <1>1, <2>1
  <2>3. ASSUME NEW k \in 1 .. size, k - 1 \in T  PROVE k \in T
    <3>1. k \in 0 .. size /\ k # 0 /\ f[k - 1] = g[k - 1]
      BY <1>1, <2>3
    <3>2. step(f)[k] = step(g)[k]
      BY <3>1
    <3> QED BY <1>2, <1>5, <3>1, <3>2
  <2> HIDE DEF T
  <2>4. 0 .. size \subseteq T
    BY <1>1, <2>2, <2>3, Induction
  <2> QED BY <2>4 DEF T
<1> QED BY <1>6

(* So a list is what ListFrom finds. *)
LEMMA ListFromIs ==
  ASSUME NEW nxt \in [Nodes -> NodeOrNull], NEW l \in Seq(Nodes), NEW top,
         IsInjective(l), Linked(l, top, nxt)
  PROVE  ListFrom(top, nxt) = l
<1> DEFINE size == Cardinality(Nodes)
           w == Walk(top, nxt)
           reached == {k \in 1 .. size : w[k - 1] # NULL}
<1>1. size \in Nat /\ Len(l) \in Nat /\ Len(l) <= size
  BY NodesAssumption, FS_CardinalityType, LenProperties, InjectiveCount
<1>2. \A i \in 1 .. Len(l) : l[i] \in Nodes
  BY ElementOfSeq
<1>3. \A k \in 1 .. size : w[k - 1] = IF k <= Len(l) THEN l[k] ELSE NULL
  BY <1>1, WalkList
<1>4. reached = 1 .. Len(l)
  BY <1>1, <1>2, <1>3
<1>5. Cardinality(reached) = Len(l)
  <2>1. 1 \in Int /\ Len(l) \in Int /\ Len(l) >= 0
    BY <1>1
  <2>2. Cardinality(1 .. Len(l)) = IF 1 > Len(l) THEN 0 ELSE Len(l) - 1 + 1
    BY <2>1, FS_Interval
  <2> HIDE DEF reached
  <2> QED BY <1>4, <2>1, <2>2
<1>6. ListFrom(top, nxt) = [k \in 1 .. Len(l) |-> w[k - 1]]
  BY <1>5 DEF ListFrom
<1>7. l = [k \in 1 .. Len(l) |-> l[k]]
  BY LenProperties
<1> HIDE DEF w
<1> QED BY <1>1, <1>3, <1>6, <1>7

(* Links of nodes off the list do not matter to it. *)
LEMMA LinkedKept ==
  ASSUME NEW l \in Seq(Nodes), NEW top, NEW nxt, NEW new, Linked(l, top, nxt),
         \A n \in ToSet(l) : new[n] = nxt[n]
  PROVE  Linked(l, top, new)
<1>1. \A i \in 1 .. Len(l) : l[i] \in ToSet(l)
  BY MembersOf
<1> QED BY <1>1 DEF Linked

(* Without its first node, and with another before it, a list is a list. *)
LEMMA LinkedTail ==
  ASSUME NEW l \in Seq(Nodes), NEW top, NEW nxt, Linked(l, top, nxt), l # <<>>
  PROVE  /\ top = Head(l) /\ Tail(l) \in Seq(Nodes)
         /\ Linked(Tail(l), nxt[top], nxt)
<1> DEFINE r == Tail(l)
<1>1. /\ r \in Seq(Nodes) /\ Head(l) = l[1] /\ Len(l) = Len(r) + 1 /\ Len(r) \in Nat
      /\ \A i \in 1 .. Len(r) : r[i] = l[i + 1]
  BY HeadTailProperties, EmptySeq, LenProperties
<1>2. r = <<>> <=> Len(r) = 0
  BY <1>1, EmptySeq
<1> HIDE DEF r
<1>3. top = l[1] /\ nxt[top] = IF r = <<>> THEN NULL ELSE r[1]
  BY <1>1, <1>2 DEF Linked
<1>4. \A i \in 1 .. Len(r) : nxt[r[i]] = IF i = Len(r) THEN NULL ELSE r[i + 1]
  BY <1>1 DEF Linked
<1> QED BY <1>1, <1>3, <1>4 DEF Linked, r

LEMMA LinkedPush ==
  ASSUME NEW l \in Seq(Nodes), NEW top, NEW nxt, Linked(l, top, nxt),
         NEW n \in Nodes, nxt[n] = top
  PROVE  Linked(<<n>> \o l, n, nxt)
<1> DEFINE r == <<n>> \o l
<1>1. /\ r \in Seq(Nodes) /\ Len(r) = Len(l) + 1 /\ Len(l) \in Nat
      /\ r[1] = n /\ \A i \in 1 .. Len(l) : r[i + 1] = l[i]
  OBVIOUS
<1>2. l = <<>> <=> Len(l) = 0
  BY EmptySeq
<1>3. r # <<>>
  BY <1>1
<1> HIDE DEF r
<1>4. \A i \in 1 .. Len(r) : nxt[r[i]] = IF i = Len(r) THEN NULL ELSE r[i + 1]
  <2>1. SUFFICES ASSUME NEW i \in 1 .. Len(r)
                 PROVE  nxt[r[i]] = IF i = Len(r) THEN NULL ELSE r[i + 1]
    OBVIOUS
  <2>2. CASE i = 1
    BY <1>1, <1>2, <2>2 DEF Linked
  <2>3. CASE i > 1
    <3>1. i - 1 \in 1 .. Len(l) /\ r[i] = l[i - 1]
      BY <1>1, <2>3
    <3>2. i # Len(r) => r[i + 1] = l[i]
      BY <1>1, <2>3
    <3> QED BY <1>1, <2>3, <3>1, <3>2 DEF Linked
  <2> QED BY <2>2, <2>3
<1> QED BY <1>1, <1>3, <1>4 DEF Linked, r

(* What the list is as long as the top and the links of free nodes are. *)
LEMMA ListKept ==
  ASSUME IInv, Listed, next' \in [Nodes -> NodeOrNull],
         topNode'.tailNode = topNode.tailNode, FreeNodes' = FreeNodes,
         \A n \in FreeNodes : next'[n] = next[n]
  PROVE  Listed' /\ FreeList' = FreeList
<1>1. PICK l \in Seq(Nodes) : l = FreeList
  BY DEF Listed
<1>2. IsInjective(l) /\ ToSet(l) = FreeNodes /\ Linked(l, topNode.tailNode, next)
  BY <1>1 DEF Listed
<1>3. Linked(l, topNode'.tailNode, next')
  BY <1>2, LinkedKept
<1>4. FreeList' = l
  BY <1>2, <1>3, ListFromIs DEF FreeList
<1> QED BY <1>1, <1>2, <1>3, <1>4 DEF Listed

(* The list with another top and the free nodes that belong to it. *)
LEMMA ListNow ==
  ASSUME next' \in [Nodes -> NodeOrNull], NEW l \in Seq(Nodes), IsInjective(l),
         ToSet(l) = FreeNodes', Linked(l, topNode'.tailNode, next')
  PROVE  Listed' /\ FreeList' = l
<1>1. FreeList' = l
  BY ListFromIs DEF FreeList
<1> QED BY <1>1 DEF Listed

(* Who has which block changes in few steps. *)
Quiet(t) ==
  \/ AllocBegin(t) \/ AllocCheck(t) \/ AllocReadIndex(t) \/ AllocReadNode(t)
  \/ AllocReadNext(t) \/ AllocRetry(t) \/ FreeReadIndex(t) \/ FreeReadNode(t)
  \/ FreeRetry(t) \/ FreeDec(t)

LEMMA QuietKeeps ==
  ASSUME IInv, NEW t \in Threads, Quiet(t)
  PROVE  /\ UNCHANGED <<topNode, next, created, held>>
         /\ FreeNodes' = FreeNodes /\ HeldNodes' = HeldNodes /\ Returning' = Returning
<1>1. /\ UNCHANGED <<topNode, next, created, held, node>>
      /\ pc'[t] \in LinkPC <=> pc[t] \in LinkPC
      /\ \A u \in Threads \ {t} : pc'[u] = pc[u]
  <2>1. CASE AllocBegin(t) \/ AllocCheck(t) \/ AllocReadIndex(t)
    BY <2>1 DEF IInv, TypeOK, AllocBegin, AllocCheck, AllocReadIndex, Goto, counters
  <2>2. CASE AllocReadNode(t) \/ AllocReadNext(t) \/ AllocRetry(t)
    BY <2>2 DEF IInv, TypeOK, AllocReadNode, AllocReadNext, AllocRetry, Goto, counters
  <2>3. CASE FreeReadIndex(t) \/ FreeReadNode(t) \/ FreeRetry(t) \/ FreeDec(t)
    BY <2>3 DEF IInv, TypeOK, FreeReadIndex, FreeReadNode, FreeRetry, FreeDec, Goto, counters
  <2> QED BY <2>1, <2>2, <2>3 DEF Quiet
<1>2. \A u \in Threads : Freeing(u)' = Freeing(u)
  BY <1>1 DEF Freeing
<1>3. {u \in Threads : Freeing(u)}' = {u \in Threads : Freeing(u)}
  BY <1>2
<1> QED BY <1>1, <1>2, <1>3 DEF FreeNodes, HeldNodes, Returning

(* What each of the others does. *)
LEMMA FreeLinkKeeps ==
  ASSUME IInv, Listed, NEW t \in Threads, FreeLink(t)
  PROVE  /\ UNCHANGED <<topNode, created, held>> /\ next' \in [Nodes -> NodeOrNull]
         /\ FreeNodes' = FreeNodes /\ HeldNodes' = HeldNodes /\ Returning' = Returning
         /\ \A n \in FreeNodes : next'[n] = next[n]
<1> USE DEF FreeLink, Goto, counters
<1>1. /\ UNCHANGED <<topNode, created, held, node>>
      /\ next' = [next EXCEPT ![node[t]] = dummyTop[t].tailNode]
      /\ dummyTop[t].tailNode \in NodeOrNull
      /\ \A u \in Threads : Freeing(u)' = Freeing(u)
  BY DEF IInv, TypeOK, Freeing
<1>2. node[t] \notin FreeNodes
  BY DEF FreeNodes, Freeing
<1>3. {u \in Threads : Freeing(u)}' = {u \in Threads : Freeing(u)}
  BY <1>1
<1>4. FreeNodes' = FreeNodes /\ HeldNodes' = HeldNodes /\ Returning' = Returning
  BY <1>1, <1>3 DEF FreeNodes, HeldNodes, Returning
<1>5. /\ next' \in [Nodes -> NodeOrNull]
      /\ \A n \in FreeNodes : next'[n] = next[n]
  BY <1>1, <1>2 DEF IInv, TypeOK, FreeNodes
<1> QED BY <1>1, <1>4, <1>5

LEMMA AllocCASTakes ==
  ASSUME IInv, Listed, NEW t \in Threads, AllocCAS(t)
  PROVE  /\ FreeList # <<>> /\ FreeList' = Tail(FreeList) /\ Listed'
         /\ Head(FreeList) \in Nodes \ HeldNodes
         /\ HeldNodes' = HeldNodes \cup {Head(FreeList)}
         /\ Returning' = Returning /\ created' = created
<1> USE DEF AllocCAS, Goto, Return, InstallTop, TopUnchanged, counters
<1>1. PICK n \in Nodes : n = dummyTop[t].tailNode
  BY DEF IInv, TypeOK
<1>2. /\ topNode.tailNode = n /\ nextVal[t] = next[n]
      /\ n \in FreeNodes /\ held[n] = 0
  BY <1>1 DEF IInv, TypeOK, Reads, NoDoubleAlloc, FreeNodes
<1>3. /\ topNode'.tailNode = next[n] /\ next' = next /\ created' = created
      /\ held' = [held EXCEPT ![n] = @ + 1]
      /\ \A u \in Threads : Freeing(u)' = Freeing(u) /\ (Freeing(u) => node'[u] = node[u])
  BY <1>1, <1>2 DEF IInv, TypeOK, Freeing
<1>4. FreeNodes' = FreeNodes \ {n}
  BY <1>2, <1>3 DEF IInv, TypeOK, FreeNodes
<1>5. HeldNodes' = HeldNodes \cup {n} /\ n \notin HeldNodes
  BY <1>2, <1>3 DEF IInv, TypeOK, HeldNodes
<1>6. Returning' = Returning
  BY <1>3 DEF Returning
<1>7. PICK l \in Seq(Nodes) : l = FreeList
  BY DEF Listed
<1>8. IsInjective(l) /\ ToSet(l) = FreeNodes /\ Linked(l, n, next)
  BY <1>2, <1>7 DEF Listed
<1>9. l # <<>>
  BY <1>8 DEF Linked
<1>10. Head(l) = n /\ Tail(l) \in Seq(Nodes) /\ Linked(Tail(l), next[n], next)
  BY <1>8, <1>9, LinkedTail
<1>11. IsInjective(Tail(l)) /\ ToSet(Tail(l)) = FreeNodes \ {n}
  BY <1>8, <1>9, <1>10, MembersOfTail
<1>12. next' \in [Nodes -> NodeOrNull]
  BY <1>3 DEF IInv, TypeOK
<1>13. Listed' /\ FreeList' = Tail(l)
  BY <1>3, <1>4, <1>10, <1>11, <1>12, ListNow
<1> QED BY <1>3, <1>5, <1>6, <1>7, <1>9, <1>10, <1>13

LEMMA AllocNewGrows ==
  ASSUME IInv, Listed, NEW t \in Threads, AllocNew(t)
  PROVE  \E n \in Nodes \ created :
           /\ created' = created \cup {n} /\ HeldNodes' = HeldNodes \cup {n}
           /\ n \notin HeldNodes /\ n \notin Returning /\ n \notin ToSet(FreeList)
           /\ FreeList' = FreeList /\ Listed' /\ Returning' = Returning
<1> USE DEF AllocNew, Goto, Return
<1>1. PICK n \in Nodes \ created :
        /\ created' = created \cup {n}
        /\ next' = [next EXCEPT ![n] = NULL]
        /\ held' = [held EXCEPT ![n] = @ + 1]
  OBVIOUS
<1>2. alive /\ held[n] = 0 /\ n \notin FreeNodes
  BY DEF IInv, TypeOK, Owned, Destroyed, FreeNodes
<1>3. \A u \in Threads : /\ Freeing(u)' = Freeing(u)
                         /\ Freeing(u) => node'[u] = node[u] /\ node[u] \in created
  BY <1>2 DEF IInv, TypeOK, Freeing, Owned
<1>4. Returning' = Returning /\ n \notin Returning
  BY <1>3 DEF Returning
<1>5. FreeNodes' = FreeNodes
  BY <1>1, <1>2, <1>3 DEF IInv, TypeOK, FreeNodes
<1>6. HeldNodes' = HeldNodes \cup {n} /\ n \notin HeldNodes
  BY <1>1, <1>2 DEF IInv, TypeOK, HeldNodes
<1>7. /\ next' \in [Nodes -> NodeOrNull] /\ topNode' = topNode
      /\ \A m \in FreeNodes : next'[m] = next[m]
  BY <1>1, <1>2 DEF IInv, TypeOK, FreeNodes
<1>8. Listed' /\ FreeList' = FreeList
  BY <1>5, <1>7, ListKept
<1>9. n \notin ToSet(FreeList)
  BY <1>2 DEF Listed
<1> QED BY <1>1, <1>4, <1>6, <1>8, <1>9

LEMMA FreeBeginReleases ==
  ASSUME IInv, Listed, NEW t \in Threads, FreeBegin(t)
  PROVE  \E n \in HeldNodes :
           /\ HeldNodes' = HeldNodes \ {n} /\ Returning' = Returning \cup {n}
           /\ FreeList' = FreeList /\ Listed' /\ created' = created
<1> USE DEF FreeBegin, Goto, TakeTag, counters
<1>1. PICK n \in Nodes : /\ held[n] > 0
                         /\ held' = [held EXCEPT ![n] = @ - 1]
                         /\ node' = [node EXCEPT ![t] = n]
  OBVIOUS
<1>2. held[n] = 1 /\ n \in created
  BY <1>1 DEF IInv, TypeOK, NoDoubleAlloc, Owned
<1>3. /\ Freeing(t)' /\ ~Freeing(t) /\ node'[t] = n
      /\ \A u \in Threads : u # t => Freeing(u)' = Freeing(u) /\ node'[u] = node[u]
  BY <1>1 DEF IInv, TypeOK, Freeing
<1>4. FreeNodes' = FreeNodes
  BY <1>1, <1>2, <1>3 DEF IInv, TypeOK, FreeNodes
<1>5. n \in HeldNodes /\ HeldNodes' = HeldNodes \ {n}
  BY <1>1, <1>2 DEF IInv, TypeOK, HeldNodes
<1>6. Returning' = Returning \cup {n}
  BY <1>3 DEF Returning
<1>7. topNode' = topNode /\ next' = next /\ next \in [Nodes -> NodeOrNull]
  BY DEF IInv, TypeOK
<1>8. Listed' /\ FreeList' = FreeList
  BY <1>4, <1>7, ListKept
<1> QED BY <1>5, <1>6, <1>8

LEMMA FreeCASReturns ==
  ASSUME IInv, Listed, NEW t \in Threads, FreeCAS(t)
  PROVE  \E n \in Nodes :
           /\ n \in Returning /\ Returning' = Returning \ {n}
           /\ FreeList' = <<n>> \o FreeList /\ Listed'
           /\ HeldNodes' = HeldNodes /\ created' = created
<1> USE DEF FreeCAS, Goto, Return, InstallTop, TopUnchanged, counters
<1>1. PICK n \in Nodes : n = node[t]
  BY DEF IInv, TypeOK, Freeing
<1>2. /\ n \in created /\ held[n] = 0 /\ n \notin FreeNodes
      /\ next[n] = topNode.tailNode
  BY <1>1 DEF IInv, TypeOK, Reads, Destroyed, NoDoubleAlloc, Owned, FreeNodes, Freeing
<1>3. /\ Freeing(t) /\ ~Freeing(t)'
      /\ \A u \in Threads : u # t => Freeing(u)' = Freeing(u) /\ node'[u] = node[u]
      /\ \A u \in Threads : u # t /\ Freeing(u) => node[u] # n
  BY <1>1 DEF IInv, TypeOK, Freeing, NoDoubleAlloc
<1>4. FreeNodes' = FreeNodes \cup {n}
  <2>1. \A m \in created : m # n => (m \in FreeNodes' <=> m \in FreeNodes)
    BY <1>1, <1>3 DEF FreeNodes
  <2>2. n \in FreeNodes'
    BY <1>2, <1>3 DEF FreeNodes
  <2> QED BY <1>2, <2>1, <2>2 DEF FreeNodes
<1>5. n \in Returning /\ Returning' = Returning \ {n}
  BY <1>1, <1>3 DEF Returning
<1>6. topNode'.tailNode = n /\ next' = next /\ next \in [Nodes -> NodeOrNull]
  BY <1>1 DEF IInv, TypeOK
<1>7. PICK l \in Seq(Nodes) : l = FreeList
  BY DEF Listed
<1>8. IsInjective(l) /\ ToSet(l) = FreeNodes /\ Linked(l, topNode.tailNode, next)
  BY <1>7 DEF Listed
<1>9. Linked(<<n>> \o l, n, next)
  BY <1>2, <1>8, LinkedPush
<1>10. /\ <<n>> \o l \in Seq(Nodes) /\ IsInjective(<<n>> \o l)
       /\ ToSet(<<n>> \o l) = FreeNodes \cup {n}
  BY <1>2, <1>8, MembersPrepended
<1>11. Listed' /\ FreeList' = <<n>> \o l
  BY <1>4, <1>6, <1>9, <1>10, ListNow
<1>12. HeldNodes' = HeldNodes /\ created' = created
  BY DEF HeldNodes
<1> QED BY <1>5, <1>7, <1>11, <1>12

LEMMA ClearDeletes ==
  ASSUME IInv, Listed, Clear
  PROVE  /\ FreeList' = <<>> /\ Listed'
         /\ HeldNodes' = HeldNodes /\ created' \subseteq created
         /\ Returning = {} /\ Returning' = {} /\ Growing = {} /\ Growing' = {}
<1> USE DEF Clear
<1>1. HeldNodes' = HeldNodes /\ created' \subseteq created
  BY DEF HeldNodes
<1>2. Returning = {} /\ Returning' = {} /\ Growing = {} /\ Growing' = {}
  BY DEF Returning, Growing, Freeing
<1>3. FreeNodes' = {}
  <2>1. FreeNodes \subseteq OnList
    BY DEF Listed, OnList, FreeNodes
  <2>2. FreeNodes' \subseteq FreeNodes \ OnList
    BY DEF FreeNodes, Freeing
  <2> QED BY <2>1, <2>2
<1>4. <<>> \in Seq(Nodes) /\ IsInjective(<<>>) /\ ToSet(<<>>) = {}
  BY DEF IsInjective, ToSet
<1>5. topNode'.tailNode = NULL /\ next' = next /\ next \in [Nodes -> NodeOrNull]
  BY DEF IInv, TypeOK
<1>6. Linked(<<>>, NULL, next)
  BY DEF Linked
<1>7. Listed' /\ FreeList' = <<>>
  BY <1>3, <1>4, <1>5, <1>6, ListNow
<1> QED BY <1>1, <1>2, <1>7

-----------------------------------------------------------------------------
(* The counts *)

LEMMA CountsFinite ==
  ASSUME TypeOK
  PROVE  /\ HeldNodes \in SUBSET Nodes /\ created \in SUBSET Nodes
         /\ Busy \in SUBSET Threads /\ Growing \in SUBSET Threads
         /\ Cardinality(HeldNodes) \in Nat /\ Cardinality(created) \in Nat
         /\ Cardinality(Busy) \in Nat /\ Cardinality(Growing) \in Nat
<1>1. /\ HeldNodes \in SUBSET Nodes /\ created \in SUBSET Nodes
      /\ Busy \in SUBSET Threads /\ Growing \in SUBSET Threads
  BY DEF TypeOK, HeldNodes, Busy, Growing
<1> QED BY <1>1, CountNone, NodesAssumption, ThreadsAssumption

(* The number of calls under way goes up and down with the calls. *)
LEMMA BusyChanges ==
  ASSUME TypeOK, Counted, NEW t \in Threads
  PROVE  /\ AllocBegin(t) \/ FreeBegin(t) =>
              Cardinality(Busy') = Cardinality(Busy) + 1
         /\ AllocCAS(t) \/ AllocNew(t) \/ FreeDec(t) =>
              Cardinality(Busy') = Cardinality(Busy) - 1
         /\ (\/ AllocCheck(t) \/ AllocReadIndex(t) \/ AllocReadNode(t)
             \/ AllocReadNext(t) \/ AllocRetry(t) \/ FreeReadIndex(t)
             \/ FreeReadNode(t) \/ FreeLink(t) \/ FreeCAS(t) \/ FreeRetry(t))
              => Busy' = Busy
<1>1. Busy \in SUBSET Threads
  BY DEF Busy
<1>2. ASSUME pc' = [pc EXCEPT ![t] = "idle"], pc[t] # "idle"
      PROVE  Cardinality(Busy') = Cardinality(Busy) - 1
  <2>1. t \in Busy /\ Busy' = Busy \ {t}
    BY <1>2 DEF TypeOK, Busy
  <2> QED BY <1>1, <2>1, ThreadsAssumption, CountOneLess
<1>3. ASSUME NEW d, d # "idle", pc' = [pc EXCEPT ![t] = d], pc[t] = "idle"
      PROVE  Cardinality(Busy') = Cardinality(Busy) + 1
  <2>1. t \notin Busy /\ Busy' = Busy \cup {t}
    BY <1>3 DEF TypeOK, Busy
  <2> QED BY <1>1, <2>1, ThreadsAssumption, CountOneMore
<1>4. ASSUME NEW d, d # "idle", pc' = [pc EXCEPT ![t] = d], pc[t] # "idle"
      PROVE  Busy' = Busy
  BY <1>4 DEF TypeOK, Busy
<1>5. AllocBegin(t) \/ FreeBegin(t) => Cardinality(Busy') = Cardinality(Busy) + 1
  BY <1>3 DEF AllocBegin, FreeBegin, Goto
<1>6. AllocCAS(t) \/ AllocNew(t) \/ FreeDec(t) => Cardinality(Busy') = Cardinality(Busy) - 1
  BY <1>2 DEF AllocCAS, AllocNew, FreeDec, Goto
<1>7. (\/ AllocCheck(t) \/ AllocReadIndex(t) \/ AllocReadNode(t)
       \/ AllocReadNext(t) \/ AllocRetry(t)) => Busy' = Busy
  BY <1>4 DEF AllocCheck, AllocReadIndex, AllocReadNode, AllocReadNext, AllocRetry, Goto
<1>8. (\/ FreeReadIndex(t) \/ FreeReadNode(t) \/ FreeLink(t)
       \/ FreeCAS(t) \/ FreeRetry(t)) => Busy' = Busy
  BY <1>4 DEF FreeReadIndex, FreeReadNode, FreeLink, FreeCAS, FreeRetry, Goto
<1> QED BY <1>5, <1>6, <1>7, <1>8

(* When the list is empty, every block is in use or in a Free; so one more *)
(* may be created for a call that counts for none of those.                *)
LEMMA ExhaustedHasRoom ==
  ASSUME IInv, Listed, Counted, topNode.tailNode = NULL,
         NEW t \in Busy \ Growing, ~Freeing(t)
  PROVE  /\ FreeList = <<>>
         /\ Cardinality(created) + Cardinality(Growing \cup {t}) <= MaxUsed
<1> DEFINE Freers == {u \in Threads : Freeing(u)}
           More == Growing \cup {t}
<1>1. FreeList = <<>>
  <2>1. PICK l \in Seq(Nodes) : l = FreeList /\ Linked(l, NULL, next)
    BY DEF Listed
  <2>2. l # <<>> => l[1] \in Nodes
    BY EmptySeq, LenProperties, ElementOfSeq
  <2> QED BY <2>1, <2>2 DEF Linked
<1>2. FreeNodes = {}
  BY <1>1 DEF Listed, ToSet
<1>3. created \subseteq HeldNodes \cup Returning
  BY <1>2 DEF IInv, TypeOK, FreeNodes, HeldNodes, Returning
<1>4. /\ IsFiniteSet(Freers) /\ Cardinality(Freers) \in Nat
      /\ IsFiniteSet(Returning) /\ Cardinality(Returning) \in Nat
      /\ Cardinality(Returning) <= Cardinality(Freers)
  <2>1. Freers \in SUBSET Threads
    OBVIOUS
  <2>2. IsFiniteSet(Freers) /\ Cardinality(Freers) \in Nat
    BY <2>1, ThreadsAssumption, FS_Subset, CountNone
  <2>3. [u \in Freers |-> node[u]] \in Surjection(Freers, Returning)
    BY DEF Returning, Surjection
  <2> HIDE DEF Freers
  <2> QED BY <2>2, <2>3, FS_Surjection, FS_CardinalityType
<1>5. /\ IsFiniteSet(HeldNodes) /\ Cardinality(HeldNodes) \in Nat
      /\ IsFiniteSet(More) /\ Cardinality(More) \in Nat
      /\ IsFiniteSet(Busy) /\ Cardinality(Busy) \in Nat
  <2>1. HeldNodes \in SUBSET Nodes /\ More \in SUBSET Threads /\ Busy \in SUBSET Threads
    BY DEF HeldNodes, Growing, Busy
  <2> HIDE DEF More
  <2> QED BY <2>1, NodesAssumption, ThreadsAssumption, FS_Subset, CountNone
<1>6. /\ Cardinality(created) \in Nat
      /\ Cardinality(created) <= Cardinality(HeldNodes) + Cardinality(Freers)
  <2>1. /\ IsFiniteSet(HeldNodes \cup Returning)
        /\ Cardinality(HeldNodes \cup Returning)
             = Cardinality(HeldNodes) + Cardinality(Returning)
                 - Cardinality(HeldNodes \cap Returning)
    BY <1>4, <1>5, FS_Union
  <2>2. Cardinality(HeldNodes \cap Returning) \in Nat
    BY <1>5, CountNone
  <2>3. /\ Cardinality(created) <= Cardinality(HeldNodes \cup Returning)
        /\ Cardinality(created) \in Nat
    BY <1>3, <2>1, FS_Subset, CountNone
  <2> HIDE DEF Freers
  <2> QED BY <1>4, <1>5, <2>1, <2>2, <2>3
<1>7. Cardinality(Freers) + Cardinality(More) <= Cardinality(Busy)
  <2>1. Freers \cap More = {} /\ Freers \cup More \subseteq Busy
    BY DEF Growing, Busy, Freeing
  <2>2. /\ IsFiniteSet(Freers \cup More)
        /\ Cardinality(Freers \cup More)
             = Cardinality(Freers) + Cardinality(More) - Cardinality({})
    <3> HIDE DEF Freers, More
    <3> QED BY <1>4, <1>5, <2>1, FS_Union
  <2>3. Cardinality(Freers \cup More) <= Cardinality(Busy)
    <3> HIDE DEF Freers, More
    <3> QED BY <1>5, <2>1, FS_Subset
  <2> HIDE DEF Freers, More
  <2> QED BY <1>4, <1>5, <2>2, <2>3, FS_EmptySet
<1>8. usedCount = Cardinality(HeldNodes) + Cardinality(Busy) /\ usedCount <= MaxUsed
  BY DEF Counted
<1> HIDE DEF Freers, More
<1>9. Cardinality(created) + Cardinality(More) <= MaxUsed
  BY <1>4, <1>5, <1>6, <1>7, <1>8, BoundsAssumption
<1> QED BY <1>1, <1>9 DEF More

-----------------------------------------------------------------------------
(* Each action keeps the list and the counts. *)

(* Who is committed to `new'. *)
LEMMA GrowingChanges ==
  ASSUME TypeOK, NEW t \in Threads
  PROVE  /\ (AllocCheck(t) \/ AllocReadNode(t)) =>
               /\ t \in Busy \ Growing /\ ~Freeing(t)
               /\ Growing' = IF topNode.tailNode = NULL THEN Growing \cup {t} ELSE Growing
         /\ AllocNew(t) => t \in Growing /\ Growing' = Growing \ {t}
         /\ (\/ AllocBegin(t) \/ AllocReadIndex(t) \/ AllocReadNext(t)
             \/ AllocRetry(t) \/ AllocCAS(t) \/ FreeBegin(t) \/ FreeReadIndex(t)
             \/ FreeReadNode(t) \/ FreeLink(t) \/ FreeCAS(t) \/ FreeRetry(t)
             \/ FreeDec(t)) => Growing' = Growing
<1>1. (AllocCheck(t) \/ AllocReadNode(t)) =>
        /\ t \in Busy \ Growing /\ ~Freeing(t)
        /\ Growing' = IF topNode.tailNode = NULL THEN Growing \cup {t} ELSE Growing
  BY DEF TypeOK, Growing, Busy, Freeing, AllocCheck, AllocReadNode, Goto
<1>2. AllocNew(t) => t \in Growing /\ Growing' = Growing \ {t}
  BY DEF TypeOK, Growing, AllocNew, Goto
<1>3. (\/ AllocBegin(t) \/ AllocReadIndex(t) \/ AllocReadNext(t)
       \/ AllocRetry(t) \/ AllocCAS(t)) => Growing' = Growing
  BY DEF TypeOK, Growing, AllocBegin, AllocReadIndex, AllocReadNext, AllocRetry,
         AllocCAS, Goto
<1>4. (\/ FreeBegin(t) \/ FreeReadIndex(t) \/ FreeReadNode(t) \/ FreeLink(t)
       \/ FreeCAS(t) \/ FreeRetry(t) \/ FreeDec(t)) => Growing' = Growing
  BY DEF TypeOK, Growing, FreeBegin, FreeReadIndex, FreeReadNode, FreeLink,
         FreeCAS, FreeRetry, FreeDec, Goto
<1> QED BY <1>1, <1>2, <1>3, <1>4

LEMMA ListInvInit == Init => ListInv
<1> SUFFICES ASSUME Init  PROVE ListInv
  OBVIOUS
<1>1. IInv
  BY IInvInit
<1>2. FreeNodes = {} /\ HeldNodes = {} /\ Busy = {} /\ Growing = {} /\ created = {}
  BY DEF Init, FreeNodes, HeldNodes, Busy, Growing
<1>3. <<>> \in Seq(Nodes) /\ IsInjective(<<>>) /\ ToSet(<<>>) = {}
  BY DEF IsInjective, ToSet
<1>4. /\ next \in [Nodes -> NodeOrNull]
      /\ Linked(<<>>, topNode.tailNode, next)
  BY DEF Init, Linked
<1>5. FreeList = <<>>
  BY <1>3, <1>4, ListFromIs DEF FreeList
<1>6. Listed
  BY <1>2, <1>3, <1>4, <1>5 DEF Listed
<1>7. Counted /\ GrowthBound
  BY <1>2, FS_EmptySet, BoundsAssumption DEF Init, Counted, GrowthBound
<1> QED BY <1>1, <1>6, <1>7 DEF ListInv

LEMMA QuietStep ==
  ASSUME ListInv, IInv', NEW t \in Threads, Quiet(t)
  PROVE  /\ Listed' /\ Counted' /\ GrowthBound'
         /\ FreeList' = FreeList /\ HeldNodes' = HeldNodes /\ Returning' = Returning
         /\ Growing' # Growing =>
              FreeList = <<>> /\ t \notin Growing /\ Growing' = Growing \cup {t}
<1>1. IInv /\ TypeOK /\ Listed /\ Counted /\ GrowthBound
  BY DEF ListInv, IInv
<1>2. /\ UNCHANGED <<topNode, next, created, held>>
      /\ FreeNodes' = FreeNodes /\ HeldNodes' = HeldNodes /\ Returning' = Returning
  BY <1>1, QuietKeeps
<1>3. Listed' /\ FreeList' = FreeList
  BY <1>1, <1>2, ListKept DEF IInv, TypeOK
<1>4. /\ Cardinality(HeldNodes) \in Nat /\ Cardinality(Busy) \in Nat
      /\ usedCount = Cardinality(HeldNodes) + Cardinality(Busy) /\ usedCount <= MaxUsed
  BY <1>1, CountsFinite DEF Counted
<1>5. Counted'
  <2>1. CASE AllocBegin(t)
    <3>1. usedCount' = usedCount + 1 /\ usedCount < MaxUsed
      BY <2>1 DEF AllocBegin
    <3> QED BY <1>1, <1>2, <1>4, <2>1, <3>1, BusyChanges, BoundsAssumption DEF Counted
  <2>2. CASE FreeDec(t)
    <3>1. usedCount' = usedCount - 1
      BY <2>2 DEF FreeDec
    <3> QED BY <1>1, <1>2, <1>4, <2>2, <3>1, BusyChanges, BoundsAssumption DEF Counted
  <2>3. CASE ~AllocBegin(t) /\ ~FreeDec(t)
    <3>1. usedCount' = usedCount
      BY <2>3 DEF Quiet, AllocCheck, AllocReadIndex, AllocReadNode, AllocReadNext,
         AllocRetry, FreeReadIndex, FreeReadNode, FreeRetry, counters
    <3>2. Busy' = Busy
      BY <1>1, <2>3, BusyChanges DEF Quiet
    <3> QED BY <1>1, <1>2, <3>1, <3>2 DEF Counted
  <2> QED BY <2>1, <2>2, <2>3
<1>6. /\ GrowthBound'
      /\ Growing' # Growing =>
           FreeList = <<>> /\ t \notin Growing /\ Growing' = Growing \cup {t}
  <2>1. CASE (AllocCheck(t) \/ AllocReadNode(t)) /\ topNode.tailNode = NULL
    <3>1. t \in Busy \ Growing /\ ~Freeing(t) /\ Growing' = Growing \cup {t}
      BY <1>1, <2>1, GrowingChanges
    <3>2. /\ FreeList = <<>>
          /\ Cardinality(created) + Cardinality(Growing \cup {t}) <= MaxUsed
      BY <1>1, <2>1, <3>1, ExhaustedHasRoom
    <3> QED BY <1>2, <3>1, <3>2 DEF GrowthBound
  <2>2. CASE ~((AllocCheck(t) \/ AllocReadNode(t)) /\ topNode.tailNode = NULL)
    <3>1. Growing' = Growing
      BY <1>1, <2>2, GrowingChanges DEF Quiet
    <3> QED BY <1>1, <1>2, <3>1 DEF GrowthBound
  <2> QED BY <2>1, <2>2
<1> QED BY <1>2, <1>3, <1>5, <1>6

LEMMA FreeLinkStays ==
  ASSUME ListInv, IInv', NEW t \in Threads, FreeLink(t)
  PROVE  /\ Listed' /\ Counted' /\ GrowthBound'
         /\ FreeList' = FreeList /\ HeldNodes' = HeldNodes /\ Returning' = Returning
         /\ Growing' = Growing
<1>1. IInv /\ TypeOK /\ Listed /\ Counted /\ GrowthBound
  BY DEF ListInv, IInv
<1>2. /\ UNCHANGED <<topNode, created, held>> /\ next' \in [Nodes -> NodeOrNull]
      /\ FreeNodes' = FreeNodes /\ HeldNodes' = HeldNodes /\ Returning' = Returning
      /\ \A n \in FreeNodes : next'[n] = next[n]
  BY <1>1, FreeLinkKeeps
<1>3. Listed' /\ FreeList' = FreeList
  BY <1>1, <1>2, ListKept
<1>4. Growing' = Growing /\ Busy' = Busy /\ usedCount' = usedCount
  <2>1. usedCount' = usedCount
    BY DEF FreeLink, counters
  <2> QED BY <1>1, <2>1, GrowingChanges, BusyChanges
<1> QED BY <1>1, <1>2, <1>3, <1>4 DEF Counted, GrowthBound

LEMMA AllocCASCounts ==
  ASSUME ListInv, NEW t \in Threads, AllocCAS(t)
  PROVE  Listed' /\ Counted' /\ GrowthBound' /\ Growing' = Growing
<1>1. IInv /\ TypeOK /\ Listed /\ Counted /\ GrowthBound
  BY DEF ListInv, IInv
<1>2. PICK n \in Nodes \ HeldNodes : HeldNodes' = HeldNodes \cup {n}
  BY <1>1, AllocCASTakes
<1>3. Cardinality(HeldNodes') = Cardinality(HeldNodes) + 1
  BY <1>1, <1>2, CountsFinite, NodesAssumption, CountOneMore
<1>4. Cardinality(Busy') = Cardinality(Busy) - 1 /\ Growing' = Growing
  BY <1>1, BusyChanges, GrowingChanges
<1>5. usedCount' = usedCount /\ created' = created
  BY DEF AllocCAS, counters
<1>6. Counted'
  BY <1>1, <1>3, <1>4, <1>5, CountsFinite DEF Counted
<1> QED BY <1>1, <1>4, <1>5, <1>6, AllocCASTakes DEF GrowthBound

LEMMA AllocNewCounts ==
  ASSUME ListInv, NEW t \in Threads, AllocNew(t)
  PROVE  /\ Listed' /\ Counted' /\ GrowthBound'
         /\ t \in Growing /\ Growing' = Growing \ {t}
<1>1. IInv /\ TypeOK /\ Listed /\ Counted /\ GrowthBound
  BY DEF ListInv, IInv
<1>2. PICK n \in Nodes \ created :
        /\ created' = created \cup {n} /\ HeldNodes' = HeldNodes \cup {n}
        /\ n \notin HeldNodes /\ Listed'
  BY <1>1, AllocNewGrows
<1>3. /\ Cardinality(HeldNodes') = Cardinality(HeldNodes) + 1
      /\ Cardinality(created') = Cardinality(created) + 1
  BY <1>1, <1>2, CountsFinite, NodesAssumption, CountOneMore
<1>4. Cardinality(Busy') = Cardinality(Busy) - 1
  BY <1>1, BusyChanges
<1>5. t \in Growing /\ Growing' = Growing \ {t}
  BY <1>1, GrowingChanges
<1>6. Cardinality(Growing') = Cardinality(Growing) - 1
  BY <1>1, <1>5, CountsFinite, ThreadsAssumption, CountOneLess
<1>7. usedCount' = usedCount
  BY DEF AllocNew
<1>8. Counted'
  BY <1>1, <1>3, <1>4, <1>7, CountsFinite DEF Counted
<1>9. GrowthBound'
  BY <1>1, <1>3, <1>6, CountsFinite, BoundsAssumption DEF GrowthBound
<1> QED BY <1>2, <1>5, <1>8, <1>9

LEMMA FreeBeginCounts ==
  ASSUME ListInv, NEW t \in Threads, FreeBegin(t)
  PROVE  Listed' /\ Counted' /\ GrowthBound' /\ Growing' = Growing
<1>1. IInv /\ TypeOK /\ Listed /\ Counted /\ GrowthBound
  BY DEF ListInv, IInv
<1>2. PICK n \in HeldNodes : HeldNodes' = HeldNodes \ {n} /\ Listed'
  BY <1>1, FreeBeginReleases
<1>3. Cardinality(HeldNodes') = Cardinality(HeldNodes) - 1
  BY <1>1, <1>2, CountsFinite, NodesAssumption, CountOneLess
<1>4. Cardinality(Busy') = Cardinality(Busy) + 1 /\ Growing' = Growing
  BY <1>1, BusyChanges, GrowingChanges
<1>5. usedCount' = usedCount /\ created' = created
  BY DEF FreeBegin, counters
<1>6. Counted'
  BY <1>1, <1>3, <1>4, <1>5, CountsFinite DEF Counted
<1> QED BY <1>1, <1>2, <1>4, <1>5, <1>6 DEF GrowthBound

LEMMA FreeCASCounts ==
  ASSUME ListInv, NEW t \in Threads, FreeCAS(t)
  PROVE  Listed' /\ Counted' /\ GrowthBound' /\ Growing' = Growing
<1>1. IInv /\ TypeOK /\ Listed /\ Counted /\ GrowthBound
  BY DEF ListInv, IInv
<1>2. Listed' /\ HeldNodes' = HeldNodes /\ created' = created
  BY <1>1, FreeCASReturns
<1>3. Busy' = Busy /\ Growing' = Growing
  BY <1>1, BusyChanges, GrowingChanges
<1>4. usedCount' = usedCount
  BY DEF FreeCAS, counters
<1> QED BY <1>1, <1>2, <1>3, <1>4 DEF Counted, GrowthBound

LEMMA ClearCounts ==
  ASSUME ListInv, Clear  PROVE Listed' /\ Counted' /\ GrowthBound'
<1>1. IInv /\ TypeOK /\ Listed /\ Counted /\ GrowthBound
  BY DEF ListInv, IInv
<1>2. /\ Listed' /\ HeldNodes' = HeldNodes /\ created' \subseteq created
      /\ Growing' = Growing
  BY <1>1, ClearDeletes
<1>3. Busy' = Busy /\ usedCount' = usedCount
  BY DEF Clear, Busy
<1>4. IsFiniteSet(created) /\ Cardinality(created) \in Nat
  BY <1>1, CountsFinite, NodesAssumption, FS_Subset
<1>5. Cardinality(created') \in Nat /\ Cardinality(created') <= Cardinality(created)
  BY <1>2, <1>4, FS_Subset, CountNone
<1>6. GrowthBound'
  BY <1>1, <1>2, <1>4, <1>5, CountsFinite, BoundsAssumption DEF GrowthBound
<1> QED BY <1>1, <1>2, <1>3, <1>6 DEF Counted

LEMMA ListInvStep == ListInv /\ [Next]_vars => ListInv'
<1> SUFFICES ASSUME ListInv, [Next]_vars  PROVE Listed' /\ Counted' /\ GrowthBound'
  BY IInvStep DEF ListInv
<1>1. IInv'
  BY IInvStep DEF ListInv
<1>2. ASSUME NEW t \in Threads, AllocBegin(t) \/ FreeBegin(t) \/ Step(t)
      PROVE  Listed' /\ Counted' /\ GrowthBound'
  <2>1. CASE Quiet(t)
    BY <1>1, <2>1, QuietStep
  <2>2. CASE ~Quiet(t)
    BY <1>1, <1>2, <2>2, FreeLinkStays, AllocCASCounts, AllocNewCounts,
       FreeBeginCounts, FreeCASCounts DEF Step, Quiet
  <2> QED BY <2>1, <2>2
<1>3. CASE Clear
  BY <1>3, ClearCounts
<1>4. CASE UNCHANGED vars
  BY <1>4 DEF ListInv, Listed, Counted, GrowthBound, FreeList, FreeNodes, HeldNodes,
     Busy, Growing, Freeing, vars
<1> QED BY <1>2, <1>3, <1>4 DEF Next

(* The free list is what it should be, and the counts are exact. *)
THEOREM ListInvariant == Spec => []ListInv
  BY ListInvInit, ListInvStep, PTL DEF Spec

(* No block is lost: every block that is neither in use nor in a Free is on *)
(* the free list, once, for any number of threads, blocks and calls.        *)
THEOREM NoNodeLost == Spec => []NoLostNode
<1>1. ListInv => NoLostNode
  <2> SUFFICES ASSUME ListInv  PROVE NoLostNode
    OBVIOUS
  <2>1. PICK l \in Seq(Nodes) : l = FreeList
    BY DEF ListInv, Listed
  <2>2. IsInjective(l) /\ ToSet(l) = FreeNodes
    BY <2>1 DEF ListInv, Listed
  <2>3. Len(l) = Cardinality(ToSet(l))
    BY <2>2, NodesAssumption, InjectiveCount
  <2> QED BY <2>1, <2>2, <2>3 DEF NoLostNode
<1> QED BY <1>1, ListInvariant, PTL

(* The pool asks for a new block only when there is none free: it never has *)
(* more blocks than the application used at one time.                       *)
THEOREM GrowthBounded == Spec => []GrowthBound
<1>1. ListInv => GrowthBound
  BY DEF ListInv
<1> QED BY <1>1, ListInvariant, PTL

-----------------------------------------------------------------------------
(* The refinement of ObjectPool *)

LEMMA InitRefines == Init => Abstract!Init
<1> SUFFICES ASSUME Init  PROVE Abstract!Init
  OBVIOUS
<1>1. FreeNodes = {} /\ HeldNodes = {} /\ Growing = {} /\ Returning = {}
  BY DEF Init, FreeNodes, HeldNodes, Growing, Returning, Freeing
<1>2. ListInv
  BY ListInvInit
<1>3. FreeList = <<>>
  <2>1. PICK l \in Seq(Nodes) : l = FreeList /\ ToSet(l) = {}
    BY <1>1, <1>2 DEF ListInv, Listed
  <2>2. \A i \in 1 .. Len(l) : l[i] \in ToSet(l)
    BY <2>1, MembersOf
  <2>3. Len(l) = 0
    BY <2>1, <2>2, LenProperties
  <2> QED BY <2>1, <2>3, EmptySeq
<1> QED BY <1>1, <1>3 DEF Abstract!Init

LEMMA NextRefines ==
  ASSUME ListInv, ListInv', [Next]_vars  PROVE [Abstract!Next]_Abstract!vars
<1> USE DEF Abstract!vars
<1>1. IInv /\ TypeOK /\ Listed /\ IInv'
  BY DEF ListInv, IInv
<1>2. ASSUME NEW t \in Threads, Quiet(t) \/ FreeLink(t)
      PROVE  [Abstract!Exhausted(t)]_Abstract!vars
  BY <1>1, <1>2, QuietStep, FreeLinkStays DEF Abstract!Exhausted
<1>3. ASSUME NEW t \in Threads, AllocCAS(t)  PROVE Abstract!Take
  BY <1>1, <1>3, AllocCASTakes, AllocCASCounts DEF Abstract!Take
<1>4. ASSUME NEW t \in Threads, AllocNew(t)  PROVE Abstract!Grow(t)
  BY <1>1, <1>4, AllocNewGrows, AllocNewCounts DEF Abstract!Grow, ToSet, Abstract!ToSet
<1>5. ASSUME NEW t \in Threads, FreeBegin(t)
      PROVE  \E n \in Nodes : Abstract!Release(n)
  BY <1>1, <1>5, FreeBeginReleases, FreeBeginCounts DEF Abstract!Release, HeldNodes
<1>6. ASSUME NEW t \in Threads, FreeCAS(t)
      PROVE  \E n \in Nodes : Abstract!Return(n)
  BY <1>1, <1>6, FreeCASReturns, FreeCASCounts DEF Abstract!Return
<1>7. ASSUME Clear  PROVE Abstract!Delete
  BY <1>1, <1>7, ClearDeletes DEF Abstract!Delete
<1>8. CASE UNCHANGED vars
  BY <1>8 DEF FreeList, HeldNodes, Growing, Returning, Freeing, vars
<1> QED BY <1>2, <1>3, <1>4, <1>5, <1>6, <1>7, <1>8
        DEF Next, Step, Quiet, Abstract!Next

(* memoryPool is a pool: every behaviour of it, seen from outside, is one of *)
(* the abstract pool's, in which Alloc and Free are single steps.            *)
THEOREM Refinement == Spec => ImplementsObjectPool
<1>1. Init => Abstract!Init
  BY InitRefines
<1>2. ListInv /\ ListInv' /\ [Next]_vars => [Abstract!Next]_Abstract!vars
  BY NextRefines
<1> QED BY <1>1, <1>2, ListInvariant, PTL
        DEF Spec, ImplementsObjectPool, Abstract!Spec
=============================================================================
