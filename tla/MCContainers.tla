--------------------------- MODULE MCContainers ---------------------------
(***************************************************************************)
(* The data structures for TLC: a behaviour exercises one of them, while   *)
(* the variables of the others stay as they are.  Each is small, and all   *)
(* of it is explored.  The ring starts with every content of its buffer,   *)
(* and gets every byte string that fits.                                   *)
(***************************************************************************)
EXTENDS WinBuffer, FiniteSets

CONSTANTS Producers, Consumer, StackSize, QueueSize, MaxOps, MaxMade, chunkSize, MaxChunks
CONSTANTS defaultBuffer, Code, Key, Rands, Length

VARIABLES
  which,
  next, data, usedSize, uniqueIndex, free, pc, node, made, taken, crashed,
  topNode, top, nextVal, newTag,
  headTop, tailTop, unq, head, tail, iter, astray,
  chunkPool, created, allocCount, freeCount, usedCount, current, held, torn,
  buf, stage, got, last, misused

stackOnly == <<topNode, top, nextVal, newTag>>
queueOnly == <<headTop, tailTop, unq, head, tail, iter, astray>>
lists == <<next, usedSize, uniqueIndex, free, node, made, taken, crashed>>
chunkOnly == <<chunkPool, created, allocCount, freeCount, usedCount, current, held, torn>>
threads == <<data, pc>>
packet == <<buf, stage, got, last, misused>>
allVars == <<which, threads, lists, stackOnly, queueOnly, chunkOnly, packet, vars>>

MCBytes == {0, 1}
MCInputs == UNION {[1 .. n -> MCBytes] : n \in 0 .. Length}
MCValues == {<<1>>, <<2, 3>>}

S == INSTANCE LockFreeStack WITH Size <- StackSize
Q == INSTANCE LockFreeQueue WITH Size <- QueueSize
C == INSTANCE ChunkPool WITH Threads <- Producers
P == INSTANCE PacketBytes WITH Base <- 4, Inputs <- MCValues

(* The variables of a structure that is not the one exercised. *)
NoRing == Init /\ buffer = [p \in Positions |-> 0]
NoThreads == data = 0 /\ pc = 0
NoLists ==
  /\ next = 0 /\ usedSize = 0 /\ uniqueIndex = 0 /\ free = 0 /\ node = 0
  /\ made = 0 /\ taken = 0 /\ crashed = FALSE
NoStack == topNode = 0 /\ top = 0 /\ nextVal = 0 /\ newTag = 0
NoQueue ==
  /\ headTop = 0 /\ tailTop = 0 /\ unq = 0 /\ head = 0 /\ tail = 0 /\ iter = 0
  /\ astray = FALSE
NoChunk ==
  /\ chunkPool = 0 /\ created = 0 /\ allocCount = 0 /\ freeCount = 0
  /\ usedCount = 0 /\ current = 0 /\ held = 0 /\ torn = 0
NoPacket == buf = 0 /\ stage = 0 /\ got = 0 /\ last = 0 /\ misused = FALSE

MCInit ==
  \/ which = "ring" /\ Init /\ NoThreads /\ NoLists /\ NoStack /\ NoQueue /\ NoChunk /\ NoPacket
  \/ which = "stack" /\ S!Init /\ NoRing /\ NoQueue /\ NoChunk /\ NoPacket
  \/ which = "queue" /\ Q!Init /\ NoRing /\ NoStack /\ NoChunk /\ NoPacket
  \/ which = "chunk" /\ C!Init /\ NoRing /\ NoLists /\ NoStack /\ NoQueue /\ NoPacket
  \/ which = "packet" /\ P!Init /\ NoRing /\ NoThreads /\ NoLists /\ NoStack /\ NoQueue /\ NoChunk

RingNext ==
  /\ which = "ring" /\ Next
  /\ UNCHANGED <<threads, lists, stackOnly, queueOnly, chunkOnly, packet>>
StackNext == which = "stack" /\ S!Next /\ UNCHANGED <<queueOnly, chunkOnly, packet, vars>>
QueueNext == which = "queue" /\ Q!Next /\ UNCHANGED <<stackOnly, chunkOnly, packet, vars>>
ChunkNext == which = "chunk" /\ C!Next /\ UNCHANGED <<lists, stackOnly, queueOnly, packet, vars>>
PacketNext ==
  /\ which = "packet" /\ P!Next
  /\ UNCHANGED <<threads, lists, stackOnly, queueOnly, chunkOnly, vars>>

MCNext ==
  /\ UNCHANGED which
  /\ RingNext \/ StackNext \/ QueueNext \/ ChunkNext \/ PacketNext

MCSpec == MCInit /\ [][MCNext]_allVars
-----------------------------------------------------------------------------
(* pop dereferences the top before it tests it (lockFreeStack.h:118), and   *)
(* dequeue the node behind the dummy (lockFreeQueue.h:143): the reservation *)
(* in usedSize must rule an empty list out, whatever pushes have linked and *)
(* not counted.  Not so in the queue after the untagged compare-and-swap of *)
(* l.103 linked to a node that had left it.                                 *)
NodesFound ==
  /\ which = "stack" => S!PopFindsNode
  /\ which = "queue" => Q!DeqFindsNode

(* What peek finds at a position is the packet that as many dequeues later  *)
(* will take from there (lockFreeQueue.h 162-182), although the test of     *)
(* l.164 lets a position past the end through and producers link meanwhile. *)
PeekExact == which = "queue" => Q!PeekExact

(* A block of a chunk has one holder (memoryPoolTLS.h 50-70). *)
OneHolder == which = "chunk" => C!OneHolder

(* With one popper the stack implements Lifo, although a tag may be         *)
(* installed twice (lockFreeStack.h:94): every value is popped once, the    *)
(* last one first, at the compare-and-swap.                                 *)
ImplementsLifo == [][which = "stack" => [S!Abstract!Next]_(S!Abstract!vars)]_allVars

(* The queue implements Fifo, also when a node was linked astray: values    *)
(* leave in order, each once.                                               *)
ImplementsFifo == [][which = "queue" => [Q!Abstract!Next]_(Q!Abstract!vars)]_allVars

(* What is popped from a received packet is what was pushed into the one    *)
(* that was sent.                                                           *)
PacketImplementsQueue ==
  [][which = "packet" /\ ~misused' => [P!Queue!Next]_(P!Queue!vars)]_allVars
=============================================================================
