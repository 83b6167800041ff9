----------------------------- MODULE ChunkPool -----------------------------
(***************************************************************************)
(* memoryTLS<T> (memoryPoolTLS.h): blocks come from a chunk that the       *)
(* thread keeps in its TLS slot, without a lock; any thread gives a block  *)
(* back, and who gives back the last of a chunk gives the chunk to a       *)
(* common memoryPool, atomic here (ObjectPool).  Nobody resets the count   *)
(* of a chunk but its next owner.                                          *)
(*                                                                         *)
(* No code of the repository uses the class; clear, for a thread that      *)
(* ends, is its last call here.                                            *)
(***************************************************************************)
EXTENDS Integers, FiniteSets, SequencesExt

CONSTANTS
  Threads,
  chunkSize,  \* blocks of a chunk
  MaxChunks   \* bound of the model: chunks there can be

VARIABLES
  chunkPool,              \* the chunks in the pool, the last one freed first
  created,                \* chunks constructed
  allocCount, freeCount,  \* of each chunk
  usedCount,
  current,                \* the TLS slot of each thread, 0 when empty
  pc,
  data,                   \* local: the block of the call under way
  held,                   \* application: the blocks given out, as often as they were
  torn                    \* history: chunks cleared while blocks of theirs were held

vars == <<chunkPool, created, allocCount, freeCount, usedCount, current, pc, data, held, torn>>

Chunks == 1 .. MaxChunks
NoBlock == <<0, 0>>
Blocks == Chunks \X (0 .. chunkSize)

Init ==
  /\ chunkPool = <<>> /\ created = 0
  /\ allocCount = [c \in Chunks |-> 0] /\ freeCount = [c \in Chunks |-> 0]
  /\ usedCount = 0
  /\ current = [t \in Threads |-> 0]
  /\ pc = [t \in Threads |-> "idle"] /\ data = [t \in Threads |-> NoBlock]
  /\ held = [b \in Blocks |-> 0]
  /\ torn = {}

Goto(t, from, to) ==
  /\ pc[t] = from
  /\ pc' = [pc EXCEPT ![t] = to]

(* chunkAlloc: a chunk of the pool or a new one, its counts reset (l.89-101). *)
ChunkAlloc(t, from, to) ==
  /\ Goto(t, from, to)
  /\ usedCount' = usedCount + 1
  /\ IF chunkPool # <<>>
     THEN chunkPool' = Tail(chunkPool) /\ UNCHANGED created
     ELSE created < MaxChunks /\ created' = created + 1 /\ UNCHANGED chunkPool
  /\ LET c == IF chunkPool # <<>> THEN Head(chunkPool) ELSE created + 1
     IN  /\ current' = [current EXCEPT ![t] = c]
         /\ allocCount' = [allocCount EXCEPT ![c] = 0]
         /\ freeCount' = [freeCount EXCEPT ![c] = 0]

(* l.121 *)
FirstChunk(t) ==
  /\ current[t] = 0
  /\ ChunkAlloc(t, "idle", "take")
  /\ UNCHANGED <<data, held, torn>>

Full(n) == n = chunkSize

(* l.52-55; the thread's chunk is its own. *)
Take(t) ==
  LET c == current[t]
      n == allocCount[c]
  IN  /\ c # 0
      /\ \/ Goto(t, "take", IF Full(n + 1) THEN "renew" ELSE "got")
         \/ Goto(t, "idle", IF Full(n + 1) THEN "renew" ELSE "got")
      /\ data' = [data EXCEPT ![t] = <<c, n>>]
      /\ allocCount' = [allocCount EXCEPT ![c] = n + 1]
      /\ UNCHANGED <<chunkPool, created, freeCount, usedCount, current, held, torn>>

Renew(t) == ChunkAlloc(t, "renew", "got") /\ UNCHANGED <<data, held, torn>>

Got(t) ==
  /\ Goto(t, "got", "idle")
  /\ held' = [held EXCEPT ![data[t]] = @ + 1]
  /\ data' = [data EXCEPT ![t] = NoBlock]
  /\ UNCHANGED <<chunkPool, created, allocCount, freeCount, usedCount, current, torn>>

(* A mutant: a chunk is given back when the blocks handed out so far are. *)
AllBackEarly(c, n) == n = allocCount[c]

AllBack(c, n) == n = chunkSize

(* l.62; any thread may free any block. *)
Free(t) ==
  \E b \in Blocks :
    /\ held[b] > 0
    /\ held' = [held EXCEPT ![b] = @ - 1]
    /\ freeCount' = [freeCount EXCEPT ![b[1]] = @ + 1]
    /\ Goto(t, "idle", IF AllBack(b[1], freeCount[b[1]] + 1) THEN "return" ELSE "idle")
    /\ data' = [data EXCEPT ![t] = IF AllBack(b[1], freeCount[b[1]] + 1) THEN b ELSE NoBlock]
    /\ UNCHANGED <<chunkPool, created, allocCount, usedCount, current, torn>>

(* l.64-65 *)
Return(t) ==
  /\ Goto(t, "return", "idle")
  /\ usedCount' = usedCount - 1
  /\ chunkPool' = <<data[t][1]>> \o chunkPool
  /\ data' = [data EXCEPT ![t] = NoBlock]
  /\ UNCHANGED <<created, allocCount, freeCount, current, held, torn>>

HeldOf(c) == {b \in Blocks : b[1] = c /\ held[b] > 0}

(* l.137-146: also when blocks of the chunk are out, or being freed. *)
Clear(t) ==
  LET c == current[t]
      out == HeldOf(c) # {} \/ \E u \in Threads : u # t /\ data[u][1] = c
  IN  /\ Goto(t, "idle", "ended")
      /\ c # 0
      /\ chunkPool' = <<c>> \o chunkPool
      /\ usedCount' = usedCount - 1
      /\ torn' = IF out THEN torn \cup {c} ELSE torn
      /\ UNCHANGED <<created, allocCount, freeCount, current, data, held>>

Next ==
  \E t \in Threads :
    FirstChunk(t) \/ Take(t) \/ Renew(t) \/ Got(t) \/ Free(t) \/ Return(t) \/ Clear(t)

Spec == Init /\ [][Next]_vars
-----------------------------------------------------------------------------
(* The properties *)

(* A block has one holder and lies inside its chunk, and the blocks of a    *)
(* chunk in the pool have none: freeCount reaches chunkSize (l.62) only     *)
(* when the owner has left the chunk and every block came back, whichever   *)
(* threads free them.  Not so after clear with blocks out (l.142).          *)
OneHolder ==
  torn = {} =>
    /\ \A b \in Blocks :
         held[b] + Cardinality({t \in Threads : pc[t] \in {"got", "renew"} /\ data[t] = b}) <= 1
    /\ \A b \in Blocks : held[b] > 0 => b[2] < chunkSize /\ b[1] \notin ToSet(chunkPool)
    /\ IsInjective(chunkPool)
=============================================================================
