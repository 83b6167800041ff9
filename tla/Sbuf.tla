-------------------------------- MODULE Sbuf --------------------------------
(***************************************************************************)
(* The life of a packet, Sbuf.h/.cpp: threads take packets from the pool,  *)
(* give them to SendPacket for several sessions and to each other; the     *)
(* sessions' sends give them back.  refCount says when a packet may go     *)
(* back to the pool, encodeFlag that it was encoded for the first of its   *)
(* sessions already.                                                       *)
(*                                                                         *)
(* The pool is ObjectPool.  A session is reduced to its queue of packets   *)
(* and the send in flight; IOCPServer models the rest of it.  A thread     *)
(* stands for a worker in completeRecv (Alloc, OnRecv, Free) as well as    *)
(* for the application's own.                                              *)
(***************************************************************************)
EXTENDS Integers, FiniteSets, SequencesExt, Occurrences

CONSTANTS
  Threads,   \* the threads that have packets
  Sessions,  \* the sessions packets are sent to
  Bufs,      \* the packets that `new' may make
  NoBuf,     \* no packet
  MaxSends   \* bound of the model: calls of SendPacket

ASSUME NoBufAssumption == NoBuf \notin Bufs
ASSUME MaxSendsAssumption == MaxSends \in Nat
(* Both are arrays that the server fills when it starts. *)
ASSUME FinitelyMany == IsFiniteSet(Threads) /\ IsFiniteSet(Sessions)

VARIABLES
  free, used, returning, growing,  \* the pool
  refCount,             \* _refCount of each packet
  encodeFlag,           \* encodeFlag of each packet
  content,              \* what its bytes are
  pc,                   \* where each thread is
  buf,                  \* the packet it works with
  to,                   \* local of SendPacket: the session
  sendQ,                \* the packets queued for each session
  flight,               \* the packet a session's WSASend has been given
  sent,                 \* whether the kernel has copied it
  sends                 \* calls of SendPacket so far

Pool == INSTANCE ObjectPool WITH Nodes <- Bufs

pool == <<free, used, returning, growing>>
packet == <<refCount, encodeFlag, content>>
session == <<sendQ, flight, sent>>
vars == <<pool, packet, pc, buf, to, session, sends>>

Init ==
  /\ Pool!Init
  /\ refCount = [b \in Bufs |-> 0]
  /\ encodeFlag = [b \in Bufs |-> 0]
  /\ content = [b \in Bufs |-> "plain"]
  /\ pc = [t \in Threads |-> "idle"]
  /\ buf = [t \in Threads |-> NoBuf]
  /\ to = [t \in Threads |-> CHOOSE s \in Sessions : TRUE]
  /\ sendQ = [s \in Sessions |-> <<>>]
  /\ flight = [s \in Sessions |-> NoBuf]
  /\ sent = [s \in Sessions |-> FALSE]
  /\ sends = 0

Goto(t, from, dest) == pc[t] = from /\ pc' = [pc EXCEPT ![t] = dest]

(* A thread's step that changes only packets. *)
OnlyPacket == UNCHANGED <<pool, buf, to, session, sends>>
OnlyThread == UNCHANGED packet /\ OnlyPacket
-----------------------------------------------------------------------------
(* Sbuf::Alloc *)

(* pool->Alloc, from the list ... *)
AllocOld(t) ==
  /\ Goto(t, "idle", "clear")
  /\ Pool!Take
  /\ buf' = [buf EXCEPT ![t] = Head(free)]
  /\ UNCHANGED <<packet, to, session, sends>>

(* ... or, when it is empty, with `new' and the constructor, l.10-26.      *)
AllocEmpty(t) ==
  /\ Goto(t, "idle", "new")
  /\ Pool!Exhausted(t)
  /\ UNCHANGED <<packet, buf, to, session, sends>>

AllocNew(t) ==
  /\ Goto(t, "new", "clear")
  /\ Pool!Grow(t)
  /\ LET b == CHOOSE b \in used' : b \notin used
     IN  /\ buf' = [buf EXCEPT ![t] = b]
         /\ refCount' = [refCount EXCEPT ![b] = 0]
         /\ encodeFlag' = [encodeFlag EXCEPT ![b] = 0]
         /\ content' = [content EXCEPT ![b] = "plain"]
  /\ UNCHANGED <<to, session, sends>>

(* A mutant: clear without l.40, the flag is left set. *)
ClearKeepsFlag(t) ==
  /\ Goto(t, "clear", "first_ref")
  /\ content' = [content EXCEPT ![buf[t]] = "plain"]
  /\ UNCHANGED <<refCount, encodeFlag>>
  /\ OnlyPacket

(* clear, and the bytes the caller writes next. *)
Clear(t) ==
  /\ Goto(t, "clear", "first_ref")
  /\ encodeFlag' = [encodeFlag EXCEPT ![buf[t]] = 0]
  /\ content' = [content EXCEPT ![buf[t]] = "plain"]
  /\ UNCHANGED refCount
  /\ OnlyPacket

AddRef(t, from, dest) ==
  /\ Goto(t, from, dest)
  /\ refCount' = [refCount EXCEPT ![buf[t]] = @ + 1]
  /\ UNCHANGED <<encodeFlag, content>>
  /\ OnlyPacket

(* l.324 *)
FirstRef(t) == AddRef(t, "first_ref", "own")

(* The thread counts the packet for another thread and hands it over.      *)
Share(t, u) ==
  /\ pc[t] = "own" /\ pc[u] = "idle"
  /\ refCount' = [refCount EXCEPT ![buf[t]] = @ + 1]
  /\ buf' = [buf EXCEPT ![u] = buf[t]]
  /\ pc' = [pc EXCEPT ![u] = "own"]
  /\ UNCHANGED <<pool, encodeFlag, content, to, session, sends>>
-----------------------------------------------------------------------------
(* IOCPServer::SendPacket, which encodes, counts and queues the packet *)

Send(t, s) ==
  /\ sends < MaxSends
  /\ sends' = sends + 1
  /\ Goto(t, "own", "encode_test")
  /\ to' = [to EXCEPT ![t] = s]
  /\ UNCHANGED <<pool, packet, buf, session>>

(* Encode, l.344 *)
EncodeTest(t) ==
  /\ pc[t] = "encode_test"
  /\ pc' = [pc EXCEPT ![t] = IF encodeFlag[buf[t]] = 0 THEN "encode_cas" ELSE "ref"]
  /\ OnlyThread

(* l.346 *)
EncodeCAS(t) ==
  /\ pc[t] = "encode_cas"
  /\ encodeFlag' = [encodeFlag EXCEPT ![buf[t]] = 1]
  /\ pc' = [pc EXCEPT ![t] = IF encodeFlag[buf[t]] = 0 THEN "encode_data" ELSE "ref"]
  /\ UNCHANGED <<refCount, content>>
  /\ OnlyPacket

(* l.355-359: the data is scrambled in place; a second time it is spoilt. *)
EncodeData(t) ==
  /\ Goto(t, "encode_data", "encode_header")
  /\ content' = [content EXCEPT ![buf[t]] = IF @ = "plain" THEN "half" ELSE "spoilt"]
  /\ UNCHANGED <<refCount, encodeFlag>>
  /\ OnlyPacket

(* l.363-367 *)
EncodeHeader(t) ==
  /\ Goto(t, "encode_header", "ref")
  /\ content' = [content EXCEPT ![buf[t]] = IF @ = "half" THEN "encoded" ELSE "spoilt"]
  /\ UNCHANGED <<refCount, encodeFlag>>
  /\ OnlyPacket

(* A mutant: l.158 forgotten. *)
SendRefForgotten(t) == Goto(t, "ref", "push") /\ OnlyThread

(* IOCPServer.cpp:158: the session's reference, before it has the packet. *)
SendRef(t) == AddRef(t, "ref", "push")

(* IOCPServer.cpp:159 *)
Push(t) ==
  /\ Goto(t, "push", "own")
  /\ sendQ' = [sendQ EXCEPT ![to[t]] = Append(@, buf[t])]
  /\ UNCHANGED <<pool, packet, buf, to, flight, sent, sends>>
-----------------------------------------------------------------------------
(* Sbuf::Free *)

(* The thread has no more to do with its packet. *)
Finish(t) == Goto(t, "own", "free") /\ OnlyThread

(* InterlockedDecrement, l.337 *)
Free(t) ==
  /\ pc[t] = "free"
  /\ refCount' = [refCount EXCEPT ![buf[t]] = @ - 1]
  /\ pc' = [pc EXCEPT ![t] = IF refCount[buf[t]] = 1 THEN "pool_free" ELSE "idle"]
  /\ buf' = [buf EXCEPT ![t] = IF refCount[buf[t]] = 1 THEN @ ELSE NoBuf]
  /\ UNCHANGED <<pool, encodeFlag, content, to, session, sends>>

(* pool->Free(this), l.338: from the call ... *)
PoolFree(t) ==
  /\ Goto(t, "pool_free", "pool_return")
  /\ Pool!Release(buf[t])
  /\ UNCHANGED <<packet, buf, to, session, sends>>

(* ... to its effect. *)
PoolReturn(t) ==
  /\ Goto(t, "pool_return", "idle")
  /\ Pool!Return(buf[t])
  /\ buf' = [buf EXCEPT ![t] = NoBuf]
  /\ UNCHANGED <<packet, to, session, sends>>
-----------------------------------------------------------------------------
(* The sessions *)

(* sendPost hands the first packet to the kernel. *)
Transmit(s) ==
  /\ flight[s] = NoBuf
  /\ sendQ[s] # <<>>
  /\ flight' = [flight EXCEPT ![s] = Head(sendQ[s])]
  /\ sent' = [sent EXCEPT ![s] = FALSE]
  /\ sendQ' = [sendQ EXCEPT ![s] = Tail(@)]
  /\ UNCHANGED <<pool, packet, pc, buf, to, sends>>

(* The kernel reads the packet's bytes, some time before it is done. *)
Copy(s) ==
  /\ flight[s] # NoBuf
  /\ ~sent[s]
  /\ sent' = [sent EXCEPT ![s] = TRUE]
  /\ UNCHANGED <<pool, packet, pc, buf, to, sendQ, flight, sends>>

(* completeSend frees what was sent; an idle thread plays the worker.      *)
FreeSent(t, s) ==
  /\ flight[s] # NoBuf
  /\ sent[s]
  /\ Goto(t, "idle", "free")
  /\ buf' = [buf EXCEPT ![t] = flight[s]]
  /\ flight' = [flight EXCEPT ![s] = NoBuf]
  /\ UNCHANGED <<pool, packet, to, sendQ, sent, sends>>

(* A mutant: IOCPServer.cpp:531 forgotten. *)
DrainForgets(t, s) ==
  /\ sendQ[s] # <<>>
  /\ sendQ' = [sendQ EXCEPT ![s] = Tail(@)]
  /\ UNCHANGED <<pool, packet, pc, buf, to, flight, sent, sends>>

(* disconnect frees what was not, IOCPServer.cpp:526-532. *)
Drain(t, s) ==
  /\ sendQ[s] # <<>>
  /\ Goto(t, "idle", "free")
  /\ buf' = [buf EXCEPT ![t] = Head(sendQ[s])]
  /\ sendQ' = [sendQ EXCEPT ![s] = Tail(@)]
  /\ UNCHANGED <<pool, packet, to, flight, sent, sends>>
-----------------------------------------------------------------------------
(* A thread inside a function of Sbuf or of SendPacket. *)
Step(t) ==
  \/ AllocNew(t) \/ Clear(t) \/ FirstRef(t)
  \/ EncodeTest(t) \/ EncodeCAS(t) \/ EncodeData(t) \/ EncodeHeader(t)
  \/ SendRef(t) \/ Push(t)
  \/ Free(t) \/ PoolFree(t) \/ PoolReturn(t)

Next ==
  \/ \E t \in Threads :
       \/ Step(t)
       \/ AllocOld(t) \/ AllocEmpty(t) \/ Finish(t)
       \/ \E u \in Threads : Share(t, u)
       \/ \E s \in Sessions : Send(t, s) \/ FreeSent(t, s) \/ Drain(t, s)
  \/ \E s \in Sessions : Transmit(s) \/ Copy(s)

Spec == Init /\ [][Next]_vars
-----------------------------------------------------------------------------
(* The places of Alloc before, and of Free after, the thread's reference.  *)
Unreferenced == {"clear", "first_ref", "pool_free", "pool_return"}
Encoding == {"encode_data", "encode_header"}

(* The packets in a session's hands. *)
InSession(s) == (ToSet(sendQ[s]) \cup {flight[s]}) \ {NoBuf}

(* A packet that anybody still has is not in the pool, where Alloc could   *)
(* give it out again, and whoever returns it is the only one to have it    *)
(* (Sbuf.cpp:337-338).                                                     *)
HeldNotPooled ==
  /\ \A t \in Threads : pc[t] \notin {"idle", "new", "pool_return"} => buf[t] \in used
  /\ \A s \in Sessions : InSession(s) \subseteq used
  /\ \A t \in Threads : pc[t] \in Unreferenced =>
       /\ \A u \in Threads \ {t} : buf[u] # buf[t]
       /\ \A s \in Sessions : buf[t] \notin InSession(s)

(* No packet is lost: one out of the pool is in somebody's hands, also     *)
(* after sessions were torn down with packets queued.                      *)
NoLeak ==
  \A b \in used :
    (\E t \in Threads : buf[t] = b) \/ (\E s \in Sessions : b \in InSession(s))

(* What the kernel sends is encoded once, for the first session, whatever  *)
(* packet the buffer was before (Sbuf.cpp:40, 344-367); unless a thread is *)
(* still encoding it while another, which found encodeFlag set, sends it.  *)
SentEncoded ==
  [][\A s \in Sessions : Copy(s) =>
       \/ content[flight[s]] = "encoded"
       \/ \E t \in Threads : buf[t] = flight[s] /\ pc[t] \in Encoding]_vars
-----------------------------------------------------------------------------
(* Why they hold: the invariant that the steps preserve. *)
Labels == Unreferenced \cup Encoding \cup
  {"idle", "new", "own", "encode_test", "encode_cas", "ref", "push", "free"}

TypeOK ==
  /\ free \in Seq(Bufs) /\ used \subseteq Bufs /\ returning \subseteq Bufs
  /\ refCount \in [Bufs -> Int]
  /\ encodeFlag \in [Bufs -> {0, 1}]
  /\ content \in [Bufs -> {"plain", "half", "encoded", "spoilt"}]
  /\ pc \in [Threads -> Labels]
  /\ buf \in [Threads -> Bufs \cup {NoBuf}]
  /\ DOMAIN to = Threads
  /\ \A t \in Threads : pc[t] \in Encoding \cup {"encode_test", "encode_cas", "ref", "push"}
                          => to[t] \in Sessions
  /\ sendQ \in [Sessions -> Seq(Bufs)]
  /\ flight \in [Sessions -> Bufs \cup {NoBuf}]
  /\ sent \in [Sessions -> BOOLEAN]

(* A packet is free, in use or on its way back, once. *)
PoolApart ==
  /\ IsInjective(free)
  /\ used \cap returning = {}
  /\ ToSet(free) \cap (used \cup returning) = {}

(* What a thread or a session has is in use. *)
HeldUsed ==
  /\ \A t \in Threads :
       /\ buf[t] = NoBuf <=> pc[t] \in {"idle", "new"}
       /\ pc[t] = "pool_return" => buf[t] \in returning
       /\ pc[t] \notin {"idle", "new", "pool_return"} => buf[t] \in used
  /\ \A s \in Sessions : InSession(s) \subseteq used

(* The references there are, each counted: threads', those of packets about *)
(* to be queued, queued and in flight.                                      *)
Holders(b) == {t \in Threads : buf[t] = b /\ pc[t] \notin Unreferenced}
Pushers(b) == {t \in Threads : buf[t] = b /\ pc[t] = "push"}
Flights(b) == {s \in Sessions : flight[s] = b}

RefsCounted ==
  \A b \in Bufs :
    refCount[b] = Cardinality(Holders(b)) + Cardinality(Pushers(b))
                    + Total(sendQ, {b}) + Cardinality(Flights(b))

(* Alloc before, and Free after, the only reference has the packet alone. *)
Alone ==
  \A t \in Threads : pc[t] \in Unreferenced =>
    /\ \A u \in Threads \ {t} : buf[u] # buf[t]
    /\ Total(sendQ, {buf[t]}) = 0
    /\ Flights(buf[t]) = {}

(* One thread encodes; encodeFlag is 0 as long as the bytes are plain. *)
Encoders(b) == {t \in Threads : buf[t] = b /\ pc[t] \in Encoding}

OneEncoder ==
  \A t \in Threads : pc[t] \in Encoding =>
    /\ Encoders(buf[t]) = {t}
    /\ encodeFlag[buf[t]] = 1
    /\ content[buf[t]] = IF pc[t] = "encode_data" THEN "plain" ELSE "half"

FlagTells ==
  \A b \in Bufs :
    \/ encodeFlag[b] = 0 /\ content[b] = "plain"
    \/ encodeFlag[b] = 1 /\ (content[b] = "encoded" \/ Encoders(b) # {})

(* What is sent was seen to have its flag set. *)
SentFlagged ==
  /\ \A t \in Threads : pc[t] \in {"ref", "push"} => encodeFlag[buf[t]] = 1
  /\ \A s \in Sessions : \A b \in InSession(s) : encodeFlag[b] = 1

IInv ==
  /\ TypeOK /\ PoolApart /\ HeldUsed /\ RefsCounted /\ Alone /\ NoLeak
  /\ OneEncoder /\ FlagTells /\ SentFlagged
=============================================================================
