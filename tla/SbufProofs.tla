----------------------------- MODULE SbufProofs -----------------------------
(***************************************************************************)
(* A packet goes back to the pool once, when nobody has it, and none is    *)
(* lost, for any number of threads, sessions, packets and sends.           *)
(***************************************************************************)
EXTENDS Sbuf, OccurrencesProofs

USE NoBufAssumption DEF Labels, Unreferenced, Encoding

(* What the counts are counts of. *)
LEMMA CountsFinite ==
  ASSUME TypeOK, NEW b
  PROVE  /\ Holders(b) \in SUBSET Threads /\ Pushers(b) \in SUBSET Threads
         /\ Flights(b) \in SUBSET Sessions
         /\ Cardinality(Holders(b)) \in Nat /\ Cardinality(Pushers(b)) \in Nat
         /\ Cardinality(Flights(b)) \in Nat
         /\ Total(sendQ, {b}) \in Nat
<1>1. /\ Holders(b) \in SUBSET Threads /\ Pushers(b) \in SUBSET Threads
      /\ Flights(b) \in SUBSET Sessions
  BY DEF Holders, Pushers, Flights
<1>2. /\ Cardinality(Holders(b)) \in Nat /\ Cardinality(Pushers(b)) \in Nat
      /\ Cardinality(Flights(b)) \in Nat
  BY <1>1, FinitelyMany, CountNone
<1>3. Total(sendQ, {b}) \in Nat
  <2>1. CASE Sessions = {}
    <3>1. \A s \in Sessions : Occ(sendQ[s], {b}) = 0
      BY <2>1
    <3>2. Total(sendQ, {b}) = 0
      BY <3>1, FinitelyMany, TotalNone DEF TypeOK, Queues
    <3> QED BY <3>2
  <2>2. CASE Sessions # {}
    <3>1. PICK s \in Sessions : TRUE
      BY <2>2
    <3> QED BY <3>1, FinitelyMany, TotalAtLeast DEF TypeOK, Queues
  <2> QED BY <2>1, <2>2
<1> QED BY <1>1, <1>2, <1>3

(* What is not in use is queued nowhere. *)
LEMMA UnusedNotQueued ==
  ASSUME TypeOK, HeldUsed, NEW b, b \notin used, b # NoBuf
  PROVE  Total(sendQ, {b}) = 0 /\ Flights(b) = {}
<1>1. \A s \in Sessions : Occ(sendQ[s], {b}) = 0
  <2>1. SUFFICES ASSUME NEW s \in Sessions  PROVE Occ(sendQ[s], {b}) = 0
    OBVIOUS
  <2>2. b \notin ToSet(sendQ[s]) /\ sendQ[s] \in Seq(Bufs)
    BY DEF HeldUsed, InSession, TypeOK
  <2> QED BY <2>2, MembersOf
<1>2. Total(sendQ, {b}) = 0
  BY <1>1, FinitelyMany, TotalNone DEF TypeOK, Queues
<1> QED BY <1>2 DEF HeldUsed, InSession, Flights

(* What is queued somewhere is counted. *)
LEMMA QueuedCounted ==
  ASSUME TypeOK, NEW b, NEW s \in Sessions, b \in ToSet(sendQ[s])
  PROVE  Total(sendQ, {b}) > 0
<1>1. sendQ[s] \in Seq(Bufs)
  BY DEF TypeOK
<1>2. Occ(sendQ[s], {b}) # 0
  BY <1>1, MembersOf
<1>3. /\ Total(sendQ, {b}) \in Nat /\ Occ(sendQ[s], {b}) \in Nat
      /\ Occ(sendQ[s], {b}) <= Total(sendQ, {b})
  BY FinitelyMany, TotalAtLeast DEF TypeOK, Queues
<1> QED BY <1>2, <1>3

(* Only one packet's references are to be counted again after a step. *)
LEMMA RefsCountedAgain ==
  ASSUME IInv, NEW b \in Bufs,
         \A c \in Bufs \ {b} :
           /\ refCount'[c] = refCount[c] /\ Total(sendQ', {c}) = Total(sendQ, {c})
           /\ Holders(c)' = Holders(c) /\ Pushers(c)' = Pushers(c) /\ Flights(c)' = Flights(c),
         refCount'[b] = Cardinality(Holders(b)') + Cardinality(Pushers(b)')
                          + Total(sendQ', {b}) + Cardinality(Flights(b)')
  PROVE  RefsCounted'
<1>1. SUFFICES ASSUME NEW c \in Bufs
               PROVE  refCount'[c] = Cardinality(Holders(c)') + Cardinality(Pushers(c)')
                                       + Total(sendQ', {c}) + Cardinality(Flights(c)')
  BY DEF RefsCounted
<1>2. CASE c = b
  BY <1>2
<1>3. CASE c # b
  BY <1>3 DEF IInv, RefsCounted
<1> QED BY <1>2, <1>3

LEMMA IInvInit == Init => IInv
<1> SUFFICES ASSUME Init PROVE IInv
  OBVIOUS
<1> USE DEF Init, Pool!Init
<1>1. TypeOK
  BY DEF TypeOK
<1>2. PoolApart
  BY DEF PoolApart, IsInjective, ToSet
<1>3. HeldUsed
  BY DEF HeldUsed, InSession, ToSet
<1>4. RefsCounted
  <2>1. SUFFICES ASSUME NEW b \in Bufs
                 PROVE  refCount[b] = Cardinality(Holders(b)) + Cardinality(Pushers(b))
                          + Total(sendQ, {b}) + Cardinality(Flights(b))
    BY DEF RefsCounted
  <2>2. Holders(b) = {} /\ Pushers(b) = {} /\ Flights(b) = {}
    BY DEF Holders, Pushers, Flights
  <2>3. Total(sendQ, {b}) = 0
    BY <1>1, <1>3, UnusedNotQueued
  <2> QED BY <2>2, <2>3, FS_EmptySet
<1>5. Alone /\ OneEncoder /\ FlagTells
  BY DEF Alone, OneEncoder, FlagTells
<1>6. NoLeak
  BY DEF NoLeak
<1>7. SentFlagged
  BY DEF SentFlagged, InSession, ToSet
<1> QED BY <1>1, <1>2, <1>3, <1>4, <1>5, <1>6, <1>7 DEF IInv
-----------------------------------------------------------------------------
(* Alloc *)

LEMMA AllocOldStep ==
  ASSUME IInv, NEW t \in Threads, AllocOld(t)  PROVE IInv'
<1> DEFINE b == Head(free)
<1> USE DEF AllocOld, Goto, Pool!Take, packet, session
<1>1. /\ b \in Bufs /\ free' \in Seq(Bufs)
      /\ ToSet(free) = ToSet(free') \cup {b}
      /\ IsInjective(free') /\ b \notin ToSet(free')
  BY MembersOfTail DEF IInv, TypeOK, PoolApart
<1>2. b \notin used /\ b \notin returning
  BY <1>1 DEF IInv, PoolApart
<1> HIDE DEF b
<1>3. TypeOK'
  BY <1>1 DEF IInv, TypeOK, b
<1>4. PoolApart'
  BY <1>1, <1>2 DEF IInv, PoolApart, b
<1>5. HeldUsed'
  BY <1>1 DEF IInv, TypeOK, HeldUsed, InSession, b
<1>6. \A u \in Threads : buf[u] # b
  BY <1>1, <1>2 DEF IInv, HeldUsed
<1>7. \A c \in Bufs : Holders(c)' = Holders(c) /\ Pushers(c)' = Pushers(c)
                      /\ Encoders(c)' = Encoders(c) /\ Flights(c)' = Flights(c)
  BY <1>6 DEF IInv, TypeOK, HeldUsed, Holders, Pushers, Encoders, Flights
<1>8. RefsCounted'
  BY <1>7 DEF IInv, RefsCounted
<1>9. Total(sendQ, {b}) = 0 /\ Flights(b) = {}
  BY <1>1, <1>2, UnusedNotQueued DEF IInv, TypeOK
<1>10. Alone'
  BY <1>6, <1>9 DEF IInv, TypeOK, Alone, Flights, b
<1>11. NoLeak'
  <2>1. SUFFICES ASSUME NEW c \in used, NEW u \in Threads, buf[u] = c
                 PROVE  buf'[u] = c
    BY DEF IInv, TypeOK, NoLeak, InSession, b
  <2>2. u # t
    BY <2>1 DEF IInv, TypeOK, HeldUsed
  <2> QED BY <2>1, <2>2 DEF IInv, TypeOK
<1>12. OneEncoder'
  BY <1>6 DEF IInv, TypeOK, OneEncoder, Encoders
<1>13. FlagTells'
  BY <1>7 DEF IInv, FlagTells
<1>14. SentFlagged'
  BY DEF IInv, TypeOK, SentFlagged, InSession
<1> QED BY <1>3, <1>4, <1>5, <1>8, <1>10, <1>12, <1>11, <1>13, <1>14 DEF IInv

LEMMA AllocEmptyStep ==
  ASSUME IInv, NEW t \in Threads, AllocEmpty(t)  PROVE IInv'
<1> USE DEF AllocEmpty, Goto, Pool!Exhausted, packet, session
<1>1. TypeOK'
  BY DEF IInv, TypeOK
<1>2. PoolApart'
  BY DEF IInv, PoolApart
<1>3. HeldUsed'
  BY DEF IInv, TypeOK, HeldUsed, InSession
<1>4. \A c \in Bufs : Holders(c)' = Holders(c) /\ Pushers(c)' = Pushers(c)
                      /\ Encoders(c)' = Encoders(c) /\ Flights(c)' = Flights(c)
  BY DEF IInv, TypeOK, HeldUsed, Holders, Pushers, Encoders, Flights
<1>5. RefsCounted'
  BY <1>4 DEF IInv, RefsCounted
<1>6. Alone'
  BY DEF IInv, TypeOK, Alone, Flights
<1>7. NoLeak'
  BY DEF IInv, NoLeak, InSession
<1>8. OneEncoder'
  BY DEF IInv, TypeOK, OneEncoder, Encoders
<1>9. FlagTells'
  BY <1>4 DEF IInv, FlagTells
<1>10. SentFlagged'
  BY DEF IInv, TypeOK, SentFlagged, InSession
<1> QED BY <1>1, <1>2, <1>3, <1>5, <1>6, <1>7, <1>8, <1>9, <1>10 DEF IInv

LEMMA AllocNewStep ==
  ASSUME IInv, NEW t \in Threads, AllocNew(t)  PROVE IInv'
<1> DEFINE b == CHOOSE b \in used' : b \notin used
<1> USE DEF AllocNew, Goto, Pool!Grow, session
<1>1. /\ b \in Bufs /\ b \notin used /\ b \notin returning /\ b \notin ToSet(free)
      /\ used' = used \cup {b}
  <2> HIDE DEF b
  <2>1. Pool!Grow(t)
    OBVIOUS
  <2>2. PICK n \in Bufs \ (used \cup returning \cup ToSet(free)) : used' = used \cup {n}
    BY <2>1 DEF Pool!Grow, ToSet, Pool!ToSet
  <2>3. b = n
    BY <2>2 DEF b
  <2> QED BY <2>2, <2>3
<1>2. /\ buf' = [buf EXCEPT ![t] = b]
      /\ refCount' = [refCount EXCEPT ![b] = 0]
      /\ encodeFlag' = [encodeFlag EXCEPT ![b] = 0]
      /\ content' = [content EXCEPT ![b] = "plain"]
  OBVIOUS
<1>3. /\ pc[t] = "new" /\ pc' = [pc EXCEPT ![t] = "clear"]
      /\ UNCHANGED <<free, returning, to, sendQ, flight, sent>>
  OBVIOUS
<1> HIDE DEF b, AllocNew
<1>4. TypeOK'
  BY <1>1, <1>2, <1>3 DEF IInv, TypeOK
<1>5. PoolApart'
  BY <1>1, <1>3 DEF IInv, PoolApart
<1>6. HeldUsed'
  BY <1>1, <1>2, <1>3 DEF IInv, TypeOK, HeldUsed, InSession
<1>7. \A u \in Threads : buf[u] # b
  BY <1>1 DEF IInv, HeldUsed
<1>8. \A c \in Bufs : Holders(c)' = Holders(c) /\ Pushers(c)' = Pushers(c)
                      /\ Encoders(c)' = Encoders(c) /\ Flights(c)' = Flights(c)
  BY <1>2, <1>3, <1>7 DEF IInv, TypeOK, HeldUsed, Holders, Pushers, Encoders, Flights
<1>9. Total(sendQ, {b}) = 0 /\ Flights(b) = {}
  BY <1>1, UnusedNotQueued DEF IInv, TypeOK
<1>10. RefsCounted'
  <2>1. Holders(b) = {} /\ Pushers(b) = {}
    BY <1>7 DEF Holders, Pushers
  <2>2. refCount'[b] = 0 /\ \A c \in Bufs \ {b} : refCount'[c] = refCount[c]
    BY <1>1, <1>2 DEF IInv, TypeOK
  <2>3. Cardinality({}) = 0
    BY FS_EmptySet
  <2> QED BY <1>1, <1>3, <1>8, <1>9, <2>1, <2>2, <2>3, RefsCountedAgain
<1>11. Alone'
  BY <1>2, <1>3, <1>7, <1>9 DEF IInv, TypeOK, Alone, Flights
<1>12. NoLeak'
  <2>1. SUFFICES ASSUME NEW c \in used, NEW u \in Threads, buf[u] = c
                 PROVE  buf'[u] = c
    BY <1>1, <1>2, <1>3 DEF IInv, TypeOK, NoLeak, InSession
  <2>2. u # t
    BY <1>3, <2>1 DEF IInv, TypeOK, HeldUsed
  <2> QED BY <1>2, <2>1, <2>2 DEF IInv, TypeOK
<1>13. OneEncoder'
  BY <1>2, <1>3, <1>7 DEF IInv, TypeOK, OneEncoder, Encoders
<1>14. FlagTells'
  BY <1>2, <1>8 DEF IInv, TypeOK, FlagTells
<1>15. SentFlagged'
  BY <1>1, <1>2, <1>3, <1>7 DEF IInv, TypeOK, SentFlagged, HeldUsed, InSession
<1> QED BY <1>4, <1>5, <1>6, <1>10, <1>11, <1>12, <1>13, <1>14, <1>15 DEF IInv

LEMMA ClearStep ==
  ASSUME IInv, NEW t \in Threads, Clear(t)  PROVE IInv'
<1> USE DEF Clear, Goto, OnlyPacket, pool, session
<1>1. TypeOK'
  BY DEF IInv, TypeOK
<1>2. PoolApart'
  BY DEF IInv, PoolApart
<1>3. HeldUsed'
  BY DEF IInv, TypeOK, HeldUsed, InSession
<1>4. \A c \in Bufs : Holders(c)' = Holders(c) /\ Pushers(c)' = Pushers(c)
                      /\ Encoders(c)' = Encoders(c) /\ Flights(c)' = Flights(c)
  BY DEF IInv, TypeOK, Holders, Pushers, Encoders, Flights
<1>5. RefsCounted'
  BY <1>4 DEF IInv, RefsCounted
<1>6. /\ buf[t] \in Bufs
      /\ \A u \in Threads \ {t} : buf[u] # buf[t]
      /\ Total(sendQ, {buf[t]}) = 0 /\ Flights(buf[t]) = {}
  BY DEF IInv, TypeOK, HeldUsed, Alone
<1>7. Alone'
  BY DEF IInv, TypeOK, Alone, Flights
<1>8. NoLeak'
  BY DEF IInv, NoLeak, InSession
<1>9. OneEncoder'
  BY <1>6 DEF IInv, TypeOK, OneEncoder, Encoders
<1>10. FlagTells'
  BY <1>4 DEF IInv, TypeOK, FlagTells
<1>11. SentFlagged'
  <2>1. \A s \in Sessions : buf[t] \notin InSession(s)
    <3>1. SUFFICES ASSUME NEW s \in Sessions, buf[t] \in ToSet(sendQ[s])  PROVE FALSE
      BY <1>6 DEF InSession, Flights
    <3>2. Total(sendQ, {buf[t]}) > 0
      BY <3>1, QueuedCounted DEF IInv
    <3> QED BY <1>6, <3>2
  <2> QED BY <1>6, <2>1 DEF IInv, TypeOK, SentFlagged, InSession
<1> QED BY <1>1, <1>2, <1>3, <1>5, <1>7, <1>8, <1>9, <1>10, <1>11 DEF IInv

LEMMA FirstRefStep ==
  ASSUME IInv, NEW t \in Threads, FirstRef(t)  PROVE IInv'
<1> USE DEF FirstRef, AddRef, Goto, OnlyPacket, pool, session
<1>1. TypeOK'
  <2>1. buf[t] \in Bufs
    BY DEF IInv, TypeOK, HeldUsed
  <2>2. refCount' \in [Bufs -> Int]
    BY <2>1 DEF IInv, TypeOK
  <2> QED BY <2>2 DEF IInv, TypeOK, HeldUsed
<1>2. PoolApart'
  BY DEF IInv, PoolApart
<1>3. HeldUsed'
  BY DEF IInv, TypeOK, HeldUsed, InSession
<1>4. \A c \in Bufs : Pushers(c)' = Pushers(c) /\ Encoders(c)' = Encoders(c)
                      /\ Flights(c)' = Flights(c)
  BY DEF IInv, TypeOK, Pushers, Encoders, Flights
<1>5. RefsCounted'
  <2>1. PICK b \in Bufs : b = buf[t]
    BY DEF IInv, TypeOK, HeldUsed
  <2>2. t \notin Holders(b) /\ Holders(b)' = Holders(b) \cup {t}
        /\ \A c \in Bufs \ {b} : Holders(c)' = Holders(c)
    BY <2>1 DEF IInv, TypeOK, Holders
  <2>3. b \in Bufs /\ refCount'[b] = refCount[b] + 1 /\ refCount[b] \in Int
        /\ \A c \in Bufs \ {b} : refCount'[c] = refCount[c]
    BY <2>1 DEF IInv, TypeOK, HeldUsed
  <2>4. Cardinality(Holders(b)') = Cardinality(Holders(b)) + 1
    <3>1. Holders(b) \in SUBSET Threads
      BY DEF Holders
    <3> QED BY <2>2, <3>1, FinitelyMany, CountOneMore
  <2>5. /\ Cardinality(Holders(b)) \in Nat /\ Cardinality(Pushers(b)) \in Nat
        /\ Cardinality(Flights(b)) \in Nat /\ Total(sendQ, {b}) \in Nat
    BY CountsFinite DEF IInv
  <2>6. sendQ' = sendQ
    OBVIOUS
  <2>7. refCount[b] = Cardinality(Holders(b)) + Cardinality(Pushers(b))
                        + Total(sendQ, {b}) + Cardinality(Flights(b))
    BY <2>3 DEF IInv, RefsCounted
  <2>8. refCount'[b] = Cardinality(Holders(b)') + Cardinality(Pushers(b)')
                         + Total(sendQ', {b}) + Cardinality(Flights(b)')
    BY <1>4, <2>2, <2>3, <2>4, <2>6, <2>7, <2>5
  <2> QED BY <1>4, <2>2, <2>3, <2>6, <2>8, RefsCountedAgain
<1>6. Alone'
  BY DEF IInv, TypeOK, Alone, Flights
<1>7. NoLeak'
  BY DEF IInv, NoLeak, InSession
<1>8. OneEncoder'
  BY DEF IInv, TypeOK, OneEncoder, Encoders
<1>9. FlagTells'
  BY <1>4 DEF IInv, FlagTells
<1>10. SentFlagged'
  BY DEF IInv, TypeOK, SentFlagged, InSession
<1> QED BY <1>1, <1>2, <1>3, <1>5, <1>6, <1>7, <1>8, <1>9, <1>10 DEF IInv

LEMMA ShareStep ==
  ASSUME IInv, NEW t \in Threads, NEW u \in Threads, Share(t, u)  PROVE IInv'
<1> USE DEF Share, pool, session
<1>1. TypeOK'
  <2>1. buf[t] \in Bufs
    BY DEF IInv, TypeOK, HeldUsed
  <2>2. refCount' \in [Bufs -> Int]
    BY <2>1 DEF IInv, TypeOK
  <2> QED BY <2>2 DEF IInv, TypeOK, HeldUsed
<1>2. PoolApart'
  BY DEF IInv, PoolApart
<1>3. HeldUsed'
  BY DEF IInv, TypeOK, HeldUsed, InSession
<1>4. \A c \in Bufs : Pushers(c)' = Pushers(c) /\ Encoders(c)' = Encoders(c)
                      /\ Flights(c)' = Flights(c)
  BY DEF IInv, TypeOK, Pushers, Encoders, Flights
<1>5. RefsCounted'
  <2>1. PICK b \in Bufs : b = buf[t]
    BY DEF IInv, TypeOK, HeldUsed
  <2>2. b \in Bufs /\ buf[u] = NoBuf /\ refCount'[b] = refCount[b] + 1 /\ refCount[b] \in Int
        /\ \A c \in Bufs \ {b} : refCount'[c] = refCount[c]
    BY <2>1 DEF IInv, TypeOK, HeldUsed
  <2>3. u \notin Holders(b) /\ Holders(b)' = Holders(b) \cup {u}
        /\ \A c \in Bufs \ {b} : Holders(c)' = Holders(c)
    BY <2>1, <2>2 DEF IInv, TypeOK, Holders
  <2>4. Cardinality(Holders(b)') = Cardinality(Holders(b)) + 1
    <3>1. Holders(b) \in SUBSET Threads
      BY DEF Holders
    <3> QED BY <2>3, <3>1, FinitelyMany, CountOneMore
  <2>5. /\ Cardinality(Holders(b)) \in Nat /\ Cardinality(Pushers(b)) \in Nat
        /\ Cardinality(Flights(b)) \in Nat /\ Total(sendQ, {b}) \in Nat
    BY CountsFinite DEF IInv
  <2>6. sendQ' = sendQ
    OBVIOUS
  <2>7. refCount[b] = Cardinality(Holders(b)) + Cardinality(Pushers(b))
                        + Total(sendQ, {b}) + Cardinality(Flights(b))
    BY <2>2 DEF IInv, RefsCounted
  <2>8. refCount'[b] = Cardinality(Holders(b)') + Cardinality(Pushers(b)')
                         + Total(sendQ', {b}) + Cardinality(Flights(b)')
    BY <1>4, <2>2, <2>3, <2>4, <2>6, <2>7, <2>5
  <2> QED BY <1>4, <2>2, <2>3, <2>6, <2>8, RefsCountedAgain
<1>6. Alone'
  BY DEF IInv, TypeOK, Alone, Flights
<1>7. NoLeak'
  <2>1. SUFFICES ASSUME NEW c \in used, NEW v \in Threads, buf[v] = c
                 PROVE  buf'[v] = c
    BY DEF IInv, TypeOK, NoLeak, InSession
  <2>2. v # u
    BY <2>1 DEF IInv, TypeOK, HeldUsed
  <2> QED BY <2>1, <2>2 DEF IInv, TypeOK
<1>8. OneEncoder'
  BY DEF IInv, TypeOK, OneEncoder, Encoders
<1>9. FlagTells'
  BY <1>4 DEF IInv, FlagTells
<1>10. SentFlagged'
  BY DEF IInv, TypeOK, SentFlagged, InSession
<1> QED BY <1>1, <1>2, <1>3, <1>5, <1>6, <1>7, <1>8, <1>9, <1>10 DEF IInv
-----------------------------------------------------------------------------
(* SendPacket *)

LEMMA SendStep ==
  ASSUME IInv, NEW t \in Threads, NEW s \in Sessions, Send(t, s)  PROVE IInv'
<1> USE DEF Send, Goto, pool, packet, session
<1>1. TypeOK'
  BY DEF IInv, TypeOK
<1>2. PoolApart'
  BY DEF IInv, PoolApart
<1>3. HeldUsed'
  BY DEF IInv, TypeOK, HeldUsed, InSession
<1>4. \A c \in Bufs : Holders(c)' = Holders(c) /\ Pushers(c)' = Pushers(c)
                      /\ Encoders(c)' = Encoders(c) /\ Flights(c)' = Flights(c)
  BY DEF IInv, TypeOK, Holders, Pushers, Encoders, Flights
<1>5. RefsCounted'
  BY <1>4 DEF IInv, RefsCounted
<1>6. Alone'
  BY DEF IInv, TypeOK, Alone, Flights
<1>7. NoLeak'
  BY DEF IInv, NoLeak, InSession
<1>8. OneEncoder'
  BY DEF IInv, TypeOK, OneEncoder, Encoders
<1>9. FlagTells'
  BY <1>4 DEF IInv, FlagTells
<1>10. SentFlagged'
  BY DEF IInv, TypeOK, SentFlagged, InSession
<1> QED BY <1>1, <1>2, <1>3, <1>5, <1>6, <1>7, <1>8, <1>9, <1>10 DEF IInv

LEMMA EncodeTestStep ==
  ASSUME IInv, NEW t \in Threads, EncodeTest(t)  PROVE IInv'
<1> USE DEF EncodeTest, OnlyThread, OnlyPacket, pool, packet, session
<1>1. TypeOK'
  BY DEF IInv, TypeOK
<1>2. PoolApart'
  BY DEF IInv, PoolApart
<1>3. HeldUsed'
  BY DEF IInv, TypeOK, HeldUsed, InSession
<1>4. \A c \in Bufs : Holders(c)' = Holders(c) /\ Pushers(c)' = Pushers(c)
                      /\ Encoders(c)' = Encoders(c) /\ Flights(c)' = Flights(c)
  BY DEF IInv, TypeOK, Holders, Pushers, Encoders, Flights
<1>5. RefsCounted'
  BY <1>4 DEF IInv, RefsCounted
<1>6. Alone'
  BY DEF IInv, TypeOK, Alone, Flights
<1>7. NoLeak'
  BY DEF IInv, NoLeak, InSession
<1>8. OneEncoder'
  BY DEF IInv, TypeOK, OneEncoder, Encoders
<1>9. FlagTells'
  BY <1>4 DEF IInv, FlagTells
<1>10. SentFlagged'
  <2>1. buf[t] \in Bufs
    BY DEF IInv, TypeOK, HeldUsed
  <2> QED BY <2>1 DEF IInv, TypeOK, SentFlagged, InSession
<1> QED BY <1>1, <1>2, <1>3, <1>5, <1>6, <1>7, <1>8, <1>9, <1>10 DEF IInv

(* The thread that finds encodeFlag 0 with its compare-and-swap encodes alone. *)
LEMMA EncodeCASStep ==
  ASSUME IInv, NEW t \in Threads, EncodeCAS(t)  PROVE IInv'
<1> USE DEF EncodeCAS, OnlyPacket, pool, session
<1>1. TypeOK'
  BY DEF IInv, TypeOK
<1>2. PoolApart'
  BY DEF IInv, PoolApart
<1>3. HeldUsed'
  BY DEF IInv, TypeOK, HeldUsed, InSession
<1>4. \A c \in Bufs : Holders(c)' = Holders(c) /\ Pushers(c)' = Pushers(c)
                      /\ Flights(c)' = Flights(c)
  BY DEF IInv, TypeOK, Holders, Pushers, Flights
<1>5. RefsCounted'
  BY <1>4 DEF IInv, RefsCounted
<1>6. Alone'
  BY DEF IInv, TypeOK, Alone, Flights
<1>7. NoLeak'
  BY DEF IInv, NoLeak, InSession
<1>8. PICK b \in Bufs : b = buf[t]
  BY DEF IInv, TypeOK, HeldUsed
<1>9. /\ \A c \in Bufs \ {b} : Encoders(c)' = Encoders(c) /\ encodeFlag'[c] = encodeFlag[c]
      /\ Encoders(b)' = IF encodeFlag[b] = 0 THEN Encoders(b) \cup {t} ELSE Encoders(b)
      /\ encodeFlag'[b] = 1
  BY <1>8 DEF IInv, TypeOK, Encoders
<1>10. encodeFlag[b] = 0 => Encoders(b) = {} /\ content[b] = "plain"
  BY <1>8 DEF IInv, TypeOK, OneEncoder, FlagTells, Encoders
<1>11. OneEncoder'
  <2>1. SUFFICES ASSUME NEW u \in Threads, pc'[u] \in Encoding
                 PROVE  /\ Encoders(buf[u])' = {u} /\ encodeFlag'[buf[u]] = 1
                        /\ content[buf[u]] = IF pc'[u] = "encode_data" THEN "plain" ELSE "half"
    BY DEF OneEncoder
  <2>2. CASE u = t
    BY <1>8, <1>9, <1>10, <2>1, <2>2 DEF IInv, TypeOK
  <2>3. CASE u # t
    <3>1. pc[u] \in Encoding /\ pc'[u] = pc[u] /\ buf[u] \in Bufs
      BY <2>1, <2>3 DEF IInv, TypeOK, HeldUsed
    <3>2. /\ Encoders(buf[u]) = {u} /\ encodeFlag[buf[u]] = 1
          /\ content[buf[u]] = IF pc[u] = "encode_data" THEN "plain" ELSE "half"
      BY <3>1 DEF IInv, OneEncoder
    <3>3. PICK c \in Bufs : c = buf[u]
      BY <3>1
    <3> QED BY <1>9, <1>10, <3>1, <3>2, <3>3
  <2> QED BY <2>2, <2>3
<1>12. FlagTells'
  <2>1. SUFFICES ASSUME NEW c \in Bufs
                 PROVE  \/ encodeFlag'[c] = 0 /\ content[c] = "plain"
                        \/ encodeFlag'[c] = 1 /\ (content[c] = "encoded" \/ Encoders(c)' # {})
    BY DEF FlagTells
  <2> QED BY <1>9 DEF IInv, TypeOK, FlagTells
<1>13. SentFlagged'
  BY <1>8 DEF IInv, TypeOK, HeldUsed, SentFlagged, InSession
<1> QED BY <1>1, <1>2, <1>3, <1>5, <1>6, <1>7, <1>11, <1>12, <1>13 DEF IInv

LEMMA EncodeDataStep ==
  ASSUME IInv, NEW t \in Threads, EncodeData(t)  PROVE IInv'
<1> USE DEF EncodeData, Goto, OnlyPacket, pool, session
<1>1. PICK b \in Bufs : b = buf[t]
  BY DEF IInv, TypeOK, HeldUsed
<1>2. /\ Encoders(b) = {t} /\ encodeFlag[b] = 1 /\ content[b] = "plain"
      /\ content' = [content EXCEPT ![b] = "half"]
  BY <1>1 DEF IInv, OneEncoder
<1>3. TypeOK'
  BY <1>2 DEF IInv, TypeOK
<1>4. PoolApart'
  BY DEF IInv, PoolApart
<1>5. HeldUsed'
  BY DEF IInv, TypeOK, HeldUsed, InSession
<1>6. \A c \in Bufs : Holders(c)' = Holders(c) /\ Pushers(c)' = Pushers(c)
                      /\ Encoders(c)' = Encoders(c) /\ Flights(c)' = Flights(c)
  BY DEF IInv, TypeOK, Holders, Pushers, Encoders, Flights
<1>7. RefsCounted'
  BY <1>6 DEF IInv, RefsCounted
<1>8. Alone'
  BY DEF IInv, TypeOK, Alone, Flights
<1>9. NoLeak'
  BY DEF IInv, NoLeak, InSession
<1>10. OneEncoder'
  BY <1>1, <1>2 DEF IInv, TypeOK, HeldUsed, OneEncoder, Encoders
<1>11. FlagTells'
  BY <1>2, <1>6 DEF IInv, TypeOK, FlagTells
<1>12. SentFlagged'
  BY DEF IInv, TypeOK, SentFlagged, InSession
<1> QED BY <1>3, <1>4, <1>5, <1>7, <1>8, <1>9, <1>10, <1>11, <1>12 DEF IInv

LEMMA EncodeHeaderStep ==
  ASSUME IInv, NEW t \in Threads, EncodeHeader(t)  PROVE IInv'
<1> USE DEF EncodeHeader, Goto, OnlyPacket, pool, session
<1>1. PICK b \in Bufs : b = buf[t]
  BY DEF IInv, TypeOK, HeldUsed
<1>2. /\ Encoders(b) = {t} /\ encodeFlag[b] = 1 /\ content[b] = "half"
      /\ content' = [content EXCEPT ![b] = "encoded"]
  BY <1>1 DEF IInv, OneEncoder
<1>3. TypeOK'
  BY <1>2 DEF IInv, TypeOK
<1>4. PoolApart'
  BY DEF IInv, PoolApart
<1>5. HeldUsed'
  BY DEF IInv, TypeOK, HeldUsed, InSession
<1>6. \A c \in Bufs : Holders(c)' = Holders(c) /\ Pushers(c)' = Pushers(c)
                      /\ Flights(c)' = Flights(c)
  BY DEF IInv, TypeOK, Holders, Pushers, Flights
<1>7. RefsCounted'
  BY <1>6 DEF IInv, RefsCounted
<1>8. Alone'
  BY DEF IInv, TypeOK, Alone, Flights
<1>9. NoLeak'
  BY DEF IInv, NoLeak, InSession
<1>10. OneEncoder'
  BY <1>1, <1>2 DEF IInv, TypeOK, HeldUsed, OneEncoder, Encoders
<1>11. \A c \in Bufs \ {b} : Encoders(c)' = Encoders(c)
  BY <1>1 DEF IInv, TypeOK, Encoders
<1>12. FlagTells'
  BY <1>2, <1>11 DEF IInv, TypeOK, FlagTells
<1>13. SentFlagged'
  BY <1>1, <1>2 DEF IInv, TypeOK, SentFlagged, InSession
<1> QED BY <1>3, <1>4, <1>5, <1>7, <1>8, <1>9, <1>10, <1>12, <1>13 DEF IInv

LEMMA SendRefStep ==
  ASSUME IInv, NEW t \in Threads, SendRef(t)  PROVE IInv'
<1> USE DEF SendRef, AddRef, Goto, OnlyPacket, pool, session
<1>1. PICK b \in Bufs : b = buf[t]
  BY DEF IInv, TypeOK, HeldUsed
<1>2. TypeOK'
  <2>1. refCount' \in [Bufs -> Int]
    BY <1>1 DEF IInv, TypeOK
  <2> QED BY <2>1 DEF IInv, TypeOK
<1>3. PoolApart'
  BY DEF IInv, PoolApart
<1>4. HeldUsed'
  BY DEF IInv, TypeOK, HeldUsed, InSession
<1>5. \A c \in Bufs : Holders(c)' = Holders(c) /\ Encoders(c)' = Encoders(c)
                      /\ Flights(c)' = Flights(c)
  BY DEF IInv, TypeOK, Holders, Encoders, Flights
<1>6. RefsCounted'
  <2>1. t \notin Pushers(b) /\ Pushers(b)' = Pushers(b) \cup {t}
        /\ \A c \in Bufs \ {b} : Pushers(c)' = Pushers(c)
    BY <1>1 DEF IInv, TypeOK, Pushers
  <2>2. refCount'[b] = refCount[b] + 1 /\ refCount[b] \in Int
        /\ \A c \in Bufs \ {b} : refCount'[c] = refCount[c]
    BY <1>1 DEF IInv, TypeOK
  <2>3. Cardinality(Pushers(b)') = Cardinality(Pushers(b)) + 1
    <3>1. Pushers(b) \in SUBSET Threads
      BY DEF Pushers
    <3> QED BY <2>1, <3>1, FinitelyMany, CountOneMore
  <2>4. /\ Cardinality(Holders(b)) \in Nat /\ Cardinality(Pushers(b)) \in Nat
        /\ Cardinality(Flights(b)) \in Nat /\ Total(sendQ, {b}) \in Nat
    BY CountsFinite DEF IInv
  <2>5. sendQ' = sendQ
    OBVIOUS
  <2>6. refCount[b] = Cardinality(Holders(b)) + Cardinality(Pushers(b))
                        + Total(sendQ, {b}) + Cardinality(Flights(b))
    BY DEF IInv, RefsCounted
  <2>7. refCount'[b] = Cardinality(Holders(b)') + Cardinality(Pushers(b)')
                         + Total(sendQ', {b}) + Cardinality(Flights(b)')
    BY <1>5, <2>1, <2>2, <2>3, <2>4, <2>5, <2>6
  <2> QED BY <1>5, <2>1, <2>2, <2>5, <2>7, RefsCountedAgain
<1>7. Alone'
  BY DEF IInv, TypeOK, Alone, Flights
<1>8. NoLeak'
  BY DEF IInv, NoLeak, InSession
<1>9. OneEncoder'
  BY DEF IInv, TypeOK, OneEncoder, Encoders
<1>10. FlagTells'
  BY <1>5 DEF IInv, FlagTells
<1>11. SentFlagged'
  BY DEF IInv, TypeOK, SentFlagged, InSession
<1> QED BY <1>2, <1>3, <1>4, <1>6, <1>7, <1>8, <1>9, <1>10, <1>11 DEF IInv

LEMMA PushStep ==
  ASSUME IInv, NEW t \in Threads, Push(t)  PROVE IInv'
<1> USE DEF Push, Goto, pool, packet
<1>1. PICK b \in Bufs : b = buf[t]
  BY DEF IInv, TypeOK, HeldUsed
<1>2. PICK s \in Sessions : s = to[t]
  BY DEF IInv, TypeOK
<1>3. AppendsAt(Sessions, Bufs, sendQ, sendQ', s, b)
  BY <1>1, <1>2, AppendProperties DEF IInv, TypeOK, AppendsAt, ChangesAt, Queues
<1> HIDE DEF Push
<1>4. /\ pc[t] = "push" /\ pc' = [pc EXCEPT ![t] = "own"]
      /\ UNCHANGED <<free, used, returning, refCount, encodeFlag, content, buf, to, flight, sent>>
  BY DEF Push
<1>5. \A c : /\ Total(sendQ, {c}) \in Nat
             /\ Total(sendQ', {c}) = IF b \in {c} THEN Total(sendQ, {c}) + 1
                                     ELSE Total(sendQ, {c})
  BY <1>3, FinitelyMany, TotalAppended
<1>6. /\ sendQ' \in [Sessions -> Seq(Bufs)] /\ sendQ'[s] \in Seq(Bufs)
      /\ ToSet(sendQ'[s]) = ToSet(sendQ[s]) \cup {b}
      /\ \A r \in Sessions \ {s} : sendQ'[r] = sendQ[r]
  BY <1>3, MembersAppended DEF AppendsAt, ChangesAt, Queues
<1>7. TypeOK'
  BY <1>4, <1>6 DEF IInv, TypeOK
<1>8. PoolApart'
  BY <1>4 DEF IInv, PoolApart
<1>9. InSession(s)' = InSession(s) \cup {b} /\ \A r \in Sessions \ {s} : InSession(r)' = InSession(r)
  BY <1>4, <1>6 DEF InSession
<1>10. HeldUsed'
  <2>1. b \in used
    BY <1>1, <1>4 DEF IInv, HeldUsed
  <2>2. \A r \in Sessions : InSession(r)' \subseteq used
    BY <1>4, <1>9, <2>1 DEF IInv, HeldUsed
  <2> QED BY <1>4, <2>2 DEF IInv, TypeOK, HeldUsed
<1>11. \A c \in Bufs : Holders(c)' = Holders(c) /\ Encoders(c)' = Encoders(c)
                      /\ Flights(c)' = Flights(c)
  BY <1>4 DEF IInv, TypeOK, Holders, Encoders, Flights
<1>12. RefsCounted'
  <2>1. t \in Pushers(b) /\ Pushers(b)' = Pushers(b) \ {t}
        /\ \A c \in Bufs \ {b} : Pushers(c)' = Pushers(c)
    BY <1>1, <1>4 DEF IInv, TypeOK, Pushers
  <2>2. Cardinality(Pushers(b)') = Cardinality(Pushers(b)) - 1
    <3>1. Pushers(b) \in SUBSET Threads
      BY DEF Pushers
    <3> QED BY <2>1, <3>1, FinitelyMany, CountOneLess
  <2>3. /\ Cardinality(Holders(b)) \in Nat /\ Cardinality(Pushers(b)) \in Nat
        /\ Cardinality(Flights(b)) \in Nat
    BY CountsFinite DEF IInv
  <2>4. refCount[b] = Cardinality(Holders(b)) + Cardinality(Pushers(b))
                        + Total(sendQ, {b}) + Cardinality(Flights(b))
    BY <1>4 DEF IInv, RefsCounted
  <2>5. refCount'[b] = Cardinality(Holders(b)') + Cardinality(Pushers(b)')
                         + Total(sendQ', {b}) + Cardinality(Flights(b)')
    <3>1. Total(sendQ', {b}) = Total(sendQ, {b}) + 1 /\ Total(sendQ, {b}) \in Nat
      BY <1>5
    <3>2. /\ Holders(b)' = Holders(b) /\ Flights(b)' = Flights(b) /\ refCount'[b] = refCount[b]
      BY <1>4, <1>11
    <3> QED BY <2>2, <2>3, <2>4, <3>1, <3>2
  <2> QED BY <1>4, <1>5, <1>11, <2>1, <2>5, RefsCountedAgain
<1>13. Alone'
  <2>1. SUFFICES ASSUME NEW u \in Threads, pc'[u] \in Unreferenced
                 PROVE  /\ \A v \in Threads \ {u} : buf[v] # buf[u]
                        /\ Total(sendQ', {buf[u]}) = 0 /\ Flights(buf[u])' = {}
    BY <1>4 DEF Alone
  <2>2. pc[u] \in Unreferenced /\ u # t
    BY <1>4, <2>1 DEF IInv, TypeOK
  <2>3. /\ \A v \in Threads \ {u} : buf[v] # buf[u]
        /\ Total(sendQ, {buf[u]}) = 0 /\ Flights(buf[u]) = {}
    BY <1>4, <2>2 DEF IInv, Alone
  <2>4. buf[u] # b
    BY <1>1, <2>2, <2>3
  <2> QED BY <1>4, <1>5, <2>3, <2>4 DEF Flights
<1>14. NoLeak'
  BY <1>4, <1>9 DEF IInv, NoLeak
<1>15. OneEncoder'
  BY <1>4 DEF IInv, TypeOK, OneEncoder, Encoders
<1>16. FlagTells'
  BY <1>4, <1>11 DEF IInv, FlagTells
<1>17. SentFlagged'
  <2>1. encodeFlag[b] = 1
    BY <1>1, <1>4 DEF IInv, SentFlagged
  <2>2. \A r \in Sessions : \A c \in InSession(r)' : encodeFlag[c] = 1
    BY <1>4, <1>9, <2>1 DEF IInv, SentFlagged
  <2> QED BY <1>4, <2>2 DEF IInv, TypeOK, SentFlagged
<1> QED BY <1>7, <1>8, <1>10, <1>12, <1>13, <1>14, <1>15, <1>16, <1>17 DEF IInv
-----------------------------------------------------------------------------
(* Free *)

LEMMA FinishStep ==
  ASSUME IInv, NEW t \in Threads, Finish(t)  PROVE IInv'
<1> USE DEF Finish, Goto, OnlyThread, OnlyPacket, pool, packet, session
<1>1. TypeOK'
  BY DEF IInv, TypeOK
<1>2. PoolApart'
  BY DEF IInv, PoolApart
<1>3. HeldUsed'
  BY DEF IInv, TypeOK, HeldUsed, InSession
<1>4. \A c \in Bufs : Holders(c)' = Holders(c) /\ Pushers(c)' = Pushers(c)
                      /\ Encoders(c)' = Encoders(c) /\ Flights(c)' = Flights(c)
  BY DEF IInv, TypeOK, Holders, Pushers, Encoders, Flights
<1>5. RefsCounted'
  BY <1>4 DEF IInv, RefsCounted
<1>6. Alone'
  BY DEF IInv, TypeOK, Alone, Flights
<1>7. NoLeak'
  BY DEF IInv, NoLeak, InSession
<1>8. OneEncoder'
  BY DEF IInv, TypeOK, OneEncoder, Encoders
<1>9. FlagTells'
  BY <1>4 DEF IInv, FlagTells
<1>10. SentFlagged'
  BY DEF IInv, TypeOK, SentFlagged, InSession
<1> QED BY <1>1, <1>2, <1>3, <1>5, <1>6, <1>7, <1>8, <1>9, <1>10 DEF IInv

(* A count that falls to zero leaves nobody else; one that does not, somebody. *)
LEMMA FreeStep ==
  ASSUME IInv, NEW t \in Threads, Free(t)  PROVE IInv'
<1> USE DEF Free, pool, session
<1>1. PICK b \in Bufs : b = buf[t]
  BY DEF IInv, TypeOK, HeldUsed
<1>2. /\ t \in Holders(b) /\ Holders(b)' = Holders(b) \ {t}
      /\ \A c \in Bufs \ {b} : Holders(c)' = Holders(c)
      /\ \A c \in Bufs : Pushers(c)' = Pushers(c) /\ Encoders(c)' = Encoders(c)
                         /\ Flights(c)' = Flights(c)
  BY <1>1 DEF IInv, TypeOK, HeldUsed, Holders, Pushers, Encoders, Flights
<1>3. /\ refCount[b] = Cardinality(Holders(b)) + Cardinality(Pushers(b))
                         + Total(sendQ, {b}) + Cardinality(Flights(b))
      /\ Cardinality(Holders(b)) \in Nat /\ Cardinality(Pushers(b)) \in Nat
      /\ Cardinality(Flights(b)) \in Nat /\ Total(sendQ, {b}) \in Nat
  BY CountsFinite DEF IInv, RefsCounted
<1>4. /\ Holders(b) \in SUBSET Threads /\ Holders(b) \ {t} \in SUBSET Threads
      /\ Pushers(b) \in SUBSET Threads /\ Flights(b) \in SUBSET Sessions
  BY DEF Holders, Pushers, Flights
<1>5. Cardinality(Holders(b) \ {t}) = Cardinality(Holders(b)) - 1
  BY <1>2, <1>4, FinitelyMany, CountOneLess
<1>6. Cardinality(Holders(b) \ {t}) \in Nat
      /\ (Cardinality(Holders(b) \ {t}) = 0 <=> Holders(b) \ {t} = {})
  BY <1>4, FinitelyMany, CountNone
<1>7. Cardinality(Flights(b)) = 0 <=> Flights(b) = {}
  BY <1>4, FinitelyMany, CountNone
<1>8. Cardinality(Pushers(b)) = 0 <=> Pushers(b) = {}
  BY <1>4, FinitelyMany, CountNone
<1>9. refCount' = [refCount EXCEPT ![b] = refCount[b] - 1] /\ refCount' \in [Bufs -> Int]
  BY <1>1 DEF IInv, TypeOK
<1>10. TypeOK'
  BY <1>9 DEF IInv, TypeOK
<1>11. PoolApart'
  BY DEF IInv, PoolApart
<1>12. HeldUsed'
  BY <1>1 DEF IInv, TypeOK, HeldUsed, InSession
<1>13. RefsCounted'
  <2>1. sendQ' = sendQ /\ refCount'[b] = refCount[b] - 1
        /\ \A c \in Bufs \ {b} : refCount'[c] = refCount[c]
    BY <1>9 DEF IInv, TypeOK
  <2>2. refCount'[b] = Cardinality(Holders(b)') + Cardinality(Pushers(b)')
                         + Total(sendQ', {b}) + Cardinality(Flights(b)')
    BY <1>2, <1>3, <1>5, <2>1
  <2> QED BY <1>2, <2>1, <2>2, RefsCountedAgain
<1>14. Alone'
  <2>1. SUFFICES ASSUME NEW u \in Threads, pc'[u] \in Unreferenced
                 PROVE  /\ \A v \in Threads \ {u} : buf'[v] # buf'[u]
                        /\ Total(sendQ, {buf'[u]}) = 0 /\ Flights(buf'[u]) = {}
    BY DEF Alone, Flights
  <2>2. CASE u = t
    <3>1. refCount[b] = 1 /\ buf' = buf
      BY <1>1, <2>1, <2>2 DEF IInv, TypeOK
    <3>2. /\ Holders(b) \ {t} = {} /\ Flights(b) = {} /\ Total(sendQ, {b}) = 0
      BY <1>3, <1>5, <1>6, <1>7, <3>1
    <3>3. ASSUME NEW v \in Threads \ {t}, buf[v] = b  PROVE FALSE
      <4>1. pc[v] \in Unreferenced
        BY <3>2, <3>3 DEF Holders
      <4> QED BY <1>1, <3>3, <4>1 DEF IInv, Alone
    <3> QED BY <1>1, <2>2, <3>1, <3>2, <3>3
  <2>3. CASE u # t
    <3>1. pc[u] \in Unreferenced /\ buf'[u] = buf[u] /\ buf[u] \in used \cup returning
      BY <2>1, <2>3 DEF IInv, TypeOK, HeldUsed
    <3>2. /\ \A v \in Threads \ {u} : buf[v] # buf[u]
          /\ Total(sendQ, {buf[u]}) = 0 /\ Flights(buf[u]) = {}
      BY <3>1 DEF IInv, Alone
    <3>3. buf[u] # NoBuf
      BY <3>1 DEF IInv, TypeOK
    <3> QED BY <3>1, <3>2, <3>3 DEF IInv, TypeOK
  <2> QED BY <2>2, <2>3
<1>15. NoLeak'
  <2>1. SUFFICES ASSUME NEW c \in used
                 PROVE  \/ \E u \in Threads : buf'[u] = c
                        \/ \E s \in Sessions : c \in InSession(s)
    BY DEF NoLeak, InSession
  <2>2. CASE c # b
    <3>1. ASSUME NEW u \in Threads, buf[u] = c  PROVE buf'[u] = c
      BY <1>1, <2>2, <3>1 DEF IInv, TypeOK
    <3> QED BY <3>1 DEF IInv, NoLeak
  <2>3. CASE c = b /\ refCount[b] = 1
    BY <1>1, <2>3 DEF IInv, TypeOK
  <2>4. CASE c = b /\ refCount[b] # 1
    <3>1. \/ Holders(b) \ {t} # {} \/ Flights(b) # {} \/ Pushers(b) # {}
          \/ Total(sendQ, {b}) # 0
      BY <1>3, <1>5, <1>6, <1>7, <1>8, <2>4
    <3>2. CASE Holders(b) \ {t} # {}
      BY <1>1, <2>4, <3>2 DEF IInv, TypeOK, Holders
    <3>3. CASE Flights(b) # {}
      BY <2>4, <3>3 DEF Flights, InSession
    <3>4. CASE Pushers(b) # {}
      BY <1>1, <2>4, <3>4 DEF IInv, TypeOK, Pushers
    <3>5. CASE Total(sendQ, {b}) # 0
      <4>1. sendQ \in Queues(Sessions, Bufs)
        BY DEF IInv, TypeOK, Queues
      <4>2. PICK s \in Sessions : Occ(sendQ[s], {b}) # 0
        BY <3>5, <4>1, FinitelyMany, TotalNone
      <4>3. sendQ[s] \in Seq(Bufs)
        BY DEF IInv, TypeOK
      <4>4. b \in ToSet(sendQ[s])
        BY <4>2, <4>3, MembersOf
      <4> QED BY <2>4, <4>4 DEF InSession
    <3> QED BY <3>1, <3>2, <3>3, <3>4, <3>5
  <2> QED BY <2>2, <2>3, <2>4
<1>16. OneEncoder'
  BY <1>1 DEF IInv, TypeOK, OneEncoder, Encoders
<1>17. FlagTells'
  BY <1>2 DEF IInv, FlagTells
<1>18. SentFlagged'
  BY DEF IInv, TypeOK, SentFlagged, InSession
<1> QED BY <1>10, <1>11, <1>12, <1>13, <1>14, <1>15, <1>16, <1>17, <1>18 DEF IInv

LEMMA PoolFreeStep ==
  ASSUME IInv, NEW t \in Threads, PoolFree(t)  PROVE IInv'
<1> USE DEF PoolFree, Goto, Pool!Release, packet, session
<1>1. PICK b \in Bufs : b = buf[t]
  BY DEF IInv, TypeOK, HeldUsed
<1>2. /\ b \in used /\ b \notin returning /\ used' = used \ {b}
      /\ returning' = returning \cup {b}
  BY <1>1 DEF IInv, TypeOK, PoolApart
<1>3. /\ \A u \in Threads \ {t} : buf[u] # b
      /\ \A s \in Sessions : b \notin InSession(s)
  <2>1. /\ \A u \in Threads \ {t} : buf[u] # b
        /\ Total(sendQ, {b}) = 0 /\ Flights(b) = {}
    BY <1>1 DEF IInv, TypeOK, Alone
  <2>2. ASSUME NEW s \in Sessions, b \in ToSet(sendQ[s])  PROVE FALSE
    <3>1. Total(sendQ, {b}) > 0
      BY <2>2, QueuedCounted DEF IInv
    <3> QED BY <2>1, <3>1
  <2> QED BY <2>1, <2>2 DEF InSession, Flights
<1>4. TypeOK'
  BY <1>2 DEF IInv, TypeOK
<1>5. PoolApart'
  BY <1>2 DEF IInv, PoolApart
<1>6. HeldUsed'
  <2>1. \A s \in Sessions : InSession(s)' \subseteq used'
    BY <1>2, <1>3 DEF IInv, HeldUsed, InSession
  <2> QED BY <1>1, <1>2, <1>3, <2>1 DEF IInv, TypeOK, HeldUsed
<1>7. \A c \in Bufs : Holders(c)' = Holders(c) /\ Pushers(c)' = Pushers(c)
                      /\ Encoders(c)' = Encoders(c) /\ Flights(c)' = Flights(c)
  BY DEF IInv, TypeOK, Holders, Pushers, Encoders, Flights
<1>8. RefsCounted'
  BY <1>7 DEF IInv, RefsCounted
<1>9. Alone'
  BY DEF IInv, TypeOK, Alone, Flights
<1>10. NoLeak'
  BY <1>2 DEF IInv, NoLeak, InSession
<1>11. OneEncoder'
  BY DEF IInv, TypeOK, OneEncoder, Encoders
<1>12. FlagTells'
  BY <1>7 DEF IInv, FlagTells
<1>13. SentFlagged'
  BY DEF IInv, TypeOK, SentFlagged, InSession
<1> QED BY <1>4, <1>5, <1>6, <1>8, <1>9, <1>10, <1>11, <1>12, <1>13 DEF IInv

LEMMA PoolReturnStep ==
  ASSUME IInv, NEW t \in Threads, PoolReturn(t)  PROVE IInv'
<1> USE DEF PoolReturn, Goto, Pool!Return, packet, session
<1>1. PICK b \in Bufs : b = buf[t]
  BY DEF IInv, TypeOK, HeldUsed
<1>2. /\ b \in returning /\ b \notin used /\ b \notin ToSet(free)
      /\ returning' = returning \ {b} /\ free' = <<b>> \o free
  BY <1>1 DEF IInv, TypeOK, PoolApart
<1>3. /\ free' \in Seq(Bufs) /\ ToSet(free') = ToSet(free) \cup {b} /\ IsInjective(free')
  BY <1>2, MembersPrepended DEF IInv, TypeOK, PoolApart
<1>4. \A u \in Threads \ {t} : buf[u] # b
  BY <1>1 DEF IInv, TypeOK, Alone
<1>5. TypeOK'
  BY <1>2, <1>3 DEF IInv, TypeOK
<1>6. PoolApart'
  BY <1>2, <1>3 DEF IInv, PoolApart
<1>7. HeldUsed'
  BY <1>1, <1>2, <1>4 DEF IInv, TypeOK, HeldUsed, InSession
<1>8. \A c \in Bufs : Holders(c)' = Holders(c) /\ Pushers(c)' = Pushers(c)
                      /\ Encoders(c)' = Encoders(c) /\ Flights(c)' = Flights(c)
  BY DEF IInv, TypeOK, Holders, Pushers, Encoders, Flights
<1>9. RefsCounted'
  BY <1>8 DEF IInv, RefsCounted
<1>10. Alone'
  <2>1. SUFFICES ASSUME NEW u \in Threads, pc'[u] \in Unreferenced
                 PROVE  /\ \A v \in Threads \ {u} : buf'[v] # buf'[u]
                        /\ Total(sendQ, {buf'[u]}) = 0 /\ Flights(buf'[u]) = {}
    BY DEF Alone, Flights
  <2>2. u # t /\ pc[u] \in Unreferenced /\ buf'[u] = buf[u] /\ buf[u] # NoBuf
    BY <2>1 DEF IInv, TypeOK, HeldUsed
  <2> QED BY <2>2 DEF IInv, TypeOK, Alone
<1>11. NoLeak'
  <2>1. SUFFICES ASSUME NEW c \in used, NEW u \in Threads, buf[u] = c
                 PROVE  buf'[u] = c
    BY DEF IInv, TypeOK, NoLeak, InSession
  <2>2. u # t
    BY <1>1, <1>2, <2>1
  <2> QED BY <2>1, <2>2 DEF IInv, TypeOK
<1>12. OneEncoder'
  BY <1>1 DEF IInv, TypeOK, OneEncoder, Encoders
<1>13. FlagTells'
  BY <1>8 DEF IInv, FlagTells
<1>14. SentFlagged'
  BY DEF IInv, TypeOK, SentFlagged, InSession
<1> QED BY <1>5, <1>6, <1>7, <1>9, <1>10, <1>11, <1>12, <1>13, <1>14 DEF IInv
-----------------------------------------------------------------------------
(* The sessions *)

LEMMA TransmitStep ==
  ASSUME IInv, NEW s \in Sessions, Transmit(s)  PROVE IInv'
<1> USE DEF Transmit, pool, packet
<1>1. sendQ[s] \in Seq(Bufs) /\ sendQ[s] # <<>>
  BY DEF IInv, TypeOK
<1>2. PICK b \in Bufs : b = Head(sendQ[s])
  BY <1>1, MembersOfTail
<1>3. TailsAt(Sessions, Bufs, sendQ, sendQ', s)
  BY <1>1, HeadTailProperties DEF IInv, TypeOK, TailsAt, ChangesAt, Queues
<1>4. /\ flight[s] = NoBuf /\ flight' = [flight EXCEPT ![s] = b]
      /\ sent' = [sent EXCEPT ![s] = FALSE]
      /\ UNCHANGED <<free, used, returning, refCount, encodeFlag, content, pc, buf, to>>
  BY <1>2
<1> HIDE DEF Transmit
<1>5. \A c : /\ Total(sendQ, {c}) \in Nat
             /\ Total(sendQ', {c}) = IF b \in {c} THEN Total(sendQ, {c}) - 1
                                     ELSE Total(sendQ, {c})
  BY <1>2, <1>3, FinitelyMany, TotalTailed
<1>6. /\ sendQ' \in [Sessions -> Seq(Bufs)]
      /\ ToSet(sendQ[s]) = ToSet(sendQ'[s]) \cup {b}
      /\ \A r \in Sessions \ {s} : sendQ'[r] = sendQ[r]
  BY <1>1, <1>2, <1>3, MembersOfTail DEF TailsAt, ChangesAt, Queues
<1>7. TypeOK'
  BY <1>4, <1>6 DEF IInv, TypeOK
<1>8. PoolApart'
  BY <1>4 DEF IInv, PoolApart
<1>9. \A r \in Sessions : InSession(r)' = InSession(r)
  BY <1>4, <1>6 DEF IInv, TypeOK, InSession
<1>10. HeldUsed'
  BY <1>4, <1>9 DEF IInv, HeldUsed
<1>11. \A c \in Bufs : Holders(c)' = Holders(c) /\ Encoders(c)' = Encoders(c)
                      /\ Pushers(c)' = Pushers(c)
  BY <1>4 DEF Holders, Encoders, Pushers
<1>12. /\ s \notin Flights(b) /\ Flights(b)' = Flights(b) \cup {s}
       /\ \A c \in Bufs \ {b} : Flights(c)' = Flights(c)
  BY <1>4 DEF IInv, TypeOK, Flights
<1>13. RefsCounted'
  <2>1. Cardinality(Flights(b)') = Cardinality(Flights(b)) + 1
    <3>1. Flights(b) \in SUBSET Sessions
      BY DEF Flights
    <3> QED BY <1>12, <3>1, FinitelyMany, CountOneMore
  <2>2. /\ Cardinality(Holders(b)) \in Nat /\ Cardinality(Pushers(b)) \in Nat
        /\ Cardinality(Flights(b)) \in Nat
    BY CountsFinite DEF IInv
  <2>3. refCount[b] = Cardinality(Holders(b)) + Cardinality(Pushers(b))
                        + Total(sendQ, {b}) + Cardinality(Flights(b))
    BY DEF IInv, RefsCounted
  <2>4. Total(sendQ', {b}) = Total(sendQ, {b}) - 1 /\ Total(sendQ, {b}) \in Nat
    BY <1>5
  <2>5. Holders(b)' = Holders(b) /\ Pushers(b)' = Pushers(b) /\ refCount' = refCount
    BY <1>4, <1>11
  <2>6. refCount'[b] = Cardinality(Holders(b)') + Cardinality(Pushers(b)')
                         + Total(sendQ', {b}) + Cardinality(Flights(b)')
    BY <2>1, <2>2, <2>3, <2>4, <2>5
  <2> QED BY <1>5, <1>11, <1>12, <2>5, <2>6, RefsCountedAgain
<1>14. Alone'
  <2>1. SUFFICES ASSUME NEW u \in Threads, pc[u] \in Unreferenced
                 PROVE  /\ \A v \in Threads \ {u} : buf[v] # buf[u]
                        /\ Total(sendQ', {buf[u]}) = 0 /\ Flights(buf[u])' = {}
    BY <1>4 DEF Alone
  <2>2. /\ \A v \in Threads \ {u} : buf[v] # buf[u]
        /\ Total(sendQ, {buf[u]}) = 0 /\ Flights(buf[u]) = {}
    BY <2>1 DEF IInv, Alone
  <2>3. Total(sendQ, {b}) > 0
    BY <1>6, QueuedCounted DEF IInv
  <2>4. PICK c \in Bufs : c = buf[u]
    BY <2>1 DEF IInv, TypeOK, HeldUsed
  <2>5. c # b
    BY <2>2, <2>3, <2>4
  <2>6. Total(sendQ', {c}) = 0 /\ Flights(c)' = {}
    BY <1>5, <1>12, <2>2, <2>4, <2>5
  <2> QED BY <1>4, <2>2, <2>4, <2>6 DEF Flights
<1>15. NoLeak'
  BY <1>4, <1>9 DEF IInv, NoLeak
<1>16. OneEncoder'
  BY <1>4 DEF IInv, OneEncoder, Encoders
<1>17. FlagTells'
  BY <1>4, <1>11 DEF IInv, FlagTells
<1>18. SentFlagged'
  BY <1>4, <1>9 DEF IInv, SentFlagged
<1> QED BY <1>7, <1>8, <1>10, <1>13, <1>14, <1>15, <1>16, <1>17, <1>18 DEF IInv

LEMMA CopyStep ==
  ASSUME IInv, NEW s \in Sessions, Copy(s)  PROVE IInv'
<1> USE DEF Copy, pool, packet
<1>1. TypeOK'
  BY DEF IInv, TypeOK
<1>2. PoolApart'
  BY DEF IInv, PoolApart
<1>3. HeldUsed'
  BY DEF IInv, TypeOK, HeldUsed, InSession
<1>4. \A c \in Bufs : Holders(c)' = Holders(c) /\ Pushers(c)' = Pushers(c)
                      /\ Encoders(c)' = Encoders(c) /\ Flights(c)' = Flights(c)
  BY DEF Holders, Pushers, Encoders, Flights
<1>5. RefsCounted'
  BY <1>4 DEF IInv, RefsCounted
<1>6. Alone'
  BY DEF IInv, Alone, Flights
<1>7. NoLeak'
  BY DEF IInv, NoLeak, InSession
<1>8. OneEncoder'
  BY DEF IInv, OneEncoder, Encoders
<1>9. FlagTells'
  BY <1>4 DEF IInv, FlagTells
<1>10. SentFlagged'
  BY DEF IInv, SentFlagged, InSession
<1> QED BY <1>1, <1>2, <1>3, <1>5, <1>6, <1>7, <1>8, <1>9, <1>10 DEF IInv

(* A reference passes from a session to the thread that will free it. *)
LEMMA FreeSentStep ==
  ASSUME IInv, NEW t \in Threads, NEW s \in Sessions, FreeSent(t, s)  PROVE IInv'
<1> USE DEF FreeSent, Goto, pool, packet
<1>1. PICK b \in Bufs : b = flight[s]
  BY DEF IInv, TypeOK
<1>2. /\ b \in used /\ buf[t] = NoBuf
      /\ buf' = [buf EXCEPT ![t] = b]
  BY <1>1 DEF IInv, TypeOK, HeldUsed, InSession
<1>3. TypeOK'
  BY <1>2 DEF IInv, TypeOK
<1>4. PoolApart'
  BY DEF IInv, PoolApart
<1>5. \A r \in Sessions : InSession(r)' \subseteq InSession(r) /\ InSession(r) \subseteq InSession(r)' \cup {b}
  BY <1>1 DEF IInv, TypeOK, InSession
<1>6. HeldUsed'
  BY <1>2, <1>5 DEF IInv, TypeOK, HeldUsed
<1>7. \A c \in Bufs : Pushers(c)' = Pushers(c) /\ Encoders(c)' = Encoders(c)
  BY <1>2 DEF IInv, TypeOK, Pushers, Encoders
<1>8. /\ t \notin Holders(b) /\ Holders(b)' = Holders(b) \cup {t}
      /\ \A c \in Bufs \ {b} : Holders(c)' = Holders(c)
  BY <1>2 DEF IInv, TypeOK, Holders
<1>9. /\ s \in Flights(b) /\ Flights(b)' = Flights(b) \ {s}
      /\ \A c \in Bufs \ {b} : Flights(c)' = Flights(c)
  BY <1>1 DEF IInv, TypeOK, Flights
<1>10. RefsCounted'
  <2>1. Cardinality(Flights(b)') = Cardinality(Flights(b)) - 1
    <3>1. Flights(b) \in SUBSET Sessions
      BY DEF Flights
    <3> QED BY <1>9, <3>1, FinitelyMany, CountOneLess
  <2>2. Cardinality(Holders(b)') = Cardinality(Holders(b)) + 1
    <3>1. Holders(b) \in SUBSET Threads
      BY DEF Holders
    <3> QED BY <1>8, <3>1, FinitelyMany, CountOneMore
  <2>3. /\ Cardinality(Holders(b)) \in Nat /\ Cardinality(Pushers(b)) \in Nat
        /\ Cardinality(Flights(b)) \in Nat /\ Total(sendQ, {b}) \in Nat
    BY CountsFinite DEF IInv
  <2>4. refCount[b] = Cardinality(Holders(b)) + Cardinality(Pushers(b))
                        + Total(sendQ, {b}) + Cardinality(Flights(b))
    BY DEF IInv, RefsCounted
  <2>5. sendQ' = sendQ /\ refCount' = refCount
    OBVIOUS
  <2>6. refCount'[b] = Cardinality(Holders(b)') + Cardinality(Pushers(b)')
                         + Total(sendQ', {b}) + Cardinality(Flights(b)')
    BY <1>7, <2>1, <2>2, <2>3, <2>4, <2>5
  <2> QED BY <1>7, <1>8, <1>9, <2>5, <2>6, RefsCountedAgain
<1>11. Alone'
  <2>1. SUFFICES ASSUME NEW u \in Threads, pc'[u] \in Unreferenced
                 PROVE  /\ \A v \in Threads \ {u} : buf'[v] # buf'[u]
                        /\ Total(sendQ, {buf'[u]}) = 0
                        /\ \A r \in Sessions : flight'[r] # buf'[u]
    BY DEF Alone, Flights
  <2>2. u # t /\ pc[u] \in Unreferenced /\ buf'[u] = buf[u]
    BY <2>1 DEF IInv, TypeOK
  <2>3. /\ \A v \in Threads \ {u} : buf[v] # buf[u]
        /\ Total(sendQ, {buf[u]}) = 0 /\ Flights(buf[u]) = {}
    BY <2>2 DEF IInv, Alone
  <2>4. buf[u] # b
    BY <1>9, <2>3
  <2>5. PICK c \in Bufs : c = buf[u]
    BY <2>2 DEF IInv, TypeOK, HeldUsed
  <2>6. \A r \in Sessions : flight'[r] # c
    BY <1>9, <2>3, <2>4, <2>5 DEF Flights
  <2>7. \A v \in Threads \ {u} : buf'[v] # buf[u]
    BY <1>2, <2>3, <2>4 DEF IInv, TypeOK
  <2> QED BY <2>2, <2>3, <2>5, <2>6, <2>7
<1>12. NoLeak'
  <2>1. SUFFICES ASSUME NEW c \in used, c # b
                 PROVE  \/ \E u \in Threads : buf'[u] = c
                        \/ \E r \in Sessions : c \in InSession(r)'
    BY <1>2 DEF IInv, TypeOK, NoLeak
  <2>2. ASSUME NEW u \in Threads, buf[u] = c  PROVE buf'[u] = c
    BY <1>2, <2>2 DEF IInv, TypeOK
  <2> QED BY <1>5, <2>1, <2>2 DEF IInv, NoLeak
<1>13. OneEncoder'
  BY <1>2 DEF IInv, TypeOK, OneEncoder, Encoders
<1>14. FlagTells'
  BY <1>7 DEF IInv, FlagTells
<1>15. SentFlagged'
  <2>1. \A r \in Sessions : \A c \in InSession(r)' : encodeFlag[c] = 1
    BY <1>5 DEF IInv, SentFlagged
  <2> QED BY <2>1 DEF IInv, TypeOK, SentFlagged
<1> QED BY <1>3, <1>4, <1>6, <1>10, <1>11, <1>12, <1>13, <1>14, <1>15 DEF IInv

LEMMA DrainStep ==
  ASSUME IInv, NEW t \in Threads, NEW s \in Sessions, Drain(t, s)  PROVE IInv'
<1> USE DEF Drain, Goto, pool, packet
<1>1. sendQ[s] \in Seq(Bufs) /\ sendQ[s] # <<>>
  BY DEF IInv, TypeOK
<1>2. PICK b \in Bufs : b = Head(sendQ[s])
  BY <1>1, MembersOfTail
<1>3. TailsAt(Sessions, Bufs, sendQ, sendQ', s)
  BY <1>1, HeadTailProperties DEF IInv, TypeOK, TailsAt, ChangesAt, Queues
<1>4. /\ pc[t] = "idle" /\ pc' = [pc EXCEPT ![t] = "free"]
      /\ buf[t] = NoBuf /\ buf' = [buf EXCEPT ![t] = b]
      /\ UNCHANGED <<free, used, returning, refCount, encodeFlag, content, to, flight, sent>>
  BY <1>2 DEF IInv, HeldUsed
<1> HIDE DEF Drain
<1>5. \A c : /\ Total(sendQ, {c}) \in Nat
             /\ Total(sendQ', {c}) = IF b \in {c} THEN Total(sendQ, {c}) - 1
                                     ELSE Total(sendQ, {c})
  BY <1>2, <1>3, FinitelyMany, TotalTailed
<1>6. /\ sendQ' \in [Sessions -> Seq(Bufs)]
      /\ ToSet(sendQ[s]) = ToSet(sendQ'[s]) \cup {b}
      /\ \A r \in Sessions \ {s} : sendQ'[r] = sendQ[r]
  BY <1>1, <1>2, <1>3, MembersOfTail DEF TailsAt, ChangesAt, Queues
<1>7. TypeOK'
  BY <1>4, <1>6 DEF IInv, TypeOK
<1>8. PoolApart'
  BY <1>4 DEF IInv, PoolApart
<1>9. \A r \in Sessions : InSession(r)' \subseteq InSession(r) /\ InSession(r) \subseteq InSession(r)' \cup {b}
  BY <1>4, <1>6 DEF IInv, TypeOK, InSession
<1>10. b \in used
  BY <1>6 DEF IInv, HeldUsed, InSession
<1>11. HeldUsed'
  BY <1>4, <1>9, <1>10 DEF IInv, TypeOK, HeldUsed
<1>12. \A c \in Bufs : Pushers(c)' = Pushers(c) /\ Encoders(c)' = Encoders(c) /\ Flights(c)' = Flights(c)
  BY <1>4 DEF IInv, TypeOK, Pushers, Encoders, Flights
<1>13. /\ t \notin Holders(b) /\ Holders(b)' = Holders(b) \cup {t}
       /\ \A c \in Bufs \ {b} : Holders(c)' = Holders(c)
  BY <1>4 DEF IInv, TypeOK, Holders
<1>14. RefsCounted'
  <2>1. Cardinality(Holders(b)') = Cardinality(Holders(b)) + 1
    <3>1. Holders(b) \in SUBSET Threads
      BY DEF Holders
    <3> QED BY <1>13, <3>1, FinitelyMany, CountOneMore
  <2>2. /\ Cardinality(Holders(b)) \in Nat /\ Cardinality(Pushers(b)) \in Nat
        /\ Cardinality(Flights(b)) \in Nat
    BY CountsFinite DEF IInv
  <2>3. refCount[b] = Cardinality(Holders(b)) + Cardinality(Pushers(b))
                        + Total(sendQ, {b}) + Cardinality(Flights(b))
    BY DEF IInv, RefsCounted
  <2>4. Total(sendQ', {b}) = Total(sendQ, {b}) - 1 /\ Total(sendQ, {b}) \in Nat
    BY <1>5
  <2>5. Flights(b)' = Flights(b) /\ Pushers(b)' = Pushers(b) /\ refCount' = refCount
    BY <1>4, <1>12
  <2>6. refCount'[b] = Cardinality(Holders(b)') + Cardinality(Pushers(b)')
                         + Total(sendQ', {b}) + Cardinality(Flights(b)')
    BY <2>1, <2>2, <2>3, <2>4, <2>5
  <2> QED BY <1>5, <1>12, <1>13, <2>5, <2>6, RefsCountedAgain
<1>15. Alone'
  <2>1. SUFFICES ASSUME NEW u \in Threads, pc'[u] \in Unreferenced
                 PROVE  /\ \A v \in Threads \ {u} : buf'[v] # buf'[u]
                        /\ Total(sendQ', {buf'[u]}) = 0
                        /\ \A r \in Sessions : flight'[r] # buf'[u]
    BY DEF Alone, Flights
  <2>2. u # t /\ pc[u] \in Unreferenced /\ buf'[u] = buf[u]
    BY <1>4, <2>1 DEF IInv, TypeOK
  <2>3. /\ \A v \in Threads \ {u} : buf[v] # buf[u]
        /\ Total(sendQ, {buf[u]}) = 0 /\ Flights(buf[u]) = {}
    BY <2>2 DEF IInv, Alone
  <2>4. Total(sendQ, {b}) > 0
    BY <1>6, QueuedCounted DEF IInv
  <2>5. buf[u] # b
    BY <2>3, <2>4
  <2>6. PICK c \in Bufs : c = buf[u]
    BY <2>2 DEF IInv, TypeOK, HeldUsed
  <2>7. Total(sendQ', {c}) = 0
    BY <1>5, <2>3, <2>5, <2>6
  <2>8. \A r \in Sessions : flight'[r] # c
    BY <1>4, <2>3, <2>6 DEF Flights
  <2>9. \A v \in Threads \ {u} : buf'[v] # buf[u]
    BY <1>4, <2>3, <2>5 DEF IInv, TypeOK
  <2> QED BY <2>2, <2>6, <2>7, <2>8, <2>9
<1>16. NoLeak'
  <2>1. SUFFICES ASSUME NEW c \in used, c # b
                 PROVE  \/ \E u \in Threads : buf'[u] = c
                        \/ \E r \in Sessions : c \in InSession(r)'
    BY <1>4 DEF IInv, TypeOK, NoLeak
  <2>2. ASSUME NEW u \in Threads, buf[u] = c  PROVE buf'[u] = c
    BY <1>4, <2>2 DEF IInv, TypeOK
  <2> QED BY <1>9, <2>1, <2>2 DEF IInv, NoLeak
<1>17. OneEncoder'
  BY <1>4 DEF IInv, TypeOK, OneEncoder, Encoders
<1>18. FlagTells'
  BY <1>4, <1>12 DEF IInv, FlagTells
<1>19. SentFlagged'
  <2>1. \A r \in Sessions : \A c \in InSession(r)' : encodeFlag'[c] = 1
    BY <1>4, <1>9 DEF IInv, SentFlagged
  <2> QED BY <1>4, <2>1 DEF IInv, TypeOK, SentFlagged
<1> QED BY <1>7, <1>8, <1>11, <1>14, <1>15, <1>16, <1>17, <1>18, <1>19 DEF IInv
LEMMA CopyStepKeeps ==
  ASSUME IInv, NEW s \in Sessions, Copy(s)
  PROVE  \/ content[flight[s]] = "encoded"
         \/ \E t \in Threads : buf[t] = flight[s] /\ pc[t] \in Encoding
<1>1. PICK b \in Bufs : b = flight[s]
  BY DEF IInv, TypeOK, Copy
<1>2. b \in InSession(s)
  BY <1>1 DEF InSession
<1>3. encodeFlag[b] = 1
  BY <1>2 DEF IInv, SentFlagged
<1>4. content[b] = "encoded" \/ Encoders(b) # {}
  BY <1>3 DEF IInv, FlagTells
<1> QED BY <1>1, <1>4 DEF Encoders

LEMMA StutterStep == ASSUME IInv, UNCHANGED vars  PROVE IInv'
<1> USE DEF vars, pool, packet, session
<1>1. TypeOK' /\ PoolApart' /\ NoLeak'
  BY DEF IInv, TypeOK, PoolApart, NoLeak, InSession
<1>2. HeldUsed' /\ SentFlagged'
  BY DEF IInv, HeldUsed, SentFlagged, InSession
<1>3. RefsCounted'
  BY DEF IInv, RefsCounted, Holders, Pushers, Flights
<1>4. Alone'
  BY DEF IInv, Alone, Flights
<1>5. OneEncoder' /\ FlagTells'
  BY DEF IInv, OneEncoder, FlagTells, Encoders
<1> QED BY <1>1, <1>2, <1>3, <1>4, <1>5 DEF IInv

LEMMA NextStep == ASSUME IInv, [Next]_vars  PROVE IInv'
<1>1. ASSUME NEW t \in Threads, Step(t)  PROVE IInv'
  BY <1>1, AllocNewStep, ClearStep, FirstRefStep, EncodeTestStep, EncodeCASStep,
     EncodeDataStep, EncodeHeaderStep, SendRefStep, PushStep, FreeStep,
     PoolFreeStep, PoolReturnStep DEF Step
<1>2. ASSUME NEW t \in Threads, AllocOld(t) \/ AllocEmpty(t) \/ Finish(t)  PROVE IInv'
  BY <1>2, AllocOldStep, AllocEmptyStep, FinishStep
<1>3. ASSUME NEW t \in Threads, NEW u \in Threads, Share(t, u)  PROVE IInv'
  BY <1>3, ShareStep
<1>4. ASSUME NEW t \in Threads, NEW s \in Sessions, Send(t, s) \/ FreeSent(t, s) \/ Drain(t, s)
      PROVE  IInv'
  BY <1>4, SendStep, FreeSentStep, DrainStep
<1>5. ASSUME NEW s \in Sessions, Transmit(s) \/ Copy(s)  PROVE IInv'
  BY <1>5, TransmitStep, CopyStep
<1> QED BY <1>1, <1>2, <1>3, <1>4, <1>5, StutterStep DEF Next

(* The invariant that counts the references holds in every reachable       *)
(* state.                                                                  *)
THEOREM IInvariant == Spec => []IInv
<1>1. Init => IInv
  BY IInvInit
<1>2. IInv /\ [Next]_vars => IInv'
  BY NextStep
<1> QED BY <1>1, <1>2, PTL DEF Spec

(* Sbuf::Free gives a packet back to the pool only when nobody has it      *)
(* (Sbuf.cpp:337-338), whatever the number of threads, sessions and calls. *)
THEOREM HeldNotPooledTheorem == Spec => []HeldNotPooled
<1>1. ASSUME IInv  PROVE HeldNotPooled
  <2>1. ASSUME NEW t \in Threads, pc[t] \in Unreferenced
        PROVE  /\ \A u \in Threads \ {t} : buf[u] # buf[t]
               /\ \A s \in Sessions : buf[t] \notin InSession(s)
    <3>1. PICK b \in Bufs : b = buf[t]
      BY <1>1, <2>1 DEF IInv, TypeOK, HeldUsed, Unreferenced
    <3>2. /\ \A u \in Threads \ {t} : buf[u] # b
          /\ Total(sendQ, {b}) = 0 /\ Flights(b) = {}
      BY <1>1, <2>1, <3>1 DEF IInv, Alone
    <3>3. ASSUME NEW s \in Sessions  PROVE b \notin ToSet(sendQ[s])
      BY <1>1, <3>2, QueuedCounted DEF IInv
    <3> QED BY <3>1, <3>2, <3>3 DEF InSession, Flights
  <2> QED BY <1>1, <2>1 DEF HeldNotPooled, IInv, HeldUsed
<1> QED BY <1>1, IInvariant, PTL

(* No packet is lost, whatever the number of threads, sessions and calls.  *)
THEOREM NoLeakTheorem == Spec => []NoLeak
<1>1. IInv => NoLeak
  BY DEF IInv
<1> QED BY <1>1, IInvariant, PTL

(* What the kernel reads was encoded, once, or a thread is about to finish *)
(* encoding it (Sbuf.cpp:344-367).                                         *)
THEOREM SentEncodedTheorem == Spec => SentEncoded
<1>1. IInv /\ [Next]_vars =>
        [\A s \in Sessions : Copy(s) =>
           \/ content[flight[s]] = "encoded"
           \/ \E t \in Threads : buf[t] = flight[s] /\ pc[t] \in Encoding]_vars
  BY CopyStepKeeps
<1> QED BY <1>1, IInvariant, PTL DEF Spec, SentEncoded
=============================================================================
