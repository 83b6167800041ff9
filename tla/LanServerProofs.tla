--------------------------- MODULE LanServerProofs ---------------------------
(***************************************************************************)
(* iocpCount is exact but for the references acquirLock keeps, for any     *)
(* number of slots, threads and connections; and as long as no slot was    *)
(* torn down early, a slot is torn down by one thread and used by none.    *)
(***************************************************************************)
EXTENDS LanServer, SessionsProofs

(* The kinds of completion packets. *)
Kinds == {"recv", "send"}

LanSound == Sound(Refs, Threads, Slots, Kinds, {"Index"})

(* Every slot number that is kept somewhere is one. *)
SlotNumbers ==
  /\ \A s \in Slots : sess[s].Index.slot \in Slots
  /\ indexStack \in Seq(Slots)
  /\ \A c \in Conns : idOf[c].slot \in Slots

IInv == LanSound /\ RefCountExact /\ SlotNumbers /\ kept \in [Slots -> Nat]

LEMMA ThreadsFinite == IsFiniteSet(Threads) /\ 0 \in Slots /\ Main \in Threads /\ Acceptor \in Threads
<1>1. IsFiniteSet({Acceptor, Main})
  <2>1. IsFiniteSet({Acceptor}) /\ IsFiniteSet({Main})
    BY FS_Singleton
  <2>2. {Acceptor, Main} = {Acceptor} \cup {Main}
    OBVIOUS
  <2> QED BY <2>1, <2>2, FS_Union
<1>2. IsFiniteSet(Workers \cup Users)
  BY LanAssumption, FS_Union
<1>3. IsFiniteSet((Workers \cup Users) \cup {Acceptor, Main})
  BY <1>1, <1>2, FS_Union
<1> QED BY <1>3, LanAssumption DEF Threads, Slots

LEMMA IInvInit == Init => IInv
<1> SUFFICES ASSUME Init PROVE IInv
  OBVIOUS
<1>1. PICK n \in {0, 1} : /\ sess = [s \in Slots |-> [EmptySession EXCEPT !.iocpCount = n]]
                          /\ kept = [s \in Slots |-> n]
  BY DEF Init, FirstCount
<1>2. PICK e : /\ e = [EmptySession EXCEPT !.iocpCount = n] /\ e.iocpCount = n /\ e.Index = NoId
               /\ {"iocpCount", "Index"} \subseteq DOMAIN e
  <2>1. PICK z : z = EmptySession /\ z.Index = NoId /\ {"iocpCount", "Index"} \subseteq DOMAIN z
    <3>1. EmptySession.Index = NoId
      BY DEF EmptySession
    <3>2. "iocpCount" \in DOMAIN EmptySession /\ "Index" \in DOMAIN EmptySession
      BY DEF EmptySession
    <3> QED BY <3>1, <3>2
  <2>2. PICK e : e = [z EXCEPT !.iocpCount = n]
    OBVIOUS
  <2>3. e.iocpCount = n /\ e.Index = z.Index /\ DOMAIN e = DOMAIN z
    BY <2>1, <2>2
  <2> QED BY <2>1, <2>2, <2>3
<1>3. todo = [t \in Threads |-> <<>>] /\ pending = {} /\ port = <<>>
  BY DEF Init
<1>4. PICK Q, P, R : Q = todo /\ P = pending /\ R = port
  OBVIOUS
<1>5. Q = [t \in Threads |-> <<>>] /\ P = {} /\ R = <<>>
  BY <1>3, <1>4
<1>6. Running(Threads, Slots, Kinds, Q, P, R) /\ \A r : Tally(Refs, Q, P, R, r) = 0
  BY <1>5, ThreadsFinite, TallyInit
<1>7. /\ LanSound
      /\ \A s \in Slots : References(todo, pending, port, s) = 0
  BY <1>1, <1>2, <1>4, <1>6, ReferencesTally, Parts DEF LanSound, Sound
<1>8. SlotNumbers
  <2>1. indexStack \in Seq(Slots)
    BY LanAssumption DEF Init, Slots
  <2>2. NoId.slot \in Slots
    BY ThreadsFinite DEF NoId, Id
  <2> QED BY <1>1, <1>2, <2>1, <2>2 DEF Init, SlotNumbers
<1> QED BY <1>1, <1>2, <1>7, <1>8 DEF IInv, RefCountExact

(* What a balanced step needs besides. *)
LEMMA IInvStep ==
  ASSUME IInv, Balanced(Refs, Threads, Slots, Kinds, {}), SlotNumbers', UNCHANGED kept,
         \A s \in Slots : "Index" \in DOMAIN sess'[s]
  PROVE  IInv'
<1>1. Sound(Refs, Threads, Slots, Kinds, {})
  BY DEF IInv, LanSound, Sound
<1>2. LanSound'
  BY DEF LanSound, Balanced, Sound
<1>3. ASSUME NEW s \in Slots
      PROVE  sess'[s].iocpCount = References(todo', pending', port', s) + kept[s]
  <2>1. PICK n : n = kept[s] /\ n \in Int
    BY DEF IInv
  <2>2. sess[s][Refs.field] = Tally(Refs, todo, pending, port, s) + n
    BY <2>1, ReferencesTally, Parts DEF IInv, RefCountExact
  <2>3. sess'[s][Refs.field] = Tally(Refs, todo', pending', port', s) + n
    BY <1>1, <2>1, <2>2, BalancedExact, ThreadsFinite
  <2>4. PICK Q, P, R : Q = todo' /\ P = pending' /\ R = port'
    OBVIOUS
  <2> QED BY <2>1, <2>3, <2>4, ReferencesTally, Parts
<1> QED BY <1>2, <1>3 DEF IInv, RefCountExact

LEMMA IInvKept ==
  ASSUME IInv, Balanced(Refs, Threads, Slots, Kinds, {"Index"}), UNCHANGED <<indexStack, idOf, kept>>
  PROVE  IInv'
<1>1. \A s \in Slots : sess'[s].Index = sess[s].Index /\ "Index" \in DOMAIN sess'[s]
  BY DEF Balanced, SameIndex, Sound
<1>2. SlotNumbers'
  BY <1>1 DEF IInv, SlotNumbers
<1>3. Balanced(Refs, Threads, Slots, Kinds, {})
  BY DEF Balanced, Sound, SameIndex
<1> QED BY <1>1, <1>2, <1>3, IInvStep
-----------------------------------------------------------------------------
(* Steps of a thread that look at its session, or change fields of it. *)
LEMMA FieldSteps ==
  ASSUME LanSound, NEW t \in Threads,
         Drain(t) \/ InsertRef(t) \/ InsertFlag(t) \/ SendTest(t) \/ DequeueSent(t)
  PROVE  Balanced(Refs, Threads, Slots, Kinds, {"Index"})
<1> USE ThreadsFinite DEF LanSound
<1>1. CASE Drain(t)
  <2>1. /\ More(Refs, "drain", <<>>) = 0 /\ IsList(<<>>)
    BY MoreNone, MoreOne, RefWeights
  <2>2. PICK ops : Then(t, ops) /\ More(Refs, "drain", ops) = 0 /\ IsList(ops)
    BY <1>1, <2>1 DEF Drain, Update
  <2>3. At(t, "drain") /\ UNCHANGED <<pending, port>>
    BY <1>1 DEF Drain, Update, OnlyThread, OnlySession, kernel
  <2>4. Adds(Refs, Slots, {"Index"}, Slot(t), 0) /\ SameIndex(Slots, {"Index"})
    BY <1>1, <2>3, AtOp, Parts DEF Drain, Update, OnlyThread, Sound, Adds, SameIndex
  <2> QED BY <2>2, <2>3, <2>4, LocalStep
<1>2. CASE InsertRef(t)
  <2>1. /\ More(Refs, "insert_ref", <<>>) = 1 /\ IsList(<<>>)
    BY MoreNone, MoreOne, RefWeights
  <2>2. PICK ops : Then(t, ops) /\ More(Refs, "insert_ref", ops) = 1 /\ IsList(ops)
    BY <1>2, <2>1 DEF InsertRef, Update
  <2>3. At(t, "insert_ref") /\ UNCHANGED <<pending, port>>
    BY <1>2 DEF InsertRef, Update, OnlyThread, OnlySession, kernel
  <2>4. Adds(Refs, Slots, {"Index"}, Slot(t), 1) /\ SameIndex(Slots, {"Index"})
    BY <1>2, <2>3, AtOp, Parts DEF InsertRef, Update, OnlyThread, Sound, Adds, SameIndex
  <2> QED BY <2>2, <2>3, <2>4, LocalStep
<1>3. CASE InsertFlag(t)
  <2>1. /\ More(Refs, "insert_flag", <<>>) = 0 /\ IsList(<<>>)
    BY MoreNone, MoreOne, RefWeights
  <2>2. PICK ops : Then(t, ops) /\ More(Refs, "insert_flag", ops) = 0 /\ IsList(ops)
    BY <1>3, <2>1 DEF InsertFlag, Update
  <2>3. At(t, "insert_flag") /\ UNCHANGED <<pending, port>>
    BY <1>3 DEF InsertFlag, Update, OnlyThread, OnlySession, kernel
  <2>4. Adds(Refs, Slots, {"Index"}, Slot(t), 0) /\ SameIndex(Slots, {"Index"})
    BY <1>3, <2>3, AtOp, Parts DEF InsertFlag, Update, OnlyThread, Sound, Adds, SameIndex
  <2> QED BY <2>2, <2>3, <2>4, LocalStep
<1>4. CASE SendTest(t)
  <2>1. /\ More(Refs, "send_test", <<"post_test">>) = 0 /\ IsList(<<"post_test">>)
        /\ More(Refs, "send_test", <<>>) = 0 /\ IsList(<<>>)
    BY MoreNone, MoreOne, RefWeights
  <2>2. PICK ops : Then(t, ops) /\ More(Refs, "send_test", ops) = 0 /\ IsList(ops)
    BY <1>4, <2>1 DEF SendTest, Test
  <2>3. At(t, "send_test") /\ UNCHANGED <<pending, port>>
    BY <1>4 DEF SendTest, Test, OnlyThread, OnlySession, kernel
  <2>4. Adds(Refs, Slots, {"Index"}, Slot(t), 0) /\ SameIndex(Slots, {"Index"})
    BY <1>4, <2>3, AtOp, Parts DEF SendTest, Test, OnlyThread, Sound, Adds, SameIndex
  <2> QED BY <2>2, <2>3, <2>4, LocalStep
<1>5. CASE DequeueSent(t)
  <2>1. /\ More(Refs, "free_sent", <<>>) = 0 /\ IsList(<<>>)
    BY MoreNone, MoreOne, RefWeights
  <2>2. PICK ops : Then(t, ops) /\ More(Refs, "free_sent", ops) = 0 /\ IsList(ops)
    BY <1>5, <2>1 DEF DequeueSent, Update
  <2>3. At(t, "free_sent") /\ UNCHANGED <<pending, port>>
    BY <1>5 DEF DequeueSent, Update, OnlyThread, OnlySession, kernel
  <2>4. Adds(Refs, Slots, {"Index"}, Slot(t), 0) /\ SameIndex(Slots, {"Index"})
    BY <1>5, <2>3, AtOp, Parts DEF DequeueSent, Update, OnlyThread, Sound, Adds, SameIndex
  <2> QED BY <2>2, <2>3, <2>4, LocalStep
<1> QED BY <1>1, <1>2, <1>3, <1>4, <1>5

(* Every step of a thread that changes nothing but its session and the kernel, *)
(* but for Reclaim.                                                            *)
LEMMA SessionSteps ==
  ASSUME LanSound, NEW t \in Threads, SessionStep(t), ~Reclaim(t)
  PROVE  Balanced(Refs, Threads, Slots, Kinds, {"Index"})
<1> USE ThreadsFinite DEF LanSound
<1>1. CASE \/ Release(t) \/ Flag(t) \/ Shutdown(t)
           \/ PostTest(t) \/ PostCAS(t) \/ PeekFill(t) \/ PostUnset(t)
           \/ SendFailed(t) \/ FlagDec(t) \/ CallbackEnds(t)
  BY <1>1, LocalBalanced
<1>2. CASE Drain(t) \/ InsertRef(t) \/ InsertFlag(t) \/ SendTest(t) \/ DequeueSent(t)
  BY <1>2, FieldSteps
<1>3. CASE PostAgain(t)
  BY <1>3, StillBalanced DEF PostAgain, Crash, kernel
<1>4. CASE RecvPost(t)
  BY <1>4, RecvPostBalanced
<1>5. CASE WSASend(t)
  BY <1>5, WSASendBalanced
<1> QED BY <1>1, <1>2, <1>3, <1>4, <1>5 DEF SessionStep, SendPost
-----------------------------------------------------------------------------
(* Acquiring a session *)

LEMMA AcquireIncStep ==
  ASSUME IInv, NEW t \in Threads, AcquireInc(t)  PROVE IInv'
<1> USE ThreadsFinite DEF IInv, LanSound
<1>1. /\ More(Refs, "acquire", <<"release">>) = 1 /\ IsList(<<"release">>)
      /\ More(Refs, "acquire", <<"check_id">>) = 1 /\ IsList(<<"check_id">>)
  BY MoreOne, RefWeights
<1>2. PICK ops : Then(t, ops) /\ More(Refs, "acquire", ops) = 1 /\ IsList(ops)
  BY <1>1 DEF AcquireInc
<1>3. At(t, "acquire") /\ UNCHANGED <<pending, port, indexStack, idOf, kept>>
  BY DEF AcquireInc, OnlySession, OnlyArg, kernel
<1>4. Adds(Refs, Slots, {"Index"}, Slot(t), 1) /\ SameIndex(Slots, {"Index"})
  BY <1>3, AtOp, Parts DEF AcquireInc, Sound, Adds, SameIndex
<1>5. Balanced(Refs, Threads, Slots, Kinds, {"Index"})
  BY <1>2, <1>3, <1>4, LocalStep
<1> QED BY <1>3, <1>5, IInvKept

LEMMA AcquireCheckIdStep ==
  ASSUME IInv, NEW t \in Threads, AcquireCheckId(t)  PROVE IInv'
<1> USE ThreadsFinite DEF IInv, LanSound
<1>1. /\ More(Refs, "check_id", <<"release">>) = 0 /\ IsList(<<"release">>)
      /\ More(Refs, "check_id", <<"check_flag">>) = 0 /\ IsList(<<"check_flag">>)
  BY MoreOne, RefWeights
<1>2. PICK ops : Then(t, ops) /\ More(Refs, "check_id", ops) = 0 /\ IsList(ops)
  BY <1>1 DEF AcquireCheckId
<1>3. At(t, "check_id") /\ UNCHANGED <<sess, pending, port, indexStack, idOf, kept>>
  BY DEF AcquireCheckId, OnlyThread, OnlySession, OnlyArg, kernel
<1>4. Adds(Refs, Slots, {"Index"}, Slot(t), 0) /\ SameIndex(Slots, {"Index"})
  BY <1>3, Parts DEF Sound, Adds, SameIndex
<1>5. Balanced(Refs, Threads, Slots, Kinds, {"Index"})
  BY <1>2, <1>3, <1>4, LocalStep
<1> QED BY <1>3, <1>5, IInvKept

(* A reference that is kept: the threads have one less, and kept one more. *)
LEMMA KeepStep ==
  ASSUME IInv, NEW t \in Threads, At(t, "check_flag"), Then(t, <<"disc_cas">>),
         UNCHANGED <<sess, pending, port, indexStack, idOf>>,
         kept' = [kept EXCEPT ![Slot(t)] = @ + 1]
  PROVE  IInv'
<1> USE ThreadsFinite DEF IInv, LanSound
<1>1. PICK a : a = Slot(t) /\ a \in Slots
  BY AtOp
<1>2. IsList(<<"disc_cas">>) /\ More(Refs, "check_flag", <<"disc_cas">>) = -1
  BY MoreOne, RefWeights
<1>3. PICK Q, Q2, P, R, n :
        /\ Q = todo /\ Q2 = todo' /\ P = pending /\ R = port
        /\ n = More(Refs, "check_flag", <<"disc_cas">>) /\ n \in Int
        /\ Running(Threads, Slots, Kinds, Q, P, R) /\ Running(Threads, Slots, Kinds, Q2, P, R)
        /\ Shift(Refs, Q, P, R, Q2, P, R, Slot(t), n)
  BY <1>2, ThenTally
<1>4. ASSUME NEW s \in Slots
      PROVE  sess'[s].iocpCount = References(todo', pending', port', s) + kept'[s]
  <2>1. PICK x, y : x = References(Q, P, R, s) /\ y = References(Q2, P, R, s)
    OBVIOUS
  <2>2. x \in Int
    BY <1>3, <2>1, ReferencesTally, TallyInt
  <2>3. y = IF s = a THEN x + n ELSE x
    BY <1>1, <1>3, <2>1, ReferencesTally DEF Shift
  <2>4. n = -1
    BY <1>2, <1>3
  <2>5. sess'[s].iocpCount = x + kept[s]
    BY <1>3, <2>1 DEF RefCountExact
  <2>6. kept[s] \in Int /\ kept'[s] = IF s = a THEN kept[s] + 1 ELSE kept[s]
    BY <1>1
  <2>7. sess'[s].iocpCount = y + kept'[s]
    BY <2>2, <2>3, <2>4, <2>5, <2>6
  <2> QED BY <1>3, <2>1, <2>7
<1>5. LanSound'
  BY <1>3 DEF Sound
<1>6. SlotNumbers' /\ kept' \in [Slots -> Nat]
  BY <1>1 DEF SlotNumbers
<1> QED BY <1>4, <1>5, <1>6 DEF RefCountExact

LEMMA AcquireCheckFlagStep ==
  ASSUME IInv, NEW t \in Threads, AcquireCheckFlag(t)  PROVE IInv'
<1> USE ThreadsFinite DEF IInv, LanSound
<1>1. At(t, "check_flag") /\ UNCHANGED <<sess, pending, port, indexStack, idOf>>
  BY DEF AcquireCheckFlag, OnlyThread, OnlySession, kernel
<1>2. CASE Then(t, <<"disc_cas">>) /\ kept' = [kept EXCEPT ![Slot(t)] = @ + 1]
  BY <1>1, <1>2, KeepStep
<1>3. CASE Then(t, Body(arg[t].call)) /\ UNCHANGED kept
  <2>1. PICK ops : ops = Body(arg[t].call)
    OBVIOUS
  <2>2. IsList(ops) /\ More(Refs, "check_flag", ops) = 0
    BY <2>1, Net3, RefWeights DEF Body, More
  <2>3. Adds(Refs, Slots, {"Index"}, Slot(t), 0) /\ SameIndex(Slots, {"Index"})
    BY <1>1, Parts DEF Sound, Adds, SameIndex
  <2>4. Balanced(Refs, Threads, Slots, Kinds, {"Index"})
    BY <1>1, <1>3, <2>1, <2>2, <2>3, LocalStep
  <2> QED BY <1>1, <1>3, <2>4, IInvKept
<1> QED BY <1>2, <1>3 DEF AcquireCheckFlag

LEMMA PushStep ==
  ASSUME IInv, NEW t \in Threads, Push(t)  PROVE IInv'
<1> USE ThreadsFinite DEF IInv, LanSound
<1>1. More(Refs, "push", <<>>) = 0 /\ IsList(<<>>)
  BY MoreNone, RefWeights
<1>2. At(t, "push") /\ Then(t, <<>>) /\ UNCHANGED <<pending, port, indexStack, idOf, kept>>
  BY DEF Push, OnlySession, kernel
<1>3. Adds(Refs, Slots, {"Index"}, Slot(t), 0) /\ SameIndex(Slots, {"Index"})
  BY <1>2, AtOp, Parts DEF Push, Sound, Adds, SameIndex
<1>4. Balanced(Refs, Threads, Slots, Kinds, {"Index"})
  BY <1>1, <1>2, <1>3, LocalStep
<1> QED BY <1>2, <1>4, IInvKept
-----------------------------------------------------------------------------
(* Disconnecting *)

LEMMA DiscCASStep ==
  ASSUME IInv, NEW t \in Threads, DiscCAS(t)  PROVE IInv'
<1> USE ThreadsFinite DEF IInv, LanSound
<1>1. IsList(Teardown) /\ Net(Refs, Teardown) = 0
  BY Net3, RefWeights DEF Teardown
<1>2. TakeFlag(t, Teardown) /\ UNCHANGED <<indexStack, idOf, kept>>
  BY DEF DiscCAS
<1>3. Balanced(Refs, Threads, Slots, Kinds, {"Index"})
  BY <1>1, <1>2, TakeFlagBalanced
<1> QED BY <1>2, <1>3, IInvKept

LEMMA LeaveStep ==
  ASSUME IInv, NEW t \in Threads, Leave(t)  PROVE IInv'
<1> USE ThreadsFinite DEF IInv, LanSound
<1>1. More(Refs, "leave", <<>>) = 0 /\ IsList(<<>>)
  BY MoreNone, RefWeights
<1>2. /\ At(t, "leave") /\ Then(t, <<>>)
      /\ UNCHANGED <<sess, pending, port, indexStack, idOf, kept>>
  BY DEF Leave
<1>3. Adds(Refs, Slots, {"Index"}, Slot(t), 0) /\ SameIndex(Slots, {"Index"})
  BY <1>2, Parts DEF Sound, Adds, SameIndex
<1>4. Balanced(Refs, Threads, Slots, Kinds, {"Index"})
  BY <1>1, <1>2, <1>3, LocalStep
<1> QED BY <1>2, <1>4, IInvKept

LEMMA ReclaimStep ==
  ASSUME IInv, NEW t \in Threads, Reclaim(t), UNCHANGED lan  PROVE IInv'
<1> USE ThreadsFinite DEF IInv, LanSound
<1>1. PICK s : s = sess[Slot(t)].Index.slot
  OBVIOUS
<1>2. At(t, "reclaim") /\ Weight(Refs, "reclaim") = 0 /\ UNCHANGED <<pending, port, indexStack, idOf, kept>>
  BY RefWeights DEF Reclaim, lan
<1>3. Slot(t) \in Slots
  BY <1>2, AtOp
<1>4. s \in Slots
  BY <1>1, <1>3 DEF SlotNumbers
<1>5. todo' = [todo EXCEPT ![t] = Frames(<<"push_slot">>, s) \o Tail(@)]
  BY <1>1, OneFrame DEF Reclaim
<1>6. IsList(<<"push_slot">>) /\ Net(Refs, <<"push_slot">>) = 0
  BY NetOne, RefWeights
<1>7. Sound(Refs, Threads, Slots, Kinds, {}) /\ SameIndex(Slots, {})
  BY DEF Sound, SameIndex
<1>8. Adds(Refs, Slots, {}, Slot(t), 0) /\ \A r \in Slots : "Index" \in DOMAIN sess'[r]
  BY <1>3, Parts DEF Reclaim, Sound, Adds
<1>9. \A r \in Slots : sess'[r].Index.slot \in Slots
  BY <1>3 DEF Reclaim, Sound, SlotNumbers, NoId, Id
<1>10. SlotNumbers'
  BY <1>2, <1>9 DEF SlotNumbers
<1>11. Balanced(Refs, Threads, Slots, Kinds, {})
  BY <1>2, <1>4, <1>5, <1>6, <1>7, <1>8, CallStep
<1> QED BY <1>2, <1>8, <1>10, <1>11, IInvStep

LEMMA PushSlotStep ==
  ASSUME IInv, NEW t \in Threads, PushSlot(t)  PROVE IInv'
<1> USE ThreadsFinite DEF IInv, LanSound
<1>1. More(Refs, "push_slot", <<>>) = 0 /\ IsList(<<>>)
  BY MoreNone, RefWeights
<1>2. At(t, "push_slot") /\ Then(t, <<>>) /\ UNCHANGED <<sess, pending, port, idOf, kept>>
  BY DEF PushSlot, OnlyThread, OnlySession, kernel
<1>3. Slot(t) \in Slots
  BY <1>2, AtOp
<1>4. indexStack' \in Seq(Slots)
  BY <1>3 DEF PushSlot, SlotNumbers
<1>5. SlotNumbers'
  BY <1>2, <1>4 DEF SlotNumbers
<1>6. Sound(Refs, Threads, Slots, Kinds, {}) /\ Adds(Refs, Slots, {}, Slot(t), 0) /\ SameIndex(Slots, {})
  BY <1>2, Parts DEF Sound, Adds, SameIndex
<1>7. Balanced(Refs, Threads, Slots, Kinds, {})
  BY <1>1, <1>2, <1>6, LocalStep
<1> QED BY <1>2, <1>5, <1>7, IInvStep DEF Sound
-----------------------------------------------------------------------------
(* New sessions *)

LEMMA AcceptStep ==
  ASSUME IInv, NEW c \in Conns, Accept(c)  PROVE IInv'
<1> USE ThreadsFinite DEF IInv, LanSound
<1>1. todo[Acceptor] = <<>> /\ UNCHANGED <<sess, pending, port, indexStack, idOf, kept>>
  BY DEF Accept, Idle
<1>2. CASE UNCHANGED todo
  BY <1>1, <1>2, StillBalanced, IInvKept
<1>3. CASE todo' = [todo EXCEPT ![Acceptor] = <<Frame("pop_slot", 0)>>]
  <2>1. PICK new : new = Frames(<<"pop_slot">>, 0)
    OBVIOUS
  <2>2. IsList(<<"pop_slot">>) /\ Net(Refs, <<"pop_slot">>) = 0
    BY NetOne, RefWeights
  <2>3. IsFrames(new, Slots) /\ \A r : Held(Refs, new, r) = IF r = 0 THEN Net(Refs, <<"pop_slot">>) ELSE 0
    BY <2>1, <2>2, HeldFrames
  <2>4. todo' = [todo EXCEPT ![Acceptor] = new]
    BY <1>3, <2>1, OneFrame
  <2>5. Adds(Refs, Slots, {"Index"}, 0, 0) /\ SameIndex(Slots, {"Index"})
    BY <1>1, Parts DEF Sound, Adds, SameIndex
  <2>6. Balanced(Refs, Threads, Slots, Kinds, {"Index"})
    BY <1>1, <2>2, <2>3, <2>4, <2>5, BeginStep
  <2> QED BY <1>1, <2>6, IInvKept
<1> QED BY <1>2, <1>3 DEF Accept

LEMMA PopSlotStep ==
  ASSUME IInv, NEW t \in Threads, PopSlot(t)  PROVE IInv'
<1> USE ThreadsFinite DEF IInv, LanSound
<1>1. At(t, "pop_slot") /\ UNCHANGED <<idOf, kept>>
  BY DEF PopSlot
<1>2. CASE Crash("no_slot") /\ UNCHANGED indexStack
  BY <1>1, <1>2, StillBalanced, IInvKept DEF Crash, kernel
<1>3. CASE /\ indexStack # <<>> /\ indexStack' = Tail(indexStack)
           /\ todo' = [todo EXCEPT ![t] = Frames(NewSession, Head(indexStack)) \o Tail(@)]
           /\ OnlyThread
  <2>1. PICK s : s = Head(indexStack)
    OBVIOUS
  <2>2. s \in Slots /\ indexStack' \in Seq(Slots)
    BY <1>3, <2>1 DEF SlotNumbers
  <2>3. IsList(NewSession) /\ Net(Refs, NewSession) = 0 /\ Weight(Refs, "pop_slot") = 0
    BY Net5, RefWeights DEF NewSession
  <2>4. UNCHANGED <<sess, pending, port>>
    BY <1>3 DEF OnlyThread, OnlySession, kernel
  <2>5. Sound(Refs, Threads, Slots, Kinds, {}) /\ Adds(Refs, Slots, {}, s, 0) /\ SameIndex(Slots, {})
    BY <2>4, Parts DEF Sound, Adds, SameIndex
  <2>6. todo' = [todo EXCEPT ![t] = Frames(NewSession, s) \o Tail(@)]
    BY <1>3, <2>1
  <2>7. Balanced(Refs, Threads, Slots, Kinds, {})
    BY <1>1, <2>2, <2>3, <2>4, <2>5, <2>6, CallStep
  <2>8. SlotNumbers'
    BY <1>1, <2>2, <2>4 DEF SlotNumbers
  <2> QED BY <1>1, <2>4, <2>7, <2>8, IInvStep DEF Sound
<1> QED BY <1>2, <1>3 DEF PopSlot

LEMMA InsertStep ==
  ASSUME IInv, NEW t \in Threads, Insert(t)  PROVE IInv'
<1> USE ThreadsFinite DEF IInv, LanSound
<1>1. More(Refs, "insert", <<>>) = 0 /\ IsList(<<>>)
  BY MoreNone, RefWeights
<1>2. At(t, "insert") /\ Then(t, <<>>) /\ UNCHANGED <<pending, port, indexStack, idOf, kept>>
  BY DEF Insert, OnlySession, kernel
<1>3. Slot(t) \in Slots
  BY <1>2, AtOp
<1>4. Sound(Refs, Threads, Slots, Kinds, {}) /\ SameIndex(Slots, {})
  BY DEF Sound, SameIndex
<1>5. Adds(Refs, Slots, {}, Slot(t), 0) /\ \A s \in Slots : "Index" \in DOMAIN sess'[s]
  BY <1>3, Parts DEF Insert, Sound, Adds
<1>6. \A s \in Slots : sess'[s].Index.slot \in Slots
  BY <1>3 DEF Insert, Sound, SlotNumbers, Id
<1>7. SlotNumbers'
  BY <1>2, <1>6 DEF SlotNumbers
<1>8. Balanced(Refs, Threads, Slots, Kinds, {})
  BY <1>1, <1>2, <1>4, <1>5, LocalStep
<1> QED BY <1>2, <1>5, <1>7, <1>8, IInvStep

LEMMA JoinStep ==
  ASSUME IInv, NEW t \in Threads, Join(t)  PROVE IInv'
<1> USE ThreadsFinite DEF IInv, LanSound
<1>1. More(Refs, "join", <<>>) = 0 /\ IsList(<<>>)
  BY MoreNone, RefWeights
<1>2. At(t, "join") /\ Then(t, <<>>) /\ UNCHANGED <<sess, pending, port, indexStack, kept>>
  BY DEF Join, OnlyThread, OnlySession, kernel
<1>3. Slot(t) \in Slots
  BY <1>2, AtOp
<1>4. Sound(Refs, Threads, Slots, Kinds, {}) /\ Adds(Refs, Slots, {}, Slot(t), 0) /\ SameIndex(Slots, {})
  BY <1>2, Parts DEF Sound, Adds, SameIndex
<1>5. \A c \in Conns : idOf'[c].slot \in Slots
  BY <1>3 DEF Join, SlotNumbers
<1>6. SlotNumbers'
  BY <1>2, <1>5 DEF SlotNumbers
<1>7. Balanced(Refs, Threads, Slots, Kinds, {})
  BY <1>1, <1>2, <1>4, LocalStep
<1> QED BY <1>2, <1>6, <1>7, IInvStep DEF Sound
-----------------------------------------------------------------------------
(* Workers, callbacks and the application *)

(* What a worker does for a packet gives the packet's reference back. *)
LEMMA DequeueStep ==
  ASSUME IInv, NEW w \in Workers, Dequeue(w)  PROVE IInv'
<1> USE ThreadsFinite DEF IInv, LanSound
<1>1. PICK e, ops : e = Head(port) /\ ops = Handler(e)
  OBVIOUS
<1>2. TakePacket(w, ops) /\ w \in Threads /\ UNCHANGED <<indexStack, idOf, kept>>
  BY <1>1 DEF Dequeue, Threads, lan
<1>3. port \in Seq(Packets(Slots, Kinds)) /\ port # <<>>
  BY <1>2 DEF Sound, Running, TakePacket
<1>4. e.op \in Kinds
  <2>1. e \in Packets(Slots, Kinds)
    BY <1>1, <1>3
  <2> QED BY <2>1 DEF Packets
<1>5. /\ IsList(OnData) /\ Net(Refs, OnData) = 1
      /\ IsList(OnBroken) /\ Net(Refs, OnBroken) = 1
      /\ IsList(OnSent) /\ Net(Refs, OnSent) = 1
  BY NetOne, Net3, Net4, RefWeights DEF OnData, OnBroken, OnSent
<1>6. IsList(<<"flag_dec">> \o OnBroken) /\ Net(Refs, <<"flag_dec">> \o OnBroken) = 1
  <2>1. IsList(<<"flag_dec">>) /\ Net(Refs, <<"flag_dec">>) = 0
    BY NetOne, RefWeights
  <2> QED BY <1>5, <2>1, NetConcat
<1>7. IsList(ops) /\ Net(Refs, ops) = Part(Refs, e.op)
  BY <1>1, <1>4, <1>5, <1>6, Parts DEF Handler, Kinds
<1>8. Balanced(Refs, Threads, Slots, Kinds, {"Index"})
  BY <1>1, <1>2, <1>7, TakePacketBalanced
<1> QED BY <1>2, <1>8, IInvKept

LEMMA CallbackThrowsStep ==
  ASSUME IInv, NEW w \in Workers, CallbackThrows(w)  PROVE IInv'
<1> USE ThreadsFinite DEF IInv, LanSound
<1>1. IsList(AfterThrow) /\ More(Refs, "callback", AfterThrow) = 0
  BY MoreOne, RefWeights DEF AfterThrow
<1>2. /\ w \in Threads /\ At(w, "callback") /\ Then(w, AfterThrow)
      /\ UNCHANGED <<sess, pending, port, indexStack, idOf, kept>>
  BY DEF CallbackThrows, OnlyThread, OnlySession, kernel, lan, Threads
<1>3. Adds(Refs, Slots, {"Index"}, Slot(w), 0) /\ SameIndex(Slots, {"Index"})
  BY <1>2, Parts DEF Sound, Adds, SameIndex
<1>4. Balanced(Refs, Threads, Slots, Kinds, {"Index"})
  BY <1>1, <1>2, <1>3, LocalStep
<1> QED BY <1>2, <1>4, IInvKept

LEMMA CallBackStep ==
  ASSUME IInv, NEW t \in Threads, CallBack(t)  PROVE IInv'
<1> USE ThreadsFinite DEF IInv, LanSound
<1>1. At(t, "callback") /\ UNCHANGED <<sess, pending, port, indexStack, idOf, kept>>
  BY DEF CallBack, Request, OnlyThread, OnlySession, kernel
<1>2. PICK s : s = sess[Slot(t)].Index.slot
  OBVIOUS
<1>3. s \in Slots
  <2>1. Slot(t) \in Slots
    BY <1>1, AtOp
  <2> QED BY <1>2, <2>1 DEF SlotNumbers
<1>4. todo' = [todo EXCEPT ![t] = Frames(<<"acquire">>, s) \o @]
  BY <1>2, OneFrame DEF CallBack
<1>5. IsList(<<"acquire">>) /\ Net(Refs, <<"acquire">>) = 0
  BY NetOne, RefWeights
<1>6. Adds(Refs, Slots, {"Index"}, s, 0) /\ SameIndex(Slots, {"Index"})
  BY <1>1, Parts DEF Sound, Adds, SameIndex
<1>7. Balanced(Refs, Threads, Slots, Kinds, {"Index"})
  BY <1>1, <1>3, <1>4, <1>5, <1>6, CallbackStep
<1> QED BY <1>1, <1>7, IInvKept

LEMMA CallStepOfUser ==
  ASSUME IInv, NEW u \in Users, Call(u)  PROVE IInv'
<1> USE ThreadsFinite DEF IInv, LanSound
<1>1. /\ u \in Threads /\ todo[u] = <<>>
      /\ UNCHANGED <<sess, pending, port, indexStack, idOf, kept>>
  BY DEF Call, Idle, Threads, Request, OnlyThread, OnlySession, kernel
<1>2. PICK c \in Conns : todo' = [todo EXCEPT ![u] = <<Frame("acquire", idOf[c].slot)>>]
  BY DEF Call
<1>3. PICK s : s = idOf[c].slot
  OBVIOUS
<1>4. PICK new : new = Frames(<<"acquire">>, s)
  OBVIOUS
<1>5. s \in Slots
  BY <1>3 DEF SlotNumbers
<1>6. IsList(<<"acquire">>) /\ Net(Refs, <<"acquire">>) = 0
  BY NetOne, RefWeights
<1>7. IsFrames(new, Slots) /\ \A r : Held(Refs, new, r) = IF r = s THEN Net(Refs, <<"acquire">>) ELSE 0
  BY <1>4, <1>5, <1>6, HeldFrames
<1>8. todo' = [todo EXCEPT ![u] = new]
  BY <1>2, <1>3, <1>4, OneFrame
<1>9. Adds(Refs, Slots, {"Index"}, s, 0) /\ SameIndex(Slots, {"Index"})
  BY <1>1, Parts DEF Sound, Adds, SameIndex
<1>10. Balanced(Refs, Threads, Slots, Kinds, {"Index"})
  BY <1>1, <1>6, <1>7, <1>8, <1>9, BeginStep
<1> QED BY <1>1, <1>10, IInvKept

LEMMA StopBeginStep ==
  ASSUME IInv, StopBegin  PROVE IInv'
<1> USE ThreadsFinite DEF IInv, LanSound
<1>1. todo[Main] = <<>> /\ UNCHANGED <<sess, pending, port, indexStack, idOf, kept>>
  BY DEF StopBegin, Idle, OnlyThread, OnlySession, kernel
<1>2. PICK q, ops, f, new : /\ q = StopSlots(maxCounter) /\ ops = <<"wait">> /\ f = Frames(ops, 0)
                            /\ new = q \o f
  OBVIOUS
<1>3. IsList(ops) /\ Net(Refs, ops) = 0
  BY <1>2, NetOne, RefWeights
<1>4. ASSUME NEW r PROVE IsFrames(q, Slots) /\ Held(Refs, q, r) = 0
  <2>1. \A op \in {"shutdown", "disc_cas"} : op \notin Refs.holding /\ op \notin Refs.owing
    BY DEF Refs, Holding, Owing
  <2> QED BY <1>2, <2>1, StopSlotsHeld, LanAssumption DEF Slots
<1>5. IsFrames(q, Slots)
  BY <1>4
<1>6. PICK g : g = Frames(ops, 0) /\ f = g
  BY <1>2
<1>7. ASSUME NEW r PROVE IsFrames(new, Slots) /\ Held(Refs, new, r) = 0
  <2>1. IsFrames(g, Slots) /\ Held(Refs, g, r) = IF r = 0 THEN Net(Refs, ops) ELSE 0
    BY <1>3, <1>6, HeldFrames
  <2>2. Held(Refs, f, r) = 0 /\ IsFrames(f, Slots)
    BY <1>3, <1>6, <2>1
  <2>3. IsFrames(q \o f, Slots) /\ Held(Refs, q \o f, r) = Held(Refs, q, r) + Held(Refs, f, r)
    BY <1>5, <2>2, HeldConcat, FramesConcat
  <2> QED BY <1>2, <1>4, <2>2, <2>3
<1>8. todo' = [todo EXCEPT ![Main] = new]
  BY <1>2 DEF StopBegin
<1>9. Adds(Refs, Slots, {"Index"}, 0, 0) /\ SameIndex(Slots, {"Index"})
  BY <1>1, Parts DEF Sound, Adds, SameIndex
<1>10. Balanced(Refs, Threads, Slots, Kinds, {"Index"})
  BY <1>1, <1>7, <1>8, <1>9, BeginStep
<1> QED BY <1>1, <1>10, IInvKept

LEMMA KernelSteps ==
  ASSUME IInv, NEW p \in pending, RecvData(p) \/ KernelStep(p)  PROVE IInv'
<1> USE ThreadsFinite DEF IInv, LanSound
<1>1. {"recv", "send"} \subseteq Kinds
  BY DEF Kinds
<1>2. PICK k \in Nat : Complete(p, k)
  BY DEF RecvData, KernelStep, SendDone, ZeroBytes
<1>3. UNCHANGED <<sess, indexStack, idOf, kept>>
  BY DEF RecvData, KernelStep, SendDone, ZeroBytes, lan
<1>4. Adds(Refs, Slots, {"Index"}, p.s, 0) /\ SameIndex(Slots, {"Index"})
  BY <1>3, Parts DEF Sound, Adds, SameIndex
<1>5. Balanced(Refs, Threads, Slots, Kinds, {"Index"})
  BY <1>1, <1>2, <1>4, CompleteBalanced
<1> QED BY <1>3, <1>5, IInvKept
-----------------------------------------------------------------------------
LEMMA IInvNext == IInv /\ [Next]_vars => IInv'
<1> SUFFICES ASSUME IInv, [Next]_vars PROVE IInv'
  OBVIOUS
<1>1. ASSUME NEW t \in Threads, Step(t)  PROVE IInv'
  <2>1. CASE SessionStep(t) /\ UNCHANGED lan
    <3>1. CASE Reclaim(t)
      BY <2>1, <3>1, ReclaimStep
    <3>2. CASE ~Reclaim(t)
      <4>1. Balanced(Refs, Threads, Slots, Kinds, {"Index"})
        BY <2>1, <3>2, SessionSteps DEF IInv
      <4> QED BY <2>1, <4>1, IInvKept DEF lan
    <3> QED BY <3>1, <3>2
  <2>2. CASE AcquireInc(t) \/ AcquireCheckId(t) \/ AcquireCheckFlag(t) \/ Push(t)
    BY <2>2, AcquireIncStep, AcquireCheckIdStep, AcquireCheckFlagStep, PushStep
  <2>3. CASE DiscCAS(t) \/ Leave(t) \/ PushSlot(t) \/ PopSlot(t) \/ Insert(t) \/ Join(t)
    BY <2>3, DiscCASStep, LeaveStep, PushSlotStep, PopSlotStep, InsertStep, JoinStep
  <2> QED BY <1>1, <2>1, <2>2, <2>3 DEF Step
<1>2. ASSUME NEW c \in Conns, PeerLeaves(c), UNCHANGED lan  PROVE IInv'
  BY <1>2, StillBalanced, IInvKept DEF PeerLeaves, lan, IInv, LanSound
<1>3. CASE TpsCheck
  BY <1>3, StillBalanced, IInvKept DEF TpsCheck, Crash, kernel, lan, IInv, LanSound
<1>4. CASE UNCHANGED vars
  BY <1>4, StillBalanced, IInvKept DEF vars, sessionVars, kernel, lan, IInv, LanSound
<1> QED BY <1>1, <1>2, <1>3, <1>4, CallBackStep, DequeueStep, CallbackThrowsStep, CallStepOfUser,
           AcceptStep, StopBeginStep, KernelSteps DEF Next

(* For every number of slots and threads iocpCount is the number of         *)
(* references to the session and of those acquirLock kept                   *)
(* (LanServer.cpp:551-569): no other path loses one or gives one back twice. *)
THEOREM RefCountTheorem == Spec => []RefCountExact
<1>1. IInv => RefCountExact
  BY DEF IInv
<1> QED BY <1>1, IInvInit, IInvNext, PTL DEF Spec
-----------------------------------------------------------------------------
(* LISTS OF FRAMES *)

(* No frame of q has an operation of A, and behind each that has one, or at *)
(* it, there is one of B for the same slot.                                 *)
Without(q, A) == \A i \in 1 .. Len(q) : q[i].op \notin A
Guarded(q, A, B) ==
  \A i \in 1 .. Len(q) : q[i].op \in A => \E j \in i .. Len(q) : q[j].op \in B /\ q[j].s = q[i].s

LEMMA LongerAlphabet ==
  ASSUME NEW U, NEW V, U \subseteq V, NEW q \in Seq(U)
  PROVE  q \in Seq(V)
OBVIOUS

LEMMA TailWithout ==
  ASSUME NEW S, NEW q \in Seq(S), q # <<>>, NEW A, Without(q, A)
  PROVE  Without(Tail(q), A) /\ Head(q).op \notin A
<1>1. Len(Tail(q)) = Len(q) - 1 /\ \A i \in 1 .. Len(Tail(q)) : Tail(q)[i] = q[i + 1]
  OBVIOUS
<1>2. Head(q) = q[1] /\ 1 \in 1 .. Len(q)
  <2>1. Len(q) # 0 /\ Len(q) \in Nat
    BY EmptySeq
  <2> QED BY <2>1
<1>3. \A i \in 1 .. Len(Tail(q)) : i + 1 \in 1 .. Len(q)
  BY <1>1
<1> QED BY <1>1, <1>2, <1>3 DEF Without

LEMMA TailGuarded ==
  ASSUME NEW S, NEW q \in Seq(S), q # <<>>, NEW A, NEW B, Guarded(q, A, B)
  PROVE  Guarded(Tail(q), A, B)
<1>1. PICK r, n : r = Tail(q) /\ n = Len(r)
  OBVIOUS
<1>2. Len(q) = n + 1 /\ n \in Nat /\ \A i \in 1 .. n : r[i] = q[i + 1]
  <2>1. Len(q) # 0 /\ Len(q) \in Nat
    BY EmptySeq
  <2> QED BY <1>1, <2>1
<1>3. ASSUME NEW i \in 1 .. n, r[i].op \in A
      PROVE  \E j \in i .. n : r[j].op \in B /\ r[j].s = r[i].s
  <2>1. i + 1 \in 1 .. Len(q) /\ q[i + 1] = r[i]
    BY <1>2
  <2>2. PICK j \in i + 1 .. Len(q) : q[j].op \in B /\ q[j].s = q[i + 1].s
    BY <1>3, <2>1 DEF Guarded
  <2>3. j - 1 \in i .. n /\ r[j - 1] = q[j]
    BY <1>2, <2>2
  <2> QED BY <2>1, <2>2, <2>3
<1> QED BY <1>1, <1>3 DEF Guarded

LEMMA ConcatWithout ==
  ASSUME NEW S, NEW p \in Seq(S), NEW q \in Seq(S), NEW A, Without(p, A), Without(q, A)
  PROVE  Without(p \o q, A)
<1>1. /\ Len(p \o q) = Len(p) + Len(q) /\ Len(p) \in Nat /\ Len(q) \in Nat
      /\ \A i \in 1 .. Len(p) : (p \o q)[i] = p[i]
      /\ \A i \in Len(p) + 1 .. Len(p) + Len(q) : (p \o q)[i] = q[i - Len(p)]
  OBVIOUS
<1>2. ASSUME NEW i \in 1 .. Len(p \o q) PROVE (p \o q)[i].op \notin A
  <2>1. CASE i \in 1 .. Len(p)
    BY <1>1, <2>1 DEF Without
  <2>2. CASE i \notin 1 .. Len(p)
    <3>1. i \in Len(p) + 1 .. Len(p) + Len(q) /\ i - Len(p) \in 1 .. Len(q)
      BY <1>1, <2>2
    <3> QED BY <1>1, <3>1 DEF Without
  <2> QED BY <2>1, <2>2
<1> QED BY <1>2 DEF Without

(* In front of a guarded list may come what is guarded by itself, or what the *)
(* rest guards.                                                               *)
LEMMA ConcatGuarded ==
  ASSUME NEW S, NEW p \in Seq(S), NEW q \in Seq(S), NEW A, NEW B, Guarded(q, A, B),
         \A i \in 1 .. Len(p) : p[i].op \in A =>
           \/ \E j \in i .. Len(p) : p[j].op \in B /\ p[j].s = p[i].s
           \/ \E j \in 1 .. Len(q) : q[j].op \in B /\ q[j].s = p[i].s
  PROVE  Guarded(p \o q, A, B)
<1>1. PICK z, m, n : z = p \o q /\ m = Len(p) /\ n = Len(q)
  OBVIOUS
<1>2. /\ Len(z) = m + n /\ m \in Nat /\ n \in Nat
      /\ \A i \in 1 .. m : z[i] = p[i]
      /\ \A i \in 1 .. n : z[m + i] = q[i]
  BY <1>1
<1>3. ASSUME NEW i \in 1 .. m + n, z[i].op \in A
      PROVE  \E j \in i .. m + n : z[j].op \in B /\ z[j].s = z[i].s
  <2>1. CASE i \in 1 .. m
    <3>1. z[i] = p[i]
      BY <1>2, <2>1
    <3>2. CASE \E j \in i .. m : p[j].op \in B /\ p[j].s = p[i].s
      <4>1. PICK j \in i .. m : p[j].op \in B /\ p[j].s = p[i].s
        BY <3>2
      <4>2. j \in 1 .. m /\ j \in i .. m + n
        BY <1>2, <2>1
      <4> QED BY <1>2, <3>1, <4>1, <4>2
    <3>3. CASE \E j \in 1 .. n : q[j].op \in B /\ q[j].s = p[i].s
      <4>1. PICK j \in 1 .. n : q[j].op \in B /\ q[j].s = p[i].s
        BY <3>3
      <4>2. m + j \in i .. m + n
        BY <1>2, <2>1
      <4> QED BY <1>2, <3>1, <4>1, <4>2
    <3> QED BY <1>1, <1>3, <2>1, <3>1, <3>2, <3>3
  <2>2. CASE i \notin 1 .. m
    <3>1. i - m \in 1 .. n /\ i = m + (i - m)
      BY <1>2, <2>2
    <3>2. PICK k \in 1 .. n : i = m + k
      BY <3>1
    <3>3. q[k].op \in A /\ z[i] = q[k]
      BY <1>2, <1>3, <3>2
    <3>4. PICK j \in k .. n : q[j].op \in B /\ q[j].s = q[k].s
      BY <1>1, <3>3 DEF Guarded
    <3>5. j \in 1 .. n /\ m + j \in i .. m + n
      BY <1>2, <3>2
    <3> QED BY <1>2, <3>3, <3>4, <3>5
  <2> QED BY <2>1, <2>2
<1> QED BY <1>1, <1>2, <1>3 DEF Guarded

LEMMA FramesList ==
  ASSUME NEW s, NEW A, NEW ops \in Seq(A)
  PROVE  /\ Len(Frames(ops, s)) = Len(ops)
         /\ \A i \in 1 .. Len(ops) : Frames(ops, s)[i] = Frame(ops[i], s)
         /\ Frames(ops, s) \in Seq(Todo(A, {s}))
BY DEF Frames, Frame, Todo

LEMMA FramesOps ==
  ASSUME NEW s, NEW A, NEW ops \in Seq(A), NEW i \in 1 .. Len(ops)
  PROVE  Frames(ops, s)[i].op = ops[i] /\ Frames(ops, s)[i].s = s
<1>1. Frames(ops, s)[i] = Frame(ops[i], s)
  BY FramesList
<1> QED BY <1>1 DEF Frame

LEMMA FramesWithout ==
  ASSUME NEW s, NEW A, NEW ops \in Seq(A), NEW B, A \cap B = {}
  PROVE  Without(Frames(ops, s), B)
<1>1. ASSUME NEW i \in 1 .. Len(ops) PROVE Frames(ops, s)[i].op \notin B
  <2>1. ops[i] \in A
    OBVIOUS
  <2> QED BY <2>1, FramesOps
<1>2. Len(Frames(ops, s)) = Len(ops)
  BY FramesList
<1> QED BY <1>1, <1>2 DEF Without

(* What a list counts for the slots when frames are put in front of its rest. *)
LEMMA FrontCount ==
  ASSUME NEW A, NEW D, NEW q \in Seq(Todo(A, D)), q # <<>>,
         NEW B, NEW ops \in Seq(B), NEW s \in D, NEW O, NEW r
  PROVE  /\ Occ(Frames(ops, s) \o Tail(q), FramesWith(O, r)) =
              (IF r = s THEN Occ(ops, O) ELSE 0) + Occ(Tail(q), FramesWith(O, r))
         /\ Occ(q, FramesWith(O, r)) =
              IF Head(q).op \in O /\ Head(q).s = r THEN Occ(Tail(q), FramesWith(O, r)) + 1
              ELSE Occ(Tail(q), FramesWith(O, r))
         /\ Occ(ops, O) \in Nat /\ Occ(Tail(q), FramesWith(O, r)) \in Nat
         /\ Occ(q, FramesWith(O, r)) \in Nat
<1>1. PICK S, M, f, z : S = Todo(A \cup B, D) /\ M = FramesWith(O, r) /\ f = Frames(ops, s) /\ z = Tail(q)
  OBVIOUS
<1>2. Todo(A, D) \subseteq S /\ Todo(B, D) \subseteq S
  BY <1>1 DEF Todo
<1>3. q \in Seq(S) /\ z \in Seq(S) /\ f \in Seq(S)
  <2>1. PICK U, V : U = Todo(A, D) /\ V = Todo(B, D)
    OBVIOUS
  <2>2. f \in Seq(V) /\ q \in Seq(U) /\ U \subseteq S /\ V \subseteq S
    BY <1>1, <1>2, <2>1, FramesAre
  <2>3. f \in Seq(S) /\ q \in Seq(S)
    BY <2>2, LongerAlphabet
  <2> QED BY <1>1, <2>3
<1>4. Occ(f \o z, M) = Occ(f, M) + Occ(z, M)
  BY <1>3, OccConcat
<1>5. Occ(f, M) = IF r = s THEN Occ(ops, O) ELSE 0
  BY <1>1, FramesCount
<1>6. Occ(q, M) = IF Head(q) \in M THEN Occ(z, M) + 1 ELSE Occ(z, M)
  BY <1>1, <1>3, OccTail
<1>7. Head(q) \in M <=> Head(q).op \in O /\ Head(q).s = r
  <2>1. Head(q) \in Todo(A, D)
    OBVIOUS
  <2> QED BY <1>1, <2>1 DEF Todo, FramesWith
<1>8. Occ(ops, O) \in Nat /\ Occ(z, M) \in Nat /\ Occ(q, M) \in Nat
  BY <1>3, PositionsFinite
<1> QED BY <1>1, <1>4, <1>5, <1>6, <1>7, <1>8

(* A list that has none counts none; one that has some counts them. *)
LEMMA CountWithout ==
  ASSUME NEW A, NEW D, NEW q \in Seq(Todo(A, D)), NEW O, Without(q, O), NEW r
  PROVE  Occ(q, FramesWith(O, r)) = 0
<1>1. \A i \in 1 .. Len(q) : q[i] \notin FramesWith(O, r)
  BY DEF Without, FramesWith
<1> QED BY <1>1, PositionsFinite

LEMMA CountSome ==
  ASSUME NEW A, NEW D, NEW q \in Seq(Todo(A, D)), NEW O, NEW r
  PROVE  /\ Occ(q, FramesWith(O, r)) \in Nat
         /\ Occ(q, FramesWith(O, r)) # 0 <=> \E i \in 1 .. Len(q) : q[i].op \in O /\ q[i].s = r
<1>1. \A i \in 1 .. Len(q) : q[i] \in FramesWith(O, r) <=> q[i].op \in O /\ q[i].s = r
  <2> TAKE i \in 1 .. Len(q)
  <2>1. q[i] \in Todo(A, D)
    OBVIOUS
  <2> QED BY <2>1 DEF Todo, FramesWith
<1>2. /\ Occ(q, FramesWith(O, r)) \in Nat
      /\ Occ(q, FramesWith(O, r)) = 0 <=> \A i \in 1 .. Len(q) : q[i] \notin FramesWith(O, r)
  BY PositionsFinite
<1> QED BY <1>1, <1>2

LEMMA GuardCounts ==
  ASSUME NEW C, NEW D, NEW q \in Seq(Todo(C, D)), NEW A, NEW B, Guarded(q, A, B), NEW r,
         Occ(q, FramesWith(A, r)) # 0
  PROVE  Occ(q, FramesWith(B, r)) # 0
<1>1. PICK i \in 1 .. Len(q) : q[i].op \in A /\ q[i].s = r
  BY CountSome
<1>2. PICK j \in i .. Len(q) : q[j].op \in B /\ q[j].s = r
  BY <1>1 DEF Guarded
<1>3. j \in 1 .. Len(q)
  OBVIOUS
<1> QED BY <1>2, <1>3, CountSome
-----------------------------------------------------------------------------
(* ALL THREADS *)

(* The lists of the threads, with the operations of A. *)
Lists(A) == todo \in Queues(Threads, Todo(A, Slots))

LEMMA ListReplaced ==
  ASSUME NEW A, NEW Q \in Queues(Threads, Todo(A, Slots)), NEW B, NEW t \in Threads,
         NEW new \in Seq(Todo(B, Slots)), NEW R, Puts(Q, R, t, new), NEW M
  PROVE  /\ R[t] = new /\ Total(Q, M) \in Nat
         /\ Total(R, M) = Total(Q, M) - Occ(Q[t], M) + Occ(new, M)
<1>1. PICK S, U, V : S = Todo(A \cup B, Slots) /\ U = Todo(A, Slots) /\ V = Todo(B, Slots)
  OBVIOUS
<1>2. U \subseteq S /\ V \subseteq S
  BY <1>1 DEF Todo
<1>3. Q \in [Threads -> Seq(U)] /\ new \in Seq(S)
  BY <1>1, <1>2, LongerAlphabet DEF Queues
<1>4. Q \in [Threads -> Seq(S)]
  BY <1>2, <1>3, LongerAlphabet
<1>5. R \in [Threads -> Seq(S)] /\ R[t] = new /\ \A u \in Threads \ {t} : R[u] = Q[u]
  BY <1>3, <1>4 DEF Puts
<1>6. ChangesAt(Threads, S, Q, R, t)
  BY <1>4, <1>5 DEF ChangesAt, Queues
<1>7. /\ Total(Q, M) \in Nat
      /\ Total(R, M) = Total(Q, M) - Occ(Q[t], M) + Occ(R[t], M)
  BY <1>6, ThreadsFinite, TotalUpdate
<1> QED BY <1>5, <1>7

(* What all threads have, one has; what two have is two. *)
LEMMA SomeThread ==
  ASSUME NEW A, Lists(A), NEW O, NEW r
  PROVE  /\ InThreads(todo, O, r) \in Nat
         /\ InThreads(todo, O, r) # 0 => \E t \in Threads : Count(t, O, r) # 0
         /\ \A t \in Threads : Count(t, O, r) \in Nat /\ Count(t, O, r) <= InThreads(todo, O, r)
<1>1. PICK S, Q, M : S = Todo(A, Slots) /\ Q = todo /\ M = FramesWith(O, r) /\ Q \in Queues(Threads, S)
  BY DEF Lists
<1>2. Total(Q, M) # 0 => \E t \in Threads : Occ(Q[t], M) # 0
  BY <1>1, ThreadsFinite, TotalNone
<1>3. \A t \in Threads : Total(Q, M) \in Nat /\ Occ(Q[t], M) \in Nat /\ Occ(Q[t], M) <= Total(Q, M)
  BY <1>1, ThreadsFinite, TotalAtLeast
<1> QED BY <1>1, <1>2, <1>3, ThreadsFinite DEF InThreads, Count

LEMMA TwoThreads ==
  ASSUME NEW A, Lists(A), NEW O, NEW r, NEW t \in Threads, NEW u \in Threads \ {t},
         Count(t, O, r) # 0, Count(u, O, r) # 0
  PROVE  InThreads(todo, O, r) >= 2
<1>1. PICK S, Q, M : S = Todo(A, Slots) /\ Q = todo /\ M = FramesWith(O, r) /\ Q \in Queues(Threads, S)
  BY DEF Lists
<1>2. PICK R : R = [Q EXCEPT ![u] = <<>>]
  OBVIOUS
<1>3. ChangesAt(Threads, S, Q, R, u) /\ R[u] = <<>> /\ R[t] = Q[t]
  <2>1. <<>> \in Seq(S)
    OBVIOUS
  <2> QED BY <1>1, <1>2, <2>1 DEF ChangesAt, Queues
<1>4. Total(Q, M) \in Nat /\ Total(R, M) = Total(Q, M) - Occ(Q[u], M) + Occ(R[u], M)
  BY <1>3, ThreadsFinite, TotalUpdate
<1>5. Occ(R[t], M) \in Nat /\ Occ(R[t], M) <= Total(R, M) /\ Total(R, M) \in Nat
  <2>1. R \in Queues(Threads, S)
    BY <1>3 DEF ChangesAt
  <2> QED BY <2>1, ThreadsFinite, TotalAtLeast
<1>6. Occ(Q[u], M) \in Nat /\ Occ(R[u], M) = 0
  BY <1>1, <1>3, OccEmpty, PositionsFinite DEF Queues
<1>7. Occ(Q[t], M) # 0 /\ Occ(Q[u], M) # 0
  BY <1>1 DEF Count
<1> QED BY <1>1, <1>3, <1>4, <1>5, <1>6, <1>7 DEF InThreads
-----------------------------------------------------------------------------
(* THE LIFE OF A SLOT *)

(* A caller of acquirLock looks for its session; a new session begins. *)
AskOps == {"acquire", "check_id", "check_flag"}
BeginOps == {"pop_slot", "insert", "insert_ref", "insert_flag", "join"}
NewLists ==
  {<<"pop_slot">>, NewSession, <<"insert_ref", "insert_flag", "join", "callback">>,
   <<"insert_flag", "join", "callback">>, <<"join", "callback">>}

(* The thread that calls Stop only disconnects, an application's thread has *)
(* no callbacks, and the accept thread alone begins sessions.               *)
Banned(t) ==
  {"conn_ref"}
  \cup (IF t = Main THEN (UseOps \ {"shutdown"}) \cup AskOps \cup {"release"} ELSE {})
  \cup (IF t \in Users THEN {"callback"} ELSE {})
  \cup (IF t = Acceptor THEN {} ELSE BeginOps)

(* Who tears a slot down goes on until it is reclaimed; who uses a session  *)
(* has a reference to give back, or is in its callback; a thread that is    *)
(* not the application's calls from callbacks.                              *)
Disciplined(t) ==
  /\ Without(todo[t], Banned(t))
  /\ Guarded(todo[t], {"leave", "drain"}, {"reclaim"})
  /\ t # Main => Guarded(todo[t], UseOps, {"release", "callback"})
  /\ t \notin Users => Guarded(todo[t], AskOps, {"callback"})

Accepting ==
  \/ Without(todo[Acceptor], BeginOps)
  \/ \E s \in Slots, ops \in NewLists : todo[Acceptor] = Frames(ops, s)

(* A slot belongs to the stack, to who takes its session away, to who puts  *)
(* it back on the stack or to who makes a new session in it, or to nobody   *)
(* while it has one.                                                        *)
Has(op, s) == InThreads(todo, {op}, s)
Owners(s) == Occ(indexStack, {s}) + Has("reclaim", s) + Has("push_slot", s) + Has("insert_ref", s)

Reaches(ops, s) == todo[Acceptor] # <<>> /\ Head(todo[Acceptor]).op \in ops /\ Slot(Acceptor) = s
Entering(s) == Reaches({"insert", "insert_ref"}, s)
Newest(s) == Reaches({"insert_ref", "insert_flag", "join"}, s)

(* A slot that belongs to somebody: nobody uses it, and the kernel does not. *)
Quiet(s) ==
  /\ sess[s].disconnectFlag # 1
  /\ \A p \in pending : p.s # s
  /\ \A i \in 1 .. Len(port) : port[i].s # s
  /\ \A t \in Threads \ {Main} : Count(t, UseOps, s) # 0 => t = Acceptor /\ Entering(s)

Alone(s) == Owners(s) <= 1 /\ (Owners(s) = 1 => Quiet(s))

(* Its Index says whose it is. *)
Named(s) ==
  /\ Owners(s) = 0 \/ Has("reclaim", s) # 0 => sess[s].Index.slot = s
  /\ Occ(indexStack, {s}) # 0 \/ Has("push_slot", s) # 0 \/ Reaches({"insert"}, s) => sess[s].Index = NoId
  /\ Newest(s) => sess[s].Index = Id(s, lanId - 1)

(* The application knows no id of a session that has not joined, and a      *)
(* caller of its threads has one that it was told of.                       *)
Known == IF \E s \in Slots : Newest(s) THEN lanId - 1 ELSE lanId
Told(id) == id.net \in Int /\ id.net < Known
Informed ==
  /\ DOMAIN arg = Threads
  /\ \A c \in Conns : idOf[c] = NoId \/ Told(idOf[c])
  /\ \A u \in Users : todo[u] # <<>> =>
       /\ Without(Tail(todo[u]), AskOps)
       /\ Head(todo[u]).op \in AskOps => arg[u].id # NoId /\ Told(arg[u].id)

SlotLife(s) == Alone(s) /\ Named(s) /\ "disconnectFlag" \in DOMAIN sess[s]

Life == (\A t \in Threads : Disciplined(t)) /\ Accepting /\ Informed /\ lanId \in Nat
        /\ \A s \in Slots : SlotLife(s)

(* As long as no slot was torn down early. *)
LifeInv == IInv /\ (early = {} => Life)
-----------------------------------------------------------------------------
LEMMA ListsAre == IInv => \E A : Lists(A)
BY DEF IInv, LanSound, Sound, Running, Lists

(* Going on with ops keeps a list guarded. *)
LEMMA ThenGuarded ==
  ASSUME NEW C, NEW D, NEW q \in Seq(Todo(C, D)), q # <<>>, NEW A, NEW B, Guarded(q, A, B),
         NEW W, NEW ops \in Seq(W),
         \/ W \cap A = {}
         \/ Head(q).op \in A \ B
         \/ ops # <<>> /\ ops[Len(ops)] \in B
  PROVE  Guarded(Frames(ops, Head(q).s) \o Tail(q), A, B)
<1>1. PICK S, U, V, f, z, s, n :
        /\ S = Todo(C \cup W, D \cup {s}) /\ U = Todo(C, D) /\ V = Todo(W, {s})
        /\ f = Frames(ops, s) /\ z = Tail(q) /\ s = Head(q).s /\ n = Len(ops)
  OBVIOUS
<1>2. U \subseteq S /\ V \subseteq S
  BY <1>1 DEF Todo
<1>3. f \in Seq(V) /\ Len(f) = n /\ \A i \in 1 .. n : f[i].op = ops[i] /\ f[i].s = s
  <2>1. Len(f) = n /\ f \in Seq(V)
    BY <1>1, FramesList
  <2> QED BY <1>1, <2>1, FramesOps
<1>4. f \in Seq(S) /\ z \in Seq(S)
  <2>1. z \in Seq(U)
    BY <1>1
  <2> QED BY <1>2, <1>3, <2>1, LongerAlphabet
<1>5. Guarded(z, A, B)
  BY <1>1, TailGuarded
<1>6. ASSUME NEW i \in 1 .. n, f[i].op \in A
      PROVE  \/ \E j \in i .. n : f[j].op \in B /\ f[j].s = f[i].s
             \/ \E j \in 1 .. Len(z) : z[j].op \in B /\ z[j].s = f[i].s
  <2>1. ops[i] \in W /\ ops[i] \in A /\ f[i].s = s /\ n \in Nat
    BY <1>1, <1>3, <1>6
  <2>2. CASE Head(q).op \in A \ B
    <3>1. Len(q) = Len(z) + 1 /\ Len(z) \in Nat /\ q[1] = Head(q) /\ \A j \in 1 .. Len(z) : q[j + 1] = z[j]
      <4>1. Len(q) # 0 /\ Len(q) \in Nat
        BY EmptySeq
      <4> QED BY <1>1, <4>1
    <3>2. 1 \in 1 .. Len(q) /\ q[1].op \in A
      BY <2>2, <3>1
    <3>3. PICK j \in 1 .. Len(q) : q[j].op \in B /\ q[j].s = s
      BY <1>1, <3>1, <3>2 DEF Guarded
    <3>4. j # 1
      BY <2>2, <3>1, <3>3
    <3>5. j - 1 \in 1 .. Len(z) /\ z[j - 1] = q[j]
      BY <3>1, <3>4
    <3> QED BY <2>1, <3>3, <3>5
  <2>3. CASE ops # <<>> /\ ops[Len(ops)] \in B
    <3>1. n \in i .. n /\ n \in 1 .. n
      BY <2>1
    <3>2. f[n].op \in B /\ f[n].s = s
      BY <1>1, <1>3, <2>3, <3>1
    <3> QED BY <2>1, <3>1, <3>2
  <2>4. W \cap A # {}
    BY <2>1
  <2> QED BY <2>2, <2>3, <2>4
<1>7. Guarded(f \o z, A, B)
  <2>1. PICK m : m = Len(f) /\ m = n
    BY <1>3
  <2>2. \A i \in 1 .. Len(f) : f[i].op \in A =>
           \/ \E j \in i .. Len(f) : f[j].op \in B /\ f[j].s = f[i].s
           \/ \E j \in 1 .. Len(z) : z[j].op \in B /\ z[j].s = f[i].s
    BY <1>6, <2>1
  <2> QED BY <1>4, <1>5, <2>2, ConcatGuarded
<1> QED BY <1>1, <1>7

(* A thread that goes on with ops. *)
LEMMA ThenPut ==
  ASSUME IInv, NEW t \in Threads, NEW op, At(t, op), NEW B, NEW ops \in Seq(B), Then(t, ops)
  PROVE  \E A : /\ Lists(A) /\ todo[t] \in Seq(Todo(A, Slots))
                /\ todo[t] # <<>> /\ Head(todo[t]).op = op /\ Slot(t) \in Slots
                /\ Frames(ops, Slot(t)) \o Tail(todo[t]) \in Seq(Todo(A \cup B, Slots))
                /\ todo' = [todo EXCEPT ![t] = Frames(ops, Slot(t)) \o Tail(todo[t])]
<1>1. todo[t] # <<>> /\ Head(todo[t]).op = op /\ Slot(t) \in Slots
  BY AtOp DEF IInv, LanSound
<1>2. PICK A : Lists(A)
  BY ListsAre
<1>3. PICK q, z, s : q = todo[t] /\ z = Tail(q) /\ s = Slot(t)
  OBVIOUS
<1>4. q \in Seq(Todo(A, Slots)) /\ s \in Slots
  BY <1>1, <1>2, <1>3 DEF Lists, Queues
<1>5. Frames(ops, s) \o z \in Seq(Todo(A \cup B, Slots))
  <2>1. PICK S, U, V : S = Todo(A \cup B, Slots) /\ U = Todo(A, Slots) /\ V = Todo(B, Slots)
    OBVIOUS
  <2>2. U \subseteq S /\ V \subseteq S
    BY <2>1 DEF Todo
  <2>3. Frames(ops, s) \in Seq(V)
    BY <1>4, <2>1, FramesAre
  <2>4. z \in Seq(U)
    BY <1>1, <1>3, <1>4, <2>1
  <2>5. Frames(ops, s) \in Seq(S) /\ z \in Seq(S)
    BY <2>2, <2>3, <2>4, LongerAlphabet
  <2> QED BY <2>1, <2>5
<1>6. todo' = [todo EXCEPT ![t] = Frames(ops, s) \o z]
  BY <1>2, <1>3 DEF Then, Lists, Queues
<1> QED BY <1>1, <1>2, <1>3, <1>4, <1>5, <1>6

LEMMA ThenNew ==
  ASSUME IInv, NEW t \in Threads, NEW op, At(t, op), NEW B, NEW ops \in Seq(B), Then(t, ops)
  PROVE  /\ todo'[t] = Frames(ops, Slot(t)) \o Tail(todo[t])
         /\ \A u \in Threads \ {t} : todo'[u] = todo[u]
<1>1. PICK A : /\ Lists(A)
               /\ todo' = [todo EXCEPT ![t] = Frames(ops, Slot(t)) \o Tail(todo[t])]
  BY ThenPut
<1> QED BY <1>1 DEF Lists, Queues

LEMMA ThenTyped ==
  ASSUME IInv, NEW t \in Threads, NEW op, At(t, op), NEW B, NEW ops \in Seq(B), Then(t, ops)
  PROVE  \E C : todo'[t] \in Seq(Todo(C, Slots))
<1>1. \E C : Frames(ops, Slot(t)) \o Tail(todo[t]) \in Seq(Todo(C, Slots))
  BY ThenPut
<1> QED BY <1>1, ThenNew

LEMMA ThenCounts ==
  ASSUME IInv, NEW t \in Threads, NEW op, At(t, op), NEW B, NEW ops \in Seq(B), Then(t, ops),
         NEW O, NEW r
  PROVE  /\ Occ(ops, O) \in Nat /\ InThreads(todo, O, r) \in Nat /\ Count(t, O, r) \in Nat
         /\ InThreads(todo', O, r) = InThreads(todo, O, r)
              + (IF r = Slot(t) THEN Occ(ops, O) - (IF op \in O THEN 1 ELSE 0) ELSE 0)
         /\ Occ(todo'[t], FramesWith(O, r)) = Count(t, O, r)
              + (IF r = Slot(t) THEN Occ(ops, O) - (IF op \in O THEN 1 ELSE 0) ELSE 0)
<1>1. PICK A, new : /\ Lists(A) /\ todo[t] \in Seq(Todo(A, Slots))
                    /\ todo[t] # <<>> /\ Head(todo[t]).op = op /\ Slot(t) \in Slots
                    /\ new = Frames(ops, Slot(t)) \o Tail(todo[t])
                    /\ new \in Seq(Todo(A \cup B, Slots)) /\ todo' = [todo EXCEPT ![t] = new]
  <2>1. PICK n : n = Frames(ops, Slot(t)) \o Tail(todo[t])
    OBVIOUS
  <2>2. PICK A : /\ Lists(A) /\ todo[t] \in Seq(Todo(A, Slots))
                 /\ todo[t] # <<>> /\ Head(todo[t]).op = op /\ Slot(t) \in Slots
                 /\ Frames(ops, Slot(t)) \o Tail(todo[t]) \in Seq(Todo(A \cup B, Slots))
                 /\ todo' = [todo EXCEPT ![t] = Frames(ops, Slot(t)) \o Tail(todo[t])]
    BY ThenPut
  <2> QED BY <2>1, <2>2
<1>2. PICK q, z, s : q = todo[t] /\ z = Tail(q) /\ s = Slot(t)
  OBVIOUS
<1>3. Head(q).s = s /\ q \in Seq(Todo(A, Slots)) /\ q # <<>> /\ s \in Slots
  BY <1>1, <1>2 DEF Slot
<1>4. PICK a, b, c, d, e, g :
        /\ a = Occ(new, FramesWith(O, r)) /\ b = Occ(ops, O) /\ c = Occ(z, FramesWith(O, r))
        /\ d = Occ(q, FramesWith(O, r)) /\ e = InThreads(todo, O, r) /\ g = InThreads(todo', O, r)
  OBVIOUS
<1>5. /\ a = (IF r = s THEN b ELSE 0) + c
      /\ d = IF op \in O /\ s = r THEN c + 1 ELSE c
      /\ b \in Nat /\ c \in Nat /\ d \in Nat
  <2>1. new = Frames(ops, s) \o Tail(q)
    BY <1>1, <1>2
  <2>2. /\ Occ(Frames(ops, s) \o Tail(q), FramesWith(O, r)) =
             (IF r = s THEN Occ(ops, O) ELSE 0) + Occ(Tail(q), FramesWith(O, r))
        /\ Occ(q, FramesWith(O, r)) =
             IF Head(q).op \in O /\ Head(q).s = r THEN Occ(Tail(q), FramesWith(O, r)) + 1
             ELSE Occ(Tail(q), FramesWith(O, r))
        /\ Occ(ops, O) \in Nat /\ Occ(Tail(q), FramesWith(O, r)) \in Nat
        /\ Occ(q, FramesWith(O, r)) \in Nat
    BY <1>3, FrontCount
  <2> QED BY <1>1, <1>2, <1>3, <1>4, <2>1, <2>2
<1>6. e \in Nat /\ g = e - d + a /\ todo'[t] = new
  <2>1. PICK C, Q, R, M : /\ C = A \cup B /\ new \in Seq(Todo(C, Slots)) /\ Q = todo /\ R = todo'
                          /\ M = FramesWith(O, r)
    BY <1>1
  <2>2. Q \in Queues(Threads, Todo(A, Slots)) /\ Puts(Q, R, t, new) /\ new \in Seq(Todo(C, Slots))
    BY <1>1, <2>1 DEF Lists, Puts
  <2>3. /\ R[t] = new /\ Total(Q, M) \in Nat
        /\ Total(R, M) = Total(Q, M) - Occ(Q[t], M) + Occ(new, M)
    BY <2>2, ListReplaced
  <2> QED BY <1>2, <1>4, <2>1, <2>3 DEF InThreads
<1>7. a = d + (IF r = s THEN b - (IF op \in O THEN 1 ELSE 0) ELSE 0)
  BY <1>5
<1>8. g = e + (IF r = s THEN b - (IF op \in O THEN 1 ELSE 0) ELSE 0)
  BY <1>5, <1>6, <1>7
<1> QED BY <1>2, <1>4, <1>5, <1>6, <1>7, <1>8 DEF Count

LEMMA TailAfterOne ==
  ASSUME NEW S, NEW f \in Seq(S), NEW z \in Seq(S), Len(f) = 1
  PROVE  Tail(f \o z) = z
<1>1. PICK y : y = f \o z /\ y \in Seq(S) /\ Len(y) = 1 + Len(z)
               /\ \A i \in 1 .. Len(z) : y[i + 1] = z[i]
  <2>1. PICK m : m = Len(z) /\ m \in Nat
    OBVIOUS
  <2>2. /\ Len(f \o z) = Len(f) + Len(z) /\ f \o z \in Seq(S)
        /\ \A i \in Len(f) + 1 .. Len(f) + Len(z) : (f \o z)[i] = z[i - Len(f)]
    <3>1. PICK n : n = Len(f) /\ n \in Nat
      OBVIOUS
    <3>2. f \o z \in Seq(S) /\ Len(f \o z) = n + Len(z)
      BY <3>1, ConcatProperties
    <3>3. \A i \in 1 .. n + Len(z) : (f \o z)[i] = IF i <= n THEN f[i] ELSE z[i - n]
      BY <3>1, ConcatProperties
    <3> QED BY <2>1, <3>1, <3>2, <3>3
  <2>3. PICK y : /\ y = f \o z /\ y \in Seq(S) /\ Len(y) = 1 + m
                 /\ \A i \in 1 + 1 .. 1 + m : y[i] = z[i - 1]
    BY <2>1, <2>2
  <2>4. ASSUME NEW i \in 1 .. m PROVE y[i + 1] = z[i]
    <3>1. i + 1 \in 1 + 1 .. 1 + m /\ (i + 1) - 1 = i
      BY <2>1
    <3> QED BY <2>3, <3>1
  <2> QED BY <2>1, <2>3, <2>4
<1>2. y # <<>> /\ Len(z) \in Nat
  BY <1>1, EmptySeq
<1>3. Tail(y) \in Seq(S) /\ Len(Tail(y)) = Len(z) /\ \A i \in 1 .. Len(Tail(y)) : Tail(y)[i] = y[i + 1]
  BY <1>1, <1>2, HeadTailProperties
<1>4. \A i \in 1 .. Len(Tail(y)) : Tail(y)[i] = z[i]
  BY <1>1, <1>3
<1>5. Tail(y) = z
  BY <1>3, <1>4, SeqEqual
<1> QED BY <1>1, <1>5
-----------------------------------------------------------------------------
(* WHO IS WHERE *)

LEMMA OwnersNat ==
  ASSUME IInv, NEW s
  PROVE  /\ Occ(indexStack, {s}) \in Nat /\ Has("reclaim", s) \in Nat
         /\ Has("push_slot", s) \in Nat /\ Has("insert_ref", s) \in Nat
         /\ Owners(s) \in Nat
<1>1. PICK A : Lists(A)
  BY ListsAre
<1>2. \A op : InThreads(todo, {op}, s) \in Nat
  BY <1>1, SomeThread
<1>3. Occ(indexStack, {s}) \in Nat
  BY PositionsFinite DEF IInv, SlotNumbers
<1>4. Has("reclaim", s) \in Nat /\ Has("push_slot", s) \in Nat /\ Has("insert_ref", s) \in Nat
  BY <1>2 DEF Has
<1> QED BY <1>3, <1>4 DEF Owners

LEMMA ListOf ==
  ASSUME IInv, NEW t \in Threads
  PROVE  \E A : Lists(A) /\ todo[t] \in Seq(Todo(A, Slots))
<1>1. PICK A : Lists(A)
  BY ListsAre
<1> QED BY <1>1 DEF Lists, Queues

LEMMA HeadCounts ==
  ASSUME IInv, NEW t \in Threads, NEW op, At(t, op), NEW O, op \in O
  PROVE  Count(t, O, Slot(t)) # 0
<1>1. PICK A : Lists(A) /\ todo[t] \in Seq(Todo(A, Slots))
  BY ListOf
<1>2. todo[t] # <<>> /\ Head(todo[t]).op = op
  BY DEF At
<1>3. 1 \in 1 .. Len(todo[t]) /\ Head(todo[t]) = todo[t][1]
  <2>1. Len(todo[t]) \in Nat /\ Len(todo[t]) # 0
    BY <1>1, <1>2, EmptySeq
  <2> QED BY <1>1, <2>1
<1>4. todo[t][1].op \in O /\ todo[t][1].s = Slot(t)
  BY <1>2, <1>3 DEF Slot
<1> QED BY <1>1, <1>3, <1>4, CountSome DEF Count

(* A list that counts frames of O has one. *)
LEMMA SomeFrame ==
  ASSUME IInv, NEW t \in Threads, NEW O, NEW r
  PROVE  /\ Count(t, O, r) \in Nat
         /\ Count(t, O, r) # 0 <=> \E i \in 1 .. Len(todo[t]) : todo[t][i].op \in O /\ todo[t][i].s = r
<1>1. PICK A : Lists(A) /\ todo[t] \in Seq(Todo(A, Slots))
  BY ListOf
<1> QED BY <1>1, CountSome DEF Count

LEMMA SomeoneHas ==
  ASSUME IInv, NEW op, NEW s
  PROVE  /\ Has(op, s) # 0 => \E t \in Threads : Count(t, {op}, s) # 0
         /\ \A t \in Threads : Count(t, {op}, s) # 0 => Has(op, s) # 0
<1>1. PICK A : Lists(A)
  BY ListsAre
<1>2. /\ InThreads(todo, {op}, s) \in Nat
      /\ InThreads(todo, {op}, s) # 0 => \E t \in Threads : Count(t, {op}, s) # 0
      /\ \A t \in Threads : Count(t, {op}, s) \in Nat /\ Count(t, {op}, s) <= InThreads(todo, {op}, s)
  BY <1>1, SomeThread
<1> QED BY <1>2 DEF Has

(* The lists of the accept thread. *)
LEMMA NewListsAre ==
  ASSUME NEW ops \in NewLists
  PROVE  /\ ops \in Seq(BeginOps \cup {"callback"}) /\ ops # <<>> /\ Head(ops) \in BeginOps
         /\ Head(ops) = "pop_slot" => ops = <<"pop_slot">>
         /\ Head(ops) = "insert" => ops = NewSession
         /\ Head(ops) = "insert_ref" => ops = <<"insert_ref", "insert_flag", "join", "callback">>
         /\ Head(ops) = "insert_flag" => ops = <<"insert_flag", "join", "callback">>
         /\ Head(ops) = "join" => ops = <<"join", "callback">>
<1>1. CASE ops = <<"pop_slot">>
  BY <1>1 DEF BeginOps
<1>2. CASE ops = <<"insert", "insert_ref", "insert_flag", "join", "callback">>
  BY <1>2 DEF BeginOps, NewSession
<1>3. CASE ops = <<"insert_ref", "insert_flag", "join", "callback">>
  BY <1>3 DEF BeginOps
<1>4. CASE ops = <<"insert_flag", "join", "callback">>
  BY <1>4 DEF BeginOps
<1>5. CASE ops = <<"join", "callback">>
  BY <1>5 DEF BeginOps
<1> QED BY <1>1, <1>2, <1>3, <1>4, <1>5 DEF NewLists, NewSession

LEMMA FramesFirst ==
  ASSUME NEW s, NEW A, NEW ops \in Seq(A), ops # <<>>
  PROVE  Frames(ops, s) # <<>> /\ Head(Frames(ops, s)).op = Head(ops) /\ Head(Frames(ops, s)).s = s
<1>1. Len(ops) \in Nat /\ Len(ops) # 0 /\ Head(ops) = ops[1]
  BY EmptySeq
<1>2. PICK f : f = Frames(ops, s) /\ Len(f) = Len(ops) /\ f \in Seq(Todo(A, {s}))
  BY FramesList
<1>3. f[1].op = ops[1] /\ f[1].s = s
  BY <1>1, <1>2, FramesOps
<1>4. f # <<>> /\ Head(f) = f[1]
  BY <1>1, <1>2, EmptySeq
<1> QED BY <1>1, <1>2, <1>3, <1>4

(* Who is at one of BeginOps is the accept thread, with one of its lists. *)
LEMMA Beginning ==
  ASSUME IInv, Life, NEW t \in Threads, NEW op, At(t, op)
  PROVE  /\ op \in BeginOps => /\ t = Acceptor
                              /\ \E ops \in NewLists : todo[t] = Frames(ops, Slot(t)) /\ Head(ops) = op
         /\ op \notin BeginOps /\ t = Acceptor => Without(todo[t], BeginOps)
<1>1. PICK A : Lists(A) /\ todo[t] \in Seq(Todo(A, Slots))
  BY ListOf
<1>2. todo[t] # <<>> /\ Head(todo[t]).op = op
  BY DEF At
<1>3. \A O : Without(todo[t], O) => op \notin O
  BY <1>1, <1>2, TailWithout
<1>4. op \in BeginOps => t = Acceptor
  BY <1>3 DEF Life, Disciplined, Banned
<1>5. ASSUME NEW s \in Slots, NEW ops \in NewLists, todo[t] = Frames(ops, s)
      PROVE  s = Slot(t) /\ Head(ops) = op /\ op \in BeginOps
  <2>1. ops \in Seq(BeginOps \cup {"callback"}) /\ ops # <<>> /\ Head(ops) \in BeginOps
    BY NewListsAre
  <2>2. Head(Frames(ops, s)).op = Head(ops) /\ Head(Frames(ops, s)).s = s
    BY <2>1, FramesFirst
  <2> QED BY <1>2, <1>5, <2>1, <2>2 DEF Slot
<1> QED BY <1>3, <1>4, <1>5 DEF Life, Accepting

LEMMA NoReach ==
  ASSUME IInv, Without(todo[Acceptor], BeginOps), NEW O, O \subseteq BeginOps, NEW s
  PROVE  ~Reaches(O, s)
<1>1. PICK A : Lists(A) /\ todo[Acceptor] \in Seq(Todo(A, Slots))
  BY ListOf, ThreadsFinite
<1>2. todo[Acceptor] # <<>> => Head(todo[Acceptor]).op \notin BeginOps
  BY <1>1, TailWithout
<1> QED BY <1>2 DEF Reaches

(* The frame insert_ref of a slot is in one of the accept thread's lists.   *)
LEMMA InsertRefAt ==
  ASSUME IInv, Life, NEW s
  PROVE  /\ Has("insert_ref", s) # 0 <=> Entering(s)
         /\ Entering(s) => todo[Acceptor] # <<>>
         /\ Newest(s) => Entering(s) \/ Count(Acceptor, {"callback"}, s) # 0
<1>1. PICK q : q = todo[Acceptor]
  OBVIOUS
<1>2. Acceptor \in Threads
  BY ThreadsFinite
<1>3. ASSUME Has("insert_ref", s) # 0  PROVE Entering(s)
  <2>1. PICK t \in Threads : Count(t, {"insert_ref"}, s) # 0
    BY <1>3, SomeoneHas
  <2>2. PICK i \in 1 .. Len(todo[t]) : todo[t][i].op = "insert_ref" /\ todo[t][i].s = s
    BY <2>1, SomeFrame
  <2>3. "insert_ref" \in BeginOps
    BY DEF BeginOps
  <2>4. t = Acceptor
    <3>1. "insert_ref" \notin Banned(t)
      BY <2>2 DEF Life, Disciplined, Without
    <3> QED BY <2>3, <3>1 DEF Banned
  <2>5. ~Without(q, BeginOps)
    BY <1>1, <2>2, <2>3, <2>4 DEF Without
  <2>6. PICK r \in Slots, ops \in NewLists : q = Frames(ops, r)
    BY <1>1, <2>5 DEF Life, Accepting
  <2>7. ops \in Seq(BeginOps \cup {"callback"}) /\ ops # <<>>
    BY NewListsAre
  <2>8. i \in 1 .. Len(ops) /\ Len(ops) = Len(q)
    <3>1. Len(Frames(ops, r)) = Len(ops)
      BY <2>7, FramesList
    <3> QED BY <1>1, <2>2, <2>4, <2>6, <3>1
  <2>9. ops[i] = "insert_ref" /\ r = s
    BY <1>1, <2>2, <2>4, <2>6, <2>7, <2>8, FramesOps
  <2>10. Head(ops) \in {"insert", "insert_ref"}
    <3>1. ops # <<"pop_slot">> /\ ops # <<"insert_flag", "join", "callback">> /\ ops # <<"join", "callback">>
      BY <2>8, <2>9
    <3> QED BY <3>1, NewListsAre DEF NewLists, NewSession
  <2>11. q # <<>> /\ Head(q).op = Head(ops) /\ Head(q).s = s
    BY <2>6, <2>7, <2>9, FramesFirst
  <2> QED BY <1>1, <2>10, <2>11 DEF Entering, Reaches, Slot
<1>4. ASSUME NEW op \in {"insert", "insert_ref", "insert_flag", "join"}, q # <<>>, Head(q).op = op, Head(q).s = s
      PROVE  \E ops \in NewLists : /\ q = Frames(ops, s) /\ Head(ops) = op
                                   /\ ops \in Seq(BeginOps \cup {"callback"}) /\ Len(q) = Len(ops)
                                   /\ \A i \in 1 .. Len(ops) : q[i].op = ops[i] /\ q[i].s = s
  <2>1. ~Without(q, BeginOps)
    <3>1. PICK A : q \in Seq(Todo(A, Slots))
      BY <1>1, <1>2, ListOf
    <3>2. op \in BeginOps
      BY DEF BeginOps
    <3> QED BY <1>4, <3>1, <3>2, TailWithout
  <2>2. PICK r \in Slots, ops \in NewLists : q = Frames(ops, r)
    BY <1>1, <2>1 DEF Life, Accepting
  <2>3. ops \in Seq(BeginOps \cup {"callback"}) /\ ops # <<>>
    BY NewListsAre
  <2>4. Head(q).op = Head(ops) /\ Head(q).s = r
    BY <2>2, <2>3, FramesFirst
  <2>5. Len(q) = Len(ops) /\ \A i \in 1 .. Len(ops) : q[i].op = ops[i] /\ q[i].s = r
    <3>1. PICK f : f = Frames(ops, r) /\ Len(f) = Len(ops)
      BY <2>3, FramesList
    <3>2. \A i \in 1 .. Len(ops) : f[i].op = ops[i] /\ f[i].s = r
      BY <2>3, <3>1, FramesOps
    <3> QED BY <2>2, <3>1, <3>2
  <2>6. q = Frames(ops, s) /\ Head(ops) = op
    BY <1>4, <2>2, <2>4
  <2> QED BY <1>4, <2>3, <2>4, <2>5, <2>6
<1>5. ASSUME Entering(s)  PROVE Has("insert_ref", s) # 0 /\ q # <<>>
  <2>1. q # <<>> /\ Head(q).op \in {"insert", "insert_ref"} /\ Head(q).s = s
    BY <1>1, <1>5 DEF Entering, Reaches, Slot
  <2>2. PICK ops \in NewLists : /\ Head(ops) = Head(q).op /\ Len(q) = Len(ops)
                                /\ \A i \in 1 .. Len(ops) : q[i].op = ops[i] /\ q[i].s = s
    BY <1>4, <2>1
  <2>3. ops = NewSession \/ ops = <<"insert_ref", "insert_flag", "join", "callback">>
    BY <2>1, <2>2, NewListsAre
  <2>4. \E i \in 1 .. Len(ops) : ops[i] = "insert_ref"
    <3>1. CASE ops = NewSession
      BY <3>1 DEF NewSession
    <3>2. CASE ops = <<"insert_ref", "insert_flag", "join", "callback">>
      BY <3>2
    <3> QED BY <2>3, <3>1, <3>2
  <2>5. Count(Acceptor, {"insert_ref"}, s) # 0
    BY <1>1, <1>2, <2>2, <2>4, SomeFrame
  <2> QED BY <1>2, <2>1, <2>5, SomeoneHas
<1>6. ASSUME Newest(s), ~Entering(s)  PROVE Count(Acceptor, {"callback"}, s) # 0
  <2>1. q # <<>> /\ Head(q).op \in {"insert_flag", "join"} /\ Head(q).s = s
    BY <1>1, <1>6 DEF Entering, Newest, Reaches, Slot
  <2>2. PICK ops \in NewLists : /\ Head(ops) = Head(q).op /\ Len(q) = Len(ops)
                                /\ \A i \in 1 .. Len(ops) : q[i].op = ops[i] /\ q[i].s = s
    BY <1>4, <2>1
  <2>3. ops = <<"insert_flag", "join", "callback">> \/ ops = <<"join", "callback">>
    BY <2>1, <2>2, NewListsAre
  <2>4. \E i \in 1 .. Len(ops) : ops[i] = "callback"
    <3>1. CASE ops = <<"insert_flag", "join", "callback">>
      BY <3>1
    <3>2. CASE ops = <<"join", "callback">>
      BY <3>2
    <3> QED BY <2>3, <3>1, <3>2
  <2> QED BY <1>1, <1>2, <2>2, <2>4, SomeFrame
<1> QED BY <1>1, <1>3, <1>5, <1>6

LEMMA CountMore ==
  ASSUME IInv, NEW t \in Threads, NEW O, NEW V, O \subseteq V, NEW r, Count(t, O, r) # 0
  PROVE  Count(t, V, r) # 0
BY SomeFrame

LEMMA AcceptorApart == Acceptor # Main /\ Acceptor \notin Users /\ Main \notin Users
BY LanAssumption

LEMMA OneOwner ==
  ASSUME IInv, Life, NEW s \in Slots
  PROVE  /\ Owners(s) \in {0, 1} /\ (Owners(s) # 0 => Quiet(s))
         /\ Entering(s) => Owners(s) = 1 /\ Has("reclaim", s) = 0 /\ Has("push_slot", s) = 0
                           /\ Occ(indexStack, {s}) = 0
         /\ Newest(s) /\ Owners(s) # 0 => Reaches({"insert_ref"}, s)
<1>1. Owners(s) \in Nat /\ Owners(s) <= 1 /\ (Owners(s) = 1 => Quiet(s))
  BY OwnersNat DEF Life, SlotLife, Alone
<1>2. Owners(s) \in {0, 1} /\ (Owners(s) # 0 => Quiet(s))
  BY <1>1
<1>3. Entering(s) => Owners(s) = 1 /\ Has("reclaim", s) = 0 /\ Has("push_slot", s) = 0 /\ Occ(indexStack, {s}) = 0
  BY <1>1, OwnersNat, InsertRefAt DEF Owners
<1>4. ASSUME Newest(s), Owners(s) # 0  PROVE Reaches({"insert_ref"}, s)
  <2>1. Entering(s)
    <3>1. SUFFICES ASSUME ~Entering(s) PROVE FALSE
      OBVIOUS
    <3>2. Count(Acceptor, {"callback"}, s) # 0
      BY <1>4, <3>1, InsertRefAt
    <3>3. Count(Acceptor, UseOps, s) # 0
      BY <3>2, ThreadsFinite, CountMore DEF UseOps
    <3> QED BY <1>2, <1>4, <3>1, <3>3, ThreadsFinite, AcceptorApart DEF Quiet
  <2> QED BY <1>4, <2>1 DEF Entering, Newest, Reaches
<1> QED BY <1>2, <1>3, <1>4

(* A thread that uses a session's slot has it to itself.                    *)
LEMMA UserApart ==
  ASSUME IInv, Life, NEW t \in Threads \ {Main}, NEW s \in Slots, Count(t, UseOps, s) # 0,
         t = Acceptor => ~Entering(s)
  PROVE  Owners(s) = 0
BY OneOwner DEF Quiet

LEMMA UserAt ==
  ASSUME IInv, Life, NEW t \in Threads \ {Main}, NEW op, At(t, op), op \in UseOps
  PROVE  Slot(t) \in Slots /\ Owners(Slot(t)) = 0
<1>1. Slot(t) \in Slots
  BY AtOp DEF IInv, LanSound
<1>2. Count(t, UseOps, Slot(t)) # 0
  BY HeadCounts
<1>3. t = Acceptor => ~Entering(Slot(t))
  <2>1. op \notin {"insert", "insert_ref"}
    BY DEF UseOps
  <2> QED BY <2>1 DEF Entering, Reaches, At
<1> QED BY <1>1, <1>2, <1>3, UserApart

-----------------------------------------------------------------------------
(* WHAT A STEP KEEPS *)

(* A list of frames of one slot that somebody begins with. *)
LEMMA BeginDisciplined ==
  ASSUME NEW t, NEW s, NEW W, NEW ops \in Seq(W), ops # <<>>, W \cap Banned(t) = {},
         W \cap {"leave", "drain"} = {},
         W \cap UseOps = {} \/ ops[Len(ops)] \in {"release", "callback"},
         W \cap AskOps = {} \/ t \in Users, todo'[t] = Frames(ops, s)
  PROVE  Disciplined(t)'
<1>1. PICK f, n : f = Frames(ops, s) /\ n = Len(ops)
  OBVIOUS
<1>2. n \in Nat /\ n # 0 /\ Len(f) = n /\ \A i \in 1 .. n : f[i].op = ops[i] /\ f[i].s = s /\ ops[i] \in W
  <2>1. Len(Frames(ops, s)) = Len(ops)
    BY FramesList
  <2>2. \A i \in 1 .. Len(ops) : Frames(ops, s)[i].op = ops[i] /\ Frames(ops, s)[i].s = s
    BY FramesOps
  <2> QED BY <1>1, <2>1, <2>2, EmptySeq
<1>3. \A O : W \cap O = {} => Without(f, O)
  BY <1>2 DEF Without
<1>4. \A O, B : W \cap O = {} => Guarded(f, O, B)
  BY <1>2 DEF Guarded
<1>5. \A O : ops[n] \in {"release", "callback"} => Guarded(f, O, {"release", "callback"})
  BY <1>2 DEF Guarded
<1>6. Without(f, Banned(t)) /\ Guarded(f, {"leave", "drain"}, {"reclaim"})
  BY <1>3, <1>4
<1>7. Guarded(f, UseOps, {"release", "callback"})
  BY <1>1, <1>4, <1>5
<1>8. t \notin Users => Guarded(f, AskOps, {"callback"})
  BY <1>4
<1>9. todo'[t] = f
  BY <1>1
<1> QED BY <1>6, <1>7, <1>8, <1>9 DEF Disciplined, Banned

LEMMA ThenWithout ==
  ASSUME IInv, NEW t \in Threads, NEW op, At(t, op), NEW W, NEW ops \in Seq(W), Then(t, ops),
         NEW O, Without(Tail(todo[t]), O), W \cap O = {}
  PROVE  Without(todo'[t], O)
<1>1. PICK A : Lists(A) /\ todo[t] \in Seq(Todo(A, Slots))
  BY ListOf
<1>2. PICK q, s, z : q = todo[t] /\ s = Slot(t) /\ z = Tail(q)
  OBVIOUS
<1>3. q \in Seq(Todo(A, Slots)) /\ q # <<>> /\ s \in Slots
  BY <1>1, <1>2, AtOp DEF At, IInv, LanSound
<1>4. PICK S, U, V : /\ S = Todo(A \cup W, Slots) /\ U = Todo(A, Slots) /\ V = Todo(W, Slots)
                     /\ U \subseteq S /\ V \subseteq S
  <2>1. Todo(A, Slots) \subseteq Todo(A \cup W, Slots) /\ Todo(W, Slots) \subseteq Todo(A \cup W, Slots)
    BY DEF Todo
  <2> QED BY <2>1
<1>5. z \in Seq(U)
  BY <1>2, <1>3, <1>4
<1>6. Frames(ops, s) \in Seq(V)
  BY <1>3, <1>4, FramesAre
<1>7. Frames(ops, s) \in Seq(S) /\ z \in Seq(S)
  BY <1>4, <1>5, <1>6, LongerAlphabet
<1>8. Without(Frames(ops, s), O)
  BY FramesWithout
<1>9. Without(Frames(ops, s) \o z, O)
  BY <1>2, <1>7, <1>8, ConcatWithout
<1> QED BY <1>2, <1>9, ThenNew

LEMMA ThenDisciplined ==
  ASSUME IInv, NEW t \in Threads, Disciplined(t), NEW op, At(t, op),
         NEW W, NEW ops \in Seq(W), Then(t, ops), W \cap Banned(t) = {},
         \/ W \cap {"leave", "drain"} = {} \/ op \in {"leave", "drain"}
         \/ ops # <<>> /\ ops[Len(ops)] = "reclaim",
         \/ t = Main \/ W \cap UseOps = {} \/ op \in UseOps \ {"callback"}
         \/ ops # <<>> /\ ops[Len(ops)] \in {"release", "callback"},
         \/ t \in Users \/ W \cap AskOps = {} \/ op \in AskOps
         \/ ops # <<>> /\ ops[Len(ops)] = "callback"
  PROVE  Disciplined(t)'
<1>1. PICK A : Lists(A) /\ todo[t] \in Seq(Todo(A, Slots))
  BY ListOf
<1>2. PICK q, s, new : q = todo[t] /\ s = Head(q).s /\ new = Frames(ops, s) \o Tail(q)
  OBVIOUS
<1>3. q \in Seq(Todo(A, Slots)) /\ q # <<>> /\ Head(q).op = op
  BY <1>1, <1>2 DEF At
<1>4. todo'[t] = new
  BY <1>2, ThenNew DEF Slot
<1>5. Without(new, Banned(t))
  <2>1. Without(Tail(todo[t]), Banned(t))
    BY <1>2, <1>3, TailWithout DEF Disciplined
  <2> QED BY <1>4, <2>1, ThenWithout
<1>6. Guarded(new, {"leave", "drain"}, {"reclaim"})
  <2>1. Guarded(q, {"leave", "drain"}, {"reclaim"})
    BY <1>2 DEF Disciplined
  <2>2. op \in {"leave", "drain"} => Head(q).op \in {"leave", "drain"} \ {"reclaim"}
    BY <1>3
  <2> QED BY <1>2, <1>3, <2>1, <2>2, ThenGuarded
<1>7. t # Main => Guarded(new, UseOps, {"release", "callback"})
  <2> SUFFICES ASSUME t # Main PROVE Guarded(new, UseOps, {"release", "callback"})
    OBVIOUS
  <2>1. Guarded(q, UseOps, {"release", "callback"})
    BY <1>2 DEF Disciplined
  <2>2. op \in UseOps \ {"callback"} => Head(q).op \in UseOps \ {"release", "callback"}
    BY <1>3 DEF UseOps
  <2> QED BY <1>2, <1>3, <2>1, <2>2, ThenGuarded
<1>8. t \notin Users => Guarded(new, AskOps, {"callback"})
  <2> SUFFICES ASSUME t \notin Users PROVE Guarded(new, AskOps, {"callback"})
    OBVIOUS
  <2>1. Guarded(q, AskOps, {"callback"})
    BY <1>2 DEF Disciplined
  <2>2. op \in AskOps => Head(q).op \in AskOps \ {"callback"}
    BY <1>3 DEF AskOps
  <2> QED BY <1>2, <1>3, <2>1, <2>2, ThenGuarded
<1> QED BY <1>4, <1>5, <1>6, <1>7, <1>8 DEF Disciplined, Banned

(* Nothing new happens to the slot. *)
Undisturbed(r) ==
  /\ sess'[r].disconnectFlag = 1 => sess[r].disconnectFlag = 1
  /\ \A p \in pending' : p.s = r => \E q \in pending : q.s = r
  /\ \A i \in 1 .. Len(port') : port'[i].s = r =>
       (\E q \in pending : q.s = r) \/ (\E j \in 1 .. Len(port) : port[j].s = r)
  /\ \A u \in Threads \ {Main} : Occ(todo'[u], FramesWith(UseOps, r)) # 0 =>
       \/ Count(u, UseOps, r) # 0 /\ ~(u = Acceptor /\ Entering(r))
       \/ u = Acceptor /\ Entering(r)'

LEMMA QuietKept ==
  ASSUME NEW r, Quiet(r), Undisturbed(r)
  PROVE  Quiet(r)'
BY DEF Quiet, Undisturbed, Count

(* One thread's step: what the others have to do is as it was. *)
LEMMA OthersDisciplined ==
  ASSUME Life, NEW t \in Threads, \A u \in Threads \ {t} : todo'[u] = todo[u], Disciplined(t)'
  PROVE  \A u \in Threads : Disciplined(u)'
<1>1. ASSUME NEW u \in Threads \ {t} PROVE Disciplined(u)'
  BY <1>1 DEF Life, Disciplined, Banned
<1> QED BY <1>1

LEMMA SameEntry ==
  ASSUME todo'[Acceptor] = todo[Acceptor], NEW O, NEW s
  PROVE  Reaches(O, s)' <=> Reaches(O, s)
BY DEF Reaches, Slot

LEMMA SlotKept ==
  ASSUME IInv, NEW r \in Slots, SlotLife(r),
         \A op \in {"reclaim", "push_slot", "insert_ref"} : Has(op, r)' = Has(op, r),
         UNCHANGED <<indexStack, lanId>>, Owners(r) # 0 => Undisturbed(r),
         sess'[r].Index = sess[r].Index, "disconnectFlag" \in DOMAIN sess'[r],
         Reaches({"insert"}, r)' <=> Reaches({"insert"}, r), Newest(r)' <=> Newest(r)
  PROVE  SlotLife(r)'
<1>1. Owners(r)' = Owners(r)
  BY DEF Owners
<1>2. Has("reclaim", r)' = Has("reclaim", r) /\ Has("push_slot", r)' = Has("push_slot", r)
  OBVIOUS
<1>3. Alone(r)'
  <2>1. Quiet(r) /\ Undisturbed(r) => Quiet(r)'
    BY QuietKept
  <2>2. Owners(r) <= 1 /\ (Owners(r) = 1 => Quiet(r))
    BY DEF SlotLife, Alone
  <2> QED BY <1>1, <2>1, <2>2 DEF Alone
<1>4. Named(r)'
  <2>1. Named(r)
    BY DEF SlotLife
  <2>2. Id(r, lanId - 1)' = Id(r, lanId - 1)
    OBVIOUS
  <2>3. Owners(r)' = 0 \/ Has("reclaim", r)' # 0 => sess'[r].Index.slot = r
    BY <1>1, <1>2, <2>1 DEF Named
  <2>4. Occ(indexStack', {r}) # 0 \/ Has("push_slot", r)' # 0 \/ Reaches({"insert"}, r)' => sess'[r].Index = NoId
    BY <1>2, <2>1 DEF Named
  <2>5. Newest(r)' => sess'[r].Index = Id(r, lanId' - 1)
    BY <2>1 DEF Named
  <2> QED BY <2>3, <2>4, <2>5 DEF Named
<1> QED BY <1>3, <1>4 DEF SlotLife

LEMMA KnownKept ==
  ASSUME UNCHANGED lanId, \A r \in Slots : Newest(r)' <=> Newest(r)
  PROVE  Known' = Known
BY DEF Known

(* A step of one thread that does not take a slot, give one back or begin a *)
(* session: it and the kernel begin with nothing new on a slot that is      *)
(* somebody's.                                                              *)
Calm(t) ==
  /\ \A u \in Threads \ {t} : todo'[u] = todo[u]
  /\ \A op \in {"reclaim", "push_slot", "insert_ref"} : \A r \in Slots : Has(op, r)' = Has(op, r)
  /\ t = Acceptor => Without(todo[t], BeginOps) /\ Without(todo'[t], BeginOps)
  /\ \A r \in Slots : Occ(todo'[t], FramesWith(UseOps, r)) # 0 =>
       t = Main \/ Count(t, UseOps, r) # 0 \/ Owners(r) = 0
  /\ t \in Users /\ todo'[t] # <<>> =>
       /\ Without(Tail(todo'[t]), AskOps)
       /\ Head(todo'[t]).op \in AskOps => arg'[t].id # NoId /\ Told(arg'[t].id)
  /\ DOMAIN arg' = Threads /\ \A u \in Users \ {t} : arg'[u] = arg[u]

Harmless ==
  /\ UNCHANGED <<indexStack, lanId, idOf>>
  /\ \A r \in Slots :
       /\ "disconnectFlag" \in DOMAIN sess'[r] /\ sess'[r].Index = sess[r].Index
       /\ sess'[r].disconnectFlag = 1 => sess[r].disconnectFlag = 1 \/ Owners(r) = 0
  /\ \A p \in pending' : (\E q \in pending : q.s = p.s) \/ Owners(p.s) = 0
  /\ \A i \in 1 .. Len(port') :
       (\E q \in pending : q.s = port'[i].s) \/ (\E j \in 1 .. Len(port) : port[j].s = port'[i].s)

LEMMA CalmLife ==
  ASSUME IInv, IInv', Life, NEW t \in Threads, Calm(t), Harmless, Disciplined(t)'
  PROVE  Life'
<1>1. \A u \in Threads : Disciplined(u)'
  BY OthersDisciplined DEF Calm
<1>2. Accepting'
  BY ThreadsFinite DEF Calm, Life, Accepting
<1>3. ASSUME NEW O, O \subseteq BeginOps, NEW r  PROVE Reaches(O, r)' <=> Reaches(O, r)
  <2>1. CASE t # Acceptor
    <3>1. todo'[Acceptor] = todo[Acceptor]
      BY <2>1, ThreadsFinite DEF Calm
    <3> QED BY <3>1, SameEntry
  <2>2. CASE t = Acceptor
    <3>1. ~Reaches(O, r)
      BY <1>3, <2>2, NoReach DEF Calm
    <3>2. PICK A : Lists(A)'
      BY DEF IInv, LanSound, Sound, Running, Lists
    <3>3. todo'[Acceptor] \in Seq(Todo(A, Slots))
      BY <3>2, ThreadsFinite DEF Lists, Queues
    <3>4. Without(todo'[Acceptor], BeginOps)
      BY <2>2 DEF Calm
    <3>5. todo'[Acceptor] # <<>> => Head(todo'[Acceptor]).op \notin BeginOps
      BY <3>3, <3>4, TailWithout
    <3> QED BY <1>3, <3>1, <3>5 DEF Reaches
  <2> QED BY <2>1, <2>2
<1>4. \A r : /\ Reaches({"insert"}, r)' <=> Reaches({"insert"}, r)
             /\ Newest(r)' <=> Newest(r)
             /\ Entering(r)' <=> Entering(r)
  <2> TAKE r
  <2>1. {"insert"} \subseteq BeginOps /\ {"insert", "insert_ref"} \subseteq BeginOps
        /\ {"insert_ref", "insert_flag", "join"} \subseteq BeginOps
    BY DEF BeginOps
  <2>2. /\ Reaches({"insert"}, r)' <=> Reaches({"insert"}, r)
        /\ Reaches({"insert", "insert_ref"}, r)' <=> Reaches({"insert", "insert_ref"}, r)
        /\ Reaches({"insert_ref", "insert_flag", "join"}, r)' <=> Reaches({"insert_ref", "insert_flag", "join"}, r)
    BY <1>3, <2>1
  <2> QED BY <2>2 DEF Newest, Entering
<1>5. ASSUME NEW r \in Slots  PROVE SlotLife(r)'
  <2>1. Owners(r) # 0 => Undisturbed(r)
    <3> SUFFICES ASSUME Owners(r) # 0 PROVE Undisturbed(r)
      OBVIOUS
    <3>1. sess'[r].disconnectFlag = 1 => sess[r].disconnectFlag = 1
      BY DEF Harmless
    <3>2. \A p \in pending' : p.s = r => \E q \in pending : q.s = r
      BY DEF Harmless
    <3>3. \A i \in 1 .. Len(port') : port'[i].s = r =>
             (\E q \in pending : q.s = r) \/ (\E j \in 1 .. Len(port) : port[j].s = r)
      BY DEF Harmless
    <3>4. ASSUME NEW u \in Threads \ {Main}, Occ(todo'[u], FramesWith(UseOps, r)) # 0
          PROVE  \/ Count(u, UseOps, r) # 0 /\ ~(u = Acceptor /\ Entering(r))
                 \/ u = Acceptor /\ Entering(r)'
      <4>1. CASE u # t
        <5>1. Count(u, UseOps, r) # 0
          BY <3>4, <4>1 DEF Calm, Count
        <5> QED BY <1>4, <5>1
      <4>2. CASE u = t
        <5>1. Count(u, UseOps, r) # 0
          BY <3>4, <4>2 DEF Calm
        <5> QED BY <1>4, <5>1
      <4> QED BY <4>1, <4>2
    <3> QED BY <3>1, <3>2, <3>3, <3>4 DEF Undisturbed
  <2>2. SlotLife(r)
    BY DEF Life
  <2>3. \A op \in {"reclaim", "push_slot", "insert_ref"} : Has(op, r)' = Has(op, r)
    BY DEF Calm
  <2>4. UNCHANGED <<indexStack, lanId>> /\ sess'[r].Index = sess[r].Index /\ "disconnectFlag" \in DOMAIN sess'[r]
    BY DEF Harmless
  <2> QED BY <1>4, <2>1, <2>2, <2>3, <2>4, SlotKept
<1>6. Known' = Known
  BY <1>4, KnownKept DEF Harmless
<1>7. Informed'
  <2>1. \A c \in Conns : idOf'[c] = NoId \/ Told(idOf'[c])
    BY DEF Harmless, Life, Informed
  <2>2. ASSUME NEW u \in Users, todo'[u] # <<>>
        PROVE  /\ Without(Tail(todo'[u]), AskOps)
               /\ Head(todo'[u]).op \in AskOps => arg'[u].id # NoId /\ Told(arg'[u].id)
    <3>1. CASE u = t
      BY <2>2, <3>1 DEF Calm
    <3>2. CASE u # t
      <4>1. u \in Threads \ {t}
        BY <3>2 DEF Threads
      <4>2. todo'[u] = todo[u] /\ arg'[u] = arg[u]
        BY <3>2, <4>1 DEF Calm
      <4> QED BY <2>2, <4>2 DEF Life, Informed
    <3> QED BY <3>1, <3>2
  <2>3. DOMAIN arg' = Threads
    BY DEF Calm
  <2> QED BY <1>6, <2>1, <2>2, <2>3 DEF Informed, Told
<1>8. lanId' \in Nat
  BY DEF Harmless, Life
<1> QED BY <1>1, <1>2, <1>5, <1>7, <1>8 DEF Life

WorkOps ==
  (UseOps \ {"callback"}) \cup AskOps \cup {"release", "disc_cas"}
OwnOps == {"reclaim", "push_slot"}

LEMMA WorkApart ==
  /\ WorkOps \cap BeginOps = {} /\ WorkOps \cap OwnOps = {} /\ WorkOps \cap {"leave", "drain"} = {}
  /\ "callback" \notin BeginOps \cup OwnOps /\ "conn_ref" \notin WorkOps /\ "insert_ref" \in BeginOps
BY DEF WorkOps, BeginOps, OwnOps, AskOps, UseOps

LEMMA NoneOf ==
  ASSUME NEW W, NEW ops \in Seq(W), NEW O, W \cap O = {}
  PROVE  Occ(ops, O) = 0
<1>1. \A i \in 1 .. Len(ops) : ops[i] \notin O
  OBVIOUS
<1> QED BY <1>1, PositionsFinite

(* A thread that goes on with ops calmly. *)
LEMMA CalmThen ==
  ASSUME IInv, Life, NEW t \in Threads, NEW op, At(t, op), op \notin BeginOps \cup OwnOps,
         NEW W \in SUBSET (WorkOps \cup {"callback"}), NEW ops \in Seq(W), Then(t, ops),
         t # Main \/ W = {}, "callback" \notin W \/ t \notin Users,
         \/ W \cap UseOps = {}
         \/ /\ Owners(Slot(t)) = 0
            /\ \/ op \in UseOps \ {"callback"}
               \/ ops # <<>> /\ ops[Len(ops)] \in {"release", "callback"},
         \/ W \cap AskOps = {}
         \/ op \in AskOps /\ Len(ops) = 1 /\ arg'[t] = arg[t]
         \/ t \notin Users /\ ops # <<>> /\ ops[Len(ops)] = "callback",
         DOMAIN arg' = Threads, \A u \in Users \ {t} : arg'[u] = arg[u]
  PROVE  Calm(t) /\ Disciplined(t)'
<1>1. PICK A : Lists(A) /\ todo[t] \in Seq(Todo(A, Slots))
  BY ListOf
<1>2. todo[t] # <<>> /\ Head(todo[t]).op = op
  BY DEF At
<1>3. Disciplined(t)'
  <2>1. W \cap Banned(t) = {}
    <3>1. W \cap BeginOps = {} /\ "conn_ref" \notin W
      BY WorkApart
    <3> QED BY <3>1 DEF Banned
  <2>2. W \cap {"leave", "drain"} = {}
    BY WorkApart
  <2>3. Disciplined(t)
    BY DEF Life
  <2> QED BY <2>1, <2>2, <2>3, ThenDisciplined
<1>4. /\ todo'[t] = Frames(ops, Slot(t)) \o Tail(todo[t])
      /\ \A u \in Threads \ {t} : todo'[u] = todo[u]
      /\ \A O, r :
           /\ Occ(ops, O) \in Nat /\ InThreads(todo, O, r) \in Nat /\ Count(t, O, r) \in Nat
           /\ InThreads(todo', O, r) = InThreads(todo, O, r)
                + (IF r = Slot(t) THEN Occ(ops, O) - (IF op \in O THEN 1 ELSE 0) ELSE 0)
           /\ Occ(todo'[t], FramesWith(O, r)) = Count(t, O, r)
                + (IF r = Slot(t) THEN Occ(ops, O) - (IF op \in O THEN 1 ELSE 0) ELSE 0)
  BY ThenNew, ThenCounts
<1>5. ASSUME NEW o \in {"reclaim", "push_slot", "insert_ref"}, NEW r \in Slots
      PROVE  Has(o, r)' = Has(o, r)
  <2>1. Occ(ops, {o}) = 0
    <3>1. W \cap {o} = {}
      BY WorkApart DEF OwnOps
    <3> QED BY <3>1, NoneOf
  <2>2. op \notin {o}
    BY WorkApart DEF OwnOps
  <2>3. InThreads(todo', {o}, r) = InThreads(todo, {o}, r)
    BY <1>4, <2>1, <2>2
  <2> QED BY <2>3 DEF Has
<1>6. ASSUME t = Acceptor
      PROVE  Without(todo[t], BeginOps) /\ Without(todo'[t], BeginOps)
  <2>1. Without(todo[t], BeginOps)
    BY <1>6, Beginning
  <2>2. Without(Tail(todo[t]), BeginOps)
    BY <1>1, <1>2, <2>1, TailWithout
  <2>3. W \cap BeginOps = {}
    BY WorkApart
  <2> QED BY <2>1, <2>2, <2>3, ThenWithout
<1>7. ASSUME NEW r \in Slots, Occ(todo'[t], FramesWith(UseOps, r)) # 0
      PROVE  Count(t, UseOps, r) # 0 \/ Owners(r) = 0
  <2>1. CASE W \cap UseOps = {}
    <3>1. Occ(ops, UseOps) = 0
      BY <2>1, NoneOf
    <3>2. PICK a, b, c : /\ a = Occ(todo'[t], FramesWith(UseOps, r)) /\ b = Count(t, UseOps, r)
                         /\ c = Occ(ops, UseOps)
      OBVIOUS
    <3>3. b \in Nat /\ a = b + (IF r = Slot(t) THEN c - (IF op \in UseOps THEN 1 ELSE 0) ELSE 0)
      BY <1>4, <3>2
    <3>4. c = 0 /\ a # 0 /\ a \in Nat
      <4>1. a \in Nat
        <5>1. PICK B : todo'[t] \in Seq(Todo(B, Slots))
          BY ThenTyped
        <5> QED BY <3>2, <5>1, PositionsFinite
      <4> QED BY <1>7, <3>1, <3>2, <4>1
    <3> QED BY <3>2, <3>3, <3>4
  <2>2. CASE Owners(Slot(t)) = 0
    BY <1>4, <1>7, <2>2
  <2> QED BY <2>1, <2>2
<1>8. ASSUME t \in Users, todo'[t] # <<>>
      PROVE  /\ Without(Tail(todo'[t]), AskOps)
             /\ Head(todo'[t]).op \in AskOps => arg'[t].id # NoId /\ Told(arg'[t].id)
  <2>1. PICK B : todo'[t] \in Seq(Todo(B, Slots))
    BY ThenTyped
  <2>2. Without(Tail(todo[t]), AskOps) /\ (op \in AskOps => arg[t].id # NoId /\ Told(arg[t].id))
    BY <1>2, <1>8 DEF Life, Informed
  <2>3. CASE W \cap AskOps = {}
    <3>1. Without(todo'[t], AskOps)
      BY <2>2, <2>3, ThenWithout
    <3> QED BY <1>8, <2>1, <3>1, TailWithout
  <2>4. CASE op \in AskOps /\ Len(ops) = 1 /\ arg'[t] = arg[t]
    <3>1. PICK f, z : f = Frames(ops, Slot(t)) /\ z = Tail(todo[t]) /\ Len(f) = 1
      <4>1. Len(Frames(ops, Slot(t))) = Len(ops)
        BY FramesList
      <4> QED BY <2>4, <4>1
    <3>2. Tail(f \o z) = z
      <4>1. \E S : f \in Seq(S) /\ z \in Seq(S)
        <5>1. PICK U, V : U = Todo(A, Slots) /\ V = Todo(W, {Slot(t)})
          OBVIOUS
        <5>2. f \in Seq(V) /\ z \in Seq(U)
          <6>1. f \in Seq(V)
            BY <3>1, <5>1, FramesList
          <6> QED BY <1>1, <1>2, <3>1, <5>1, <6>1
        <5>3. f \in Seq(U \cup V) /\ z \in Seq(U \cup V)
          <6>1. U \subseteq U \cup V /\ V \subseteq U \cup V
            OBVIOUS
          <6> QED BY <5>2, <6>1, LongerAlphabet
        <5> QED BY <5>3
      <4> QED BY <3>1, <4>1, TailAfterOne
    <3>3. Without(Tail(todo'[t]), AskOps)
      BY <1>4, <2>2, <3>1, <3>2
    <3> QED BY <2>2, <2>4, <3>3
  <2> QED BY <1>8, <2>3, <2>4
<1>9. \A u \in Threads \ {t} : todo'[u] = todo[u]
  BY <1>4
<1> QED BY <1>3, <1>5, <1>6, <1>7, <1>8, <1>9 DEF Calm

-----------------------------------------------------------------------------
(* THE STEPS OF THOSE WHO USE A SESSION *)

SameFlags ==
  \A r \in Slots : /\ "disconnectFlag" \in DOMAIN sess'[r] /\ sess'[r].Index = sess[r].Index
                   /\ sess'[r].disconnectFlag = sess[r].disconnectFlag

LEMMA FieldsAre ==
  ASSUME IInv, Life
  PROVE  DOMAIN sess = Slots /\ \A r \in Slots : {"disconnectFlag", "Index", "iocpCount"} \subseteq DOMAIN sess[r]
BY Parts DEF IInv, LanSound, Sound, Life, SlotLife

LEMMA FlagsKept ==
  ASSUME IInv, Life, NEW t \in Threads, Slot(t) \in Slots,
         \/ UNCHANGED sess
         \/ Release(t) \/ PostCAS(t) \/ PeekFill(t) \/ PostUnset(t) \/ WSASend(t) \/ SendFailed(t)
         \/ DequeueSent(t) \/ FlagDec(t) \/ Drain(t) \/ RecvPost(t) \/ AcquireInc(t) \/ Push(t)
         \/ InsertRef(t)
  PROVE  SameFlags
<1> USE FieldsAre DEF SameFlags
<1>0. CASE UNCHANGED sess
  BY <1>0
<1>1. CASE Release(t)
  BY <1>1 DEF Release
<1>2. CASE PostCAS(t)
  BY <1>2 DEF PostCAS
<1>3. CASE PeekFill(t)
  BY <1>3 DEF PeekFill
<1>4. CASE PostUnset(t)
  BY <1>4 DEF PostUnset, Update
<1>5. CASE WSASend(t)
  BY <1>5 DEF WSASend
<1>6. CASE SendFailed(t)
  BY <1>6 DEF SendFailed, Update
<1>7. CASE DequeueSent(t)
  BY <1>7 DEF DequeueSent, Update
<1>8. CASE FlagDec(t)
  BY <1>8 DEF FlagDec, Update
<1>9. CASE Drain(t)
  BY <1>9 DEF Drain, Update
<1>10. CASE RecvPost(t)
  BY <1>10 DEF RecvPost
<1>11. CASE AcquireInc(t)
  BY <1>11 DEF AcquireInc
<1>12. CASE Push(t)
  BY <1>12 DEF Push
<1>13. CASE InsertRef(t)
  BY <1>13 DEF InsertRef, Update
<1> QED BY <1>0, <1>1, <1>2, <1>3, <1>4, <1>5, <1>6, <1>7, <1>8, <1>9, <1>10, <1>11, <1>12, <1>13

LEMMA SameHarmless ==
  ASSUME SameFlags, UNCHANGED <<indexStack, lanId, idOf, pending, port>>
  PROVE  Harmless
BY DEF SameFlags, Harmless

LEMMA NotMain ==
  ASSUME IInv, Life, NEW t \in Threads, NEW op, At(t, op),
         op \in (UseOps \ {"shutdown"}) \cup AskOps \cup {"release"}
  PROVE  t # Main /\ (op = "callback" => t \notin Users)
<1>1. PICK A : Lists(A) /\ todo[t] \in Seq(Todo(A, Slots))
  BY ListOf
<1>2. op \notin Banned(t)
  BY <1>1, TailWithout DEF At, Life, Disciplined
<1> QED BY <1>2 DEF Banned

LEMMA EmptyList == <<>> \in Seq({})
OBVIOUS

(* Who goes on with nothing, or with ops, after a step that is harmless. *)
LEMMA NothingLeft ==
  ASSUME IInv, IInv', Life, NEW t \in Threads, NEW op, At(t, op), op \notin BeginOps \cup OwnOps,
         Then(t, <<>>), Harmless, DOMAIN arg' = Threads, \A u \in Users \ {t} : arg'[u] = arg[u]
  PROVE  Life'
<1>1. PICK W : W = {}
  OBVIOUS
<1>2. W \in SUBSET WorkOps /\ <<>> \in Seq(W) /\ W \cap UseOps = {} /\ W \cap AskOps = {}
  BY <1>1, EmptyList
<1>3. Calm(t) /\ Disciplined(t)'
  BY <1>1, <1>2, CalmThen
<1> QED BY <1>3, CalmLife

(* Who uses the session goes on using it, in place of what it did, or until *)
(* it gives its reference back.                                             *)
LEMMA UsesOn ==
  ASSUME IInv, IInv', Life, NEW t \in Threads, NEW op, At(t, op),
         op \in UseOps \ {"shutdown"},
         NEW W, W \subseteq (UseOps \ {"callback"}) \cup {"release"}, NEW ops \in Seq(W), Then(t, ops),
         op # "callback" \/ (ops # <<>> /\ ops[Len(ops)] = "release"),
         Harmless, UNCHANGED arg
  PROVE  Life'
<1>1. t # Main
  BY NotMain
<1>2. Owners(Slot(t)) = 0
  BY <1>1, UserAt
<1>3. W \in SUBSET WorkOps /\ W \cap AskOps = {}
  BY DEF WorkOps, UseOps, AskOps
<1>4. op \notin BeginOps \cup OwnOps
  BY DEF BeginOps, OwnOps, UseOps
<1>5. DOMAIN arg' = Threads /\ \A u \in Users \ {t} : arg'[u] = arg[u]
  BY DEF Life, Informed
<1>6. Calm(t) /\ Disciplined(t)'
  BY <1>1, <1>2, <1>3, <1>4, <1>5, CalmThen
<1> QED BY <1>6, CalmLife

LEMMA ArgKept ==
  ASSUME Life, UNCHANGED arg
  PROVE  DOMAIN arg' = Threads /\ \A u : arg'[u] = arg[u]
BY DEF Life, Informed

LEMMA SlotAt ==
  ASSUME IInv, NEW t \in Threads, NEW op, At(t, op)
  PROVE  Slot(t) \in Slots
BY AtOp DEF IInv, LanSound

LEMMA FlagHarmless ==
  ASSUME IInv, Life, NEW s \in Slots, Owners(s) = 0,
         sess' = [sess EXCEPT ![s].disconnectFlag = 1],
         UNCHANGED <<indexStack, lanId, idOf, pending, port>>
  PROVE  Harmless
BY FieldsAre DEF Harmless

(* Steps with which a thread is done. *)
LEMMA LastSteps ==
  ASSUME IInv, IInv', Life, NEW t \in Threads, UNCHANGED lan,
         Flag(t) \/ Shutdown(t) \/ PostUnset(t) \/ SendFailed(t) \/ DequeueSent(t) \/ FlagDec(t) \/ Drain(t)
  PROVE  Life'
<1> USE DEF lan
<1>1. DOMAIN arg' = Threads /\ \A u \in Users \ {t} : arg'[u] = arg[u]
  BY ArgKept
<1>2. CASE Flag(t)
  <2>1. At(t, "flag") /\ Then(t, <<>>) /\ UNCHANGED <<pending, port>>
        /\ sess' = [sess EXCEPT ![Slot(t)].disconnectFlag = 1]
    BY <1>2 DEF Flag, Update, OnlySession, kernel
  <2>2. "flag" \in UseOps \ {"shutdown"} /\ "flag" \notin BeginOps \cup OwnOps
    BY DEF UseOps, BeginOps, OwnOps
  <2>3. Slot(t) \in Slots /\ Owners(Slot(t)) = 0
    BY <2>1, <2>2, NotMain, UserAt
  <2>4. Harmless
    BY <2>1, <2>3, FlagHarmless
  <2> QED BY <1>1, <2>1, <2>2, <2>4, NothingLeft
<1>3. CASE Shutdown(t) \/ PostUnset(t) \/ SendFailed(t) \/ DequeueSent(t) \/ FlagDec(t) \/ Drain(t)
  <2>1. PICK op \in {"shutdown", "post_unset", "send_failed", "free_sent", "flag_dec", "drain"} :
          At(t, op) /\ Then(t, <<>>) /\ UNCHANGED <<pending, port>>
    BY <1>3 DEF Shutdown, PostUnset, SendFailed, DequeueSent, FlagDec, Drain, Update, OnlySession, kernel
  <2>2. op \notin BeginOps \cup OwnOps
    BY DEF BeginOps, OwnOps
  <2>3. UNCHANGED sess \/ PostUnset(t) \/ SendFailed(t) \/ DequeueSent(t) \/ FlagDec(t) \/ Drain(t)
    BY <1>3 DEF Shutdown
  <2>4. SameFlags
    BY <2>1, <2>3, SlotAt, FlagsKept
  <2>5. Harmless
    BY <2>1, <2>4, SameHarmless
  <2> QED BY <1>1, <2>1, <2>2, <2>5, NothingLeft
<1> QED BY <1>2, <1>3

GoOn == (UseOps \ {"callback"}) \cup {"release"}

LEMMA GoOnLists ==
  /\ <<>> \in Seq(GoOn) /\ <<"post_test">> \in Seq(GoOn) /\ <<"post_cas">> \in Seq(GoOn)
  /\ <<"post_fill">> \in Seq(GoOn) /\ <<"post_unset">> \in Seq(GoOn) /\ <<"wsa_send">> \in Seq(GoOn)
  /\ <<"recv_post", "release">> \in Seq(GoOn) /\ <<"release">> \in Seq(GoOn)
  /\ <<"flag", "shutdown", "release">> \in Seq(GoOn)
  /\ <<"send_failed", "flag", "shutdown", "release">> \in Seq(GoOn)
  /\ {"send_test", "post_test", "post_cas", "post_fill", "callback", "recv_post", "wsa_send"}
       \subseteq UseOps \ {"shutdown"}
BY DEF GoOn, UseOps

LEMMA GoesOn ==
  ASSUME IInv, IInv', Life, NEW t \in Threads, UNCHANGED lan, NEW op \in UseOps \ {"shutdown"},
         At(t, op), NEW ops \in Seq(GoOn), Then(t, ops),
         op # "callback" \/ (ops # <<>> /\ ops[Len(ops)] = "release"),
         SameFlags, UNCHANGED port, \A p \in pending' : p \in pending \/ p.s = Slot(t)
  PROVE  Life'
<1>1. t # Main
  BY NotMain
<1>2. Owners(Slot(t)) = 0
  BY <1>1, UserAt
<1>3. Harmless
  BY <1>2 DEF SameFlags, Harmless, lan
<1>4. GoOn \subseteq (UseOps \ {"callback"}) \cup {"release"}
  BY DEF GoOn
<1> QED BY <1>3, <1>4, UsesOn DEF lan

(* Steps of sendPost, and of a callback that returns. *)
LEMMA SendSteps ==
  ASSUME IInv, IInv', Life, NEW t \in Threads, UNCHANGED lan,
         SendTest(t) \/ PostTest(t) \/ PostCAS(t) \/ PeekFill(t) \/ CallbackEnds(t) \/ CallbackThrows(t)
  PROVE  Life'
<1>1. CASE SendTest(t)
  <2>1. PICK ops \in Seq(GoOn) : Then(t, ops)
    BY <1>1, GoOnLists DEF SendTest, Test
  <2>2. At(t, "send_test") /\ UNCHANGED <<sess, pending, port>>
    BY <1>1 DEF SendTest, Test, OnlyThread, OnlySession, kernel
  <2>3. SameFlags
    BY <2>2, SlotAt, FlagsKept
  <2> QED BY <2>1, <2>2, <2>3, GoOnLists, GoesOn
<1>2. CASE PostTest(t)
  <2>1. PICK ops \in Seq(GoOn) : Then(t, ops)
    BY <1>2, GoOnLists DEF PostTest, Test
  <2>2. At(t, "post_test") /\ UNCHANGED <<sess, pending, port>>
    BY <1>2 DEF PostTest, Test, OnlyThread, OnlySession, kernel
  <2>3. SameFlags
    BY <2>2, SlotAt, FlagsKept
  <2> QED BY <2>1, <2>2, <2>3, GoOnLists, GoesOn
<1>3. CASE PostCAS(t)
  <2>1. PICK ops \in Seq(GoOn) : Then(t, ops)
    BY <1>3, GoOnLists DEF PostCAS
  <2>2. At(t, "post_cas") /\ UNCHANGED <<pending, port>>
    BY <1>3 DEF PostCAS, OnlySession, kernel
  <2>3. SameFlags
    BY <1>3, <2>2, SlotAt, FlagsKept
  <2> QED BY <2>1, <2>2, <2>3, GoOnLists, GoesOn
<1>4. CASE PeekFill(t)
  <2>1. PICK ops \in Seq(GoOn) : Then(t, ops)
    BY <1>4, GoOnLists DEF PeekFill, AfterFill
  <2>2. At(t, "post_fill") /\ UNCHANGED <<pending, port>>
    BY <1>4 DEF PeekFill, kernel
  <2>3. SameFlags
    BY <1>4, <2>2, SlotAt, FlagsKept
  <2> QED BY <2>1, <2>2, <2>3, GoOnLists, GoesOn
<1>5. CASE CallbackEnds(t) \/ CallbackThrows(t)
  <2>1. PICK ops \in Seq(GoOn) : Then(t, ops) /\ ops # <<>> /\ ops[Len(ops)] = "release"
    <3>1. CASE CallbackEnds(t)
      <4>1. PICK ops \in Seq(GoOn) : ops = AfterCallback /\ ops # <<>> /\ ops[Len(ops)] = "release"
        BY GoOnLists DEF AfterCallback
      <4>2. Then(t, ops)
        BY <3>1, <4>1 DEF CallbackEnds
      <4> QED BY <4>1, <4>2
    <3>2. CASE CallbackThrows(t)
      <4>1. PICK ops \in Seq(GoOn) : ops = AfterThrow /\ ops # <<>> /\ ops[Len(ops)] = "release"
        BY GoOnLists DEF AfterThrow
      <4>2. Then(t, ops)
        BY <3>2, <4>1 DEF CallbackThrows
      <4> QED BY <4>1, <4>2
    <3> QED BY <1>5, <3>1, <3>2
  <2>2. At(t, "callback") /\ UNCHANGED <<sess, pending, port>>
    BY <1>5 DEF CallbackEnds, CallbackThrows, OnlyThread, OnlySession, kernel
  <2>3. SameFlags
    BY <2>2, SlotAt, FlagsKept
  <2> QED BY <2>1, <2>2, <2>3, GoOnLists, GoesOn
<1> QED BY <1>1, <1>2, <1>3, <1>4, <1>5

(* Steps that begin an operation. *)
LEMMA OperationSteps ==
  ASSUME IInv, IInv', Life, NEW t \in Threads, UNCHANGED lan, RecvPost(t) \/ WSASend(t)
  PROVE  Life'
<1>1. CASE RecvPost(t)
  <2>1. PICK ops \in Seq(GoOn) : Then(t, ops)
    BY <1>1, GoOnLists DEF RecvPost
  <2>2. At(t, "recv_post") /\ UNCHANGED port
    BY <1>1 DEF RecvPost
  <2>3. \A p \in pending' : p \in pending \/ p.s = Slot(t)
    BY <1>1 DEF RecvPost
  <2>4. SameFlags
    BY <1>1, <2>2, SlotAt, FlagsKept
  <2> QED BY <2>1, <2>2, <2>3, <2>4, GoOnLists, GoesOn
<1>2. CASE WSASend(t)
  <2>1. PICK ops \in Seq(GoOn) : Then(t, ops)
    BY <1>2, GoOnLists DEF WSASend
  <2>2. At(t, "wsa_send") /\ UNCHANGED port
    BY <1>2 DEF WSASend
  <2>3. \A p \in pending' : p \in pending \/ p.s = Slot(t)
    <3>1. PICK m, p : /\ m = SubSeq(wbuf[t], 1, sess[Slot(t)].sendCount)
                      /\ p = [s |-> Slot(t), c |-> sess[Slot(t)].Sock, op |-> "send", msgs |-> m]
      OBVIOUS
    <3>2. pending' = pending \cup {p} \/ pending' = pending
      BY <1>2, <3>1 DEF WSASend
    <3>3. p.s = Slot(t)
      BY <3>1
    <3> QED BY <3>2, <3>3
  <2>4. SameFlags
    BY <1>2, <2>2, SlotAt, FlagsKept
  <2> QED BY <2>1, <2>2, <2>3, <2>4, GoOnLists, GoesOn
<1> QED BY <1>1, <1>2

LEMMA ReleaseLife ==
  ASSUME IInv, IInv', Life, NEW t \in Threads, UNCHANGED lan, Release(t)
  PROVE  Life'
<1>1. PICK W, ops : /\ W = {"disc_cas"} /\ ops \in Seq(W) /\ Then(t, ops)
                    /\ At(t, "release") /\ UNCHANGED <<pending, port>>
  <2>1. <<"disc_cas">> \in Seq({"disc_cas"}) /\ <<>> \in Seq({"disc_cas"})
    OBVIOUS
  <2> QED BY <2>1 DEF Release, OnlySession, kernel
<1>2. W \in SUBSET WorkOps /\ W \cap UseOps = {} /\ W \cap AskOps = {} /\ "release" \notin BeginOps \cup OwnOps
  BY <1>1 DEF WorkOps, UseOps, AskOps, BeginOps, OwnOps
<1>3. Harmless
  BY <1>1, SlotAt, FlagsKept, SameHarmless DEF lan
<1>4. DOMAIN arg' = Threads /\ \A u \in Users \ {t} : arg'[u] = arg[u]
  BY ArgKept DEF lan
<1>5. t # Main
  BY <1>1, NotMain
<1>6. Calm(t) /\ Disciplined(t)'
  BY <1>1, <1>2, <1>4, <1>5, CalmThen
<1> QED BY <1>3, <1>6, CalmLife

-----------------------------------------------------------------------------
(* ACQUIRING *)

LEMMA ForgetKeeps ==
  ASSUME Life, NEW t \in Threads, Forget(t)
  PROVE  DOMAIN arg' = Threads /\ \A u \in Users \ {t} : arg'[u] = arg[u]
BY DEF Forget, Life, Informed

(* A caller that looks on, or gives its reference back. *)
LEMMA AsksOn ==
  ASSUME IInv, IInv', Life, NEW t \in Threads, NEW op \in AskOps, At(t, op),
         NEW a, a \in AskOps, (Then(t, <<"release">>) /\ Forget(t)) \/ (Then(t, <<a>>) /\ UNCHANGED arg),
         Harmless
  PROVE  Life'
<1>1. t # Main
  BY NotMain
<1>2. op \notin BeginOps \cup OwnOps
  BY DEF AskOps, BeginOps, OwnOps
<1>3. CASE Then(t, <<"release">>) /\ Forget(t)
  <2>1. PICK W, ops : W = {"release"} /\ ops = <<"release">> /\ ops \in Seq(W) /\ Then(t, ops)
    <3>1. <<"release">> \in Seq({"release"})
      OBVIOUS
    <3> QED BY <1>3, <3>1
  <2>2. W \in SUBSET WorkOps /\ W \cap UseOps = {} /\ W \cap AskOps = {}
    BY <2>1 DEF WorkOps, UseOps, AskOps
  <2>3. DOMAIN arg' = Threads /\ \A u \in Users \ {t} : arg'[u] = arg[u]
    BY <1>3, ForgetKeeps
  <2>4. Calm(t) /\ Disciplined(t)'
    BY <1>1, <1>2, <2>1, <2>2, <2>3, CalmThen
  <2> QED BY <2>4, CalmLife
<1>4. CASE Then(t, <<a>>) /\ UNCHANGED arg
  <2>1. PICK W, ops : W = {a} /\ ops = <<a>> /\ ops \in Seq(W) /\ Then(t, ops) /\ Len(ops) = 1
    <3>1. <<a>> \in Seq({a}) /\ Len(<<a>>) = 1
      OBVIOUS
    <3> QED BY <1>4, <3>1
  <2>2. W \in SUBSET WorkOps /\ W \cap UseOps = {} /\ "callback" \notin W
    BY <2>1 DEF WorkOps, UseOps, AskOps
  <2>3. DOMAIN arg' = Threads /\ \A u : arg'[u] = arg[u]
    BY <1>4, ArgKept
  <2>4. Calm(t) /\ Disciplined(t)'
    BY <1>1, <1>2, <2>1, <2>2, <2>3, CalmThen
  <2> QED BY <2>4, CalmLife
<1> QED BY <1>3, <1>4

LEMMA AcquireLife ==
  ASSUME IInv, IInv', Life, NEW t \in Threads, AcquireInc(t) \/ AcquireCheckId(t)
  PROVE  Life'
<1>1. CASE AcquireInc(t)
  <2>1. At(t, "acquire") /\ UNCHANGED <<pending, port, indexStack, lanId, idOf>>
    BY <1>1 DEF AcquireInc, OnlySession, OnlyArg, kernel
  <2>2. (Then(t, <<"release">>) /\ Forget(t)) \/ (Then(t, <<"check_id">>) /\ UNCHANGED arg)
    BY <1>1 DEF AcquireInc
  <2>3. SameFlags
    BY <1>1, <2>1, SlotAt, FlagsKept
  <2>4. Harmless
    BY <2>1, <2>3, SameHarmless
  <2>5. "acquire" \in AskOps /\ "check_id" \in AskOps
    BY DEF AskOps
  <2> QED BY <2>1, <2>2, <2>4, <2>5, AsksOn
<1>2. CASE AcquireCheckId(t)
  <2>1. At(t, "check_id") /\ UNCHANGED <<sess, pending, port, indexStack, lanId, idOf>>
    BY <1>2 DEF AcquireCheckId, OnlyThread, OnlySession, OnlyArg, kernel
  <2>2. (Then(t, <<"release">>) /\ Forget(t)) \/ (Then(t, <<"check_flag">>) /\ UNCHANGED arg)
    BY <1>2 DEF AcquireCheckId
  <2>3. SameFlags
    BY <2>1, SlotAt, FlagsKept
  <2>4. Harmless
    BY <2>1, <2>3, SameHarmless
  <2>5. "check_flag" \in AskOps /\ "check_id" \in AskOps
    BY DEF AskOps
  <2> QED BY <2>1, <2>2, <2>4, <2>5, AsksOn
<1> QED BY <1>1, <1>2

(* Who finds the session it looks for, while nobody tears it down, has it to *)
(* itself.                                                                   *)
LEMMA FoundApart ==
  ASSUME IInv, Life, NEW t \in Threads, At(t, "check_flag"),
         sess[Slot(t)].Index = arg[t].id, \A u \in Threads : ~Tearing(u, Slot(t))
  PROVE  Owners(Slot(t)) = 0
<1>1. PICK s : s = Slot(t) /\ s \in Slots
  BY SlotAt
<1>2. "check_flag" \in AskOps /\ t # Main
  BY NotMain DEF AskOps
<1>3. SUFFICES ASSUME Owners(s) # 0 PROVE FALSE
  BY <1>1
<1>4. Owners(s) = 1 /\ Quiet(s)
  BY <1>1, <1>3, OneOwner
<1>5. CASE t \in Users
  <2>1. arg[t].id # NoId /\ Told(arg[t].id)
    BY <1>2, <1>5 DEF At, Life, Informed
  <2>2. Has("reclaim", s) = 0
    <3>1. SUFFICES ASSUME Has("reclaim", s) # 0 PROVE FALSE
      OBVIOUS
    <3>2. PICK u \in Threads : Count(u, {"reclaim"}, s) # 0
      BY <3>1, SomeoneHas
    <3>3. Count(u, TeardownOps, s) # 0 /\ Count(u, TeardownOps, s) \in Nat
      BY <3>2, CountMore, SomeFrame DEF TeardownOps
    <3> QED BY <1>1, <3>3 DEF Tearing
  <2>3. Named(s)
    BY <1>1 DEF Life, SlotLife
  <2>4. Occ(indexStack, {s}) = 0 /\ Has("push_slot", s) = 0
    BY <1>1, <2>1, <2>3 DEF Named
  <2>5. Has("insert_ref", s) # 0
    BY <1>4, <2>2, <2>4, OwnersNat DEF Owners
  <2>6. Entering(s) /\ ~Reaches({"insert"}, s)
    BY <1>1, <2>1, <2>3, <2>5, InsertRefAt DEF Named
  <2>7. Newest(s)
    BY <2>6 DEF Entering, Newest, Reaches
  <2>8. arg[t].id = Id(s, lanId - 1) /\ Known = lanId - 1
    BY <1>1, <2>3, <2>7 DEF Named, Known
  <2>9. Id(s, lanId - 1).net = lanId - 1
    BY DEF Id
  <2> QED BY <2>1, <2>8, <2>9 DEF Told, Life
<1>6. CASE t \notin Users
  <2>1. Count(t, AskOps, s) # 0
    BY <1>1, <1>2, HeadCounts
  <2>2. Count(t, {"callback"}, s) # 0
    <3>1. PICK A : Lists(A) /\ todo[t] \in Seq(Todo(A, Slots))
      BY ListOf
    <3>2. Guarded(todo[t], AskOps, {"callback"})
      BY <1>6 DEF Life, Disciplined
    <3> QED BY <2>1, <3>1, <3>2, GuardCounts DEF Count
  <2>3. Count(t, UseOps, s) # 0
    BY <2>2, CountMore DEF UseOps
  <2>4. ~(t = Acceptor /\ Entering(s))
    BY <1>1 DEF Entering, Reaches, At
  <2> QED BY <1>2, <1>4, <2>3, <2>4 DEF Quiet
<1> QED BY <1>5, <1>6

LEMMA CheckFlagLife ==
  ASSUME IInv, IInv', Life, NEW t \in Threads, AcquireCheckFlag(t), early' = {}
  PROVE  Life'
<1>1. At(t, "check_flag") /\ UNCHANGED <<sess, pending, port, indexStack, lanId, idOf>>
  BY DEF AcquireCheckFlag, OnlyThread, OnlySession, kernel
<1>2. t # Main /\ "check_flag" \notin BeginOps \cup OwnOps /\ "check_flag" \in AskOps
  BY <1>1, NotMain DEF AskOps, BeginOps, OwnOps
<1>3. Harmless
  BY <1>1, SlotAt, FlagsKept, SameHarmless
<1>4. DOMAIN arg' = Threads /\ \A u \in Users \ {t} : arg'[u] = arg[u]
  BY ForgetKeeps, ArgKept DEF AcquireCheckFlag
<1>5. CASE sess[Slot(t)].disconnectFlag = 1
  <2>1. PICK W, ops : W = {"disc_cas"} /\ ops \in Seq(W) /\ Then(t, ops)
    <3>1. <<"disc_cas">> \in Seq({"disc_cas"})
      OBVIOUS
    <3> QED BY <1>5, <3>1 DEF AcquireCheckFlag
  <2>2. W \in SUBSET WorkOps /\ W \cap UseOps = {} /\ W \cap AskOps = {}
    BY <2>1 DEF WorkOps, UseOps, AskOps
  <2>3. Calm(t) /\ Disciplined(t)'
    BY <1>1, <1>2, <1>4, <2>1, <2>2, CalmThen
  <2> QED BY <1>3, <2>3, CalmLife
<1>6. CASE sess[Slot(t)].disconnectFlag # 1
  <2>1. PICK W, ops : /\ W = {"flag", "shutdown", "push", "send_test", "release"} /\ ops \in Seq(W)
                      /\ ops # <<>> /\ ops[Len(ops)] = "release" /\ Then(t, ops)
    <3>1. PICK ops : ops = Body(arg[t].call)
      OBVIOUS
    <3>2. /\ ops \in Seq({"flag", "shutdown", "push", "send_test", "release"})
          /\ ops # <<>> /\ ops[Len(ops)] = "release"
      <4>1. CASE ops = <<"flag", "shutdown", "release">>
        BY <4>1
      <4>2. CASE ops = <<"push", "send_test", "release">>
        BY <4>2
      <4> QED BY <3>1, <4>1, <4>2 DEF Body
    <3>3. Then(t, ops)
      BY <1>6, <3>1 DEF AcquireCheckFlag
    <3> QED BY <3>2, <3>3
  <2>2. W \in SUBSET WorkOps /\ W \cap AskOps = {}
    BY <2>1 DEF WorkOps, UseOps, AskOps
  <2>3. sess[Slot(t)].Index = arg[t].id /\ \A u \in Threads : ~Tearing(u, Slot(t))
    BY <1>6 DEF AcquireCheckFlag
  <2>4. Owners(Slot(t)) = 0
    BY <1>1, <2>3, FoundApart
  <2>5. Calm(t) /\ Disciplined(t)'
    BY <1>1, <1>2, <1>4, <2>1, <2>2, <2>4, CalmThen
  <2> QED BY <1>3, <2>5, CalmLife
<1> QED BY <1>5, <1>6

LEMMA PushLeaveLife ==
  ASSUME IInv, IInv', Life, NEW t \in Threads, Push(t) \/ Leave(t)
  PROVE  Life'
<1>1. CASE Push(t)
  <2>1. At(t, "push") /\ Then(t, <<>>) /\ UNCHANGED <<pending, port, indexStack, lanId, idOf>>
    BY <1>1 DEF Push, OnlySession, kernel
  <2>2. SameFlags
    BY <1>1, <2>1, SlotAt, FlagsKept
  <2>3. DOMAIN arg' = Threads /\ \A u \in Users \ {t} : arg'[u] = arg[u]
    BY <1>1, ForgetKeeps DEF Push
  <2>4. "push" \notin BeginOps \cup OwnOps
    BY DEF BeginOps, OwnOps
  <2>5. Harmless
    BY <2>1, <2>2, SameHarmless
  <2> QED BY <2>1, <2>3, <2>4, <2>5, NothingLeft
<1>2. CASE Leave(t)
  <2>1. At(t, "leave") /\ Then(t, <<>>) /\ UNCHANGED <<sess, pending, port, indexStack, lanId, idOf, arg>>
    BY <1>2 DEF Leave
  <2>2. SameFlags
    BY <2>1, SlotAt, FlagsKept
  <2>3. DOMAIN arg' = Threads /\ \A u \in Users \ {t} : arg'[u] = arg[u]
    BY <2>1, ArgKept
  <2>4. "leave" \notin BeginOps \cup OwnOps
    BY DEF BeginOps, OwnOps
  <2>5. Harmless
    BY <2>1, <2>2, SameHarmless
  <2> QED BY <2>1, <2>3, <2>4, <2>5, NothingLeft
<1> QED BY <1>1, <1>2

-----------------------------------------------------------------------------
(* STEPS THAT LEAVE THE THREADS ALONE *)

(* Packets move from the sockets to the port, or nothing of this moves. *)
LEMMA ThreadsAlone ==
  ASSUME IInv, IInv', Life, UNCHANGED <<todo, sess, arg, indexStack, lanId, idOf>>,
         \A p \in pending' : p \in pending,
         \A i \in 1 .. Len(port') :
           (\E q \in pending : q.s = port'[i].s) \/ (\E j \in 1 .. Len(port) : port[j].s = port'[i].s)
  PROVE  Life'
<1>1. Main # Acceptor /\ Main \in Threads /\ Main \notin Users
  BY ThreadsFinite, AcceptorApart
<1>2. Disciplined(Main)'
  BY <1>1 DEF Life, Disciplined, Banned
<1>3. \A op, r : Has(op, r)' = Has(op, r)
  BY DEF Has
<1>4. Calm(Main)
  BY <1>1, <1>3 DEF Calm, Life, Informed
<1>5. Harmless
  BY FieldsAre DEF Harmless
<1> QED BY <1>1, <1>2, <1>4, <1>5, CalmLife

LEMMA StillLife ==
  ASSUME IInv, IInv', Life,
         UNCHANGED <<todo, sess, arg, indexStack, lanId, idOf, pending, port>>
  PROVE  Life'
BY ThreadsAlone

LEMMA KernelLife ==
  ASSUME IInv, IInv', Life, NEW p \in pending, RecvData(p) \/ KernelStep(p)
  PROVE  Life'
<1>1. PICK k, e : /\ e.s = p.s /\ port' = Append(port, e) /\ pending' = pending \ {p}
                  /\ UNCHANGED <<todo, sess, arg, indexStack, lanId, idOf>>
  <2>1. PICK k \in {0, 1} : Complete(p, k)
    BY DEF RecvData, KernelStep, SendDone, ZeroBytes
  <2>2. PICK e : e = [s |-> p.s, op |-> p.op, trans |-> k] /\ e.s = p.s
    <3>1. [s |-> p.s, op |-> p.op, trans |-> k].s = p.s
      OBVIOUS
    <3> QED BY <3>1
  <2>3. port' = Append(port, e) /\ pending' = pending \ {p} /\ UNCHANGED todo
    BY <2>1, <2>2 DEF Complete
  <2>4. UNCHANGED <<sess, arg, indexStack, lanId, idOf>>
    BY DEF RecvData, KernelStep, SendDone, ZeroBytes, lan
  <2> QED BY <2>2, <2>3, <2>4
<1>2. PICK S : port \in Seq(S)
  BY DEF IInv, LanSound, Sound, Running
<1>3. ASSUME NEW i \in 1 .. Len(port')
      PROVE  (\E q \in pending : q.s = port'[i].s) \/ (\E j \in 1 .. Len(port) : port[j].s = port'[i].s)
  <2>1. port \in Seq(S \cup {e})
    <3>1. S \subseteq S \cup {e}
      OBVIOUS
    <3> QED BY <1>2, <3>1, LongerAlphabet
  <2>2. (i \in 1 .. Len(port) /\ port'[i] = port[i]) \/ port'[i] = e
    BY <1>1, <2>1, AppendProperties
  <2> QED BY <1>1, <2>2
<1> QED BY <1>1, <1>3, ThreadsAlone
-----------------------------------------------------------------------------
(* STEPS THAT BEGIN A LIST *)

LEMMA Joined ==
  ASSUME NEW S, NEW p \in Seq(S), NEW q \in Seq(S)
  PROVE  /\ p \o q \in Seq(S) /\ Len(p \o q) = Len(p) + Len(q)
         /\ \A i \in 1 .. Len(p) + Len(q) : (p \o q)[i] = IF i <= Len(p) THEN p[i] ELSE q[i - Len(p)]
<1>1. p \o q \in Seq(S) /\ Len(p \o q) = Len(p) + Len(q)
  BY ConcatProperties
<1>2. \A i \in 1 .. Len(p) + Len(q) : (p \o q)[i] = IF i <= Len(p) THEN p[i] ELSE q[i - Len(p)]
  BY ConcatProperties
<1> QED BY <1>1, <1>2

(* A thread that has another list, calmly. *)
LEMMA CalmPut ==
  ASSUME IInv, Life, NEW t \in Threads, NEW B, NEW new \in Seq(Todo(B, Slots)),
         todo[t] = <<>>, todo' = [todo EXCEPT ![t] = new], Without(new, BeginOps \cup OwnOps),
         \A i \in 1 .. Len(new) : new[i].op \in UseOps => t = Main \/ Owners(new[i].s) = 0,
         t \in Users /\ new # <<>> =>
           /\ Without(Tail(new), AskOps)
           /\ Head(new).op \in AskOps => arg'[t].id # NoId /\ Told(arg'[t].id),
         DOMAIN arg' = Threads, \A u \in Users \ {t} : arg'[u] = arg[u]
  PROVE  Calm(t)
<1>1. PICK A : Lists(A) /\ todo[t] \in Seq(Todo(A, Slots))
  BY ListOf
<1>2. todo'[t] = new /\ \A u \in Threads \ {t} : todo'[u] = todo[u]
  BY <1>1 DEF Lists, Queues
<1>3. ASSUME NEW o \in {"reclaim", "push_slot", "insert_ref"}, NEW r \in Slots
      PROVE  Has(o, r)' = Has(o, r)
  <2>1. PICK Q, R, M : Q = todo /\ R = todo' /\ M = FramesWith({o}, r)
    OBVIOUS
  <2>2. Q \in Queues(Threads, Todo(A, Slots)) /\ Puts(Q, R, t, new)
    BY <1>1, <2>1 DEF Lists, Puts
  <2>3. /\ Total(Q, M) \in Nat
        /\ Total(R, M) = Total(Q, M) - Occ(Q[t], M) + Occ(new, M)
    BY <2>2, ListReplaced
  <2>4. Occ(new, M) = 0
    <3>1. Without(new, {o})
      BY WorkApart DEF Without, OwnOps
    <3> QED BY <2>1, <3>1, CountWithout
  <2>5. Occ(Q[t], M) = 0
    BY <2>1, OccEmpty
  <2>6. Total(R, M) = Total(Q, M)
    BY <2>3, <2>4, <2>5
  <2> QED BY <2>1, <2>6 DEF Has, InThreads
<1>4. Without(todo[t], BeginOps) /\ Without(new, BeginOps)
  BY EmptySeq DEF Without
<1>5. ASSUME NEW r \in Slots, Occ(new, FramesWith(UseOps, r)) # 0
      PROVE  t = Main \/ Owners(r) = 0
  <2>1. PICK i \in 1 .. Len(new) : new[i].op \in UseOps /\ new[i].s = r
    BY <1>5, CountSome
  <2> QED BY <2>1
<1> QED BY <1>2, <1>3, <1>4, <1>5 DEF Calm

LEMMA CallLife ==
  ASSUME IInv, IInv', Life, NEW u \in Users, Call(u)
  PROVE  Life'
<1>1. /\ u \in Threads /\ todo[u] = <<>> /\ u # Main /\ u # Acceptor
      /\ UNCHANGED <<sess, pending, port, indexStack, lanId, idOf>>
  BY LanAssumption DEF Call, Idle, Threads, Request, OnlyThread, OnlySession, kernel
<1>2. PICK c \in Conns, k \in {"send", "shut"} :
        /\ todo' = [todo EXCEPT ![u] = <<Frame("acquire", idOf[c].slot)>>]
        /\ idOf[c] # NoId /\ arg' = [arg EXCEPT ![u] = [id |-> idOf[c], call |-> k]]
  BY DEF Call, Request
<1>3. PICK s, ops, new : /\ s = idOf[c].slot /\ ops = <<"acquire">> /\ new = Frames(ops, s)
                         /\ ops \in Seq({"acquire"}) /\ ops # <<>> /\ Len(ops) = 1
  <2>1. <<"acquire">> \in Seq({"acquire"}) /\ <<"acquire">> # <<>> /\ Len(<<"acquire">>) = 1
    OBVIOUS
  <2> QED BY <2>1
<1>4. s \in Slots
  BY <1>3 DEF IInv, SlotNumbers
<1>5. todo' = [todo EXCEPT ![u] = new]
  BY <1>2, <1>3, OneFrame
<1>6. new \in Seq(Todo({"acquire"}, Slots)) /\ new # <<>> /\ Len(new) = 1
  <2>1. Len(new) = Len(ops)
    BY <1>3, FramesList
  <2>2. new # <<>>
    BY <1>3, FramesFirst
  <2>3. new \in Seq(Todo({"acquire"}, Slots))
    BY <1>3, <1>4, FramesAre
  <2> QED BY <1>3, <2>1, <2>2, <2>3
<1>7. \A O : "acquire" \notin O => Without(new, O)
  <2> TAKE O
  <2> HAVE "acquire" \notin O
  <2>1. {"acquire"} \cap O = {}
    OBVIOUS
  <2> QED BY <1>3, <2>1, FramesWithout
<1>8. Without(new, BeginOps \cup OwnOps) /\ Without(new, UseOps)
  <2>1. "acquire" \notin BeginOps \cup OwnOps /\ "acquire" \notin UseOps
    BY DEF BeginOps, OwnOps, UseOps
  <2> QED BY <1>7, <2>1
<1>9. DOMAIN arg' = Threads /\ arg'[u].id = idOf[c] /\ \A v \in Users \ {u} : arg'[v] = arg[v]
  BY <1>1, <1>2 DEF Life, Informed
<1>10. Told(idOf[c])
  BY <1>2 DEF Life, Informed
<1>11. Without(Tail(new), AskOps)
  <2>1. PICK z, S : z = Tail(new) /\ S = Todo({"acquire"}, Slots)
    OBVIOUS
  <2>2. Len(z) = 0
    BY <1>6, <2>1
  <2> QED BY <2>1, <2>2 DEF Without
<1>12. \A i \in 1 .. Len(new) : new[i].op \in UseOps => u = Main \/ Owners(new[i].s) = 0
  BY <1>8 DEF Without
<1>13. Calm(u)
  BY <1>1, <1>2, <1>5, <1>6, <1>8, <1>9, <1>10, <1>11, <1>12, CalmPut
<1>14. Disciplined(u)'
  <2>1. PICK W : W = {"acquire"} /\ ops \in Seq(W)
    BY <1>3
  <2>2. /\ W \cap Banned(u) = {} /\ W \cap {"leave", "drain"} = {} /\ W \cap UseOps = {}
    BY <1>1, <2>1 DEF Banned, BeginOps, UseOps
  <2>3. todo'[u] = Frames(ops, s)
    <3>1. PICK A : Lists(A)
      BY ListsAre
    <3> QED BY <1>1, <1>3, <1>5, <3>1 DEF Lists, Queues
  <2> QED BY <1>3, <2>1, <2>2, <2>3, BeginDisciplined
<1>15. Harmless
  BY <1>1, FieldsAre DEF Harmless
<1> QED BY <1>1, <1>13, <1>14, <1>15, CalmLife

LEMMA DequeueLife ==
  ASSUME IInv, IInv', Life, NEW w \in Workers, Dequeue(w)
  PROVE  Life'
<1>1. PICK e, ops, s, new : e = Head(port) /\ ops = Handler(e) /\ s = e.s /\ new = Frames(ops, s)
  OBVIOUS
<1>2. /\ w \in Threads /\ todo[w] = <<>> /\ w # Main /\ w # Acceptor /\ w \notin Users
      /\ port # <<>> /\ port' = Tail(port) /\ todo' = [todo EXCEPT ![w] = new]
      /\ UNCHANGED <<sess, pending, arg, indexStack, lanId, idOf>>
  BY <1>1, LanAssumption DEF Dequeue, TakePacket, Idle, Threads, lan
<1>3. PICK S : port \in Seq(S) /\ S = Packets(Slots, Kinds)
  BY DEF IInv, LanSound, Sound, Running
<1>4. s \in Slots
  <2>1. e \in S
    BY <1>1, <1>2, <1>3
  <2> QED BY <1>1, <1>3, <2>1 DEF Packets
<1>5. Len(port) \in Nat /\ Len(port) # 0 /\ port[1].s = s
  BY <1>1, <1>2, <1>3, EmptySeq
<1>6. Owners(s) = 0
  <2>1. ~Quiet(s)
    BY <1>5 DEF Quiet
  <2> QED BY <1>4, <2>1, OneOwner
<1>7. PICK W : /\ W = {"callback", "free_sent", "flag_dec", "post_test", "release", "flag", "shutdown"}
               /\ ops \in Seq(W) /\ ops # <<>> /\ ops[Len(ops)] \in {"release", "callback"}
  <2>1. PICK W : W = {"callback", "free_sent", "flag_dec", "post_test", "release", "flag", "shutdown"}
    OBVIOUS
  <2>2. CASE ops = OnData
    BY <2>1, <2>2 DEF OnData
  <2>3. CASE ops = OnSent
    BY <2>1, <2>3 DEF OnSent
  <2>4. CASE ops = OnBroken
    BY <2>1, <2>4 DEF OnBroken
  <2>5. CASE ops = <<"flag_dec">> \o OnBroken
    <3>1. PICK p, q : /\ ops = p \o q
                      /\ p \in Seq(W) /\ q \in Seq(W) /\ Len(p) = 1 /\ Len(q) = 3 /\ q[3] = "release"
      <4>1. <<"flag_dec">> \in Seq(W) /\ Len(<<"flag_dec">>) = 1
        BY <2>1
      <4>2. PICK q : q = OnBroken /\ q \in Seq(W) /\ Len(q) = 3 /\ q[3] = "release"
        <5>1. OnBroken \in Seq(W) /\ Len(OnBroken) = 3 /\ OnBroken[3] = "release"
          BY <2>1 DEF OnBroken
        <5> QED BY <5>1
      <4> QED BY <2>5, <4>1, <4>2
    <3>2. ops \in Seq(W) /\ Len(ops) = 4 /\ ops[4] = q[3]
      <4>1. p \o q \in Seq(W) /\ Len(p \o q) = 1 + 3
            /\ \A i \in 1 .. 1 + 3 : (p \o q)[i] = IF i <= 1 THEN p[i] ELSE q[i - 1]
        <5>1. p \in Seq(W) /\ q \in Seq(W)
          BY <3>1
        <5>2. p \o q \in Seq(W) /\ Len(p \o q) = Len(p) + Len(q)
             /\ \A i \in 1 .. Len(p) + Len(q) : (p \o q)[i] = IF i <= Len(p) THEN p[i] ELSE q[i - Len(p)]
          BY <5>1, Joined
        <5>3. Len(p) = 1 /\ Len(q) = 3
          BY <3>1
        <5> QED BY <5>2, <5>3
      <4> QED BY <3>1, <4>1
    <3>3. ops # <<>>
      BY <3>2, EmptySeq
    <3> QED BY <2>1, <3>1, <3>2, <3>3
  <2> QED BY <1>1, <2>1, <2>2, <2>3, <2>4, <2>5 DEF Handler
<1>8. W \cap (BeginOps \cup OwnOps) = {} /\ W \cap AskOps = {} /\ W \cap {"leave", "drain"} = {} /\ W \cap Banned(w) = {}
  BY <1>2, <1>7 DEF BeginOps, OwnOps, AskOps, Banned
<1>9. new \in Seq(Todo(W, Slots)) /\ Without(new, BeginOps \cup OwnOps)
  BY <1>1, <1>4, <1>7, <1>8, FramesAre, FramesWithout
<1>10. \A i \in 1 .. Len(new) : new[i].s = s
  <2>1. Len(Frames(ops, s)) = Len(ops)
    BY <1>7, FramesList
  <2> QED BY <1>1, <1>7, <2>1, FramesOps
<1>11. DOMAIN arg' = Threads /\ \A u \in Users \ {w} : arg'[u] = arg[u]
  BY <1>2, ArgKept
<1>12. Calm(w)
  BY <1>2, <1>6, <1>9, <1>10, <1>11, CalmPut
<1>13. Disciplined(w)'
  <2>1. todo'[w] = Frames(ops, s)
    <3>1. PICK A : Lists(A)
      BY ListsAre
    <3> QED BY <1>1, <1>2, <3>1 DEF Lists, Queues
  <2> QED BY <1>7, <1>8, <2>1, BeginDisciplined
<1>14. \A i \in 1 .. Len(port') : \E j \in 1 .. Len(port) : port[j].s = port'[i].s
  <2>1. PICK n : n = Len(port) /\ n \in Nat /\ n # 0 /\ Len(Tail(port)) = n - 1
    BY <1>2, <1>3, <1>5
  <2>2. \A i \in 1 .. Len(Tail(port)) : Tail(port)[i] = port[i + 1]
    BY <1>2, <1>3
  <2> TAKE i \in 1 .. Len(port')
  <2>3. i + 1 \in 1 .. n /\ port'[i] = port[i + 1]
    BY <1>2, <2>1, <2>2
  <2> QED BY <2>1, <2>3
<1>15. Harmless
  BY <1>2, <1>14, FieldsAre DEF Harmless
<1> QED BY <1>2, <1>12, <1>13, <1>15, CalmLife

(* Somebody's callback calls: it goes on with "acquire" and the callback. *)
LEMMA InFront ==
  ASSUME NEW A, NEW D, NEW q \in Seq(Todo(A, D)), q # <<>>, NEW a, NEW b, Head(q).op = b
  PROVE  Frames(<<a, b>>, Head(q).s) \o Tail(q) = <<Frame(a, Head(q).s)>> \o q
<1>1. PICK s, f, g, z, n : /\ s = Head(q).s /\ f = Frames(<<a, b>>, s) /\ g = <<Frame(a, s)>>
                           /\ z = Tail(q) /\ n = Len(z)
  OBVIOUS
<1>2. PICK S : S = Todo(A \cup {a, b}, D)
  OBVIOUS
<1>3. Todo(A, D) \subseteq S /\ q \in Seq(Todo(A, D)) /\ s \in D /\ Head(q) = Frame(b, s)
  <2>1. Head(q) \in Todo(A, D)
    OBVIOUS
  <2> QED BY <1>1, <1>2, <2>1 DEF Todo, Frame
<1>4. q \in Seq(S) /\ Frame(a, s) \in S /\ Frame(b, s) \in S
  <2>1. q \in Seq(S)
    BY <1>3, LongerAlphabet
  <2> QED BY <1>2, <1>3, <2>1 DEF Todo, Frame
<1>5. /\ z \in Seq(S) /\ n \in Nat /\ Len(z) = n /\ Len(q) = n + 1
      /\ q[1] = Frame(b, s) /\ \A i \in 1 .. n : q[i + 1] = z[i]
  <2>1. Len(q) # 0 /\ Len(q) \in Nat
    BY EmptySeq
  <2> QED BY <1>1, <1>3, <1>4, <2>1
<1>6. f \in Seq(S) /\ Len(f) = 2 /\ f[1] = Frame(a, s) /\ f[2] = Frame(b, s)
  <2>1. PICK ops : ops = <<a, b>> /\ ops \in Seq({a, b}) /\ Len(ops) = 2 /\ ops[1] = a /\ ops[2] = b
    <3>1. <<a, b>> \in Seq({a, b}) /\ Len(<<a, b>>) = 2 /\ <<a, b>>[1] = a /\ <<a, b>>[2] = b
      OBVIOUS
    <3> QED BY <3>1
  <2>2. Len(f) = 2 /\ \A i \in 1 .. 2 : f[i] = Frame(ops[i], s)
    BY <1>1, <2>1, FramesList
  <2>3. f \in Seq(Todo({a, b}, D))
    BY <1>1, <1>3, <2>1, FramesAre
  <2>4. Todo({a, b}, D) \subseteq S
    BY <1>2 DEF Todo
  <2>5. f \in Seq(S)
    BY <2>3, <2>4, LongerAlphabet
  <2>6. f[1] = Frame(a, s) /\ f[2] = Frame(b, s)
    BY <2>1, <2>2
  <2> QED BY <2>2, <2>5, <2>6
<1>7. g \in Seq(S) /\ Len(g) = 1 /\ g[1] = Frame(a, s)
  BY <1>1, <1>4
<1>8. PICK x : /\ x = f \o z /\ x \in Seq(S) /\ Len(x) = n + 2
               /\ \A i \in 1 .. n + 2 : x[i] = IF i <= 2 THEN f[i] ELSE z[i - 2]
  <2>1. f \o z \in Seq(S) /\ Len(f \o z) = 2 + n
        /\ \A i \in 1 .. 2 + n : (f \o z)[i] = IF i <= 2 THEN f[i] ELSE z[i - 2]
    <3>1. f \in Seq(S) /\ z \in Seq(S)
      BY <1>5, <1>6
    <3>2. f \o z \in Seq(S) /\ Len(f \o z) = Len(f) + Len(z)
         /\ \A i \in 1 .. Len(f) + Len(z) : (f \o z)[i] = IF i <= Len(f) THEN f[i] ELSE z[i - Len(f)]
      BY <3>1, Joined
    <3>3. Len(f) = 2 /\ Len(z) = n
      BY <1>5, <1>6
    <3> QED BY <3>2, <3>3
  <2>2. PICK x : x = f \o z
    OBVIOUS
  <2>3. 2 + n = n + 2
    BY <1>5
  <2> QED BY <2>1, <2>2, <2>3
<1>9. PICK y : /\ y = g \o q /\ y \in Seq(S) /\ Len(y) = n + 2
               /\ \A i \in 1 .. n + 2 : y[i] = IF i <= 1 THEN g[i] ELSE q[i - 1]
  <2>1. PICK m : m = n + 1 /\ m \in Nat /\ Len(q) = m
    BY <1>5
  <2>2. g \o q \in Seq(S) /\ Len(g \o q) = 1 + m
        /\ \A i \in 1 .. 1 + m : (g \o q)[i] = IF i <= 1 THEN g[i] ELSE q[i - 1]
    <3>1. g \in Seq(S) /\ q \in Seq(S)
      BY <1>4, <1>7
    <3>2. g \o q \in Seq(S) /\ Len(g \o q) = Len(g) + Len(q)
         /\ \A i \in 1 .. Len(g) + Len(q) : (g \o q)[i] = IF i <= Len(g) THEN g[i] ELSE q[i - Len(g)]
      BY <3>1, Joined
    <3>3. Len(g) = 1 /\ Len(q) = m
      BY <1>7, <2>1
    <3> QED BY <3>2, <3>3
  <2>3. PICK y : y = g \o q
    OBVIOUS
  <2>4. 1 + m = n + 2
    BY <1>5, <2>1
  <2> QED BY <2>2, <2>3, <2>4
<1>10. ASSUME NEW i \in 1 .. n + 2 PROVE x[i] = y[i]
  <2>1. CASE i = 1
    BY <1>5, <1>6, <1>7, <1>8, <1>9, <2>1
  <2>2. CASE i = 2
    BY <1>5, <1>6, <1>8, <1>9, <2>2
  <2>3. CASE i > 2
    <3>1. x[i] = z[i - 2] /\ y[i] = q[i - 1]
      BY <1>5, <1>8, <1>9, <2>3
    <3>2. PICK k \in 1 .. n : k = i - 2 /\ k + 1 = i - 1
      BY <1>5, <2>3
    <3> QED BY <1>5, <3>1, <3>2
  <2>4. i = 1 \/ i = 2 \/ i > 2
    BY <1>5
  <2> QED BY <2>1, <2>2, <2>3, <2>4
<1>11. x = y
  BY <1>8, <1>9, <1>10, SeqEqual
<1> QED BY <1>1, <1>8, <1>9, <1>11

LEMMA CallBackLife ==
  ASSUME IInv, IInv', Life, NEW t \in Threads, CallBack(t)
  PROVE  Life'
<1>1. At(t, "callback") /\ UNCHANGED <<sess, pending, port, indexStack, lanId, idOf>>
  BY DEF CallBack, Request, OnlyThread, OnlySession, kernel
<1>2. t # Main /\ t \notin Users /\ "callback" \in UseOps
  BY <1>1, NotMain DEF UseOps
<1>3. Slot(t) \in Slots /\ Owners(Slot(t)) = 0
  BY <1>1, <1>2, UserAt
<1>4. sess[Slot(t)].Index.slot = Slot(t)
  BY <1>3 DEF Life, SlotLife, Named
<1>5. PICK ops, W : /\ ops = <<"acquire", "callback">> /\ W = {"acquire", "callback"} /\ ops \in Seq(W)
                    /\ ops # <<>> /\ ops[Len(ops)] = "callback"
  <2>1. PICK ops, W : ops = <<"acquire", "callback">> /\ W = {"acquire", "callback"}
    OBVIOUS
  <2>2. ops \in Seq(W) /\ ops # <<>> /\ ops[Len(ops)] = "callback"
    BY <2>1
  <2> QED BY <2>1, <2>2
<1>6. Then(t, ops)
  <2>1. PICK A : Lists(A) /\ todo[t] \in Seq(Todo(A, Slots))
    BY ListOf
  <2>2. PICK q : q = todo[t] /\ q \in Seq(Todo(A, Slots)) /\ q # <<>> /\ Head(q).op = "callback"
    BY <1>1, <2>1 DEF At
  <2>3. Frames(<<"acquire", "callback">>, Head(q).s) \o Tail(q) = <<Frame("acquire", Head(q).s)>> \o q
    BY <2>2, InFront
  <2>4. todo' = [todo EXCEPT ![t] = <<Frame("acquire", Head(q).s)>> \o q]
    BY <1>4, <2>2 DEF CallBack, Slot
  <2>5. todo' = [todo EXCEPT ![t] = Frames(ops, Slot(t)) \o Tail(q)]
    BY <1>5, <2>2, <2>3, <2>4 DEF Slot
  <2> QED BY <2>2, <2>5 DEF Then
<1>7. W \in SUBSET (WorkOps \cup {"callback"})
  BY <1>5 DEF WorkOps, AskOps
<1>8. DOMAIN arg' = Threads /\ \A u \in Users \ {t} : arg'[u] = arg[u]
  BY <1>2 DEF CallBack, Request, Life, Informed
<1>9. "callback" \notin BeginOps \cup OwnOps
  BY WorkApart
<1>10. Calm(t) /\ Disciplined(t)'
  BY <1>1, <1>2, <1>3, <1>5, <1>6, <1>7, <1>8, <1>9, CalmThen
<1>11. Harmless
  BY <1>1, FieldsAre DEF Harmless
<1> QED BY <1>10, <1>11, CalmLife

(* What Stop has to do. *)
LEMMA StopList ==
  \E new, B : /\ new = StopSlots(maxCounter) \o Frames(<<"wait">>, 0)
              /\ B = {"shutdown", "disc_cas", "wait"} /\ new \in Seq(Todo(B, Slots))
<1>1. PICK new, B, p, q, n : /\ p = StopSlots(maxCounter) /\ q = Frames(<<"wait">>, 0) /\ new = p \o q
                             /\ B = {"shutdown", "disc_cas", "wait"} /\ n = 2 * maxCounter
  OBVIOUS
<1>2. PICK D : D = Slots /\ n \in Nat
  BY <1>1, LanAssumption
<1>3. ASSUME NEW i \in 1 .. n
      PROVE  Frame(IF i % 2 = 1 THEN "shutdown" ELSE "disc_cas", (i - 1) \div 2) \in Todo(B, D)
  <2>1. (i - 1) \div 2 \in Slots
    BY <1>1, LanAssumption DEF Slots
  <2>2. (IF i % 2 = 1 THEN "shutdown" ELSE "disc_cas") \in B
    BY <1>1
  <2> QED BY <1>2, <2>1, <2>2 DEF Todo, Frame
<1>4. p \in Seq(Todo(B, D))
  <2>1. p = [i \in 1 .. n |-> Frame(IF i % 2 = 1 THEN "shutdown" ELSE "disc_cas", (i - 1) \div 2)]
    BY <1>1 DEF StopSlots
  <2>2. PICK X : X = Todo(B, D)
    OBVIOUS
  <2>3. p \in [1 .. n -> X]
    BY <1>3, <2>1, <2>2
  <2>4. p \in Seq(X)
    BY <1>2, <2>3
  <2> QED BY <2>2, <2>4
<1>5. q \in Seq(Todo(B, D))
  <2>1. PICK ops : ops = <<"wait">> /\ ops \in Seq(B)
    <3>1. <<"wait">> \in Seq(B)
      BY <1>1
    <3> QED BY <3>1
  <2>2. 0 \in D
    BY <1>2, ThreadsFinite
  <2> QED BY <1>1, <2>1, <2>2, FramesAre
<1>6. new \in Seq(Todo(B, D))
  BY <1>1, <1>4, <1>5
<1> QED BY <1>1, <1>2, <1>6

LEMMA StopLife ==
  ASSUME IInv, IInv', Life, StopBegin
  PROVE  Life'
<1>1. PICK new, B : /\ new = StopSlots(maxCounter) \o Frames(<<"wait">>, 0)
                    /\ B = {"shutdown", "disc_cas", "wait"} /\ new \in Seq(Todo(B, Slots))
  BY StopList
<1>2. /\ todo[Main] = <<>> /\ todo' = [todo EXCEPT ![Main] = new] /\ Main \in Threads
      /\ Main # Acceptor /\ Main \notin Users
      /\ UNCHANGED <<sess, pending, port, arg, indexStack, lanId, idOf>>
  BY <1>1, ThreadsFinite, AcceptorApart DEF StopBegin, Idle, OnlyThread, OnlySession, kernel
<1>3. \A i \in 1 .. Len(new) : new[i].op \in B
  <2> TAKE i \in 1 .. Len(new)
  <2>1. new[i] \in Todo(B, Slots)
    BY <1>1
  <2> QED BY <2>1 DEF Todo
<1>4. \A O : B \cap O = {} => Without(new, O)
  BY <1>3 DEF Without
<1>5. /\ B \cap (BeginOps \cup OwnOps) = {} /\ B \cap Banned(Main) = {} /\ B \cap {"leave", "drain"} = {}
      /\ B \cap AskOps = {}
  BY <1>1, <1>2 DEF BeginOps, OwnOps, AskOps, Banned, UseOps
<1>6. DOMAIN arg' = Threads /\ \A u \in Users \ {Main} : arg'[u] = arg[u]
  BY <1>2, ArgKept
<1>7. Without(new, BeginOps \cup OwnOps)
  BY <1>4, <1>5
<1>8. Calm(Main)
  BY <1>1, <1>2, <1>6, <1>7, CalmPut
<1>9. Disciplined(Main)'
  <2>1. Without(new, Banned(Main))
    BY <1>4, <1>5
  <2>2. Guarded(new, {"leave", "drain"}, {"reclaim"}) /\ Guarded(new, AskOps, {"callback"})
    BY <1>3, <1>5 DEF Guarded
  <2>3. todo'[Main] = new
    <3>1. PICK A : Lists(A)
      BY ListsAre
    <3> QED BY <1>2, <3>1 DEF Lists, Queues
  <2> QED BY <2>1, <2>2, <2>3 DEF Disciplined, Banned
<1>10. Harmless
  BY <1>2, FieldsAre DEF Harmless
<1> QED BY <1>2, <1>8, <1>9, <1>10, CalmLife

-----------------------------------------------------------------------------
(* STEPS THAT TAKE A SLOT OR GIVE IT BACK *)

(* What a step at slot s leaves as it is. *)
Elsewhere(t, s) ==
  /\ \A u \in Threads \ {t} : todo'[u] = todo[u]
  /\ UNCHANGED <<pending, port>>
  /\ \A r \in Slots \ {s} :
       /\ \A op \in {"reclaim", "push_slot", "insert_ref"} : Has(op, r)' = Has(op, r)
       /\ Occ(indexStack', {r}) = Occ(indexStack, {r}) /\ sess'[r] = sess[r]
       /\ Occ(todo'[t], FramesWith(UseOps, r)) # 0 => Count(t, UseOps, r) # 0
       /\ Reaches({"insert"}, r)' <=> Reaches({"insert"}, r)
       /\ Entering(r)' <=> Entering(r)
       /\ Newest(r)' <=> Newest(r)
       /\ Newest(r) => UNCHANGED lanId

LEMMA ElsewhereLife ==
  ASSUME IInv, Life, NEW t \in Threads, NEW s, Elsewhere(t, s), NEW r \in Slots \ {s}
  PROVE  SlotLife(r)'
<1>1. /\ Has("reclaim", r)' = Has("reclaim", r) /\ Has("push_slot", r)' = Has("push_slot", r)
      /\ Has("insert_ref", r)' = Has("insert_ref", r)
      /\ Occ(indexStack', {r}) = Occ(indexStack, {r}) /\ sess'[r] = sess[r]
  BY DEF Elsewhere
<1>2. Owners(r)' = Owners(r)
  BY <1>1 DEF Owners
<1>3. SlotLife(r)
  BY DEF Life
<1>4. Undisturbed(r)
  <2>1. ASSUME NEW u \in Threads \ {Main}, Occ(todo'[u], FramesWith(UseOps, r)) # 0
        PROVE  \/ Count(u, UseOps, r) # 0 /\ ~(u = Acceptor /\ Entering(r))
               \/ u = Acceptor /\ Entering(r)'
    <3>1. Count(u, UseOps, r) # 0
      BY <2>1 DEF Elsewhere, Count
    <3>2. Entering(r)' <=> Entering(r)
      BY DEF Elsewhere
    <3> QED BY <3>1, <3>2
  <2>2. UNCHANGED <<pending, port>>
    BY DEF Elsewhere
  <2> QED BY <1>1, <2>1, <2>2 DEF Undisturbed
<1>5. Alone(r)'
  <2>1. Quiet(r) => Quiet(r)'
    BY <1>4, QuietKept
  <2> QED BY <1>2, <1>3, <2>1 DEF SlotLife, Alone
<1>6. Named(r)'
  <2>1. Named(r)
    BY <1>3 DEF SlotLife
  <2>2. /\ Reaches({"insert"}, r)' <=> Reaches({"insert"}, r)
        /\ Newest(r)' <=> Newest(r)
        /\ Newest(r) => UNCHANGED lanId
    BY DEF Elsewhere
  <2>3. Owners(r)' = 0 \/ Has("reclaim", r)' # 0 => sess'[r].Index.slot = r
    BY <1>1, <1>2, <2>1 DEF Named
  <2>4. Occ(indexStack', {r}) # 0 \/ Has("push_slot", r)' # 0 \/ Reaches({"insert"}, r)' => sess'[r].Index = NoId
    BY <1>1, <2>1, <2>2 DEF Named
  <2>5. Newest(r)' => sess'[r].Index = Id(r, lanId' - 1)
    BY <1>1, <2>1, <2>2 DEF Named
  <2> QED BY <2>3, <2>4, <2>5 DEF Named
<1>7. "disconnectFlag" \in DOMAIN sess'[r]
  BY <1>1, <1>3 DEF SlotLife
<1> QED BY <1>5, <1>6, <1>7 DEF SlotLife

LEMMA LifeFrom ==
  ASSUME IInv, Life, NEW t \in Threads, NEW s, Elsewhere(t, s), Disciplined(t)',
         Accepting', Informed', lanId' \in Nat, s \in Slots => SlotLife(s)'
  PROVE  Life'
<1>1. \A u \in Threads : Disciplined(u)'
  BY OthersDisciplined DEF Elsewhere
<1>2. \A r \in Slots : SlotLife(r)'
  BY ElsewhereLife
<1> QED BY <1>1, <1>2 DEF Life

(* Who does not begin a session leaves the beginning of sessions alone. *)
LEMMA EntriesKept ==
  ASSUME IInv, IInv', Life, NEW t \in Threads, \A u \in Threads \ {t} : todo'[u] = todo[u],
         t = Acceptor => Without(todo[t], BeginOps) /\ Without(todo'[t], BeginOps)
  PROVE  /\ Accepting'
         /\ \A r : /\ Reaches({"insert"}, r)' <=> Reaches({"insert"}, r)
                   /\ Entering(r)' <=> Entering(r)
                   /\ Newest(r)' <=> Newest(r)
<1>1. Accepting'
  BY ThreadsFinite DEF Life, Accepting
<1>2. ASSUME NEW O, O \subseteq BeginOps, NEW r  PROVE Reaches(O, r)' <=> Reaches(O, r)
  <2>1. CASE t # Acceptor
    <3>1. todo'[Acceptor] = todo[Acceptor]
      BY <2>1, ThreadsFinite
    <3> QED BY <3>1, SameEntry
  <2>2. CASE t = Acceptor
    <3>1. ~Reaches(O, r)
      BY <1>2, <2>2, NoReach
    <3>2. PICK A : Lists(A)'
      BY DEF IInv, LanSound, Sound, Running, Lists
    <3>3. todo'[Acceptor] \in Seq(Todo(A, Slots))
      BY <3>2, ThreadsFinite DEF Lists, Queues
    <3>4. Without(todo'[Acceptor], BeginOps)
      BY <2>2
    <3>5. todo'[Acceptor] # <<>> => Head(todo'[Acceptor]).op \notin BeginOps
      BY <3>3, <3>4, TailWithout
    <3> QED BY <1>2, <3>1, <3>5 DEF Reaches
  <2> QED BY <2>1, <2>2
<1>3. ASSUME NEW r
      PROVE  /\ Reaches({"insert"}, r)' <=> Reaches({"insert"}, r)
             /\ Newest(r)' <=> Newest(r)
             /\ Entering(r)' <=> Entering(r)
  <2>1. {"insert"} \subseteq BeginOps /\ {"insert", "insert_ref"} \subseteq BeginOps
        /\ {"insert_ref", "insert_flag", "join"} \subseteq BeginOps
    BY DEF BeginOps
  <2>2. /\ Reaches({"insert"}, r)' <=> Reaches({"insert"}, r)
        /\ Reaches({"insert", "insert_ref"}, r)' <=> Reaches({"insert", "insert_ref"}, r)
        /\ Reaches({"insert_ref", "insert_flag", "join"}, r)' <=> Reaches({"insert_ref", "insert_flag", "join"}, r)
    BY <1>2, <2>1
  <2> QED BY <2>2 DEF Newest, Entering
<1> QED BY <1>1, <1>3

(* The application knows no less than before. *)
LEMMA InformedMore ==
  ASSUME Life, UNCHANGED arg, Known \in Int, Known' \in Int, Known <= Known',
         \A c \in Conns : idOf'[c] = idOf[c] \/ (idOf'[c].net \in Int /\ idOf'[c].net < Known'),
         \A u \in Users : todo'[u] = todo[u] \/ (todo'[u] # <<>> =>
           Without(Tail(todo'[u]), AskOps) /\ Head(todo'[u]).op \notin AskOps)
  PROVE  Informed'
<1>1. \A id : Told(id) => id.net \in Int /\ id.net < Known'
  BY DEF Told
<1>2. DOMAIN arg' = Threads
  BY DEF Life, Informed
<1>3. ASSUME NEW c \in Conns
      PROVE  idOf'[c] = NoId \/ (idOf'[c].net \in Int /\ idOf'[c].net < Known')
  BY <1>1 DEF Life, Informed
<1>4. ASSUME NEW u \in Users, todo'[u] # <<>>
      PROVE  /\ Without(Tail(todo'[u]), AskOps)
             /\ Head(todo'[u]).op \in AskOps =>
                  arg'[u].id # NoId /\ arg'[u].id.net \in Int /\ arg'[u].id.net < Known'
  <2>1. CASE todo'[u] = todo[u]
    <3>1. /\ Without(Tail(todo[u]), AskOps)
          /\ Head(todo[u]).op \in AskOps => arg[u].id # NoId /\ Told(arg[u].id)
      BY <1>4, <2>1 DEF Life, Informed
    <3> QED BY <1>1, <2>1, <3>1
  <2>2. CASE Without(Tail(todo'[u]), AskOps) /\ Head(todo'[u]).op \notin AskOps
    BY <2>2
  <2> QED BY <1>4, <2>1, <2>2
<1> QED BY <1>2, <1>3, <1>4 DEF Informed, Told

LEMMA KnownInt ==
  ASSUME lanId \in Nat
  PROVE  Known \in Int /\ Known <= lanId
BY DEF Known

(* A thread that takes a slot, or gives it back. *)
LEMMA OwnerStep ==
  ASSUME IInv, IInv', Life, NEW t \in Threads, NEW op \in {"disc_cas", "reclaim", "push_slot"}, At(t, op),
         NEW s, s = Slot(t),
         NEW W, W \subseteq {"leave", "drain", "reclaim", "push_slot"}, NEW ops \in Seq(W), Then(t, ops),
         W \cap {"leave", "drain"} = {} \/ (ops # <<>> /\ ops[Len(ops)] = "reclaim"),
         UNCHANGED <<lanId, arg, idOf, pending, port>>,
         \A r \in Slots \ {s} : Occ(indexStack', {r}) = Occ(indexStack, {r}) /\ sess'[r] = sess[r],
         SlotLife(s)'
  PROVE  Life'
<1>1. s = Slot(t) /\ s \in Slots
  BY SlotAt
<1>2. /\ W \cap UseOps = {} /\ W \cap AskOps = {} /\ W \cap BeginOps = {} /\ W \cap Banned(t) = {}
      /\ op \notin BeginOps
  BY DEF UseOps, AskOps, BeginOps, Banned
<1>3. Disciplined(t)'
  <2>1. Disciplined(t)
    BY DEF Life
  <2> QED BY <1>2, <2>1, ThenDisciplined
<1>4. \A u \in Threads \ {t} : todo'[u] = todo[u]
  BY ThenNew
<1>5. PICK A : Lists(A) /\ todo[t] \in Seq(Todo(A, Slots)) /\ todo[t] # <<>> /\ Head(todo[t]).op = op
  BY ListOf DEF At
<1>6. t = Acceptor => Without(todo[t], BeginOps) /\ Without(todo'[t], BeginOps)
  <2> SUFFICES ASSUME t = Acceptor PROVE Without(todo[t], BeginOps) /\ Without(todo'[t], BeginOps)
    OBVIOUS
  <2>1. Without(todo[t], BeginOps)
    BY <1>2, Beginning
  <2>2. Without(Tail(todo[t]), BeginOps)
    BY <1>5, <2>1, TailWithout
  <2> QED BY <1>2, <2>1, <2>2, ThenWithout
<1>7. /\ Accepting'
      /\ \A r : /\ Reaches({"insert"}, r)' <=> Reaches({"insert"}, r)
                /\ Entering(r)' <=> Entering(r)
                /\ Newest(r)' <=> Newest(r)
  BY <1>4, <1>6, EntriesKept
<1>8. \A O, r : r # s => /\ InThreads(todo', O, r) = InThreads(todo, O, r)
                         /\ Occ(todo'[t], FramesWith(O, r)) = Count(t, O, r)
  <2> TAKE O, r
  <2>1. /\ Occ(ops, O) \in Nat /\ InThreads(todo, O, r) \in Nat /\ Count(t, O, r) \in Nat
        /\ InThreads(todo', O, r) = InThreads(todo, O, r)
             + (IF r = Slot(t) THEN Occ(ops, O) - (IF op \in O THEN 1 ELSE 0) ELSE 0)
        /\ Occ(todo'[t], FramesWith(O, r)) = Count(t, O, r)
             + (IF r = Slot(t) THEN Occ(ops, O) - (IF op \in O THEN 1 ELSE 0) ELSE 0)
    BY ThenCounts
  <2> QED BY <1>1, <2>1
<1>9. Elsewhere(t, s)
  BY <1>1, <1>4, <1>7, <1>8 DEF Elsewhere, Has
<1>10. Informed'
  <2>1. Known' = Known
    BY <1>7, KnownKept
  <2>2. Known \in Int
    BY KnownInt DEF Life
  <2>3. ASSUME NEW u \in Users
        PROVE  todo'[u] = todo[u] \/ (todo'[u] # <<>> =>
                 Without(Tail(todo'[u]), AskOps) /\ Head(todo'[u]).op \notin AskOps)
    <3>1. CASE u # t
      <4>1. u \in Threads \ {t}
        BY <3>1 DEF Threads
      <4> QED BY <1>4, <4>1
    <3>2. CASE u = t
      <4>1. Without(Tail(todo[t]), AskOps)
        BY <1>5, <3>2 DEF Life, Informed
      <4>2. Without(todo'[t], AskOps)
        BY <1>2, <4>1, ThenWithout
      <4>3. PICK C : todo'[t] \in Seq(Todo(C, Slots))
        BY ThenTyped
      <4> QED BY <3>2, <4>2, <4>3, TailWithout
    <3> QED BY <3>1, <3>2
  <2>4. Known' \in Int /\ Known <= Known'
    BY <2>1, <2>2
  <2>5. \A c \in Conns : idOf'[c] = idOf[c]
    OBVIOUS
  <2> QED BY <2>2, <2>3, <2>4, <2>5, InformedMore
<1>11. lanId' \in Nat
  BY DEF Life
<1> QED BY <1>1, <1>3, <1>7, <1>9, <1>10, <1>11, LifeFrom

(* Nobody holds a reference, nothing is in flight. *)
LEMMA NothingHeld ==
  ASSUME IInv, Life, NEW s \in Slots, sess[s].iocpCount <= 0, Has("insert_ref", s) = 0
  PROVE  /\ \A t \in Threads : Count(t, Holding, s) = 0
         /\ \A p \in pending : p.s # s
         /\ \A i \in 1 .. Len(port) : port[i].s # s
<1>1. PICK A : Lists(A)
  BY ListsAre
<1>2. PICK h, w, f, g, k : /\ h = InThreads(todo, Holding, s) /\ w = InThreads(todo, Owing, s)
                           /\ f = InFlight(pending, Referring, s) /\ g = InPort(port, Referring, s)
                           /\ k = kept[s]
  OBVIOUS
<1>3. Running(Threads, Slots, Kinds, todo, pending, port)
  BY DEF IInv, LanSound, Sound
<1>4. h \in Nat /\ w \in Nat /\ f \in Nat /\ g \in Nat /\ k \in Nat
  <2>1. h \in Nat /\ w \in Nat /\ f \in Nat /\ g \in Nat
    BY <1>2, <1>3, CountsNat, ThreadsFinite
  <2> QED BY <1>2, <2>1 DEF IInv
<1>5. w = 0
  <2>1. SUFFICES ASSUME w # 0 PROVE FALSE
    OBVIOUS
  <2>2. PICK t \in Threads : Count(t, Owing, s) # 0
    BY <1>1, <1>2, <2>1, SomeThread
  <2>3. PICK i \in 1 .. Len(todo[t]) : todo[t][i].op \in Owing /\ todo[t][i].s = s
    BY <2>2, SomeFrame
  <2>4. todo[t][i].op # "conn_ref"
    BY <2>3 DEF Life, Disciplined, Without, Banned
  <2>5. Count(t, {"insert_ref"}, s) # 0
    BY <2>3, <2>4, SomeFrame DEF Owing
  <2> QED BY <2>5, SomeoneHas
<1>6. sess[s].iocpCount = h - w + f + g + k
  BY <1>2 DEF IInv, RefCountExact, References
<1>7. h = 0 /\ f = 0 /\ g = 0
  BY <1>4, <1>5, <1>6
<1>8. \A t \in Threads : Count(t, Holding, s) = 0
  <2> TAKE t \in Threads
  <2>1. Count(t, Holding, s) \in Nat /\ Count(t, Holding, s) <= InThreads(todo, Holding, s)
    BY <1>1, SomeThread
  <2> QED BY <1>2, <1>7, <2>1
<1>9. \A p \in pending : p.s # s
  <2>1. PICK X : X = {p \in pending : p.s = s /\ p.op \in Referring}
    OBVIOUS
  <2>2. IsFiniteSet(pending) /\ \A p \in pending : p.op \in Referring
    BY <1>3 DEF Running, Referring
  <2>3. X = {}
    <3>1. X \in SUBSET pending /\ Cardinality(X) = 0
      BY <1>2, <1>7, <2>1 DEF InFlight
    <3> QED BY <2>2, <3>1, CountNone
  <2> QED BY <2>1, <2>2, <2>3
<1>10. \A i \in 1 .. Len(port) : port[i].s # s
  <2>1. PICK S : S = Packets(Slots, Kinds) /\ port \in Seq(S)
    BY <1>3 DEF Running
  <2>2. \A i \in 1 .. Len(port) : port[i] \notin PacketsWith(Referring, s)
    BY <1>2, <1>7, <2>1, PositionsFinite DEF InPort
  <2> TAKE i \in 1 .. Len(port)
  <2>3. port[i] \in S
    BY <2>1
  <2>4. port[i] = [s |-> port[i].s, op |-> port[i].op, trans |-> port[i].trans]
        /\ port[i].op \in Referring /\ port[i].trans \in Nat
    BY <2>1, <2>3 DEF Packets, Kinds, Referring
  <2> QED BY <2>2, <2>4 DEF PacketsWith
<1> QED BY <1>8, <1>9, <1>10

LEMMA NobodyUses ==
  ASSUME IInv, Life, NEW s, NEW t \in Threads \ {Main}, Count(t, Holding, s) = 0
  PROVE  Count(t, UseOps, s) = 0
<1>1. SUFFICES ASSUME Count(t, UseOps, s) # 0 PROVE FALSE
  OBVIOUS
<1>2. PICK A : Lists(A) /\ todo[t] \in Seq(Todo(A, Slots))
  BY ListOf
<1>3. Guarded(todo[t], UseOps, {"release", "callback"})
  BY DEF Life, Disciplined
<1>4. Count(t, {"release", "callback"}, s) # 0
  BY <1>1, <1>2, <1>3, GuardCounts DEF Count
<1> QED BY <1>4, CountMore DEF Holding

(* What the owners of the thread's slot are after such a step. *)
LEMMA OwnersAfter ==
  ASSUME IInv, NEW t \in Threads, NEW op, At(t, op), NEW W, NEW ops \in Seq(W), Then(t, ops),
         NEW s, s = Slot(t), NEW o
  PROVE  /\ Has(o, s) \in Nat /\ Occ(ops, {o}) \in Nat
         /\ Has(o, s)' = Has(o, s) + Occ(ops, {o}) - (IF op = o THEN 1 ELSE 0)
<1>1. /\ Occ(ops, {o}) \in Nat /\ InThreads(todo, {o}, s) \in Nat
      /\ InThreads(todo', {o}, s) = InThreads(todo, {o}, s)
           + (IF s = Slot(t) THEN Occ(ops, {o}) - (IF op \in {o} THEN 1 ELSE 0) ELSE 0)
  BY ThenCounts
<1>2. InThreads(todo', {o}, s) = InThreads(todo, {o}, s) + (Occ(ops, {o}) - (IF op = o THEN 1 ELSE 0))
  BY <1>1
<1>3. PICK h, n, a : h = Has(o, s)' /\ n = Has(o, s) /\ a = Occ(ops, {o})
  OBVIOUS
<1>4. h = n + (a - (IF op = o THEN 1 ELSE 0)) /\ n \in Nat /\ a \in Nat
  BY <1>1, <1>2, <1>3 DEF Has
<1> QED BY <1>3, <1>4

LEMMA DiscCASLife ==
  ASSUME IInv, IInv', Life, NEW t \in Threads, DiscCAS(t), early' = {}
  PROVE  Life'
<1>1. /\ At(t, "disc_cas") /\ UNCHANGED <<pending, port, indexStack, lanId, idOf, arg>>
  BY DEF DiscCAS, TakeFlag, OnlySession, kernel
<1>2. PICK s : s = Slot(t) /\ s \in Slots
  BY <1>1, SlotAt
<1>3. CASE sess[s].disconnectFlag # 1
  <2>1. Then(t, <<>>) /\ UNCHANGED sess
    BY <1>2, <1>3 DEF DiscCAS, TakeFlag
  <2>2. "disc_cas" \notin BeginOps \cup OwnOps
    BY DEF BeginOps, OwnOps
  <2>3. SameFlags
    BY <1>1, <2>1, SlotAt, FlagsKept
  <2>4. Harmless
    BY <1>1, <2>3, SameHarmless
  <2>5. DOMAIN arg' = Threads /\ \A u \in Users \ {t} : arg'[u] = arg[u]
    BY <1>1, ArgKept
  <2> QED BY <1>1, <2>1, <2>2, <2>4, <2>5, NothingLeft
<1>4. CASE sess[s].disconnectFlag = 1
  <2>1. /\ sess' = [sess EXCEPT ![s].disconnectFlag = 0] /\ Then(t, Teardown)
        /\ ~(sess[s].iocpCount > 0)
    BY <1>2, <1>4 DEF DiscCAS, TakeFlag
  <2>2. Owners(s) = 0
    <3>1. ~Quiet(s)
      BY <1>4 DEF Quiet
    <3> QED BY <1>2, <3>1, OneOwner
  <2>3. /\ Occ(indexStack, {s}) = 0 /\ Has("reclaim", s) = 0 /\ Has("push_slot", s) = 0
        /\ Has("insert_ref", s) = 0
    BY <2>2, OwnersNat DEF Owners
  <2>4. sess[s].iocpCount <= 0
    <3>1. PICK n : n = sess[s].iocpCount /\ n \in Int
      BY <1>2, Parts DEF IInv, LanSound, Sound
    <3> QED BY <2>1, <3>1
  <2>5. /\ \A u \in Threads : Count(u, Holding, s) = 0
        /\ \A p \in pending : p.s # s
        /\ \A i \in 1 .. Len(port) : port[i].s # s
    BY <1>2, <2>3, <2>4, NothingHeld
  <2>6. PICK ops, W : /\ ops = Teardown /\ W = {"leave", "drain", "reclaim"} /\ ops \in Seq(W) /\ Then(t, ops)
                      /\ ops # <<>> /\ ops[Len(ops)] = "reclaim"
                      /\ ops = <<"leave", "drain", "reclaim">>
    <3>1. PICK ops, W : ops = <<"leave", "drain", "reclaim">> /\ W = {"leave", "drain", "reclaim"}
      OBVIOUS
    <3>2. ops \in Seq(W) /\ ops # <<>> /\ ops[Len(ops)] = "reclaim"
      BY <3>1
    <3> QED BY <2>1, <3>1, <3>2 DEF Teardown
  <2>7. W \cap UseOps = {} /\ W \subseteq {"leave", "drain", "reclaim", "push_slot"}
    BY <2>6 DEF UseOps
  <2>8. /\ Occ(ops, {"reclaim"}) = 1 /\ Occ(ops, {"push_slot"}) = 0 /\ Occ(ops, {"insert_ref"}) = 0
        /\ Occ(ops, UseOps) = 0
    <3>1. Positions(<<"leave", "drain", "reclaim">>, {"reclaim"}) = {3}
      BY DEF Positions
    <3>2. Occ(ops, {"reclaim"}) = 1
      BY <2>6, <3>1, FS_Singleton DEF Occ
    <3>3. W \cap {"push_slot"} = {} /\ W \cap {"insert_ref"} = {}
      BY <2>6
    <3> QED BY <2>6, <2>7, <3>2, <3>3, NoneOf
  <2>15. ops \in Seq(W) /\ Then(t, ops) /\ At(t, "disc_cas")
    BY <1>1, <2>6
  <2>9. Has("reclaim", s)' = 1 /\ Has("push_slot", s)' = 0 /\ Has("insert_ref", s)' = 0
    <3>1. ASSUME NEW o  PROVE Has(o, s)' = Has(o, s) + Occ(ops, {o}) - (IF "disc_cas" = o THEN 1 ELSE 0)
      BY <1>2, <2>15, OwnersAfter
    <3> QED BY <2>3, <2>8, <3>1
  <2>10. Owners(s)' = 1
    <3>1. PICK a, b, c, d : /\ a = Occ(indexStack', {s}) /\ b = Has("reclaim", s)'
                            /\ c = Has("push_slot", s)' /\ d = Has("insert_ref", s)'
      OBVIOUS
    <3>2. a = 0 /\ b = 1 /\ c = 0 /\ d = 0
      BY <1>1, <2>3, <2>9, <3>1
    <3>3. Owners(s)' = a + b + c + d
      BY <3>1 DEF Owners
    <3> QED BY <3>2, <3>3
  <2>11. /\ sess'[s].Index = sess[s].Index /\ sess'[s].disconnectFlag = 0
         /\ "disconnectFlag" \in DOMAIN sess'[s]
         /\ \A r \in Slots \ {s} : sess'[r] = sess[r]
    BY <1>2, <2>1, FieldsAre
  <2>12. Quiet(s)'
    <3>1. ASSUME NEW u \in Threads \ {Main}  PROVE Occ(todo'[u], FramesWith(UseOps, s)) = 0
      <4>1. Count(u, UseOps, s) = 0
        BY <2>5, NobodyUses
      <4>2. CASE u # t
        <5>1. todo'[u] = todo[u]
          BY <1>1, <2>6, <4>2, ThenNew
        <5> QED BY <4>1, <5>1 DEF Count
      <4>3. CASE u = t
        <5>1. Occ(todo'[t], FramesWith(UseOps, s)) = Count(t, UseOps, s)
                + (IF s = Slot(t) THEN Occ(ops, UseOps) - (IF "disc_cas" \in UseOps THEN 1 ELSE 0) ELSE 0)
          BY <2>15, ThenCounts
        <5>2. "disc_cas" \notin UseOps
          BY DEF UseOps
        <5> QED BY <1>2, <2>8, <4>1, <4>3, <5>1, <5>2
      <4> QED BY <4>2, <4>3
    <3>2. \A p \in pending' : p.s # s
      BY <1>1, <2>5
    <3>3. \A i \in 1 .. Len(port') : port'[i].s # s
      BY <1>1, <2>5
    <3> QED BY <2>11, <3>1, <3>2, <3>3 DEF Quiet, Count
  <2>13. ~Reaches({"insert"}, s)' /\ (Newest(s)' <=> Newest(s))
    <3>1. ~Reaches({"insert"}, s)
      <4>1. ~Entering(s)
        <5>1. Owners(s) # 1
          BY <2>2
        <5> QED BY <1>2, <5>1, OneOwner
      <4> QED BY <4>1 DEF Entering, Reaches
    <3>2. PICK A : Lists(A) /\ todo[t] \in Seq(Todo(A, Slots)) /\ todo[t] # <<>>
      BY <1>1, ListOf DEF At
    <3>3. "disc_cas" \notin BeginOps /\ W \cap BeginOps = {}
      BY <2>6 DEF BeginOps
    <3>4. t = Acceptor => Without(todo[t], BeginOps) /\ Without(todo'[t], BeginOps)
      <4> SUFFICES ASSUME t = Acceptor PROVE Without(todo[t], BeginOps) /\ Without(todo'[t], BeginOps)
        OBVIOUS
      <4>1. Without(todo[t], BeginOps)
        BY <1>1, <3>3, Beginning
      <4>2. Without(Tail(todo[t]), BeginOps)
        BY <3>2, <4>1, TailWithout
      <4> QED BY <1>1, <2>6, <3>3, <4>1, <4>2, ThenWithout
    <3>5. \A u \in Threads \ {t} : todo'[u] = todo[u]
      BY <1>1, <2>6, ThenNew
    <3>6. \A r : /\ Reaches({"insert"}, r)' <=> Reaches({"insert"}, r)
                 /\ Newest(r)' <=> Newest(r)
      BY <3>4, <3>5, EntriesKept
    <3> QED BY <3>1, <3>6
  <2>14. SlotLife(s)'
    <3>1. sess[s].Index.slot = s /\ (Newest(s) => sess[s].Index = Id(s, lanId - 1))
      BY <1>2, <2>2 DEF Life, SlotLife, Named
    <3>2. sess'[s].Index.slot = s /\ Occ(indexStack', {s}) = 0
      BY <1>1, <2>3, <2>11, <3>1
    <3>3. Newest(s)' => sess'[s].Index = Id(s, lanId' - 1)
      BY <1>1, <2>11, <2>13, <3>1
    <3>4. Named(s)'
      BY <2>9, <2>13, <3>2, <3>3 DEF Named
    <3>5. Alone(s)'
      BY <2>10, <2>12 DEF Alone
    <3> QED BY <2>11, <3>4, <3>5 DEF SlotLife
  <2>16. PICK op : op = "disc_cas" /\ op \in {"disc_cas", "reclaim", "push_slot"} /\ At(t, op)
    BY <1>1
  <2> QED BY <1>1, <1>2, <2>6, <2>7, <2>11, <2>14, <2>15, <2>16, OwnerStep
<1> QED BY <1>3, <1>4

(* Who gives a slot back is its only owner, and nobody begins with it. *)
LEMMA OwnerHands ==
  ASSUME IInv, Life, NEW t \in Threads, NEW op \in {"reclaim", "push_slot"}, At(t, op),
         NEW s, s = Slot(t)
  PROVE  /\ s \in Slots /\ Quiet(s) /\ Has(op, s) = 1
         /\ Occ(indexStack, {s}) = 0 /\ Has("insert_ref", s) = 0
         /\ \A o \in {"reclaim", "push_slot"} \ {op} : Has(o, s) = 0
         /\ ~Entering(s) /\ ~Newest(s)
<1>1. s = Slot(t) /\ s \in Slots
  BY SlotAt
<1>2. Has(op, s) # 0
  <2>1. Count(t, {op}, s) # 0
    BY <1>1, HeadCounts
  <2> QED BY <2>1, SomeoneHas
<1>3. PICK o, i, r, p : /\ o = Occ(indexStack, {s}) /\ i = Has("insert_ref", s)
                        /\ r = Has("reclaim", s) /\ p = Has("push_slot", s)
  OBVIOUS
<1>4. o \in Nat /\ i \in Nat /\ r \in Nat /\ p \in Nat /\ o + r + p + i \in {0, 1}
  <2>1. Owners(s) \in {0, 1}
    BY <1>1, OneOwner
  <2>2. Owners(s) = o + r + p + i
    BY <1>3 DEF Owners
  <2>3. o \in Nat /\ i \in Nat /\ r \in Nat /\ p \in Nat
    BY <1>3, OwnersNat
  <2> QED BY <2>1, <2>2, <2>3
<1>5. /\ o = 0 /\ i = 0 /\ Owners(s) # 0
      /\ op = "reclaim" => r = 1 /\ p = 0
      /\ op = "push_slot" => p = 1 /\ r = 0
  <2>1. op = "reclaim" => r # 0
    BY <1>2, <1>3
  <2>2. op = "push_slot" => p # 0
    BY <1>2, <1>3
  <2>3. Owners(s) = o + r + p + i
    BY <1>3 DEF Owners
  <2> QED BY <1>4, <2>1, <2>2, <2>3
<1>6. ~Entering(s)
  <2>1. Has("insert_ref", s) = 0
    BY <1>3, <1>5
  <2> QED BY <2>1, InsertRefAt
<1>7. Quiet(s)
  BY <1>1, <1>5, OneOwner
<1>8. ~Newest(s)
  <2>1. ~Reaches({"insert_ref"}, s)
    BY <1>6 DEF Entering, Reaches
  <2> QED BY <1>1, <1>5, <2>1, OneOwner
<1> QED BY <1>1, <1>3, <1>5, <1>6, <1>7, <1>8

(* When it has given it back, that is so still. *)
LEMMA QuietAfter ==
  ASSUME IInv, IInv', Life, NEW t \in Threads, NEW op \in {"reclaim", "push_slot"}, At(t, op),
         NEW s, s = Slot(t), NEW W, W \subseteq {"push_slot"}, NEW ops \in Seq(W), Then(t, ops),
         UNCHANGED <<pending, port>>, sess'[s].disconnectFlag = sess[s].disconnectFlag
  PROVE  Quiet(s)' /\ ~Newest(s)' /\ ~Reaches({"insert"}, s)' /\ Has("insert_ref", s)' = 0
<1>1. s \in Slots /\ Quiet(s) /\ ~Entering(s) /\ ~Newest(s) /\ Has("insert_ref", s) = 0
  BY OwnerHands
<1>2. W \cap UseOps = {} /\ W \cap BeginOps = {} /\ op \notin BeginOps /\ op \notin UseOps
      /\ W \cap {"insert_ref"} = {} /\ op # "insert_ref"
  BY DEF UseOps, BeginOps
<1>3. \A u \in Threads \ {t} : todo'[u] = todo[u]
  BY ThenNew
<1>4. PICK A : Lists(A) /\ todo[t] \in Seq(Todo(A, Slots)) /\ todo[t] # <<>>
  BY ListOf DEF At
<1>5. t = Acceptor => Without(todo[t], BeginOps) /\ Without(todo'[t], BeginOps)
  <2> SUFFICES ASSUME t = Acceptor PROVE Without(todo[t], BeginOps) /\ Without(todo'[t], BeginOps)
    OBVIOUS
  <2>1. Without(todo[t], BeginOps)
    BY <1>2, Beginning
  <2>2. Without(Tail(todo[t]), BeginOps)
    BY <1>4, <2>1, TailWithout
  <2> QED BY <1>2, <2>1, <2>2, ThenWithout
<1>6. \A r : /\ Reaches({"insert"}, r)' <=> Reaches({"insert"}, r)
             /\ Newest(r)' <=> Newest(r)
  BY <1>3, <1>5, EntriesKept
<1>7. ~Newest(s)' /\ ~Reaches({"insert"}, s)'
  <2>1. ~Reaches({"insert"}, s)
    BY <1>1 DEF Entering, Reaches
  <2> QED BY <1>1, <1>6, <2>1
<1>8. ASSUME NEW u \in Threads \ {Main}, Occ(todo'[u], FramesWith(UseOps, s)) # 0
      PROVE  Count(u, UseOps, s) # 0 /\ ~(u = Acceptor /\ Entering(s))
  <2>1. CASE u # t
    BY <1>1, <1>3, <1>8, <2>1 DEF Count
  <2>2. CASE u = t
    <3>1. /\ Occ(ops, UseOps) = 0 /\ Count(t, UseOps, s) \in Nat
          /\ Occ(todo'[t], FramesWith(UseOps, s)) = Count(t, UseOps, s)
               + (IF s = Slot(t) THEN Occ(ops, UseOps) - (IF op \in UseOps THEN 1 ELSE 0) ELSE 0)
      BY <1>2, NoneOf, ThenCounts
    <3>2. PICK b, a : b = Occ(todo'[t], FramesWith(UseOps, s)) /\ a = Count(t, UseOps, s)
      OBVIOUS
    <3>3. b = a
      BY <1>2, <3>1, <3>2
    <3> QED BY <1>1, <1>8, <2>2, <3>2, <3>3
  <2> QED BY <2>1, <2>2
<1>9. Quiet(s)'
  <2>1. Undisturbed(s)
    BY <1>8 DEF Undisturbed
  <2> QED BY <1>1, <2>1, QuietKept
<1>10. Has("insert_ref", s)' = 0
  <2>1. PICK o : o = "insert_ref"
    OBVIOUS
  <2>2. W \cap {o} = {} /\ op # o /\ Has(o, s) = 0
    BY <1>1, <1>2, <2>1
  <2>3. Occ(ops, {o}) = 0
    BY <2>2, NoneOf
  <2>4. Has(o, s)' = Has(o, s) + Occ(ops, {o}) - (IF op = o THEN 1 ELSE 0)
    BY OwnersAfter
  <2> QED BY <2>1, <2>2, <2>3, <2>4
<1> QED BY <1>7, <1>9, <1>10

LEMMA ReclaimLife ==
  ASSUME IInv, IInv', Life, NEW t \in Threads, Reclaim(t), UNCHANGED lan
  PROVE  Life'
<1>1. At(t, "reclaim") /\ UNCHANGED <<pending, port, indexStack, lanId, idOf, arg>>
  BY DEF Reclaim, lan
<1>2. PICK s, op : s = Slot(t) /\ s \in Slots /\ op = "reclaim"
  BY <1>1, SlotAt
<1>3. op \in {"reclaim", "push_slot"} /\ At(t, op)
  BY <1>1, <1>2
<1>4. /\ Has("reclaim", s) = 1 /\ Has("push_slot", s) = 0 /\ Occ(indexStack, {s}) = 0
      /\ SlotLife(s)
  <2>1. /\ Has(op, s) = 1 /\ \A o \in {"reclaim", "push_slot"} \ {op} : Has(o, s) = 0
        /\ Occ(indexStack, {s}) = 0
    BY <1>2, <1>3, OwnerHands
  <2> QED BY <1>2, <2>1 DEF Life
<1>5. sess[s].Index.slot = s
  BY <1>4 DEF SlotLife, Named
<1>6. PICK ops, W : /\ W = {"push_slot"} /\ ops \in Seq(W) /\ Then(t, ops)
                    /\ Occ(ops, {"push_slot"}) = 1 /\ Occ(ops, {"reclaim"}) = 0
  <2>1. <<"push_slot">> \in Seq({"push_slot"})
    OBVIOUS
  <2>2. <<Frame("push_slot", s)>> = Frames(<<"push_slot">>, s)
    BY DEF Frames
  <2>3. todo' = [todo EXCEPT ![t] = <<Frame("push_slot", s)>> \o Tail(@)]
    BY <1>2, <1>5 DEF Reclaim
  <2>4. Then(t, <<"push_slot">>)
    BY <1>2, <2>2, <2>3 DEF Then
  <2>5. Occ(<<"push_slot">>, {"push_slot"}) = 1 /\ Occ(<<"push_slot">>, {"reclaim"}) = 0
    BY OccOne
  <2> QED BY <2>1, <2>4, <2>5
<1>7. /\ sess'[s].Index = NoId /\ sess'[s].disconnectFlag = sess[s].disconnectFlag
      /\ "disconnectFlag" \in DOMAIN sess'[s]
      /\ \A r \in Slots \ {s} : sess'[r] = sess[r]
  BY <1>2, FieldsAre DEF Reclaim
<1>8. W \subseteq {"push_slot"} /\ W \subseteq {"leave", "drain", "reclaim", "push_slot"}
      /\ W \cap {"leave", "drain"} = {}
  BY <1>6
<1>9. ops \in Seq(W) /\ Then(t, ops)
  BY <1>6
<1>10. Quiet(s)' /\ ~Newest(s)' /\ ~Reaches({"insert"}, s)' /\ Has("insert_ref", s)' = 0
  BY <1>1, <1>2, <1>3, <1>7, <1>8, <1>9, QuietAfter
<1>11. Has("reclaim", s)' = 0 /\ Has("push_slot", s)' = 1
  <2>1. ASSUME NEW o  PROVE Has(o, s)' = Has(o, s) + Occ(ops, {o}) - (IF op = o THEN 1 ELSE 0)
    BY <1>2, <1>3, <1>9, OwnersAfter
  <2> QED BY <1>2, <1>4, <1>6, <2>1
<1>12. Owners(s)' = 1
  <2>1. PICK a, b, c, d : /\ a = Occ(indexStack', {s}) /\ b = Has("reclaim", s)'
                          /\ c = Has("push_slot", s)' /\ d = Has("insert_ref", s)'
    OBVIOUS
  <2>2. a = 0 /\ b = 0 /\ c = 1 /\ d = 0
    BY <1>1, <1>4, <1>10, <1>11, <2>1
  <2>3. Owners(s)' = a + b + c + d
    BY <2>1 DEF Owners
  <2> QED BY <2>2, <2>3
<1>13. SlotLife(s)'
  <2>1. Alone(s)'
    BY <1>10, <1>12 DEF Alone
  <2>2. Named(s)'
    BY <1>7, <1>10, <1>11, <1>12 DEF Named
  <2> QED BY <1>7, <2>1, <2>2 DEF SlotLife
<1>14. op \in {"disc_cas", "reclaim", "push_slot"}
  BY <1>2
<1> QED BY <1>1, <1>2, <1>3, <1>7, <1>8, <1>9, <1>13, <1>14, OwnerStep

LEMMA PushSlotLife ==
  ASSUME IInv, IInv', Life, NEW t \in Threads, PushSlot(t)
  PROVE  Life'
<1>1. /\ At(t, "push_slot") /\ Then(t, <<>>) /\ UNCHANGED <<sess, pending, port, lanId, idOf, arg>>
      /\ indexStack' = <<Slot(t)>> \o indexStack
  BY DEF PushSlot, OnlyThread, OnlySession, kernel
<1>2. PICK s, op : s = Slot(t) /\ s \in Slots /\ op = "push_slot"
  BY <1>1, SlotAt
<1>3. op \in {"reclaim", "push_slot"} /\ At(t, op)
  BY <1>1, <1>2
<1>4. /\ Has("push_slot", s) = 1 /\ Has("reclaim", s) = 0 /\ Occ(indexStack, {s}) = 0
      /\ SlotLife(s)
  <2>1. /\ Has(op, s) = 1 /\ \A o \in {"reclaim", "push_slot"} \ {op} : Has(o, s) = 0
        /\ Occ(indexStack, {s}) = 0
    BY <1>2, <1>3, OwnerHands
  <2> QED BY <1>2, <2>1 DEF Life
<1>5. sess[s].Index = NoId /\ "disconnectFlag" \in DOMAIN sess[s]
  BY <1>4 DEF SlotLife, Named
<1>6. PICK ops, W : ops = <<>> /\ W = {} /\ ops \in Seq(W) /\ Then(t, ops)
  BY <1>1, EmptyList
<1>7. ops \in Seq(W) /\ Then(t, ops) /\ W \subseteq {"push_slot"}
      /\ W \subseteq {"leave", "drain", "reclaim", "push_slot"} /\ W \cap {"leave", "drain"} = {}
  BY <1>6
<1>8. sess'[s].disconnectFlag = sess[s].disconnectFlag
  BY <1>1
<1>9. Quiet(s)' /\ ~Newest(s)' /\ ~Reaches({"insert"}, s)' /\ Has("insert_ref", s)' = 0
  BY <1>1, <1>2, <1>3, <1>7, <1>8, QuietAfter
<1>10. Has("reclaim", s)' = 0 /\ Has("push_slot", s)' = 0
  <2>1. ASSUME NEW o  PROVE Has(o, s)' = Has(o, s) + Occ(ops, {o}) - (IF op = o THEN 1 ELSE 0)
    BY <1>2, <1>3, <1>7, OwnersAfter
  <2>2. \A o : Occ(ops, {o}) = 0
    BY <1>6, OccEmpty
  <2>3. PICK a, b : a = "reclaim" /\ b = "push_slot"
    OBVIOUS
  <2>4. op = b /\ op # a /\ Has(a, s) = 0 /\ Has(b, s) = 1
    BY <1>2, <1>4, <2>3
  <2>5. Has(a, s)' = 0 + 0 - 0 /\ Has(b, s)' = 1 + 0 - 1
    <3>1. Has(a, s)' = Has(a, s) + Occ(ops, {a}) - (IF op = a THEN 1 ELSE 0)
      BY <2>1
    <3>2. Has(b, s)' = Has(b, s) + Occ(ops, {b}) - (IF op = b THEN 1 ELSE 0)
      BY <2>1
    <3>3. Occ(ops, {a}) = 0 /\ Occ(ops, {b}) = 0
      BY <2>2
    <3>4. PICK ha, hb, oa, ob : ha = Has(a, s)' /\ hb = Has(b, s)' /\ oa = Occ(ops, {a}) /\ ob = Occ(ops, {b})
      OBVIOUS
    <3>5. ha = 0 + oa - 0 /\ hb = 1 + ob - 1 /\ oa = 0 /\ ob = 0
      BY <2>4, <3>1, <3>2, <3>3, <3>4
    <3> QED BY <3>4, <3>5
  <2> QED BY <2>3, <2>5
<1>11. \A r : Occ(indexStack', {r}) = (IF s = r THEN 1 ELSE 0) + Occ(indexStack, {r})
  <2>1. PICK f : f = <<s>>
    OBVIOUS
  <2>2. f \in Seq(Slots) /\ indexStack' = f \o indexStack
    BY <1>1, <1>2, <2>1
  <2>3. indexStack \in Seq(Slots)
    BY DEF IInv, SlotNumbers
  <2>4. \A r : Occ(f \o indexStack, {r}) = Occ(f, {r}) + Occ(indexStack, {r})
    BY <2>2, <2>3, OccConcat
  <2>5. \A r : Occ(f, {r}) = IF s \in {r} THEN 1 ELSE 0
    BY <2>1, OccOne
  <2>6. \A r : s \in {r} <=> s = r
    OBVIOUS
  <2> QED BY <2>2, <2>4, <2>5, <2>6
<1>12. Occ(indexStack', {s}) = 1 /\ \A r \in Slots \ {s} : Occ(indexStack', {r}) = Occ(indexStack, {r})
  <2>1. \A r : Occ(indexStack, {r}) \in Nat
    BY OwnersNat
  <2>2. Occ(indexStack', {s}) = 1
    <3>1. Occ(indexStack, {s}) = 0
      BY <1>4
    <3> QED BY <1>11, <3>1
  <2>3. ASSUME NEW r \in Slots \ {s}  PROVE Occ(indexStack', {r}) = Occ(indexStack, {r})
    <3>1. Occ(indexStack', {r}) = 0 + Occ(indexStack, {r})
      BY <1>11
    <3>2. Occ(indexStack, {r}) \in Nat
      BY <2>1
    <3> QED BY <3>1, <3>2
  <2> QED BY <2>2, <2>3
<1>13. Owners(s)' = 1
  <2>1. PICK a, b, c, d : /\ a = Occ(indexStack', {s}) /\ b = Has("reclaim", s)'
                          /\ c = Has("push_slot", s)' /\ d = Has("insert_ref", s)'
    OBVIOUS
  <2>2. a = 1 /\ b = 0 /\ c = 0 /\ d = 0
    BY <1>9, <1>10, <1>12, <2>1
  <2>3. Owners(s)' = a + b + c + d
    BY <2>1 DEF Owners
  <2> QED BY <2>2, <2>3
<1>14. SlotLife(s)'
  <2>1. Alone(s)'
    BY <1>9, <1>13 DEF Alone
  <2>2. sess'[s].Index = NoId /\ "disconnectFlag" \in DOMAIN sess'[s]
    BY <1>1, <1>5
  <2>3. Named(s)'
    BY <1>9, <1>10, <1>13, <2>2 DEF Named
  <2> QED BY <2>1, <2>2, <2>3 DEF SlotLife
<1>15. op \in {"disc_cas", "reclaim", "push_slot"} /\ \A r \in Slots \ {s} : sess'[r] = sess[r]
  BY <1>1, <1>2
<1> QED BY <1>1, <1>2, <1>3, <1>7, <1>12, <1>14, <1>15, OwnerStep
-----------------------------------------------------------------------------
(* THE ACCEPT THREAD *)

(* Its lists while it begins a session, before and after. *)
EntryLists == NewLists \cup {<<>>, <<"callback">>}

LEMMA EntryListsAre ==
  ASSUME NEW b \in EntryLists
  PROVE  /\ b \in Seq(BeginOps \cup {"callback"})
         /\ b # <<>> => /\ b = <<"pop_slot">> \/ b[Len(b)] = "callback"
                        /\ Head(b) \in BeginOps \cup {"callback"}
         /\ Occ(b, {"reclaim"}) = 0 /\ Occ(b, {"push_slot"}) = 0
<1>1. b \in Seq(BeginOps \cup {"callback"})
  <2>1. <<"callback">> \in Seq(BeginOps \cup {"callback"}) /\ <<>> \in Seq(BeginOps \cup {"callback"})
    OBVIOUS
  <2> QED BY <2>1, NewListsAre DEF EntryLists
<1>2. b # <<>> => b = <<"pop_slot">> \/ b[Len(b)] = "callback"
  <2>1. CASE b = NewSession
    BY <2>1 DEF NewSession
  <2>2. CASE b = <<"insert_ref", "insert_flag", "join", "callback">>
    BY <2>2
  <2>3. CASE b = <<"insert_flag", "join", "callback">>
    BY <2>3
  <2>4. CASE b = <<"join", "callback">>
    BY <2>4
  <2>5. CASE b = <<"callback">>
    BY <2>5
  <2> QED BY <2>1, <2>2, <2>3, <2>4, <2>5 DEF EntryLists, NewLists
<1>3. b # <<>> => Head(b) \in BeginOps \cup {"callback"}
  BY <1>1
<1>4. Occ(b, {"reclaim"}) = 0 /\ Occ(b, {"push_slot"}) = 0
  <2>1. PICK W : W = BeginOps \cup {"callback"}
    OBVIOUS
  <2>2. b \in Seq(W) /\ W \cap {"reclaim"} = {} /\ W \cap {"push_slot"} = {}
    BY <1>1, <2>1 DEF BeginOps
  <2> QED BY <2>2, NoneOf
<1> QED BY <1>1, <1>2, <1>3, <1>4

LEMMA EntryRefs ==
  /\ Occ(<<>>, {"insert_ref"}) = 0 /\ Occ(<<"pop_slot">>, {"insert_ref"}) = 0
  /\ Occ(NewSession, {"insert_ref"}) = 1
  /\ Occ(<<"insert_ref", "insert_flag", "join", "callback">>, {"insert_ref"}) = 1
  /\ Occ(<<"insert_flag", "join", "callback">>, {"insert_ref"}) = 0
  /\ Occ(<<"join", "callback">>, {"insert_ref"}) = 0
  /\ Occ(<<"callback">>, {"insert_ref"}) = 0
<1>1. /\ Positions(<<"insert_flag", "join", "callback">>, {"insert_ref"}) = {}
      /\ Positions(<<"join", "callback">>, {"insert_ref"}) = {}
      /\ Positions(<<"callback">>, {"insert_ref"}) = {}
      /\ Positions(<<"pop_slot">>, {"insert_ref"}) = {}
  BY DEF Positions
<1>2. Positions(NewSession, {"insert_ref"}) = {2}
  BY DEF Positions, NewSession
<1>3. Positions(<<"insert_ref", "insert_flag", "join", "callback">>, {"insert_ref"}) = {1}
  BY DEF Positions
<1>4. Cardinality({}) = 0 /\ Cardinality({1}) = 1 /\ Cardinality({2}) = 1
  BY FS_EmptySet, FS_Singleton
<1> QED BY <1>1, <1>2, <1>3, <1>4, OccEmpty DEF Occ

LEMMA EmptyFrames ==
  ASSUME NEW s
  PROVE  Frames(<<>>, s) = <<>>
BY DEF Frames

LEMMA FramesTail ==
  ASSUME NEW A, NEW ops \in Seq(A), ops # <<>>, NEW s
  PROVE  Frames(<<>>, s) \o Tail(Frames(ops, s)) = Frames(Tail(ops), s)
<1>1. PICK S, f, b, g : S = Todo(A, {s}) /\ f = Frames(ops, s) /\ b = Tail(ops) /\ g = Frames(b, s)
  OBVIOUS
<1>2. b \in Seq(A) /\ Len(ops) \in Nat /\ Len(ops) # 0 /\ Len(b) = Len(ops) - 1
      /\ \A i \in 1 .. Len(b) : b[i] = ops[i + 1]
  BY <1>1, EmptySeq
<1>3. f \in Seq(S) /\ Len(f) = Len(ops) /\ \A i \in 1 .. Len(ops) : f[i] = Frame(ops[i], s)
  BY <1>1, FramesList
<1>4. g \in Seq(S) /\ Len(g) = Len(b) /\ \A i \in 1 .. Len(b) : g[i] = Frame(b[i], s)
  BY <1>1, <1>2, FramesList
<1>5. PICK z : z = Tail(f)
  OBVIOUS
<1>6. z \in Seq(S) /\ Len(z) = Len(f) - 1 /\ \A i \in 1 .. Len(z) : z[i] = f[i + 1]
  <2>1. f # <<>>
    BY <1>2, <1>3, EmptySeq
  <2> QED BY <1>3, <1>5, <2>1
<1>7. z = g
  <2>1. Len(z) = Len(g)
    BY <1>2, <1>3, <1>4, <1>6
  <2>2. ASSUME NEW i \in 1 .. Len(z)  PROVE z[i] = g[i]
    <3>1. i \in 1 .. Len(b) /\ i + 1 \in 1 .. Len(ops)
      BY <1>2, <1>4, <2>1
    <3>2. z[i] = f[i + 1] /\ g[i] = Frame(b[i], s) /\ b[i] = ops[i + 1]
      BY <1>2, <1>4, <1>6, <3>1
    <3> QED BY <1>3, <3>1, <3>2
  <2> QED BY <1>4, <1>6, <2>1, <2>2, SeqEqual
<1>8. <<>> \o z = z
  BY <1>6
<1> QED BY <1>1, <1>5, <1>7, <1>8, EmptyFrames

(* The accept thread goes on with b on slot s, after a on slot p. *)
EntryEffect(s, b, p, a) ==
  /\ \A u \in Threads \ {Acceptor} : todo'[u] = todo[u]
  /\ \A O, r : Reaches(O, r)' <=> Head(b) \in O /\ r = s
  /\ \A O, r : Reaches(O, r) <=> a # <<>> /\ Head(a) \in O /\ r = p
  /\ \A o, r : /\ Has(o, r) \in Nat /\ Occ(a, {o}) \in Nat /\ Occ(b, {o}) \in Nat
               /\ Has(o, r)' = Has(o, r) - (IF r = p THEN Occ(a, {o}) ELSE 0)
                                         + (IF r = s THEN Occ(b, {o}) ELSE 0)
  /\ \A O, r : Occ(todo'[Acceptor], FramesWith(O, r)) = IF r = s THEN Occ(b, O) ELSE 0

LEMMA EntryStep ==
  ASSUME IInv, IInv', Life, NEW s \in Slots, NEW b \in EntryLists, b # <<>>,
         todo' = [todo EXCEPT ![Acceptor] = Frames(b, s)],
         NEW a \in EntryLists, NEW p \in Slots, todo[Acceptor] = Frames(a, p)
  PROVE  /\ Disciplined(Acceptor)' /\ Accepting'
         /\ EntryEffect(s, b, p, a)
<1>1. PICK W : W = BeginOps \cup {"callback"}
  OBVIOUS
<1>2. a \in Seq(W) /\ b \in Seq(W)
  BY <1>1, EntryListsAre
<1>3. PICK A : Lists(A)
  BY ListsAre
<1>4. Acceptor \in Threads
  BY ThreadsFinite
<1>5. PICK f : f = Frames(b, s) /\ f \in Seq(Todo(W, Slots))
  BY <1>2, FramesAre
<1>6. todo'[Acceptor] = f /\ \A u \in Threads \ {Acceptor} : todo'[u] = todo[u]
  BY <1>3, <1>4, <1>5 DEF Lists, Queues
<1>7. Disciplined(Acceptor)'
  <2>1. PICK X : X = {"pop_slot"}
    OBVIOUS
  <2>2. Acceptor # Main /\ Acceptor \notin Users
    BY AcceptorApart
  <2>3. /\ W \cap Banned(Acceptor) = {} /\ W \cap {"leave", "drain"} = {} /\ W \cap AskOps = {}
        /\ X \cap Banned(Acceptor) = {} /\ X \cap {"leave", "drain"} = {} /\ X \cap AskOps = {}
        /\ X \cap UseOps = {}
    BY <1>1, <2>1, <2>2 DEF Banned, BeginOps, AskOps, UseOps
  <2>4. todo'[Acceptor] = Frames(b, s)
    BY <1>5, <1>6
  <2>5. CASE b = <<"pop_slot">>
    <3>1. b \in Seq(X)
      BY <2>1, <2>5
    <3> QED BY <2>3, <2>4, <3>1, BeginDisciplined
  <2>6. CASE b[Len(b)] = "callback"
    BY <1>2, <2>3, <2>4, <2>6, BeginDisciplined
  <2> QED BY <2>5, <2>6, EntryListsAre
<1>8. Accepting'
  <2>1. CASE b \in NewLists
    BY <1>5, <1>6, <2>1 DEF Accepting
  <2>2. CASE b = <<"callback">>
    <3>1. PICK X : X = {"callback"}
      OBVIOUS
    <3>2. b \in Seq(X) /\ X \cap BeginOps = {}
      BY <2>2, <3>1 DEF BeginOps
    <3>3. Without(Frames(b, s), BeginOps)
      BY <3>2, FramesWithout
    <3> QED BY <1>5, <1>6, <3>3 DEF Accepting
  <2> QED BY <2>1, <2>2 DEF EntryLists
<1>9. \A O, r : Reaches(O, r)' <=> Head(b) \in O /\ r = s
  <2>1. f # <<>> /\ Head(f).op = Head(b) /\ Head(f).s = s
    BY <1>2, <1>5, FramesFirst
  <2> QED BY <1>6, <2>1 DEF Reaches, Slot
<1>10. \A O, r : Reaches(O, r) <=> a # <<>> /\ Head(a) \in O /\ r = p
  <2>1. PICK g : g = todo[Acceptor] /\ g = Frames(a, p)
    OBVIOUS
  <2>2. CASE a # <<>>
    <3>1. g # <<>> /\ Head(g).op = Head(a) /\ Head(g).s = p
      BY <1>2, <2>1, <2>2, FramesFirst
    <3> QED BY <2>1, <2>2, <3>1 DEF Reaches, Slot
  <2>3. CASE a = <<>>
    <3>1. g = <<>>
      BY <2>1, <2>3, EmptyFrames
    <3> QED BY <2>1, <2>3, <3>1 DEF Reaches
  <2> QED BY <2>2, <2>3
<1>11. ASSUME NEW o, NEW r
       PROVE  /\ Has(o, r) \in Nat /\ Occ(a, {o}) \in Nat /\ Occ(b, {o}) \in Nat
              /\ Has(o, r)' = Has(o, r) - (IF r = p THEN Occ(a, {o}) ELSE 0)
                                        + (IF r = s THEN Occ(b, {o}) ELSE 0)
  <2>1. PICK Q, R, M, t : Q = todo /\ R = todo' /\ M = FramesWith({o}, r) /\ t = Acceptor /\ t \in Threads
    BY <1>4
  <2>2. Q \in Queues(Threads, Todo(A, Slots)) /\ Puts(Q, R, t, f)
    BY <1>3, <1>5, <2>1 DEF Lists, Puts
  <2>3. Total(Q, M) \in Nat /\ Total(R, M) = Total(Q, M) - Occ(Q[t], M) + Occ(f, M)
    BY <1>5, <2>1, <2>2, ListReplaced
  <2>4. Occ(f, M) = IF r = s THEN Occ(b, {o}) ELSE 0
    BY <1>2, <1>5, <2>1, FramesCount
  <2>5. Occ(Q[t], M) = IF r = p THEN Occ(a, {o}) ELSE 0
    <3>1. Q[t] = Frames(a, p)
      BY <2>1
    <3> QED BY <1>2, <2>1, <3>1, FramesCount
  <2>6. Has(o, r) = Total(Q, M) /\ Has(o, r)' = Total(R, M)
    BY <2>1 DEF Has, InThreads
  <2>7. Occ(a, {o}) \in Nat /\ Occ(b, {o}) \in Nat
    BY <1>2, PositionsFinite
  <2> QED BY <2>3, <2>4, <2>5, <2>6, <2>7
<1>12. \A O, r : Occ(todo'[Acceptor], FramesWith(O, r)) = IF r = s THEN Occ(b, O) ELSE 0
  BY <1>2, <1>5, <1>6, FramesCount
<1> QED BY <1>6, <1>7, <1>8, <1>9, <1>10, <1>11, <1>12 DEF EntryEffect

(* The other slots. *)
LEMMA EntryElsewhere ==
  ASSUME IInv, IInv', Life, NEW s \in Slots, NEW b \in EntryLists, b # <<>>,
         todo' = [todo EXCEPT ![Acceptor] = Frames(b, s)],
         NEW a \in EntryLists, NEW p \in Slots, todo[Acceptor] = Frames(a, p),
         a \in {<<>>, <<"pop_slot">>} \/ p = s,
         UNCHANGED <<pending, port>>,
         \A r \in Slots \ {s} : Occ(indexStack', {r}) = Occ(indexStack, {r}) /\ sess'[r] = sess[r]
  PROVE  Elsewhere(Acceptor, s)
<1>0. EntryEffect(s, b, p, a)
  BY EntryStep
<1>1. /\ \A u \in Threads \ {Acceptor} : todo'[u] = todo[u]
      /\ \A O, r : Reaches(O, r)' <=> Head(b) \in O /\ r = s
      /\ \A O, r : Reaches(O, r) <=> a # <<>> /\ Head(a) \in O /\ r = p
      /\ \A o, r : /\ Has(o, r) \in Nat /\ Occ(a, {o}) \in Nat /\ Occ(b, {o}) \in Nat
                   /\ Has(o, r)' = Has(o, r) - (IF r = p THEN Occ(a, {o}) ELSE 0)
                                             + (IF r = s THEN Occ(b, {o}) ELSE 0)
      /\ \A O, r : Occ(todo'[Acceptor], FramesWith(O, r)) = IF r = s THEN Occ(b, O) ELSE 0
  BY <1>0 DEF EntryEffect
<1>2. ASSUME NEW r \in Slots \ {s}
      PROVE  /\ \A o \in {"reclaim", "push_slot", "insert_ref"} : Has(o, r)' = Has(o, r)
             /\ \A O : O \subseteq BeginOps \ {"pop_slot"} => ~Reaches(O, r) /\ ~Reaches(O, r)'
             /\ Occ(todo'[Acceptor], FramesWith(UseOps, r)) = 0
  <2>1. r # s
    OBVIOUS
  <2>2. ASSUME r = p  PROVE a = <<>> \/ a = <<"pop_slot">>
    BY <2>1, <2>2
  <2>3. ASSUME NEW o \in {"reclaim", "push_slot", "insert_ref"}  PROVE Has(o, r)' = Has(o, r)
    <3>1. Occ(a, {"reclaim"}) = 0 /\ Occ(a, {"push_slot"}) = 0
      BY EntryListsAre
    <3>2. r = p => Occ(a, {"insert_ref"}) = 0
      BY <2>2, EntryRefs
    <3>3. r = p => Occ(a, {o}) = 0
      BY <3>1, <3>2
    <3>4. Has(o, r) \in Nat /\ Has(o, r)' = Has(o, r) - (IF r = p THEN Occ(a, {o}) ELSE 0) + 0
      BY <1>1, <2>1
    <3> QED BY <3>3, <3>4
  <2>4. ASSUME NEW O, O \subseteq BeginOps \ {"pop_slot"}  PROVE ~Reaches(O, r) /\ ~Reaches(O, r)'
    BY <1>1, <2>1, <2>2, <2>4
  <2>5. Occ(todo'[Acceptor], FramesWith(UseOps, r)) = 0
    BY <1>1, <2>1
  <2> QED BY <2>3, <2>4, <2>5
<1>3. {"insert"} \subseteq BeginOps \ {"pop_slot"} /\ {"insert", "insert_ref"} \subseteq BeginOps \ {"pop_slot"}
      /\ {"insert_ref", "insert_flag", "join"} \subseteq BeginOps \ {"pop_slot"}
  BY DEF BeginOps
<1>4. ASSUME NEW r \in Slots \ {s}
      PROVE  ~Reaches({"insert"}, r) /\ ~Reaches({"insert"}, r)' /\ ~Entering(r) /\ ~Entering(r)'
             /\ ~Newest(r) /\ ~Newest(r)'
  BY <1>2, <1>3 DEF Entering, Newest
<1> QED BY <1>1, <1>2, <1>4 DEF Elsewhere

LEMMA EntryLife ==
  ASSUME IInv, IInv', Life, NEW s \in Slots, NEW b \in EntryLists, b # <<>>,
         todo' = [todo EXCEPT ![Acceptor] = Frames(b, s)],
         NEW a \in EntryLists, NEW p \in Slots, todo[Acceptor] = Frames(a, p),
         a \in {<<>>, <<"pop_slot">>} \/ p = s,
         UNCHANGED <<pending, port, arg>>,
         \A r \in Slots \ {s} : Occ(indexStack', {r}) = Occ(indexStack, {r}) /\ sess'[r] = sess[r],
         lanId' \in Nat, Known \in Int, Known' \in Int, Known <= Known',
         \A c \in Conns : idOf'[c] = idOf[c] \/ (idOf'[c].net \in Int /\ idOf'[c].net < Known'),
         SlotLife(s)'
  PROVE  Life'
<1>1. Elsewhere(Acceptor, s)
  BY EntryElsewhere
<1>2. Disciplined(Acceptor)' /\ Accepting' /\ EntryEffect(s, b, p, a)
  BY EntryStep
<1>3. \A u \in Users : todo'[u] = todo[u]
  <2> TAKE u \in Users
  <2>1. u \in Threads \ {Acceptor}
    BY AcceptorApart DEF Threads
  <2> QED BY <1>2, <2>1 DEF EntryEffect
<1>4. Informed'
  BY <1>3, InformedMore
<1>5. Acceptor \in Threads
  BY ThreadsFinite
<1> QED BY <1>1, <1>2, <1>4, <1>5, LifeFrom

(* The slot of a session that is to begin stays its own. *)
LEMMA EntryQuiet ==
  ASSUME NEW s, NEW b, NEW p, NEW a, EntryEffect(s, b, p, a), Quiet(s),
         Head(b) \in {"insert", "insert_ref"}, UNCHANGED <<pending, port>>,
         sess'[s].disconnectFlag = sess[s].disconnectFlag
  PROVE  Quiet(s)'
<1>1. Entering(s)'
  BY DEF EntryEffect, Entering
<1>2. ASSUME NEW u \in Threads \ {Main}, Occ(todo'[u], FramesWith(UseOps, s)) # 0
      PROVE  u = Acceptor
  <2>1. SUFFICES ASSUME u # Acceptor PROVE FALSE
    OBVIOUS
  <2>2. todo'[u] = todo[u]
    BY <2>1 DEF EntryEffect
  <2>3. Count(u, UseOps, s) # 0
    BY <1>2, <2>2 DEF Count
  <2> QED BY <2>1, <2>3 DEF Quiet
<1> QED BY <1>1, <1>2 DEF Quiet, Count

LEMMA BeginOn ==
  ASSUME IInv, Life, NEW t \in Threads, NEW op \in BeginOps, At(t, op)
  PROVE  /\ t = Acceptor /\ Slot(t) \in Slots
         /\ \E a \in NewLists : todo[Acceptor] = Frames(a, Slot(t)) /\ Head(a) = op /\ a # <<>>
<1>1. /\ t = Acceptor
      /\ \E a \in NewLists : todo[t] = Frames(a, Slot(t)) /\ Head(a) = op
  BY Beginning
<1>2. Slot(t) \in Slots
  BY SlotAt
<1> QED BY <1>1, <1>2, NewListsAre

LEMMA EntryTails ==
  ASSUME NEW a \in NewLists
  PROVE  /\ Head(a) = "insert" => Tail(a) = <<"insert_ref", "insert_flag", "join", "callback">>
         /\ Head(a) = "insert_ref" => Tail(a) = <<"insert_flag", "join", "callback">>
         /\ Head(a) = "insert_flag" => Tail(a) = <<"join", "callback">>
         /\ Head(a) = "join" => Tail(a) = <<"callback">>
<1>1. /\ Tail(<<"insert", "insert_ref", "insert_flag", "join", "callback">>)
           = <<"insert_ref", "insert_flag", "join", "callback">>
      /\ Tail(<<"insert_ref", "insert_flag", "join", "callback">>) = <<"insert_flag", "join", "callback">>
      /\ Tail(<<"insert_flag", "join", "callback">>) = <<"join", "callback">>
      /\ Tail(<<"join", "callback">>) = <<"callback">>
  OBVIOUS
<1> QED BY <1>1, NewListsAre DEF NewSession

LEMMA BeginThen ==
  ASSUME IInv, Life, NEW t \in Threads, NEW op \in BeginOps \ {"pop_slot"}, At(t, op), Then(t, <<>>)
  PROVE  \E a \in NewLists, s \in Slots, b \in EntryLists :
           /\ t = Acceptor /\ s = Slot(t) /\ todo[Acceptor] = Frames(a, s) /\ Head(a) = op
           /\ b = Tail(a) /\ b # <<>> /\ todo' = [todo EXCEPT ![Acceptor] = Frames(b, s)]
<1>1. PICK a \in NewLists, s \in Slots :
        /\ t = Acceptor /\ s = Slot(t)
        /\ todo[Acceptor] = Frames(a, s) /\ Head(a) = op /\ a # <<>>
  BY BeginOn
<1>2. a \in Seq(BeginOps \cup {"callback"})
  BY NewListsAre
<1>3. Tail(a) # <<>> /\ Tail(a) \in EntryLists
  <2>1. Head(a) \in {"insert", "insert_ref", "insert_flag", "join"}
    BY <1>1 DEF BeginOps
  <2>2. Tail(a) \in {<<"insert_ref", "insert_flag", "join", "callback">>,
                    <<"insert_flag", "join", "callback">>, <<"join", "callback">>, <<"callback">>}
    BY <2>1, EntryTails
  <2>3. ASSUME NEW x \in {<<"insert_ref", "insert_flag", "join", "callback">>,
                         <<"insert_flag", "join", "callback">>, <<"join", "callback">>, <<"callback">>}
        PROVE  x \in EntryLists
    BY DEF EntryLists, NewLists
  <2>4. /\ <<"insert_ref", "insert_flag", "join", "callback">> # <<>>
        /\ <<"insert_flag", "join", "callback">> # <<>>
        /\ <<"join", "callback">> # <<>> /\ <<"callback">> # <<>>
    OBVIOUS
  <2> QED BY <2>2, <2>3, <2>4
<1>4. todo' = [todo EXCEPT ![t] = Frames(<<>>, Slot(t)) \o Tail(todo[t])]
  BY DEF Then
<1>5. Frames(<<>>, s) \o Tail(Frames(a, s)) = Frames(Tail(a), s)
  BY <1>1, <1>2, FramesTail
<1>6. PICK b : b = Tail(a) /\ b # <<>> /\ b \in EntryLists
  BY <1>3
<1>7. todo' = [todo EXCEPT ![Acceptor] = Frames(b, s)]
  BY <1>1, <1>4, <1>5, <1>6
<1> QED BY <1>1, <1>6, <1>7

LEMMA AcceptLife ==
  ASSUME IInv, IInv', Life, NEW c \in Conns, Accept(c)
  PROVE  Life'
<1>1. UNCHANGED <<sess, pending, port, indexStack, lanId, arg, idOf>> /\ todo[Acceptor] = <<>>
  BY DEF Accept, Idle
<1>2. CASE UNCHANGED todo
  BY <1>1, <1>2, StillLife
<1>3. CASE todo' = [todo EXCEPT ![Acceptor] = <<Frame("pop_slot", 0)>>]
  <2>1. PICK s, b, a : /\ s = 0 /\ s \in Slots /\ b = <<"pop_slot">> /\ a = <<>>
                       /\ Head(b) = "pop_slot" /\ b # <<>>
    <3>1. Head(<<"pop_slot">>) = "pop_slot" /\ <<"pop_slot">> # <<>>
      OBVIOUS
    <3>2. 0 \in Slots
      BY ThreadsFinite
    <3> QED BY <3>1, <3>2
  <2>2. b \in EntryLists /\ a \in EntryLists /\ a \in {<<>>, <<"pop_slot">>}
    <3>1. <<>> \in EntryLists /\ <<"pop_slot">> \in EntryLists /\ <<>> \in {<<>>, <<"pop_slot">>}
      BY DEF EntryLists, NewLists
    <3> QED BY <2>1, <3>1
  <2>3. todo[Acceptor] = Frames(a, s) /\ todo' = [todo EXCEPT ![Acceptor] = Frames(b, s)]
    BY <1>1, <1>3, <2>1, EmptyFrames, OneFrame
  <2>4. EntryEffect(s, b, s, a)
    BY <2>1, <2>2, <2>3, EntryStep
  <2>5. \A O, r : ~Reaches(O, r) /\ (Reaches(O, r)' => "pop_slot" \in O)
    BY <2>1, <2>4 DEF EntryEffect
  <2>6. \A r : ~Newest(r) /\ ~Newest(r)' /\ ~Reaches({"insert"}, r) /\ ~Reaches({"insert"}, r)'
    BY <2>5 DEF Newest
  <2>7. Known = lanId /\ Known' = lanId' /\ lanId \in Nat /\ lanId' \in Nat
    BY <1>1, <2>6 DEF Known, Life
  <2>8. SlotLife(s)'
    <3>1. \A o \in {"reclaim", "push_slot", "insert_ref"} : Has(o, s)' = Has(o, s)
      <4>1. ASSUME NEW o, Occ(b, {o}) = 0  PROVE Has(o, s)' = Has(o, s)
        <5>1. Has(o, s) \in Nat /\ Has(o, s)' = Has(o, s) - Occ(a, {o}) + Occ(b, {o})
          BY <2>4 DEF EntryEffect
        <5>2. Occ(a, {o}) = 0
          BY <2>1, OccEmpty
        <5> QED BY <4>1, <5>1, <5>2
      <4>2. Occ(b, {"reclaim"}) = 0 /\ Occ(b, {"push_slot"}) = 0
        BY <2>2, EntryListsAre
      <4>3. Occ(b, {"insert_ref"}) = 0
        BY <2>1, EntryRefs
      <4> QED BY <4>1, <4>2, <4>3
    <3>2. Undisturbed(s)
      <4>1. ASSUME NEW u \in Threads \ {Main}, Occ(todo'[u], FramesWith(UseOps, s)) # 0
            PROVE  Count(u, UseOps, s) # 0 /\ u # Acceptor
        <5>1. u # Acceptor
          <6>1. PICK W : W = {"pop_slot"}
            OBVIOUS
          <6>2. b \in Seq(W) /\ W \cap UseOps = {}
            BY <2>1, <6>1 DEF UseOps
          <6>3. Occ(b, UseOps) = 0
            BY <6>2, NoneOf
          <6>4. Occ(todo'[Acceptor], FramesWith(UseOps, s)) = Occ(b, UseOps)
            BY <2>4 DEF EntryEffect
          <6> QED BY <4>1, <6>3, <6>4
        <5>2. todo'[u] = todo[u]
          BY <2>4, <5>1 DEF EntryEffect
        <5> QED BY <4>1, <5>1, <5>2 DEF Count
      <4> QED BY <1>1, <4>1 DEF Undisturbed
    <3>3. SlotLife(s) /\ "disconnectFlag" \in DOMAIN sess'[s] /\ sess'[s].Index = sess[s].Index
      BY <1>1, <2>1 DEF Life, SlotLife
    <3>4. UNCHANGED <<indexStack, lanId>>
      BY <1>1
    <3> QED BY <2>1, <2>6, <3>1, <3>2, <3>3, <3>4, SlotKept
  <2>9. Known \in Int /\ Known' \in Int /\ Known <= Known'
    BY <1>1, <2>7
  <2>10. /\ \A c0 \in Conns : idOf'[c0] = idOf[c0]
         /\ \A r \in Slots \ {s} : Occ(indexStack', {r}) = Occ(indexStack, {r}) /\ sess'[r] = sess[r]
         /\ UNCHANGED <<pending, port, arg>>
    BY <1>1
  <2> QED BY <2>1, <2>2, <2>3, <2>7, <2>8, <2>9, <2>10, EntryLife
<1> QED BY <1>2, <1>3 DEF Accept

(* The session's slot while it begins. *)
LEMMA EntryOwner ==
  ASSUME IInv, Life, NEW s \in Slots
  PROVE  /\ Reaches({"insert"}, s) =>
              /\ Owners(s) = 1 /\ Has("reclaim", s) = 0 /\ Has("push_slot", s) = 0
              /\ Occ(indexStack, {s}) = 0 /\ Has("insert_ref", s) = 1 /\ Quiet(s)
         /\ Reaches({"insert_ref"}, s) =>
              /\ Owners(s) = 1 /\ Has("reclaim", s) = 0 /\ Has("push_slot", s) = 0
              /\ Occ(indexStack, {s}) = 0 /\ Has("insert_ref", s) = 1
         /\ Reaches({"insert_flag", "join"}, s) => Owners(s) = 0
<1>1. Entering(s) =>
        /\ Owners(s) = 1 /\ Has("reclaim", s) = 0 /\ Has("push_slot", s) = 0
        /\ Occ(indexStack, {s}) = 0 /\ Has("insert_ref", s) = 1 /\ Quiet(s)
  <2> SUFFICES ASSUME Entering(s)
               PROVE  /\ Owners(s) = 1 /\ Has("reclaim", s) = 0 /\ Has("push_slot", s) = 0
                      /\ Occ(indexStack, {s}) = 0 /\ Has("insert_ref", s) = 1 /\ Quiet(s)
    OBVIOUS
  <2>1. /\ Owners(s) = 1 /\ Has("reclaim", s) = 0 /\ Has("push_slot", s) = 0 /\ Occ(indexStack, {s}) = 0
        /\ Quiet(s)
    BY OneOwner
  <2>2. PICK o, r, p, i : /\ o = Occ(indexStack, {s}) /\ r = Has("reclaim", s)
                          /\ p = Has("push_slot", s) /\ i = Has("insert_ref", s) /\ i \in Nat
    BY OwnersNat
  <2>3. Owners(s) = o + r + p + i
    BY <2>2 DEF Owners
  <2>4. i = 1
    BY <2>1, <2>2, <2>3
  <2> QED BY <2>1, <2>2, <2>4
<1>2. Reaches({"insert"}, s) \/ Reaches({"insert_ref"}, s) => Entering(s)
  BY DEF Entering, Reaches
<1>3. Reaches({"insert_flag", "join"}, s) => Newest(s) /\ ~Reaches({"insert_ref"}, s)
  BY DEF Newest, Reaches
<1>4. Newest(s) /\ Owners(s) # 0 => Reaches({"insert_ref"}, s)
  BY OneOwner
<1> QED BY <1>1, <1>2, <1>3, <1>4

LEMMA PopSlotLife ==
  ASSUME IInv, IInv', Life, NEW t \in Threads, PopSlot(t)
  PROVE  Life'
<1>1. At(t, "pop_slot") /\ UNCHANGED <<sess, pending, port, lanId, idOf, arg>>
  BY DEF PopSlot, OnlyThread, OnlySession, Crash, kernel
<1>2. CASE Crash("no_slot") /\ UNCHANGED indexStack
  BY <1>1, <1>2, StillLife DEF Crash
<1>3. CASE /\ indexStack # <<>> /\ indexStack' = Tail(indexStack)
           /\ todo' = [todo EXCEPT ![t] = Frames(NewSession, Head(indexStack)) \o Tail(@)]
  <2>1. PICK s, q, r : s = Head(indexStack) /\ q = indexStack /\ r = Tail(q) /\ q # <<>>
    BY <1>3
  <2>2. q \in Seq(Slots) /\ s \in Slots /\ indexStack' = r
    BY <1>3, <2>1 DEF IInv, SlotNumbers
  <2>3. PICK op, p, a : /\ op = "pop_slot" /\ p = Slot(t) /\ p \in Slots /\ t = Acceptor
                        /\ todo[Acceptor] = Frames(a, p) /\ a = <<"pop_slot">>
    <3>1. PICK op : op = "pop_slot" /\ op \in BeginOps /\ At(t, op)
      BY <1>1 DEF BeginOps
    <3>2. PICK a \in NewLists : todo[Acceptor] = Frames(a, Slot(t)) /\ Head(a) = op
      BY <3>1, BeginOn
    <3>3. t = Acceptor /\ Slot(t) \in Slots
      BY <3>1, BeginOn
    <3>4. a = <<"pop_slot">>
      BY <3>1, <3>2, NewListsAre
    <3> QED BY <3>1, <3>2, <3>3, <3>4
  <2>4. PICK b : b = NewSession /\ Head(b) = "insert" /\ b # <<>> /\ b \in EntryLists
    <3>1. Head(NewSession) = "insert" /\ NewSession # <<>>
      BY DEF NewSession
    <3> QED BY <3>1 DEF EntryLists, NewLists
  <2>5. todo' = [todo EXCEPT ![Acceptor] = Frames(b, s)]
    <3>1. PICK f : f = Frames(b, s) /\ f \in Seq(Todo(BeginOps \cup {"callback"}, Slots))
      BY <2>2, <2>4, EntryListsAre, FramesAre
    <3>2. Tail(todo[t]) = <<>>
      <4>1. todo[t] = <<Frame("pop_slot", p)>>
        BY <2>3, OneFrame
      <4> QED BY <4>1
    <3>3. f \o <<>> = f
      BY <3>1
    <3>4. todo' = [todo EXCEPT ![t] = f \o Tail(todo[t])]
      BY <1>3, <2>1, <2>4, <3>1
    <3>5. todo' = [todo EXCEPT ![t] = f]
      BY <3>2, <3>3, <3>4
    <3>6. t = Acceptor
      BY <2>3
    <3> QED BY <3>1, <3>5, <3>6
  <2>6. a \in EntryLists /\ a \in {<<>>, <<"pop_slot">>} /\ a # <<>> /\ Head(a) = "pop_slot"
    <3>1. <<"pop_slot">> \in EntryLists /\ <<"pop_slot">> # <<>> /\ Head(<<"pop_slot">>) = "pop_slot"
      BY DEF EntryLists, NewLists
    <3> QED BY <2>3, <3>1
  <2>7. EntryEffect(s, b, p, a)
    BY <2>2, <2>3, <2>4, <2>5, <2>6, EntryStep
  <2>8. /\ \A O, x : Reaches(O, x) => "pop_slot" \in O
        /\ \A O, x : Reaches(O, x)' => "insert" \in O
    BY <2>4, <2>6, <2>7 DEF EntryEffect
  <2>9. \A x : ~Newest(x) /\ ~Newest(x)' /\ ~Entering(x)
    BY <2>8 DEF Newest, Entering
  <2>10. Known = lanId /\ Known' = lanId' /\ lanId \in Nat /\ lanId' \in Nat
    BY <1>1, <2>9 DEF Known, Life
  <2>11. \A x : /\ Occ(r, {x}) \in Nat
                /\ Occ(q, {x}) = IF s = x THEN Occ(r, {x}) + 1 ELSE Occ(r, {x})
    <3> TAKE x
    <3>1. /\ Occ(r, {x}) \in Nat
          /\ Occ(q, {x}) = IF Head(q) \in {x} THEN Occ(r, {x}) + 1 ELSE Occ(r, {x})
      BY <2>1, <2>2, OccTail
    <3>2. Head(q) = s
      BY <2>1
    <3> QED BY <3>1, <3>2
  <2>12. /\ Occ(indexStack, {s}) = 1 /\ Has("reclaim", s) = 0 /\ Has("push_slot", s) = 0
         /\ Has("insert_ref", s) = 0 /\ Quiet(s) /\ Occ(indexStack', {s}) = 0
    <3>1. PICK o, i, x, y, z : /\ o = Occ(indexStack, {s}) /\ i = Has("insert_ref", s)
                               /\ x = Has("reclaim", s) /\ y = Has("push_slot", s) /\ z = Occ(r, {s})
      OBVIOUS
    <3>2. o = z + 1 /\ z \in Nat
      BY <2>1, <2>11, <3>1
    <3>3. Owners(s) = o + x + y + i
      BY <3>1 DEF Owners
    <3>4. i \in Nat /\ x \in Nat /\ y \in Nat
      BY <3>1, OwnersNat
    <3>5. Owners(s) \in {0, 1}
      BY <2>2, OneOwner
    <3>6. o = 1 /\ i = 0 /\ x = 0 /\ y = 0 /\ z = 0 /\ Owners(s) # 0
      BY <3>2, <3>3, <3>4, <3>5
    <3>7. Quiet(s)
      BY <2>2, <3>6, OneOwner
    <3> QED BY <2>2, <3>1, <3>6, <3>7
  <2>13. Has("reclaim", s)' = 0 /\ Has("push_slot", s)' = 0 /\ Has("insert_ref", s)' = 1
    <3>1. ASSUME NEW o, Has(o, s) = 0, Occ(a, {o}) = 0  PROVE Has(o, s)' = Occ(b, {o})
      <4>1. /\ Has(o, s)' = Has(o, s) - (IF s = p THEN Occ(a, {o}) ELSE 0) + Occ(b, {o})
            /\ Occ(b, {o}) \in Nat
        BY <2>7 DEF EntryEffect
      <4> QED BY <3>1, <4>1
    <3>2. /\ Occ(a, {"reclaim"}) = 0 /\ Occ(a, {"push_slot"}) = 0
          /\ Occ(b, {"reclaim"}) = 0 /\ Occ(b, {"push_slot"}) = 0
      BY <2>4, <2>6, EntryListsAre
    <3>3. Occ(a, {"insert_ref"}) = 0 /\ Occ(b, {"insert_ref"}) = 1
      BY <2>3, <2>4, EntryRefs
    <3> QED BY <2>12, <3>1, <3>2, <3>3
  <2>14. Owners(s)' = 1
    <3>1. PICK o, x, y, i : /\ o = Occ(indexStack', {s}) /\ x = Has("reclaim", s)'
                            /\ y = Has("push_slot", s)' /\ i = Has("insert_ref", s)'
      OBVIOUS
    <3>2. o = 0 /\ x = 0 /\ y = 0 /\ i = 1
      BY <2>12, <2>13, <3>1
    <3>3. Owners(s)' = o + x + y + i
      BY <3>1 DEF Owners
    <3> QED BY <3>2, <3>3
  <2>15. SlotLife(s)'
    <3>1. Quiet(s)'
      <4>1. sess'[s].disconnectFlag = sess[s].disconnectFlag /\ UNCHANGED <<pending, port>>
        BY <1>1
      <4>2. Head(b) \in {"insert", "insert_ref"}
        BY <2>4
      <4> QED BY <2>7, <2>12, <4>1, <4>2, EntryQuiet
    <3>2. sess[s].Index = NoId /\ "disconnectFlag" \in DOMAIN sess[s]
      <4>1. SlotLife(s)
        BY <2>2 DEF Life
      <4>2. Occ(indexStack, {s}) # 0
        BY <2>12
      <4> QED BY <4>1, <4>2 DEF SlotLife, Named
    <3>3. Alone(s)'
      BY <2>14, <3>1 DEF Alone
    <3>4. sess'[s].Index = NoId /\ "disconnectFlag" \in DOMAIN sess'[s]
      BY <1>1, <3>2
    <3>5. Named(s)'
      BY <2>9, <2>13, <2>14, <3>4 DEF Named
    <3> QED BY <3>3, <3>4, <3>5 DEF SlotLife
  <2>16. Known \in Int /\ Known' \in Int /\ Known <= Known'
    BY <1>1, <2>10
  <2>17. \A x \in Slots \ {s} : Occ(indexStack', {x}) = Occ(indexStack, {x}) /\ sess'[x] = sess[x]
    <3> TAKE x \in Slots \ {s}
    <3>1. Occ(q, {x}) = Occ(r, {x})
      BY <2>11
    <3> QED BY <1>1, <2>1, <2>2, <3>1
  <2>18. (\A c \in Conns : idOf'[c] = idOf[c]) /\ UNCHANGED <<pending, port, arg>>
    BY <1>1
  <2>19. s \in Slots /\ p \in Slots /\ todo[Acceptor] = Frames(a, p) /\ lanId' \in Nat
         /\ b \in EntryLists /\ b # <<>> /\ a \in EntryLists /\ a \in {<<>>, <<"pop_slot">>}
    BY <2>2, <2>3, <2>4, <2>6, <2>10
  <2> QED BY <2>5, <2>15, <2>16, <2>17, <2>18, <2>19, EntryLife
<1> QED BY <1>2, <1>3 DEF PopSlot

(* The others of its steps: the thread goes on with the tail of its list. *)
LEMMA EntryNext ==
  ASSUME IInv, IInv', Life, NEW t \in Threads, NEW op \in BeginOps \ {"pop_slot"}, At(t, op),
         Then(t, <<>>)
  PROVE  \E a \in NewLists, s \in Slots, b \in EntryLists :
           /\ t = Acceptor /\ s = Slot(t) /\ todo[Acceptor] = Frames(a, s) /\ Head(a) = op
           /\ b = Tail(a) /\ b # <<>> /\ todo' = [todo EXCEPT ![Acceptor] = Frames(b, s)]
           /\ EntryEffect(s, b, s, a)
           /\ \A O : Reaches(O, s) <=> op \in O
           /\ \A o \in {"reclaim", "push_slot"} : Has(o, s)' = Has(o, s)
<1>1. PICK a \in NewLists, s \in Slots, b \in EntryLists :
        /\ t = Acceptor /\ s = Slot(t) /\ todo[Acceptor] = Frames(a, s) /\ Head(a) = op
        /\ b = Tail(a) /\ b # <<>> /\ todo' = [todo EXCEPT ![Acceptor] = Frames(b, s)]
  BY BeginThen
<1>2. a \in EntryLists /\ a # <<>>
  BY NewListsAre DEF EntryLists
<1>3. EntryEffect(s, b, s, a)
  BY <1>1, <1>2, EntryStep
<1>4. \A O : Reaches(O, s) <=> op \in O
  BY <1>1, <1>2, <1>3 DEF EntryEffect
<1>5. ASSUME NEW o \in {"reclaim", "push_slot"}  PROVE Has(o, s)' = Has(o, s)
  <2>1. Occ(a, {o}) = 0 /\ Occ(b, {o}) = 0
    BY <1>2, EntryListsAre
  <2>2. Has(o, s) \in Nat /\ Has(o, s)' = Has(o, s) - Occ(a, {o}) + Occ(b, {o})
    BY <1>3 DEF EntryEffect
  <2> QED BY <2>1, <2>2
<1> QED BY <1>1, <1>3, <1>4, <1>5

LEMMA InsertLife ==
  ASSUME IInv, IInv', Life, NEW t \in Threads, Insert(t)
  PROVE  Life'
<1>1. /\ At(t, "insert") /\ Then(t, <<>>) /\ UNCHANGED <<pending, port, indexStack, idOf, arg>>
      /\ lanId' = lanId + 1
  BY DEF Insert, OnlySession, kernel
<1>2. PICK op : op = "insert" /\ op \in BeginOps \ {"pop_slot"} /\ At(t, op)
  BY <1>1 DEF BeginOps
<1>3. PICK a \in NewLists, s \in Slots, b \in EntryLists :
        /\ t = Acceptor /\ s = Slot(t) /\ todo[Acceptor] = Frames(a, s) /\ Head(a) = op
        /\ b = Tail(a) /\ b # <<>> /\ todo' = [todo EXCEPT ![Acceptor] = Frames(b, s)]
        /\ EntryEffect(s, b, s, a)
        /\ \A O : Reaches(O, s) <=> op \in O
        /\ \A o \in {"reclaim", "push_slot"} : Has(o, s)' = Has(o, s)
  BY <1>1, <1>2, EntryNext
<1>4. /\ Owners(s) = 1 /\ Has("reclaim", s) = 0 /\ Has("push_slot", s) = 0
      /\ Occ(indexStack, {s}) = 0 /\ Has("insert_ref", s) = 1 /\ Quiet(s)
  <2>1. Reaches({"insert"}, s)
    BY <1>2, <1>3
  <2> QED BY <2>1, EntryOwner
<1>5. /\ Head(b) = "insert_ref" /\ Occ(a, {"insert_ref"}) = 1 /\ Occ(b, {"insert_ref"}) = 1
  <2>1. a = NewSession /\ b = <<"insert_ref", "insert_flag", "join", "callback">>
    BY <1>2, <1>3, EntryTails, NewListsAre
  <2>2. Head(<<"insert_ref", "insert_flag", "join", "callback">>) = "insert_ref"
    OBVIOUS
  <2> QED BY <2>1, <2>2, EntryRefs
<1>6. Has("insert_ref", s)' = 1
  <2>1. /\ Has("insert_ref", s)' = Has("insert_ref", s) - Occ(a, {"insert_ref"}) + Occ(b, {"insert_ref"})
    BY <1>3 DEF EntryEffect
  <2> QED BY <1>4, <1>5, <2>1
<1>7. /\ sess'[s].Index = Id(s, lanId) /\ sess'[s].disconnectFlag = sess[s].disconnectFlag
      /\ "disconnectFlag" \in DOMAIN sess'[s]
      /\ \A r \in Slots \ {s} : sess'[r] = sess[r]
  BY <1>3, FieldsAre DEF Insert
<1>8. Owners(s)' = 1 /\ Has("reclaim", s)' = 0
  <2>1. PICK o, x, y, i : /\ o = Occ(indexStack', {s}) /\ x = Has("reclaim", s)'
                          /\ y = Has("push_slot", s)' /\ i = Has("insert_ref", s)'
    OBVIOUS
  <2>2. o = 0 /\ x = 0 /\ y = 0 /\ i = 1
    BY <1>1, <1>3, <1>4, <1>6, <2>1
  <2>3. Owners(s)' = o + x + y + i
    BY <2>1 DEF Owners
  <2> QED BY <2>1, <2>2, <2>3
<1>9. \A O, r : Reaches(O, r)' <=> "insert_ref" \in O /\ r = s
  BY <1>3, <1>5 DEF EntryEffect
<1>10. \A O, r : Reaches(O, r) => op \in O /\ r = s
  BY <1>3 DEF EntryEffect
<1>11. ~Reaches({"insert"}, s)' /\ Newest(s)' /\ \A r : ~Newest(r)
  BY <1>2, <1>9, <1>10 DEF Newest
<1>12. lanId \in Nat /\ Known = lanId /\ Known' = lanId
  <2>1. lanId \in Nat
    BY DEF Life
  <2>2. Known' = lanId' - 1
    BY <1>11 DEF Known
  <2>3. Known = lanId
    BY <1>11 DEF Known
  <2> QED BY <1>1, <2>1, <2>2, <2>3
<1>13. SlotLife(s)'
  <2>1. Quiet(s)'
    <3>1. Head(b) \in {"insert", "insert_ref"} /\ UNCHANGED <<pending, port>>
      BY <1>1, <1>5
    <3> QED BY <1>3, <1>4, <1>7, <3>1, EntryQuiet
  <2>2. Alone(s)'
    BY <1>8, <2>1 DEF Alone
  <2>3. sess'[s].Index = Id(s, lanId' - 1)
    BY <1>1, <1>7, <1>12
  <2>4. Occ(indexStack', {s}) = 0 /\ Has("push_slot", s)' = 0
    BY <1>1, <1>3, <1>4
  <2>5. Named(s)'
    BY <1>8, <1>11, <2>3, <2>4 DEF Named
  <2> QED BY <1>7, <2>2, <2>5 DEF SlotLife
<1>14. /\ lanId' \in Nat /\ Known \in Int /\ Known' \in Int /\ Known <= Known'
       /\ \A c \in Conns : idOf'[c] = idOf[c]
       /\ \A r \in Slots \ {s} : Occ(indexStack', {r}) = Occ(indexStack, {r}) /\ sess'[r] = sess[r]
       /\ UNCHANGED <<pending, port, arg>>
  BY <1>1, <1>7, <1>12
<1>15. a \in EntryLists
  BY DEF EntryLists
<1> QED BY <1>3, <1>13, <1>14, <1>15, EntryLife

(* Its last steps change nothing of what Index says. *)
LEMMA EntryEnds ==
  ASSUME IInv, IInv', Life, NEW t \in Threads, NEW op \in {"insert_ref", "insert_flag", "join"}, At(t, op),
         Then(t, <<>>), UNCHANGED <<pending, port, indexStack, lanId, arg>>,
         NEW s, s = Slot(t), sess'[s].Index = sess[s].Index, "disconnectFlag" \in DOMAIN sess'[s],
         \A r \in Slots \ {s} : sess'[r] = sess[r],
         \A c \in Conns : idOf'[c] = idOf[c] \/ (op = "join" /\ idOf'[c] = sess[s].Index)
  PROVE  Life'
<1>1. op \in BeginOps \ {"pop_slot"}
  BY DEF BeginOps
<1>2. PICK a \in NewLists, s0 \in Slots, b \in EntryLists :
        /\ t = Acceptor /\ s0 = Slot(t) /\ todo[Acceptor] = Frames(a, s0) /\ Head(a) = op
        /\ b = Tail(a) /\ b # <<>> /\ todo' = [todo EXCEPT ![Acceptor] = Frames(b, s0)]
        /\ EntryEffect(s0, b, s0, a)
        /\ \A O : Reaches(O, s0) <=> op \in O
        /\ \A o \in {"reclaim", "push_slot"} : Has(o, s0)' = Has(o, s0)
  BY <1>1, EntryNext
<1>3. s0 = s /\ s \in Slots
  BY <1>2
<1>4. EntryEffect(s, b, s, a) /\ \A O : Reaches(O, s) <=> op \in O
  BY <1>2, <1>3
<1>5. Newest(s) /\ \A r \in Slots : Newest(r) => r = s
  BY <1>4 DEF Newest, EntryEffect
<1>6. lanId \in Nat /\ sess[s].Index = Id(s, lanId - 1) /\ Known = lanId - 1
  <2>1. Known = lanId - 1
    BY <1>3, <1>5 DEF Known
  <2>2. SlotLife(s)
    BY <1>3 DEF Life
  <2>3. sess[s].Index = Id(s, lanId - 1)
    BY <1>5, <2>2 DEF SlotLife, Named
  <2> QED BY <2>1, <2>3 DEF Life
<1>7. /\ Occ(indexStack, {s}) = 0 /\ Has("reclaim", s) = 0 /\ Has("push_slot", s) = 0
      /\ Has("insert_ref", s) = (IF op = "insert_ref" THEN 1 ELSE 0)
  <2>1. CASE op = "insert_ref"
    <3>1. Reaches({"insert_ref"}, s)
      BY <1>4, <2>1
    <3> QED BY <1>3, <2>1, <3>1, EntryOwner
  <2>2. CASE op \in {"insert_flag", "join"}
    <3>1. Reaches({"insert_flag", "join"}, s)
      BY <1>4, <2>2
    <3>2. Owners(s) = 0
      BY <1>3, <3>1, EntryOwner
    <3>3. /\ Occ(indexStack, {s}) = 0 /\ Has("reclaim", s) = 0 /\ Has("push_slot", s) = 0
          /\ Has("insert_ref", s) = 0
      BY <3>2, OwnersNat DEF Owners
    <3> QED BY <2>2, <3>3
  <2> QED BY <2>1, <2>2
<1>8. /\ Occ(a, {"insert_ref"}) = (IF op = "insert_ref" THEN 1 ELSE 0) /\ Occ(b, {"insert_ref"}) = 0
      /\ Head(b) \in {"insert_flag", "join", "callback"} /\ (op = "join" <=> Head(b) = "callback")
  <2>1. /\ Head(<<"insert_flag", "join", "callback">>) = "insert_flag"
        /\ Head(<<"join", "callback">>) = "join" /\ Head(<<"callback">>) = "callback"
    OBVIOUS
  <2>2. CASE op = "insert_ref"
    <3>1. a = <<"insert_ref", "insert_flag", "join", "callback">> /\ b = <<"insert_flag", "join", "callback">>
      BY <1>2, <2>2, EntryTails, NewListsAre
    <3>2. Occ(a, {"insert_ref"}) = 1 /\ Occ(b, {"insert_ref"}) = 0
      BY <3>1, EntryRefs
    <3> QED BY <2>1, <2>2, <3>1, <3>2
  <2>3. CASE op = "insert_flag"
    <3>1. a = <<"insert_flag", "join", "callback">> /\ b = <<"join", "callback">>
      BY <1>2, <2>3, EntryTails, NewListsAre
    <3>2. Occ(a, {"insert_ref"}) = 0 /\ Occ(b, {"insert_ref"}) = 0
      BY <3>1, EntryRefs
    <3> QED BY <2>1, <2>3, <3>1, <3>2
  <2>4. CASE op = "join"
    <3>1. a = <<"join", "callback">> /\ b = <<"callback">>
      BY <1>2, <2>4, EntryTails, NewListsAre
    <3>2. Occ(a, {"insert_ref"}) = 0 /\ Occ(b, {"insert_ref"}) = 0
      BY <3>1, EntryRefs
    <3> QED BY <2>1, <2>4, <3>1, <3>2
  <2> QED BY <2>2, <2>3, <2>4
<1>9. Has("insert_ref", s)' = 0 /\ Has("reclaim", s)' = 0 /\ Has("push_slot", s)' = 0
  <2>1. Has("insert_ref", s)' = Has("insert_ref", s) - Occ(a, {"insert_ref"}) + Occ(b, {"insert_ref"})
    BY <1>4 DEF EntryEffect
  <2>2. PICK h, x, y, z : /\ h = Has("insert_ref", s)' /\ x = Has("insert_ref", s)
                          /\ y = Occ(a, {"insert_ref"}) /\ z = Occ(b, {"insert_ref"})
    OBVIOUS
  <2>3. h = x - y + z /\ x \in {0, 1} /\ x = y /\ z = 0
    BY <1>7, <1>8, <2>1, <2>2
  <2>4. h = 0
    BY <2>3
  <2> QED BY <1>2, <1>3, <1>7, <2>2, <2>4
<1>10. Owners(s)' = 0
  <2>1. PICK o, x, y, i : /\ o = Occ(indexStack', {s}) /\ x = Has("reclaim", s)'
                          /\ y = Has("push_slot", s)' /\ i = Has("insert_ref", s)'
    OBVIOUS
  <2>2. o = 0 /\ x = 0 /\ y = 0 /\ i = 0
    BY <1>7, <1>9, <2>1
  <2>3. Owners(s)' = o + x + y + i
    BY <2>1 DEF Owners
  <2> QED BY <2>2, <2>3
<1>11. \A O, r : Reaches(O, r)' <=> Head(b) \in O /\ r = s
  BY <1>4 DEF EntryEffect
<1>12. /\ ~Reaches({"insert"}, s)' /\ (op = "join" => \A r : ~Newest(r)')
       /\ (op # "join" => Newest(s)')
  BY <1>8, <1>11 DEF Newest
<1>13. Known' = (IF op = "join" THEN lanId ELSE lanId - 1)
  BY <1>3, <1>12 DEF Known
<1>14. SlotLife(s)'
  <2>1. Alone(s)'
    BY <1>10 DEF Alone
  <2>2. sess'[s].Index = Id(s, lanId' - 1)
    BY <1>6
  <2>3. sess'[s].Index.slot = s
    BY <2>2 DEF Id
  <2>4. Occ(indexStack', {s}) = 0
    BY <1>7
  <2>5. Named(s)'
    BY <1>9, <1>12, <2>2, <2>3, <2>4 DEF Named
  <2> QED BY <2>1, <2>5 DEF SlotLife
<1>15. /\ lanId' \in Nat /\ Known \in Int /\ Known' \in Int /\ Known <= Known'
       /\ \A c \in Conns : idOf'[c] = idOf[c] \/ (idOf'[c].net \in Int /\ idOf'[c].net < Known')
  <2>1. lanId' \in Nat /\ Known \in Int /\ Known' \in Int /\ Known <= Known'
    BY <1>6, <1>13
  <2>2. ASSUME NEW c \in Conns, idOf'[c] # idOf[c]
        PROVE  idOf'[c].net \in Int /\ idOf'[c].net < Known'
    <3>1. op = "join" /\ idOf'[c] = sess[s].Index
      BY <2>2
    <3>2. idOf'[c].net = lanId - 1
      BY <1>6, <3>1 DEF Id
    <3> QED BY <1>6, <1>13, <3>1, <3>2
  <2> QED BY <2>1, <2>2
<1>16. \A r \in Slots \ {s} : Occ(indexStack', {r}) = Occ(indexStack, {r}) /\ sess'[r] = sess[r]
  OBVIOUS
<1>17. a \in EntryLists /\ todo[Acceptor] = Frames(a, s) /\ todo' = [todo EXCEPT ![Acceptor] = Frames(b, s)]
  BY <1>2, <1>3 DEF EntryLists
<1>18. b \in EntryLists /\ b # <<>> /\ UNCHANGED <<pending, port, arg>>
  BY <1>2
<1> QED BY <1>3, <1>14, <1>15, <1>16, <1>17, <1>18, EntryLife

LEMMA EntryStepsLife ==
  ASSUME IInv, IInv', Life, NEW t \in Threads,
         \/ (InsertRef(t) \/ InsertFlag(t)) /\ UNCHANGED lan
         \/ Join(t)
  PROVE  Life'
<1>1. CASE InsertRef(t) /\ UNCHANGED lan
  <2>1. At(t, "insert_ref") /\ Then(t, <<>>) /\ UNCHANGED <<pending, port, indexStack, lanId, arg, idOf>>
    BY <1>1 DEF InsertRef, Update, OnlySession, kernel, lan
  <2>2. PICK s, op : s = Slot(t) /\ s \in Slots /\ op = "insert_ref" /\ At(t, op)
    BY <2>1, SlotAt
  <2>3. SameFlags
    BY <1>1, <2>1, SlotAt, FlagsKept
  <2>4. sess'[s].Index = sess[s].Index /\ "disconnectFlag" \in DOMAIN sess'[s]
    BY <2>2, <2>3 DEF SameFlags
  <2>5. \A r \in Slots \ {s} : sess'[r] = sess[r]
    BY <1>1, <2>2, FieldsAre DEF InsertRef, Update
  <2>6. op \in {"insert_ref", "insert_flag", "join"}
    BY <2>2
  <2> QED BY <2>1, <2>2, <2>4, <2>5, <2>6, EntryEnds
<1>2. CASE InsertFlag(t) /\ UNCHANGED lan
  <2>1. At(t, "insert_flag") /\ Then(t, <<>>) /\ UNCHANGED <<pending, port, indexStack, lanId, arg, idOf>>
    BY <1>2 DEF InsertFlag, Update, OnlySession, kernel, lan
  <2>2. PICK s, op : s = Slot(t) /\ s \in Slots /\ op = "insert_flag" /\ At(t, op)
    BY <2>1, SlotAt
  <2>3. /\ sess'[s].Index = sess[s].Index /\ "disconnectFlag" \in DOMAIN sess'[s]
        /\ \A r \in Slots \ {s} : sess'[r] = sess[r]
    BY <1>2, <2>2, FieldsAre DEF InsertFlag, Update
  <2>4. op \in {"insert_ref", "insert_flag", "join"}
    BY <2>2
  <2> QED BY <2>1, <2>2, <2>3, <2>4, EntryEnds
<1>3. CASE Join(t)
  <2>1. At(t, "join") /\ Then(t, <<>>) /\ UNCHANGED <<sess, pending, port, indexStack, lanId, arg>>
    BY <1>3 DEF Join, OnlyThread, OnlySession, kernel
  <2>2. PICK s, op : s = Slot(t) /\ s \in Slots /\ op = "join" /\ At(t, op)
    BY <2>1, SlotAt
  <2>3. /\ sess'[s].Index = sess[s].Index /\ "disconnectFlag" \in DOMAIN sess'[s]
        /\ \A r \in Slots \ {s} : sess'[r] = sess[r]
    BY <2>1, <2>2, FieldsAre
  <2>4. \A c \in Conns : idOf'[c] = idOf[c] \/ (op = "join" /\ idOf'[c] = sess[s].Index)
    BY <1>3, <2>2 DEF Join
  <2>5. op \in {"insert_ref", "insert_flag", "join"}
    BY <2>2
  <2> QED BY <2>1, <2>2, <2>3, <2>4, <2>5, EntryEnds
<1> QED BY <1>1, <1>2, <1>3
-----------------------------------------------------------------------------
(* THE INVARIANT *)

LEMMA LifeInit == Init => LifeInv
<1> SUFFICES ASSUME Init PROVE LifeInv
  OBVIOUS
<1>1. /\ todo = [t \in Threads |-> <<>>] /\ pending = {} /\ port = <<>> /\ lanId = 0
      /\ indexStack = [i \in 1 .. maxCounter |-> maxCounter - i] /\ maxCounter \in Nat
      /\ idOf = [c \in Conns |-> NoId] /\ arg = [t \in Threads |-> NoArg]
  BY LanAssumption DEF Init
<1>2. \A s \in Slots : /\ sess[s].Index = NoId /\ sess[s].disconnectFlag = 0
                       /\ "disconnectFlag" \in DOMAIN sess[s]
  <2>1. PICK n : sess = [s \in Slots |-> [EmptySession EXCEPT !.iocpCount = n]]
    BY DEF Init
  <2>2. PICK e : e = [EmptySession EXCEPT !.iocpCount = n]
    OBVIOUS
  <2>3. e.Index = NoId /\ e.disconnectFlag = 0 /\ "disconnectFlag" \in DOMAIN e
    BY <2>2 DEF EmptySession
  <2> QED BY <2>1, <2>2, <2>3
<1>3. IInv
  BY IInvInit
<1>4. \A t \in Threads : todo[t] = <<>> /\ Len(todo[t]) = 0
  BY <1>1
<1>5. \A t \in Threads : \A O, r : Count(t, O, r) = 0
  BY <1>4, OccEmpty DEF Count
<1>6. ASSUME NEW op, NEW r PROVE Has(op, r) = 0
  BY <1>3, <1>5, SomeoneHas
<1>7. \A O, r : ~Reaches(O, r)
  BY <1>4, ThreadsFinite DEF Reaches
<1>8. ASSUME NEW s \in Slots PROVE Occ(indexStack, {s}) = 1
  <2>1. maxCounter - s \in 1 .. maxCounter /\ maxCounter - (maxCounter - s) = s
    BY <1>1 DEF Slots
  <2>2. Len(indexStack) = maxCounter
    BY <1>1
  <2>3. Positions(indexStack, {s}) = {maxCounter - s}
    <3>1. ASSUME NEW i \in 1 .. maxCounter PROVE maxCounter - i = s <=> i = maxCounter - s
      BY <1>1 DEF Slots
    <3>2. \A i \in 1 .. maxCounter : indexStack[i] \in {s} <=> i = maxCounter - s
      BY <1>1, <3>1
    <3> QED BY <2>1, <2>2, <3>2 DEF Positions
  <2> QED BY <2>3, FS_Singleton DEF Occ
<1>9. ASSUME NEW s \in Slots PROVE SlotLife(s)
  <2>1. Owners(s) = 1
    BY <1>6, <1>8 DEF Owners
  <2>2. Quiet(s)
    BY <1>1, <1>2, <1>5 DEF Quiet
  <2>3. Named(s)
    BY <1>2, <1>6, <1>7, <2>1 DEF Named, Newest
  <2> QED BY <1>2, <2>1, <2>2, <2>3 DEF SlotLife, Alone
<1>10. \A t \in Threads : Disciplined(t)
  BY <1>4 DEF Disciplined, Without, Guarded
<1>11. Accepting
  BY <1>4, ThreadsFinite DEF Accepting, Without
<1>12. Informed
  BY <1>1, <1>4 DEF Informed, Threads
<1> QED BY <1>1, <1>3, <1>9, <1>10, <1>11, <1>12 DEF LifeInv, Life

(* What was torn down early stays recorded. *)
LEMMA EarlyStays == [Next]_vars => early \subseteq early'
<1> SUFFICES ASSUME [Next]_vars PROVE early \subseteq early'
  OBVIOUS
<1>1. ASSUME NEW t \in Threads, Step(t) PROVE early \subseteq early'
  <2>1. CASE UNCHANGED lan
    BY <2>1 DEF lan
  <2>2. CASE AcquireInc(t) \/ AcquireCheckId(t) \/ AcquireCheckFlag(t) \/ Push(t)
    BY <2>2 DEF AcquireInc, AcquireCheckId, AcquireCheckFlag, Push, OnlyArg
  <2>3. CASE DiscCAS(t) \/ Leave(t) \/ PushSlot(t) \/ PopSlot(t) \/ Insert(t) \/ Join(t)
    BY <2>3 DEF DiscCAS, Leave, PushSlot, PopSlot, Insert, Join
  <2> QED BY <1>1, <2>1, <2>2, <2>3 DEF Step
<1>2. CASE \E t \in Threads : CallBack(t)
  BY <1>2 DEF CallBack, Request
<1>3. CASE \E w \in Workers : Dequeue(w) \/ CallbackThrows(w)
  BY <1>3 DEF Dequeue, CallbackThrows, lan
<1>4. CASE \/ \E u \in Users : Call(u)
           \/ \E c \in Conns : Accept(c) \/ (PeerLeaves(c) /\ UNCHANGED lan)
  BY <1>4 DEF Call, Request, Accept, lan
<1>5. CASE \E p \in pending : RecvData(p) \/ KernelStep(p)
  BY <1>5 DEF RecvData, KernelStep, lan
<1>6. CASE StopBegin \/ TpsCheck \/ UNCHANGED vars
  BY <1>6 DEF StopBegin, TpsCheck, lan, vars
<1> QED BY <1>1, <1>2, <1>3, <1>4, <1>5, <1>6 DEF Next

LEMMA LifeNext == LifeInv /\ [Next]_vars => LifeInv'
<1> SUFFICES ASSUME LifeInv, [Next]_vars, early' = {} PROVE Life'
  BY IInvNext DEF LifeInv
<1>1. IInv /\ IInv' /\ Life
  BY IInvNext, EarlyStays DEF LifeInv
<1>2. ASSUME NEW t \in Threads, Step(t) PROVE Life'
  <2>1. CASE SessionStep(t) /\ UNCHANGED lan
    <3>1. CASE Release(t) \/ Reclaim(t)
      BY <1>1, <2>1, <3>1, ReleaseLife, ReclaimLife
    <3>2. CASE Flag(t) \/ Shutdown(t) \/ PostUnset(t) \/ SendFailed(t) \/ DequeueSent(t) \/ FlagDec(t) \/ Drain(t)
      BY <1>1, <2>1, <3>2, LastSteps
    <3>3. CASE SendTest(t) \/ PostTest(t) \/ PostCAS(t) \/ PeekFill(t) \/ CallbackEnds(t)
      BY <1>1, <2>1, <3>3, SendSteps
    <3>4. CASE RecvPost(t) \/ WSASend(t)
      BY <1>1, <2>1, <3>4, OperationSteps
    <3>5. CASE PostAgain(t)
      BY <1>1, <2>1, <3>5, StillLife DEF PostAgain, Crash, kernel, lan
    <3>6. CASE InsertRef(t) \/ InsertFlag(t)
      BY <1>1, <2>1, <3>6, EntryStepsLife
    <3> QED BY <2>1, <3>1, <3>2, <3>3, <3>4, <3>5, <3>6 DEF SessionStep, SendPost
  <2>2. CASE AcquireInc(t) \/ AcquireCheckId(t) \/ AcquireCheckFlag(t) \/ Push(t) \/ Leave(t)
    BY <1>1, <2>2, AcquireLife, CheckFlagLife, PushLeaveLife
  <2>3. CASE DiscCAS(t) \/ PushSlot(t) \/ PopSlot(t) \/ Insert(t) \/ Join(t)
    BY <1>1, <2>3, DiscCASLife, PushSlotLife, PopSlotLife, InsertLife, EntryStepsLife
  <2> QED BY <1>2, <2>1, <2>2, <2>3 DEF Step
<1>3. ASSUME NEW w \in Workers, CallbackThrows(w) PROVE Life'
  BY <1>1, <1>3, SendSteps DEF CallbackThrows, Threads
<1>4. ASSUME NEW c \in Conns, PeerLeaves(c) /\ UNCHANGED lan PROVE Life'
  BY <1>1, <1>4, StillLife DEF PeerLeaves, lan
<1>5. CASE TpsCheck \/ UNCHANGED vars
  BY <1>1, <1>5, StillLife DEF TpsCheck, Crash, vars, sessionVars, kernel, lan
<1> QED BY <1>1, <1>2, <1>3, <1>4, <1>5, CallBackLife, DequeueLife, CallLife, AcceptLife, KernelLife, StopLife
    DEF Next

(* Who is to reclaim a slot owns it: there is one such thread, nobody else *)
(* uses the slot, and nothing is in flight on it.                          *)
LEMMA LifeAlone == LifeInv => TeardownAlone
<1> SUFFICES ASSUME LifeInv, early = {}, NEW s \in Slots, NEW t \in Threads, Tearing(t, s)
             PROVE  /\ \A u \in Threads : ~Using(u, s) /\ (u # t => ~Tearing(u, s))
                    /\ InKernel({"recv", "send"}, s) = 0
  BY DEF TeardownAlone
<1>1. IInv /\ Life
  BY DEF LifeInv
<1>2. ASSUME NEW u \in Threads, Tearing(u, s) PROVE Count(u, {"reclaim"}, s) # 0
  <2>1. Guarded(todo[u], {"leave", "drain"}, {"reclaim"})
    BY <1>1 DEF Life, Disciplined
  <2>2. PICK i \in 1 .. Len(todo[u]) : todo[u][i].op \in TeardownOps /\ todo[u][i].s = s
    <3>1. Count(u, TeardownOps, s) \in Nat /\ Count(u, TeardownOps, s) # 0
      BY <1>1, <1>2, SomeFrame DEF Tearing
    <3> QED BY <1>1, <3>1, SomeFrame
  <2>3. \E j \in 1 .. Len(todo[u]) : todo[u][j].op \in {"reclaim"} /\ todo[u][j].s = s
    <3>1. CASE todo[u][i].op = "reclaim"
      BY <2>2, <3>1
    <3>2. CASE todo[u][i].op \in {"leave", "drain"}
      <4>1. PICK j \in i .. Len(todo[u]) : todo[u][j].op \in {"reclaim"} /\ todo[u][j].s = todo[u][i].s
        BY <2>1, <3>2 DEF Guarded
      <4> QED BY <2>2, <4>1
    <3> QED BY <2>2, <3>1, <3>2 DEF TeardownOps
  <2> QED BY <1>1, <2>3, SomeFrame
<1>3. Has("reclaim", s) # 0
  BY <1>1, <1>2, SomeoneHas
<1>4. Owners(s) = 1 /\ Has("reclaim", s) = 1 /\ Has("insert_ref", s) = 0
  <2>1. PICK a, b, c, d : /\ a = Occ(indexStack, {s}) /\ b = Has("reclaim", s)
                          /\ c = Has("push_slot", s) /\ d = Has("insert_ref", s)
    OBVIOUS
  <2>2. a \in Nat /\ b \in Nat /\ c \in Nat /\ d \in Nat /\ Owners(s) = a + b + c + d
    BY <1>1, <2>1, OwnersNat DEF Owners
  <2>3. Owners(s) <= 1
    BY <1>1 DEF Life, SlotLife, Alone
  <2> QED BY <1>3, <2>1, <2>2, <2>3
<1>5. Quiet(s)
  BY <1>1, <1>4 DEF Life, SlotLife, Alone
<1>6. ASSUME NEW u \in Threads PROVE ~Using(u, s)
  <2>1. ~Entering(s)
    BY <1>1, <1>4, InsertRefAt
  <2>2. u # Main => Count(u, UseOps, s) = 0
    BY <1>5, <2>1 DEF Quiet
  <2> QED BY <2>2 DEF Using
<1>7. ASSUME NEW u \in Threads \ {t}, Tearing(u, s) PROVE FALSE
  <2>1. Count(t, {"reclaim"}, s) # 0 /\ Count(u, {"reclaim"}, s) # 0
    BY <1>2, <1>7
  <2>2. PICK A : Lists(A)
    BY <1>1, ListsAre
  <2>3. InThreads(todo, {"reclaim"}, s) >= 2
    BY <2>1, <2>2, TwoThreads
  <2> QED BY <1>4, <2>3 DEF Has
<1>8. InKernel({"recv", "send"}, s) = 0
  <2>1. {p \in pending : p.s = s /\ p.op \in {"recv", "send"}} = {}
    BY <1>5 DEF Quiet
  <2>2. InFlight(pending, {"recv", "send"}, s) = 0
    BY <2>1, FS_EmptySet DEF InFlight
  <2>3. PICK R, M : R = port /\ M = PacketsWith({"recv", "send"}, s)
    OBVIOUS
  <2>4. R \in Seq(Packets(Slots, Kinds)) /\ \A i \in 1 .. Len(R) : R[i] \notin M
    BY <1>1, <1>5, <2>3 DEF Quiet, PacketsWith, IInv, LanSound, Sound, Running
  <2>5. Occ(R, M) = 0
    BY <2>4, PositionsFinite
  <2> QED BY <2>2, <2>3, <2>5 DEF InKernel, InPort
<1> QED BY <1>6, <1>7, <1>8

(* For every number of slots, threads and connections: as long as no slot  *)
(* was torn down early, who tears one down (LanServer.cpp:516-533) does it *)
(* alone, nobody uses the session and nothing is in flight on it.          *)
THEOREM TeardownAloneTheorem == Spec => []TeardownAlone
<1>1. LifeInv => TeardownAlone
  BY LifeAlone
<1> QED BY <1>1, LifeInit, LifeNext, PTL DEF Spec
=============================================================================
