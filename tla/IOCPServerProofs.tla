-------------------------- MODULE IOCPServerProofs --------------------------
(***************************************************************************)
(* iocpCount is exact, for any number of slots, threads and connections    *)
(* (RefCountTheorem). When all calls come from the callbacks, as in a      *)
(* server without threads of its own, a session is also torn down once and *)
(* by one thread alone, its slot is clean when it is free, and the number  *)
(* of clients is right; sendFlag and sendPQCS say exactly what is under    *)
(* way, one send of a session at a time (FlagsTheorem), and the packets a  *)
(* completion frees are there (SentPacketsTheorem).                        *)
(*                                                                         *)
(* The life of a session rests on what an exact count means for each slot: *)
(* one thread is at one step of its life (Alone), each step has something  *)
(* to say of the slot's id, socket and packets (Named), and between the    *)
(* steps every thread works on one session at a time (Shapes). The flags   *)
(* rest on that life: insertSession gives a slot its flags back as they    *)
(* were at first, which is right because nobody refers to the slot then.   *)
(* The packets of a batch rest on the flags: who frees them holds sendFlag *)
(* and so no other batch of the session counts on those that are left.     *)
(***************************************************************************)
EXTENDS IOCPServerProperties, SessionsProofs

(* The kinds of completion packets. *)
Kinds == {"recv", "send", "pqcs", "quit"}

ServerSound == Sound(Refs, Threads, Slots, Kinds, {"Index"})

(* Every slot number that is kept somewhere is one. *)
SlotNumbers ==
  /\ \A s \in Slots : sess[s].Index.slot \in Slots
  /\ indexStack \in Seq(Slots)
  /\ \A c \in Conns : idOf[c].slot \in Slots

IInv == ServerSound /\ RefCountExact /\ SlotNumbers

LEMMA ThreadsFinite == IsFiniteSet(Threads) /\ 0 \in Slots /\ Main \in Threads /\ Acceptor \in Threads
<1>1. IsFiniteSet({Acceptor, Main})
  <2>1. IsFiniteSet({Acceptor}) /\ IsFiniteSet({Main})
    BY FS_Singleton
  <2>2. {Acceptor, Main} = {Acceptor} \cup {Main}
    OBVIOUS
  <2> QED BY <2>1, <2>2, FS_Union
<1>2. IsFiniteSet(Workers \cup Users)
  BY ThreadsAssumption, FS_Union
<1>3. IsFiniteSet((Workers \cup Users) \cup {Acceptor, Main})
  BY <1>1, <1>2, FS_Union
<1> QED BY <1>3, SizesAssumption DEF Threads, Slots

LEMMA IInvInit == Init => IInv
<1> SUFFICES ASSUME Init PROVE IInv
  OBVIOUS
<1>1. sess = [s \in Slots |-> EmptySession] /\ EmptySession.iocpCount = 0
      /\ EmptySession.Index = NoId /\ {"iocpCount", "Index"} \subseteq DOMAIN EmptySession
  BY DEF Init, EmptySession
<1>2. todo = [t \in Threads |-> <<>>] /\ pending = {} /\ port = <<>>
  BY DEF Init
<1>3. PICK Q, P, R : Q = todo /\ P = pending /\ R = port
  OBVIOUS
<1>4. Q = [t \in Threads |-> <<>>] /\ P = {} /\ R = <<>>
  BY <1>2, <1>3
<1>5. Running(Threads, Slots, Kinds, Q, P, R) /\ \A r : Tally(Refs, Q, P, R, r) = 0
  BY <1>4, ThreadsFinite, TallyInit
<1>6. /\ ServerSound
      /\ \A s \in Slots : References(todo, pending, port, s) = 0
  BY <1>1, <1>3, <1>5, ReferencesTally, Parts DEF ServerSound, Sound
<1>7. SlotNumbers
  <2>1. indexStack \in Seq(Slots)
    BY SizesAssumption DEF Init, Slots
  <2>2. NoId.slot \in Slots
    BY ThreadsFinite DEF NoId, Id
  <2> QED BY <1>1, <2>1, <2>2 DEF Init, SlotNumbers
<1> QED BY <1>1, <1>6, <1>7 DEF IInv, RefCountExact

(* What a balanced step needs besides. *)
LEMMA IInvStep ==
  ASSUME IInv, Balanced(Refs, Threads, Slots, Kinds, {}), SlotNumbers',
         \A s \in Slots : "Index" \in DOMAIN sess'[s]
  PROVE  IInv'
<1>1. Sound(Refs, Threads, Slots, Kinds, {})
  BY DEF IInv, ServerSound, Sound
<1>2. ServerSound'
  BY DEF ServerSound, Balanced, Sound
<1>3. ASSUME NEW s \in Slots
      PROVE  sess'[s].iocpCount = References(todo', pending', port', s)
  <2>1. sess[s][Refs.field] = Tally(Refs, todo, pending, port, s) + 0
    <3>1. sess[s].iocpCount = References(todo, pending, port, s)
      BY DEF IInv, RefCountExact
    <3>2. sess[s].iocpCount \in Int
      BY <1>1, Parts DEF Sound
    <3> QED BY <3>1, <3>2, ReferencesTally, Parts
  <2>2. sess'[s][Refs.field] = Tally(Refs, todo', pending', port', s) + 0
    BY <1>1, <2>1, BalancedExact, ThreadsFinite
  <2>3. Running(Threads, Slots, Kinds, todo', pending', port')
    BY DEF Balanced, Sound
  <2>4. PICK Q, P, R : Q = todo' /\ P = pending' /\ R = port'
    OBVIOUS
  <2>5. Tally(Refs, Q, P, R, s) \in Int
    BY <2>3, <2>4, TallyInt, ThreadsFinite
  <2> QED BY <2>2, <2>4, <2>5, ReferencesTally, Parts
<1> QED BY <1>2, <1>3 DEF IInv, RefCountExact

LEMMA IInvKept ==
  ASSUME IInv, Balanced(Refs, Threads, Slots, Kinds, {"Index"}), UNCHANGED <<indexStack, idOf>>
  PROVE  IInv'
<1>1. \A s \in Slots : sess'[s].Index = sess[s].Index /\ "Index" \in DOMAIN sess'[s]
  BY DEF Balanced, SameIndex, Sound
<1>2. SlotNumbers'
  BY <1>1 DEF IInv, SlotNumbers
<1>3. Balanced(Refs, Threads, Slots, Kinds, {})
  BY DEF Balanced, Sound, SameIndex
<1> QED BY <1>1, <1>2, <1>3, IInvStep
-----------------------------------------------------------------------------
(* Steps of a thread that look at its session, or change fields of it. *)
LEMMA FieldSteps ==
  ASSUME ServerSound, NEW t \in Threads,
         \/ DiscCount(t) \/ Drain(t) \/ CountReset(t) \/ CutTest(t) \/ CutFlag(t)
         \/ Mark(t) \/ WakeTest(t) \/ WakeLook(t) \/ InsertFlags(t) \/ InsertRef(t) \/ PqcsDec(t)
         \/ PqcsTest(t) \/ PqcsQueue(t) \/ Wait(t)
  PROVE  Balanced(Refs, Threads, Slots, Kinds, {"Index"})
<1> USE ThreadsFinite DEF ServerSound
<1>1. CASE DiscCount(t)
  <2>1. /\ More(Refs, "disc_count", <<"leave", "drain", "test_id", "reclaim", "push_slot">>) = 0
      /\ IsList(<<"leave", "drain", "test_id", "reclaim", "push_slot">>)
        /\ More(Refs, "disc_count", <<>>) = 0 /\ IsList(<<>>)
    BY MoreNone, Net5, RefWeights DEF More
  <2>2. PICK ops : Then(t, ops) /\ More(Refs, "disc_count", ops) = 0 /\ IsList(ops)
    BY <1>1, <2>1 DEF DiscCount, Test, OnlyThread, OnlySession, Teardown
  <2>3. At(t, "disc_count") /\ UNCHANGED <<pending, port>>
    BY <1>1 DEF DiscCount, Test, OnlyThread, OnlySession, kernel
  <2>4. Adds(Refs, Slots, {"Index"}, Slot(t), 0) /\ SameIndex(Slots, {"Index"})
    BY <1>1, <2>3, AtOp, ThreadsFinite, Parts DEF DiscCount, Test, OnlyThread, OnlySession, Sound, Adds, SameIndex
  <2> QED BY <2>2, <2>3, <2>4, LocalStep
<1>2. CASE Drain(t)
  <2>1. More(Refs, "drain", <<>>) = 0 /\ IsList(<<>>)
    BY MoreNone, RefWeights
  <2>2. At(t, "drain") /\ Then(t, <<>>) /\ UNCHANGED <<pending, port>>
    BY <1>2 DEF Drain, Update, OnlySession, kernel
  <2>3. Adds(Refs, Slots, {"Index"}, Slot(t), 0) /\ SameIndex(Slots, {"Index"})
    BY <1>2, <2>2, AtOp, ThreadsFinite, Parts DEF Drain, Update, OnlySession, Sound, Adds, SameIndex
  <2> QED BY <2>1, <2>2, <2>3, LocalStep
<1>3. CASE CountReset(t)
  <2>1. More(Refs, "count_reset", <<>>) = 0 /\ IsList(<<>>)
    BY MoreNone, RefWeights
  <2>2. At(t, "count_reset") /\ Then(t, <<>>) /\ UNCHANGED <<pending, port>>
    BY <1>3 DEF CountReset, Update, OnlySession, kernel
  <2>3. Adds(Refs, Slots, {"Index"}, Slot(t), 0) /\ SameIndex(Slots, {"Index"})
    BY <1>3, <2>2, AtOp, ThreadsFinite, Parts DEF CountReset, Update, OnlySession, Sound, Adds, SameIndex
  <2> QED BY <2>1, <2>2, <2>3, LocalStep
<1>4. CASE CutTest(t)
  <2>1. /\ More(Refs, "cut_test", <<"cut_flag">>) = 0 /\ IsList(<<"cut_flag">>)
        /\ More(Refs, "cut_test", <<>>) = 0 /\ IsList(<<>>)
    BY MoreNone, MoreOne, RefWeights
  <2>2. PICK ops : Then(t, ops) /\ More(Refs, "cut_test", ops) = 0 /\ IsList(ops)
    BY <1>4, <2>1 DEF CutTest, Test, OnlyThread, OnlySession
  <2>3. At(t, "cut_test") /\ UNCHANGED <<pending, port>>
    BY <1>4 DEF CutTest, Test, OnlyThread, OnlySession, kernel
  <2>4. Adds(Refs, Slots, {"Index"}, Slot(t), 0) /\ SameIndex(Slots, {"Index"})
    BY <1>4, <2>3, AtOp, ThreadsFinite, Parts DEF CutTest, Test, OnlyThread, OnlySession, Sound, Adds, SameIndex
  <2> QED BY <2>2, <2>3, <2>4, LocalStep
<1>5. CASE CutFlag(t)
  <2>1. /\ More(Refs, "cut_flag", <<"cut_cas">>) = 0 /\ IsList(<<"cut_cas">>)
        /\ More(Refs, "cut_flag", <<>>) = 0 /\ IsList(<<>>)
    BY MoreNone, MoreOne, RefWeights
  <2>2. PICK ops : Then(t, ops) /\ More(Refs, "cut_flag", ops) = 0 /\ IsList(ops)
    BY <1>5, <2>1 DEF CutFlag, Test, OnlyThread, OnlySession
  <2>3. At(t, "cut_flag") /\ UNCHANGED <<pending, port>>
    BY <1>5 DEF CutFlag, Test, OnlyThread, OnlySession, kernel
  <2>4. Adds(Refs, Slots, {"Index"}, Slot(t), 0) /\ SameIndex(Slots, {"Index"})
    BY <1>5, <2>3, AtOp, ThreadsFinite, Parts DEF CutFlag, Test, OnlyThread, OnlySession, Sound, Adds, SameIndex
  <2> QED BY <2>2, <2>3, <2>4, LocalStep
<1>6. CASE Mark(t)
  <2>1. More(Refs, "mark", <<>>) = 0 /\ IsList(<<>>)
    BY MoreNone, RefWeights
  <2>2. At(t, "mark") /\ Then(t, <<>>) /\ UNCHANGED <<pending, port>>
    BY <1>6 DEF Mark, Update, OnlySession, kernel
  <2>3. Adds(Refs, Slots, {"Index"}, Slot(t), 0) /\ SameIndex(Slots, {"Index"})
    BY <1>6, <2>2, AtOp, ThreadsFinite, Parts DEF Mark, Update, OnlySession, Sound, Adds, SameIndex
  <2> QED BY <2>1, <2>2, <2>3, LocalStep
<1>7. CASE WakeTest(t)
  <2>1. /\ More(Refs, "wake_test", <<"wake_look">>) = 0 /\ IsList(<<"wake_look">>)
        /\ More(Refs, "wake_test", <<>>) = 0 /\ IsList(<<>>)
    BY MoreNone, MoreOne, RefWeights
  <2>2. PICK ops : Then(t, ops) /\ More(Refs, "wake_test", ops) = 0 /\ IsList(ops)
    BY <1>7, <2>1 DEF WakeTest, Test, OnlyThread, OnlySession
  <2>3. At(t, "wake_test") /\ UNCHANGED <<pending, port>>
    BY <1>7 DEF WakeTest, Test, OnlyThread, OnlySession, kernel
  <2>4. Adds(Refs, Slots, {"Index"}, Slot(t), 0) /\ SameIndex(Slots, {"Index"})
    BY <1>7, <2>3, AtOp, ThreadsFinite, Parts DEF WakeTest, Test, OnlyThread, OnlySession, Sound, Adds, SameIndex
  <2> QED BY <2>2, <2>3, <2>4, LocalStep
<1>7a. CASE WakeLook(t)
  <2>1. /\ More(Refs, "wake_look", <<"wake_cas">>) = 0 /\ IsList(<<"wake_cas">>)
        /\ More(Refs, "wake_look", <<>>) = 0 /\ IsList(<<>>)
    BY MoreNone, MoreOne, RefWeights
  <2>2. PICK ops : Then(t, ops) /\ More(Refs, "wake_look", ops) = 0 /\ IsList(ops)
    BY <1>7a, <2>1 DEF WakeLook, Test, OnlyThread, OnlySession
  <2>3. At(t, "wake_look") /\ UNCHANGED <<pending, port>>
    BY <1>7a DEF WakeLook, Test, OnlyThread, OnlySession, kernel
  <2>4. Adds(Refs, Slots, {"Index"}, Slot(t), 0) /\ SameIndex(Slots, {"Index"})
    BY <1>7a, <2>3, AtOp, ThreadsFinite, Parts DEF WakeLook, Test, OnlyThread, OnlySession, Sound, Adds, SameIndex
  <2> QED BY <2>2, <2>3, <2>4, LocalStep
<1>8. CASE InsertFlags(t)
  <2>1. More(Refs, "insert_flags", <<>>) = 0 /\ IsList(<<>>)
    BY MoreNone, RefWeights
  <2>2. At(t, "insert_flags") /\ Then(t, <<>>) /\ UNCHANGED <<pending, port>>
    BY <1>8 DEF InsertFlags, Update, OnlySession, kernel
  <2>3. Adds(Refs, Slots, {"Index"}, Slot(t), 0) /\ SameIndex(Slots, {"Index"})
    BY <1>8, <2>2, AtOp, ThreadsFinite, Parts DEF InsertFlags, Update, OnlySession, Sound, Adds, SameIndex
  <2> QED BY <2>1, <2>2, <2>3, LocalStep
<1>9. CASE InsertRef(t)
  <2>1. More(Refs, "insert_ref", <<>>) = 1 /\ IsList(<<>>)
    BY MoreNone, RefWeights
  <2>2. At(t, "insert_ref") /\ Then(t, <<>>) /\ UNCHANGED <<pending, port>>
    BY <1>9 DEF InsertRef, Update, OnlySession, kernel
  <2>3. Adds(Refs, Slots, {"Index"}, Slot(t), 1) /\ SameIndex(Slots, {"Index"})
    BY <1>9, <2>2, AtOp, ThreadsFinite, Parts DEF InsertRef, Update, OnlySession, Sound, Adds, SameIndex
  <2> QED BY <2>1, <2>2, <2>3, LocalStep
<1>10. CASE PqcsDec(t)
  <2>1. More(Refs, "pqcs_dec", <<>>) = 0 /\ IsList(<<>>)
    BY MoreNone, RefWeights
  <2>2. At(t, "pqcs_dec") /\ Then(t, <<>>) /\ UNCHANGED <<pending, port>>
    BY <1>10 DEF PqcsDec, Update, OnlySession, kernel
  <2>3. Adds(Refs, Slots, {"Index"}, Slot(t), 0) /\ SameIndex(Slots, {"Index"})
    BY <1>10, <2>2, AtOp, ThreadsFinite, Parts DEF PqcsDec, Update, OnlySession, Sound, Adds, SameIndex
  <2> QED BY <2>1, <2>2, <2>3, LocalStep
<1>11. CASE PqcsTest(t)
  <2>1. /\ More(Refs, "pqcs_test", <<"pqcs_queue">>) = 0 /\ IsList(<<"pqcs_queue">>)
        /\ More(Refs, "pqcs_test", <<>>) = 0 /\ IsList(<<>>)
    BY MoreNone, MoreOne, RefWeights
  <2>2. PICK ops : Then(t, ops) /\ More(Refs, "pqcs_test", ops) = 0 /\ IsList(ops)
    BY <1>11, <2>1 DEF PqcsTest, Test, OnlyThread, OnlySession
  <2>3. At(t, "pqcs_test") /\ UNCHANGED <<pending, port>>
    BY <1>11 DEF PqcsTest, Test, OnlyThread, OnlySession, kernel
  <2>4. Adds(Refs, Slots, {"Index"}, Slot(t), 0) /\ SameIndex(Slots, {"Index"})
    BY <1>11, <2>3, AtOp, ThreadsFinite, Parts DEF PqcsTest, Test, OnlyThread, OnlySession, Sound, Adds, SameIndex
  <2> QED BY <2>2, <2>3, <2>4, LocalStep
<1>12. CASE PqcsQueue(t)
  <2>1. /\ More(Refs, "pqcs_queue", <<"post_test">>) = 0 /\ IsList(<<"post_test">>)
        /\ More(Refs, "pqcs_queue", <<>>) = 0 /\ IsList(<<>>)
    BY MoreNone, MoreOne, RefWeights
  <2>2. PICK ops : Then(t, ops) /\ More(Refs, "pqcs_queue", ops) = 0 /\ IsList(ops)
    BY <1>12, <2>1 DEF PqcsQueue, Test, OnlyThread, OnlySession
  <2>3. At(t, "pqcs_queue") /\ UNCHANGED <<pending, port>>
    BY <1>12 DEF PqcsQueue, Test, OnlyThread, OnlySession, kernel
  <2>4. Adds(Refs, Slots, {"Index"}, Slot(t), 0) /\ SameIndex(Slots, {"Index"})
    BY <1>12, <2>3, AtOp, ThreadsFinite, Parts DEF PqcsQueue, Test, OnlyThread, OnlySession, Sound, Adds, SameIndex
  <2> QED BY <2>2, <2>3, <2>4, LocalStep
<1>13. CASE Wait(t)
  <2>1. More(Refs, "wait", <<"exited">>) = 0 /\ IsList(<<"exited">>)
    BY MoreOne, RefWeights
  <2>2. At(t, "wait") /\ Then(t, <<"exited">>) /\ UNCHANGED <<pending, port>>
    BY <1>13 DEF Wait, OnlyThread, OnlySession, kernel
  <2>3. Adds(Refs, Slots, {"Index"}, Slot(t), 0) /\ SameIndex(Slots, {"Index"})
    BY <1>13, <2>2, AtOp, ThreadsFinite, Parts DEF Wait, OnlyThread, OnlySession, Sound, Adds, SameIndex
  <2> QED BY <2>1, <2>2, <2>3, LocalStep
<1> QED BY <1>1, <1>2, <1>3, <1>4, <1>5, <1>6, <1>7, <1>7a, <1>8, <1>9, <1>10, <1>11, <1>12, <1>13

(* Every other step of a thread that changes nothing but sessions and kernel. *)
LEMMA CommonSteps ==
  ASSUME ServerSound, NEW t \in Threads,
         \/ Release(t) \/ Flag(t) \/ Shutdown(t) \/ DiscCAS(t) \/ TestId(t) \/ RecvPost(t)
         \/ PostTest(t) \/ PostCAS(t) \/ PostFill(t) \/ PostUnset(t) \/ WSASend(t)
         \/ SendFailed(t) \/ FreeSent(t) \/ FlagDec(t) \/ CallbackEnds(t)
         \/ WakeCAS(t) \/ PostQuit(t)
  PROVE  Balanced(Refs, Threads, Slots, Kinds, {"Index"})
<1> USE ThreadsFinite DEF ServerSound
<1>1. CASE \/ Release(t) \/ Flag(t) \/ Shutdown(t)
           \/ PostTest(t) \/ PostCAS(t) \/ PostFill(t) \/ PostUnset(t)
           \/ SendFailed(t) \/ FreeSent(t) \/ FlagDec(t) \/ CallbackEnds(t)
  BY <1>1, LocalBalanced
<1>2. CASE DiscCAS(t)
  <2>1. Net(Refs, <<"disc_count">>) = 0 /\ IsList(<<"disc_count">>)
    BY NetOne, RefWeights
  <2> QED BY <1>2, <2>1, TakeFlagBalanced DEF DiscCAS
<1>3. CASE TestId(t)
  <2>1. CASE Crash("teardown")
    BY <2>1, StillBalanced DEF Crash, kernel
  <2>2. CASE At(t, "test_id") /\ Then(t, <<>>) /\ OnlyThread
    <3>1. More(Refs, "test_id", <<>>) = 0 /\ IsList(<<>>)
      BY MoreNone, RefWeights
    <3>2. At(t, "test_id") /\ Then(t, <<>>) /\ UNCHANGED <<pending, port>>
      BY <2>2 DEF OnlyThread, OnlySession, kernel
    <3>3. Adds(Refs, Slots, {"Index"}, Slot(t), 0) /\ SameIndex(Slots, {"Index"})
      BY <2>2, AtOp, Parts DEF OnlyThread, Sound, Adds, SameIndex
    <3> QED BY <3>1, <3>2, <3>3, LocalStep
  <2> QED BY <1>3, <2>1, <2>2 DEF TestId
<1>4. CASE RecvPost(t)
  BY <1>4, RecvPostBalanced
<1>5. CASE WSASend(t)
  BY <1>5, WSASendBalanced
<1>6. CASE WakeCAS(t)
  <2>1. More(Refs, "wake_cas", <<>>) = 0 /\ IsList(<<>>)
    BY MoreNone, RefWeights
  <2>2. At(t, "wake_cas") /\ Then(t, <<>>) /\ UNCHANGED pending /\ Slot(t) \in Slots
    BY <1>6, AtOp, Parts DEF WakeCAS
  <2>3. CASE UNCHANGED <<sess, port>>
    <3>1. Adds(Refs, Slots, {"Index"}, Slot(t), 0) /\ SameIndex(Slots, {"Index"})
      BY <2>2, <2>3, Parts DEF Sound, Adds, SameIndex
    <3> QED BY <2>1, <2>2, <2>3, <3>1, LocalStep
  <2>4. CASE /\ sess' = [sess EXCEPT ![Slot(t)].sendPQCS = 1, ![Slot(t)].iocpCount = @ + 1]
             /\ port' = Append(port, [s |-> Slot(t), op |-> "pqcs", trans |-> 0])
    <3>1. PICK e : e = [s |-> Slot(t), op |-> "pqcs", trans |-> 0]
      OBVIOUS
    <3>2. e \in Packets(Slots, Kinds) /\ e.s = Slot(t)
          /\ More(Refs, "wake_cas", <<>>) + Part(Refs, e.op) = 1
      BY <2>1, <2>2, <3>1, Parts DEF Packets, Kinds
    <3>3. Adds(Refs, Slots, {"Index"}, Slot(t), 1) /\ SameIndex(Slots, {"Index"})
      BY <2>2, <2>4, Parts DEF Sound, Adds, SameIndex
    <3>4. port' = Append(port, e)
      BY <2>4, <3>1
    <3> QED BY <2>1, <2>2, <3>2, <3>3, <3>4, PostStep
  <2> QED BY <1>6, <2>3, <2>4 DEF WakeCAS
<1>7. CASE PostQuit(t)
  <2>1. More(Refs, "post_quit", <<>>) = 0 /\ IsList(<<>>)
    BY MoreNone, RefWeights
  <2>2. At(t, "post_quit") /\ Then(t, <<>>) /\ UNCHANGED pending /\ port' = port \o QuitPackets
    BY <1>7 DEF PostQuit
  <2>3. /\ QuitPackets \in Seq(Packets(Slots, Kinds))
        /\ \A i \in 1 .. Len(QuitPackets) : QuitPackets[i].op \notin Refs.kernel
    <3>1. Cardinality(Workers) \in Nat
      BY ThreadsAssumption, FS_CardinalityType
    <3>2. [s |-> 0, op |-> "quit", trans |-> 0] \in Packets(Slots, Kinds) /\ "quit" \notin Refs.kernel
      BY DEF Packets, Kinds, Refs, Referring
    <3> QED BY <3>1, <3>2 DEF QuitPackets
  <2>4. Adds(Refs, Slots, {"Index"}, Slot(t), 0) /\ SameIndex(Slots, {"Index"})
    BY <1>7, Parts DEF PostQuit, Sound, Adds, SameIndex
  <2> QED BY <2>1, <2>2, <2>3, <2>4, QuitStep
<1> QED BY <1>1, <1>2, <1>3, <1>4, <1>5, <1>6, <1>7
-----------------------------------------------------------------------------
(* Steps that change the application's or the server's state too. *)
LEMMA AcquireIncStep ==
  ASSUME IInv, NEW t \in Threads, AcquireInc(t)  PROVE IInv'
<1> USE ThreadsFinite DEF IInv, ServerSound
<1>1. /\ More(Refs, "acquire", <<"release">>) = 1 /\ IsList(<<"release">>)
      /\ More(Refs, "acquire", <<"check_id">>) = 1 /\ IsList(<<"check_id">>)
  BY MoreOne, RefWeights
<1>2. PICK ops : Then(t, ops) /\ More(Refs, "acquire", ops) = 1 /\ IsList(ops)
  BY <1>1 DEF AcquireInc, OnlySession, Refuse
<1>3. At(t, "acquire") /\ UNCHANGED <<pending, port>>
  BY DEF AcquireInc, OnlySession, kernel
<1>4. Adds(Refs, Slots, {"Index"}, Slot(t), 1) /\ SameIndex(Slots, {"Index"})
  BY <1>3, AtOp, ThreadsFinite, Parts DEF AcquireInc, OnlySession, Sound, Adds, SameIndex
<1>9. Balanced(Refs, Threads, Slots, Kinds, {"Index"})
  BY <1>2, <1>3, <1>4, LocalStep
<1>10. UNCHANGED <<indexStack, idOf>>
  BY DEF AcquireInc, server, app, OnlyArg
<1> QED BY <1>9, <1>10, IInvKept

LEMMA AcquireCheckIdStep ==
  ASSUME IInv, NEW t \in Threads, AcquireCheckId(t)  PROVE IInv'
<1> USE ThreadsFinite DEF IInv, ServerSound
<1>1. /\ More(Refs, "check_id", <<"release">>) = 0 /\ IsList(<<"release">>)
      /\ More(Refs, "check_id", <<"check_flag">>) = 0 /\ IsList(<<"check_flag">>)
  BY MoreOne, RefWeights
<1>2. PICK ops : Then(t, ops) /\ More(Refs, "check_id", ops) = 0 /\ IsList(ops)
  BY <1>1 DEF AcquireCheckId, OnlyThread, OnlySession, Refuse
<1>3. At(t, "check_id") /\ UNCHANGED <<pending, port>>
  BY DEF AcquireCheckId, OnlyThread, OnlySession, kernel
<1>4. Adds(Refs, Slots, {"Index"}, Slot(t), 0) /\ SameIndex(Slots, {"Index"})
  BY <1>3, AtOp, ThreadsFinite, Parts DEF AcquireCheckId, OnlyThread, OnlySession, Sound, Adds, SameIndex
<1>9. Balanced(Refs, Threads, Slots, Kinds, {"Index"})
  BY <1>2, <1>3, <1>4, LocalStep
<1>10. UNCHANGED <<indexStack, idOf>>
  BY DEF AcquireCheckId, server, app, OnlyArg
<1> QED BY <1>9, <1>10, IInvKept

LEMMA AcquireCheckFlagStep ==
  ASSUME IInv, NEW t \in Threads, AcquireCheckFlag(t)  PROVE IInv'
<1> USE ThreadsFinite DEF IInv, ServerSound
<1>1. /\ More(Refs, "check_flag", <<"release">>) = 0 /\ IsList(<<"release">>)
      /\ More(Refs, "check_flag", <<"flag", "shutdown", "release">>) = 0 /\ IsList(<<"flag", "shutdown", "release">>)
      /\ More(Refs, "check_flag", <<"push", "mark", "cut_now", "wake_test", "release">>) = 0
      /\ IsList(<<"push", "mark", "cut_now", "wake_test", "release">>)
      /\ More(Refs, "check_flag", <<"push", "wake_test", "release">>) = 0 /\ IsList(<<"push", "wake_test", "release">>)
  BY MoreOne, Net3, Net5, RefWeights DEF More
<1>2. PICK ops : Then(t, ops) /\ More(Refs, "check_flag", ops) = 0 /\ IsList(ops)
  BY <1>1 DEF AcquireCheckFlag, OnlyThread, OnlySession, Refuse, Body
<1>3. At(t, "check_flag") /\ UNCHANGED <<pending, port>>
  BY DEF AcquireCheckFlag, OnlyThread, OnlySession, kernel
<1>4. Adds(Refs, Slots, {"Index"}, Slot(t), 0) /\ SameIndex(Slots, {"Index"})
  BY <1>3, AtOp, ThreadsFinite, Parts DEF AcquireCheckFlag, OnlyThread, OnlySession, Sound, Adds, SameIndex
<1>9. Balanced(Refs, Threads, Slots, Kinds, {"Index"})
  BY <1>2, <1>3, <1>4, LocalStep
<1>10. UNCHANGED <<indexStack, idOf>>
  BY DEF AcquireCheckFlag, server, app, OnlyArg
<1> QED BY <1>9, <1>10, IInvKept

LEMMA LeaveStep ==
  ASSUME IInv, NEW t \in Threads, Leave(t)  PROVE IInv'
<1> USE ThreadsFinite DEF IInv, ServerSound
<1>1. More(Refs, "leave", <<>>) = 0 /\ IsList(<<>>)
  BY MoreNone, RefWeights
<1>2. At(t, "leave") /\ Then(t, <<>>) /\ UNCHANGED <<pending, port>>
  BY DEF Leave, OnlyThread, OnlySession, kernel
<1>3. Adds(Refs, Slots, {"Index"}, Slot(t), 0) /\ SameIndex(Slots, {"Index"})
  BY <1>2, AtOp, ThreadsFinite, Parts DEF Leave, OnlyThread, OnlySession, Sound, Adds, SameIndex
<1>9. Balanced(Refs, Threads, Slots, Kinds, {"Index"})
  BY <1>1, <1>2, <1>3, LocalStep
<1>10. UNCHANGED <<indexStack, idOf>>
  BY DEF Leave, server, app, OnlyArg
<1> QED BY <1>9, <1>10, IInvKept

LEMMA PushStep ==
  ASSUME IInv, NEW t \in Threads, Push(t)  PROVE IInv'
<1> USE ThreadsFinite DEF IInv, ServerSound
<1>1. More(Refs, "push", <<>>) = 0 /\ IsList(<<>>)
  BY MoreNone, RefWeights
<1>2. At(t, "push") /\ Then(t, <<>>) /\ UNCHANGED <<pending, port>>
  BY DEF Push, OnlySession, kernel
<1>3. Adds(Refs, Slots, {"Index"}, Slot(t), 0) /\ SameIndex(Slots, {"Index"})
  BY <1>2, AtOp, ThreadsFinite, Parts DEF Push, OnlySession, Sound, Adds, SameIndex
<1>9. Balanced(Refs, Threads, Slots, Kinds, {"Index"})
  BY <1>1, <1>2, <1>3, LocalStep
<1>10. UNCHANGED <<indexStack, idOf>>
  BY DEF Push, server, app, OnlyArg
<1> QED BY <1>9, <1>10, IInvKept

LEMMA PushSlotStep ==
  ASSUME IInv, NEW t \in Threads, PushSlot(t)  PROVE IInv'
<1> USE ThreadsFinite DEF IInv, ServerSound
<1>1. More(Refs, "push_slot", <<>>) = 0 /\ IsList(<<>>)
  BY MoreNone, RefWeights
<1>2. At(t, "push_slot") /\ Then(t, <<>>) /\ UNCHANGED <<pending, port, sess, idOf>>
  BY DEF PushSlot, OnlyThread, OnlySession, kernel, app
<1>3. Adds(Refs, Slots, {}, Slot(t), 0) /\ SameIndex(Slots, {})
  BY <1>2, Parts DEF Sound, Adds, SameIndex
<1>8. Slot(t) \in Slots
  BY <1>2, AtOp
<1>4. Sound(Refs, Threads, Slots, Kinds, {})
  BY DEF Sound
<1>5. Balanced(Refs, Threads, Slots, Kinds, {})
  BY <1>1, <1>2, <1>3, <1>4, LocalStep
<1>6. indexStack' \in Seq(Slots)
  BY <1>8 DEF PushSlot, SlotNumbers
<1>7. SlotNumbers'
  BY <1>2, <1>6 DEF SlotNumbers
<1> QED BY <1>2, <1>5, <1>7, IInvStep DEF Sound

LEMMA OnRecvStep ==
  ASSUME IInv, NEW t \in Threads, OnRecv(t)  PROVE IInv'
<1> USE ThreadsFinite DEF IInv, ServerSound
<1>1. More(Refs, "on_recv", <<>>) = 0 /\ IsList(<<>>)
  BY MoreNone, RefWeights
<1>2. CASE Crash("decode") /\ UNCHANGED serverVars
  BY <1>2, StillBalanced, IInvKept DEF Crash, kernel, serverVars, server, app
<1>3. CASE /\ Then(t, <<>>) /\ OnlySession /\ UNCHANGED <<server, idOf>>
           /\ \E q : sess' = [sess EXCEPT ![Slot(t)].recvQ = q]
  <2>1. At(t, "on_recv") /\ UNCHANGED <<pending, port>>
    BY <1>3 DEF OnRecv, OnlySession, kernel
  <2>2. Slot(t) \in Slots
    BY <2>1, AtOp
  <2>3. Adds(Refs, Slots, {"Index"}, Slot(t), 0) /\ SameIndex(Slots, {"Index"})
    BY <1>3, <2>2, Parts DEF Sound, Adds, SameIndex
  <2>4. Balanced(Refs, Threads, Slots, Kinds, {"Index"})
    BY <1>1, <1>3, <2>1, <2>3, LocalStep
  <2> QED BY <1>3, <2>4, IInvKept DEF server
<1> QED BY <1>2, <1>3 DEF OnRecv

(* clientShutdown of the session's own id. *)
LEMMA CallShutdownBalanced ==
  ASSUME IInv, NEW t \in Threads, NEW op, At(t, op), Weight(Refs, op) = 0, CallShutdown(t, Slot(t)),
         UNCHANGED <<pending, port>>, Adds(Refs, Slots, {"Index"}, Slot(t), 0), SameIndex(Slots, {"Index"})
  PROVE  Balanced(Refs, Threads, Slots, Kinds, {"Index"})
<1> USE ThreadsFinite DEF IInv, ServerSound
<1>1. PICK s : s = sess[Slot(t)].Index.slot
  OBVIOUS
<1>2. s \in Slots
  <2>1. Slot(t) \in Slots
    BY AtOp
  <2> QED BY <1>1, <2>1 DEF SlotNumbers
<1>3. todo' = [todo EXCEPT ![t] = Frames(<<"acquire">>, s) \o Tail(@)]
  BY <1>1, OneFrame DEF CallShutdown
<1>4. IsList(<<"acquire">>) /\ Net(Refs, <<"acquire">>) = 0
  BY NetOne, RefWeights
<1> QED BY <1>2, <1>3, <1>4, CallStep

LEMMA CutCASStep ==
  ASSUME IInv, NEW t \in Threads, CutCAS(t)  PROVE IInv'
<1> USE ThreadsFinite DEF IInv, ServerSound
<1>1. More(Refs, "cut_cas", <<>>) = 0 /\ IsList(<<>>)
  BY MoreNone, RefWeights
<1>2. /\ At(t, "cut_cas") /\ UNCHANGED <<pending, port, indexStack, idOf>>
      /\ Weight(Refs, "cut_cas") = 0
  BY RefWeights DEF CutCAS, OnlySession, OnlyArg, kernel, server, app
<1>3. Adds(Refs, Slots, {"Index"}, Slot(t), 0) /\ SameIndex(Slots, {"Index"})
  BY <1>2, AtOp, Parts DEF CutCAS, Sound, Adds, SameIndex
<1>4. CASE CallShutdown(t, Slot(t))
  BY <1>2, <1>3, <1>4, CallShutdownBalanced, IInvKept
<1>5. CASE Then(t, <<>>)
  BY <1>1, <1>2, <1>3, <1>5, LocalStep, IInvKept
<1> QED BY <1>4, <1>5 DEF CutCAS

LEMMA CutNowStep ==
  ASSUME IInv, NEW t \in Threads, CutNow(t)  PROVE IInv'
<1> USE ThreadsFinite DEF IInv, ServerSound
<1>1. More(Refs, "cut_now", <<>>) = 0 /\ IsList(<<>>)
  BY MoreNone, RefWeights
<1>2. /\ At(t, "cut_now") /\ UNCHANGED <<sess, pending, port, indexStack, idOf>>
      /\ Weight(Refs, "cut_now") = 0
  BY RefWeights DEF CutNow, OnlyThread, OnlySession, OnlyArg, kernel, server, app
<1>3. Adds(Refs, Slots, {"Index"}, Slot(t), 0) /\ SameIndex(Slots, {"Index"})
  BY <1>2, Parts DEF Sound, Adds, SameIndex
<1>4. CASE CallShutdown(t, Slot(t))
  BY <1>2, <1>3, <1>4, CallShutdownBalanced, IInvKept
<1>5. CASE Then(t, <<>>)
  BY <1>1, <1>2, <1>3, <1>5, LocalStep, IInvKept
<1> QED BY <1>4, <1>5 DEF CutNow

LEMMA PopSlotStep ==
  ASSUME IInv, NEW t \in Threads, PopSlot(t)  PROVE IInv'
<1> USE ThreadsFinite DEF IInv, ServerSound
<1>1. CASE (Crash("no_slot") \/ Crash("slot_0")) /\ UNCHANGED serverVars
  BY <1>1, StillBalanced, IInvKept DEF Crash, kernel, serverVars, server, app
<1>2. CASE /\ indexStack # <<>> /\ indexStack' = Tail(indexStack)
           /\ todo' = [todo EXCEPT ![t] = Frames(NewSession, Head(indexStack)) \o Tail(@)]
           /\ OnlyThread /\ UNCHANGED app
  <2>1. PICK s : s = Head(indexStack)
    OBVIOUS
  <2>2. s \in Slots /\ indexStack' \in Seq(Slots)
    BY <1>2, <2>1 DEF SlotNumbers
  <2>3. IsList(NewSession) /\ Net(Refs, NewSession) = 0 /\ Weight(Refs, "pop_slot") = 0
    BY Net5, RefWeights DEF NewSession
  <2>4. UNCHANGED <<sess, pending, port, idOf>> /\ At(t, "pop_slot")
    BY <1>2 DEF OnlyThread, OnlySession, kernel, app, PopSlot
  <2>5. Sound(Refs, Threads, Slots, Kinds, {}) /\ Adds(Refs, Slots, {}, s, 0) /\ SameIndex(Slots, {})
    BY <2>4, Parts DEF Sound, Adds, SameIndex
  <2>6. todo' = [todo EXCEPT ![t] = Frames(NewSession, s) \o Tail(@)]
    BY <1>2, <2>1
  <2>7. Balanced(Refs, Threads, Slots, Kinds, {})
    BY <2>2, <2>3, <2>4, <2>5, <2>6, CallStep
  <2>8. SlotNumbers'
    BY <2>2, <2>4 DEF SlotNumbers
  <2> QED BY <2>4, <2>7, <2>8, IInvStep DEF Sound
<1> QED BY <1>1, <1>2 DEF PopSlot

LEMMA InsertStep ==
  ASSUME IInv, NEW t \in Threads, Insert(t)  PROVE IInv'
<1> USE ThreadsFinite DEF IInv, ServerSound
<1>1. More(Refs, "insert", <<>>) = 0 /\ IsList(<<>>)
  BY MoreNone, RefWeights
<1>2. At(t, "insert") /\ Then(t, <<>>) /\ UNCHANGED <<pending, port, indexStack, idOf>>
  BY DEF Insert, OnlySession, kernel, app
<1>3. Slot(t) \in Slots
  BY <1>2, AtOp
<1>4. Sound(Refs, Threads, Slots, Kinds, {}) /\ SameIndex(Slots, {})
  BY DEF Sound, SameIndex
<1>5. Adds(Refs, Slots, {}, Slot(t), 0) /\ \A s \in Slots : "Index" \in DOMAIN sess'[s]
  BY <1>3, Parts DEF Insert, Sound, Adds
<1>6. \A s \in Slots : sess'[s].Index.slot \in Slots
  BY <1>3 DEF Insert, Sound, SlotNumbers, Id
<1>7. SlotNumbers'
  BY <1>2, <1>6 DEF SlotNumbers
<1>8. Balanced(Refs, Threads, Slots, Kinds, {})
  BY <1>1, <1>2, <1>4, <1>5, LocalStep
<1> QED BY <1>5, <1>7, <1>8, IInvStep

LEMMA ReclaimStep ==
  ASSUME IInv, NEW t \in Threads, Reclaim(t), UNCHANGED serverVars  PROVE IInv'
<1> USE ThreadsFinite DEF IInv, ServerSound
<1>1. More(Refs, "reclaim", <<>>) = 0 /\ IsList(<<>>)
  BY MoreNone, RefWeights
<1>2. At(t, "reclaim") /\ Then(t, <<>>) /\ UNCHANGED <<pending, port, indexStack, idOf>>
  BY DEF Reclaim, serverVars, server, app
<1>3. Slot(t) \in Slots
  BY <1>2, AtOp
<1>4. Sound(Refs, Threads, Slots, Kinds, {}) /\ SameIndex(Slots, {})
  BY DEF Sound, SameIndex
<1>5. Adds(Refs, Slots, {}, Slot(t), 0) /\ \A s \in Slots : "Index" \in DOMAIN sess'[s]
  BY <1>3, Parts DEF Reclaim, Sound, Adds
<1>6. \A s \in Slots : sess'[s].Index.slot \in Slots
  BY <1>3 DEF Reclaim, Sound, SlotNumbers, NoId, Id
<1>7. SlotNumbers'
  BY <1>2, <1>6 DEF SlotNumbers
<1>8. Balanced(Refs, Threads, Slots, Kinds, {})
  BY <1>1, <1>2, <1>4, <1>5, LocalStep
<1> QED BY <1>5, <1>7, <1>8, IInvStep

LEMMA JoinStep ==
  ASSUME IInv, NEW t \in Threads, Join(t)  PROVE IInv'
<1> USE ThreadsFinite DEF IInv, ServerSound
<1>1. More(Refs, "join", <<>>) = 0 /\ IsList(<<>>)
  BY MoreNone, RefWeights
<1>2. At(t, "join") /\ Then(t, <<>>) /\ UNCHANGED <<sess, pending, port, indexStack>>
  BY DEF Join, OnlyThread, OnlySession, kernel
<1>3. Slot(t) \in Slots
  BY <1>2, AtOp
<1>4. Sound(Refs, Threads, Slots, Kinds, {}) /\ Adds(Refs, Slots, {}, Slot(t), 0) /\ SameIndex(Slots, {})
  BY <1>2, Parts DEF Sound, Adds, SameIndex
<1>5. \A c \in Conns : idOf'[c].slot \in Slots
  BY <1>3 DEF Join, SlotNumbers
<1>6. SlotNumbers'
  BY <1>2, <1>5 DEF SlotNumbers
<1>7. Balanced(Refs, Threads, Slots, Kinds, {})
  BY <1>1, <1>2, <1>4, LocalStep
<1> QED BY <1>2, <1>6, <1>7, IInvStep DEF Sound

LEMMA CallBackStep ==
  ASSUME IInv, NEW t \in Threads, CallBack(t)  PROVE IInv'
<1> USE ThreadsFinite DEF IInv, ServerSound
<1>1. At(t, "callback") /\ UNCHANGED <<sess, pending, port, indexStack, idOf>>
  BY DEF CallBack, Request, OnlyThread, OnlySession, kernel, server
<1>2. PICK s : s = sess[Slot(t)].Index.slot
  OBVIOUS
<1>3. s \in Slots
  <2>1. Slot(t) \in Slots
    BY <1>1, AtOp
  <2> QED BY <1>2, <2>1 DEF SlotNumbers
<1>4. todo' = [todo EXCEPT ![t] = Frames(<<"acquire">>, s) \o @]
  BY <1>2, OneFrame DEF CallBack
<1>5. IsList(<<"acquire">>) /\ Net(Refs, <<"acquire">>) = 0
  BY NetOne, RefWeights
<1>6. Adds(Refs, Slots, {"Index"}, s, 0) /\ SameIndex(Slots, {"Index"})
  BY <1>1, Parts DEF Sound, Adds, SameIndex
<1>7. Balanced(Refs, Threads, Slots, Kinds, {"Index"})
  BY <1>1, <1>3, <1>4, <1>5, <1>6, CallbackStep
<1> QED BY <1>1, <1>7, IInvKept

LEMMA CallStepOfUser ==
  ASSUME IInv, NEW u \in Users, Call(u)  PROVE IInv'
<1> USE ThreadsFinite DEF IInv, ServerSound
<1>1. u \in Threads /\ todo[u] = <<>> /\ UNCHANGED <<sess, pending, port, indexStack, idOf>>
  BY DEF Call, Idle, Threads, Request, OnlyThread, OnlySession, kernel, server
<1>2. PICK c \in Conns : todo' = [todo EXCEPT ![u] = <<Frame("acquire", idOf[c].slot)>>]
  BY DEF Call
<1>3. PICK s : s = idOf[c].slot
  OBVIOUS
<1>4. PICK new : new = Frames(<<"acquire">>, s)
  OBVIOUS
<1>5. s \in Slots
  BY <1>3 DEF SlotNumbers
<1>6. IsList(<<"acquire">>) /\ Net(Refs, <<"acquire">>) = 0
  BY NetOne, RefWeights
<1>7. IsFrames(new, Slots) /\ \A r : Held(Refs, new, r) = IF r = s THEN Net(Refs, <<"acquire">>) ELSE 0
  BY <1>4, <1>5, <1>6, HeldFrames
<1>8. todo' = [todo EXCEPT ![u] = new]
  BY <1>2, <1>3, <1>4, OneFrame
<1>9. Adds(Refs, Slots, {"Index"}, s, 0) /\ SameIndex(Slots, {"Index"})
  BY <1>1, Parts DEF Sound, Adds, SameIndex
<1>10. Balanced(Refs, Threads, Slots, Kinds, {"Index"})
  BY <1>1, <1>6, <1>7, <1>8, <1>9, BeginStep
<1> QED BY <1>1, <1>10, IInvKept

LEMMA AcceptStep ==
  ASSUME IInv, NEW c \in Conns, Accept(c)  PROVE IInv'
<1> USE ThreadsFinite DEF IInv, ServerSound
<1>1. todo[Acceptor] = <<>> /\ UNCHANGED <<sess, pending, port, indexStack, idOf>>
  BY DEF Accept, Idle, server, app
<1>2. CASE UNCHANGED todo
  BY <1>1, <1>2, StillBalanced, IInvKept
<1>3. CASE todo' = [todo EXCEPT ![Acceptor] = <<Frame("pop_slot", 0)>>]
  <2>1. PICK new : new = Frames(<<"pop_slot">>, 0)
    OBVIOUS
  <2>2. IsList(<<"pop_slot">>) /\ Net(Refs, <<"pop_slot">>) = 0
    BY NetOne, RefWeights
  <2>3. IsFrames(new, Slots) /\ \A r : Held(Refs, new, r) = IF r = 0 THEN Net(Refs, <<"pop_slot">>) ELSE 0
    BY <2>1, <2>2, HeldFrames
  <2>4. todo' = [todo EXCEPT ![Acceptor] = new]
    BY <1>3, <2>1, OneFrame
  <2>5. Adds(Refs, Slots, {"Index"}, 0, 0) /\ SameIndex(Slots, {"Index"})
    BY <1>1, Parts DEF Sound, Adds, SameIndex
  <2>6. Balanced(Refs, Threads, Slots, Kinds, {"Index"})
    BY <1>1, <2>2, <2>3, <2>4, <2>5, BeginStep
  <2> QED BY <1>1, <2>6, IInvKept
<1> QED BY <1>2, <1>3 DEF Accept

LEMMA StopBeginStep ==
  ASSUME IInv, StopBegin  PROVE IInv'
<1> USE ThreadsFinite DEF IInv, ServerSound
<1>1. todo[Main] = <<>> /\ UNCHANGED <<sess, pending, port, indexStack, idOf>>
  BY DEF StopBegin, Idle, OnlyThread, OnlySession, kernel, app
<1>2. PICK q, f, new : /\ q = StopSlots(MaxClient) /\ f = Frames(<<"post_quit", "wait">>, 0)
                       /\ new = q \o f
  OBVIOUS
<1>3. IsList(<<"post_quit", "wait">>) /\ Net(Refs, <<"post_quit", "wait">>) = 0
  BY Net2, RefWeights
<1>4. ASSUME NEW r PROVE IsFrames(q, Slots) /\ Held(Refs, q, r) = 0
  <2>1. \A op \in {"shutdown", "disc_cas"} : op \notin Refs.holding /\ op \notin Refs.owing
    BY DEF Refs, Holding, Owing
  <2> QED BY <1>2, <2>1, StopSlotsHeld, SizesAssumption DEF Slots
<1>5. IsFrames(q, Slots)
  BY <1>4
<1>6. PICK ops, g : ops = <<"post_quit", "wait">> /\ g = Frames(ops, 0)
  OBVIOUS
<1>7. ASSUME NEW r PROVE IsFrames(new, Slots) /\ Held(Refs, new, r) = 0
  <2>1. IsList(ops) /\ Net(Refs, ops) = 0 /\ f = g
    BY <1>2, <1>3, <1>6
  <2>2. IsFrames(g, Slots) /\ Held(Refs, g, r) = IF r = 0 THEN Net(Refs, ops) ELSE 0
    BY <1>6, <2>1, HeldFrames
  <2>3. Held(Refs, f, r) = 0 /\ IsFrames(f, Slots)
    BY <2>1, <2>2
  <2>4. IsFrames(q \o f, Slots) /\ Held(Refs, q \o f, r) = Held(Refs, q, r) + Held(Refs, f, r)
    BY <1>5, <2>3, HeldConcat, FramesConcat
  <2> QED BY <1>2, <1>4, <2>3, <2>4
<1>8. todo' = [todo EXCEPT ![Main] = new]
  BY <1>2 DEF StopBegin
<1>9. Adds(Refs, Slots, {"Index"}, 0, 0) /\ SameIndex(Slots, {"Index"})
  BY <1>1, Parts DEF Sound, Adds, SameIndex
<1>10. Balanced(Refs, Threads, Slots, Kinds, {"Index"})
  BY <1>1, <1>7, <1>8, <1>9, BeginStep
<1> QED BY <1>1, <1>10, IInvKept

(* What a worker does for a packet gives the packet's reference back. *)
LEMMA DequeueStep ==
  ASSUME IInv, NEW w \in Workers, Dequeue(w)  PROVE IInv'
<1> USE ThreadsFinite DEF IInv, ServerSound
<1>1. PICK e, ops : e = Head(port) /\ ops = Handler(e)
  OBVIOUS
<1>2. TakePacket(w, ops) /\ w \in Threads /\ UNCHANGED <<indexStack, idOf>>
  BY <1>1 DEF Dequeue, Threads, serverVars, server, app
<1>3. port \in Seq(Packets(Slots, Kinds)) /\ port # <<>>
  BY <1>2 DEF Sound, Running, TakePacket
<1>4. e.op \in Kinds /\ e.trans \in Nat
  <2>1. e \in Packets(Slots, Kinds)
    BY <1>1, <1>3
  <2> QED BY <2>1 DEF Packets
<1>5. /\ IsList(OnRequest) /\ Net(Refs, OnRequest) = 1
      /\ IsList(OnData) /\ Net(Refs, OnData) = 1
      /\ IsList(OnBroken) /\ Net(Refs, OnBroken) = 1
      /\ IsList(OnSent) /\ Net(Refs, OnSent) = 1
      /\ IsList(<<"exited">>) /\ Net(Refs, <<"exited">>) = 0
  BY NetOne, Net2, Net3, Net4, Net6, RefWeights DEF OnRequest, OnData, OnBroken, OnSent
<1>6. IsList(<<"flag_dec">> \o OnBroken) /\ Net(Refs, <<"flag_dec">> \o OnBroken) = 1
  <2>1. IsList(<<"flag_dec">>) /\ Net(Refs, <<"flag_dec">>) = 0
    BY NetOne, RefWeights
  <2> QED BY <1>5, <2>1, NetConcat
<1>7. IsList(ops) /\ Net(Refs, ops) = Part(Refs, e.op)
  BY <1>1, <1>4, <1>5, <1>6, Parts DEF Handler, Kinds
<1>8. Balanced(Refs, Threads, Slots, Kinds, {"Index"})
  BY <1>1, <1>2, <1>7, TakePacketBalanced
<1> QED BY <1>2, <1>8, IInvKept

LEMMA KernelStep ==
  ASSUME IInv, Kernel  PROVE IInv'
<1> USE ThreadsFinite DEF IInv, ServerSound
<1>1. {"recv", "send"} \subseteq Kinds
  BY DEF Kinds
<1>2. ASSUME NEW p \in pending, RecvData(p)  PROVE IInv'
  <2>1. PICK k \in Fragments : /\ Complete(p, k)
                               /\ sess' = [sess EXCEPT ![p.s].recvQ = @ \o [i \in 1 .. k |-> p.c]]
    BY <1>2 DEF RecvData
  <2>2. k \in Nat /\ p.s \in Slots
    BY SizesAssumption DEF Sound, Running
  <2>3. Adds(Refs, Slots, {"Index"}, p.s, 0) /\ SameIndex(Slots, {"Index"})
    BY <2>1, <2>2, Parts DEF Sound, Adds, SameIndex
  <2>4. Balanced(Refs, Threads, Slots, Kinds, {"Index"})
    BY <1>1, <2>1, <2>2, <2>3, CompleteBalanced
  <2> QED BY <1>2, <2>4, IInvKept DEF RecvData, server
<1>3. ASSUME NEW p \in pending, SendDone(p) \/ ZeroBytes(p), UNCHANGED serverVars  PROVE IInv'
  <2>1. PICK k \in Nat : Complete(p, k)
    BY <1>3 DEF SendDone, ZeroBytes
  <2>2. Adds(Refs, Slots, {"Index"}, p.s, 0) /\ SameIndex(Slots, {"Index"})
    BY <1>3, Parts DEF SendDone, ZeroBytes, Sound, Adds, SameIndex
  <2>3. Balanced(Refs, Threads, Slots, Kinds, {"Index"})
    BY <1>1, <2>1, <2>2, CompleteBalanced
  <2> QED BY <1>3, <2>3, IInvKept DEF serverVars, server, app
<1> QED BY <1>2, <1>3 DEF Kernel
-----------------------------------------------------------------------------
LEMMA IInvNext == IInv /\ [Next]_vars => IInv'
<1> SUFFICES ASSUME IInv, [Next]_vars PROVE IInv'
  OBVIOUS
<1>1. ASSUME NEW t \in Threads, Step(t)  PROVE IInv'
  <2>1. CASE SessionStep(t) /\ UNCHANGED serverVars
    <3>1. CASE Reclaim(t)
      BY <2>1, <3>1, ReclaimStep
    <3>2. CASE ~Reclaim(t)
      <4>1. Balanced(Refs, Threads, Slots, Kinds, {"Index"})
        BY <2>1, <3>2, FieldSteps, CommonSteps DEF SessionStep, IInv
      <4> QED BY <2>1, <4>1, IInvKept DEF serverVars, server, app
    <3> QED BY <3>1, <3>2
  <2>2. CASE AcquireInc(t) \/ AcquireCheckId(t) \/ AcquireCheckFlag(t)
    BY <2>2, AcquireIncStep, AcquireCheckIdStep, AcquireCheckFlagStep
  <2>3. CASE \/ Leave(t) \/ PushSlot(t) \/ OnRecv(t) \/ CutCAS(t) \/ Push(t) \/ CutNow(t)
             \/ PopSlot(t) \/ Insert(t) \/ Join(t)
    BY <2>3, LeaveStep, PushSlotStep, OnRecvStep, CutCASStep, PushStep, CutNowStep, PopSlotStep,
       InsertStep, JoinStep
  <2> QED BY <1>1, <2>1, <2>2, <2>3 DEF Step
<1>2. ASSUME NEW c \in Conns, PeerLeaves(c), UNCHANGED serverVars  PROVE IInv'
  BY <1>2, StillBalanced, IInvKept DEF PeerLeaves, serverVars, server, app, IInv, ServerSound
<1>3. CASE UNCHANGED vars
  BY <1>3, StillBalanced, IInvKept
     DEF vars, sessionVars, kernel, serverVars, server, app, IInv, ServerSound
<1> QED BY <1>1, <1>2, <1>3, CallBackStep, AcceptStep, DequeueStep, CallStepOfUser, StopBeginStep,
           KernelStep DEF Next

(* For every number of slots and threads iocpCount is the number of references *)
(* to the session: what the tear-down at zero rests on                         *)
(* (IOCPServer.cpp:511-513, 554-584).                                          *)
THEOREM RefCountTheorem == Spec => []RefCountExact
<1>1. IInv => RefCountExact
  BY DEF IInv
<1> QED BY <1>1, IInvInit, IInvNext, PTL DEF Spec
-----------------------------------------------------------------------------
(* SESSIONS WITHOUT APPLICATION THREADS *)

(* The life of a session without application threads and without Stop: all *)
(* calls come from the callbacks.                                          *)
CallsFromCallbacks == Users = {} /\ ~MayStop

-----------------------------------------------------------------------------
(* Types *)

Ids == [slot : Slots, net : Nat]

(* A packet on its way to a client. *)
Outgoing == [to : Ids, no : Nat]

Fields ==
  {"Sock", "Index", "sendFlag", "disconnectFlag", "sendCount", "sendDisconnectFlag",
   "sendPQCS", "iocpCount", "recvQ", "sendQ", "completeSendQ"}

SessionOK(ss) ==
  /\ Fields \subseteq DOMAIN ss
  /\ ss.Sock \in Conns \cup {NoSock} /\ ss.Index \in Ids
  /\ ss.sendFlag \in Int /\ ss.disconnectFlag \in {0, 1} /\ ss.sendDisconnectFlag \in {0, 1}
  /\ ss.sendCount \in Nat /\ ss.sendPQCS \in Int /\ ss.iocpCount \in Int
  /\ ss.recvQ \in Seq(Conns)
  /\ ss.sendQ \in Seq(Outgoing) /\ ss.completeSendQ \in Seq(Outgoing)

SessionsOK == DOMAIN sess = Slots /\ \A s \in Slots : SessionOK(sess[s])

NetworkOK ==
  /\ wbuf \in [Threads -> Seq(Outgoing)]
  /\ sock \in [Conns -> {"backlog", "open", "shut", "closed"}]
  /\ \A p \in pending : p.c \in Conns

AppOK ==
  /\ netId \in Nat /\ clientCounter \in Int /\ pushes \in Nat
  /\ arg \in [Threads -> [id : Ids, call : {"none", "send", "send_cut", "shut"}]]
  /\ clientSock \in Conns \cup {NoSock}
  /\ idOf \in [Conns -> Ids]
  /\ left \in Seq(Ids)

ServerTypeOK == SessionsOK /\ NetworkOK /\ AppOK

LEMMA TypeInit == Init => ServerTypeOK
<1> SUFFICES ASSUME Init PROVE ServerTypeOK
  OBVIOUS
<1>1. NoId \in Ids
  BY ThreadsFinite DEF NoId, Id, Ids
<1>2. SessionOK(EmptySession)
  BY <1>1 DEF EmptySession, SessionOK, Fields
<1>3. SessionsOK
  BY <1>2 DEF Init, SessionsOK
<1>4. NetworkOK
  BY DEF Init, NetworkOK
<1>5. AppOK
  BY <1>1 DEF Init, AppOK, NoArg
<1> QED BY <1>3, <1>4, <1>5 DEF ServerTypeOK

(* A session whose fields change as in the code. *)
LEMMA Updated ==
  ASSUME NEW ss, SessionOK(ss)
  PROVE  /\ SessionOK([ss EXCEPT !.iocpCount = @ - 1])
         /\ SessionOK([ss EXCEPT !.iocpCount = @ + 1])
         /\ SessionOK([ss EXCEPT !.disconnectFlag = 1])
         /\ SessionOK([ss EXCEPT !.disconnectFlag = 0])
         /\ SessionOK([ss EXCEPT !.sendCount = 0, !.completeSendQ = <<>>, !.sendQ = <<>>])
         /\ SessionOK([ss EXCEPT !.sendFlag = 0])
         /\ SessionOK([ss EXCEPT !.sendFlag = @ - 1])
         /\ SessionOK([ss EXCEPT !.sendCount = 0, !.sendFlag = 0])
         /\ SessionOK([ss EXCEPT !.sendFlag = 0, !.disconnectFlag = 0])
         /\ SessionOK([ss EXCEPT !.sendCount = 0])
         /\ SessionOK([ss EXCEPT !.sendDisconnectFlag = 1])
         /\ SessionOK([ss EXCEPT !.sendPQCS = @ - 1])
BY DEF SessionOK, Fields

LEMMA OneUpdated ==
  ASSUME SessionsOK, NEW s \in Slots, NEW x, SessionOK(x), sess' = [sess EXCEPT ![s] = x]
  PROVE  SessionsOK'
BY DEF SessionsOK

(* The steps that change fields of one session. *)
LEMMA FieldTypes ==
  ASSUME SessionsOK, ServerSound, NEW t \in Threads,
         \/ Release(t) \/ Flag(t) \/ DiscCAS(t) \/ DiscCount(t) \/ Drain(t) \/ TestId(t)
         \/ PostTest(t) \/ PostCAS(t) \/ PostUnset(t)
         \/ SendFailed(t) \/ FreeSent(t) \/ FlagDec(t) \/ CountReset(t)
         \/ CutTest(t) \/ CutFlag(t) \/ Mark(t) \/ WakeTest(t) \/ WakeLook(t)
         \/ InsertFlags(t) \/ InsertRef(t)
         \/ PqcsDec(t) \/ PqcsTest(t) \/ PqcsQueue(t)
         \/ CallbackEnds(t) \/ Wait(t)
  PROVE  SessionsOK' /\ UNCHANGED <<wbuf, sock, pending>>
<1>1. \A op : At(t, op) => Slot(t) \in Slots /\ SessionOK(sess[Slot(t)])
  BY AtOp DEF ServerSound, SessionsOK
<1> USE DEF OnlySession, kernel
<1>2. CASE Release(t)
  <2>1. At(t, Head(todo[t]).op) /\ UNCHANGED <<wbuf, sock, pending>>
    BY <1>2 DEF Release, At
  <2>2. \E x : SessionOK(x) /\ sess' = [sess EXCEPT ![Slot(t)] = x]
    BY <1>1, <1>2, <2>1, Updated DEF Release
  <2> QED BY <1>1, <2>1, <2>2, OneUpdated
<1>3. CASE Flag(t)
  <2>1. At(t, Head(todo[t]).op) /\ UNCHANGED <<wbuf, sock, pending>>
    BY <1>3 DEF Flag, Update, At
  <2>2. \E x : SessionOK(x) /\ sess' = [sess EXCEPT ![Slot(t)] = x]
    BY <1>1, <1>3, <2>1, Updated DEF Flag, Update
  <2> QED BY <1>1, <2>1, <2>2, OneUpdated
<1>4. CASE Drain(t)
  <2>1. At(t, Head(todo[t]).op) /\ UNCHANGED <<wbuf, sock, pending>>
    BY <1>4 DEF Drain, Update, At
  <2>2. \E x : SessionOK(x) /\ sess' = [sess EXCEPT ![Slot(t)] = x]
    BY <1>1, <1>4, <2>1, Updated DEF Drain, Update
  <2> QED BY <1>1, <2>1, <2>2, OneUpdated
<1>5. CASE PostUnset(t)
  <2>1. At(t, Head(todo[t]).op) /\ UNCHANGED <<wbuf, sock, pending>>
    BY <1>5 DEF PostUnset, Update, At
  <2>2. \E x : SessionOK(x) /\ sess' = [sess EXCEPT ![Slot(t)] = x]
    BY <1>1, <1>5, <2>1, Updated DEF PostUnset, Update
  <2> QED BY <1>1, <2>1, <2>2, OneUpdated
<1>6. CASE SendFailed(t)
  <2>1. At(t, Head(todo[t]).op) /\ UNCHANGED <<wbuf, sock, pending>>
    BY <1>6 DEF SendFailed, Update, At
  <2>2. \E x : SessionOK(x) /\ sess' = [sess EXCEPT ![Slot(t)] = x]
    BY <1>1, <1>6, <2>1, Updated DEF SendFailed, Update
  <2> QED BY <1>1, <2>1, <2>2, OneUpdated
<1>7. CASE FlagDec(t)
  <2>1. At(t, Head(todo[t]).op) /\ UNCHANGED <<wbuf, sock, pending>>
    BY <1>7 DEF FlagDec, Update, At
  <2>2. \E x : SessionOK(x) /\ sess' = [sess EXCEPT ![Slot(t)] = x]
    BY <1>1, <1>7, <2>1, Updated DEF FlagDec, Update
  <2> QED BY <1>1, <2>1, <2>2, OneUpdated
<1>8. CASE CountReset(t)
  <2>1. At(t, Head(todo[t]).op) /\ UNCHANGED <<wbuf, sock, pending>>
    BY <1>8 DEF CountReset, Update, At
  <2>2. \E x : SessionOK(x) /\ sess' = [sess EXCEPT ![Slot(t)] = x]
    BY <1>1, <1>8, <2>1, Updated DEF CountReset, Update
  <2> QED BY <1>1, <2>1, <2>2, OneUpdated
<1>9. CASE Mark(t)
  <2>1. At(t, Head(todo[t]).op) /\ UNCHANGED <<wbuf, sock, pending>>
    BY <1>9 DEF Mark, Update, At
  <2>2. \E x : SessionOK(x) /\ sess' = [sess EXCEPT ![Slot(t)] = x]
    BY <1>1, <1>9, <2>1, Updated DEF Mark, Update
  <2> QED BY <1>1, <2>1, <2>2, OneUpdated
<1>10. CASE InsertFlags(t)
  <2>1. At(t, Head(todo[t]).op) /\ UNCHANGED <<wbuf, sock, pending>>
    BY <1>10 DEF InsertFlags, Update, At
  <2>2. \E x : SessionOK(x) /\ sess' = [sess EXCEPT ![Slot(t)] = x]
    BY <1>1, <1>10, <2>1, Updated DEF InsertFlags, Update
  <2> QED BY <1>1, <2>1, <2>2, OneUpdated
<1>11. CASE InsertRef(t)
  <2>1. At(t, Head(todo[t]).op) /\ UNCHANGED <<wbuf, sock, pending>>
    BY <1>11 DEF InsertRef, Update, At
  <2>2. \E x : SessionOK(x) /\ sess' = [sess EXCEPT ![Slot(t)] = x]
    BY <1>1, <1>11, <2>1, Updated DEF InsertRef, Update
  <2> QED BY <1>1, <2>1, <2>2, OneUpdated
<1>12. CASE PqcsDec(t)
  <2>1. At(t, Head(todo[t]).op) /\ UNCHANGED <<wbuf, sock, pending>>
    BY <1>12 DEF PqcsDec, Update, At
  <2>2. \E x : SessionOK(x) /\ sess' = [sess EXCEPT ![Slot(t)] = x]
    BY <1>1, <1>12, <2>1, Updated DEF PqcsDec, Update
  <2> QED BY <1>1, <2>1, <2>2, OneUpdated
<1>13. CASE DiscCAS(t)
  <2>1. At(t, Head(todo[t]).op) /\ UNCHANGED <<wbuf, sock, pending>>
    BY <1>13 DEF DiscCAS, TakeFlag, At
  <2>2. sess' = sess \/ \E x : SessionOK(x) /\ sess' = [sess EXCEPT ![Slot(t)] = x]
    BY <1>1, <1>13, <2>1, Updated DEF DiscCAS, TakeFlag
  <2>3. CASE sess' = sess
    BY <2>1, <2>3 DEF SessionsOK
  <2> QED BY <1>1, <2>1, <2>2, <2>3, OneUpdated
<1>14. CASE PostCAS(t)
  <2>1. At(t, Head(todo[t]).op) /\ UNCHANGED <<wbuf, sock, pending>>
    BY <1>14 DEF PostCAS, At
  <2>2. Slot(t) \in Slots
    BY <1>1, <2>1
  <2>3. CASE sess' = sess
    BY <2>1, <2>3 DEF SessionsOK
  <2>4. CASE sess' = [sess EXCEPT ![Slot(t)].sendFlag = 1, ![Slot(t)].sendCount = 0]
    BY <2>1, <2>2, <2>4 DEF SessionsOK, SessionOK, Fields
  <2> QED BY <1>14, <2>3, <2>4 DEF PostCAS
<1>15. CASE DiscCount(t) \/ PostTest(t) \/ CutTest(t) \/ CutFlag(t) \/ WakeTest(t) \/ WakeLook(t) \/ PqcsTest(t) \/ PqcsQueue(t)
  BY <1>15 DEF DiscCount, PostTest, CutTest, CutFlag, WakeTest, WakeLook, PqcsTest, PqcsQueue, Test, OnlyThread, SessionsOK
<1>16. CASE TestId(t) \/ CallbackEnds(t) \/ Wait(t)
  BY <1>16 DEF TestId, CallbackEnds, Wait, Crash, OnlyThread, SessionsOK
<1>17. CASE FreeSent(t)
  BY <1>1, <1>17 DEF FreeSent, SessionsOK, SessionOK, Fields
<1> QED BY <1>2, <1>3, <1>4, <1>5, <1>6, <1>7, <1>8, <1>9, <1>10, <1>11, <1>12, <1>13, <1>14, <1>15, <1>16, <1>17

LEMMA GatherTypes ==
  ASSUME NEW q \in Seq(Outgoing)
  PROVE  Gather(q).batch \in Seq(Outgoing) /\ Gather(q).rest \in Seq(Outgoing)
<1>1. BatchSize(q) \in Nat /\ BatchSize(q) <= Len(q)
  BY BatchAssumption DEF BatchSize
<1> QED BY <1>1 DEF Gather

LEMMA NetworkTypes ==
  ASSUME SessionsOK, NetworkOK, ServerSound, NEW t \in Threads,
         Shutdown(t) \/ Reclaim(t) \/ RecvPost(t) \/ PostFill(t) \/ WSASend(t) \/ WakeCAS(t) \/ PostQuit(t)
  PROVE  SessionsOK' /\ NetworkOK'
<1>1. \A op : At(t, op) => Slot(t) \in Slots /\ SessionOK(sess[Slot(t)])
  BY AtOp DEF ServerSound, SessionsOK
<1>2. CASE Shutdown(t)
  BY <1>1, <1>2 DEF Shutdown, ShutSock, SessionsOK, SessionOK, NetworkOK
<1>3. CASE Reclaim(t)
  <2>1. NoId \in Ids
    BY ThreadsFinite DEF NoId, Id, Ids
  <2>2. SessionsOK'
    BY <1>1, <1>3, <2>1 DEF Reclaim, SessionsOK, SessionOK, Fields
  <2>3. NetworkOK'
    BY <1>3 DEF Reclaim, NetworkOK
  <2> QED BY <2>2, <2>3
<1>4. CASE RecvPost(t)
  <2>1. SessionsOK'
    BY <1>1, <1>4 DEF RecvPost, SessionsOK, SessionOK, Fields
  <2>2. NetworkOK'
    BY <1>4 DEF RecvPost, NetworkOK, MayPend
  <2> QED BY <2>1, <2>2
<1>5. CASE PostFill(t)
  <2>1. Slot(t) \in Slots
    BY <1>1, <1>5 DEF PostFill
  <2>2. PICK g : g = Gather(sess[Slot(t)].sendQ)
    OBVIOUS
  <2>3. g.batch \in Seq(Outgoing) /\ g.rest \in Seq(Outgoing) /\ Len(g.batch) \in Nat
    BY <2>1, <2>2, GatherTypes DEF SessionsOK, SessionOK
  <2>4. /\ sess' = [sess EXCEPT ![Slot(t)].sendQ = g.rest,
                                ![Slot(t)].completeSendQ = @ \o g.batch,
                                ![Slot(t)].sendCount = Len(g.batch)]
        /\ wbuf' = [wbuf EXCEPT ![t] = g.batch]
        /\ UNCHANGED <<sock, pending>>
    BY <1>5, <2>2 DEF PostFill, Kept, kernel
  <2>5. SessionsOK'
    BY SMTT(30), <2>1, <2>3, <2>4 DEF SessionsOK, SessionOK, Fields
  <2>6. NetworkOK'
    BY <2>3, <2>4 DEF NetworkOK
  <2> QED BY <2>5, <2>6
<1>6. CASE WSASend(t)
  <2>1. Slot(t) \in Slots
    BY <1>1, <1>6 DEF WSASend
  <2>2. SessionsOK'
    BY <1>1, <1>6, <2>1, Updated, OneUpdated DEF WSASend, SessionsOK
  <2>3. NetworkOK'
    <3>1. wbuf' = [wbuf EXCEPT ![t] = <<>>] /\ UNCHANGED sock
      BY <1>6 DEF WSASend
    <3>2. PICK p : p = [s |-> Slot(t), c |-> sess[Slot(t)].Sock, op |-> "send",
                         msgs |-> SubSeq(wbuf[t], 1, sess[Slot(t)].sendCount)]
      OBVIOUS
    <3>3. UNCHANGED pending \/ (p.c \in Conns /\ pending' = pending \cup {p})
      <4>1. CASE UNCHANGED pending
        BY <4>1
      <4>2. CASE MayPend(sess[Slot(t)].Sock) /\ pending' = pending \cup {p}
        BY <3>2, <4>2 DEF MayPend
      <4> QED BY <1>6, <3>2, <4>1, <4>2 DEF WSASend
    <3> QED BY <3>1, <3>3 DEF NetworkOK
  <2> QED BY <2>2, <2>3
<1>7. CASE WakeCAS(t)
  <2>1. SessionsOK'
    <3>1. Slot(t) \in Slots
      BY <1>1, <1>7 DEF WakeCAS
    <3>2. CASE sess' = sess
      BY <3>2 DEF SessionsOK
    <3>3. CASE sess' = [sess EXCEPT ![Slot(t)].sendPQCS = 1, ![Slot(t)].iocpCount = @ + 1]
      BY <3>1, <3>3 DEF SessionsOK, SessionOK, Fields
    <3> QED BY <1>7, <3>2, <3>3 DEF WakeCAS
  <2>2. NetworkOK'
    BY <1>7 DEF WakeCAS, NetworkOK
  <2> QED BY <2>1, <2>2
<1>8. CASE PostQuit(t)
  BY <1>8 DEF PostQuit, SessionsOK, SessionOK, NetworkOK
<1> QED BY <1>2, <1>3, <1>4, <1>5, <1>6, <1>7, <1>8

(* The steps that change the server's or the application's state too. *)
LEMMA AcquireTypes ==
  ASSUME ServerTypeOK, ServerSound, NEW t \in Threads,
         AcquireInc(t) \/ AcquireCheckId(t) \/ AcquireCheckFlag(t) \/ CutCAS(t) \/ CutNow(t) \/ Push(t)
  PROVE  ServerTypeOK'
<1> USE DEF ServerTypeOK
<1>1. \A op : At(t, op) => Slot(t) \in Slots /\ SessionOK(sess[Slot(t)])
  BY AtOp DEF ServerSound, SessionsOK
<1>2. NoArg \in [id : Ids, call : {"none", "send", "send_cut", "shut"}]
  BY ThreadsFinite DEF NoArg, NoId, Id, Ids
<1>3. \A n \in Int : TRUE
  OBVIOUS
<1>4. CASE AcquireInc(t)
  <2>1. SessionsOK'
    BY <1>1, <1>4, Updated, OneUpdated DEF AcquireInc
  <2>2. NetworkOK'
    BY <1>4 DEF AcquireInc, OnlySession, kernel, NetworkOK
  <2>3. AppOK'
    BY <1>2, <1>4 DEF AcquireInc, OnlyArg, Forget, server, app, AppOK
  <2> QED BY <2>1, <2>2, <2>3
<1>5. CASE AcquireCheckId(t) \/ AcquireCheckFlag(t)
  <2>1. SessionsOK'
    BY <1>5 DEF AcquireCheckId, AcquireCheckFlag, OnlyThread, SessionsOK
  <2>2. NetworkOK'
    BY <1>5 DEF AcquireCheckId, AcquireCheckFlag, OnlyThread, OnlySession, kernel, NetworkOK
  <2>3. arg' = arg \/ arg' = [arg EXCEPT ![t] = NoArg]
    BY <1>5 DEF AcquireCheckId, AcquireCheckFlag, Forget
  <2>4. UNCHANGED <<netId, clientCounter, pushes, clientSock, idOf, left>>
    BY <1>5 DEF AcquireCheckId, AcquireCheckFlag, OnlyArg, server, app
  <2>5. AppOK'
    BY <1>2, <2>3, <2>4 DEF AppOK
  <2> QED BY <2>1, <2>2, <2>5
<1>6. CASE CutCAS(t) \/ CutNow(t)
  <2>1. Slot(t) \in Slots
    BY <1>1, <1>6 DEF CutCAS, CutNow
  <2>2. sess' = sess \/ \E x : SessionOK(x) /\ sess' = [sess EXCEPT ![Slot(t)] = x]
    BY <1>1, <1>6, Updated DEF CutCAS, CutNow, OnlyThread
  <2>3. SessionsOK'
    <3>1. CASE sess' = sess
      BY <3>1 DEF SessionsOK
    <3> QED BY <2>1, <2>2, <3>1, OneUpdated
  <2>4. NetworkOK'
    BY <1>6 DEF CutCAS, CutNow, OnlyThread, OnlySession, kernel, NetworkOK
  <2>5. UNCHANGED <<netId, clientCounter, pushes, clientSock, idOf, left>>
    BY <1>6 DEF CutCAS, CutNow, OnlyArg, server, app
  <2>6. arg' = arg \/ arg' = [arg EXCEPT ![t].id = sess[Slot(t)].Index, ![t].call = "shut"]
    BY <1>6 DEF CutCAS, CutNow, CallShutdown
  <2>7. sess[Slot(t)].Index \in Ids
    BY <2>1 DEF SessionsOK, SessionOK
  <2>8. AppOK'
    BY <2>5, <2>6, <2>7 DEF AppOK
  <2> QED BY <2>3, <2>4, <2>8
<1>7. CASE Push(t)
  <2>1. Slot(t) \in Slots
    BY <1>1, <1>7 DEF Push
  <2>2. PICK e : e = [to |-> arg[t].id, no |-> pushes]
    OBVIOUS
  <2>3. e \in Outgoing
    BY <2>2 DEF AppOK, Outgoing
  <2>4. sess' = [sess EXCEPT ![Slot(t)].sendQ = Append(@, e)]
    BY <1>7, <2>2 DEF Push
  <2>5. SessionsOK'
    BY <2>1, <2>3, <2>4 DEF SessionsOK, SessionOK, Fields
  <2>6. NetworkOK'
    BY <1>7 DEF Push, OnlySession, kernel, NetworkOK
  <2>7. AppOK'
    BY <1>2, <1>7 DEF Push, Forget, server, AppOK
  <2> QED BY <2>5, <2>6, <2>7
<1> QED BY <1>4, <1>5, <1>6, <1>7

LEMMA HalfNat ==
  \A m \in Nat : m \div 2 \in Nat /\ 2 * (m \div 2) <= m /\ m < 2 * (m \div 2) + 2
OBVIOUS

LEMMA WholeCount ==
  ASSUME NEW s, sess[s].recvQ \in Seq(Conns)
  PROVE  /\ Len(Whole(s)) \in Nat
         /\ Len(Whole(s)) = Len(sess[s].recvQ) \div 2
         /\ \A i \in 1 .. Len(Whole(s)) :
              Whole(s)[i] = [id |-> sess[s].Index, data |-> SubSeq(sess[s].recvQ, 2 * i - 1, 2 * i)]
<1>1. PICK q, n, d, w : q = sess[s].recvQ /\ n = Len(q) \div 2 /\ d = sess[s].Index /\ w = Whole(s)
  OBVIOUS
<1>2. n \in Nat
  <2>1. PICK m \in Nat : m = Len(q)
    BY <1>1
  <2>2. m \div 2 \in Nat
    BY HalfNat
  <2> QED BY <1>1, <2>1, <2>2
<1>3. w = [i \in 1 .. n |-> [id |-> d, data |-> SubSeq(q, 2 * i - 1, 2 * i)]]
  BY <1>1 DEF Whole
<1>4. Len(w) = n /\ \A i \in 1 .. n : w[i] = [id |-> d, data |-> SubSeq(q, 2 * i - 1, 2 * i)]
  BY <1>2, <1>3
<1> QED BY <1>1, <1>2, <1>4

LEMMA LifeTypes ==
  ASSUME ServerTypeOK, ServerSound, SlotNumbers, NEW t \in Threads,
         Leave(t) \/ PushSlot(t) \/ OnRecv(t) \/ PopSlot(t) \/ Insert(t) \/ Join(t) \/ CallBack(t)
  PROVE  ServerTypeOK'
<1> USE DEF ServerTypeOK
<1>1. \A op : At(t, op) => Slot(t) \in Slots /\ SessionOK(sess[Slot(t)])
  BY AtOp DEF ServerSound, SessionsOK
<1>2. \A s \in Slots : sess[s].Index \in Ids /\ sess[s].Index.slot \in Slots
  BY DEF SessionsOK, SessionOK, Ids
<1>3. CASE Leave(t)
  <2>1. SessionsOK' /\ NetworkOK'
    BY <1>3 DEF Leave, OnlyThread, OnlySession, kernel, SessionsOK, NetworkOK
  <2>2. AppOK'
    BY <1>1, <1>2, <1>3 DEF Leave, AppOK
  <2> QED BY <2>1, <2>2
<1>4. CASE PushSlot(t)
  <2>1. SessionsOK' /\ NetworkOK'
    BY <1>4 DEF PushSlot, OnlyThread, OnlySession, kernel, SessionsOK, NetworkOK
  <2>2. AppOK'
    BY <1>4 DEF PushSlot, app, AppOK
  <2> QED BY <2>1, <2>2
<1>5. CASE OnRecv(t)
  <2>1. Slot(t) \in Slots /\ SessionOK(sess[Slot(t)])
    BY <1>1, <1>5 DEF OnRecv
  <2>2. AppOK'
    BY <1>5 DEF OnRecv, serverVars, server, app, AppOK
  <2>3. NetworkOK'
    BY <1>5 DEF OnRecv, Crash, OnlySession, kernel, NetworkOK
  <2>4. SessionsOK'
    <3>1. CASE sess' = sess
      BY <3>1 DEF SessionsOK
    <3>2. CASE sess' # sess
      <4>1. PICK n : sess' = [sess EXCEPT ![Slot(t)].recvQ = SubSeq(@, 2 * Len(n) + 1, Len(@))] /\ n = Whole(Slot(t))
        BY <1>5, <3>2 DEF OnRecv, Crash
      <4>2. Len(n) \in Nat
        BY <2>1, <4>1, WholeCount DEF SessionOK
      <4> QED BY <2>1, <4>1, <4>2 DEF SessionsOK, SessionOK, Fields
    <3> QED BY <3>1, <3>2
  <2> QED BY <2>2, <2>3, <2>4
<1>6. CASE PopSlot(t)
  <2>1. UNCHANGED <<sess, wbuf, sock, pending, netId, clientCounter, pushes, arg, clientSock, idOf, left>>
    BY <1>6 DEF PopSlot, Crash, serverVars, server, app, OnlyThread, OnlySession, kernel
  <2> QED BY <2>1 DEF SessionsOK, NetworkOK, AppOK
<1>7. CASE Insert(t)
  <2>1. Slot(t) \in Slots /\ Id(Slot(t), netId) \in Ids
    BY <1>1, <1>7 DEF Insert, Id, Ids, AppOK
  <2>2. SessionsOK'
    BY SMTT(30), <1>7, <2>1 DEF Insert, SessionsOK, SessionOK, Fields, AppOK
  <2>3. NetworkOK'
    BY <1>7 DEF Insert, OnlySession, kernel, NetworkOK
  <2>4. AppOK'
    BY <1>7 DEF Insert, NextNetId, app, AppOK
  <2> QED BY <2>2, <2>3, <2>4
<1>8. CASE Join(t)
  <2>1. SessionsOK' /\ NetworkOK'
    BY <1>8 DEF Join, OnlyThread, OnlySession, kernel, SessionsOK, NetworkOK
  <2>2. AppOK'
    BY <1>1, <1>2, <1>8 DEF Join, AppOK
  <2> QED BY <2>1, <2>2
<1>9. CASE CallBack(t)
  <2>1. SessionsOK' /\ NetworkOK'
    BY <1>9 DEF CallBack, Request, OnlyThread, OnlySession, kernel, SessionsOK, NetworkOK
  <2>2. UNCHANGED <<netId, clientCounter, pushes, clientSock, idOf, left>>
    BY <1>9 DEF CallBack, Request, server
  <2>3. PICK call \in {"send", "send_cut", "shut"} :
          arg' = [arg EXCEPT ![t] = [id |-> sess[Slot(t)].Index, call |-> call]]
    BY <1>9 DEF CallBack, Request
  <2>4. sess[Slot(t)].Index \in Ids
    BY <1>1, <1>2, <1>9 DEF CallBack
  <2>5. AppOK'
    BY <2>2, <2>3, <2>4 DEF AppOK
  <2> QED BY <2>1, <2>5
<1> QED BY <1>3, <1>4, <1>5, <1>6, <1>7, <1>8, <1>9

LEMMA KernelTypes ==
  ASSUME ServerTypeOK, ServerSound, Kernel
  PROVE  ServerTypeOK'
<1> USE DEF ServerTypeOK
<1>1. ASSUME NEW p \in pending, RecvData(p) PROVE ServerTypeOK'
  <2>1. PICK k \in Fragments : /\ Complete(p, k)
                               /\ sess' = [sess EXCEPT ![p.s].recvQ = @ \o [i \in 1 .. k |-> p.c]]
    BY <1>1 DEF RecvData
  <2>2. p.s \in Slots /\ p.c \in Conns
    BY DEF ServerSound, Sound, Running, NetworkOK
  <2>3. PICK new : new = [i \in 1 .. k |-> p.c]
    OBVIOUS
  <2>4. new \in Seq(Conns)
    BY <2>2, <2>3, SizesAssumption
  <2>5. sess' = [sess EXCEPT ![p.s].recvQ = @ \o new]
    BY <2>1, <2>3
  <2>6. SessionsOK'
    BY <2>2, <2>4, <2>5 DEF SessionsOK, SessionOK, Fields
  <2>7. NetworkOK'
    BY <2>1 DEF Complete, NetworkOK
  <2>8. AppOK'
    BY <1>1 DEF RecvData, server, AppOK
  <2> QED BY <2>6, <2>7, <2>8
<1>2. ASSUME NEW p \in pending, SendDone(p) \/ ZeroBytes(p), UNCHANGED serverVars PROVE ServerTypeOK'
  <2>1. SessionsOK'
    BY <1>2 DEF SendDone, ZeroBytes, SessionsOK
  <2>2. NetworkOK'
    BY <1>2 DEF SendDone, ZeroBytes, Complete, NetworkOK
  <2>3. AppOK'
    BY <1>2 DEF serverVars, server, app, AppOK
  <2> QED BY <2>1, <2>2, <2>3
<1> QED BY <1>1, <1>2 DEF Kernel

LEMMA TypeNext == IInv /\ ServerTypeOK /\ [Next]_vars => ServerTypeOK'
<1> SUFFICES ASSUME IInv, ServerTypeOK, [Next]_vars PROVE ServerTypeOK'
  OBVIOUS
<1>1. ServerSound /\ SlotNumbers /\ SessionsOK /\ NetworkOK /\ AppOK
  BY DEF IInv, ServerTypeOK
<1>2. ASSUME NEW t \in Threads, Step(t) PROVE ServerTypeOK'
  <2>1. CASE SessionStep(t) /\ UNCHANGED serverVars
    <3>1. AppOK'
      BY <1>1, <2>1 DEF serverVars, server, app, AppOK
    <3>2. CASE Shutdown(t) \/ Reclaim(t) \/ RecvPost(t) \/ PostFill(t) \/ WSASend(t) \/ WakeCAS(t) \/ PostQuit(t)
      BY <1>1, <3>1, <3>2, NetworkTypes DEF ServerTypeOK
    <3>3. CASE ~(Shutdown(t) \/ Reclaim(t) \/ RecvPost(t) \/ PostFill(t) \/ WSASend(t) \/ WakeCAS(t) \/ PostQuit(t))
      <4>1. SessionsOK' /\ UNCHANGED <<wbuf, sock, pending>>
        BY <1>1, <2>1, <3>3, FieldTypes DEF SessionStep
      <4>2. NetworkOK'
        BY <1>1, <4>1 DEF NetworkOK
      <4> QED BY <3>1, <4>1, <4>2 DEF ServerTypeOK
    <3> QED BY <3>2, <3>3
  <2>2. CASE AcquireInc(t) \/ AcquireCheckId(t) \/ AcquireCheckFlag(t) \/ CutCAS(t) \/ CutNow(t) \/ Push(t)
    BY <1>1, <2>2, AcquireTypes
  <2>3. CASE Leave(t) \/ PushSlot(t) \/ OnRecv(t) \/ PopSlot(t) \/ Insert(t) \/ Join(t)
    BY <1>1, <2>3, LifeTypes
  <2> QED BY <1>2, <2>1, <2>2, <2>3 DEF Step
<1>3. ASSUME NEW t \in Threads, CallBack(t) PROVE ServerTypeOK'
  BY <1>1, <1>3, LifeTypes
<1>4. ASSUME NEW c \in Conns, Accept(c) PROVE ServerTypeOK'
  <2>1. UNCHANGED <<sess, wbuf, pending, netId, clientCounter, pushes, arg, idOf, left>>
    BY <1>4 DEF Accept, server, app
  <2>2. clientSock' \in Conns \cup {NoSock} /\ sock' \in [Conns -> {"backlog", "open", "shut", "closed"}]
    BY <1>1, <1>4 DEF Accept, NetworkOK, AppOK
  <2> QED BY <1>1, <2>1, <2>2 DEF ServerTypeOK, SessionsOK, NetworkOK, AppOK
<1>5. ASSUME NEW c \in Conns, PeerLeaves(c), UNCHANGED serverVars PROVE ServerTypeOK'
  BY <1>1, <1>5 DEF PeerLeaves, serverVars, server, app, ServerTypeOK, SessionsOK, NetworkOK, AppOK
<1>6. ASSUME NEW w \in Workers, Dequeue(w) PROVE ServerTypeOK'
  BY <1>1, <1>6 DEF Dequeue, TakePacket, serverVars, server, app, ServerTypeOK, SessionsOK, NetworkOK, AppOK
<1>7. ASSUME NEW u \in Users, Call(u) PROVE ServerTypeOK'
  <2>1. UNCHANGED <<sess, wbuf, sock, pending, netId, clientCounter, pushes, clientSock, idOf, left>>
    BY <1>7 DEF Call, Request, OnlyThread, OnlySession, kernel, server
  <2>2. PICK c \in Conns, call \in {"send", "send_cut", "shut"} :
          arg' = [arg EXCEPT ![u] = [id |-> idOf[c], call |-> call]]
    BY <1>7 DEF Call, Request
  <2>3. AppOK'
    BY <1>1, <2>1, <2>2 DEF AppOK
  <2> QED BY <1>1, <2>1, <2>3 DEF ServerTypeOK, SessionsOK, NetworkOK
<1>8. CASE StopBegin
  BY <1>1, <1>8 DEF StopBegin, OnlyThread, OnlySession, kernel, app, ServerTypeOK, SessionsOK, NetworkOK, AppOK
<1>9. CASE UNCHANGED vars
  BY <1>1, <1>9 DEF vars, sessionVars, kernel, serverVars, server, app, ServerTypeOK, SessionsOK, NetworkOK, AppOK
<1> QED BY <1>1, <1>2, <1>3, <1>4, <1>5, <1>6, <1>7, <1>8, <1>9, KernelTypes DEF Next
-----------------------------------------------------------------------------
(* WHAT THE THREADS DO *)

(* What a thread with a reference may have to do for its session; it gives *)
(* the reference back at the end.                                          *)
WorkOps == UseOps \cup {"acquire", "check_id", "check_flag", "release"}

WorkWord(q, s) ==
  q # <<>> /\ q \in Seq(Todo(WorkOps, {s})) /\ q[Len(q)].op \in {"release", "callback"}

(* disconnect, from each of its steps on. *)
EndLists ==
  {<<"disc_cas">>, <<"disc_count">>, <<"leave", "drain", "test_id", "reclaim", "push_slot">>,
   <<"drain", "test_id", "reclaim", "push_slot">>, <<"test_id", "reclaim", "push_slot">>,
   <<"reclaim", "push_slot">>, <<"push_slot">>}

EndOps == {"disc_cas", "disc_count"} \cup TeardownOps

(* A new session, from each step of the accept thread on. *)
NewLists ==
  {<<"insert", "insert_flags", "insert_ref", "join", "callback">>,
   <<"insert_flags", "insert_ref", "join", "callback">>,
   <<"insert_ref", "join", "callback">>, <<"join", "callback">>}

ListWord(q, L, s) == \E ops \in L : q = Frames(ops, s)

(* Without application threads each thread works on one session at a time. *)
Shape(t) ==
  \/ todo[t] = <<>>
  \/ \E s \in Slots : WorkWord(todo[t], s) \/ ListWord(todo[t], EndLists, s)
                      \/ ListWord(todo[t], {<<"exited">>}, s)
  \/ /\ t = Acceptor
     /\ \E s \in Slots : ListWord(todo[t], NewLists \cup {<<"pop_slot">>}, s)

Shapes == \A t \in Threads : Shape(t)
-----------------------------------------------------------------------------
LEMMA FramesNone == \A s : Frames(<<>>, s) = <<>>
BY DEF Frames

LEMMA FramesList ==
  ASSUME NEW s, NEW A, NEW ops \in Seq(A)
  PROVE  /\ Len(Frames(ops, s)) = Len(ops)
         /\ \A i \in 1 .. Len(ops) : Frames(ops, s)[i] = Frame(ops[i], s)
         /\ Frames(ops, s) \in Seq(Todo(A, {s}))
BY DEF Frames, Frame, Todo

LEMMA FramesFirst ==
  ASSUME NEW s, NEW A, NEW ops \in Seq(A), ops # <<>>
  PROVE  /\ Frames(ops, s) # <<>>
         /\ Head(Frames(ops, s)) = Frame(Head(ops), s)
         /\ Tail(Frames(ops, s)) = Frames(Tail(ops), s)
<1>1. /\ Len(Frames(ops, s)) = Len(ops) /\ Frames(ops, s) \in Seq(Todo(A, {s}))
      /\ \A i \in 1 .. Len(ops) : Frames(ops, s)[i] = Frame(ops[i], s)
  BY FramesList
<1>2. PICK z : z = Tail(ops)
  OBVIOUS
<1>3. z \in Seq(A) /\ Len(z) = Len(ops) - 1 /\ \A i \in 1 .. Len(z) : z[i] = ops[i + 1]
  BY <1>2
<1>4. /\ Len(Frames(z, s)) = Len(z) /\ Frames(z, s) \in Seq(Todo(A, {s}))
      /\ \A i \in 1 .. Len(z) : Frames(z, s)[i] = Frame(z[i], s)
  BY <1>3, FramesList
<1>5. PICK f, g : f = Frames(ops, s) /\ g = Frames(z, s)
  OBVIOUS
<1>6. f # <<>> /\ Head(f) = Frame(Head(ops), s)
  BY <1>1, <1>5
<1>7. Tail(f) = g
  <2>1. Tail(f) \in Seq(Todo(A, {s})) /\ Len(Tail(f)) = Len(g)
    BY <1>1, <1>3, <1>4, <1>5
  <2>2. \A i \in 1 .. Len(g) : Tail(f)[i] = f[i + 1]
    BY <1>1, <1>3, <1>4, <1>5
  <2>3. \A i \in 1 .. Len(g) : f[i + 1] = Frame(ops[i + 1], s) /\ g[i] = Frame(ops[i + 1], s)
    BY <1>1, <1>3, <1>4, <1>5
  <2> QED BY <1>4, <1>5, <2>1, <2>2, <2>3
<1> QED BY <1>2, <1>5, <1>6, <1>7

LEMMA FramesNothing ==
  ASSUME NEW S, NEW z \in Seq(S), NEW s
  PROVE  Frames(<<>>, s) \o z = z
<1>1. Frames(<<>>, s) = <<>>
  BY FramesNone
<1> QED BY <1>1

(* The first operation of work, and the rest. *)
LEMMA WorkFirst ==
  ASSUME NEW q, NEW s, WorkWord(q, s)
  PROVE  /\ Head(q).s = s /\ Head(q).op \in WorkOps
         /\ Tail(q) = <<>> \/ WorkWord(Tail(q), s)
         /\ Head(q).op \notin {"release", "callback"} => WorkWord(Tail(q), s)
<1>1. PICK S : S = Todo(WorkOps, {s})
  OBVIOUS
<1>2. q \in Seq(S) /\ q # <<>> /\ q[Len(q)].op \in {"release", "callback"}
  BY <1>1 DEF WorkWord
<1>3. Head(q) \in S /\ Tail(q) \in Seq(S) /\ Head(q) = q[1]
  BY <1>2
<1>4. Tail(q) # <<>> => Tail(q)[Len(Tail(q))] = q[Len(q)]
  BY <1>2
<1>5. Tail(q) = <<>> => Len(q) = 1
  <2>1. Len(Tail(q)) = Len(q) - 1 /\ Len(q) \in Nat
    BY <1>2
  <2>2. Tail(q) = <<>> => Len(Tail(q)) = 0
    BY EmptySeq
  <2> QED BY <2>1, <2>2
<1> QED BY <1>1, <1>2, <1>3, <1>4, <1>5 DEF Todo, WorkWord

LEMMA WorkOn ==
  ASSUME NEW s, NEW ops \in Seq(WorkOps), NEW z, WorkWord(z, s)
  PROVE  WorkWord(Frames(ops, s) \o z, s)
<1>1. PICK S, f : S = Todo(WorkOps, {s}) /\ f = Frames(ops, s)
  OBVIOUS
<1>2. f \in Seq(S) /\ z \in Seq(S) /\ z # <<>>
  BY <1>1, FramesList DEF WorkWord
<1>3. f \o z \in Seq(S) /\ f \o z # <<>> /\ (f \o z)[Len(f \o z)] = z[Len(z)]
  BY <1>2
<1> QED BY <1>1, <1>3 DEF WorkWord

LEMMA WorkBegins ==
  ASSUME NEW s, NEW ops \in Seq(WorkOps), ops # <<>>, ops[Len(ops)] \in {"release", "callback"}
  PROVE  WorkWord(Frames(ops, s), s) /\ WorkWord(Frames(ops, s) \o <<>>, s)
<1>1. /\ Len(Frames(ops, s)) = Len(ops) /\ Frames(ops, s) \in Seq(Todo(WorkOps, {s}))
      /\ \A i \in 1 .. Len(ops) : Frames(ops, s)[i] = Frame(ops[i], s)
  BY FramesList
<1>2. Len(ops) \in 1 .. Len(ops) /\ Len(ops) # 0
  OBVIOUS
<1>3. PICK f, n : f = Frames(ops, s) /\ n = Len(ops)
  OBVIOUS
<1>4. f[n].op \in {"release", "callback"} /\ Len(f) = n
  <2>1. f[n] = Frame(ops[n], s) /\ Len(f) = n
    BY <1>1, <1>2, <1>3
  <2>2. \A a : Frame(a, s).op = a
    BY DEF Frame
  <2> QED BY <1>3, <2>1, <2>2
<1>7. f # <<>>
  BY <1>2, <1>3, <1>4, EmptySeq
<1>5. WorkWord(f, s)
  BY <1>1, <1>3, <1>4, <1>7 DEF WorkWord
<1>6. f \o <<>> = f
  BY <1>1, <1>3
<1> QED BY <1>3, <1>5, <1>6

(* Work holds a reference, two when it is to give one back and go on. *)
LEMMA WorkHolds ==
  ASSUME NEW q, NEW s, WorkWord(q, s)
  PROVE  /\ Occ(q, FramesWith(Holding, s)) \in Nat /\ Occ(q, FramesWith(Holding, s)) >= 1
         /\ \A r : Occ(q, FramesWith(Owing, r)) = 0
         /\ Head(q).op = "release" /\ Tail(q) # <<>> => Occ(q, FramesWith(Holding, s)) >= 2
<1>1. PICK S, M : S = Todo(WorkOps, {s}) /\ M = FramesWith(Holding, s)
  OBVIOUS
<1>2. ASSUME NEW p, WorkWord(p, s)
      PROVE  p \in Seq(S) /\ Occ(p, M) \in Nat /\ Occ(p, M) >= 1
  <2>1. p \in Seq(S) /\ p # <<>> /\ p[Len(p)] \in S /\ p[Len(p)].op \in {"release", "callback"}
    BY <1>1, <1>2 DEF WorkWord
  <2>2. p[Len(p)] \in M /\ Len(p) \in 1 .. Len(p)
    BY <1>1, <2>1 DEF Todo, FramesWith, Holding
  <2>3. Occ(p, M) \in Nat /\ (Occ(p, M) = 0 <=> \A i \in 1 .. Len(p) : p[i] \notin M)
    BY <2>1, PositionsFinite
  <2> QED BY <2>1, <2>2, <2>3
<1>3. q \in Seq(S) /\ Occ(q, M) \in Nat /\ Occ(q, M) >= 1
  BY <1>2
<1>4. ASSUME NEW r PROVE Occ(q, FramesWith(Owing, r)) = 0
  <2>1. \A e \in S : e \notin FramesWith(Owing, r)
    BY <1>1 DEF Todo, FramesWith, WorkOps, UseOps, Owing
  <2>2. \A i \in 1 .. Len(q) : q[i] \notin FramesWith(Owing, r)
    BY <1>3, <2>1
  <2> QED BY <1>3, <2>2, PositionsFinite
<1>5. ASSUME Head(q).op = "release", Tail(q) # <<>> PROVE Occ(q, M) >= 2
  <2>1. WorkWord(Tail(q), s) /\ Head(q).s = s
    BY <1>5, WorkFirst
  <2>2. Occ(Tail(q), M) \in Nat /\ Occ(Tail(q), M) >= 1
    BY <1>2, <2>1
  <2>3. q # <<>> /\ Head(q) \in S
    BY <1>1, <1>3 DEF WorkWord
  <2>4. Head(q) \in M
    BY <1>1, <1>5, <2>1, <2>3 DEF FramesWith, Holding, Todo
  <2>5. Occ(q, M) = IF Head(q) \in M THEN Occ(Tail(q), M) + 1 ELSE Occ(Tail(q), M)
    BY <1>3, <2>3, OccTail
  <2> QED BY <2>2, <2>4, <2>5
<1> QED BY <1>1, <1>3, <1>4, <1>5
-----------------------------------------------------------------------------
(* THE REFERENCES BEHIND A COUNT *)

LEMMA LongerAlphabet ==
  ASSUME NEW U, NEW V, U \subseteq V, NEW q \in Seq(U)
  PROVE  q \in Seq(V)
OBVIOUS

(* What work holds. *)
LEMMA HeldWork ==
  ASSUME NEW q, NEW s \in Slots, WorkWord(q, s), NEW r
  PROVE  /\ IsFrames(q, Slots)
         /\ Held(Refs, q, r) = Occ(q, FramesWith(Holding, r)) /\ Held(Refs, q, r) \in Nat
<1>1. q \in Seq(Todo(WorkOps, {s})) /\ Occ(q, FramesWith(Owing, r)) = 0
  BY WorkHolds DEF WorkWord
<1>2. PICK U, V : U = Todo(WorkOps, {s}) /\ V = Todo(WorkOps, Slots)
  OBVIOUS
<1>3. U \subseteq V
  BY <1>2 DEF Todo
<1>4. q \in Seq(V)
  <2>1. q \in Seq(U)
    BY <1>1, <1>2
  <2> QED BY <1>3, <2>1, LongerAlphabet
<1>5. Occ(q, FramesWith(Holding, r)) \in Nat
  BY <1>1, PositionsFinite
<1>6. PICK a, b : a = Occ(q, FramesWith(Holding, r)) /\ b = Occ(q, FramesWith(Owing, r))
  OBVIOUS
<1>7. Held(Refs, q, r) = a - b
  BY <1>6, Parts DEF Held, Refs
<1> QED BY <1>1, <1>2, <1>4, <1>5, <1>6, <1>7 DEF IsFrames

(* Lists with no operation that holds or owes a reference. *)
LEMMA HeldList ==
  ASSUME NEW s \in Slots, NEW A, A \cap (Holding \cup Owing) = {}, NEW ops \in Seq(A), NEW r
  PROVE  /\ IsFrames(Frames(ops, s), Slots) /\ Held(Refs, Frames(ops, s), r) = 0
         /\ Occ(Frames(ops, s), FramesWith(Holding, r)) = 0
         /\ Occ(Frames(ops, s), FramesWith(Owing, r)) = 0
<1>1. Occ(ops, Holding) = 0 /\ Occ(ops, Owing) = 0
  <2>1. \A i \in 1 .. Len(ops) : ops[i] \in A
    OBVIOUS
  <2> QED BY <2>1, PositionsFinite
<1>2. Net(Refs, ops) = 0
  BY <1>1 DEF Net, Refs
<1>3. /\ Occ(Frames(ops, s), FramesWith(Holding, r)) = 0
      /\ Occ(Frames(ops, s), FramesWith(Owing, r)) = 0
  BY <1>1, FramesCount
<1>4. IsList(ops)
  BY DEF IsList
<1>5. /\ IsFrames(Frames(ops, s), Slots)
      /\ Held(Refs, Frames(ops, s), r) = IF r = s THEN Net(Refs, ops) ELSE 0
  BY <1>4, HeldFrames
<1> QED BY <1>2, <1>3, <1>5

LEMMA EndListsSeq ==
  ASSUME NEW ops \in EndLists
  PROVE  ops \in Seq(EndOps) /\ ops # <<>> /\ EndOps \cap (Holding \cup Owing) = {}
<1>1. EndOps \cap (Holding \cup Owing) = {}
  BY DEF EndOps, TeardownOps, Holding, Owing
<1>2. {"disc_cas", "disc_count", "leave", "drain", "test_id", "reclaim", "push_slot"} \subseteq EndOps
  BY DEF EndOps, TeardownOps
<1>3. CASE ops = <<"disc_cas">>
  BY <1>1, <1>2, <1>3
<1>4. CASE ops = <<"disc_count">>
  BY <1>1, <1>2, <1>4
<1>5. CASE ops = <<"leave", "drain", "test_id", "reclaim", "push_slot">>
  BY <1>1, <1>2, <1>5
<1>6. CASE ops = <<"drain", "test_id", "reclaim", "push_slot">>
  BY <1>1, <1>2, <1>6
<1>7. CASE ops = <<"test_id", "reclaim", "push_slot">>
  BY <1>1, <1>2, <1>7
<1>8. CASE ops = <<"reclaim", "push_slot">>
  BY <1>1, <1>2, <1>8
<1>9. CASE ops = <<"push_slot">>
  BY <1>1, <1>2, <1>9
<1> QED BY <1>3, <1>4, <1>5, <1>6, <1>7, <1>8, <1>9 DEF EndLists

NewOps == {"insert", "insert_flags", "insert_ref", "join", "callback", "pop_slot"}

LEMMA NewListsSeq ==
  ASSUME NEW ops \in NewLists \cup {<<"pop_slot">>}
  PROVE  ops \in Seq(NewOps) /\ ops # <<>>
<1>1. CASE ops = <<"insert", "insert_flags", "insert_ref", "join", "callback">>
  BY <1>1 DEF NewOps
<1>2. CASE ops = <<"insert_flags", "insert_ref", "join", "callback">>
  BY <1>2 DEF NewOps
<1>3. CASE ops = <<"insert_ref", "join", "callback">>
  BY <1>3 DEF NewOps
<1>4. CASE ops = <<"join", "callback">>
  BY <1>4 DEF NewOps
<1>5. CASE ops = <<"pop_slot">>
  BY <1>5 DEF NewOps
<1> QED BY <1>1, <1>2, <1>3, <1>4, <1>5 DEF NewLists

LEMMA NewListsHeld ==
  ASSUME NEW s \in Slots, NEW ops \in NewLists, NEW r
  PROVE  /\ IsFrames(Frames(ops, s), Slots)
         /\ Held(Refs, Frames(ops, s), r) =
              IF r = s /\ ops = <<"join", "callback">> THEN 1 ELSE 0
<1>1. /\ Weight(Refs, "insert") = 0 /\ Weight(Refs, "insert_flags") = 0
      /\ Weight(Refs, "insert_ref") = -1 /\ Weight(Refs, "join") = 0
      /\ Weight(Refs, "callback") = 1
  BY DEF Weight, Refs, Holding, Owing
<1>2. IsList(ops) /\ Net(Refs, ops) = IF ops = <<"join", "callback">> THEN 1 ELSE 0
  <2>1. CASE ops = <<"join", "callback">>
    BY <1>1, <2>1, Net2
  <2>2. CASE ops = <<"insert_ref", "join", "callback">>
    BY <1>1, <2>2, Net3
  <2>3. CASE ops = <<"insert_flags", "insert_ref", "join", "callback">>
    BY <1>1, <2>3, Net4
  <2>4. CASE ops = <<"insert", "insert_flags", "insert_ref", "join", "callback">>
    BY <1>1, <2>4, Net5
  <2> QED BY <2>1, <2>2, <2>3, <2>4 DEF NewLists
<1> QED BY <1>2, HeldFrames

(* What a thread holds, when it has one of the shapes. *)
LEMMA HeldShape ==
  ASSUME NEW t \in Threads, Shape(t), NEW r
  PROVE  /\ IsFrames(todo[t], Slots)
         /\ Held(Refs, todo[t], r) \in Nat
         /\ t # Acceptor => Occ(todo[t], FramesWith(Owing, r)) = 0
<1>1. CASE todo[t] = <<>>
  BY <1>1, HeldEmpty, OccEmpty
<1>2. ASSUME NEW s \in Slots, WorkWord(todo[t], s)
      PROVE  /\ IsFrames(todo[t], Slots) /\ Held(Refs, todo[t], r) \in Nat
             /\ Occ(todo[t], FramesWith(Owing, r)) = 0
  BY <1>2, HeldWork, WorkHolds
<1>3. ASSUME NEW s \in Slots, ListWord(todo[t], EndLists, s) \/ ListWord(todo[t], {<<"exited">>}, s)
      PROVE  /\ IsFrames(todo[t], Slots) /\ Held(Refs, todo[t], r) \in Nat
             /\ Occ(todo[t], FramesWith(Owing, r)) = 0
  <2>1. PICK ops, A : /\ ops \in Seq(A) /\ todo[t] = Frames(ops, s)
                      /\ A \cap (Holding \cup Owing) = {}
    <3>1. CASE ListWord(todo[t], EndLists, s)
      BY <3>1, EndListsSeq DEF ListWord
    <3>2. CASE todo[t] = Frames(<<"exited">>, s)
      <4>1. <<"exited">> \in Seq({"exited"}) /\ {"exited"} \cap (Holding \cup Owing) = {}
        BY DEF Holding, Owing
      <4> QED BY <3>2, <4>1
    <3> QED BY <1>3, <3>1, <3>2 DEF ListWord
  <2> QED BY <2>1, HeldList
<1>4. ASSUME NEW s \in Slots, ListWord(todo[t], NewLists \cup {<<"pop_slot">>}, s)
      PROVE  IsFrames(todo[t], Slots) /\ Held(Refs, todo[t], r) \in Nat
  <2>1. PICK ops \in NewLists \cup {<<"pop_slot">>} : todo[t] = Frames(ops, s)
    BY <1>4 DEF ListWord
  <2>2. CASE ops \in NewLists
    BY <2>1, <2>2, NewListsHeld
  <2>3. CASE ops = <<"pop_slot">>
    <3>1. ops \in Seq({"pop_slot"}) /\ {"pop_slot"} \cap (Holding \cup Owing) = {}
      BY <2>3 DEF Holding, Owing
    <3>2. IsFrames(Frames(ops, s), Slots) /\ Held(Refs, Frames(ops, s), r) = 0
      BY <3>1, HeldList
    <3> QED BY <2>1, <3>2
  <2> QED BY <2>2, <2>3
<1> QED BY <1>1, <1>2, <1>3, <1>4 DEF Shape

(* The references of slot s: those of the accept thread, those of the other *)
(* threads, and those of the kernel.                                        *)
LEMMA RefSplit ==
  ASSUME ServerSound, RefCountExact, Shapes, NEW s \in Slots
  PROVE  \E rest \in Nat, ker \in Nat :
           /\ sess[s].iocpCount = Held(Refs, todo[Acceptor], s) + rest + ker
           /\ ker = InKernel(Referring, s)
           /\ \A t \in Threads \ {Acceptor} :
                Occ(todo[t], FramesWith(Holding, s)) \in Nat
                /\ Occ(todo[t], FramesWith(Holding, s)) <= rest
<1>1. PICK A : todo \in Queues(Threads, Todo(A, Slots))
  BY DEF ServerSound, Sound, Running
<1>2. PICK S, Q, a, R : /\ S = Todo(A, Slots) /\ Q = todo /\ a = Acceptor
                        /\ R = [Q EXCEPT ![a] = <<>>]
  OBVIOUS
<1>3. ChangesAt(Threads, S, Q, R, a) /\ R[a] = <<>>
  BY <1>1, <1>2, ThreadsFinite DEF ChangesAt, Queues
<1>4. PICK H, W : H = FramesWith(Holding, s) /\ W = FramesWith(Owing, s)
  OBVIOUS
<1>5. \A M : /\ Total(Q, M) \in Nat /\ Occ(R[a], M) = 0
             /\ Total(R, M) = Total(Q, M) - Occ(Q[a], M) + Occ(R[a], M)
  BY <1>3, OccEmpty, ThreadsFinite, TotalUpdate
<1>6. R \in Queues(Threads, S) /\ Q \in Queues(Threads, S) /\ a \in Threads
  BY <1>3 DEF ChangesAt
<1>7. \A M : Total(R, M) \in Nat /\ Occ(Q[a], M) \in Nat
  BY <1>6, ThreadsFinite, TotalAtLeast
<1>8. ASSUME NEW t \in Threads \ {a} PROVE Occ(Q[t], H) \in Nat /\ Occ(Q[t], H) <= Total(R, H)
  <2>1. R[t] = Q[t]
    BY <1>3 DEF ChangesAt
  <2> QED BY <1>6, <2>1, ThreadsFinite, TotalAtLeast
<1>9. Total(R, W) = 0
  <2>1. ASSUME NEW t \in Threads PROVE Occ(R[t], W) = 0
    <3>1. CASE t = a
      BY <1>5, <3>1
    <3>2. CASE t # a
      <4>1. R[t] = todo[t] /\ Shape(t)
        BY <1>2, <1>3, <3>2 DEF ChangesAt, Shapes
      <4> QED BY <1>2, <1>4, <3>2, <4>1, HeldShape
    <3> QED BY <3>1, <3>2
  <2> QED BY <1>6, <2>1, ThreadsFinite, TotalNone
<1>10. PICK h, w, oh, ow, rest, f, p :
         /\ h = Total(Q, H) /\ w = Total(Q, W) /\ oh = Occ(Q[a], H) /\ ow = Occ(Q[a], W)
         /\ rest = Total(R, H)
         /\ f = InFlight(pending, Referring, s) /\ p = InPort(port, Referring, s)
  OBVIOUS
<1>11. f \in Nat /\ p \in Nat
  <2>1. PICK P, Z : P = pending /\ Z = port
    OBVIOUS
  <2>2. Running(Threads, Slots, Kinds, Q, P, Z)
    BY <1>2, <2>1 DEF ServerSound, Sound
  <2> QED BY <1>10, <2>1, <2>2, ThreadsFinite, CountsNat
<1>12. /\ h \in Nat /\ w \in Nat /\ oh \in Nat /\ ow \in Nat /\ rest \in Nat
       /\ rest = h - oh /\ 0 = w - ow
  <2>1. Total(R, H) = Total(Q, H) - Occ(Q[a], H) + 0 /\ Total(R, W) = Total(Q, W) - Occ(Q[a], W) + 0
    BY <1>5
  <2> QED BY <1>5, <1>7, <1>9, <1>10, <2>1
<1>13. sess[s].iocpCount = h - w + f + p
  BY <1>2, <1>4, <1>10 DEF RefCountExact, References, InThreads
<1>14. Held(Refs, Q[a], s) = oh - ow
  BY <1>4, <1>10, Parts DEF Held, Refs
<1>15. sess[s].iocpCount = (oh - ow) + rest + (f + p) /\ f + p = InKernel(Referring, s)
  BY <1>10, <1>11, <1>12, <1>13 DEF InKernel
<1>16. PICK ker : ker = f + p
  OBVIOUS
<1>17. rest \in Nat /\ ker \in Nat /\ ker = InKernel(Referring, s)
  BY <1>11, <1>12, <1>15, <1>16
<1>18. sess[s].iocpCount = Held(Refs, todo[Acceptor], s) + rest + ker
  BY <1>2, <1>14, <1>15, <1>16
<1>19. \A t \in Threads \ {Acceptor} :
         Occ(todo[t], FramesWith(Holding, s)) \in Nat
         /\ Occ(todo[t], FramesWith(Holding, s)) <= rest
  BY <1>2, <1>4, <1>8, <1>10
<1> QED BY <1>17, <1>18, <1>19

Reaches(t, ops, s) == todo[t] # <<>> /\ Head(todo[t]).op \in ops /\ Slot(t) = s

EnterOps == {"insert", "insert_flags", "insert_ref"}

LEMMA ListFirst ==
  ASSUME NEW q, NEW s, NEW A, NEW L, \A ops \in L : ops \in Seq(A) /\ ops # <<>>, ListWord(q, L, s)
  PROVE  /\ q # <<>> /\ Head(q).s = s /\ Head(q).op \in A
         /\ \E ops \in L : q = Frames(ops, s) /\ Head(q).op = Head(ops) /\ Tail(q) = Frames(Tail(ops), s)
<1>1. PICK ops \in L : q = Frames(ops, s)
  BY DEF ListWord
<1>2. q # <<>> /\ Head(q) = Frame(Head(ops), s) /\ Tail(q) = Frames(Tail(ops), s)
  BY <1>1, FramesFirst
<1>3. Head(ops) \in A
  OBVIOUS
<1>4. Head(q).s = s /\ Head(q).op = Head(ops)
  BY <1>2 DEF Frame
<1> QED BY <1>1, <1>2, <1>3, <1>4

LEMMA OpsApart ==
  /\ WorkOps \cap EndOps = {} /\ WorkOps \cap (NewOps \ {"callback"}) = {}
  /\ EndOps \cap NewOps = {} /\ "exited" \notin WorkOps \cup EndOps \cup NewOps
BY DEF WorkOps, UseOps, EndOps, TeardownOps, NewOps

(* The shapes, by the operation a thread is at. *)
KnownAt(t) ==
  LET op == Head(todo[t]).op IN
  /\ Slot(t) \in Slots
  /\ op \in WorkOps => WorkWord(todo[t], Slot(t))
  /\ op \in EndOps => ListWord(todo[t], EndLists, Slot(t))
  /\ op \in NewOps \ {"callback"} =>
       t = Acceptor /\ ListWord(todo[t], NewLists \cup {<<"pop_slot">>}, Slot(t))
  /\ op \in WorkOps \cup EndOps \cup NewOps \cup {"exited"}

LEMMA ShapeAt ==
  ASSUME NEW t \in Threads, Shape(t), todo[t] # <<>>
  PROVE  KnownAt(t)
<1>1. ASSUME NEW s \in Slots, WorkWord(todo[t], s) PROVE KnownAt(t)
  <2>1. Head(todo[t]).s = s /\ Head(todo[t]).op \in WorkOps
    BY <1>1, WorkFirst
  <2> QED BY <1>1, <2>1, OpsApart DEF Slot, KnownAt
<1>2. ASSUME NEW s \in Slots, ListWord(todo[t], EndLists, s) PROVE KnownAt(t)
  <2>1. Head(todo[t]).s = s /\ Head(todo[t]).op \in EndOps
    BY <1>2, EndListsSeq, ListFirst
  <2> QED BY <1>2, <2>1, OpsApart DEF Slot, KnownAt
<1>3. ASSUME NEW s \in Slots, ListWord(todo[t], {<<"exited">>}, s) PROVE KnownAt(t)
  <2>1. PICK ops : ops = <<"exited">>
    OBVIOUS
  <2>2. ops \in Seq({"exited"}) /\ ops # <<>> /\ Head(ops) = "exited"
    BY <2>1
  <2>3. todo[t] = Frames(ops, s)
    BY <1>3, <2>1 DEF ListWord
  <2>4. Head(todo[t]) = Frame(Head(ops), s)
    BY <2>2, <2>3, FramesFirst
  <2>5. Head(todo[t]).s = s /\ Head(todo[t]).op = "exited"
    BY <2>2, <2>4 DEF Frame
  <2> QED BY <1>3, <2>5, OpsApart DEF Slot, KnownAt
<1>4. ASSUME NEW s \in Slots, t = Acceptor, ListWord(todo[t], NewLists \cup {<<"pop_slot">>}, s) PROVE KnownAt(t)
  <2>1. PICK ops \in NewLists \cup {<<"pop_slot">>} :
          Head(todo[t]).s = s /\ Head(todo[t]).op \in NewOps /\ Head(todo[t]).op = Head(ops)
    BY <1>4, NewListsSeq, ListFirst
  <2>2. Head(ops) # "callback"
    BY DEF NewLists
  <2> QED BY <1>4, <2>1, <2>2, OpsApart DEF Slot, KnownAt
<1> QED BY <1>1, <1>2, <1>3, <1>4 DEF Shape

(* How a thread goes on in a list. *)
EndTail(q, s) ==
  /\ Head(q).op = "leave" => Tail(q) = Frames(<<"drain", "test_id", "reclaim", "push_slot">>, s)
  /\ Head(q).op = "drain" => Tail(q) = Frames(<<"test_id", "reclaim", "push_slot">>, s)
  /\ Head(q).op = "test_id" => Tail(q) = Frames(<<"reclaim", "push_slot">>, s)
  /\ Head(q).op = "reclaim" => Tail(q) = Frames(<<"push_slot">>, s)
  /\ Head(q).op \in {"disc_cas", "disc_count", "push_slot"} => Tail(q) = <<>>

LEMMA EndAt ==
  ASSUME NEW t \in Threads, Shape(t), todo[t] # <<>>
  PROVE  EndTail(todo[t], Slot(t))
<1>1. PICK q, s : q = todo[t] /\ s = Slot(t)
  OBVIOUS
<1>2. CASE Head(q).op \notin EndOps
  BY <1>1, <1>2 DEF EndTail, EndOps, TeardownOps
<1>3. CASE Head(q).op \in EndOps
  <2>1. ListWord(q, EndLists, s)
    BY <1>1, <1>3, ShapeAt DEF KnownAt
  <2>2. PICK ops \in EndLists : q = Frames(ops, s) /\ Head(q).op = Head(ops) /\ Tail(q) = Frames(Tail(ops), s)
    BY <2>1, EndListsSeq, ListFirst
  <2>3. Frames(<<>>, s) = <<>>
    BY FramesNone
  <2>12. EndTail(q, s)
    <3>5. CASE ops = <<"disc_cas">>
      BY <2>2, <2>3, <3>5 DEF EndTail
    <3>6. CASE ops = <<"disc_count">>
      BY <2>2, <2>3, <3>6 DEF EndTail
    <3>7. CASE ops = <<"leave", "drain", "test_id", "reclaim", "push_slot">>
      BY <2>2, <3>7 DEF EndTail
    <3>8. CASE ops = <<"drain", "test_id", "reclaim", "push_slot">>
      BY <2>2, <3>8 DEF EndTail
    <3>9. CASE ops = <<"test_id", "reclaim", "push_slot">>
      BY <2>2, <3>9 DEF EndTail
    <3>10. CASE ops = <<"reclaim", "push_slot">>
      BY <2>2, <3>10 DEF EndTail
    <3>11. CASE ops = <<"push_slot">>
      BY <2>2, <2>3, <3>11 DEF EndTail
    <3> QED BY <2>2, <3>5, <3>6, <3>7, <3>8, <3>9, <3>10, <3>11 DEF EndLists
  <2> QED BY <1>1, <2>12
<1> QED BY <1>2, <1>3

NewTail(q, s) ==
  /\ Head(q).op = "pop_slot" => Tail(q) = <<>>
  /\ Head(q).op = "insert" => Tail(q) = Frames(<<"insert_flags", "insert_ref", "join", "callback">>, s)
  /\ Head(q).op = "insert_flags" => Tail(q) = Frames(<<"insert_ref", "join", "callback">>, s)
  /\ Head(q).op = "insert_ref" => Tail(q) = Frames(<<"join", "callback">>, s)
  /\ Head(q).op = "join" => Tail(q) = Frames(<<"callback">>, s) /\ q = Frames(<<"join", "callback">>, s)

LEMMA NewAt ==
  ASSUME NEW t \in Threads, Shape(t), todo[t] # <<>>
  PROVE  /\ NewTail(todo[t], Slot(t))
         /\ Head(todo[t]).op \in NewOps \ {"callback"} => t = Acceptor
<1>1. PICK q, s : q = todo[t] /\ s = Slot(t)
  OBVIOUS
<1>2. CASE Head(q).op \notin NewOps \ {"callback"}
  BY <1>1, <1>2 DEF NewTail, NewOps
<1>3. CASE Head(q).op \in NewOps \ {"callback"}
  <2>1. t = Acceptor /\ ListWord(q, NewLists \cup {<<"pop_slot">>}, s)
    BY <1>1, <1>3, ShapeAt DEF KnownAt
  <2>2. PICK ops \in NewLists \cup {<<"pop_slot">>} :
          q = Frames(ops, s) /\ Head(q).op = Head(ops) /\ Tail(q) = Frames(Tail(ops), s)
    BY <2>1, NewListsSeq, ListFirst
  <2>3. Frames(<<>>, s) = <<>>
    BY FramesNone
  <2>10. NewTail(q, s)
    <3>5. CASE ops = <<"insert", "insert_flags", "insert_ref", "join", "callback">>
      BY <2>2, <3>5 DEF NewTail
    <3>6. CASE ops = <<"insert_flags", "insert_ref", "join", "callback">>
      BY <2>2, <3>6 DEF NewTail
    <3>7. CASE ops = <<"insert_ref", "join", "callback">>
      BY <2>2, <3>7 DEF NewTail
    <3>8. CASE ops = <<"join", "callback">>
      BY <2>2, <3>8 DEF NewTail
    <3>9. CASE ops = <<"pop_slot">>
      BY <2>2, <2>3, <3>9 DEF NewTail
    <3> QED BY <2>2, <3>5, <3>6, <3>7, <3>8, <3>9 DEF NewLists
  <2> QED BY <1>1, <2>1, <2>10
<1> QED BY <1>2, <1>3

(* The count of a session somebody works on, and of one nobody does. *)
LEMMA JoinHolds ==
  ASSUME Shapes, NEW s \in Slots, Reaches(Acceptor, {"join"}, s)
  PROVE  Held(Refs, todo[Acceptor], s) = 1
<1>1. Shape(Acceptor) /\ Acceptor \in Threads
  BY ThreadsFinite DEF Shapes
<1>2. todo[Acceptor] = Frames(<<"join", "callback">>, s)
  BY <1>1, NewAt DEF Reaches, NewTail
<1>3. <<"join", "callback">> \in NewLists
  BY DEF NewLists
<1>4. PICK ops : ops = <<"join", "callback">>
  OBVIOUS
<1>5. Held(Refs, Frames(ops, s), s) = IF s = s /\ ops = <<"join", "callback">> THEN 1 ELSE 0
  BY <1>3, <1>4, NewListsHeld
<1> QED BY <1>2, <1>4, <1>5

LEMMA WorkCounts ==
  ASSUME ServerSound, RefCountExact, Shapes, NEW s \in Slots, NEW t \in Threads, WorkWord(todo[t], s)
  PROVE  /\ sess[s].iocpCount \in Nat /\ sess[s].iocpCount >= 1
         /\ Head(todo[t]).op = "release" /\ Tail(todo[t]) # <<>> => sess[s].iocpCount >= 2
         /\ Reaches(Acceptor, {"join"}, s) => sess[s].iocpCount >= 2
<1>1. PICK rest \in Nat, ker \in Nat :
           /\ sess[s].iocpCount = Held(Refs, todo[Acceptor], s) + rest + ker
           /\ \A u \in Threads \ {Acceptor} :
                Occ(todo[u], FramesWith(Holding, s)) \in Nat
                /\ Occ(todo[u], FramesWith(Holding, s)) <= rest
  BY RefSplit
<1>2. PICK own, o : own = Held(Refs, todo[Acceptor], s) /\ o = Occ(todo[t], FramesWith(Holding, s))
  OBVIOUS
<1>3. own \in Nat
  BY <1>2, ThreadsFinite, HeldShape DEF Shapes
<1>4. /\ o \in Nat /\ o >= 1 /\ (Head(todo[t]).op = "release" /\ Tail(todo[t]) # <<>> => o >= 2)
  BY <1>2, WorkHolds
<1>5. CASE t = Acceptor
  <2>1. own = o
    BY <1>2, <1>5, HeldWork
  <2>2. ~Reaches(Acceptor, {"join"}, s)
    <3>1. Head(todo[t]).op \in WorkOps
      BY WorkFirst
    <3>2. "join" \notin WorkOps
      BY DEF WorkOps, UseOps
    <3> QED BY <1>5, <3>1, <3>2 DEF Reaches
  <2>3. sess[s].iocpCount = o + rest + ker
    BY <1>1, <1>2, <2>1
  <2> QED BY <1>1, <1>4, <2>2, <2>3
<1>6. CASE t # Acceptor
  <2>1. o <= rest /\ sess[s].iocpCount = own + rest + ker
    BY <1>1, <1>2, <1>6
  <2>2. Reaches(Acceptor, {"join"}, s) => own = 1
    BY <1>2, JoinHolds
  <2> QED BY <1>1, <1>3, <1>4, <2>1, <2>2
<1> QED BY <1>5, <1>6

LEMMA KernelCounts ==
  ASSUME ServerSound, RefCountExact, Shapes, NEW s \in Slots
  PROVE  /\ InKernel(Referring, s) \in Nat
         /\ InKernel(Referring, s) >= 1 => /\ sess[s].iocpCount \in Nat /\ sess[s].iocpCount >= 1
                                           /\ Reaches(Acceptor, {"join"}, s) => sess[s].iocpCount >= 2
         /\ sess[s].iocpCount \in Nat
         /\ sess[s].iocpCount = 0 =>
              /\ InKernel(Referring, s) = 0 /\ ~Reaches(Acceptor, {"join"}, s)
              /\ \A t \in Threads : ~WorkWord(todo[t], s)
<1>1. PICK rest \in Nat, ker \in Nat :
           /\ sess[s].iocpCount = Held(Refs, todo[Acceptor], s) + rest + ker
           /\ ker = InKernel(Referring, s)
  BY RefSplit
<1>2. PICK own : own = Held(Refs, todo[Acceptor], s)
  OBVIOUS
<1>3. own \in Nat /\ sess[s].iocpCount = own + rest + ker
  BY <1>1, <1>2, ThreadsFinite, HeldShape DEF Shapes
<1>4. Reaches(Acceptor, {"join"}, s) => own = 1
  BY <1>2, JoinHolds
<1>5. \A t \in Threads : WorkWord(todo[t], s) => sess[s].iocpCount >= 1
  BY WorkCounts
<1> QED BY <1>1, <1>3, <1>4, <1>5
-----------------------------------------------------------------------------
(* THE LIFE OF A SESSION *)

LifeOps == EndOps \cup (NewOps \ {"callback"})
SlotOps == LifeOps \ {"pop_slot"}

Ends(t, s) == Reaches(t, EndOps, s)
Enters(s) == Reaches(Acceptor, EnterOps, s)
Joins(s) == Reaches(Acceptor, {"join"}, s)
Free(s) == s \in ToSet(indexStack)

(* A slot is free, or one thread ends its session, or the accept thread    *)
(* starts one, or there are references to it.                              *)
Alone(s) ==
  /\ \A t \in Threads, u \in Threads : Ends(t, s) /\ Ends(u, s) => t = u
  /\ \A t \in Threads : Ends(t, s) => ~Free(s) /\ ~Enters(s) /\ sess[s].iocpCount = 0
  /\ Enters(s) => ~Free(s) /\ sess[s].iocpCount = 0
  /\ Free(s) => sess[s].iocpCount = 0
  /\ Joins(s) => sess[s].iocpCount = 1

(* The slot has a session, which has not joined yet, or left, or that holds *)
(* no packets any more, or that is no more.                                 *)
Live(s) ==
  \/ sess[s].iocpCount # 0
  \/ \E t \in Threads : Reaches(t, EndOps \ {"push_slot"}, s)
  \/ Reaches(Acceptor, {"insert_flags", "insert_ref"}, s)
Joining(s) == Reaches(Acceptor, {"insert_flags", "insert_ref", "join"}, s)
Gone(s) == \E t \in Threads : Reaches(t, {"drain", "test_id", "reclaim"}, s)
Drained(s) ==
  \/ Free(s) \/ Enters(s) \/ Joins(s)
  \/ \E t \in Threads : Reaches(t, {"test_id", "reclaim", "push_slot"}, s)
Vacant(s) ==
  \/ Free(s) \/ Reaches(Acceptor, {"insert"}, s)
  \/ \E t \in Threads : Reaches(t, {"push_slot"}, s)

Named(s) ==
  /\ Live(s) => /\ sess[s].Index.slot = s /\ s # 0 /\ sess[s].Sock \in Conns
                /\ sess[s].Index.net < netId
                /\ ~Joining(s) => idOf[sess[s].Sock] = sess[s].Index
                /\ sess[s].Index \in LeftIds <=> Gone(s)
  /\ Joining(s) => /\ idOf[sess[s].Sock] = NoId /\ sock[sess[s].Sock] # "backlog"
                   /\ sess[s].Index.net = netId - 1
                   /\ \A c \in Conns : idOf[c] = NoId \/ idOf[c].net < netId - 1
  /\ Drained(s) => sess[s].sendQ = <<>> /\ sess[s].completeSendQ = <<>>
  /\ Vacant(s) => sess[s].Sock = NoSock /\ sess[s].Index = NoId
  /\ Reaches(Acceptor, {"insert"}, s) => s # 0

(* The connections, the ids and the counter. *)
Registered ==
  /\ IsInjective(indexStack)
  /\ \A s \in Slots : Reaches(Acceptor, {"pop_slot", "insert"}, s) =>
       clientSock \in Conns /\ idOf[clientSock] = NoId /\ sock[clientSock] # "backlog"
  /\ \A c \in Conns : /\ sock[c] = "backlog" => idOf[c] = NoId
                      /\ idOf[c] = NoId \/ idOf[c].net < netId
  /\ LeftIds \subseteq JoinedIds
  /\ IsFiniteSet(JoinedIds)
  /\ ClientCount

Life == (\A s \in Slots : Alone(s) /\ Named(s)) /\ Registered

(* A step of somebody who works on a session, or of the kernel. *)
AtLife(q) == q # <<>> /\ Head(q).op \in LifeOps

WorkStep ==
  /\ \A u \in Threads : todo'[u] = todo[u] \/ (~AtLife(todo[u]) /\ ~AtLife(todo'[u]))
  /\ \A r \in Slots :
       /\ sess'[r].Index = sess[r].Index /\ sess'[r].Sock = sess[r].Sock
       /\ sess'[r].iocpCount = 0 <=> sess[r].iocpCount = 0
       /\ sess'[r] = sess[r] \/ (sess[r].iocpCount # 0 /\ ~Joins(r))
  /\ \A c \in Conns : sock'[c] = "backlog" => sock[c] = "backlog"
  /\ UNCHANGED <<indexStack, netId, clientCounter, clientSock, idOf, left>>

LEMMA SameReach ==
  ASSUME NEW u, todo'[u] = todo[u] \/ (~AtLife(todo[u]) /\ ~AtLife(todo'[u]))
  PROVE  \A r : \A ops \in SUBSET LifeOps : (Reaches(u, ops, r)' <=> Reaches(u, ops, r))
BY DEF AtLife, Reaches, Slot

LEMMA SlotOpsAre ==
  /\ SlotOps \subseteq LifeOps /\ {"pop_slot", "insert"} \subseteq LifeOps
  /\ EndOps \subseteq SlotOps /\ EnterOps \subseteq SlotOps /\ {"join"} \subseteq SlotOps
  /\ EndOps \ {"push_slot"} \subseteq SlotOps
  /\ {"insert_flags", "insert_ref"} \subseteq SlotOps
  /\ {"insert_flags", "insert_ref", "join"} \subseteq SlotOps
  /\ {"drain", "test_id", "reclaim"} \subseteq SlotOps
  /\ {"test_id", "reclaim", "push_slot"} \subseteq SlotOps
  /\ {"insert"} \subseteq SlotOps /\ {"push_slot"} \subseteq SlotOps
BY DEF SlotOps, LifeOps, EndOps, TeardownOps, NewOps, EnterOps

(* A slot that the threads do the same with: nothing of its life changes. *)
SameStage(s) ==
  /\ \A t \in Threads : Ends(t, s)' <=> Ends(t, s)
  /\ Enters(s)' <=> Enters(s)
  /\ Joins(s)' <=> Joins(s)
  /\ Free(s)' <=> Free(s)
  /\ Joining(s)' <=> Joining(s)
  /\ Gone(s)' <=> Gone(s)
  /\ Drained(s)' <=> Drained(s)
  /\ Vacant(s)' <=> Vacant(s)
  /\ (\E t \in Threads : Reaches(t, EndOps \ {"push_slot"}, s))' <=> \E t \in Threads : Reaches(t, EndOps \ {"push_slot"}, s)
  /\ Reaches(Acceptor, {"insert_flags", "insert_ref"}, s)' <=> Reaches(Acceptor, {"insert_flags", "insert_ref"}, s)
  /\ Reaches(Acceptor, {"insert"}, s)' <=> Reaches(Acceptor, {"insert"}, s)

LEMMA StagesKept ==
  ASSUME NEW s \in Slots, Free(s)' <=> Free(s),
         \A u \in Threads, ops \in SUBSET SlotOps : (Reaches(u, ops, s)' <=> Reaches(u, ops, s))
  PROVE  SameStage(s)
<1>1. Acceptor \in Threads
  BY ThreadsFinite
<1> QED BY <1>1, SlotOpsAre DEF SameStage, Ends, Enters, Joins, Joining, Gone, Drained, Vacant

LEMMA WorkKeepsLife ==
  ASSUME Life, WorkStep
  PROVE  Life'
<1>1. \A u \in Threads, r \in Slots, ops \in SUBSET LifeOps : (Reaches(u, ops, r)' <=> Reaches(u, ops, r))
  BY SameReach DEF WorkStep
<1>2. ASSUME NEW s \in Slots PROVE Alone(s)' /\ Named(s)'
  <2>1. SameStage(s)
    <3>1. Free(s)' <=> Free(s)
      BY DEF Free, WorkStep
    <3> QED BY <1>1, <3>1, StagesKept, SlotOpsAre
  <2>2. Alone(s) /\ Named(s)
    BY DEF Life
  <2>3. /\ sess'[s].Index = sess[s].Index /\ sess'[s].Sock = sess[s].Sock
        /\ sess'[s].iocpCount = 0 <=> sess[s].iocpCount = 0
        /\ sess'[s] = sess[s] \/ (sess[s].iocpCount # 0 /\ ~Joins(s))
    BY DEF WorkStep
  <2>4. Alone(s)'
    BY <2>1, <2>2, <2>3 DEF Alone, SameStage
  <2>5. Live(s)' <=> Live(s)
    BY <2>1, <2>3 DEF Live, SameStage
  <2>6. LeftIds' = LeftIds
    BY DEF WorkStep, LeftIds
  <2>7. sess'[s] = sess[s] \/ ~Drained(s)
    <3>1. \A t \in Threads : Reaches(t, {"test_id", "reclaim", "push_slot"}, s) => Ends(t, s)
      BY DEF Reaches, Ends, EndOps, TeardownOps
    <3> QED BY <2>2, <2>3, <3>1 DEF Alone, Drained
  <2>8. Live(s) => sess[s].Sock \in Conns
    BY <2>2 DEF Named
  <2>9. Joining(s) => Live(s)
    BY <2>2 DEF Joining, Live, Alone, Reaches, Joins
  <2>10. Named(s)'
    BY <2>1, <2>2, <2>3, <2>5, <2>6, <2>7, <2>8, <2>9 DEF Named, SameStage, WorkStep
  <2> QED BY <2>4, <2>10
<1>3. Registered'
  <2>1. \A s \in Slots : Reaches(Acceptor, {"pop_slot", "insert"}, s)' <=> Reaches(Acceptor, {"pop_slot", "insert"}, s)
    BY <1>1, ThreadsFinite, SlotOpsAre
  <2>2. LeftIds' = LeftIds /\ JoinedIds' = JoinedIds /\ ClientCount' = ClientCount
    BY DEF WorkStep, LeftIds, JoinedIds, ClientCount
  <2> QED BY <2>1, <2>2 DEF Life, Registered, WorkStep
<1> QED BY <1>2, <1>3 DEF Life
-----------------------------------------------------------------------------
(* STEPS THAT WORK ON A SESSION *)

LifeInv == IInv /\ ServerTypeOK /\ CallsFromCallbacks /\ Shapes /\ Life

(* Everybody has a shape after the step, and the life of no session changed. *)
Works(t) ==
  /\ \A u \in Threads \ {t} : todo'[u] = todo[u]
  /\ Shape(t)' /\ ~AtLife(todo'[t]) /\ ~AtLife(todo[t])

LEMMA WorksShapes ==
  ASSUME Shapes, NEW t \in Threads, Works(t)
  PROVE  Shapes' /\ \A u \in Threads : todo'[u] = todo[u] \/ (~AtLife(todo[u]) /\ ~AtLife(todo'[u]))
BY DEF Works, Shapes, Shape

LEMMA WorkNotLife ==
  ASSUME NEW q, NEW s, q = <<>> \/ WorkWord(q, s)
  PROVE  ~AtLife(q)
<1>1. CASE q = <<>>
  BY <1>1 DEF AtLife
<1>2. CASE WorkWord(q, s)
  BY <1>2, WorkFirst, OpsApart DEF AtLife, LifeOps
<1> QED BY <1>1, <1>2

(* A thread that goes on with work. *)
LEMMA GoesOn ==
  ASSUME ServerSound, Shapes, NEW t \in Threads, NEW op, At(t, op), op \in WorkOps,
         NEW s \in Slots, s = Slot(t), NEW w,
         todo' = [todo EXCEPT ![t] = w], w = <<>> \/ WorkWord(w, s)
  PROVE  Works(t) /\ WorkWord(todo[t], s)
<1>1. DOMAIN todo = Threads
  BY DEF ServerSound, Sound, Running, Queues
<1>2. todo[t] # <<>> /\ Head(todo[t]).op \in WorkOps
  BY DEF At
<1>3. WorkWord(todo[t], s)
  BY <1>2, ShapeAt DEF KnownAt, Shapes
<1>4. todo'[t] = w /\ \A u \in Threads \ {t} : todo'[u] = todo[u]
  BY <1>1
<1>5. Shape(t)'
  BY <1>4 DEF Shape
<1> QED BY <1>3, <1>4, <1>5, WorkNotLife DEF Works

LEMMA ThenWorks ==
  ASSUME ServerSound, Shapes, NEW t \in Threads, NEW op, At(t, op), op \in WorkOps,
         NEW ops \in Seq(WorkOps), Then(t, ops),
         op \in {"release", "callback"} => ops = <<>> \/ ops = <<"recv_post", "release">>
  PROVE  Works(t) /\ WorkWord(todo[t], Slot(t)) /\ Slot(t) \in Slots
<1>1. PICK s : s = Slot(t)
  OBVIOUS
<1>2. s \in Slots /\ todo[t] # <<>> /\ Head(todo[t]).op = op
  BY <1>1, AtOp DEF ServerSound
<1>3. WorkWord(todo[t], s)
  BY <1>1, <1>2, ShapeAt DEF KnownAt, Shapes
<1>4. PICK z, w : z = Tail(todo[t]) /\ w = Frames(ops, s) \o z
  OBVIOUS
<1>5. todo' = [todo EXCEPT ![t] = w]
  <2>1. todo' = [todo EXCEPT ![t] = Frames(ops, Slot(t)) \o Tail(todo[t])]
    BY DEF Then
  <2> QED BY <1>1, <1>4, <2>1
<1>6. z = <<>> \/ WorkWord(z, s)
  BY <1>3, <1>4, WorkFirst
<1>7. w = <<>> \/ WorkWord(w, s)
  <2>1. CASE WorkWord(z, s)
    BY <1>4, <2>1, WorkOn
  <2>2. CASE ~WorkWord(z, s)
    <3>1. z = <<>> /\ op \in {"release", "callback"}
      BY <1>2, <1>3, <1>4, <1>6, <2>2, WorkFirst
    <3>2. CASE ops = <<>>
      <4>1. Frames(ops, s) = <<>>
        BY <3>2, FramesNone
      <4> QED BY <1>4, <3>1, <4>1
    <3>3. CASE ops = <<"recv_post", "release">>
      <4>1. ops # <<>> /\ ops[Len(ops)] \in {"release", "callback"}
        BY <3>3
      <4> QED BY <1>4, <3>1, <4>1, WorkBegins
    <3> QED BY <3>1, <3>2, <3>3
  <2> QED BY <2>1, <2>2
<1> QED BY <1>1, <1>2, <1>3, <1>5, <1>7, GoesOn

(* What work may do to the sessions. *)
SessWork(s) ==
  \A r \in Slots :
    IF r # s THEN sess'[r] = sess[r]
    ELSE /\ sess'[r].Index = sess[r].Index /\ sess'[r].Sock = sess[r].Sock
         /\ \/ sess'[r].iocpCount = sess[r].iocpCount
            \/ sess'[r].iocpCount = sess[r].iocpCount + 1
            \/ sess'[r].iocpCount = sess[r].iocpCount - 1 /\ sess[r].iocpCount >= 2

LEMMA WorkingKeeps ==
  ASSUME LifeInv, NEW t \in Threads, NEW s \in Slots, Works(t), WorkWord(todo[t], s), SessWork(s),
         \A c \in Conns : sock'[c] = "backlog" => sock[c] = "backlog",
         UNCHANGED <<indexStack, netId, clientCounter, clientSock, idOf, left>>
  PROVE  Shapes' /\ Life'
<1>1. ServerSound /\ RefCountExact /\ Shapes /\ Life
  BY DEF LifeInv, IInv
<1>2. sess[s].iocpCount \in Nat /\ sess[s].iocpCount >= 1 /\ (Joins(s) => sess[s].iocpCount >= 2)
  BY <1>1, WorkCounts DEF Joins
<1>3. ~Joins(s)
  BY <1>1, <1>2 DEF Life, Alone
<1>4. ASSUME NEW r \in Slots
      PROVE  /\ sess'[r].Index = sess[r].Index /\ sess'[r].Sock = sess[r].Sock
             /\ sess'[r].iocpCount = 0 <=> sess[r].iocpCount = 0
             /\ sess'[r] = sess[r] \/ (sess[r].iocpCount # 0 /\ ~Joins(r))
  <2>1. CASE r # s
    BY <2>1 DEF SessWork
  <2>2. CASE r = s
    <3>1. /\ sess'[r].Index = sess[r].Index /\ sess'[r].Sock = sess[r].Sock
          /\ \/ sess'[r].iocpCount = sess[r].iocpCount
             \/ sess'[r].iocpCount = sess[r].iocpCount + 1
             \/ sess'[r].iocpCount = sess[r].iocpCount - 1 /\ sess[r].iocpCount >= 2
      BY <2>2 DEF SessWork
    <3> QED BY <1>2, <1>3, <2>2, <3>1
  <2> QED BY <2>1, <2>2
<1>5. Shapes' /\ \A u \in Threads : todo'[u] = todo[u] \/ (~AtLife(todo[u]) /\ ~AtLife(todo'[u]))
  BY <1>1, WorksShapes
<1>6. WorkStep
  BY <1>4, <1>5 DEF WorkStep
<1> QED BY <1>1, <1>5, <1>6, WorkKeepsLife

LEMMA SessKept ==
  ASSUME SessionsOK, NEW s \in Slots,
         \/ sess' = sess
         \/ \E x : /\ sess' = [sess EXCEPT ![s] = x]
                   /\ x.Index = sess[s].Index /\ x.Sock = sess[s].Sock
                   /\ \/ x.iocpCount = sess[s].iocpCount
                      \/ x.iocpCount = sess[s].iocpCount + 1
                      \/ x.iocpCount = sess[s].iocpCount - 1 /\ sess[s].iocpCount >= 2
  PROVE  SessWork(s)
BY DEF SessionsOK, SessWork

(* Fields of a session that work changes. *)
LEMMA KeptFields ==
  ASSUME NEW ss, SessionOK(ss)
  PROVE  \A x \in {[ss EXCEPT !.disconnectFlag = 1], [ss EXCEPT !.sendFlag = 0], [ss EXCEPT !.sendFlag = @ - 1],
                   [ss EXCEPT !.sendCount = 0, !.sendFlag = 0], [ss EXCEPT !.sendCount = 0],
                   [ss EXCEPT !.sendDisconnectFlag = 1], [ss EXCEPT !.sendPQCS = @ - 1]} :
           x.Index = ss.Index /\ x.Sock = ss.Sock /\ x.iocpCount = ss.iocpCount
BY DEF SessionOK, Fields

LEMMA Lists ==
  /\ <<>> \in Seq(WorkOps)
  /\ \A op \in WorkOps : <<op>> \in Seq(WorkOps)
  /\ <<"flag", "shutdown", "release">> \in Seq(WorkOps)
  /\ <<"push", "mark", "cut_now", "wake_test", "release">> \in Seq(WorkOps)
  /\ <<"push", "wake_test", "release">> \in Seq(WorkOps)
  /\ <<"send_failed", "flag", "shutdown", "release">> \in Seq(WorkOps)
  /\ <<"recv_post", "release">> \in Seq(WorkOps)
BY DEF WorkOps, UseOps

(* A step of work: how the thread goes on, and what else it may change. *)
Working(t) ==
  /\ \E op \in WorkOps, ops \in Seq(WorkOps) :
       /\ At(t, op) /\ Then(t, ops)
       /\ op \in {"release", "callback"} => ops = <<>> \/ ops = <<"recv_post", "release">>
  /\ SessWork(Slot(t))
  /\ \A c \in Conns : sock'[c] = "backlog" => sock[c] = "backlog"

LEMMA WorkingLife ==
  ASSUME LifeInv, NEW t \in Threads, Working(t),
         UNCHANGED <<indexStack, netId, clientCounter, clientSock, idOf, left>>
  PROVE  Shapes' /\ Life'
<1>1. ServerSound /\ Shapes
  BY DEF LifeInv, IInv
<1>2. Works(t) /\ WorkWord(todo[t], Slot(t)) /\ Slot(t) \in Slots
  BY <1>1, ThenWorks DEF Working
<1>3. SessWork(Slot(t)) /\ \A c \in Conns : sock'[c] = "backlog" => sock[c] = "backlog"
  BY DEF Working
<1>4. PICK s : s = Slot(t)
  OBVIOUS
<1> QED BY <1>2, <1>3, <1>4, WorkingKeeps

LEMMA SlotOK ==
  ASSUME LifeInv, NEW t \in Threads, NEW op, At(t, op)
  PROVE  Slot(t) \in Slots /\ SessionOK(sess[Slot(t)]) /\ SessionsOK /\ sess[Slot(t)].iocpCount \in Int
<1>1. ServerSound /\ SessionsOK
  BY DEF LifeInv, IInv, ServerTypeOK
<1>2. Slot(t) \in Slots
  BY <1>1, AtOp DEF ServerSound
<1> QED BY <1>1, <1>2 DEF SessionsOK, SessionOK

LEMMA FieldWork ==
  ASSUME LifeInv, NEW t \in Threads,
         \/ Flag(t) \/ PostUnset(t) \/ SendFailed(t) \/ FlagDec(t) \/ CountReset(t) \/ Mark(t)
         \/ PqcsDec(t) \/ PostTest(t) \/ CutTest(t) \/ CutFlag(t) \/ WakeTest(t) \/ WakeLook(t) \/ PqcsTest(t)
         \/ PqcsQueue(t) \/ CallbackEnds(t)
  PROVE  Working(t)
<1>1. CASE Flag(t)
  <2>1. At(t, "flag") /\ Then(t, <<>>) /\ UNCHANGED sock
    BY <1>1 DEF Flag, Update, OnlySession, kernel
  <2>2. \E x : /\ sess' = [sess EXCEPT ![Slot(t)] = x] /\ x.Index = sess[Slot(t)].Index
              /\ x.Sock = sess[Slot(t)].Sock /\ x.iocpCount = sess[Slot(t)].iocpCount
    BY <1>1, <2>1, SlotOK, KeptFields DEF Flag, Update
  <2>3. SessWork(Slot(t))
    BY <2>1, <2>2, SlotOK, SessKept
  <2>4. "flag" \in WorkOps \ {"release", "callback"}
    BY DEF WorkOps, UseOps
  <2> QED BY <2>1, <2>3, <2>4, Lists DEF Working
<1>2. CASE PostUnset(t)
  <2>1. At(t, "post_unset") /\ Then(t, <<>>) /\ UNCHANGED sock
    BY <1>2 DEF PostUnset, Update, OnlySession, kernel
  <2>2. \E x : /\ sess' = [sess EXCEPT ![Slot(t)] = x] /\ x.Index = sess[Slot(t)].Index
              /\ x.Sock = sess[Slot(t)].Sock /\ x.iocpCount = sess[Slot(t)].iocpCount
    BY <1>2, <2>1, SlotOK, KeptFields DEF PostUnset, Update
  <2>3. SessWork(Slot(t))
    BY <2>1, <2>2, SlotOK, SessKept
  <2>4. "post_unset" \in WorkOps \ {"release", "callback"}
    BY DEF WorkOps, UseOps
  <2> QED BY <2>1, <2>3, <2>4, Lists DEF Working
<1>3. CASE SendFailed(t)
  <2>1. At(t, "send_failed") /\ Then(t, <<>>) /\ UNCHANGED sock
    BY <1>3 DEF SendFailed, Update, OnlySession, kernel
  <2>2. \E x : /\ sess' = [sess EXCEPT ![Slot(t)] = x] /\ x.Index = sess[Slot(t)].Index
              /\ x.Sock = sess[Slot(t)].Sock /\ x.iocpCount = sess[Slot(t)].iocpCount
    BY <1>3, <2>1, SlotOK, KeptFields DEF SendFailed, Update
  <2>3. SessWork(Slot(t))
    BY <2>1, <2>2, SlotOK, SessKept
  <2>4. "send_failed" \in WorkOps \ {"release", "callback"}
    BY DEF WorkOps, UseOps
  <2> QED BY <2>1, <2>3, <2>4, Lists DEF Working
<1>4. CASE FlagDec(t)
  <2>1. At(t, "flag_dec") /\ Then(t, <<>>) /\ UNCHANGED sock
    BY <1>4 DEF FlagDec, Update, OnlySession, kernel
  <2>2. \E x : /\ sess' = [sess EXCEPT ![Slot(t)] = x] /\ x.Index = sess[Slot(t)].Index
              /\ x.Sock = sess[Slot(t)].Sock /\ x.iocpCount = sess[Slot(t)].iocpCount
    BY <1>4, <2>1, SlotOK, KeptFields DEF FlagDec, Update
  <2>3. SessWork(Slot(t))
    BY <2>1, <2>2, SlotOK, SessKept
  <2>4. "flag_dec" \in WorkOps \ {"release", "callback"}
    BY DEF WorkOps, UseOps
  <2> QED BY <2>1, <2>3, <2>4, Lists DEF Working
<1>5. CASE CountReset(t)
  <2>1. At(t, "count_reset") /\ Then(t, <<>>) /\ UNCHANGED sock
    BY <1>5 DEF CountReset, Update, OnlySession, kernel
  <2>2. \E x : /\ sess' = [sess EXCEPT ![Slot(t)] = x] /\ x.Index = sess[Slot(t)].Index
              /\ x.Sock = sess[Slot(t)].Sock /\ x.iocpCount = sess[Slot(t)].iocpCount
    BY <1>5, <2>1, SlotOK, KeptFields DEF CountReset, Update
  <2>3. SessWork(Slot(t))
    BY <2>1, <2>2, SlotOK, SessKept
  <2>4. "count_reset" \in WorkOps \ {"release", "callback"}
    BY DEF WorkOps, UseOps
  <2> QED BY <2>1, <2>3, <2>4, Lists DEF Working
<1>6. CASE Mark(t)
  <2>1. At(t, "mark") /\ Then(t, <<>>) /\ UNCHANGED sock
    BY <1>6 DEF Mark, Update, OnlySession, kernel
  <2>2. \E x : /\ sess' = [sess EXCEPT ![Slot(t)] = x] /\ x.Index = sess[Slot(t)].Index
              /\ x.Sock = sess[Slot(t)].Sock /\ x.iocpCount = sess[Slot(t)].iocpCount
    BY <1>6, <2>1, SlotOK, KeptFields DEF Mark, Update
  <2>3. SessWork(Slot(t))
    BY <2>1, <2>2, SlotOK, SessKept
  <2>4. "mark" \in WorkOps \ {"release", "callback"}
    BY DEF WorkOps, UseOps
  <2> QED BY <2>1, <2>3, <2>4, Lists DEF Working
<1>7. CASE PqcsDec(t)
  <2>1. At(t, "pqcs_dec") /\ Then(t, <<>>) /\ UNCHANGED sock
    BY <1>7 DEF PqcsDec, Update, OnlySession, kernel
  <2>2. \E x : /\ sess' = [sess EXCEPT ![Slot(t)] = x] /\ x.Index = sess[Slot(t)].Index
              /\ x.Sock = sess[Slot(t)].Sock /\ x.iocpCount = sess[Slot(t)].iocpCount
    BY <1>7, <2>1, SlotOK, KeptFields DEF PqcsDec, Update
  <2>3. SessWork(Slot(t))
    BY <2>1, <2>2, SlotOK, SessKept
  <2>4. "pqcs_dec" \in WorkOps \ {"release", "callback"}
    BY DEF WorkOps, UseOps
  <2> QED BY <2>1, <2>3, <2>4, Lists DEF Working
<1>8. CASE PostTest(t)
  <2>1. At(t, "post_test") /\ (Then(t, <<>>) \/ Then(t, <<"post_cas">>)) /\ UNCHANGED <<sess, sock>>
    BY <1>8 DEF PostTest, Test, OnlyThread, OnlySession, kernel
  <2>2. SessWork(Slot(t))
    BY <2>1, SlotOK, SessKept
  <2>3. "post_test" \in WorkOps \ {"release", "callback"} /\ "post_cas" \in WorkOps
    BY DEF WorkOps, UseOps
  <2>4. PICK ops \in Seq(WorkOps) : Then(t, ops)
    BY <2>1, <2>3, Lists
  <2> QED BY <2>1, <2>2, <2>3, <2>4 DEF Working
<1>9. CASE CutTest(t)
  <2>1. At(t, "cut_test") /\ (Then(t, <<>>) \/ Then(t, <<"cut_flag">>)) /\ UNCHANGED <<sess, sock>>
    BY <1>9 DEF CutTest, Test, OnlyThread, OnlySession, kernel
  <2>2. SessWork(Slot(t))
    BY <2>1, SlotOK, SessKept
  <2>3. "cut_test" \in WorkOps \ {"release", "callback"} /\ "cut_flag" \in WorkOps
    BY DEF WorkOps, UseOps
  <2>4. PICK ops \in Seq(WorkOps) : Then(t, ops)
    BY <2>1, <2>3, Lists
  <2> QED BY <2>1, <2>2, <2>3, <2>4 DEF Working
<1>10. CASE CutFlag(t)
  <2>1. At(t, "cut_flag") /\ (Then(t, <<>>) \/ Then(t, <<"cut_cas">>)) /\ UNCHANGED <<sess, sock>>
    BY <1>10 DEF CutFlag, Test, OnlyThread, OnlySession, kernel
  <2>2. SessWork(Slot(t))
    BY <2>1, SlotOK, SessKept
  <2>3. "cut_flag" \in WorkOps \ {"release", "callback"} /\ "cut_cas" \in WorkOps
    BY DEF WorkOps, UseOps
  <2>4. PICK ops \in Seq(WorkOps) : Then(t, ops)
    BY <2>1, <2>3, Lists
  <2> QED BY <2>1, <2>2, <2>3, <2>4 DEF Working
<1>11. CASE WakeTest(t)
  <2>1. At(t, "wake_test") /\ (Then(t, <<>>) \/ Then(t, <<"wake_look">>)) /\ UNCHANGED <<sess, sock>>
    BY <1>11 DEF WakeTest, Test, OnlyThread, OnlySession, kernel
  <2>2. SessWork(Slot(t))
    BY <2>1, SlotOK, SessKept
  <2>3. "wake_test" \in WorkOps \ {"release", "callback"} /\ "wake_look" \in WorkOps
    BY DEF WorkOps, UseOps
  <2>4. PICK ops \in Seq(WorkOps) : Then(t, ops)
    BY <2>1, <2>3, Lists
  <2> QED BY <2>1, <2>2, <2>3, <2>4 DEF Working
<1>11a. CASE WakeLook(t)
  <2>1. At(t, "wake_look") /\ (Then(t, <<>>) \/ Then(t, <<"wake_cas">>)) /\ UNCHANGED <<sess, sock>>
    BY <1>11a DEF WakeLook, Test, OnlyThread, OnlySession, kernel
  <2>2. SessWork(Slot(t))
    BY <2>1, SlotOK, SessKept
  <2>3. "wake_look" \in WorkOps \ {"release", "callback"} /\ "wake_cas" \in WorkOps
    BY DEF WorkOps, UseOps
  <2>4. PICK ops \in Seq(WorkOps) : Then(t, ops)
    BY <2>1, <2>3, Lists
  <2> QED BY <2>1, <2>2, <2>3, <2>4 DEF Working
<1>12. CASE PqcsTest(t)
  <2>1. At(t, "pqcs_test") /\ (Then(t, <<>>) \/ Then(t, <<"pqcs_queue">>)) /\ UNCHANGED <<sess, sock>>
    BY <1>12 DEF PqcsTest, Test, OnlyThread, OnlySession, kernel
  <2>2. SessWork(Slot(t))
    BY <2>1, SlotOK, SessKept
  <2>3. "pqcs_test" \in WorkOps \ {"release", "callback"} /\ "pqcs_queue" \in WorkOps
    BY DEF WorkOps, UseOps
  <2>4. PICK ops \in Seq(WorkOps) : Then(t, ops)
    BY <2>1, <2>3, Lists
  <2> QED BY <2>1, <2>2, <2>3, <2>4 DEF Working
<1>13. CASE PqcsQueue(t)
  <2>1. At(t, "pqcs_queue") /\ (Then(t, <<>>) \/ Then(t, <<"post_test">>)) /\ UNCHANGED <<sess, sock>>
    BY <1>13 DEF PqcsQueue, Test, OnlyThread, OnlySession, kernel
  <2>2. SessWork(Slot(t))
    BY <2>1, SlotOK, SessKept
  <2>3. "pqcs_queue" \in WorkOps \ {"release", "callback"} /\ "post_test" \in WorkOps
    BY DEF WorkOps, UseOps
  <2>4. PICK ops \in Seq(WorkOps) : Then(t, ops)
    BY <2>1, <2>3, Lists
  <2> QED BY <2>1, <2>2, <2>3, <2>4 DEF Working
<1>14. CASE CallbackEnds(t)
  <2>1. At(t, "callback") /\ Then(t, <<"recv_post", "release">>) /\ UNCHANGED <<sess, sock>>
    BY <1>14 DEF CallbackEnds, AfterCallback, OnlyThread, OnlySession, kernel
  <2>2. SessWork(Slot(t))
    BY <2>1, SlotOK, SessKept
  <2>3. "callback" \in WorkOps
    BY DEF WorkOps, UseOps
  <2> QED BY <2>1, <2>2, <2>3, Lists DEF Working
<1> QED BY <1>1, <1>2, <1>3, <1>4, <1>5, <1>6, <1>7, <1>8, <1>9, <1>10, <1>11, <1>11a, <1>12, <1>13, <1>14

Alike(x, ss, n) == x.Index = ss.Index /\ x.Sock = ss.Sock /\ x.iocpCount = n

LEMMA KeptCounts ==
  ASSUME NEW ss, SessionOK(ss)
  PROVE  /\ Alike([ss EXCEPT !.iocpCount = @ - 1], ss, ss.iocpCount - 1)
         /\ Alike([ss EXCEPT !.iocpCount = @ + 1], ss, ss.iocpCount + 1)
         /\ Alike([ss EXCEPT !.sendPQCS = 1, !.iocpCount = @ + 1], ss, ss.iocpCount + 1)
         /\ Alike([ss EXCEPT !.disconnectFlag = 1], ss, ss.iocpCount)
         /\ Alike([ss EXCEPT !.sendFlag = 1, !.sendCount = 0], ss, ss.iocpCount)
         /\ \A b : Alike([ss EXCEPT !.sendQ = b], ss, ss.iocpCount)
         /\ \A b : Alike([ss EXCEPT !.recvQ = b], ss, ss.iocpCount)
         /\ \A b : Alike([ss EXCEPT !.completeSendQ = b], ss, ss.iocpCount)
         /\ \A b, c, d : Alike([ss EXCEPT !.sendQ = b, !.completeSendQ = c, !.sendCount = d], ss, ss.iocpCount)
BY DEF SessionOK, Fields, Alike

LEMMA ReleaseWork ==
  ASSUME LifeInv, NEW t \in Threads, Release(t), sess[Slot(t)].iocpCount # 1
  PROVE  Working(t)
<1>1. At(t, "release") /\ Then(t, <<>>) /\ UNCHANGED sock
  BY DEF Release, OnlySession, kernel
<1>2. "release" \in WorkOps
  BY DEF WorkOps
<1>3. PICK s : s = Slot(t)
  OBVIOUS
<1>4. ServerSound /\ RefCountExact /\ Shapes /\ s \in Slots /\ SessionsOK /\ SessionOK(sess[s])
  BY <1>1, <1>3, SlotOK DEF LifeInv, IInv
<1>5. WorkWord(todo[t], s)
  BY <1>1, <1>2, <1>3, <1>4, ShapeAt DEF KnownAt, Shapes, At
<1>6. sess[s].iocpCount \in Nat /\ sess[s].iocpCount >= 1
  BY <1>4, <1>5, WorkCounts
<1>7. sess' = [sess EXCEPT ![s] = [sess[s] EXCEPT !.iocpCount = @ - 1]]
  BY <1>3 DEF Release
<1>8. \E x : sess' = [sess EXCEPT ![s] = x] /\ Alike(x, sess[s], sess[s].iocpCount - 1)
  BY <1>4, <1>7, KeptCounts
<1>9. SessWork(s)
  <2>1. sess[s].iocpCount >= 2
    BY <1>3, <1>6
  <2> QED BY <1>4, <1>8, <2>1, SessKept DEF Alike
<1> QED BY <1>1, <1>2, <1>3, <1>9, Lists DEF Working

LEMMA NetworkWork ==
  ASSUME LifeInv, NEW t \in Threads,
         Shutdown(t) \/ RecvPost(t) \/ PostCAS(t) \/ PostFill(t) \/ WSASend(t) \/ FreeSent(t) \/ WakeCAS(t)
  PROVE  Working(t)
<1>0. NetworkOK
  BY DEF LifeInv, ServerTypeOK
<1>1. CASE Shutdown(t)
  <2>1. At(t, "shutdown") /\ Then(t, <<>>) /\ UNCHANGED sess
    BY <1>1 DEF Shutdown
  <2>2. SessWork(Slot(t))
    BY <2>1, SlotOK, SessKept DEF Alike
  <2>3. "shutdown" \in WorkOps \ {"release", "callback"}
    BY DEF WorkOps, UseOps
  <2>4. \A c \in Conns : sock'[c] = "backlog" => sock[c] = "backlog"
    BY <1>0, <1>1 DEF Shutdown, ShutSock, NetworkOK
  <2> QED BY <2>1, <2>2, <2>3, <2>4, Lists DEF Working
<1>2. CASE RecvPost(t)
  <2>1. /\ At(t, "recv_post") /\ UNCHANGED sock
        /\ Then(t, <<>>) \/ Then(t, <<"flag", "shutdown", "release">>)
    BY <1>2 DEF RecvPost
  <2>2. sess' = [sess EXCEPT ![Slot(t)] = [sess[Slot(t)] EXCEPT !.iocpCount = @ + 1]]
    BY <1>2 DEF RecvPost
  <2>3. \E x : sess' = [sess EXCEPT ![Slot(t)] = x] /\ Alike(x, sess[Slot(t)], sess[Slot(t)].iocpCount + 1)
    BY <2>1, <2>2, SlotOK, KeptCounts
  <2>4. SessWork(Slot(t))
    BY <2>1, <2>3, SlotOK, SessKept DEF Alike
  <2>5. "recv_post" \in WorkOps \ {"release", "callback"}
    BY DEF WorkOps, UseOps
  <2>6. PICK ops \in Seq(WorkOps) : Then(t, ops)
    BY <2>1, Lists
  <2> QED BY <2>1, <2>4, <2>5, <2>6 DEF Working
<1>3. CASE PostCAS(t)
  <2>1. At(t, "post_cas") /\ UNCHANGED sock /\ (Then(t, <<>>) \/ Then(t, <<"post_fill">>))
    BY <1>3 DEF PostCAS, OnlySession, kernel
  <2>2. sess' = sess \/ sess' = [sess EXCEPT ![Slot(t)] = [sess[Slot(t)] EXCEPT !.sendFlag = 1, !.sendCount = 0]]
    <3>1. Slot(t) \in Slots /\ DOMAIN sess = Slots
      BY <2>1, SlotOK DEF SessionsOK
    <3> QED BY <1>3, <3>1 DEF PostCAS
  <2>3. sess' = sess \/ \E x : sess' = [sess EXCEPT ![Slot(t)] = x] /\ Alike(x, sess[Slot(t)], sess[Slot(t)].iocpCount)
    BY <2>1, <2>2, SlotOK, KeptCounts
  <2>4. SessWork(Slot(t))
    BY <2>1, <2>3, SlotOK, SessKept DEF Alike
  <2>5. {"post_cas", "post_fill"} \subseteq WorkOps \ {"release", "callback"}
    BY DEF WorkOps, UseOps
  <2>6. PICK ops \in Seq(WorkOps) : Then(t, ops)
    BY <2>1, <2>5, Lists
  <2> QED BY <2>1, <2>4, <2>5, <2>6 DEF Working
<1>4. CASE PostFill(t)
  <2>1. At(t, "post_fill") /\ UNCHANGED sock /\ (Then(t, <<"post_unset">>) \/ Then(t, <<"wsa_send">>))
    BY <1>4 DEF PostFill, AfterFill, kernel
  <2>2. PICK g : g = Gather(sess[Slot(t)].sendQ)
    OBVIOUS
  <2>3. PICK b, c, d : sess' = [sess EXCEPT ![Slot(t)] = [sess[Slot(t)] EXCEPT !.sendQ = b, !.completeSendQ = c, !.sendCount = d]]
    <3>1. sess' = [sess EXCEPT ![Slot(t)].sendQ = g.rest, ![Slot(t)].completeSendQ = Kept(@, g.batch),
                              ![Slot(t)].sendCount = Len(g.batch)]
      BY <1>4, <2>2 DEF PostFill
    <3>2. Slot(t) \in Slots /\ DOMAIN sess = Slots /\ "completeSendQ" \in DOMAIN sess[Slot(t)]
      BY <2>1, SlotOK DEF SessionsOK, SessionOK, Fields
    <3>3. sess' = [sess EXCEPT ![Slot(t)] = [sess[Slot(t)] EXCEPT !.sendQ = g.rest,
                    !.completeSendQ = Kept(@, g.batch), !.sendCount = Len(g.batch)]]
      BY <3>1, <3>2
    <3> QED BY <3>3
  <2>4. \E x : sess' = [sess EXCEPT ![Slot(t)] = x] /\ Alike(x, sess[Slot(t)], sess[Slot(t)].iocpCount)
    BY <2>1, <2>3, SlotOK, KeptCounts
  <2>5. SessWork(Slot(t))
    BY <2>1, <2>4, SlotOK, SessKept DEF Alike
  <2>6. {"post_fill", "post_unset", "wsa_send"} \subseteq WorkOps \ {"release", "callback"}
    BY DEF WorkOps, UseOps
  <2>7. PICK ops \in Seq(WorkOps) : Then(t, ops)
    BY <2>1, <2>6, Lists
  <2> QED BY <2>1, <2>5, <2>6, <2>7 DEF Working
<1>5. CASE WSASend(t)
  <2>1. /\ At(t, "wsa_send") /\ UNCHANGED sock
        /\ Then(t, <<>>) \/ Then(t, <<"send_failed", "flag", "shutdown", "release">>)
    BY <1>5 DEF WSASend
  <2>2. sess' = [sess EXCEPT ![Slot(t)] = [sess[Slot(t)] EXCEPT !.iocpCount = @ + 1]]
    BY <1>5 DEF WSASend
  <2>3. \E x : sess' = [sess EXCEPT ![Slot(t)] = x] /\ Alike(x, sess[Slot(t)], sess[Slot(t)].iocpCount + 1)
    BY <2>1, <2>2, SlotOK, KeptCounts
  <2>4. SessWork(Slot(t))
    BY <2>1, <2>3, SlotOK, SessKept DEF Alike
  <2>5. "wsa_send" \in WorkOps \ {"release", "callback"}
    BY DEF WorkOps, UseOps
  <2>6. PICK ops \in Seq(WorkOps) : Then(t, ops)
    BY <2>1, Lists
  <2> QED BY <2>1, <2>4, <2>5, <2>6 DEF Working
<1>6. CASE FreeSent(t)
  <2>1. At(t, "free_sent") /\ Then(t, <<>>) /\ UNCHANGED sock
    BY <1>6 DEF FreeSent, OnlySession, kernel
  <2>2. PICK b : sess' = [sess EXCEPT ![Slot(t)] = [sess[Slot(t)] EXCEPT !.completeSendQ = b]]
    BY <1>6 DEF FreeSent
  <2>3. \E x : sess' = [sess EXCEPT ![Slot(t)] = x] /\ Alike(x, sess[Slot(t)], sess[Slot(t)].iocpCount)
    BY <2>1, <2>2, SlotOK, KeptCounts
  <2>4. SessWork(Slot(t))
    BY <2>1, <2>3, SlotOK, SessKept DEF Alike
  <2>5. "free_sent" \in WorkOps \ {"release", "callback"}
    BY DEF WorkOps, UseOps
  <2> QED BY <2>1, <2>4, <2>5, Lists DEF Working
<1>7. CASE WakeCAS(t)
  <2>1. At(t, "wake_cas") /\ Then(t, <<>>) /\ UNCHANGED sock
    BY <1>7 DEF WakeCAS
  <2>2. sess' = sess \/ sess' = [sess EXCEPT ![Slot(t)] = [sess[Slot(t)] EXCEPT !.sendPQCS = 1, !.iocpCount = @ + 1]]
    <3>1. Slot(t) \in Slots /\ DOMAIN sess = Slots /\ {"sendPQCS", "iocpCount"} \subseteq DOMAIN sess[Slot(t)]
      BY <2>1, SlotOK DEF SessionsOK, SessionOK, Fields
    <3> QED BY <1>7, <3>1 DEF WakeCAS
  <2>3. sess' = sess \/ \E x : sess' = [sess EXCEPT ![Slot(t)] = x] /\ Alike(x, sess[Slot(t)], sess[Slot(t)].iocpCount + 1)
    BY <2>1, <2>2, SlotOK, KeptCounts
  <2>4. SessWork(Slot(t))
    BY <2>1, <2>3, SlotOK, SessKept DEF Alike
  <2>5. "wake_cas" \in WorkOps \ {"release", "callback"}
    BY DEF WorkOps, UseOps
  <2> QED BY <2>1, <2>4, <2>5, Lists DEF Working
<1> QED BY <1>1, <1>2, <1>3, <1>4, <1>5, <1>6, <1>7

(* A call for the session a thread works on is a call for its own slot. *)
LEMMA OwnSlot ==
  ASSUME LifeInv, NEW t \in Threads, NEW op, At(t, op), op \in WorkOps
  PROVE  sess[Slot(t)].Index.slot = Slot(t) /\ WorkWord(todo[t], Slot(t))
<1>1. ServerSound /\ RefCountExact /\ Shapes /\ Life /\ Slot(t) \in Slots
  BY SlotOK DEF LifeInv, IInv
<1>2. PICK s : s = Slot(t)
  OBVIOUS
<1>3. WorkWord(todo[t], s)
  BY <1>1, <1>2, ShapeAt DEF KnownAt, Shapes, At
<1>4. sess[s].iocpCount # 0
  BY <1>1, <1>2, <1>3, WorkCounts
<1>5. sess[s].Index.slot = s
  BY <1>1, <1>2, <1>4 DEF Life, Named, Live
<1> QED BY <1>2, <1>3, <1>5

LEMMA CallWork ==
  ASSUME LifeInv, NEW t \in Threads, NEW op, At(t, op), op \in WorkOps \ {"release", "callback"},
         todo' = [todo EXCEPT ![t] = <<Frame("acquire", sess[Slot(t)].Index.slot)>> \o Tail(@)]
  PROVE  Then(t, <<"acquire">>)
<1>1. sess[Slot(t)].Index.slot = Slot(t)
  BY OwnSlot
<1>2. <<Frame("acquire", Slot(t))>> = Frames(<<"acquire">>, Slot(t))
  BY OneFrame
<1> QED BY <1>1, <1>2 DEF Then

LEMMA AcquireWork ==
  ASSUME LifeInv, NEW t \in Threads,
         \/ AcquireInc(t) \/ AcquireCheckId(t) \/ AcquireCheckFlag(t) \/ CutCAS(t) \/ CutNow(t) \/ Push(t)
         \/ OnRecv(t) /\ crashed' = "no"
  PROVE  Working(t) /\ UNCHANGED <<indexStack, netId, clientCounter, clientSock, idOf, left>>
<1>1. CASE AcquireInc(t)
  <2>1. At(t, "acquire") /\ UNCHANGED sock /\ (Then(t, <<"release">>) \/ Then(t, <<"check_id">>))
    BY <1>1 DEF AcquireInc, Refuse, OnlySession, kernel
  <2>2. sess' = [sess EXCEPT ![Slot(t)] = [sess[Slot(t)] EXCEPT !.iocpCount = @ + 1]]
    BY <1>1 DEF AcquireInc
  <2>3. \E x : sess' = [sess EXCEPT ![Slot(t)] = x] /\ Alike(x, sess[Slot(t)], sess[Slot(t)].iocpCount + 1)
    BY <2>1, <2>2, SlotOK, KeptCounts
  <2>4. SessWork(Slot(t))
    BY <2>1, <2>3, SlotOK, SessKept DEF Alike
  <2>5. "acquire" \in WorkOps \ {"release", "callback"} /\ "check_id" \in WorkOps /\ "release" \in WorkOps
    BY DEF WorkOps, UseOps
  <2>6. PICK ops \in Seq(WorkOps) : Then(t, ops)
    BY <2>1, <2>5, Lists
  <2>7. UNCHANGED <<indexStack, netId, clientCounter, clientSock, idOf, left>>
    BY <1>1 DEF AcquireInc, OnlyArg, server, app
  <2> QED BY <2>1, <2>4, <2>5, <2>6, <2>7 DEF Working
<1>2. CASE AcquireCheckId(t)
  <2>1. At(t, "check_id") /\ UNCHANGED <<sess, sock>> /\ (Then(t, <<"release">>) \/ Then(t, <<"check_flag">>))
    BY <1>2 DEF AcquireCheckId, Refuse, OnlyThread, OnlySession, kernel
  <2>4. SessWork(Slot(t))
    BY <2>1, SlotOK, SessKept
  <2>5. "check_id" \in WorkOps \ {"release", "callback"} /\ "check_flag" \in WorkOps /\ "release" \in WorkOps
    BY DEF WorkOps, UseOps
  <2>6. PICK ops \in Seq(WorkOps) : Then(t, ops)
    BY <2>1, <2>5, Lists
  <2>7. UNCHANGED <<indexStack, netId, clientCounter, clientSock, idOf, left>>
    BY <1>2 DEF AcquireCheckId, OnlyArg, server, app
  <2> QED BY <2>1, <2>4, <2>5, <2>6, <2>7 DEF Working
<1>3. CASE AcquireCheckFlag(t)
  <2>1. At(t, "check_flag") /\ UNCHANGED <<sess, sock>>
    BY <1>3 DEF AcquireCheckFlag, OnlyThread, OnlySession, kernel
  <2>2. \/ Then(t, <<"release">>) \/ Then(t, <<"flag", "shutdown", "release">>)
        \/ Then(t, <<"push", "mark", "cut_now", "wake_test", "release">>)
        \/ Then(t, <<"push", "wake_test", "release">>)
    BY <1>3 DEF AcquireCheckFlag, Refuse, Body
  <2>4. SessWork(Slot(t))
    BY <2>1, SlotOK, SessKept
  <2>5. "check_flag" \in WorkOps \ {"release", "callback"} /\ "release" \in WorkOps
    BY DEF WorkOps, UseOps
  <2>6. PICK ops \in Seq(WorkOps) : Then(t, ops)
    BY <2>2, <2>5, Lists
  <2>7. UNCHANGED <<indexStack, netId, clientCounter, clientSock, idOf, left>>
    BY <1>3 DEF AcquireCheckFlag, OnlyArg, server, app
  <2> QED BY <2>1, <2>4, <2>5, <2>6, <2>7 DEF Working
<1>4. CASE CutCAS(t)
  <2>1. At(t, "cut_cas") /\ UNCHANGED sock
    BY <1>4 DEF CutCAS, OnlySession, kernel
  <2>2. "cut_cas" \in WorkOps \ {"release", "callback"} /\ "acquire" \in WorkOps
    BY DEF WorkOps, UseOps
  <2>3. Then(t, <<>>) \/ Then(t, <<"acquire">>)
    BY <1>4, <2>1, <2>2, CallWork DEF CutCAS, CallShutdown
  <2>4. sess' = sess \/ sess' = [sess EXCEPT ![Slot(t)] = [sess[Slot(t)] EXCEPT !.disconnectFlag = 1]]
    BY <1>4 DEF CutCAS
  <2>5. sess' = sess \/ \E x : sess' = [sess EXCEPT ![Slot(t)] = x] /\ Alike(x, sess[Slot(t)], sess[Slot(t)].iocpCount)
    BY <2>1, <2>4, SlotOK, KeptCounts
  <2>6. SessWork(Slot(t))
    BY <2>1, <2>5, SlotOK, SessKept DEF Alike
  <2>7. PICK ops \in Seq(WorkOps) : Then(t, ops)
    BY <2>2, <2>3, Lists
  <2>8. UNCHANGED <<indexStack, netId, clientCounter, clientSock, idOf, left>>
    BY <1>4 DEF CutCAS, OnlyArg, server, app
  <2> QED BY <2>1, <2>2, <2>6, <2>7, <2>8 DEF Working
<1>5. CASE CutNow(t)
  <2>1. At(t, "cut_now") /\ UNCHANGED <<sess, sock>>
    BY <1>5 DEF CutNow, OnlyThread, OnlySession, kernel
  <2>2. "cut_now" \in WorkOps \ {"release", "callback"} /\ "acquire" \in WorkOps
    BY DEF WorkOps, UseOps
  <2>3. Then(t, <<>>) \/ Then(t, <<"acquire">>)
    BY <1>5, <2>1, <2>2, CallWork DEF CutNow, CallShutdown
  <2>6. SessWork(Slot(t))
    BY <2>1, SlotOK, SessKept
  <2>7. PICK ops \in Seq(WorkOps) : Then(t, ops)
    BY <2>2, <2>3, Lists
  <2>8. UNCHANGED <<indexStack, netId, clientCounter, clientSock, idOf, left>>
    BY <1>5 DEF CutNow, OnlyArg, server, app
  <2> QED BY <2>1, <2>2, <2>6, <2>7, <2>8 DEF Working
<1>6. CASE Push(t)
  <2>1. At(t, "push") /\ Then(t, <<>>) /\ UNCHANGED sock
    BY <1>6 DEF Push, OnlySession, kernel
  <2>2. PICK b : sess' = [sess EXCEPT ![Slot(t)] = [sess[Slot(t)] EXCEPT !.sendQ = b]]
    BY <1>6 DEF Push
  <2>3. \E x : sess' = [sess EXCEPT ![Slot(t)] = x] /\ Alike(x, sess[Slot(t)], sess[Slot(t)].iocpCount)
    BY <2>1, <2>2, SlotOK, KeptCounts
  <2>4. SessWork(Slot(t))
    BY <2>1, <2>3, SlotOK, SessKept DEF Alike
  <2>5. "push" \in WorkOps \ {"release", "callback"}
    BY DEF WorkOps, UseOps
  <2>7. UNCHANGED <<indexStack, netId, clientCounter, clientSock, idOf, left>>
    BY <1>6 DEF Push, server, app
  <2> QED BY <2>1, <2>4, <2>5, <2>7, Lists DEF Working
<1>7. CASE OnRecv(t) /\ crashed' = "no"
  <2>0. ~ \E why \in {"decode"} : Crash(why)
    BY <1>7 DEF Crash
  <2>1. At(t, "on_recv") /\ Then(t, <<>>) /\ UNCHANGED sock
    BY <1>7, <2>0 DEF OnRecv, OnlySession, kernel
  <2>2. PICK b : sess' = [sess EXCEPT ![Slot(t)] = [sess[Slot(t)] EXCEPT !.recvQ = b]]
    BY <1>7, <2>0 DEF OnRecv
  <2>3. \E x : sess' = [sess EXCEPT ![Slot(t)] = x] /\ Alike(x, sess[Slot(t)], sess[Slot(t)].iocpCount)
    BY <2>1, <2>2, SlotOK, KeptCounts
  <2>4. SessWork(Slot(t))
    BY <2>1, <2>3, SlotOK, SessKept DEF Alike
  <2>5. "on_recv" \in WorkOps \ {"release", "callback"}
    BY DEF WorkOps, UseOps
  <2>7. UNCHANGED <<indexStack, netId, clientCounter, clientSock, idOf, left>>
    BY <1>7, <2>0 DEF OnRecv, server, app
  <2> QED BY <2>1, <2>4, <2>5, <2>7, Lists DEF Working
<1> QED BY <1>1, <1>2, <1>3, <1>4, <1>5, <1>6, <1>7

(* A callback makes a call before it returns. *)
LEMMA CallBackLife ==
  ASSUME LifeInv, NEW t \in Threads, CallBack(t)
  PROVE  Shapes' /\ Life'
<1>1. At(t, "callback") /\ UNCHANGED <<sess, sock, indexStack, netId, clientCounter, clientSock, idOf, left>>
  BY DEF CallBack, Request, OnlyThread, OnlySession, kernel, server
<1>2. {"callback", "acquire"} \subseteq WorkOps
  BY DEF WorkOps, UseOps
<1>3. PICK s, q, w : s = Slot(t) /\ q = todo[t] /\ w = Frames(<<"acquire">>, s) \o q
  OBVIOUS
<1>4. ServerSound /\ Shapes /\ s \in Slots /\ sess[s].Index.slot = s /\ WorkWord(q, s)
  BY <1>1, <1>2, <1>3, OwnSlot, SlotOK DEF LifeInv, IInv
<1>5. todo' = [todo EXCEPT ![t] = w]
  <2>1. todo' = [todo EXCEPT ![t] = <<Frame("acquire", sess[Slot(t)].Index.slot)>> \o todo[t]]
    BY DEF CallBack
  <2>2. <<Frame("acquire", s)>> = Frames(<<"acquire">>, s)
    BY OneFrame
  <2> QED BY <1>3, <1>4, <2>1, <2>2
<1>6. WorkWord(w, s)
  <2>1. PICK ops : ops = <<"acquire">>
    OBVIOUS
  <2>2. ops \in Seq(WorkOps)
    BY <1>2, <2>1
  <2> QED BY <1>3, <1>4, <2>1, <2>2, WorkOn
<1>7. Works(t) /\ WorkWord(todo[t], s)
  BY <1>1, <1>2, <1>3, <1>4, <1>5, <1>6, GoesOn
<1>8. SessWork(s)
  BY <1>1, <1>3, SlotOK, SessKept
<1> QED BY <1>1, <1>4, <1>7, <1>8, WorkingKeeps

(* Nothing that the life of a session depends on changes. *)
LEMMA StillLife ==
  ASSUME LifeInv, UNCHANGED <<sess, todo, indexStack, netId, clientCounter, clientSock, idOf, left>>,
         \A c \in Conns : sock'[c] = "backlog" => sock[c] = "backlog"
  PROVE  Shapes' /\ Life'
<1>1. WorkStep
  BY DEF WorkStep
<1>2. Shapes'
  BY DEF LifeInv, Shapes, Shape
<1> QED BY <1>1, <1>2, WorkKeepsLife DEF LifeInv

LEMMA CrashLife ==
  ASSUME LifeInv, NEW why, Crash(why), UNCHANGED serverVars
  PROVE  Shapes' /\ Life'
<1>1. UNCHANGED <<sess, todo, indexStack, netId, clientCounter, clientSock, idOf, left, sock>>
  BY DEF Crash, kernel, serverVars, server, app
<1> QED BY <1>1, StillLife

(* An operation in flight is a reference. *)
LEMMA FlightCounts ==
  ASSUME LifeInv, NEW p \in pending
  PROVE  p.s \in Slots /\ sess[p.s].iocpCount # 0 /\ ~Joins(p.s)
<1>1. ServerSound /\ RefCountExact /\ Shapes /\ Life
  BY DEF LifeInv, IInv
<1>2. PICK P, s, R : P = pending /\ s = p.s /\ R = port
  OBVIOUS
<1>3. Running(Threads, Slots, Kinds, todo, P, R)
  BY <1>1, <1>2 DEF ServerSound, Sound
<1>4. s \in Slots /\ p.op \in Referring /\ IsFiniteSet(P)
  BY <1>2, <1>3 DEF Running, Referring
<1>5. InFlight(P, Referring, s) \in Nat /\ InPort(R, Referring, s) \in Nat
  BY <1>3, CountsNat, ThreadsFinite
<1>6. InFlight(P, Referring, s) # 0
  BY <1>2, <1>4, CountNone DEF InFlight
<1>7. InKernel(Referring, s) >= 1
  <2>1. PICK a, b : a = InFlight(P, Referring, s) /\ b = InPort(R, Referring, s)
    OBVIOUS
  <2>2. InKernel(Referring, s) = a + b
    BY <1>2, <2>1 DEF InKernel
  <2> QED BY <1>5, <1>6, <2>1, <2>2
<1>8. sess[s].iocpCount \in Nat /\ sess[s].iocpCount >= 1 /\ (Joins(s) => sess[s].iocpCount >= 2)
  BY <1>1, <1>4, <1>7, KernelCounts DEF Joins
<1>9. ~Joins(s)
  BY <1>1, <1>4, <1>8 DEF Life, Alone
<1> QED BY <1>2, <1>4, <1>8, <1>9

LEMMA KernelLife ==
  ASSUME LifeInv, Kernel
  PROVE  Shapes' /\ Life'
<1>1. ASSUME NEW p \in pending, SendDone(p) \/ ZeroBytes(p), UNCHANGED serverVars PROVE Shapes' /\ Life'
  <2>1. UNCHANGED <<sess, todo, indexStack, netId, clientCounter, clientSock, idOf, left, sock>>
    BY <1>1 DEF SendDone, ZeroBytes, Complete, serverVars, server, app
  <2> QED BY <2>1, StillLife
<1>2. ASSUME NEW p \in pending, RecvData(p) PROVE Shapes' /\ Life'
  <2>1. UNCHANGED <<todo, indexStack, netId, clientCounter, clientSock, idOf, left, sock>>
    BY <1>2 DEF RecvData, Complete, server
  <2>2. PICK b : sess' = [sess EXCEPT ![p.s] = [sess[p.s] EXCEPT !.recvQ = b]]
    BY <1>2 DEF RecvData
  <2>3. SessionsOK
    BY DEF LifeInv, ServerTypeOK
  <2>4. p.s \in Slots /\ sess[p.s].iocpCount # 0 /\ ~Joins(p.s) /\ SessionOK(sess[p.s])
    BY <2>3, FlightCounts DEF SessionsOK
  <2>5. \A r \in Slots :
          /\ sess'[r].Index = sess[r].Index /\ sess'[r].Sock = sess[r].Sock
          /\ sess'[r].iocpCount = sess[r].iocpCount
          /\ r # p.s => sess'[r] = sess[r]
    <3>1. PICK x : x = [sess[p.s] EXCEPT !.recvQ = b]
      OBVIOUS
    <3>2. Alike(x, sess[p.s], sess[p.s].iocpCount)
      BY <2>4, <3>1, KeptCounts
    <3>3. sess' = [sess EXCEPT ![p.s] = x]
      BY <2>2, <3>1
    <3> QED BY <2>3, <2>4, <3>2, <3>3 DEF SessionsOK, Alike
  <2>6. WorkStep
    BY <2>1, <2>4, <2>5 DEF WorkStep
  <2>7. Shapes'
    BY <2>1 DEF LifeInv, Shapes, Shape
  <2> QED BY <2>6, <2>7, WorkKeepsLife DEF LifeInv
<1> QED BY <1>1, <1>2 DEF Kernel

LEMMA HandlerWork ==
  ASSUME NEW e, e.op \in Kinds, e.trans \in Nat
  PROVE  \/ Handler(e) = <<"exited">>
         \/ /\ Handler(e) \in Seq(WorkOps) /\ Handler(e) # <<>>
            /\ Handler(e)[Len(Handler(e))] \in {"release", "callback"}
<1>1. {"post_test", "pqcs_dec", "pqcs_test", "release", "on_recv", "callback", "flag", "shutdown",
       "free_sent", "flag_dec", "count_reset", "cut_test"} \subseteq WorkOps
  BY DEF WorkOps, UseOps
<1>2. PICK b, q : b = OnBroken /\ q = <<"flag_dec">> \o b
  OBVIOUS
<1>3. b \in Seq(WorkOps) /\ b # <<>> /\ b[Len(b)] \in {"release", "callback"} /\ Len(b) = 3
  BY <1>1, <1>2 DEF OnBroken
<1>4. q \in Seq(WorkOps) /\ q # <<>> /\ q[Len(q)] \in {"release", "callback"}
  <2>1. PICK a : a = <<"flag_dec">>
    OBVIOUS
  <2>2. a \in Seq(WorkOps) /\ Len(a) = 1
    BY <1>1, <2>1
  <2>3. q = a \o b
    BY <1>2, <2>1
  <2>4. /\ a \o b \in Seq(WorkOps) /\ Len(a \o b) = Len(a) + Len(b)
        /\ \A i \in 1 .. Len(a) + Len(b) : (a \o b)[i] = IF i <= Len(a) THEN a[i] ELSE b[i - Len(a)]
    BY <1>3, <2>2, ConcatProperties
  <2>5. q \in Seq(WorkOps) /\ q[4] = b[3] /\ Len(q) = 4
    BY <1>3, <2>2, <2>3, <2>4
  <2>6. q # <<>>
    BY <2>5
  <2> QED BY <1>3, <2>4, <2>5, <2>6
<1>5. /\ OnRequest \in Seq(WorkOps) /\ OnRequest # <<>> /\ OnRequest[Len(OnRequest)] \in {"release", "callback"}
      /\ OnData \in Seq(WorkOps) /\ OnData # <<>> /\ OnData[Len(OnData)] \in {"release", "callback"}
      /\ OnSent \in Seq(WorkOps) /\ OnSent # <<>> /\ OnSent[Len(OnSent)] \in {"release", "callback"}
  BY <1>1 DEF OnRequest, OnData, OnSent
<1>6. Handler(e) \in {OnRequest, OnData, b, OnSent, q, <<"exited">>}
  BY <1>2 DEF Handler, Kinds
<1> QED BY <1>3, <1>4, <1>5, <1>6

LEMMA DequeueLife ==
  ASSUME LifeInv, NEW w \in Workers, Dequeue(w)
  PROVE  Shapes' /\ Life'
<1>1. ServerSound /\ Shapes /\ w \in Threads
  BY DEF LifeInv, IInv, Threads
<1>2. /\ todo[w] = <<>> /\ port # <<>>
      /\ UNCHANGED <<sess, sock, indexStack, netId, clientCounter, clientSock, idOf, left>>
  BY DEF Dequeue, TakePacket, Idle, serverVars, server, app
<1>3. PICK e, s, ops : e = Head(port) /\ s = e.s /\ ops = Handler(e)
  OBVIOUS
<1>4. todo' = [todo EXCEPT ![w] = Frames(ops, s)]
  BY <1>3 DEF Dequeue, TakePacket
<1>5. s \in Slots /\ e.op \in Kinds /\ e.trans \in Nat
  <2>1. port \in Seq(Packets(Slots, Kinds))
    BY <1>1 DEF ServerSound, Sound, Running
  <2>2. e \in Packets(Slots, Kinds)
    BY <1>2, <1>3, <2>1
  <2> QED BY <1>3, <2>2 DEF Packets
<1>6. todo'[w] = Frames(ops, s) /\ \A u \in Threads \ {w} : todo'[u] = todo[u]
  <2>1. DOMAIN todo = Threads
    BY <1>1 DEF ServerSound, Sound, Running, Queues
  <2> QED BY <1>1, <1>4, <2>1
<1>7. Shape(w)' /\ ~AtLife(todo'[w])
  <2>1. CASE ops = <<"exited">>
    <3>1. ListWord(todo'[w], {<<"exited">>}, s)
      BY <1>6, <2>1 DEF ListWord
    <3>2. ops \in Seq({"exited"}) /\ ops # <<>> /\ Head(ops) = "exited"
      BY <2>1
    <3>3. Head(todo'[w]) = Frame(Head(ops), s)
      BY <1>6, <3>2, FramesFirst
    <3>4. "exited" \notin LifeOps
      BY OpsApart DEF LifeOps
    <3>5. ~AtLife(todo'[w])
      BY <3>2, <3>3, <3>4 DEF AtLife, Frame
    <3> QED BY <1>5, <3>1, <3>5 DEF Shape
  <2>2. CASE ops # <<"exited">>
    <3>1. ops \in Seq(WorkOps) /\ ops # <<>> /\ ops[Len(ops)] \in {"release", "callback"}
      BY <1>3, <1>5, <2>2, HandlerWork
    <3>2. WorkWord(todo'[w], s)
      BY <1>6, <3>1, WorkBegins
    <3> QED BY <1>5, <3>2, WorkNotLife DEF Shape
  <2> QED BY <2>1, <2>2
<1>8. ~AtLife(todo[w])
  BY <1>2 DEF AtLife
<1>9. Shapes'
  BY <1>1, <1>6, <1>7 DEF Shapes, Shape
<1>10. WorkStep
  BY <1>2, <1>6, <1>7, <1>8 DEF WorkStep
<1> QED BY <1>9, <1>10, WorkKeepsLife DEF LifeInv
-----------------------------------------------------------------------------
(* STEPS OF THE LIFE OF A SESSION *)

(* Only t does something with the life of slot s: it is at op. *)
Sole(t, op, s) ==
  \A u \in Threads, ops \in SUBSET SlotOps : (Reaches(u, ops, s) <=> u = t /\ op \in ops)

StartOps == {"insert_flags", "insert_ref"}
LastOps == {"test_id", "reclaim", "push_slot"}
GoneOps == {"drain", "test_id", "reclaim"}

(* What is true of slot s at this stage. *)
HasSession(op, s) ==
  sess[s].iocpCount # 0 \/ op \in EndOps \ {"push_slot"} \/ op \in StartOps

StageCounts(op, s) ==
  /\ op \in EndOps \cup EnterOps => ~Free(s) /\ sess[s].iocpCount = 0
  /\ Free(s) => sess[s].iocpCount = 0
  /\ op = "join" => sess[s].iocpCount = 1

StageNames(op, s) ==
  /\ HasSession(op, s) =>
       /\ sess[s].Index.slot = s /\ s # 0 /\ sess[s].Sock \in Conns
       /\ sess[s].Index.net < netId
       /\ op \notin StartOps \cup {"join"} => idOf[sess[s].Sock] = sess[s].Index
       /\ sess[s].Index \in LeftIds <=> op \in GoneOps
  /\ op \in StartOps \cup {"join"} =>
       /\ idOf[sess[s].Sock] = NoId /\ sock[sess[s].Sock] # "backlog"
       /\ sess[s].Index.net = netId - 1
       /\ \A c \in Conns : idOf[c] = NoId \/ idOf[c].net < netId - 1

StageQueues(op, s) ==
  /\ Free(s) \/ op \in EnterOps \cup {"join"} \cup LastOps =>
       sess[s].sendQ = <<>> /\ sess[s].completeSendQ = <<>>
  /\ Free(s) \/ op \in {"insert", "push_slot"} => sess[s].Sock = NoSock /\ sess[s].Index = NoId
  /\ op = "insert" => s # 0

Stage(op, s) == StageCounts(op, s) /\ StageNames(op, s) /\ StageQueues(op, s)

LEMMA MoreSlotOps ==
  /\ StartOps \subseteq SlotOps /\ LastOps \subseteq SlotOps /\ GoneOps \subseteq SlotOps
  /\ StartOps \cup {"join"} = {"insert_flags", "insert_ref", "join"}
  /\ EnterOps \cap EndOps = {} /\ "join" \notin EndOps /\ "nothing" \notin SlotOps /\ "callback" \notin SlotOps
BY DEF SlotOps, LifeOps, EndOps, TeardownOps, NewOps, EnterOps, StartOps, LastOps, GoneOps

LEMMA StageOf ==
  ASSUME NEW s \in Slots, NEW t \in Threads, NEW op, Sole(t, op, s),
         op \in EnterOps \cup {"join"} => t = Acceptor
  PROVE  Alone(s) /\ Named(s) <=> Stage(op, s)
<1>1. Acceptor \in Threads
  BY ThreadsFinite
<1>2. \A ops \in SUBSET SlotOps :
        /\ (\E u \in Threads : Reaches(u, ops, s)) <=> op \in ops
        /\ Reaches(Acceptor, ops, s) <=> t = Acceptor /\ op \in ops
  BY <1>1 DEF Sole
<1>3. /\ \A u \in Threads : Ends(u, s) <=> u = t /\ op \in EndOps
      /\ (\E u \in Threads : Reaches(u, EndOps \ {"push_slot"}, s)) <=> op \in EndOps \ {"push_slot"}
      /\ Gone(s) <=> op \in GoneOps
      /\ (\E u \in Threads : Reaches(u, {"test_id", "reclaim", "push_slot"}, s)) <=> op \in LastOps
      /\ (\E u \in Threads : Reaches(u, {"push_slot"}, s)) <=> op = "push_slot"
  BY <1>2, SlotOpsAre DEF Ends, Gone, Sole, GoneOps, LastOps
<1>4. /\ Enters(s) <=> op \in EnterOps
      /\ Joins(s) <=> op = "join"
      /\ Joining(s) <=> op \in StartOps \cup {"join"}
      /\ Reaches(Acceptor, {"insert_flags", "insert_ref"}, s) <=> op \in StartOps
      /\ Reaches(Acceptor, {"insert"}, s) <=> op = "insert"
  BY <1>2, SlotOpsAre DEF Enters, Joins, Joining, StartOps, EnterOps
<1>5. /\ Live(s) <=> HasSession(op, s)
      /\ Drained(s) <=> Free(s) \/ op \in EnterOps \cup {"join"} \cup LastOps
      /\ Vacant(s) <=> Free(s) \/ op \in {"insert", "push_slot"}
  BY <1>3, <1>4 DEF Live, Drained, Vacant, HasSession
<1>6. Alone(s) <=> StageCounts(op, s)
  BY <1>3, <1>4, MoreSlotOps DEF Alone, StageCounts
<1>7. Named(s) <=> StageNames(op, s) /\ StageQueues(op, s)
  BY <1>3, <1>4, <1>5 DEF Named, StageNames, StageQueues
<1> QED BY <1>6, <1>7 DEF Stage

LEMMA StageNext ==
  ASSUME NEW s \in Slots, NEW t \in Threads, NEW op, Sole(t, op, s)', Stage(op, s)',
         op \in EnterOps \cup {"join"} => t = Acceptor
  PROVE  Alone(s)' /\ Named(s)'
<1>1. Acceptor \in Threads
  BY ThreadsFinite
<1>2. \A ops \in SUBSET SlotOps :
        /\ (\E u \in Threads : Reaches(u, ops, s)') <=> op \in ops
        /\ Reaches(Acceptor, ops, s)' <=> t = Acceptor /\ op \in ops
  BY <1>1 DEF Sole
<1>3. /\ \A u \in Threads : Ends(u, s)' <=> u = t /\ op \in EndOps
      /\ (\E u \in Threads : Reaches(u, EndOps \ {"push_slot"}, s)') <=> op \in EndOps \ {"push_slot"}
      /\ Gone(s)' <=> op \in GoneOps
      /\ (\E u \in Threads : Reaches(u, {"test_id", "reclaim", "push_slot"}, s)') <=> op \in LastOps
      /\ (\E u \in Threads : Reaches(u, {"push_slot"}, s)') <=> op = "push_slot"
  BY <1>2, SlotOpsAre DEF Ends, Gone, Sole, GoneOps, LastOps
<1>4. /\ Enters(s)' <=> op \in EnterOps
      /\ Joins(s)' <=> op = "join"
      /\ Joining(s)' <=> op \in StartOps \cup {"join"}
      /\ Reaches(Acceptor, {"insert_flags", "insert_ref"}, s)' <=> op \in StartOps
      /\ Reaches(Acceptor, {"insert"}, s)' <=> op = "insert"
  BY <1>2, SlotOpsAre DEF Enters, Joins, Joining, StartOps, EnterOps
<1>5. /\ Live(s)' <=> HasSession(op, s)'
      /\ Drained(s)' <=> Free(s)' \/ op \in EnterOps \cup {"join"} \cup LastOps
      /\ Vacant(s)' <=> Free(s)' \/ op \in {"insert", "push_slot"}
  BY <1>3, <1>4 DEF Live, Drained, Vacant, HasSession
<1>6. Alone(s)'
  BY <1>3, <1>4, MoreSlotOps DEF Alone, Stage, StageCounts
<1>7. Named(s)'
  BY <1>3, <1>4, <1>5 DEF Named, Stage, StageNames, StageQueues
<1> QED BY <1>6, <1>7

(* Who does something with the life of a slot does it alone. *)
LEMMA OnlyOneAt ==
  ASSUME LifeInv, NEW s \in Slots, NEW t \in Threads, NEW op,
         \/ At(t, op) /\ Slot(t) = s /\ op \in EndOps \cup EnterOps \cup {"join"}
         \/ op = "nothing" /\ Free(s)
         \/ op = "nothing" /\ sess[s].iocpCount # 0 /\ ~Joins(s)
  PROVE  Sole(t, op, s) /\ Stage(op, s) /\ (op \in EnterOps \cup {"join"} => t = Acceptor)
<1>1. Shapes /\ Alone(s) /\ Named(s)
  BY DEF LifeInv, Life
<1>2. ASSUME NEW u \in Threads, NEW ops \in SUBSET SlotOps, Reaches(u, ops, s)
      PROVE  Ends(u, s) \/ (u = Acceptor /\ (Enters(s) \/ Joins(s)))
  <2>1. KnownAt(u) /\ Head(todo[u]).op \in SlotOps /\ todo[u] # <<>> /\ Slot(u) = s
    BY <1>1, <1>2, ShapeAt DEF Shapes, Reaches
  <2>2. Head(todo[u]).op \in EndOps \cup EnterOps \cup {"join"}
    BY <2>1 DEF SlotOps, LifeOps, NewOps, EnterOps
  <2>3. Head(todo[u]).op \in EnterOps \cup {"join"} => u = Acceptor
    BY <2>1 DEF KnownAt, EnterOps, NewOps
  <2> QED BY <2>1, <2>2, <2>3 DEF Ends, Enters, Joins, Reaches
<1>3. CASE At(t, op) /\ Slot(t) = s /\ op \in EndOps \cup EnterOps \cup {"join"}
  <2>1. todo[t] # <<>> /\ Head(todo[t]).op = op /\ KnownAt(t)
    BY <1>1, <1>3, ShapeAt DEF Shapes, At
  <2>2. op \in EnterOps \cup {"join"} => t = Acceptor
    BY <2>1 DEF KnownAt, EnterOps, NewOps
  <2>3. /\ op \in EndOps => Ends(t, s)
        /\ op \in EnterOps => Enters(s)
        /\ op = "join" => Joins(s)
    BY <1>3, <2>1, <2>2 DEF Ends, Enters, Joins, Reaches
  <2>4. ASSUME NEW u \in Threads, NEW ops \in SUBSET SlotOps, Reaches(u, ops, s) PROVE u = t
    BY <1>1, <1>2, <1>3, <2>2, <2>3, <2>4 DEF Alone
  <2>5. \A ops : Reaches(t, ops, s) <=> op \in ops
    BY <1>3, <2>1 DEF Reaches
  <2>6. Sole(t, op, s)
    BY <2>4, <2>5 DEF Sole
  <2> QED BY <1>1, <2>2, <2>6, StageOf
<1>4. CASE op = "nothing" /\ (Free(s) \/ (sess[s].iocpCount # 0 /\ ~Joins(s)))
  <2>1. \A u \in Threads : ~Ends(u, s) /\ ~Enters(s) /\ ~Joins(s)
    BY <1>1, <1>4 DEF Alone
  <2>2. Sole(t, op, s)
    BY <1>2, <1>4, <2>1, MoreSlotOps DEF Sole
  <2>3. op \notin EnterOps \cup {"join"}
    BY <1>4 DEF EnterOps
  <2> QED BY <1>1, <2>2, <2>3, StageOf
<1> QED BY <1>3, <1>4

(* A thread goes on to op2, all in slot s. *)
Advances(t, s, op2) ==
  /\ todo[t] = <<>> \/ Slot(t) = s \/ Head(todo[t]).op \notin SlotOps
  /\ \A u \in Threads \ {t} : todo'[u] = todo[u]
  /\ \/ todo'[t] = <<>> /\ op2 = "nothing"
     \/ todo'[t] # <<>> /\ Head(todo'[t]) = Frame(op2, s)

LEMMA StagesAdvance ==
  ASSUME NEW t \in Threads, NEW s \in Slots, NEW op, Sole(t, op, s), NEW op2, Advances(t, s, op2)
  PROVE  /\ Sole(t, op2, s)'
         /\ \A r \in Slots \ {s}, u \in Threads, ops \in SUBSET SlotOps :
              (Reaches(u, ops, r)' <=> Reaches(u, ops, r))
<1>1. \A u \in Threads \ {t} : \A ops, r : Reaches(u, ops, r)' <=> Reaches(u, ops, r)
  BY DEF Advances, Reaches, Slot
<1>2. \A ops \in SUBSET SlotOps : (Reaches(t, ops, s)' <=> op2 \in ops)
  BY MoreSlotOps DEF Advances, Reaches, Slot, Frame
<1>3. \A r \in Slots \ {s}, ops \in SUBSET SlotOps : ~Reaches(t, ops, r)' /\ ~Reaches(t, ops, r)
  BY DEF Advances, Reaches, Slot, Frame
<1>4. Sole(t, op2, s)'
  BY <1>1, <1>2 DEF Sole
<1> QED BY <1>1, <1>3, <1>4

(* The other slots. *)
LEMMA OtherKept ==
  ASSUME NEW r \in Slots, Alone(r), Named(r), sess'[r] = sess[r], Free(r)' <=> Free(r),
         \A u \in Threads, ops \in SUBSET SlotOps : (Reaches(u, ops, r)' <=> Reaches(u, ops, r)),
         Joining(r) => UNCHANGED <<netId, idOf>>,
         netId \in Int, netId' \in {netId, netId + 1}, \A n \in {sess[r].Index.net} : n \in Int,
         Live(r) /\ ~Joining(r) => idOf'[sess[r].Sock] = idOf[sess[r].Sock],
         Live(r) => (sess[r].Index \in LeftIds' <=> sess[r].Index \in LeftIds),
         \A c \in Conns : sock'[c] = "backlog" => sock[c] = "backlog"
  PROVE  Alone(r)' /\ Named(r)'
<1>1. SameStage(r)
  BY StagesKept
<1>2. Alone(r)'
  BY <1>1 DEF Alone, SameStage
<1>3. Live(r)' <=> Live(r)
  BY <1>1 DEF Live, SameStage
<1>4. Live(r) => sess[r].Sock \in Conns
  BY DEF Named
<1>5. Joining(r) => Live(r)
  BY DEF Joining, Live, Alone, Reaches, Joins
<1>6. Live(r) => sess[r].Index.net < netId'
  <2>1. PICK n : n = sess[r].Index.net
    OBVIOUS
  <2>2. n \in Int /\ (Live(r) => n < netId)
    BY <2>1 DEF Named
  <2> QED BY <2>1, <2>2
<1>7. Named(r)'
  BY <1>1, <1>3, <1>4, <1>5, <1>6 DEF Named, SameStage
<1> QED BY <1>2, <1>7

(* What a thread has left to do after the step. *)
LEMMA GoesTo ==
  ASSUME LifeInv, NEW t \in Threads, NEW op, At(t, op), NEW ops, Then(t, ops)
  PROVE  /\ \A u \in Threads \ {t} : todo'[u] = todo[u]
         /\ ops = <<>> => todo'[t] = Tail(todo[t])
         /\ \A A : ops \in Seq(A) /\ Tail(todo[t]) = <<>> => todo'[t] = Frames(ops, Slot(t))
         /\ Slot(t) \in Slots
<1>1. ServerSound
  BY DEF LifeInv, IInv
<1>2. PICK A : todo \in Queues(Threads, Todo(A, Slots))
  BY <1>1 DEF ServerSound, Sound, Running
<1>3. PICK S, q, z, s : S = Todo(A, Slots) /\ q = todo[t] /\ z = Tail(q) /\ s = Slot(t)
  OBVIOUS
<1>4. q \in Seq(S) /\ q # <<>> /\ DOMAIN todo = Threads
  BY <1>2, <1>3 DEF Queues, At
<1>5. z \in Seq(S)
  BY <1>3, <1>4
<1>6. todo'[t] = Frames(ops, s) \o z /\ \A u \in Threads \ {t} : todo'[u] = todo[u]
  BY <1>3, <1>4 DEF Then
<1>7. ASSUME ops = <<>> PROVE todo'[t] = z
  BY <1>5, <1>6, <1>7, FramesNothing
<1>8. ASSUME NEW B, ops \in Seq(B), z = <<>> PROVE todo'[t] = Frames(ops, s)
  <2>1. PICK f : f = Frames(ops, s)
    OBVIOUS
  <2>2. f \in Seq(Todo(B, {s}))
    BY <1>8, <2>1, FramesList
  <2>3. f \o <<>> = f
    BY <2>2
  <2> QED BY <1>6, <1>8, <2>1, <2>3
<1>9. s \in Slots
  BY <1>1, <1>3, AtOp DEF ServerSound
<1> QED BY <1>3, <1>6, <1>7, <1>8, <1>9

(* The shape after a step of the life of slot s, and the operation it is at. *)
LEMMA AdvancesBy ==
  ASSUME LifeInv, NEW t \in Threads, NEW s \in Slots,
         todo[t] = <<>> \/ Slot(t) = s \/ Head(todo[t]).op \notin SlotOps,
         \A u \in Threads \ {t} : todo'[u] = todo[u],
         NEW op2, NEW ops,
         \/ op2 = "nothing" /\ todo'[t] = <<>>
         \/ /\ op2 = Head(ops) /\ todo'[t] = Frames(ops, s)
            /\ ops \in EndLists \/ (ops \in NewLists /\ t = Acceptor) \/ ops = <<"callback">>
  PROVE  Shapes' /\ Advances(t, s, op2)
<1>1. Shapes
  BY DEF LifeInv
<1>2. CASE op2 = "nothing" /\ todo'[t] = <<>>
  <2>1. Shape(t)'
    BY <1>2 DEF Shape
  <2>2. Shapes'
    BY <1>1, <2>1 DEF Shapes, Shape
  <2> QED BY <1>2, <2>2 DEF Advances
<1>3. CASE /\ op2 = Head(ops) /\ todo'[t] = Frames(ops, s)
           /\ ops \in EndLists \/ (ops \in NewLists /\ t = Acceptor) \/ ops = <<"callback">>
  <2>1. \E A : ops \in Seq(A) /\ ops # <<>>
    <3>1. CASE ops = <<"callback">>
      <4>1. ops \in Seq({"callback"}) /\ ops # <<>>
        BY <3>1
      <4> QED BY <4>1
    <3> QED BY <1>3, <3>1, EndListsSeq, NewListsSeq
  <2>2. todo'[t] # <<>> /\ Head(todo'[t]) = Frame(op2, s)
    BY <1>3, <2>1, FramesFirst
  <2>3. Advances(t, s, op2)
    BY <2>2 DEF Advances
  <2>4. Shape(t)'
    <3>1. CASE ops \in EndLists
      BY <1>3, <3>1 DEF Shape, ListWord
    <3>2. CASE ops \in NewLists /\ t = Acceptor
      BY <1>3, <3>2 DEF Shape, ListWord
    <3>3. CASE ops = <<"callback">>
      <4>1. ops \in Seq(WorkOps) /\ ops # <<>> /\ ops[Len(ops)] \in {"release", "callback"}
        <5>1. "callback" \in WorkOps
          BY DEF WorkOps, UseOps
        <5> QED BY <3>3, <5>1
      <4>2. WorkWord(todo'[t], s)
        BY <1>3, <4>1, WorkBegins
      <4> QED BY <4>2 DEF Shape
    <3> QED BY <1>3, <3>1, <3>2, <3>3
  <2>5. Shapes'
    BY <1>1, <2>4 DEF Shapes, Shape
  <2> QED BY <2>3, <2>5
<1> QED BY <1>2, <1>3

(* A step of the life of slot s, and what it does to everything else. *)
Elsewhere(s) ==
  /\ \A r \in Slots \ {s} :
       /\ sess'[r] = sess[r] /\ (Free(r)' <=> Free(r))
       /\ Joining(r) => UNCHANGED <<netId, idOf>>
       /\ Live(r) /\ ~Joining(r) => idOf'[sess[r].Sock] = idOf[sess[r].Sock]
       /\ Live(r) => (sess[r].Index \in LeftIds' <=> sess[r].Index \in LeftIds)
  /\ netId' \in {netId, netId + 1}
  /\ \A c \in Conns : sock'[c] = "backlog" => sock[c] = "backlog"

LEMMA LifeStep ==
  ASSUME LifeInv, NEW t \in Threads, NEW s \in Slots, NEW op, NEW op2,
         Sole(t, op, s), Advances(t, s, op2), Stage(op2, s)', Elsewhere(s), Registered',
         op2 \in EnterOps \cup {"join"} => t = Acceptor
  PROVE  Life'
<1>1. /\ Sole(t, op2, s)'
      /\ \A r \in Slots \ {s}, u \in Threads, ops \in SUBSET SlotOps : Reaches(u, ops, r)' <=> Reaches(u, ops, r)
  BY StagesAdvance
<1>2. Alone(s)' /\ Named(s)'
  BY <1>1, StageNext
<1>3. ASSUME NEW r \in Slots \ {s} PROVE Alone(r)' /\ Named(r)'
  <2>1. Alone(r) /\ Named(r)
    BY DEF LifeInv, Life
  <2>2. netId \in Int /\ sess[r].Index.net \in Int
    BY DEF LifeInv, ServerTypeOK, AppOK, SessionsOK, SessionOK, Ids
  <2>3. \A u \in Threads, ops \in SUBSET SlotOps : Reaches(u, ops, r)' <=> Reaches(u, ops, r)
    BY <1>1
  <2> QED BY <2>1, <2>2, <2>3, OtherKept DEF Elsewhere
<1> QED BY <1>2, <1>3 DEF Life

(* Steps that change the session and the socket only. *)
LEMMA OwnStep ==
  ASSUME LifeInv, NEW t \in Threads, NEW s \in Slots, NEW op, NEW op2,
         Sole(t, op, s), Shapes', Advances(t, s, op2), Stage(op2, s)',
         op2 \in EnterOps \cup {"join"} => t = Acceptor, op2 \notin {"insert", "pop_slot"},
         \A r \in Slots \ {s} : sess'[r] = sess[r],
         \A c \in Conns : sock'[c] = "backlog" => sock[c] = "backlog",
         UNCHANGED <<indexStack, netId, clientCounter, clientSock, idOf, left>>
  PROVE  Shapes' /\ Life'
<1>1. LeftIds' = LeftIds /\ JoinedIds' = JoinedIds /\ ClientCount' = ClientCount /\ \A r : Free(r)' <=> Free(r)
  BY DEF LeftIds, JoinedIds, ClientCount, Free
<1>2. Elsewhere(s)
  BY <1>1 DEF Elsewhere
<1>3. \A r : Reaches(Acceptor, {"pop_slot", "insert"}, r)' => Reaches(Acceptor, {"pop_slot", "insert"}, r)
  <2>1. CASE t = Acceptor
    BY <2>1, MoreSlotOps DEF Advances, Reaches, Frame
  <2>2. CASE t # Acceptor
    BY <2>2, ThreadsFinite DEF Advances, Reaches, Slot
  <2> QED BY <2>1, <2>2
<1>4. Registered'
  BY <1>1, <1>3 DEF LifeInv, Life, Registered
<1> QED BY <1>2, <1>4, LifeStep

LEMMA LifeAt ==
  ASSUME LifeInv, NEW t \in Threads, NEW op, At(t, op), op \in EndOps \cup EnterOps \cup {"join"},
         NEW s, s = Slot(t)
  PROVE  /\ s \in Slots /\ Sole(t, op, s) /\ Stage(op, s)
         /\ Head(todo[t]).op = op /\ EndTail(todo[t], s) /\ NewTail(todo[t], s)
         /\ op \in EnterOps \cup {"join"} => t = Acceptor
         /\ DOMAIN sess = Slots /\ SessionOK(sess[s])
<1>1. ServerSound /\ Shapes /\ SessionsOK
  BY DEF LifeInv, IInv, ServerTypeOK
<1>2. s \in Slots /\ Head(todo[t]).op = op /\ todo[t] # <<>>
  BY <1>1, AtOp DEF ServerSound
<1>3. EndTail(todo[t], s) /\ NewTail(todo[t], s)
  BY <1>1, <1>2, EndAt, NewAt DEF Shapes
<1>4. Sole(t, op, s) /\ Stage(op, s) /\ (op \in EnterOps \cup {"join"} => t = Acceptor)
  BY <1>2, OnlyOneAt
<1> QED BY <1>1, <1>2, <1>3, <1>4 DEF SessionsOK

(* The session after the step: what its life depends on. *)
LifeOf(ss) == <<ss.Index, ss.Sock, ss.iocpCount, ss.sendQ, ss.completeSendQ>>

LEMMA LifeFields ==
  ASSUME NEW ss, SessionOK(ss)
  PROVE  /\ LifeOf([ss EXCEPT !.disconnectFlag = 0]) = LifeOf(ss)
         /\ LifeOf([ss EXCEPT !.sendFlag = 0, !.disconnectFlag = 0]) = LifeOf(ss)
         /\ LifeOf([ss EXCEPT !.sendCount = 0, !.completeSendQ = <<>>, !.sendQ = <<>>])
              = <<ss.Index, ss.Sock, ss.iocpCount, <<>>, <<>>>>
         /\ LifeOf([ss EXCEPT !.iocpCount = @ + 1])
              = <<ss.Index, ss.Sock, ss.iocpCount + 1, ss.sendQ, ss.completeSendQ>>
         /\ LifeOf([ss EXCEPT !.iocpCount = @ - 1])
              = <<ss.Index, ss.Sock, ss.iocpCount - 1, ss.sendQ, ss.completeSendQ>>
         /\ LifeOf([ss EXCEPT !.Sock = NoSock, !.Index = NoId])
              = <<NoId, NoSock, ss.iocpCount, ss.sendQ, ss.completeSendQ>>
BY DEF SessionOK, Fields, LifeOf

Naming == <<indexStack, netId, clientCounter, clientSock, idOf, left>>

(* From one stage to the next, with the names as they are. *)
LEMMA StageGoesOn ==
  ASSUME NEW s \in Slots, NEW op, NEW op2, Stage(op, s), UNCHANGED Naming,
         \A c \in Conns : sock'[c] = "backlog" => sock[c] = "backlog",
         \/ /\ LifeOf(sess'[s]) = LifeOf(sess[s])
            /\ <<op, op2>> \in {<<"disc_cas", "disc_count">>, <<"disc_cas", "nothing">>,
                                <<"disc_count", "leave">>, <<"disc_count", "nothing">>,
                                <<"test_id", "reclaim">>, <<"insert_flags", "insert_ref">>}
         \/ /\ LifeOf(sess'[s]) = <<sess[s].Index, sess[s].Sock, sess[s].iocpCount, <<>>, <<>>>>
            /\ <<op, op2>> = <<"drain", "test_id">>
         \/ /\ LifeOf(sess'[s]) = <<NoId, NoSock, sess[s].iocpCount, sess[s].sendQ, sess[s].completeSendQ>>
            /\ <<op, op2>> = <<"reclaim", "push_slot">>
         \/ /\ LifeOf(sess'[s]) = <<sess[s].Index, sess[s].Sock, sess[s].iocpCount + 1, sess[s].sendQ,
                                    sess[s].completeSendQ>>
            /\ <<op, op2>> = <<"insert_ref", "join">>
         \/ /\ LifeOf(sess'[s]) = <<sess[s].Index, sess[s].Sock, sess[s].iocpCount - 1, sess[s].sendQ,
                                    sess[s].completeSendQ>>
            /\ <<op, op2>> = <<"nothing", "disc_cas">> /\ sess[s].iocpCount = 1
  PROVE  Stage(op2, s)'
<1>1. LeftIds' = LeftIds /\ (Free(s)' <=> Free(s)) /\ UNCHANGED <<netId, idOf>>
  BY DEF Naming, LeftIds, Free
<1>2. PICK i, c, n, q, d : <<i, c, n, q, d>> = LifeOf(sess'[s])
  BY DEF LifeOf
<1>3. /\ sess'[s].Index = i /\ sess'[s].Sock = c /\ sess'[s].iocpCount = n
      /\ sess'[s].sendQ = q /\ sess'[s].completeSendQ = d
  BY <1>2 DEF LifeOf
<1> USE DEF EndOps, TeardownOps, EnterOps, StartOps, LastOps, GoneOps, HasSession
<1>4. CASE /\ LifeOf(sess'[s]) = LifeOf(sess[s])
            /\ <<op, op2>> \in {<<"disc_cas", "disc_count">>, <<"disc_cas", "nothing">>,
                                <<"disc_count", "leave">>, <<"disc_count", "nothing">>,
                                <<"test_id", "reclaim">>, <<"insert_flags", "insert_ref">>}
  <2>1. /\ i = sess[s].Index /\ c = sess[s].Sock /\ n = sess[s].iocpCount
        /\ q = sess[s].sendQ /\ d = sess[s].completeSendQ
    BY <1>2, <1>4 DEF LifeOf
  <2>2. StageCounts(op2, s)'
    BY <1>1, <1>3, <1>4, <2>1 DEF Stage, StageCounts
  <2>3. StageNames(op2, s)'
    BY <1>1, <1>3, <1>4, <2>1 DEF Stage, StageCounts, StageNames
  <2>4. StageQueues(op2, s)'
    BY <1>1, <1>3, <1>4, <2>1 DEF Stage, StageCounts, StageQueues
  <2> QED BY <2>2, <2>3, <2>4 DEF Stage
<1>5. CASE /\ LifeOf(sess'[s]) = <<sess[s].Index, sess[s].Sock, sess[s].iocpCount, <<>>, <<>>>>
           /\ <<op, op2>> = <<"drain", "test_id">>
  <2>1. /\ i = sess[s].Index /\ c = sess[s].Sock /\ n = sess[s].iocpCount
        /\ q = <<>> /\ d = <<>> /\ op = "drain" /\ op2 = "test_id"
    BY <1>2, <1>5 DEF LifeOf
  <2> QED BY <1>1, <1>3, <2>1 DEF Stage, StageCounts, StageNames, StageQueues
<1>6. CASE /\ LifeOf(sess'[s]) = <<NoId, NoSock, sess[s].iocpCount, sess[s].sendQ, sess[s].completeSendQ>>
           /\ <<op, op2>> = <<"reclaim", "push_slot">>
  <2>1. /\ i = NoId /\ c = NoSock /\ n = sess[s].iocpCount
        /\ q = sess[s].sendQ /\ d = sess[s].completeSendQ /\ op = "reclaim" /\ op2 = "push_slot"
    BY <1>2, <1>6 DEF LifeOf
  <2> QED BY <1>1, <1>3, <2>1 DEF Stage, StageCounts, StageNames, StageQueues
<1>7. CASE /\ LifeOf(sess'[s]) = <<sess[s].Index, sess[s].Sock, sess[s].iocpCount + 1, sess[s].sendQ,
                                   sess[s].completeSendQ>>
           /\ <<op, op2>> = <<"insert_ref", "join">>
  <2>1. /\ i = sess[s].Index /\ c = sess[s].Sock /\ n = sess[s].iocpCount + 1
        /\ q = sess[s].sendQ /\ d = sess[s].completeSendQ /\ op = "insert_ref" /\ op2 = "join"
    BY <1>2, <1>7 DEF LifeOf
  <2>2. n = 1 /\ ~Free(s)
    BY <2>1 DEF Stage, StageCounts
  <2> QED BY <1>1, <1>3, <2>1, <2>2 DEF Stage, StageCounts, StageNames, StageQueues
<1>8. CASE /\ LifeOf(sess'[s]) = <<sess[s].Index, sess[s].Sock, sess[s].iocpCount - 1, sess[s].sendQ,
                                   sess[s].completeSendQ>>
           /\ <<op, op2>> = <<"nothing", "disc_cas">> /\ sess[s].iocpCount = 1
  <2>1. /\ i = sess[s].Index /\ c = sess[s].Sock /\ n = sess[s].iocpCount - 1
        /\ q = sess[s].sendQ /\ d = sess[s].completeSendQ /\ op = "nothing" /\ op2 = "disc_cas"
    BY <1>2, <1>8 DEF LifeOf
  <2>2. n = 0 /\ ~Free(s)
    BY <1>8, <2>1 DEF Stage, StageCounts
  <2> QED BY <1>1, <1>3, <1>8, <2>1, <2>2 DEF Stage, StageCounts, StageNames, StageQueues
<1> QED BY <1>4, <1>5, <1>6, <1>7, <1>8

(* A thread at op goes on in the slot, with the names as they are. *)
LEMMA SlotStep ==
  ASSUME LifeInv, NEW t \in Threads, NEW op, At(t, op), NEW s, s = Slot(t),
         NEW L, Then(t, L), NEW op2, NEW ops,
         \/ op2 = "nothing" /\ L = <<>> /\ Tail(todo[t]) = <<>>
         \/ /\ op2 = Head(ops)
            /\ \/ L = ops /\ Tail(todo[t]) = <<>>
               \/ L = <<>> /\ Tail(todo[t]) = Frames(ops, s)
            /\ ops \in EndLists \/ (ops \in NewLists /\ t = Acceptor) \/ ops = <<"callback">>
  PROVE  Shapes' /\ Advances(t, s, op2)
<1>1. /\ \A u \in Threads \ {t} : todo'[u] = todo[u]
      /\ L = <<>> => todo'[t] = Tail(todo[t])
      /\ \A A : L \in Seq(A) /\ Tail(todo[t]) = <<>> => todo'[t] = Frames(L, s)
      /\ s \in Slots
  BY GoesTo
<1>2. CASE op2 = "nothing" /\ L = <<>> /\ Tail(todo[t]) = <<>>
  BY <1>1, <1>2, AdvancesBy
<1>3. CASE /\ op2 = Head(ops)
           /\ \/ L = ops /\ Tail(todo[t]) = <<>>
              \/ L = <<>> /\ Tail(todo[t]) = Frames(ops, s)
           /\ ops \in EndLists \/ (ops \in NewLists /\ t = Acceptor) \/ ops = <<"callback">>
  <2>1. \E A : ops \in Seq(A)
    <3>1. CASE ops = <<"callback">>
      <4>1. ops \in Seq({"callback"})
        BY <3>1
      <4> QED BY <4>1
    <3> QED BY <1>3, <3>1, EndListsSeq, NewListsSeq
  <2>2. todo'[t] = Frames(ops, s)
    BY <1>1, <1>3, <2>1
  <2> QED BY <1>1, <1>3, <2>2, AdvancesBy
<1> QED BY <1>2, <1>3

LEMMA ServerVarsKept == UNCHANGED serverVars => UNCHANGED Naming
BY DEF serverVars, server, app, Naming

LEMMA OneSession ==
  ASSUME LifeInv, NEW s \in Slots, NEW x, sess' = [sess EXCEPT ![s] = x]
  PROVE  sess'[s] = x /\ \A r \in Slots \ {s} : sess'[r] = sess[r]
BY DEF LifeInv, ServerTypeOK, SessionsOK

(* disconnect (IOCPServer.cpp:511-539): the flag, the count, *)
LEMMA DiscCASLife ==
  ASSUME LifeInv, NEW t \in Threads, DiscCAS(t), UNCHANGED serverVars
  PROVE  Shapes' /\ Life'
<1>1. At(t, "disc_cas") /\ UNCHANGED sock
  BY DEF DiscCAS, TakeFlag, OnlySession, kernel
<1>2. PICK s : s = Slot(t)
  OBVIOUS
<1>3. /\ s \in Slots /\ Sole(t, "disc_cas", s) /\ Stage("disc_cas", s)
      /\ EndTail(todo[t], s) /\ SessionOK(sess[s]) /\ Head(todo[t]).op = "disc_cas"
  BY <1>1, <1>2, LifeAt DEF EndOps
<1>4. Tail(todo[t]) = <<>>
  BY <1>3 DEF EndTail
<1>5. UNCHANGED Naming
  BY ServerVarsKept
<1>6. CASE sess[s].disconnectFlag = 1
  <2>1. Then(t, <<"disc_count">>) /\ sess' = [sess EXCEPT ![s] = [sess[s] EXCEPT !.disconnectFlag = 0]]
    BY <1>2, <1>6 DEF DiscCAS, TakeFlag
  <2>2. LifeOf(sess'[s]) = LifeOf(sess[s]) /\ \A r \in Slots \ {s} : sess'[r] = sess[r]
    BY <1>3, <2>1, OneSession, LifeFields
  <2>3. Shapes' /\ Advances(t, s, "disc_count")
    <3>1. PICK ops : ops = <<"disc_count">>
      OBVIOUS
    <3>2. Head(ops) = "disc_count" /\ ops \in EndLists
      BY <3>1 DEF EndLists
    <3> QED BY <1>1, <1>2, <1>4, <2>1, <3>1, <3>2, SlotStep
  <2>4. Stage("disc_count", s)'
    BY <1>1, <1>3, <1>5, <2>2, StageGoesOn
  <2> QED BY <1>1, <1>3, <1>5, <2>2, <2>3, <2>4, OwnStep DEF Naming, EnterOps
<1>7. CASE sess[s].disconnectFlag # 1
  <2>1. Then(t, <<>>) /\ sess' = sess
    BY <1>2, <1>7 DEF DiscCAS, TakeFlag
  <2>2. Shapes' /\ Advances(t, s, "nothing")
    BY <1>1, <1>2, <1>4, <2>1, SlotStep
  <2>3. Stage("nothing", s)'
    BY <1>1, <1>3, <1>5, <2>1, StageGoesOn
  <2> QED BY <1>1, <1>3, <1>5, <2>1, <2>2, <2>3, OwnStep DEF Naming, EnterOps
<1> QED BY <1>6, <1>7

LEMMA DiscCountLife ==
  ASSUME LifeInv, NEW t \in Threads, DiscCount(t), UNCHANGED serverVars
  PROVE  Shapes' /\ Life'
<1>1. At(t, "disc_count") /\ UNCHANGED <<sock, sess>>
  BY DEF DiscCount, Test, OnlyThread, OnlySession, kernel
<1>2. PICK s : s = Slot(t)
  OBVIOUS
<1>3. /\ s \in Slots /\ Sole(t, "disc_count", s) /\ Stage("disc_count", s)
      /\ EndTail(todo[t], s) /\ Head(todo[t]).op = "disc_count"
  BY <1>1, <1>2, LifeAt DEF EndOps
<1>4. Tail(todo[t]) = <<>>
  BY <1>3 DEF EndTail
<1>5. UNCHANGED Naming
  BY ServerVarsKept
<1>6. sess[s].iocpCount = 0
  BY <1>3 DEF Stage, StageCounts, EndOps
<1>7. PICK ops : ops = Teardown
  OBVIOUS
<1>8. Then(t, ops)
  BY <1>2, <1>6, <1>7 DEF DiscCount, Test
<1>9. Head(ops) = "leave" /\ ops \in EndLists
  BY <1>7 DEF EndLists, Teardown
<1>10. Shapes' /\ Advances(t, s, "leave")
  BY <1>1, <1>2, <1>4, <1>8, <1>9, SlotStep
<1>11. Stage("leave", s)'
  BY <1>1, <1>3, <1>5, StageGoesOn
<1> QED BY <1>1, <1>3, <1>5, <1>10, <1>11, OwnStep DEF Naming, EnterOps

(* the packets, *)
LEMMA DrainLife ==
  ASSUME LifeInv, NEW t \in Threads, Drain(t), UNCHANGED serverVars
  PROVE  Shapes' /\ Life'
<1>1. At(t, "drain") /\ UNCHANGED sock /\ Then(t, <<>>)
  BY DEF Drain, Update, OnlySession, kernel
<1>2. PICK s : s = Slot(t)
  OBVIOUS
<1>3. /\ s \in Slots /\ Sole(t, "drain", s) /\ Stage("drain", s)
      /\ EndTail(todo[t], s) /\ SessionOK(sess[s]) /\ Head(todo[t]).op = "drain"
  BY <1>1, <1>2, LifeAt DEF EndOps, TeardownOps
<1>4. UNCHANGED Naming
  BY ServerVarsKept
<1>5. PICK x : x = [sess[s] EXCEPT !.sendCount = 0, !.completeSendQ = <<>>, !.sendQ = <<>>]
  OBVIOUS
<1>6. sess' = [sess EXCEPT ![s] = x]
  BY <1>2, <1>5 DEF Drain, Update
<1>7. /\ LifeOf(sess'[s]) = <<sess[s].Index, sess[s].Sock, sess[s].iocpCount, <<>>, <<>>>>
      /\ \A r \in Slots \ {s} : sess'[r] = sess[r]
  <2>1. sess'[s] = x /\ \A r \in Slots \ {s} : sess'[r] = sess[r]
    BY <1>3, <1>6, OneSession
  <2>2. LifeOf(x) = <<sess[s].Index, sess[s].Sock, sess[s].iocpCount, <<>>, <<>>>>
    BY <1>3, <1>5, LifeFields
  <2> QED BY <2>1, <2>2
<1>8. PICK ops : ops = <<"test_id", "reclaim", "push_slot">>
  OBVIOUS
<1>9. Tail(todo[t]) = Frames(ops, s) /\ Head(ops) = "test_id" /\ ops \in EndLists
  BY <1>3, <1>8 DEF EndTail, EndLists
<1>10. Shapes' /\ Advances(t, s, "test_id")
  BY <1>1, <1>2, <1>9, SlotStep
<1>11. Stage("test_id", s)'
  BY <1>1, <1>3, <1>4, <1>7, StageGoesOn
<1> QED BY <1>1, <1>3, <1>4, <1>7, <1>10, <1>11, OwnStep DEF Naming, EnterOps

(* the check that the slot has a session: it has, *)
LEMMA TestIdLife ==
  ASSUME LifeInv, NEW t \in Threads, TestId(t), UNCHANGED serverVars
  PROVE  Shapes' /\ Life' /\ crashed' = "no"
<1>1. At(t, "test_id")
  BY DEF TestId
<1>2. PICK s : s = Slot(t)
  OBVIOUS
<1>3. /\ s \in Slots /\ Sole(t, "test_id", s) /\ Stage("test_id", s)
      /\ EndTail(todo[t], s) /\ Head(todo[t]).op = "test_id"
  BY <1>1, <1>2, LifeAt DEF EndOps, TeardownOps
<1>4. UNCHANGED Naming
  BY ServerVarsKept
<1>5. sess[s].Index.slot # 0
  BY <1>3 DEF Stage, StageNames, HasSession, EndOps, TeardownOps
<1>6. Then(t, <<>>) /\ UNCHANGED <<sess, sock>> /\ crashed' = "no"
  BY <1>1, <1>2, <1>5 DEF TestId, OnlyThread, OnlySession, kernel, At
<1>8. PICK ops : ops = <<"reclaim", "push_slot">>
  OBVIOUS
<1>9. Tail(todo[t]) = Frames(ops, s) /\ Head(ops) = "reclaim" /\ ops \in EndLists
  BY <1>3, <1>8 DEF EndTail, EndLists
<1>10. Shapes' /\ Advances(t, s, "reclaim")
  BY <1>1, <1>2, <1>6, <1>9, SlotStep
<1>11. Stage("reclaim", s)'
  BY <1>3, <1>4, <1>6, StageGoesOn
<1> QED BY <1>3, <1>4, <1>6, <1>10, <1>11, OwnStep DEF Naming, EnterOps

(* and its socket and its id. *)
LEMMA ReclaimLife ==
  ASSUME LifeInv, NEW t \in Threads, Reclaim(t), UNCHANGED serverVars
  PROVE  Shapes' /\ Life'
<1>1. At(t, "reclaim") /\ Then(t, <<>>)
  BY DEF Reclaim
<1>2. PICK s : s = Slot(t)
  OBVIOUS
<1>3. /\ s \in Slots /\ Sole(t, "reclaim", s) /\ Stage("reclaim", s)
      /\ EndTail(todo[t], s) /\ SessionOK(sess[s]) /\ Head(todo[t]).op = "reclaim"
  BY <1>1, <1>2, LifeAt DEF EndOps, TeardownOps
<1>4. UNCHANGED Naming
  BY ServerVarsKept
<1>5. PICK x : x = [sess[s] EXCEPT !.Sock = NoSock, !.Index = NoId]
  OBVIOUS
<1>6. sess' = [sess EXCEPT ![s] = x]
  BY <1>2, <1>5 DEF Reclaim
<1>7. /\ LifeOf(sess'[s]) = <<NoId, NoSock, sess[s].iocpCount, sess[s].sendQ, sess[s].completeSendQ>>
      /\ \A r \in Slots \ {s} : sess'[r] = sess[r]
  <2>1. sess'[s] = x /\ \A r \in Slots \ {s} : sess'[r] = sess[r]
    BY <1>3, <1>6, OneSession
  <2>2. LifeOf(x) = <<NoId, NoSock, sess[s].iocpCount, sess[s].sendQ, sess[s].completeSendQ>>
    BY <1>3, <1>5, LifeFields
  <2> QED BY <2>1, <2>2
<1>8. PICK ops : ops = <<"push_slot">>
  OBVIOUS
<1>9. Tail(todo[t]) = Frames(ops, s) /\ Head(ops) = "push_slot" /\ ops \in EndLists
  BY <1>3, <1>8 DEF EndTail, EndLists
<1>10. Shapes' /\ Advances(t, s, "push_slot")
  BY <1>1, <1>2, <1>9, SlotStep
<1>11. \A c \in Conns : sock'[c] = "backlog" => sock[c] = "backlog"
  BY DEF Reclaim
<1>12. Stage("push_slot", s)'
  BY <1>3, <1>4, <1>7, <1>11, StageGoesOn
<1> QED BY <1>3, <1>4, <1>7, <1>10, <1>11, <1>12, OwnStep DEF Naming, EnterOps

(* A new session: its flags, and its first reference (l.286-288). *)
LEMMA InsertFlagsLife ==
  ASSUME LifeInv, NEW t \in Threads, InsertFlags(t), UNCHANGED serverVars
  PROVE  Shapes' /\ Life'
<1>1. At(t, "insert_flags") /\ UNCHANGED sock /\ Then(t, <<>>)
  BY DEF InsertFlags, Update, OnlySession, kernel
<1>2. PICK s : s = Slot(t)
  OBVIOUS
<1>3. /\ s \in Slots /\ Sole(t, "insert_flags", s) /\ Stage("insert_flags", s) /\ t = Acceptor
      /\ NewTail(todo[t], s) /\ SessionOK(sess[s]) /\ Head(todo[t]).op = "insert_flags"
  BY <1>1, <1>2, LifeAt DEF EnterOps
<1>4. UNCHANGED Naming
  BY ServerVarsKept
<1>5. PICK x : x = [sess[s] EXCEPT !.sendFlag = 0, !.disconnectFlag = 0]
  OBVIOUS
<1>6. sess' = [sess EXCEPT ![s] = x]
  BY <1>2, <1>5 DEF InsertFlags, Update
<1>7. LifeOf(sess'[s]) = LifeOf(sess[s]) /\ \A r \in Slots \ {s} : sess'[r] = sess[r]
  <2>1. sess'[s] = x /\ \A r \in Slots \ {s} : sess'[r] = sess[r]
    BY <1>3, <1>6, OneSession
  <2>2. LifeOf(x) = LifeOf(sess[s])
    BY <1>3, <1>5, LifeFields
  <2> QED BY <2>1, <2>2
<1>8. PICK ops : ops = <<"insert_ref", "join", "callback">>
  OBVIOUS
<1>9. Tail(todo[t]) = Frames(ops, s) /\ Head(ops) = "insert_ref" /\ ops \in NewLists
  BY <1>3, <1>8 DEF NewTail, NewLists
<1>10. Shapes' /\ Advances(t, s, "insert_ref")
  BY <1>1, <1>2, <1>3, <1>9, SlotStep
<1>11. Stage("insert_ref", s)'
  BY <1>1, <1>3, <1>4, <1>7, StageGoesOn
<1> QED BY <1>1, <1>3, <1>4, <1>7, <1>10, <1>11, OwnStep DEF Naming

LEMMA InsertRefLife ==
  ASSUME LifeInv, NEW t \in Threads, InsertRef(t), UNCHANGED serverVars
  PROVE  Shapes' /\ Life'
<1>1. At(t, "insert_ref") /\ UNCHANGED sock /\ Then(t, <<>>)
  BY DEF InsertRef, Update, OnlySession, kernel
<1>2. PICK s : s = Slot(t)
  OBVIOUS
<1>3. /\ s \in Slots /\ Sole(t, "insert_ref", s) /\ Stage("insert_ref", s) /\ t = Acceptor
      /\ NewTail(todo[t], s) /\ SessionOK(sess[s]) /\ Head(todo[t]).op = "insert_ref"
  BY <1>1, <1>2, LifeAt DEF EnterOps
<1>4. UNCHANGED Naming
  BY ServerVarsKept
<1>5. PICK x : x = [sess[s] EXCEPT !.iocpCount = @ + 1]
  OBVIOUS
<1>6. sess' = [sess EXCEPT ![s] = x]
  BY <1>2, <1>5 DEF InsertRef, Update
<1>7. /\ LifeOf(sess'[s]) = <<sess[s].Index, sess[s].Sock, sess[s].iocpCount + 1, sess[s].sendQ,
                              sess[s].completeSendQ>>
      /\ \A r \in Slots \ {s} : sess'[r] = sess[r]
  <2>1. sess'[s] = x /\ \A r \in Slots \ {s} : sess'[r] = sess[r]
    BY <1>3, <1>6, OneSession
  <2>2. LifeOf(x) = <<sess[s].Index, sess[s].Sock, sess[s].iocpCount + 1, sess[s].sendQ,
                                      sess[s].completeSendQ>>
    BY <1>3, <1>5, LifeFields
  <2> QED BY <2>1, <2>2
<1>8. PICK ops : ops = <<"join", "callback">>
  OBVIOUS
<1>9. Tail(todo[t]) = Frames(ops, s) /\ Head(ops) = "join" /\ ops \in NewLists
  BY <1>3, <1>8 DEF NewTail, NewLists
<1>10. Shapes' /\ Advances(t, s, "join")
  BY <1>1, <1>2, <1>3, <1>9, SlotStep
<1>11. Stage("join", s)'
  BY <1>1, <1>3, <1>4, <1>7, StageGoesOn
<1> QED BY <1>1, <1>3, <1>4, <1>7, <1>10, <1>11, OwnStep DEF Naming

(* The last reference is given back: its thread ends the session. *)
LEMMA ReleaseLife ==
  ASSUME LifeInv, NEW t \in Threads, Release(t), UNCHANGED serverVars
  PROVE  Shapes' /\ Life'
<1>1. At(t, "release") /\ UNCHANGED sock
  BY DEF Release, OnlySession, kernel
<1>2. PICK s : s = Slot(t)
  OBVIOUS
<1>3. UNCHANGED Naming
  BY ServerVarsKept
<1>4. CASE sess[s].iocpCount # 1
  BY <1>2, <1>3, <1>4, ReleaseWork, WorkingLife DEF Naming
<1>5. CASE sess[s].iocpCount = 1
  <2>1. ServerSound /\ RefCountExact /\ Shapes /\ s \in Slots /\ SessionOK(sess[s])
    BY <1>1, <1>2, SlotOK DEF LifeInv, IInv
  <2>2. WorkWord(todo[t], s) /\ Head(todo[t]).op = "release"
    BY <1>1, <1>2, OwnSlot DEF WorkOps, At
  <2>3. ~Joins(s) /\ Tail(todo[t]) = <<>>
    BY <1>5, <2>1, <2>2, WorkCounts DEF Joins
  <2>4. Sole(t, "nothing", s) /\ Stage("nothing", s)
    BY <1>5, <2>1, <2>3, OnlyOneAt
  <2>5. PICK x : x = [sess[s] EXCEPT !.iocpCount = @ - 1]
    OBVIOUS
  <2>6. sess' = [sess EXCEPT ![s] = x] /\ Then(t, <<"disc_cas">>)
    BY <1>2, <1>5, <2>5 DEF Release
  <2>7. /\ LifeOf(sess'[s]) = <<sess[s].Index, sess[s].Sock, sess[s].iocpCount - 1, sess[s].sendQ,
                                sess[s].completeSendQ>>
        /\ \A r \in Slots \ {s} : sess'[r] = sess[r]
    <3>1. sess'[s] = x /\ \A r \in Slots \ {s} : sess'[r] = sess[r]
      BY <2>1, <2>6, OneSession
    <3>2. LifeOf(x) = <<sess[s].Index, sess[s].Sock, sess[s].iocpCount - 1, sess[s].sendQ,
                                        sess[s].completeSendQ>>
      BY <2>1, <2>5, LifeFields
    <3> QED BY <3>1, <3>2
  <2>8. PICK ops : ops = <<"disc_cas">>
    OBVIOUS
  <2>9. Head(ops) = "disc_cas" /\ ops \in EndLists
    BY <2>8 DEF EndLists
  <2>10. Shapes' /\ Advances(t, s, "disc_cas")
    BY <1>1, <1>2, <2>3, <2>6, <2>8, <2>9, SlotStep
  <2>11. Stage("disc_cas", s)'
    BY <1>1, <1>3, <1>5, <2>1, <2>4, <2>7, StageGoesOn
  <2> QED BY <1>1, <1>3, <2>1, <2>4, <2>7, <2>10, <2>11, OwnStep DEF Naming, EnterOps
<1> QED BY <1>4, <1>5

LEMMA InjectiveAppended ==
  ASSUME NEW S, NEW q \in Seq(S), NEW e \in S, IsInjective(q), e \notin ToSet(q)
  PROVE  IsInjective(Append(q, e))
<1>1. PICK n : n = Len(q)
  OBVIOUS
<1>2. /\ n \in Nat /\ DOMAIN Append(q, e) = 1 .. n + 1 /\ DOMAIN q = 1 .. n
      /\ \A a \in 1 .. n : Append(q, e)[a] = q[a]
      /\ Append(q, e)[n + 1] = e
  BY <1>1, AppendProperties, LenProperties
<1>3. \A a \in 1 .. n : q[a] # e
  BY <1>1, MembersOf
<1>4. \A a, b \in 1 .. n : q[a] = q[b] => a = b
  BY <1>2 DEF IsInjective
<1>5. ASSUME NEW a \in 1 .. n + 1, NEW b \in 1 .. n + 1, Append(q, e)[a] = Append(q, e)[b]
      PROVE  a = b
  <2>1. (a \in 1 .. n \/ a = n + 1) /\ (b \in 1 .. n \/ b = n + 1)
    BY <1>2
  <2> QED BY <1>2, <1>3, <1>4, <1>5, <2>1
<1> QED BY <1>2, <1>5 DEF IsInjective

(* OnClientLeave (l.516-517). *)
LEMMA LeaveLife ==
  ASSUME LifeInv, NEW t \in Threads, Leave(t)
  PROVE  Shapes' /\ Life'
<1>1. /\ At(t, "leave") /\ Then(t, <<>>)
      /\ UNCHANGED <<sess, sock, indexStack, netId, clientSock, idOf>>
  BY DEF Leave, OnlyThread, OnlySession, kernel
<1>2. PICK s : s = Slot(t)
  OBVIOUS
<1>3. /\ s \in Slots /\ Sole(t, "leave", s) /\ Stage("leave", s)
      /\ EndTail(todo[t], s) /\ SessionOK(sess[s]) /\ Head(todo[t]).op = "leave"
  BY <1>1, <1>2, LifeAt DEF EndOps, TeardownOps
<1>4. PICK i : i = sess[s].Index
  OBVIOUS
<1>5. /\ s # 0 /\ i.slot = s /\ sess[s].Sock \in Conns /\ idOf[sess[s].Sock] = i /\ i \notin LeftIds
      /\ sess[s].iocpCount = 0 /\ ~Free(s) /\ i.net < netId
  BY <1>3, <1>4
     DEF Stage, StageCounts, StageNames, HasSession, EndOps, TeardownOps, StartOps, GoneOps
<1>6. left' = Append(left, i) /\ clientCounter' = clientCounter - 1
  BY <1>2, <1>4 DEF Leave
<1>7. left \in Seq(Ids) /\ i \in Ids /\ clientCounter \in Int
  BY <1>3, <1>4 DEF LifeInv, ServerTypeOK, AppOK, SessionOK
<1>8. LeftIds' = LeftIds \cup {i} /\ Len(left') = Len(left) + 1 /\ Len(left) \in Nat
  <2>1. ToSet(Append(left, i)) = ToSet(left) \cup {i}
    BY <1>7, MembersAppended
  <2>2. LeftIds' = LeftIds \cup {i}
    BY <1>6, <2>1 DEF LeftIds
  <2>3. Len(Append(left, i)) = Len(left) + 1 /\ Len(left) \in Nat
    BY <1>7
  <2> QED BY <1>6, <2>2, <2>3
<1>9. JoinedIds' = JoinedIds /\ i \in JoinedIds
  BY <1>1, <1>5 DEF JoinedIds, NoId, Id
<1>10. PICK ops : ops = <<"drain", "test_id", "reclaim", "push_slot">>
  OBVIOUS
<1>11. Tail(todo[t]) = Frames(ops, s) /\ Head(ops) = "drain" /\ ops \in EndLists
  BY <1>3, <1>10 DEF EndTail, EndLists
<1>12. Shapes' /\ Advances(t, s, "drain")
  BY <1>1, <1>2, <1>11, SlotStep
<1>13. Stage("drain", s)'
  <2>1. UNCHANGED <<netId, idOf, sess>> /\ (Free(s)' <=> Free(s))
    BY <1>1 DEF Free
  <2>2. sess[s].Index \in LeftIds'
    BY <1>4, <1>8
  <2> QED BY <1>4, <1>5, <2>1, <2>2
     DEF Stage, StageCounts, StageNames, StageQueues, HasSession, EndOps, TeardownOps, StartOps, GoneOps,
         EnterOps, LastOps
<1>14. Elsewhere(s)
  <2>1. \A r \in Slots \ {s} : Live(r) => sess[r].Index # i
    BY <1>5 DEF LifeInv, Life, Named
  <2> QED BY <1>1, <1>8, <2>1 DEF Elsewhere, Free
<1>15. Registered'
  <2>1. Registered
    BY DEF LifeInv, Life
  <2>2. \A r : Reaches(Acceptor, {"pop_slot", "insert"}, r)' => Reaches(Acceptor, {"pop_slot", "insert"}, r)
    <3>1. CASE t = Acceptor
      BY <1>12, <3>1, MoreSlotOps DEF Advances, Reaches, Frame
    <3>2. CASE t # Acceptor
      BY <1>12, <3>2, ThreadsFinite DEF Advances, Reaches, Slot
    <3> QED BY <3>1, <3>2
  <2>3. LeftIds' \subseteq JoinedIds' /\ IsFiniteSet(JoinedIds)'
    BY <1>8, <1>9, <2>1 DEF Registered
  <2>4. IsInjective(left')
    <3>1. IsInjective(left) /\ i \notin ToSet(left)
      BY <1>5, <2>1 DEF Registered, ClientCount, LeftIds
    <3> QED BY <1>6, <1>7, <3>1, InjectiveAppended
  <2>5. clientCounter' = Cardinality(JoinedIds' \ LeftIds')
    <3>1. PICK S, n : S = JoinedIds \ LeftIds /\ n = Cardinality(S)
      OBVIOUS
    <3>2. IsFiniteSet(S) /\ clientCounter = n /\ i \in S
      BY <1>5, <1>9, <2>1, <3>1, FS_Difference DEF Registered, ClientCount
    <3>3. Cardinality(S \ {i}) = n - 1
      BY <3>1, <3>2, FS_RemoveElement
    <3>4. JoinedIds' \ LeftIds' = S \ {i}
      BY <1>8, <1>9, <3>1
    <3> QED BY <1>6, <3>2, <3>3, <3>4
  <2>6. ClientCount'
    BY <2>3, <2>4, <2>5 DEF ClientCount
  <2> QED BY <1>1, <2>1, <2>2, <2>3, <2>6 DEF Registered
<1> QED BY <1>3, <1>12, <1>13, <1>14, <1>15, LifeStep DEF EnterOps

(* The slot goes back to the stack (l.538). *)
LEMMA PushSlotLife ==
  ASSUME LifeInv, NEW t \in Threads, PushSlot(t)
  PROVE  Shapes' /\ Life'
<1>1. /\ At(t, "push_slot") /\ Then(t, <<>>)
      /\ UNCHANGED <<sess, sock, netId, clientCounter, clientSock, idOf, left>>
  BY DEF PushSlot, OnlyThread, OnlySession, kernel, app
<1>2. PICK s : s = Slot(t)
  OBVIOUS
<1>3. /\ s \in Slots /\ Sole(t, "push_slot", s) /\ Stage("push_slot", s)
      /\ EndTail(todo[t], s) /\ Head(todo[t]).op = "push_slot"
  BY <1>1, <1>2, LifeAt DEF EndOps, TeardownOps
<1>4. indexStack' = <<s>> \o indexStack /\ indexStack \in Seq(Slots) /\ Registered
  BY <1>2 DEF PushSlot, LifeInv, IInv, SlotNumbers, Life
<1>5. ~Free(s) /\ sess[s].iocpCount = 0
  BY <1>3 DEF Stage, StageCounts, EndOps, TeardownOps
<1>6. IsInjective(indexStack') /\ \A r : Free(r)' <=> Free(r) \/ r = s
  <2>1. s \notin ToSet(indexStack) /\ IsInjective(indexStack)
    BY <1>4, <1>5 DEF Free, Registered
  <2>2. ToSet(<<s>> \o indexStack) = ToSet(indexStack) \cup {s} /\ IsInjective(<<s>> \o indexStack)
    BY <1>3, <1>4, <2>1, MembersPrepended
  <2>3. ToSet(indexStack') = ToSet(indexStack) \cup {s}
    BY <1>4, <2>2
  <2> QED BY <1>4, <2>2, <2>3 DEF Free
<1>7. Tail(todo[t]) = <<>>
  BY <1>3 DEF EndTail
<1>8. Shapes' /\ Advances(t, s, "nothing")
  BY <1>1, <1>2, <1>7, SlotStep
<1>9. LeftIds' = LeftIds /\ JoinedIds' = JoinedIds /\ ClientCount' = ClientCount
  BY <1>1 DEF LeftIds, JoinedIds, ClientCount
<1>10. Stage("nothing", s)'
  BY <1>1, <1>3, <1>5
     DEF Stage, StageCounts, StageNames, StageQueues, HasSession, EndOps, TeardownOps, StartOps, EnterOps, LastOps
<1>11. Elsewhere(s)
  BY <1>1, <1>6, <1>9 DEF Elsewhere
<1>12. Registered'
  <2>1. \A r : Reaches(Acceptor, {"pop_slot", "insert"}, r)' => Reaches(Acceptor, {"pop_slot", "insert"}, r)
    <3>1. CASE t = Acceptor
      BY <1>8, <3>1 DEF Advances, Reaches, Frame
    <3>2. CASE t # Acceptor
      BY <1>8, <3>2, ThreadsFinite DEF Advances, Reaches, Slot
    <3> QED BY <3>1, <3>2
  <2> QED BY <1>1, <1>4, <1>6, <1>9, <2>1 DEF Registered
<1> QED BY <1>3, <1>8, <1>10, <1>11, <1>12, LifeStep DEF EnterOps

(* and is taken from there for the next session (l.275-280). *)
LEMMA PopSlotLife ==
  ASSUME LifeInv, NEW t \in Threads, PopSlot(t)
  PROVE  Shapes' /\ Life'
<1>1. CASE indexStack = <<>>
  BY <1>1, CrashLife DEF PopSlot
<1>2. CASE indexStack # <<>> /\ Head(indexStack) = 0
  BY <1>2, CrashLife DEF PopSlot
<1>3. CASE indexStack # <<>> /\ Head(indexStack) # 0
  <2>1. /\ At(t, "pop_slot") /\ indexStack' = Tail(indexStack)
        /\ UNCHANGED <<sess, sock, netId, clientCounter, clientSock, idOf, left>>
    BY <1>3 DEF PopSlot, OnlyThread, OnlySession, kernel, app
  <2>2. PICK s, ops : s = Head(indexStack) /\ ops = NewSession
    OBVIOUS
  <2>3. /\ s \in Slots /\ s # 0 /\ Tail(indexStack) \in Seq(Slots) /\ ToSet(indexStack) = ToSet(Tail(indexStack)) \cup {s}
        /\ IsInjective(Tail(indexStack)) /\ s \notin ToSet(Tail(indexStack))
    <3>1. indexStack \in Seq(Slots) /\ IsInjective(indexStack)
      BY DEF LifeInv, IInv, SlotNumbers, Life, Registered
    <3> QED BY <1>3, <2>2, <3>1, MembersOfTail
  <2>4. Free(s) /\ ~Free(s)' /\ IsInjective(indexStack') /\ \A r \in Slots \ {s} : Free(r)' <=> Free(r)
    BY <2>1, <2>3 DEF Free
  <2>5. Sole(t, "nothing", s) /\ Stage("nothing", s)
    BY <2>3, <2>4, OnlyOneAt
  <2>6. ServerSound /\ Shapes /\ Registered /\ Slot(t) \in Slots
    BY <2>1, SlotOK DEF LifeInv, IInv, Life
  <2>7. todo[t] # <<>> /\ Head(todo[t]).op = "pop_slot"
    BY <2>1 DEF At
  <2>8. Tail(todo[t]) = <<>> /\ t = Acceptor
    BY <2>6, <2>7, NewAt DEF Shapes, NewTail, NewOps
  <2>9. todo'[t] = Frames(ops, s) /\ \A u \in Threads \ {t} : todo'[u] = todo[u]
    <3>1. DOMAIN todo = Threads
      BY <2>6 DEF ServerSound, Sound, Running, Queues
    <3>2. PICK f : f = Frames(ops, s)
      OBVIOUS
    <3>3. todo' = [todo EXCEPT ![t] = f \o Tail(todo[t])]
      BY <1>3, <2>2, <3>2 DEF PopSlot
    <3>4. ops \in Seq(NewOps)
      BY <2>2 DEF NewSession, NewOps
    <3>5. f \in Seq(Todo(NewOps, {s}))
      BY <3>2, <3>4, FramesList
    <3>6. f \o <<>> = f
      BY <3>5
    <3> QED BY <2>8, <3>1, <3>2, <3>3, <3>6
  <2>10. Head(ops) = "insert" /\ ops \in NewLists
    BY <2>2 DEF NewSession, NewLists
  <2>11. "pop_slot" \notin SlotOps
    BY DEF SlotOps
  <2>12. Shapes' /\ Advances(t, s, "insert")
    BY <2>3, <2>7, <2>8, <2>9, <2>10, <2>11, AdvancesBy
  <2>13. LeftIds' = LeftIds /\ JoinedIds' = JoinedIds /\ ClientCount' = ClientCount
    BY <2>1 DEF LeftIds, JoinedIds, ClientCount
  <2>14. Stage("insert", s)'
    BY <2>1, <2>3, <2>4, <2>5
       DEF Stage, StageCounts, StageNames, StageQueues, HasSession, EndOps, TeardownOps, StartOps, EnterOps, LastOps
  <2>15. Elsewhere(s)
    BY <2>1, <2>4, <2>13 DEF Elsewhere
  <2>16. Registered'
    <3>1. Reaches(Acceptor, {"pop_slot", "insert"}, Slot(t))
      BY <2>7, <2>8 DEF Reaches
    <3> QED BY <2>1, <2>4, <2>6, <2>13, <3>1 DEF Registered
  <2> QED BY <2>3, <2>5, <2>8, <2>12, <2>14, <2>15, <2>16, LifeStep
<1> QED BY <1>1, <1>2, <1>3

(* The session gets its id and its socket (l.282-284). *)
LEMMA InsertLife ==
  ASSUME LifeInv, NEW t \in Threads, Insert(t)
  PROVE  Shapes' /\ Life'
<1>1. /\ At(t, "insert") /\ Then(t, <<>>)
      /\ UNCHANGED <<sock, indexStack, clientCounter, idOf, left>> /\ netId' = netId + 1 /\ clientSock' = NoSock
  BY DEF Insert, OnlySession, kernel, app, NextNetId
<1>2. PICK s : s = Slot(t)
  OBVIOUS
<1>3. /\ s \in Slots /\ Sole(t, "insert", s) /\ Stage("insert", s) /\ t = Acceptor
      /\ NewTail(todo[t], s) /\ SessionOK(sess[s]) /\ Head(todo[t]).op = "insert"
  BY <1>1, <1>2, LifeAt DEF EnterOps
<1>4. PICK x : x = [sess[s] EXCEPT !.Index = Id(s, netId), !.Sock = clientSock]
  OBVIOUS
<1>5. sess' = [sess EXCEPT ![s] = x]
  BY <1>2, <1>4 DEF Insert
<1>6. sess'[s] = x /\ \A r \in Slots \ {s} : sess'[r] = sess[r]
  BY <1>3, <1>5, OneSession
<1>7. /\ x.Index.slot = s /\ x.Index.net = netId /\ x.Sock = clientSock /\ x.iocpCount = sess[s].iocpCount
      /\ x.sendQ = sess[s].sendQ /\ x.completeSendQ = sess[s].completeSendQ
  BY <1>3, <1>4 DEF SessionOK, Fields, Id
<1>8. Registered /\ netId \in Nat /\ \A c \in Conns : idOf[c].net \in Nat
  BY DEF LifeInv, Life, ServerTypeOK, AppOK, Ids
<1>9. clientSock \in Conns /\ idOf[clientSock] = NoId /\ sock[clientSock] # "backlog"
  <2>1. Reaches(Acceptor, {"pop_slot", "insert"}, s)
    BY <1>1, <1>2, <1>3 DEF Reaches, At
  <2> QED BY <1>3, <1>8, <2>1 DEF Registered
<1>10. LeftIds' = LeftIds /\ JoinedIds' = JoinedIds /\ ClientCount' = ClientCount /\ \A r : Free(r)' <=> Free(r)
  BY <1>1 DEF LeftIds, JoinedIds, ClientCount, Free
<1>11. PICK ops : ops = <<"insert_flags", "insert_ref", "join", "callback">>
  OBVIOUS
<1>12. Tail(todo[t]) = Frames(ops, s) /\ Head(ops) = "insert_flags" /\ ops \in NewLists
  BY <1>3, <1>11 DEF NewTail, NewLists
<1>13. Shapes' /\ Advances(t, s, "insert_flags")
  BY <1>1, <1>2, <1>3, <1>12, SlotStep
<1>14. x.Index \notin LeftIds
  <2>1. \A c \in Conns : idOf[c] # NoId => idOf[c].net < netId
    BY <1>8 DEF Registered
  <2>2. x.Index \notin JoinedIds
    BY <1>7, <1>8, <2>1 DEF JoinedIds
  <2> QED BY <1>8, <2>2 DEF Registered
<1>15. Stage("insert_flags", s)'
  <2>1. s # 0 /\ ~Free(s) /\ sess[s].iocpCount = 0 /\ sess[s].sendQ = <<>> /\ sess[s].completeSendQ = <<>>
    BY <1>3 DEF Stage, StageCounts, StageQueues, EnterOps
  <2>2. \A c \in Conns : idOf[c] = NoId \/ idOf[c].net < netId' - 1
    BY <1>1, <1>8 DEF Registered
  <2>3. x.Index.net < netId' /\ x.Index.net = netId' - 1
    BY <1>1, <1>7, <1>8
  <2>4. /\ sess'[s].Index.slot = s /\ sess'[s].Sock = clientSock /\ sess'[s].iocpCount = 0
        /\ sess'[s].Index.net < netId' /\ sess'[s].Index.net = netId' - 1 /\ sess'[s].Index \notin LeftIds'
        /\ sess'[s].sendQ = <<>> /\ sess'[s].completeSendQ = <<>> /\ ~Free(s)'
    BY <1>6, <1>7, <1>10, <1>14, <2>1, <2>3
  <2> QED BY <1>1, <1>9, <2>1, <2>2, <2>4
     DEF Stage, StageCounts, StageNames, StageQueues, HasSession, EndOps, TeardownOps, StartOps, EnterOps,
         LastOps, GoneOps
<1>16. Elsewhere(s)
  <2>1. \A r \in Slots \ {s} : ~Joining(r)
    BY <1>2, <1>3 DEF Joining, Reaches
  <2> QED BY <1>1, <1>6, <1>10, <2>1 DEF Elsewhere
<1>17. Registered'
  <2>1. \A r : ~Reaches(Acceptor, {"pop_slot", "insert"}, r)'
    BY <1>3, <1>13 DEF Advances, Reaches, Frame
  <2>2. \A c \in Conns : idOf[c] = NoId \/ idOf[c].net < netId'
    BY <1>1, <1>8 DEF Registered
  <2> QED BY <1>1, <1>8, <1>10, <2>1, <2>2 DEF Registered
<1> QED BY <1>3, <1>13, <1>15, <1>16, <1>17, LifeStep

(* OnClientJoin (l.211-213). *)
LEMMA JoinLife ==
  ASSUME LifeInv, NEW t \in Threads, Join(t)
  PROVE  Shapes' /\ Life'
<1>1. /\ At(t, "join") /\ Then(t, <<>>) /\ clientCounter' = clientCounter + 1
      /\ UNCHANGED <<sess, sock, indexStack, netId, clientSock, left>>
  BY DEF Join, OnlyThread, OnlySession, kernel
<1>2. PICK s : s = Slot(t)
  OBVIOUS
<1>3. /\ s \in Slots /\ Sole(t, "join", s) /\ Stage("join", s) /\ t = Acceptor
      /\ NewTail(todo[t], s) /\ SessionOK(sess[s]) /\ Head(todo[t]).op = "join"
  BY <1>1, <1>2, LifeAt
<1>4. PICK i, d : i = sess[s].Index /\ d = sess[s].Sock
  OBVIOUS
<1>5. /\ sess[s].iocpCount = 1 /\ s # 0 /\ i.slot = s /\ d \in Conns /\ i.net < netId /\ i \notin LeftIds
      /\ idOf[d] = NoId /\ sock[d] # "backlog" /\ i.net = netId - 1
      /\ \A c \in Conns : idOf[c] = NoId \/ idOf[c].net < netId - 1
  BY <1>3, <1>4 DEF Stage, StageCounts, StageNames, HasSession, StartOps, GoneOps
<1>6. idOf' = [c \in Conns |-> IF c = d THEN i ELSE idOf[c]]
  BY <1>2, <1>4 DEF Join
<1>7. Registered /\ netId \in Nat /\ clientCounter \in Int /\ DOMAIN idOf = Conns
      /\ \A c \in Conns : idOf[c].net \in Nat
  BY DEF LifeInv, Life, ServerTypeOK, AppOK, Ids
<1>8. i # NoId
  BY <1>5 DEF NoId, Id
<1>9. JoinedIds' = JoinedIds \cup {i} /\ i \notin JoinedIds
  <2>1. i \notin JoinedIds
    BY <1>5, <1>7, <1>8 DEF JoinedIds
  <2>2. ASSUME NEW z PROVE z \in JoinedIds' <=> z \in JoinedIds \cup {i}
    <3>1. z \in JoinedIds' <=> \E c \in Conns : z = idOf'[c] /\ z # NoId
      BY DEF JoinedIds
    <3>2. z \in JoinedIds <=> \E c \in Conns : z = idOf[c] /\ z # NoId
      BY DEF JoinedIds
    <3>3. \A c \in Conns : idOf'[c] = IF c = d THEN i ELSE idOf[c]
      BY <1>6
    <3> QED BY <1>5, <1>8, <3>1, <3>2, <3>3
  <2> QED BY <2>1, <2>2
<1>10. LeftIds' = LeftIds /\ \A r : Free(r)' <=> Free(r)
  BY <1>1 DEF LeftIds, Free
<1>11. PICK ops : ops = <<"callback">>
  OBVIOUS
<1>12. Tail(todo[t]) = Frames(ops, s) /\ Head(ops) = "callback"
  BY <1>3, <1>11 DEF NewTail
<1>13. Shapes' /\ Advances(t, s, "callback")
  BY <1>1, <1>2, <1>11, <1>12, SlotStep
<1>14. Stage("callback", s)'
  <2>1. ~Free(s)
    BY <1>5, <1>3 DEF Stage, StageCounts
  <2>2. idOf'[d] = i
    BY <1>5, <1>6
  <2>3. /\ sess'[s].Index = i /\ sess'[s].Sock = d /\ sess'[s].iocpCount = 1 /\ ~Free(s)'
        /\ i.net < netId' /\ i \notin LeftIds' /\ idOf'[sess'[s].Sock] = i
    BY <1>1, <1>4, <1>5, <1>10, <2>1, <2>2
  <2> QED BY <1>5, <2>3
     DEF Stage, StageCounts, StageNames, StageQueues, HasSession, EndOps, TeardownOps, StartOps, EnterOps,
         LastOps, GoneOps
<1>15. Elsewhere(s)
  <2>1. \A r \in Slots \ {s} : ~Joining(r)
    BY <1>2, <1>3 DEF Joining, Reaches
  <2>2. ASSUME NEW r \in Slots \ {s}, Live(r) PROVE idOf'[sess[r].Sock] = idOf[sess[r].Sock]
    <3>1. /\ sess[r].Index.slot = r /\ r # 0 /\ sess[r].Sock \in Conns /\ idOf[sess[r].Sock] = sess[r].Index
      BY <2>1, <2>2 DEF LifeInv, Life, Named
    <3>2. sess[r].Sock # d
      BY <1>5, <3>1 DEF NoId, Id
    <3> QED BY <1>6, <3>1, <3>2
  <2> QED BY <1>1, <1>10, <2>1, <2>2 DEF Elsewhere
<1>16. Registered'
  <2>1. \A r : ~Reaches(Acceptor, {"pop_slot", "insert"}, r)'
    BY <1>3, <1>13 DEF Advances, Reaches, Frame
  <2>2. \A c \in Conns : /\ sock[c] = "backlog" => idOf'[c] = NoId
                         /\ idOf'[c] = NoId \/ idOf'[c].net < netId
    BY <1>5, <1>6, <1>7 DEF Registered
  <2>3. LeftIds' \subseteq JoinedIds' /\ IsFiniteSet(JoinedIds)'
    BY <1>7, <1>9, <1>10, FS_AddElement DEF Registered
  <2>4. clientCounter' = Cardinality(JoinedIds' \ LeftIds')
    <3>1. PICK S, n : S = JoinedIds \ LeftIds /\ n = Cardinality(S)
      OBVIOUS
    <3>2. IsFiniteSet(S) /\ clientCounter = n /\ i \notin S
      BY <1>7, <1>9, <3>1, FS_Difference DEF Registered, ClientCount
    <3>3. Cardinality(S \cup {i}) = n + 1
      BY <3>1, <3>2, FS_AddElement
    <3>4. JoinedIds' \ LeftIds' = S \cup {i}
      BY <1>5, <1>9, <1>10, <3>1
    <3> QED BY <1>1, <3>2, <3>3, <3>4
  <2>5. ClientCount'
    BY <1>1, <1>7, <2>3, <2>4 DEF Registered, ClientCount
  <2> QED BY <1>1, <1>7, <2>1, <2>2, <2>3, <2>5 DEF Registered
<1>17. "callback" \notin EnterOps \cup {"join"}
  BY DEF EnterOps
<1> QED BY <1>3, <1>13, <1>14, <1>15, <1>16, <1>17, LifeStep

(* A client is refused, or accepted (l.195-208). *)
LEMMA AcceptLife ==
  ASSUME LifeInv, NEW c \in Conns, Accept(c)
  PROVE  Shapes' /\ Life'
<1>1. /\ todo[Acceptor] = <<>> /\ sock[c] = "backlog"
      /\ UNCHANGED <<sess, indexStack, netId, clientCounter, idOf, left>>
  BY DEF Accept, Idle, server, app
<1>2. DOMAIN sock = Conns /\ DOMAIN todo = Threads /\ Acceptor \in Threads /\ 0 \in Slots
  BY ThreadsFinite DEF LifeInv, IInv, ServerTypeOK, NetworkOK, ServerSound, Sound, Running, Queues
<1>3. ASSUME sock' = [sock EXCEPT ![c] = "closed"], UNCHANGED <<todo, clientSock>> PROVE Shapes' /\ Life'
  <2>1. \A b \in Conns : sock'[b] = "backlog" => sock[b] = "backlog"
    BY <1>2, <1>3
  <2> QED BY <1>1, <1>3, <2>1, StillLife
<1>4. ASSUME sock' = [sock EXCEPT ![c] = "open"], clientSock' = c,
             todo' = [todo EXCEPT ![Acceptor] = <<Frame("pop_slot", 0)>>]
      PROVE  Shapes' /\ Life'
  <2>1. \A b \in Conns : sock'[b] = "backlog" => sock[b] = "backlog" /\ b # c
    BY <1>2, <1>4
  <2>2. PICK w, ops : w = Frames(ops, 0) /\ ops = <<"pop_slot">>
    OBVIOUS
  <2>3. todo'[Acceptor] = w /\ \A u \in Threads \ {Acceptor} : todo'[u] = todo[u]
    <3>1. <<Frame("pop_slot", 0)>> = w
      BY <2>2, OneFrame
    <3> QED BY <1>2, <1>4, <3>1
  <2>4. w # <<>> /\ Head(w) = Frame("pop_slot", 0)
    <3>1. ops \in Seq({"pop_slot"}) /\ ops # <<>> /\ Head(ops) = "pop_slot"
      BY <2>2
    <3> QED BY <2>2, <3>1, FramesFirst
  <2>5. Shapes'
    <3>1. Shape(Acceptor)'
      BY <1>2, <2>2, <2>3 DEF Shape, ListWord
    <3> QED BY <2>3, <3>1 DEF LifeInv, Shapes, Shape
  <2>6. \A r : \A u \in Threads, ops2 \in SUBSET SlotOps : Reaches(u, ops2, r)' <=> Reaches(u, ops2, r)
    <3>1. \A r : \A ops2 \in SUBSET SlotOps : ~Reaches(Acceptor, ops2, r)' /\ ~Reaches(Acceptor, ops2, r)
      BY <1>1, <2>3, <2>4 DEF Reaches, Frame, SlotOps
    <3> QED BY <2>3, <3>1 DEF Reaches, Slot
  <2>7. LeftIds' = LeftIds /\ JoinedIds' = JoinedIds /\ ClientCount' = ClientCount /\ \A r : Free(r)' <=> Free(r)
    BY <1>1 DEF LeftIds, JoinedIds, ClientCount, Free
  <2>8. ASSUME NEW r \in Slots PROVE Alone(r)' /\ Named(r)'
    <3>1. Alone(r) /\ Named(r)
      BY DEF LifeInv, Life
    <3>2. netId \in Int /\ sess[r].Index.net \in Int
      BY DEF LifeInv, ServerTypeOK, AppOK, SessionsOK, SessionOK, Ids
    <3> QED BY <1>1, <2>1, <2>6, <2>7, <3>1, <3>2, OtherKept
  <2>9. Registered'
    <3>1. Registered
      BY DEF LifeInv, Life
    <3>2. clientSock' \in Conns /\ idOf'[clientSock'] = NoId /\ sock'[clientSock'] # "backlog"
      BY <1>1, <1>2, <1>4, <3>1 DEF Registered
    <3> QED BY <1>1, <2>1, <2>7, <3>1, <3>2 DEF Registered
  <2> QED BY <2>5, <2>8, <2>9 DEF Life
<1> QED BY <1>3, <1>4 DEF Accept
-----------------------------------------------------------------------------
(* THE INVARIANT *)

LEMMA LifeInit == Init /\ CallsFromCallbacks => LifeInv
<1> SUFFICES ASSUME Init, CallsFromCallbacks PROVE LifeInv
  OBVIOUS
<1>1. /\ sess = [s \in Slots |-> EmptySession] /\ todo = [t \in Threads |-> <<>>]
      /\ indexStack = [i \in 1 .. MaxClient |-> MaxClient - i] /\ MaxClient \in Nat
      /\ netId = 0 /\ clientCounter = 0 /\ clientSock = NoSock
      /\ idOf = [c \in Conns |-> NoId] /\ left = <<>>
  BY SizesAssumption DEF Init
<1>2. Shapes
  BY <1>1 DEF Shapes, Shape
<1>3. \A t \in Threads, s \in Slots : \A ops : ~Reaches(t, ops, s)
  BY <1>1 DEF Reaches
<1>4. ASSUME NEW s \in Slots PROVE Alone(s) /\ Named(s)
  <2>1. /\ sess[s].iocpCount = 0 /\ sess[s].Sock = NoSock /\ sess[s].Index = NoId
        /\ sess[s].sendQ = <<>> /\ sess[s].completeSendQ = <<>>
    BY <1>1 DEF EmptySession
  <2>2. Alone(s)
    BY <1>3, <2>1, ThreadsFinite DEF Alone, Ends, Enters, Joins
  <2>3. ~Live(s) /\ ~Joining(s)
    BY <1>3, <2>1, ThreadsFinite DEF Live, Joining
  <2> QED BY <1>3, <2>1, <2>2, <2>3, ThreadsFinite DEF Named
<1>5. Registered
  <2>1. IsInjective(indexStack)
    <3>1. \A a \in 1 .. MaxClient, b \in 1 .. MaxClient : MaxClient - a = MaxClient - b => a = b
      BY <1>1
    <3> QED BY <1>1, <3>1 DEF IsInjective
  <2>2. JoinedIds = {} /\ LeftIds = {}
    BY <1>1, EmptySeq DEF JoinedIds, LeftIds, ToSet
  <2>3. ClientCount
    <3>1. JoinedIds \ LeftIds = {} /\ IsInjective(left)
      BY <1>1, <2>2 DEF IsInjective
    <3> QED BY <1>1, <2>2, <3>1, FS_EmptySet DEF ClientCount
  <2> QED BY <1>1, <1>3, <2>1, <2>2, <2>3, ThreadsFinite, FS_EmptySet DEF Registered
<1> QED BY <1>2, <1>4, <1>5, IInvInit, TypeInit DEF LifeInv, Life

(* Stop is not called. *)
LEMMA NoStop ==
  ASSUME LifeInv, NEW t \in Threads
  PROVE  ~PostQuit(t) /\ ~Wait(t)
<1>1. ASSUME NEW op \in {"post_quit", "wait"}, At(t, op) PROVE FALSE
  <2>1. Head(todo[t]).op \in WorkOps \cup EndOps \cup NewOps \cup {"exited"} /\ Head(todo[t]).op = op
    BY <1>1, ShapeAt DEF LifeInv, Shapes, KnownAt, At
  <2> QED BY <2>1 DEF WorkOps, UseOps, EndOps, TeardownOps, NewOps
<1> QED BY <1>1 DEF PostQuit, Wait

LEMMA SessionLife ==
  ASSUME LifeInv, NEW t \in Threads, SessionStep(t), UNCHANGED serverVars
  PROVE  Shapes' /\ Life'
<1>1. UNCHANGED <<indexStack, netId, clientCounter, clientSock, idOf, left>>
  BY DEF serverVars, server, app
<1>2. CASE \/ Flag(t) \/ PostUnset(t) \/ SendFailed(t) \/ FlagDec(t) \/ CountReset(t) \/ Mark(t)
           \/ PqcsDec(t) \/ PostTest(t) \/ CutTest(t) \/ CutFlag(t) \/ WakeTest(t) \/ WakeLook(t) \/ PqcsTest(t)
           \/ PqcsQueue(t) \/ CallbackEnds(t)
  BY <1>1, <1>2, FieldWork, WorkingLife
<1>3. CASE Shutdown(t) \/ RecvPost(t) \/ PostCAS(t) \/ PostFill(t) \/ WSASend(t) \/ FreeSent(t) \/ WakeCAS(t)
  BY <1>1, <1>3, NetworkWork, WorkingLife
<1>4. CASE \/ Release(t) \/ DiscCAS(t) \/ DiscCount(t) \/ Drain(t) \/ TestId(t) \/ Reclaim(t)
           \/ InsertFlags(t) \/ InsertRef(t)
  BY <1>4, ReleaseLife, DiscCASLife, DiscCountLife, DrainLife, TestIdLife, ReclaimLife, InsertFlagsLife,
     InsertRefLife
<1> QED BY <1>2, <1>3, <1>4, NoStop DEF SessionStep

LEMMA OnRecvLife ==
  ASSUME LifeInv, NEW t \in Threads, OnRecv(t)
  PROVE  Shapes' /\ Life'
<1>1. CASE Crash("decode") /\ UNCHANGED serverVars
  BY <1>1, CrashLife
<1>2. CASE ~(Crash("decode") /\ UNCHANGED serverVars)
  <2>1. crashed' = "no"
    BY <1>2 DEF OnRecv, OnlySession, At
  <2> QED BY <2>1, AcquireWork, WorkingLife
<1> QED BY <1>1, <1>2

LEMMA LifeNext == LifeInv /\ [Next]_vars => LifeInv'
<1> SUFFICES ASSUME LifeInv, [Next]_vars PROVE LifeInv'
  OBVIOUS
<1>1. ASSUME NEW t \in Threads, Step(t) PROVE Shapes' /\ Life'
  <2>1. CASE SessionStep(t) /\ UNCHANGED serverVars
    BY <2>1, SessionLife
  <2>2. CASE AcquireInc(t) \/ AcquireCheckId(t) \/ AcquireCheckFlag(t) \/ CutCAS(t) \/ Push(t) \/ CutNow(t)
    BY <2>2, AcquireWork, WorkingLife
  <2>3. CASE Leave(t) \/ PushSlot(t) \/ OnRecv(t) \/ PopSlot(t) \/ Insert(t) \/ Join(t)
    BY <2>3, LeaveLife, PushSlotLife, OnRecvLife, PopSlotLife, InsertLife, JoinLife
  <2> QED BY <1>1, <2>1, <2>2, <2>3 DEF Step
<1>2. ASSUME NEW c \in Conns, PeerLeaves(c), UNCHANGED serverVars PROVE Shapes' /\ Life'
  <2>1. UNCHANGED <<sess, todo, indexStack, netId, clientCounter, clientSock, idOf, left, sock>>
    BY <1>2 DEF PeerLeaves, serverVars, server, app
  <2> QED BY <2>1, StillLife
<1>3. ASSUME UNCHANGED vars PROVE Shapes' /\ Life'
  <2>1. UNCHANGED <<sess, todo, indexStack, netId, clientCounter, clientSock, idOf, left, sock>>
    BY <1>3 DEF vars, sessionVars, kernel, serverVars, server, app
  <2> QED BY <2>1, StillLife
<1>4. ~StopBegin /\ \A u \in Users : ~Call(u)
  BY DEF LifeInv, CallsFromCallbacks, StopBegin
<1>5. Shapes' /\ Life'
  BY <1>1, <1>2, <1>3, <1>4, CallBackLife, AcceptLife, DequeueLife, KernelLife DEF Next
<1>6. IInv' /\ ServerTypeOK' /\ CallsFromCallbacks'
  BY IInvNext, TypeNext DEF LifeInv, CallsFromCallbacks
<1> QED BY <1>5, <1>6 DEF LifeInv

(* Whose frames a thread has. *)
LEMMA FramesOf ==
  ASSUME NEW A, NEW s, NEW q \in Seq(Todo(A, {s})), NEW ops, NEW r, Occ(q, FramesWith(ops, r)) > 0
  PROVE  r = s /\ A \cap ops # {}
<1>1. PICK S, M : S = Todo(A, {s}) /\ M = FramesWith(ops, r)
  OBVIOUS
<1>2. ~(\A i \in 1 .. Len(q) : q[i] \notin M)
  BY <1>1, PositionsFinite
<1>3. PICK i \in 1 .. Len(q) : q[i] \in M
  BY <1>2
<1>4. q[i] \in S
  BY <1>1, <1>3
<1> QED BY <1>1, <1>3, <1>4 DEF Todo, FramesWith

LEMMA FramesElsewhere ==
  ASSUME NEW A, NEW s, NEW q \in Seq(Todo(A, {s})), NEW M, NEW r, r # s
  PROVE  Occ(q, FramesWith(M, r)) = 0
<1>1. Occ(q, FramesWith(M, r)) \in Nat
  BY PositionsFinite
<1>2. ~(Occ(q, FramesWith(M, r)) > 0)
  BY FramesOf
<1> QED BY <1>1, <1>2

LEMMA ListFrames ==
  ASSUME NEW A, NEW L, NEW q, NEW s, \A ops \in L : ops \in Seq(A), ListWord(q, L, s)
  PROVE  q \in Seq(Todo(A, {s}))
BY FramesList DEF ListWord

LEMMA ShapesFrames ==
  ASSUME NEW q, NEW s
  PROVE  /\ WorkWord(q, s) => q \in Seq(Todo(WorkOps, {s}))
         /\ ListWord(q, EndLists, s) => q \in Seq(Todo(EndOps, {s}))
         /\ ListWord(q, {<<"exited">>}, s) => q \in Seq(Todo({"exited"}, {s}))
         /\ ListWord(q, NewLists \cup {<<"pop_slot">>}, s) => q \in Seq(Todo(NewOps, {s}))
<1>1. \A ops \in EndLists : ops \in Seq(EndOps)
  BY EndListsSeq
<1>2. \A ops \in NewLists \cup {<<"pop_slot">>} : ops \in Seq(NewOps)
  BY NewListsSeq
<1>3. \A ops \in {<<"exited">>} : ops \in Seq({"exited"})
  <2>1. ASSUME NEW ops, ops = <<"exited">> PROVE ops \in Seq({"exited"})
    BY <2>1
  <2> QED BY <2>1
<1>4. PICK L, E, N : L = EndLists /\ E = {<<"exited">>} /\ N = NewLists \cup {<<"pop_slot">>}
  OBVIOUS
<1>5. ListWord(q, L, s) => q \in Seq(Todo(EndOps, {s}))
  BY <1>1, <1>4, ListFrames
<1>6. ListWord(q, E, s) => q \in Seq(Todo({"exited"}, {s}))
  BY <1>3, <1>4, ListFrames
<1>7. ListWord(q, N, s) => q \in Seq(Todo(NewOps, {s}))
  BY <1>2, <1>4, ListFrames
<1> QED BY <1>4, <1>5, <1>6, <1>7 DEF WorkWord

(* Who ends a session is at it, and who uses one works on it. *)
LEMMA WhoTears ==
  ASSUME Shapes, NEW t \in Threads, NEW s, Tearing(t, s)
  PROVE  Ends(t, s)
<1>1. Count(t, TeardownOps, s) > 0 /\ Shape(t)
  BY DEF Tearing, Shapes
<1>2. ASSUME todo[t] = <<>> PROVE FALSE
  BY <1>1, <1>2, OccEmpty DEF Count
<1>3. ASSUME NEW r \in Slots, WorkWord(todo[t], r) PROVE FALSE
  <2>1. todo[t] \in Seq(Todo(WorkOps, {r}))
    BY <1>3 DEF WorkWord
  <2>2. WorkOps \cap TeardownOps = {}
    BY DEF WorkOps, UseOps, TeardownOps
  <2> QED BY <1>1, <2>1, <2>2, FramesOf DEF Count
<1>4. ASSUME NEW r \in Slots, ListWord(todo[t], {<<"exited">>}, r) PROVE FALSE
  <2>1. todo[t] \in Seq(Todo({"exited"}, {r})) /\ {"exited"} \cap TeardownOps = {}
    BY <1>4, ShapesFrames DEF TeardownOps
  <2> QED BY <1>1, <2>1, FramesOf DEF Count
<1>5. ASSUME NEW r \in Slots, ListWord(todo[t], NewLists \cup {<<"pop_slot">>}, r) PROVE FALSE
  <2>1. NewOps \cap TeardownOps = {}
    BY DEF NewOps, TeardownOps
  <2>2. todo[t] \in Seq(Todo(NewOps, {r}))
    BY <1>5, ShapesFrames
  <2> QED BY <1>1, <2>1, <2>2, FramesOf DEF Count
<1>6. ASSUME NEW r \in Slots, ListWord(todo[t], EndLists, r) PROVE Ends(t, s)
  <2>1. r = s
    <3>1. PICK q, M : q = todo[t] /\ M = TeardownOps
      OBVIOUS
    <3>2. q \in Seq(Todo(EndOps, {r}))
      BY <1>6, <3>1, ShapesFrames
    <3>3. Occ(q, FramesWith(M, s)) > 0
      BY <1>1, <3>1 DEF Count
    <3>4. s # r => Occ(q, FramesWith(M, s)) = 0
      BY ZenonT(40), <3>2, FramesElsewhere
    <3> QED BY <3>3, <3>4
  <2>2. todo[t] # <<>> /\ Head(todo[t]).s = r /\ Head(todo[t]).op \in EndOps
    BY SMTT(30), <1>6, EndListsSeq, ListFirst
  <2> QED BY <2>1, <2>2 DEF Ends, Reaches, Slot
<1> QED BY <1>1, <1>2, <1>3, <1>4, <1>5, <1>6 DEF Shape

LEMMA WhoUses ==
  ASSUME Shapes, NEW t \in Threads, NEW s, Using(t, s)
  PROVE  WorkWord(todo[t], s) \/ Enters(s) \/ Joins(s)
<1>1. Count(t, UseOps, s) > 0 /\ Shape(t)
  BY DEF Using, Shapes
<1>2. ASSUME todo[t] = <<>> PROVE FALSE
  BY <1>1, <1>2, OccEmpty DEF Count
<1>3. ASSUME NEW r \in Slots, WorkWord(todo[t], r) PROVE WorkWord(todo[t], s)
  <2>1. todo[t] \in Seq(Todo(WorkOps, {r}))
    BY <1>3 DEF WorkWord
  <2>2. r = s
    <3>1. PICK q, M : q = todo[t] /\ M = UseOps
      OBVIOUS
    <3>2. Occ(q, FramesWith(M, s)) > 0
      BY <1>1, <3>1 DEF Count
    <3>3. q \in Seq(Todo(WorkOps, {r}))
      BY <2>1, <3>1
    <3>4. s # r => Occ(q, FramesWith(M, s)) = 0
      BY ZenonT(40), <3>3, FramesElsewhere
    <3> QED BY <3>2, <3>4
  <2> QED BY <1>3, <2>2
<1>4. ASSUME NEW r \in Slots, ListWord(todo[t], {<<"exited">>}, r) PROVE FALSE
  <2>1. todo[t] \in Seq(Todo({"exited"}, {r})) /\ {"exited"} \cap UseOps = {}
    BY <1>4, ShapesFrames DEF UseOps
  <2> QED BY <1>1, <2>1, FramesOf DEF Count
<1>5. ASSUME NEW r \in Slots, ListWord(todo[t], EndLists, r) PROVE FALSE
  <2>1. EndOps \cap UseOps = {}
    BY DEF EndOps, TeardownOps, UseOps
  <2>2. todo[t] \in Seq(Todo(EndOps, {r}))
    BY <1>5, ShapesFrames
  <2> QED BY <1>1, <2>1, <2>2, FramesOf DEF Count
<1>6. ASSUME NEW r \in Slots, ListWord(todo[t], NewLists \cup {<<"pop_slot">>}, r), t = Acceptor
      PROVE  Enters(s) \/ Joins(s)
  <2>1. r = s
    <3>1. PICK q, M : q = todo[t] /\ M = UseOps
      OBVIOUS
    <3>2. q \in Seq(Todo(NewOps, {r}))
      BY <1>6, <3>1, ShapesFrames
    <3>3. Occ(q, FramesWith(M, s)) > 0
      BY <1>1, <3>1 DEF Count
    <3>4. s # r => Occ(q, FramesWith(M, s)) = 0
      BY ZenonT(40), <3>2, FramesElsewhere
    <3> QED BY <3>3, <3>4
  <2>2. PICK ops \in NewLists \cup {<<"pop_slot">>} : todo[t] = Frames(ops, r)
    BY <1>6 DEF ListWord
  <2>3. ops \in Seq(NewOps) /\ ops # <<>>
    BY <2>2, NewListsSeq
  <2>4. todo[t] # <<>> /\ Head(todo[t]) = Frame(Head(ops), r)
    BY <2>2, <2>3, FramesFirst
  <2>5. CASE ops = <<"pop_slot">>
    <3>1. ops \in Seq({"pop_slot"}) /\ {"pop_slot"} \cap UseOps = {}
      BY <2>5 DEF UseOps
    <3>2. todo[t] \in Seq(Todo({"pop_slot"}, {r}))
      <4>1. PICK A : A = {"pop_slot"}
        OBVIOUS
      <4>2. Frames(ops, r) \in Seq(Todo(A, {r}))
        BY <3>1, <4>1, FramesList
      <4> QED BY <2>2, <4>1, <4>2
    <3> QED BY <1>1, <3>1, <3>2, FramesOf DEF Count
  <2>6. CASE ops \in NewLists
    <3>1. Head(ops) \in EnterOps \cup {"join"}
      BY <2>6 DEF NewLists, EnterOps
    <3> QED BY <1>6, <2>1, <2>4, <3>1 DEF Enters, Joins, Reaches, Slot, Frame
  <2> QED BY <2>2, <2>5, <2>6
<1> QED BY <1>1, <1>2, <1>3, <1>4, <1>5, <1>6 DEF Shape

LEMMA NobodyUses ==
  ASSUME LifeInv, NEW s \in Slots, sess[s].iocpCount = 0, ~Enters(s)
  PROVE  InKernel(Referring, s) = 0 /\ \A t \in Threads : ~Using(t, s)
<1>1. ServerSound /\ RefCountExact /\ Shapes
  BY DEF LifeInv, IInv
<1>2. InKernel(Referring, s) = 0 /\ ~Joins(s) /\ \A t \in Threads : ~WorkWord(todo[t], s)
  BY <1>1, KernelCounts DEF Joins
<1> QED BY <1>1, <1>2, WhoUses

LEMMA LifeAlone == LifeInv => TeardownAlone
<1> SUFFICES ASSUME LifeInv, NEW s \in Slots, NEW t \in Threads, Tearing(t, s)
             PROVE  /\ \A u \in Threads \ {t} : ~Tearing(u, s) /\ ~Using(u, s)
                    /\ ~Using(t, s)
                    /\ InKernel({"recv", "send", "pqcs"}, s) = 0
  BY DEF TeardownAlone
<1>1. Shapes /\ Alone(s) /\ Ends(t, s)
  BY WhoTears DEF LifeInv, Life
<1>2. sess[s].iocpCount = 0 /\ ~Enters(s)
  BY <1>1 DEF Alone
<1>3. InKernel(Referring, s) = 0 /\ \A u \in Threads : ~Using(u, s)
  BY <1>2, NobodyUses
<1>4. \A u \in Threads \ {t} : ~Tearing(u, s)
  BY <1>1, WhoTears DEF Alone
<1> QED BY <1>3, <1>4 DEF Referring

LEMMA LifeClean == LifeInv => FreeSlotsClean
<1> SUFFICES ASSUME LifeInv PROVE FreeSlotsClean
  OBVIOUS
<1>1. Shapes /\ IsInjective(indexStack) /\ indexStack \in Seq(Slots)
  BY DEF LifeInv, Life, Registered, IInv, SlotNumbers
<1>2. ToSet(indexStack) \subseteq Slots
  BY <1>1 DEF ToSet
<1>3. ASSUME NEW s \in ToSet(indexStack)
      PROVE  /\ sess[s].Sock = NoSock /\ sess[s].Index = NoId
             /\ sess[s].sendQ = <<>> /\ sess[s].completeSendQ = <<>>
             /\ \A t \in Threads : ~Tearing(t, s) /\ ~Using(t, s)
  <2>1. s \in Slots /\ Free(s) /\ Alone(s) /\ Named(s)
    BY <1>2 DEF Free, LifeInv, Life
  <2>2. sess[s].Sock = NoSock /\ sess[s].Index = NoId /\ sess[s].sendQ = <<>> /\ sess[s].completeSendQ = <<>>
    BY <2>1 DEF Named, Vacant, Drained
  <2>3. sess[s].iocpCount = 0 /\ ~Enters(s) /\ \A t \in Threads : ~Ends(t, s)
    BY <2>1 DEF Alone
  <2>4. \A t \in Threads : ~Tearing(t, s) /\ ~Using(t, s)
    BY <1>1, <2>1, <2>3, WhoTears, NobodyUses
  <2> QED BY <2>2, <2>4
<1> QED BY <1>1, <1>3 DEF FreeSlotsClean

LEMMA LifeAlways == CallsFromCallbacks => (Spec => []LifeInv)
<1>1. CallsFromCallbacks /\ Init => LifeInv
  BY LifeInit
<1> QED BY <1>1, LifeNext, PTL DEF Spec
-----------------------------------------------------------------------------
(* THE THEOREMS ABOUT THE LIFE OF A SESSION *)

(* Who ends a session finds it in its slot. *)
LEMMA OnceNext == LifeInv /\ TornDownOnce /\ [Next]_vars => TornDownOnce'
<1> SUFFICES ASSUME LifeInv, crashed # "teardown", [Next]_vars PROVE crashed' # "teardown"
  BY DEF TornDownOnce
<1>1. ASSUME NEW t \in Threads, SessionStep(t), UNCHANGED serverVars PROVE crashed' # "teardown"
  <2>1. CASE TestId(t)
    BY <1>1, <2>1, TestIdLife
  <2>2. CASE ~TestId(t)
    <3>1. CASE \/ Release(t) \/ Flag(t) \/ Shutdown(t) \/ DiscCAS(t) \/ DiscCount(t) \/ Drain(t) \/ Reclaim(t)
               \/ RecvPost(t) \/ PostTest(t) \/ PostCAS(t) \/ PostFill(t) \/ PostUnset(t)
      BY <3>1 DEF OnlySession, OnlyThread, kernel, Update, Test, TakeFlag, Release, Flag, Shutdown, DiscCAS,
                  DiscCount, Drain, Reclaim, RecvPost, PostTest, PostCAS, PostFill, PostUnset
    <3>2. CASE \/ SendFailed(t) \/ FreeSent(t) \/ FlagDec(t) \/ CountReset(t) \/ WSASend(t)
               \/ CutTest(t) \/ CutFlag(t) \/ Mark(t) \/ WakeTest(t) \/ WakeLook(t) \/ WakeCAS(t)
               \/ InsertFlags(t) \/ InsertRef(t) \/ PqcsDec(t) \/ PqcsTest(t) \/ PqcsQueue(t)
               \/ CallbackEnds(t) \/ PostQuit(t) \/ Wait(t)
      BY <3>2 DEF OnlySession, OnlyThread, kernel, Update, Test, SendFailed, FreeSent, FlagDec, CountReset, WSASend,
                  CutTest, CutFlag, Mark, WakeTest, WakeLook, WakeCAS, InsertFlags, InsertRef, PqcsDec, PqcsTest, PqcsQueue,
                  CallbackEnds, PostQuit, Wait
    <3> QED BY <1>1, <2>2, <3>1, <3>2 DEF SessionStep
  <2> QED BY <2>1, <2>2
<1>2. ASSUME NEW t \in Threads, Step(t), ~(SessionStep(t) /\ UNCHANGED serverVars) PROVE crashed' # "teardown"
  BY <1>2 DEF Step, OnlySession, OnlyThread, AcquireInc, AcquireCheckId, AcquireCheckFlag, Leave, PushSlot,
              OnRecv, CutCAS, Push, CutNow, PopSlot, Insert, Join, Crash
<1>3. ASSUME NEW t \in Threads, CallBack(t) PROVE crashed' # "teardown"
  BY <1>3 DEF CallBack, Request, OnlyThread, OnlySession
<1>4. ASSUME NEW c \in Conns, Accept(c) \/ PeerLeaves(c) PROVE crashed' # "teardown"
  BY <1>4 DEF Accept, PeerLeaves
<1>5. ASSUME NEW w \in Workers, Dequeue(w) PROVE crashed' # "teardown"
  BY <1>5 DEF Dequeue, TakePacket
<1>6. ASSUME Kernel PROVE crashed' # "teardown"
  BY <1>6 DEF Kernel, RecvData, SendDone, ZeroBytes, Complete
<1>7. ~StopBegin /\ \A u \in Users : ~Call(u)
  BY DEF LifeInv, CallsFromCallbacks, StopBegin
<1>8. ASSUME UNCHANGED vars PROVE crashed' # "teardown"
  BY <1>8 DEF vars, sessionVars
<1> QED BY <1>1, <1>2, <1>3, <1>4, <1>5, <1>6, <1>7, <1>8 DEF Next

(* Without application threads, a session is torn down by one thread that  *)
(* nobody disturbs: no other thread uses or tears down the slot, and the   *)
(* kernel has nothing of it (IOCPServer.cpp:511-539).                      *)
THEOREM TeardownAloneTheorem == CallsFromCallbacks => (Spec => []TeardownAlone)
BY LifeAlways, LifeAlone, PTL

(* Without application threads, a slot is on the free stack once, and with *)
(* nothing in it that the next session could send or be taken for (l.275,   *)
(* 536-538).                                                                *)
THEOREM FreeSlotsTheorem == CallsFromCallbacks => (Spec => []FreeSlotsClean)
BY LifeAlways, LifeClean, PTL

(* Without application threads, each session is left once, after it joined, *)
(* and GetClientCount is the number of those joined and not left (l.212,    *)
(* 517).                                                                    *)
THEOREM ClientCountTheorem == CallsFromCallbacks => (Spec => []ClientCount)
<1>1. LifeInv => ClientCount
  BY DEF LifeInv, Life, Registered
<1> QED BY <1>1, LifeAlways, PTL

(* Without application threads the Crash of disconnect (l.534) is never    *)
(* reached: the double tear-down that run server_torn_twice finds needs a   *)
(* call from outside the callbacks.                                        *)
THEOREM TornDownOnceTheorem == CallsFromCallbacks => (Spec => []TornDownOnce)
<1>1. Init => TornDownOnce
  BY DEF Init, TornDownOnce
<1> QED BY <1>1, OnceNext, LifeAlways, PTL DEF Spec
-----------------------------------------------------------------------------
(* THE FLAGS AND THE SENDS *)

(* sendPQCS is held from the compare-and-swap of SendPacket until the worker *)
(* takes it off.                                                             *)
Wakes == [field |-> "sendPQCS", holding |-> {"pqcs_dec"}, owing |-> {}, kernel |-> {"pqcs"}]

(* A flag is 1 while one thread or packet holds it, and else 0. *)
Exact(k) ==
  \A s \in Slots : /\ sess[s][k.field] \in {0, 1}
                   /\ sess[s][k.field] = Tally(k, todo, pending, port, s)

FlagsInv == LifeInv /\ Exact(Sends) /\ Exact(Wakes)

(* The threads, and the fields as long as they have their types. *)
FlagSound(k) == Sound(k, Threads, Slots, Kinds, {})

LEMMA TwoFlags ==
  ASSUME NEW k \in {Sends, Wakes}
  PROVE  /\ k.field \in {"sendFlag", "sendPQCS"} /\ k.owing = {}
         /\ k.holding \subseteq SendOps \cup {"pqcs_dec"} /\ k.kernel \subseteq {"send", "pqcs"}
BY DEF Sends, Wakes

LEMMA WakeParts ==
  /\ Wakes.field = "sendPQCS" /\ Sends.field = "sendFlag"
  /\ Part(Wakes, "recv") = 0 /\ Part(Wakes, "send") = 0
  /\ Part(Wakes, "pqcs") = 1 /\ Part(Wakes, "quit") = 0
BY DEF Part, Wakes, Sends

LEMMA FlagsSound == LifeInv => FlagSound(Sends) /\ FlagSound(Wakes)
<1> SUFFICES ASSUME LifeInv, NEW k \in {Sends, Wakes} PROVE FlagSound(k)
  OBVIOUS
<1>1. Running(Threads, Slots, Kinds, todo, pending, port)
  BY DEF LifeInv, IInv, ServerSound, Sound
<1>2. SessionsOK /\ k.field \in {"sendFlag", "sendPQCS"}
  BY TwoFlags DEF LifeInv, ServerTypeOK
<1>3. \A s \in Slots : sess[s][k.field] \in Int /\ k.field \in DOMAIN sess[s]
  BY <1>2 DEF SessionsOK, SessionOK, Fields
<1> QED BY <1>1, <1>2, <1>3 DEF FlagSound, Sound, SessionsOK

LEMMA ExactNext ==
  ASSUME NEW k, FlagSound(k), Exact(k), Balanced(k, Threads, Slots, Kinds, {}),
         \A s \in Slots : sess'[s][k.field] \in {0, 1}
  PROVE  Exact(k)'
<1> USE ThreadsFinite DEF FlagSound
<1>1. ASSUME NEW s \in Slots PROVE sess'[s][k.field] = Tally(k, todo', pending', port', s)
  <2>1. PICK n : n = 0 /\ n \in Int
    OBVIOUS
  <2>2. Tally(k, todo, pending, port, s) \in Int
    BY TallyInt DEF Sound
  <2>3. sess[s][k.field] = Tally(k, todo, pending, port, s) + n
    BY <2>1, <2>2 DEF Exact
  <2>4. sess'[s][k.field] = Tally(k, todo', pending', port', s) + n
    BY <2>1, <2>3, BalancedExact
  <2>5. PICK Q, P, R : Q = todo' /\ P = pending' /\ R = port'
    OBVIOUS
  <2>6. Running(Threads, Slots, Kinds, Q, P, R)
    BY <2>5 DEF Balanced, Sound
  <2>7. Tally(k, Q, P, R, s) \in Int
    BY <2>6, TallyInt
  <2> QED BY <2>1, <2>4, <2>5, <2>7
<1> QED BY <1>1 DEF Exact

(* Lists of operations that do not hold the flag. *)
Without(k, ops) == IsList(ops) /\ \A i \in 1 .. Len(ops) : ops[i] \notin k.holding

LEMMA WithoutNet ==
  ASSUME NEW k, k.owing = {}, NEW ops, Without(k, ops)
  PROVE  IsList(ops) /\ Net(k, ops) = 0
<1>1. PICK S, M, W : ops \in Seq(S) /\ M = k.holding /\ W = k.owing
  BY DEF Without, IsList
<1>2. \A i \in 1 .. Len(ops) : ops[i] \notin M /\ ops[i] \notin W
  BY <1>1 DEF Without
<1>3. Occ(ops, M) = 0 /\ Occ(ops, W) = 0
  BY <1>1, <1>2, PositionsFinite
<1>4. PICK x, y : x = Occ(ops, M) /\ y = Occ(ops, W)
  OBVIOUS
<1>5. x - y = 0
  BY <1>3, <1>4
<1> QED BY <1>1, <1>4, <1>5 DEF Without, Net

(* The step keeps the flag. *)
KeepsFlag(k) ==
  DOMAIN sess' = Slots
  /\ \A s \in Slots : k.field \in DOMAIN sess'[s] /\ sess'[s][k.field] = sess[s][k.field]

LEMMA KeepsAdds ==
  ASSUME NEW k, FlagSound(k), KeepsFlag(k)
  PROVE  \A s : Adds(k, Slots, {}, s, 0) /\ SameIndex(Slots, {})
BY DEF FlagSound, Sound, KeepsFlag, Adds, SameIndex

(* A balanced step that keeps the flag. *)
LEMMA KeptExact ==
  ASSUME NEW k, FlagSound(k), Exact(k), KeepsFlag(k), Balanced(k, Threads, Slots, Kinds, {})
  PROVE  Exact(k)'
BY ExactNext DEF KeepsFlag, Exact

(* A thread goes on from an operation that does not hold the flag with others *)
(* that do not.                                                               *)
LEMMA FlagQuiet ==
  ASSUME NEW k, k.owing = {}, FlagSound(k), Exact(k), NEW t \in Threads, NEW op, At(t, op),
         op \notin k.holding, NEW ops, Without(k, ops), Then(t, ops), UNCHANGED <<pending, port>>,
         KeepsFlag(k)
  PROVE  Exact(k)'
<1> USE ThreadsFinite DEF FlagSound
<1>1. IsList(ops) /\ Net(k, ops) = 0
  BY WithoutNet
<1>2. Weight(k, op) = 0
  BY DEF Weight
<1>3. PICK n, s : n = More(k, op, ops) /\ s = Slot(t)
  OBVIOUS
<1>4. n = 0
  BY <1>1, <1>2, <1>3 DEF More
<1>5. Adds(k, Slots, {}, s, 0) /\ SameIndex(Slots, {})
  BY KeepsAdds
<1>6. Adds(k, Slots, {}, Slot(t), More(k, op, ops))
  BY <1>3, <1>4, <1>5
<1>7. Balanced(k, Threads, Slots, Kinds, {})
  BY <1>1, <1>5, <1>6, LocalStep
<1> QED BY <1>7, KeptExact

LEMMA FlagStill ==
  ASSUME NEW k, FlagSound(k), Exact(k), UNCHANGED <<sess, todo, pending, port>>
  PROVE  Exact(k)'
<1>1. Balanced(k, Threads, Slots, Kinds, {})
  BY StillBalanced DEF FlagSound
<1> QED BY <1>1, ExactNext DEF Exact

(* Operations that hold neither flag; such a step goes on with others of them. *)
QuietOps ==
  {"flag", "shutdown", "recv_post", "on_recv", "post_test", "post_cas", "count_reset",
   "cut_test", "cut_flag", "cut_cas", "push", "mark", "cut_now", "wake_test", "wake_look", "wake_cas", "pqcs_test",
   "pqcs_queue", "callback", "acquire", "check_id", "check_flag", "release", "disc_cas", "disc_count",
   "leave", "drain", "test_id", "reclaim", "push_slot", "insert", "insert_flags", "insert_ref", "join",
   "pop_slot", "exited"}

LEMMA QuietHold ==
  \A op \in QuietOps \cup {"free_sent"} : op \notin Sends.holding /\ op \notin Wakes.holding
BY DEF QuietOps, Sends, Wakes, SendOps

LEMMA QuietLists ==
  ASSUME NEW ops \in Seq(QuietOps)
  PROVE  Without(Sends, ops) /\ Without(Wakes, ops)
BY QuietHold DEF Without, IsList

LEMMA ShortLists ==
  /\ <<>> \in Seq(QuietOps)
  /\ \A op \in QuietOps : <<op>> \in Seq(QuietOps)
  /\ <<"flag", "shutdown", "release">> \in Seq(QuietOps)
  /\ <<"push", "mark", "cut_now", "wake_test", "release">> \in Seq(QuietOps)
  /\ <<"push", "wake_test", "release">> \in Seq(QuietOps)
  /\ <<"recv_post", "release">> \in Seq(QuietOps)
  /\ <<"leave", "drain", "test_id", "reclaim", "push_slot">> \in Seq(QuietOps)
  /\ <<"insert", "insert_flags", "insert_ref", "join", "callback">> \in Seq(QuietOps)
  /\ <<"on_recv", "callback">> \in Seq(QuietOps)
BY DEF QuietOps

(* The step keeps both flags of every slot. *)
FlagsKept ==
  \A s \in Slots : sess'[s].sendFlag = sess[s].sendFlag /\ sess'[s].sendPQCS = sess[s].sendPQCS

LEMMA BothKept ==
  ASSUME FlagsKept, ServerTypeOK'
  PROVE  KeepsFlag(Sends) /\ KeepsFlag(Wakes)
<1>1. DOMAIN sess' = Slots /\ \A s \in Slots : "sendFlag" \in DOMAIN sess'[s] /\ "sendPQCS" \in DOMAIN sess'[s]
  BY DEF ServerTypeOK, SessionsOK, SessionOK, Fields
<1> QED BY <1>1, WakeParts DEF KeepsFlag, FlagsKept

LEMMA FlagsKeptAt ==
  ASSUME SessionsOK, NEW s \in Slots, NEW x, sess' = [sess EXCEPT ![s] = x],
         x.sendFlag = sess[s].sendFlag, x.sendPQCS = sess[s].sendPQCS
  PROVE  FlagsKept
BY DEF SessionsOK, FlagsKept

(* A step of a thread that has to do with neither flag. *)
Quietly(t) ==
  /\ \E op \in QuietOps \cup {"free_sent"}, ops \in Seq(QuietOps) : At(t, op) /\ Then(t, ops)
  /\ UNCHANGED <<pending, port>> /\ FlagsKept

LEMMA QuietExact ==
  ASSUME FlagsInv, ServerTypeOK', NEW t \in Threads, Quietly(t)
  PROVE  Exact(Sends)' /\ Exact(Wakes)'
<1>1. PICK op \in QuietOps \cup {"free_sent"}, ops \in Seq(QuietOps) : At(t, op) /\ Then(t, ops)
  BY DEF Quietly
<1>2. /\ FlagSound(Sends) /\ FlagSound(Wakes) /\ Without(Sends, ops) /\ Without(Wakes, ops)
      /\ op \notin Sends.holding /\ op \notin Wakes.holding /\ KeepsFlag(Sends) /\ KeepsFlag(Wakes)
      /\ UNCHANGED <<pending, port>> /\ Sends.owing = {} /\ Wakes.owing = {}
  BY FlagsSound, QuietLists, QuietHold, BothKept, TwoFlags DEF FlagsInv, Quietly
<1>3. Exact(Sends)'
  BY <1>1, <1>2, FlagQuiet DEF FlagsInv
<1> QED BY <1>1, <1>2, <1>3, FlagQuiet DEF FlagsInv

(* Steps that look at the session. *)
LEMMA QuietTests ==
  ASSUME LifeInv, NEW t \in Threads,
         \/ DiscCount(t) \/ PostTest(t) \/ CutTest(t) \/ CutFlag(t) \/ WakeTest(t) \/ WakeLook(t) \/ PqcsTest(t) \/ PqcsQueue(t)
         \/ CallbackEnds(t) \/ Shutdown(t) \/ AcquireCheckId(t) \/ AcquireCheckFlag(t) \/ Leave(t) \/ PushSlot(t) \/ Join(t)
  PROVE  Quietly(t)
<1>1. CASE DiscCount(t)
  <2>1. /\ At(t, "disc_count") /\ UNCHANGED <<sess, pending, port>>
        /\ (Then(t, <<>>) \/ Then(t, <<"leave", "drain", "test_id", "reclaim", "push_slot">>))
    BY <1>1 DEF DiscCount, OnlyThread, OnlySession, kernel, Test, Teardown
  <2>2. FlagsKept
    BY <2>1 DEF FlagsKept
  <2>3. "disc_count" \in QuietOps
    BY DEF QuietOps
  <2> QED BY <2>1, <2>2, <2>3, ShortLists DEF Quietly
<1>2. CASE PostTest(t)
  <2>1. At(t, "post_test") /\ UNCHANGED <<sess, pending, port>> /\ (Then(t, <<>>) \/ Then(t, <<"post_cas">>))
    BY <1>2 DEF PostTest, OnlyThread, OnlySession, kernel, Test
  <2>2. FlagsKept
    BY <2>1 DEF FlagsKept
  <2>3. "post_cas" \in QuietOps /\ "post_test" \in QuietOps
    BY DEF QuietOps
  <2> QED BY <2>1, <2>2, <2>3, ShortLists DEF Quietly
<1>3. CASE CutTest(t)
  <2>1. At(t, "cut_test") /\ UNCHANGED <<sess, pending, port>> /\ (Then(t, <<>>) \/ Then(t, <<"cut_flag">>))
    BY <1>3 DEF CutTest, OnlyThread, OnlySession, kernel, Test
  <2>2. FlagsKept
    BY <2>1 DEF FlagsKept
  <2>3. "cut_flag" \in QuietOps /\ "cut_test" \in QuietOps
    BY DEF QuietOps
  <2> QED BY <2>1, <2>2, <2>3, ShortLists DEF Quietly
<1>4. CASE CutFlag(t)
  <2>1. At(t, "cut_flag") /\ UNCHANGED <<sess, pending, port>> /\ (Then(t, <<>>) \/ Then(t, <<"cut_cas">>))
    BY <1>4 DEF CutFlag, OnlyThread, OnlySession, kernel, Test
  <2>2. FlagsKept
    BY <2>1 DEF FlagsKept
  <2>3. "cut_cas" \in QuietOps /\ "cut_flag" \in QuietOps
    BY DEF QuietOps
  <2> QED BY <2>1, <2>2, <2>3, ShortLists DEF Quietly
<1>5. CASE WakeTest(t)
  <2>1. At(t, "wake_test") /\ UNCHANGED <<sess, pending, port>> /\ (Then(t, <<>>) \/ Then(t, <<"wake_look">>))
    BY <1>5 DEF WakeTest, OnlyThread, OnlySession, kernel, Test
  <2>2. FlagsKept
    BY <2>1 DEF FlagsKept
  <2>3. "wake_look" \in QuietOps /\ "wake_test" \in QuietOps
    BY DEF QuietOps
  <2> QED BY <2>1, <2>2, <2>3, ShortLists DEF Quietly
<1>5a. CASE WakeLook(t)
  <2>1. At(t, "wake_look") /\ UNCHANGED <<sess, pending, port>> /\ (Then(t, <<>>) \/ Then(t, <<"wake_cas">>))
    BY <1>5a DEF WakeLook, OnlyThread, OnlySession, kernel, Test
  <2>2. FlagsKept
    BY <2>1 DEF FlagsKept
  <2>3. "wake_cas" \in QuietOps /\ "wake_look" \in QuietOps
    BY DEF QuietOps
  <2> QED BY <2>1, <2>2, <2>3, ShortLists DEF Quietly
<1>6. CASE PqcsTest(t)
  <2>1. At(t, "pqcs_test") /\ UNCHANGED <<sess, pending, port>> /\ (Then(t, <<>>) \/ Then(t, <<"pqcs_queue">>))
    BY <1>6 DEF PqcsTest, OnlyThread, OnlySession, kernel, Test
  <2>2. FlagsKept
    BY <2>1 DEF FlagsKept
  <2>3. "pqcs_queue" \in QuietOps /\ "pqcs_test" \in QuietOps
    BY DEF QuietOps
  <2> QED BY <2>1, <2>2, <2>3, ShortLists DEF Quietly
<1>7. CASE PqcsQueue(t)
  <2>1. At(t, "pqcs_queue") /\ UNCHANGED <<sess, pending, port>> /\ (Then(t, <<>>) \/ Then(t, <<"post_test">>))
    BY <1>7 DEF PqcsQueue, OnlyThread, OnlySession, kernel, Test
  <2>2. FlagsKept
    BY <2>1 DEF FlagsKept
  <2>3. "post_test" \in QuietOps /\ "pqcs_queue" \in QuietOps
    BY DEF QuietOps
  <2> QED BY <2>1, <2>2, <2>3, ShortLists DEF Quietly
<1>8. CASE CallbackEnds(t)
  <2>1. At(t, "callback") /\ UNCHANGED <<sess, pending, port>> /\ (Then(t, <<"recv_post", "release">>))
    BY <1>8 DEF CallbackEnds, OnlyThread, OnlySession, kernel, AfterCallback
  <2>2. FlagsKept
    BY <2>1 DEF FlagsKept
  <2>3. "callback" \in QuietOps
    BY DEF QuietOps
  <2> QED BY <2>1, <2>2, <2>3, ShortLists DEF Quietly
<1>9. CASE Shutdown(t)
  <2>1. At(t, "shutdown") /\ UNCHANGED <<sess, pending, port>> /\ (Then(t, <<>>))
    BY <1>9 DEF Shutdown, OnlyThread, OnlySession, kernel
  <2>2. FlagsKept
    BY <2>1 DEF FlagsKept
  <2>3. "shutdown" \in QuietOps
    BY DEF QuietOps
  <2> QED BY <2>1, <2>2, <2>3, ShortLists DEF Quietly
<1>10. CASE AcquireCheckId(t)
  <2>1. At(t, "check_id") /\ UNCHANGED <<sess, pending, port>> /\ (Then(t, <<"release">>) \/ Then(t, <<"check_flag">>))
    BY <1>10 DEF AcquireCheckId, OnlyThread, OnlySession, kernel, Refuse
  <2>2. FlagsKept
    BY <2>1 DEF FlagsKept
  <2>3. "check_flag" \in QuietOps /\ "check_id" \in QuietOps /\ "release" \in QuietOps
    BY DEF QuietOps
  <2> QED BY <2>1, <2>2, <2>3, ShortLists DEF Quietly
<1>11. CASE AcquireCheckFlag(t)
  <2>1. /\ At(t, "check_flag") /\ UNCHANGED <<sess, pending, port>>
        /\ \/ Then(t, <<"release">>) \/ Then(t, <<"flag", "shutdown", "release">>)
           \/ Then(t, <<"push", "mark", "cut_now", "wake_test", "release">>) \/ Then(t, <<"push", "wake_test", "release">>)
    BY <1>11 DEF AcquireCheckFlag, OnlyThread, OnlySession, kernel, Refuse, Body
  <2>2. FlagsKept
    BY <2>1 DEF FlagsKept
  <2>3. "check_flag" \in QuietOps /\ "release" \in QuietOps
    BY DEF QuietOps
  <2> QED BY <2>1, <2>2, <2>3, ShortLists DEF Quietly
<1>12. CASE Leave(t)
  <2>1. At(t, "leave") /\ UNCHANGED <<sess, pending, port>> /\ (Then(t, <<>>))
    BY <1>12 DEF Leave, OnlyThread, OnlySession, kernel
  <2>2. FlagsKept
    BY <2>1 DEF FlagsKept
  <2>3. "leave" \in QuietOps
    BY DEF QuietOps
  <2> QED BY <2>1, <2>2, <2>3, ShortLists DEF Quietly
<1>13. CASE PushSlot(t)
  <2>1. At(t, "push_slot") /\ UNCHANGED <<sess, pending, port>> /\ (Then(t, <<>>))
    BY <1>13 DEF PushSlot, OnlyThread, OnlySession, kernel
  <2>2. FlagsKept
    BY <2>1 DEF FlagsKept
  <2>3. "push_slot" \in QuietOps
    BY DEF QuietOps
  <2> QED BY <2>1, <2>2, <2>3, ShortLists DEF Quietly
<1>14. CASE Join(t)
  <2>1. At(t, "join") /\ UNCHANGED <<sess, pending, port>> /\ (Then(t, <<>>))
    BY <1>14 DEF Join, OnlyThread, OnlySession, kernel
  <2>2. FlagsKept
    BY <2>1 DEF FlagsKept
  <2>3. "join" \in QuietOps
    BY DEF QuietOps
  <2> QED BY <2>1, <2>2, <2>3, ShortLists DEF Quietly
<1> QED BY <1>1, <1>2, <1>3, <1>4, <1>5, <1>5a, <1>6, <1>7, <1>8, <1>9, <1>10, <1>11, <1>12, <1>13, <1>14

(* Steps that change other fields. *)
LEMMA QuietUpdates ==
  ASSUME LifeInv, NEW t \in Threads,
         \/ Release(t) \/ Flag(t) \/ DiscCAS(t) \/ Drain(t) \/ Reclaim(t) \/ FreeSent(t) \/ CountReset(t)
         \/ Mark(t) \/ InsertRef(t) \/ AcquireInc(t) \/ Push(t) \/ Insert(t)
  PROVE  Quietly(t)
<1>1. CASE Release(t)
  <2>1. At(t, "release") /\ UNCHANGED <<pending, port>> /\ (Then(t, <<>>) \/ Then(t, <<"disc_cas">>))
    BY <1>1 DEF Release, OnlyThread, OnlySession, kernel
  <2>2. FlagsKept
    <3>1. PICK s : s = Slot(t) /\ s \in Slots /\ SessionOK(sess[s]) /\ SessionsOK
      BY <2>1, SlotOK
    <3>2. sess' = [sess EXCEPT ![s] = [sess[s] EXCEPT !.iocpCount = @ - 1]]
      BY <1>1, <3>1 DEF Release
    <3>3. PICK x : x = [sess[s] EXCEPT !.iocpCount = @ - 1]
      OBVIOUS
    <3>4. x.sendFlag = sess[s].sendFlag /\ x.sendPQCS = sess[s].sendPQCS
      BY <3>1, <3>3 DEF SessionOK, Fields
    <3> QED BY <3>1, <3>2, <3>3, <3>4, FlagsKeptAt
  <2>3. "disc_cas" \in QuietOps /\ "release" \in QuietOps
    BY DEF QuietOps
  <2> QED BY <2>1, <2>2, <2>3, ShortLists DEF Quietly
<1>2. CASE Flag(t)
  <2>1. At(t, "flag") /\ UNCHANGED <<pending, port>> /\ (Then(t, <<>>))
    BY <1>2 DEF Flag, OnlyThread, OnlySession, kernel, Update
  <2>2. FlagsKept
    <3>1. PICK s : s = Slot(t) /\ s \in Slots /\ SessionOK(sess[s]) /\ SessionsOK
      BY <2>1, SlotOK
    <3>2. sess' = [sess EXCEPT ![s] = [sess[s] EXCEPT !.disconnectFlag = 1]]
      BY <1>2, <3>1 DEF Flag, Update
    <3>3. PICK x : x = [sess[s] EXCEPT !.disconnectFlag = 1]
      OBVIOUS
    <3>4. x.sendFlag = sess[s].sendFlag /\ x.sendPQCS = sess[s].sendPQCS
      BY <3>1, <3>3 DEF SessionOK, Fields
    <3> QED BY <3>1, <3>2, <3>3, <3>4, FlagsKeptAt
  <2>3. "flag" \in QuietOps
    BY DEF QuietOps
  <2> QED BY <2>1, <2>2, <2>3, ShortLists DEF Quietly
<1>3. CASE DiscCAS(t)
  <2>1. At(t, "disc_cas") /\ UNCHANGED <<pending, port>> /\ (Then(t, <<>>) \/ Then(t, <<"disc_count">>))
    BY <1>3 DEF DiscCAS, OnlyThread, OnlySession, kernel, TakeFlag
  <2>2. FlagsKept
    <3>1. PICK s : s = Slot(t) /\ s \in Slots /\ SessionOK(sess[s]) /\ SessionsOK
      BY <2>1, SlotOK
    <3>2. UNCHANGED sess \/ sess' = [sess EXCEPT ![s] = [sess[s] EXCEPT !.disconnectFlag = 0]]
      BY <1>3, <3>1 DEF DiscCAS, TakeFlag
    <3>3. PICK x : x = [sess[s] EXCEPT !.disconnectFlag = 0]
      OBVIOUS
    <3>4. x.sendFlag = sess[s].sendFlag /\ x.sendPQCS = sess[s].sendPQCS
      BY <3>1, <3>3 DEF SessionOK, Fields
    <3>5. sess' = [sess EXCEPT ![s] = x] => FlagsKept
      BY <3>1, <3>4, FlagsKeptAt
    <3> QED BY <3>2, <3>3, <3>5 DEF FlagsKept
  <2>3. "disc_cas" \in QuietOps /\ "disc_count" \in QuietOps
    BY DEF QuietOps
  <2> QED BY <2>1, <2>2, <2>3, ShortLists DEF Quietly
<1>4. CASE Drain(t)
  <2>1. At(t, "drain") /\ UNCHANGED <<pending, port>> /\ (Then(t, <<>>))
    BY <1>4 DEF Drain, OnlyThread, OnlySession, kernel, Update
  <2>2. FlagsKept
    <3>1. PICK s : s = Slot(t) /\ s \in Slots /\ SessionOK(sess[s]) /\ SessionsOK
      BY <2>1, SlotOK
    <3>2. sess' = [sess EXCEPT ![s] = [sess[s] EXCEPT !.sendCount = 0, !.completeSendQ = <<>>, !.sendQ = <<>>]]
      BY <1>4, <3>1 DEF Drain, Update
    <3>3. PICK x : x = [sess[s] EXCEPT !.sendCount = 0, !.completeSendQ = <<>>, !.sendQ = <<>>]
      OBVIOUS
    <3>4. x.sendFlag = sess[s].sendFlag /\ x.sendPQCS = sess[s].sendPQCS
      BY <3>1, <3>3 DEF SessionOK, Fields
    <3> QED BY <3>1, <3>2, <3>3, <3>4, FlagsKeptAt
  <2>3. "drain" \in QuietOps
    BY DEF QuietOps
  <2> QED BY <2>1, <2>2, <2>3, ShortLists DEF Quietly
<1>5. CASE Reclaim(t)
  <2>1. At(t, "reclaim") /\ UNCHANGED <<pending, port>> /\ (Then(t, <<>>))
    BY <1>5 DEF Reclaim, OnlyThread, OnlySession, kernel
  <2>2. FlagsKept
    <3>1. PICK s : s = Slot(t) /\ s \in Slots /\ SessionOK(sess[s]) /\ SessionsOK
      BY <2>1, SlotOK
    <3>2. sess' = [sess EXCEPT ![s] = [sess[s] EXCEPT !.Sock = NoSock, !.Index = NoId]]
      BY <1>5, <3>1 DEF Reclaim
    <3>3. PICK x : x = [sess[s] EXCEPT !.Sock = NoSock, !.Index = NoId]
      OBVIOUS
    <3>4. x.sendFlag = sess[s].sendFlag /\ x.sendPQCS = sess[s].sendPQCS
      BY <3>1, <3>3 DEF SessionOK, Fields
    <3> QED BY <3>1, <3>2, <3>3, <3>4, FlagsKeptAt
  <2>3. "reclaim" \in QuietOps
    BY DEF QuietOps
  <2> QED BY <2>1, <2>2, <2>3, ShortLists DEF Quietly
<1>6. CASE FreeSent(t)
  <2>1. At(t, "free_sent") /\ UNCHANGED <<pending, port>> /\ (Then(t, <<>>))
    BY <1>6 DEF FreeSent, OnlyThread, OnlySession, kernel
  <2>2. FlagsKept
    <3>1. PICK s : s = Slot(t) /\ s \in Slots /\ SessionOK(sess[s]) /\ SessionsOK
      BY <2>1, SlotOK
    <3>2. sess' = [sess EXCEPT ![s] = [sess[s] EXCEPT !.completeSendQ = SubSeq(@, sess[s].sendCount + 1, Len(@))]]
      BY <1>6, <3>1 DEF FreeSent
    <3>3. PICK x : x = [sess[s] EXCEPT !.completeSendQ = SubSeq(@, sess[s].sendCount + 1, Len(@))]
      OBVIOUS
    <3>4. x.sendFlag = sess[s].sendFlag /\ x.sendPQCS = sess[s].sendPQCS
      BY <3>1, <3>3 DEF SessionOK, Fields
    <3> QED BY <3>1, <3>2, <3>3, <3>4, FlagsKeptAt
  <2>3. "free_sent" \in QuietOps \cup {"free_sent"}
    OBVIOUS
  <2> QED BY <2>1, <2>2, <2>3, ShortLists DEF Quietly
<1>7. CASE CountReset(t)
  <2>1. At(t, "count_reset") /\ UNCHANGED <<pending, port>> /\ (Then(t, <<>>))
    BY <1>7 DEF CountReset, OnlyThread, OnlySession, kernel, Update
  <2>2. FlagsKept
    <3>1. PICK s : s = Slot(t) /\ s \in Slots /\ SessionOK(sess[s]) /\ SessionsOK
      BY <2>1, SlotOK
    <3>2. sess' = [sess EXCEPT ![s] = [sess[s] EXCEPT !.sendCount = 0]]
      BY <1>7, <3>1 DEF CountReset, Update
    <3>3. PICK x : x = [sess[s] EXCEPT !.sendCount = 0]
      OBVIOUS
    <3>4. x.sendFlag = sess[s].sendFlag /\ x.sendPQCS = sess[s].sendPQCS
      BY <3>1, <3>3 DEF SessionOK, Fields
    <3> QED BY <3>1, <3>2, <3>3, <3>4, FlagsKeptAt
  <2>3. "count_reset" \in QuietOps
    BY DEF QuietOps
  <2> QED BY <2>1, <2>2, <2>3, ShortLists DEF Quietly
<1>8. CASE Mark(t)
  <2>1. At(t, "mark") /\ UNCHANGED <<pending, port>> /\ (Then(t, <<>>))
    BY <1>8 DEF Mark, OnlyThread, OnlySession, kernel, Update
  <2>2. FlagsKept
    <3>1. PICK s : s = Slot(t) /\ s \in Slots /\ SessionOK(sess[s]) /\ SessionsOK
      BY <2>1, SlotOK
    <3>2. sess' = [sess EXCEPT ![s] = [sess[s] EXCEPT !.sendDisconnectFlag = 1]]
      BY <1>8, <3>1 DEF Mark, Update
    <3>3. PICK x : x = [sess[s] EXCEPT !.sendDisconnectFlag = 1]
      OBVIOUS
    <3>4. x.sendFlag = sess[s].sendFlag /\ x.sendPQCS = sess[s].sendPQCS
      BY <3>1, <3>3 DEF SessionOK, Fields
    <3> QED BY <3>1, <3>2, <3>3, <3>4, FlagsKeptAt
  <2>3. "mark" \in QuietOps
    BY DEF QuietOps
  <2> QED BY <2>1, <2>2, <2>3, ShortLists DEF Quietly
<1>9. CASE InsertRef(t)
  <2>1. At(t, "insert_ref") /\ UNCHANGED <<pending, port>> /\ (Then(t, <<>>))
    BY <1>9 DEF InsertRef, OnlyThread, OnlySession, kernel, Update
  <2>2. FlagsKept
    <3>1. PICK s : s = Slot(t) /\ s \in Slots /\ SessionOK(sess[s]) /\ SessionsOK
      BY <2>1, SlotOK
    <3>2. sess' = [sess EXCEPT ![s] = [sess[s] EXCEPT !.iocpCount = @ + 1]]
      BY <1>9, <3>1 DEF InsertRef, Update
    <3>3. PICK x : x = [sess[s] EXCEPT !.iocpCount = @ + 1]
      OBVIOUS
    <3>4. x.sendFlag = sess[s].sendFlag /\ x.sendPQCS = sess[s].sendPQCS
      BY <3>1, <3>3 DEF SessionOK, Fields
    <3> QED BY <3>1, <3>2, <3>3, <3>4, FlagsKeptAt
  <2>3. "insert_ref" \in QuietOps
    BY DEF QuietOps
  <2> QED BY <2>1, <2>2, <2>3, ShortLists DEF Quietly
<1>10. CASE AcquireInc(t)
  <2>1. At(t, "acquire") /\ UNCHANGED <<pending, port>> /\ (Then(t, <<"release">>) \/ Then(t, <<"check_id">>))
    BY <1>10 DEF AcquireInc, OnlyThread, OnlySession, kernel, Refuse
  <2>2. FlagsKept
    <3>1. PICK s : s = Slot(t) /\ s \in Slots /\ SessionOK(sess[s]) /\ SessionsOK
      BY <2>1, SlotOK
    <3>2. sess' = [sess EXCEPT ![s] = [sess[s] EXCEPT !.iocpCount = @ + 1]]
      BY <1>10, <3>1 DEF AcquireInc, Refuse
    <3>3. PICK x : x = [sess[s] EXCEPT !.iocpCount = @ + 1]
      OBVIOUS
    <3>4. x.sendFlag = sess[s].sendFlag /\ x.sendPQCS = sess[s].sendPQCS
      BY <3>1, <3>3 DEF SessionOK, Fields
    <3> QED BY <3>1, <3>2, <3>3, <3>4, FlagsKeptAt
  <2>3. "acquire" \in QuietOps /\ "check_id" \in QuietOps /\ "release" \in QuietOps
    BY DEF QuietOps
  <2> QED BY <2>1, <2>2, <2>3, ShortLists DEF Quietly
<1>11. CASE Push(t)
  <2>1. At(t, "push") /\ UNCHANGED <<pending, port>> /\ (Then(t, <<>>))
    BY <1>11 DEF Push, OnlyThread, OnlySession, kernel
  <2>2. FlagsKept
    <3>1. PICK s : s = Slot(t) /\ s \in Slots /\ SessionOK(sess[s]) /\ SessionsOK
      BY <2>1, SlotOK
    <3>2. sess' = [sess EXCEPT ![s] = [sess[s] EXCEPT !.sendQ = Append(@, [to |-> arg[t].id, no |-> pushes])]]
      BY <1>11, <3>1 DEF Push
    <3>3. PICK x : x = [sess[s] EXCEPT !.sendQ = Append(@, [to |-> arg[t].id, no |-> pushes])]
      OBVIOUS
    <3>4. x.sendFlag = sess[s].sendFlag /\ x.sendPQCS = sess[s].sendPQCS
      BY <3>1, <3>3 DEF SessionOK, Fields
    <3> QED BY <3>1, <3>2, <3>3, <3>4, FlagsKeptAt
  <2>3. "push" \in QuietOps
    BY DEF QuietOps
  <2> QED BY <2>1, <2>2, <2>3, ShortLists DEF Quietly
<1>12. CASE Insert(t)
  <2>1. At(t, "insert") /\ UNCHANGED <<pending, port>> /\ (Then(t, <<>>))
    BY <1>12 DEF Insert, OnlyThread, OnlySession, kernel
  <2>2. FlagsKept
    <3>1. PICK s : s = Slot(t) /\ s \in Slots /\ SessionOK(sess[s]) /\ SessionsOK
      BY <2>1, SlotOK
    <3>2. sess' = [sess EXCEPT ![s] = [sess[s] EXCEPT !.Index = Id(s, netId), !.Sock = clientSock]]
      BY <1>12, <3>1 DEF Insert
    <3>3. PICK x : x = [sess[s] EXCEPT !.Index = Id(s, netId), !.Sock = clientSock]
      OBVIOUS
    <3>4. x.sendFlag = sess[s].sendFlag /\ x.sendPQCS = sess[s].sendPQCS
      BY <3>1, <3>3 DEF SessionOK, Fields
    <3> QED BY <3>1, <3>2, <3>3, <3>4, FlagsKeptAt
  <2>3. "insert" \in QuietOps
    BY DEF QuietOps
  <2> QED BY <2>1, <2>2, <2>3, ShortLists DEF Quietly
<1> QED BY <1>1, <1>2, <1>3, <1>4, <1>5, <1>6, <1>7, <1>8, <1>9, <1>10, <1>11, <1>12

(* While the slot of a new session is prepared nobody has a frame or a packet *)
(* of it that holds sendFlag.                                                 *)
LEMMA NobodySends ==
  ASSUME LifeInv, NEW s \in Slots, Enters(s)
  PROVE  Tally(Sends, todo, pending, port, s) = 0
<1>1. ServerSound /\ RefCountExact /\ Shapes /\ sess[s].iocpCount = 0
  BY DEF LifeInv, IInv, Life, Alone
<1>2. InKernel(Referring, s) = 0 /\ \A t \in Threads : ~WorkWord(todo[t], s)
  BY <1>1, KernelCounts
<1>3. PICK M : M = FramesWith(SendOps, s)
  OBVIOUS
<1>4. ASSUME NEW t \in Threads PROVE Occ(todo[t], M) = 0
  <2>1. Shape(t)
    BY <1>1 DEF Shapes
  <2>2. CASE todo[t] = <<>>
    BY <2>2, OccEmpty
  <2>3. ASSUME NEW A, NEW r, todo[t] \in Seq(Todo(A, {r})), r # s \/ A \cap SendOps = {}
        PROVE  Occ(todo[t], M) = 0
    <3>1. PICK q : q = todo[t]
      OBVIOUS
    <3>2. q \in Seq(Todo(A, {r}))
      BY <2>3, <3>1
    <3>3. Occ(q, M) \in Nat
      BY <3>2, PositionsFinite
    <3>4. Occ(q, M) > 0 => s = r /\ A \cap SendOps # {}
      BY <1>3, <3>2, FramesOf
    <3> QED BY <2>3, <3>1, <3>3, <3>4
  <2>4. ASSUME NEW r \in Slots, WorkWord(todo[t], r) PROVE Occ(todo[t], M) = 0
    <3>1. todo[t] \in Seq(Todo(WorkOps, {r})) /\ r # s
      BY <1>2, <2>4, ShapesFrames
    <3> QED BY <2>3, <3>1
  <2>5. ASSUME NEW r \in Slots, ListWord(todo[t], EndLists, r) PROVE Occ(todo[t], M) = 0
    <3>1. todo[t] \in Seq(Todo(EndOps, {r})) /\ EndOps \cap SendOps = {}
      BY <2>5, ShapesFrames DEF EndOps, TeardownOps, SendOps
    <3> QED BY <2>3, <3>1
  <2>6. ASSUME NEW r \in Slots, ListWord(todo[t], {<<"exited">>}, r) PROVE Occ(todo[t], M) = 0
    <3>1. todo[t] \in Seq(Todo({"exited"}, {r})) /\ {"exited"} \cap SendOps = {}
      BY <2>6, ShapesFrames DEF SendOps
    <3> QED BY <2>3, <3>1
  <2>7. ASSUME NEW r \in Slots, ListWord(todo[t], NewLists \cup {<<"pop_slot">>}, r)
        PROVE  Occ(todo[t], M) = 0
    <3>1. todo[t] \in Seq(Todo(NewOps, {r})) /\ NewOps \cap SendOps = {}
      BY <2>7, ShapesFrames DEF NewOps, SendOps
    <3> QED BY <2>3, <3>1
  <2> QED BY <2>1, <2>2, <2>4, <2>5, <2>6, <2>7 DEF Shape
<1>5. PICK A, Q, P, R : todo \in Queues(Threads, Todo(A, Slots)) /\ Q = todo /\ P = pending /\ R = port
  BY <1>1 DEF ServerSound, Sound, Running
<1>6. Running(Threads, Slots, Kinds, Q, P, R)
  BY <1>1, <1>5 DEF ServerSound, Sound
<1>7. InThreads(Q, SendOps, s) = 0
  <2>1. \A t \in Threads : Occ(Q[t], M) = 0
    BY <1>4, <1>5
  <2> QED BY <1>3, <1>5, <2>1, ThreadsFinite, TotalNone DEF InThreads
<1>8. InFlight(P, {"send"}, s) = 0
  <2>1. InFlight(P, Referring, s) \in Nat /\ InPort(R, Referring, s) \in Nat
    BY <1>6, ThreadsFinite, CountsNat
  <2>2. InFlight(P, Referring, s) = 0
    BY <1>2, <1>5, <2>1 DEF InKernel
  <2>3. IsFiniteSet(P)
    BY <1>6 DEF Running
  <2>4. {p \in P : p.s = s /\ p.op \in Referring} = {}
    BY <2>2, <2>3, CountNone DEF InFlight
  <2>5. {p \in P : p.s = s /\ p.op \in {"send"}} = {}
    BY <2>4 DEF Referring
  <2> QED BY <2>5, FS_EmptySet DEF InFlight
<1>9. InPort(R, {"send"}, s) = 0
  <2>1. InFlight(P, Referring, s) \in Nat /\ InPort(R, Referring, s) \in Nat
    BY <1>6, ThreadsFinite, CountsNat
  <2>2. InPort(R, Referring, s) = 0
    BY <1>2, <1>5, <2>1 DEF InKernel
  <2>3. R \in Seq(Packets(Slots, Kinds))
    BY <1>6 DEF Running
  <2>4. \A i \in 1 .. Len(R) : R[i] \notin PacketsWith(Referring, s)
    BY <2>2, <2>3, PositionsFinite DEF InPort
  <2>5. \A i \in 1 .. Len(R) : R[i] \notin PacketsWith({"send"}, s)
    BY <2>4 DEF PacketsWith, Referring
  <2> QED BY <2>3, <2>5, PositionsFinite DEF InPort
<1>10. Senders(Q, P, R, s) = 0
  BY <1>7, <1>8, <1>9 DEF Senders
<1>11. Senders(Q, P, R, s) = Tally(Sends, Q, P, R, s)
  BY <1>6, ThreadsFinite, SendersTally
<1> QED BY <1>5, <1>10, <1>11

(* So sendFlag is 0 already when it is set to 0 (l.286). *)
LEMMA QuietInsertFlags ==
  ASSUME FlagsInv, NEW t \in Threads, InsertFlags(t)
  PROVE  Quietly(t)
<1>1. At(t, "insert_flags") /\ UNCHANGED <<pending, port>> /\ Then(t, <<>>)
  BY DEF InsertFlags, Update, OnlySession, kernel
<1>2. PICK s : s = Slot(t) /\ s \in Slots /\ SessionOK(sess[s]) /\ SessionsOK
  BY <1>1, SlotOK DEF FlagsInv
<1>3. Enters(s)
  <2>1. "insert_flags" \in EnterOps /\ todo[t] # <<>> /\ Head(todo[t]).op = "insert_flags"
    BY <1>1 DEF EnterOps, At
  <2>2. t = Acceptor
    BY <1>1, <1>2, <2>1, LifeAt DEF FlagsInv
  <2> QED BY <1>2, <2>1, <2>2 DEF Enters, Reaches
<1>4. sess[s].sendFlag = 0
  <2>1. Tally(Sends, todo, pending, port, s) = 0
    BY <1>2, <1>3, NobodySends DEF FlagsInv
  <2> QED BY <1>2, <2>1, WakeParts DEF FlagsInv, Exact
<1>5. sess' = [sess EXCEPT ![s] = [sess[s] EXCEPT !.sendFlag = 0, !.disconnectFlag = 0]]
  BY <1>2 DEF InsertFlags, Update
<1>6. PICK x : x = [sess[s] EXCEPT !.sendFlag = 0, !.disconnectFlag = 0]
  OBVIOUS
<1>7. x.sendFlag = sess[s].sendFlag /\ x.sendPQCS = sess[s].sendPQCS
  BY <1>2, <1>4, <1>6 DEF SessionOK, Fields
<1>8. FlagsKept
  BY <1>2, <1>5, <1>6, <1>7, FlagsKeptAt
<1>9. "insert_flags" \in QuietOps
  BY DEF QuietOps
<1> QED BY <1>1, <1>8, <1>9, ShortLists DEF Quietly

(* Steps that may end the program. *)
LEMMA StillFlags ==
  ASSUME FlagsInv, UNCHANGED <<sess, todo, pending, port>>
  PROVE  Exact(Sends)' /\ Exact(Wakes)'
BY FlagsSound, FlagStill DEF FlagsInv

LEMMA CrashFlags ==
  ASSUME FlagsInv, NEW why, Crash(why)
  PROVE  Exact(Sends)' /\ Exact(Wakes)'
BY StillFlags DEF Crash, kernel

LEMMA CrashingFlags ==
  ASSUME FlagsInv, ServerTypeOK', NEW t \in Threads, TestId(t) \/ OnRecv(t)
  PROVE  Exact(Sends)' /\ Exact(Wakes)'
<1>1. \A why : Crash(why) => Exact(Sends)' /\ Exact(Wakes)'
  BY CrashFlags
<1>2. CASE TestId(t) /\ ~Crash("teardown")
  <2>1. At(t, "test_id") /\ UNCHANGED <<sess, pending, port>> /\ Then(t, <<>>)
    BY <1>2 DEF TestId, OnlyThread, OnlySession, kernel
  <2>2. "test_id" \in QuietOps
    BY DEF QuietOps
  <2> QED BY <2>1, <2>2, ShortLists, QuietExact DEF Quietly, FlagsKept
<1>3. CASE OnRecv(t) /\ ~Crash("decode")
  <2>1. At(t, "on_recv") /\ UNCHANGED <<pending, port>> /\ Then(t, <<>>)
    BY <1>3 DEF OnRecv, OnlySession, kernel
  <2>2. PICK s : s = Slot(t) /\ s \in Slots /\ SessionOK(sess[s]) /\ SessionsOK
    BY <2>1, SlotOK DEF FlagsInv
  <2>3. PICK b : sess' = [sess EXCEPT ![s] = [sess[s] EXCEPT !.recvQ = b]]
    BY <1>3, <2>2 DEF OnRecv
  <2>4. PICK x : x = [sess[s] EXCEPT !.recvQ = b]
    OBVIOUS
  <2>5. x.sendFlag = sess[s].sendFlag /\ x.sendPQCS = sess[s].sendPQCS
    BY <2>2, <2>4 DEF SessionOK, Fields
  <2>6. FlagsKept
    BY <2>2, <2>3, <2>4, <2>5, FlagsKeptAt
  <2>7. "on_recv" \in QuietOps
    BY DEF QuietOps
  <2> QED BY <2>1, <2>6, <2>7, ShortLists, QuietExact DEF Quietly
<1> QED BY <1>1, <1>2, <1>3 DEF TestId, OnRecv

(* clientShutdown of the session's own id. *)
LEMMA QuietCalls ==
  ASSUME LifeInv, NEW t \in Threads, CutCAS(t) \/ CutNow(t)
  PROVE  Quietly(t)
<1>1. {"cut_cas", "cut_now"} \subseteq WorkOps \ {"release", "callback"}
      /\ {"cut_cas", "cut_now", "acquire"} \subseteq QuietOps
  BY DEF WorkOps, UseOps, QuietOps
<1>2. CASE CutCAS(t)
  <2>1. At(t, "cut_cas") /\ UNCHANGED <<pending, port>>
    BY <1>2 DEF CutCAS, OnlySession, kernel
  <2>2. Then(t, <<>>) \/ Then(t, <<"acquire">>)
    BY <1>1, <1>2, <2>1, CallWork DEF CutCAS, CallShutdown
  <2>3. PICK s : s = Slot(t) /\ s \in Slots /\ SessionOK(sess[s]) /\ SessionsOK
    BY <2>1, SlotOK
  <2>4. UNCHANGED sess \/ sess' = [sess EXCEPT ![s] = [sess[s] EXCEPT !.disconnectFlag = 1]]
    BY <1>2, <2>3 DEF CutCAS
  <2>5. PICK x : x = [sess[s] EXCEPT !.disconnectFlag = 1]
    OBVIOUS
  <2>6. x.sendFlag = sess[s].sendFlag /\ x.sendPQCS = sess[s].sendPQCS
    BY <2>3, <2>5 DEF SessionOK, Fields
  <2>7. sess' = [sess EXCEPT ![s] = x] => FlagsKept
    BY <2>3, <2>6, FlagsKeptAt
  <2>8. FlagsKept
    BY <2>4, <2>5, <2>7 DEF FlagsKept
  <2> QED BY <1>1, <2>1, <2>2, <2>8, ShortLists DEF Quietly
<1>3. CASE CutNow(t)
  <2>1. At(t, "cut_now") /\ UNCHANGED <<sess, pending, port>>
    BY <1>3 DEF CutNow, OnlyThread, OnlySession, kernel
  <2>2. Then(t, <<>>) \/ Then(t, <<"acquire">>)
    BY <1>1, <1>3, <2>1, CallWork DEF CutNow, CallShutdown
  <2> QED BY <1>1, <2>1, <2>2, ShortLists DEF Quietly, FlagsKept
<1> QED BY <1>2, <1>3

(* Calls and callbacks: frames of operations that do not hold the flag. *)
LEMMA CallExact ==
  ASSUME NEW k, k.owing = {}, FlagSound(k), Exact(k), NEW t \in Threads, NEW op, At(t, op),
         op \notin k.holding, NEW ops, Without(k, ops), NEW s \in Slots,
         \/ todo' = [todo EXCEPT ![t] = Frames(ops, s) \o Tail(@)]
         \/ todo' = [todo EXCEPT ![t] = Frames(ops, s) \o @],
         UNCHANGED <<pending, port>>, KeepsFlag(k)
  PROVE  Exact(k)'
<1> USE ThreadsFinite DEF FlagSound
<1>1. IsList(ops) /\ Net(k, ops) = 0 /\ Weight(k, op) = 0
  BY WithoutNet DEF Weight
<1>2. Adds(k, Slots, {}, s, 0) /\ SameIndex(Slots, {})
  BY KeepsAdds
<1>3. CASE todo' = [todo EXCEPT ![t] = Frames(ops, s) \o Tail(@)]
  <2>1. Balanced(k, Threads, Slots, Kinds, {})
    BY <1>1, <1>2, <1>3, CallStep
  <2> QED BY <2>1, KeptExact
<1>4. CASE todo' = [todo EXCEPT ![t] = Frames(ops, s) \o @]
  <2>1. Balanced(k, Threads, Slots, Kinds, {})
    BY <1>1, <1>2, <1>4, CallbackStep
  <2> QED BY <2>1, KeptExact
<1> QED BY <1>3, <1>4

(* A thread that was idle. *)
LEMMA BeginExact ==
  ASSUME NEW k, k.owing = {}, FlagSound(k), Exact(k), NEW t \in Threads, todo[t] = <<>>,
         NEW ops, Without(k, ops), NEW s \in Slots,
         todo' = [todo EXCEPT ![t] = Frames(ops, s)], UNCHANGED <<pending, port>>, KeepsFlag(k)
  PROVE  Exact(k)'
<1> USE ThreadsFinite DEF FlagSound
<1>1. IsList(ops) /\ Net(k, ops) = 0
  BY WithoutNet
<1>2. Adds(k, Slots, {}, s, 0) /\ SameIndex(Slots, {})
  BY KeepsAdds
<1>3. PICK new : new = Frames(ops, s)
  OBVIOUS
<1>4. IsFrames(new, Slots) /\ \A r : Held(k, new, r) = 0
  <2>1. \A r : /\ IsFrames(Frames(ops, s), Slots)
               /\ Held(k, Frames(ops, s), r) = IF r = s THEN Net(k, ops) ELSE 0
    BY SMTT(30), <1>1, HeldFrames
  <2> QED BY <1>1, <1>3, <2>1
<1>5. todo' = [todo EXCEPT ![t] = new]
  BY <1>3
<1>6. Balanced(k, Threads, Slots, Kinds, {})
  BY <1>2, <1>4, <1>5, BeginStep
<1> QED BY <1>6, KeptExact

LEMMA PopSlotFlags ==
  ASSUME FlagsInv, ServerTypeOK', NEW t \in Threads, PopSlot(t)
  PROVE  Exact(Sends)' /\ Exact(Wakes)'
<1>1. CASE \E why \in {"no_slot", "slot_0"} : Crash(why)
  BY <1>1, CrashFlags
<1>2. CASE ~\E why \in {"no_slot", "slot_0"} : Crash(why)
  <2>1. PICK s, ops : s = Head(indexStack) /\ ops = NewSession
    OBVIOUS
  <2>2. /\ At(t, "pop_slot") /\ UNCHANGED <<sess, pending, port>> /\ indexStack # <<>>
        /\ todo' = [todo EXCEPT ![t] = Frames(ops, s) \o Tail(@)]
    BY <1>2, <2>1 DEF PopSlot, OnlyThread, OnlySession, kernel
  <2>3. s \in Slots
    BY <2>1, <2>2 DEF FlagsInv, LifeInv, IInv, SlotNumbers
  <2>4. Without(Sends, ops) /\ Without(Wakes, ops)
    BY <2>1, QuietLists, ShortLists DEF NewSession
  <2>5. "pop_slot" \notin Sends.holding /\ "pop_slot" \notin Wakes.holding
    BY QuietHold DEF QuietOps
  <2>6. KeepsFlag(Sends) /\ KeepsFlag(Wakes)
    BY <2>2, BothKept DEF FlagsKept
  <2> QED BY <2>2, <2>3, <2>4, <2>5, <2>6, CallExact, FlagsSound, TwoFlags DEF FlagsInv
<1> QED BY <1>1, <1>2

LEMMA CallBackFlags ==
  ASSUME FlagsInv, ServerTypeOK', NEW t \in Threads, CallBack(t)
  PROVE  Exact(Sends)' /\ Exact(Wakes)'
<1>1. At(t, "callback") /\ UNCHANGED <<sess, pending, port>>
  BY DEF CallBack, Request, OnlyThread, OnlySession, kernel
<1>2. PICK s, ops : s = sess[Slot(t)].Index.slot /\ ops = <<"acquire">>
  OBVIOUS
<1>3. s \in Slots
  BY <1>1, <1>2, SlotOK DEF FlagsInv, LifeInv, IInv, SlotNumbers
<1>4. todo' = [todo EXCEPT ![t] = Frames(ops, s) \o @]
  <2>1. todo' = [todo EXCEPT ![t] = <<Frame("acquire", sess[Slot(t)].Index.slot)>> \o todo[t]]
    BY DEF CallBack
  <2>2. <<Frame("acquire", s)>> = Frames(<<"acquire">>, s)
    BY OneFrame
  <2> QED BY <1>2, <2>1, <2>2
<1>5. {"acquire", "callback"} \subseteq QuietOps
  BY DEF QuietOps
<1>6. Without(Sends, ops) /\ Without(Wakes, ops)
  BY <1>2, <1>5, QuietLists, ShortLists
<1>7. KeepsFlag(Sends) /\ KeepsFlag(Wakes)
  BY <1>1, BothKept DEF FlagsKept
<1> QED BY <1>1, <1>3, <1>4, <1>5, <1>6, <1>7, QuietHold, CallExact, FlagsSound, TwoFlags DEF FlagsInv

LEMMA AcceptFlags ==
  ASSUME FlagsInv, ServerTypeOK', NEW c \in Conns, Accept(c)
  PROVE  Exact(Sends)' /\ Exact(Wakes)'
<1>1. UNCHANGED <<sess, pending, port>> /\ todo[Acceptor] = <<>> /\ Acceptor \in Threads /\ 0 \in Slots
  BY ThreadsFinite DEF Accept, Idle
<1>2. CASE UNCHANGED todo
  BY <1>1, <1>2, StillFlags
<1>3. CASE todo' = [todo EXCEPT ![Acceptor] = <<Frame("pop_slot", 0)>>]
  <2>1. PICK ops : ops = <<"pop_slot">>
    OBVIOUS
  <2>2. todo' = [todo EXCEPT ![Acceptor] = Frames(ops, 0)]
    BY <1>3, <2>1, OneFrame
  <2>3. Without(Sends, ops) /\ Without(Wakes, ops)
    <3>1. "pop_slot" \in QuietOps
      BY DEF QuietOps
    <3> QED BY <2>1, <3>1, QuietLists, ShortLists
  <2>4. KeepsFlag(Sends) /\ KeepsFlag(Wakes)
    BY <1>1, BothKept DEF FlagsKept
  <2> QED BY <1>1, <2>2, <2>3, <2>4, BeginExact, FlagsSound, TwoFlags DEF FlagsInv
<1> QED BY <1>2, <1>3 DEF Accept

(* The kernel completes an operation. *)
LEMMA KernelFlags ==
  ASSUME FlagsInv, ServerTypeOK', Kernel
  PROVE  Exact(Sends)' /\ Exact(Wakes)'
<1> USE ThreadsFinite
<1>1. PICK p \in pending, n \in Nat : Complete(p, n) /\ FlagsKept
  <2>1. ASSUME NEW p \in pending, RecvData(p)
        PROVE  \E n \in Nat : Complete(p, n) /\ FlagsKept
    <3>1. PICK n \in Fragments : /\ Complete(p, n)
                                 /\ sess' = [sess EXCEPT ![p.s].recvQ = @ \o [i \in 1 .. n |-> p.c]]
      BY <2>1 DEF RecvData
    <3>2. n \in Nat /\ p.s \in Slots /\ SessionsOK /\ SessionOK(sess[p.s])
      BY SizesAssumption DEF FlagsInv, LifeInv, IInv, ServerSound, Sound, Running, ServerTypeOK, SessionsOK
    <3>3. PICK b : sess' = [sess EXCEPT ![p.s] = [sess[p.s] EXCEPT !.recvQ = b]]
      BY <3>1
    <3>4. PICK x : x = [sess[p.s] EXCEPT !.recvQ = b]
      OBVIOUS
    <3>5. x.sendFlag = sess[p.s].sendFlag /\ x.sendPQCS = sess[p.s].sendPQCS
      BY <3>2, <3>4 DEF SessionOK, Fields
    <3> QED BY <3>1, <3>2, <3>3, <3>4, <3>5, FlagsKeptAt
  <2>2. ASSUME NEW p \in pending, SendDone(p) \/ ZeroBytes(p)
        PROVE  \E n \in Nat : Complete(p, n) /\ FlagsKept
    BY <2>2 DEF SendDone, ZeroBytes, FlagsKept
  <2> QED BY <2>1, <2>2 DEF Kernel
<1>2. {"recv", "send"} \subseteq Kinds
  BY DEF Kinds
<1>3. ASSUME NEW k \in {Sends, Wakes} PROVE Exact(k)'
  <2>1. FlagSound(k) /\ KeepsFlag(k) /\ Exact(k)
    BY <1>1, BothKept, FlagsSound DEF FlagsInv
  <2>2. Adds(k, Slots, {}, 0, 0) /\ SameIndex(Slots, {})
    BY <2>1, KeepsAdds
  <2>3. Sound(k, Threads, Slots, Kinds, {})
    BY <2>1 DEF FlagSound
  <2>4. Balanced(k, Threads, Slots, Kinds, {})
    BY <1>1, <1>2, <2>2, <2>3, CompleteBalanced
  <2> QED BY <2>1, <2>4, KeptExact
<1> QED BY <1>3

LEMMA WakeWeights ==
  /\ \A op \in QuietOps \cup SendOps \cup {"free_sent"} : Weight(Wakes, op) = 0
  /\ Weight(Wakes, "pqcs_dec") = 1
BY DEF Weight, Wakes, QuietOps, SendOps

(* What a worker does for a packet gives the flags of the packet back. *)
LEMMA DequeueFlags ==
  ASSUME FlagsInv, ServerTypeOK', NEW w \in Workers, Dequeue(w)
  PROVE  Exact(Sends)' /\ Exact(Wakes)'
<1> USE ThreadsFinite
<1>1. PICK e, ops : e = Head(port) /\ ops = Handler(e)
  OBVIOUS
<1>2. TakePacket(w, ops) /\ w \in Threads /\ UNCHANGED sess
  BY <1>1 DEF Dequeue, Threads, TakePacket
<1>3. port \in Seq(Packets(Slots, Kinds)) /\ port # <<>>
  BY <1>2 DEF FlagsInv, LifeInv, IInv, ServerSound, Sound, Running, TakePacket
<1>4. e.op \in Kinds /\ e.trans \in Nat
  <2>1. e \in Packets(Slots, Kinds)
    BY <1>1, <1>3
  <2> QED BY <2>1 DEF Packets
<1>5. /\ IsList(OnRequest) /\ Net(Sends, OnRequest) = 0
      /\ IsList(OnData) /\ Net(Sends, OnData) = 0
      /\ IsList(OnBroken) /\ Net(Sends, OnBroken) = 0
      /\ IsList(OnSent) /\ Net(Sends, OnSent) = 1
      /\ IsList(<<"exited">>) /\ Net(Sends, <<"exited">>) = 0
  BY NetOne, Net2, Net3, Net4, Net6, SendWeights DEF OnRequest, OnData, OnBroken, OnSent
<1>6. IsList(<<"flag_dec">> \o OnBroken) /\ Net(Sends, <<"flag_dec">> \o OnBroken) = 1
  <2>1. IsList(<<"flag_dec">>) /\ Net(Sends, <<"flag_dec">>) = 1
    BY NetOne, SendWeights
  <2> QED BY <1>5, <2>1, NetConcat
<1>7. IsList(ops) /\ Net(Sends, ops) = Part(Sends, e.op)
  BY <1>1, <1>4, <1>5, <1>6, Parts DEF Handler, Kinds
<1>8. /\ Weight(Wakes, "post_test") = 0 /\ Weight(Wakes, "pqcs_test") = 0 /\ Weight(Wakes, "release") = 0
      /\ Weight(Wakes, "on_recv") = 0 /\ Weight(Wakes, "callback") = 0 /\ Weight(Wakes, "flag") = 0
      /\ Weight(Wakes, "shutdown") = 0 /\ Weight(Wakes, "free_sent") = 0 /\ Weight(Wakes, "flag_dec") = 0
      /\ Weight(Wakes, "count_reset") = 0 /\ Weight(Wakes, "cut_test") = 0 /\ Weight(Wakes, "exited") = 0
      /\ Weight(Wakes, "pqcs_dec") = 1
  BY WakeWeights DEF QuietOps, SendOps
<1>9. /\ Net(Wakes, OnRequest) = 1 /\ Net(Wakes, OnData) = 0 /\ Net(Wakes, OnBroken) = 0
      /\ Net(Wakes, OnSent) = 0 /\ Net(Wakes, <<"exited">>) = 0
  BY <1>8, NetOne, Net2, Net3, Net4, Net6 DEF OnRequest, OnData, OnBroken, OnSent
<1>10. Net(Wakes, <<"flag_dec">> \o OnBroken) = 0
  <2>1. IsList(<<"flag_dec">>) /\ Net(Wakes, <<"flag_dec">>) = 0
    BY <1>8, NetOne
  <2> QED BY <1>5, <1>9, <2>1, NetConcat
<1>11. Net(Wakes, ops) = Part(Wakes, e.op)
  BY <1>1, <1>4, <1>9, <1>10, WakeParts DEF Handler, Kinds
<1>12. ASSUME NEW k \in {Sends, Wakes} PROVE Exact(k)'
  <2>1. FlagSound(k) /\ KeepsFlag(k) /\ Exact(k)
    BY <1>2, BothKept, FlagsSound DEF FlagsInv, FlagsKept
  <2>2. Sound(k, Threads, Slots, Kinds, {}) /\ Net(k, ops) = Part(k, Head(port).op)
    BY <1>1, <1>7, <1>11, <2>1 DEF FlagSound
  <2>3. Balanced(k, Threads, Slots, Kinds, {})
    BY <1>2, <1>7, <2>2, TakePacketBalanced
  <2> QED BY <2>1, <2>3, KeptExact
<1> QED BY <1>12

LEMMA WakersTally ==
  ASSUME NEW Q, NEW P, NEW R, Running(Threads, Slots, Kinds, Q, P, R), NEW s
  PROVE  Wakers(Q, R, s) = Tally(Wakes, Q, P, R, s)
<1> USE ThreadsFinite
<1>1. PICK A : Q \in Queues(Threads, Todo(A, Slots))
  BY DEF Running
<1>2. FramesWith({}, s) = {}
  BY DEF FramesWith
<1>3. \A t \in Threads : Occ(Q[t], FramesWith({}, s)) = 0
  <2> TAKE t \in Threads
  <2>1. Q[t] \in Seq(Todo(A, Slots))
    BY <1>1 DEF Queues
  <2> QED BY <1>2, <2>1, PositionsFinite
<1>4. InThreads(Q, {}, s) = 0
  BY <1>1, <1>3, TotalNone DEF InThreads
<1>5. InThreads(Q, {"pqcs_dec"}, s) \in Nat /\ InPort(R, {"pqcs"}, s) \in Nat
  BY CountsNat
<1>6. InFlight(P, {"pqcs"}, s) = 0
  <2>1. {p \in P : p.s = s /\ p.op \in {"pqcs"}} = {}
    BY DEF Running
  <2> QED BY <2>1, FS_EmptySet DEF InFlight
<1> QED BY <1>4, <1>5, <1>6 DEF Wakers, Tally, Wakes

(* A worker that is to take sendPQCS off finds it set. *)
LEMMA WakerCounts ==
  ASSUME FlagsInv, NEW t \in Threads, At(t, "pqcs_dec")
  PROVE  sess[Slot(t)].sendPQCS = 1
<1> USE ThreadsFinite
<1>1. PICK A, s, Q, P, R : /\ todo \in Queues(Threads, Todo(A, Slots))
                           /\ s = Slot(t) /\ Q = todo /\ P = pending /\ R = port
  BY DEF FlagsInv, LifeInv, IInv, ServerSound, Sound, Running
<1>2. Running(Threads, Slots, Kinds, Q, P, R) /\ s \in Slots
  BY <1>1, SlotOK DEF FlagsInv, LifeInv, IInv, ServerSound, Sound
<1>3. Q[t] \in Seq(Todo(A, Slots)) /\ Q[t] # <<>> /\ Head(Q[t]).op = "pqcs_dec" /\ Head(Q[t]).s = s
  BY <1>1 DEF Queues, Slot, At
<1>4. PICK M : M = FramesWith({"pqcs_dec"}, s)
  OBVIOUS
<1>5. Head(Q[t]) \in M
  <2>1. Head(Q[t]) \in Todo(A, Slots)
    BY <1>3
  <2> QED BY <1>3, <1>4, <2>1 DEF Todo, FramesWith
<1>6. Occ(Q[t], M) \in Nat /\ Occ(Q[t], M) >= 1
  <2>1. PICK S, q : S = Todo(A, Slots) /\ q = Q[t]
    OBVIOUS
  <2>2. /\ Occ(Tail(q), M) \in Nat
        /\ Occ(q, M) = IF Head(q) \in M THEN Occ(Tail(q), M) + 1 ELSE Occ(Tail(q), M)
    BY <1>3, <2>1, OccTail
  <2> QED BY <1>5, <2>1, <2>2
<1>7. Total(Q, M) \in Nat /\ Total(Q, M) >= Occ(Q[t], M)
  BY <1>1, TotalAtLeast
<1>8. InPort(R, {"pqcs"}, s) \in Nat
  BY <1>2, CountsNat
<1>9. Wakers(Q, R, s) >= 1
  BY <1>4, <1>6, <1>7, <1>8 DEF Wakers, InThreads
<1>10. Wakers(Q, R, s) = Tally(Wakes, Q, P, R, s)
  BY <1>2, WakersTally
<1>11. sess[s].sendPQCS = Tally(Wakes, Q, P, R, s) /\ sess[s].sendPQCS \in {0, 1}
  BY <1>1, <1>2, WakeParts DEF FlagsInv, Exact
<1> QED BY <1>1, <1>9, <1>10, <1>11

(* A step that keeps sendPQCS, or sendFlag, of the slot. *)
LEMMA WakeKept ==
  ASSUME FlagsInv, ServerTypeOK', NEW s \in Slots, NEW x, sess' = [sess EXCEPT ![s] = x],
         x.sendPQCS = sess[s].sendPQCS
  PROVE  KeepsFlag(Wakes)
<1>1. DOMAIN sess' = Slots /\ \A r \in Slots : "sendPQCS" \in DOMAIN sess'[r]
  BY DEF ServerTypeOK, SessionsOK, SessionOK, Fields
<1>2. \A r \in Slots : sess'[r].sendPQCS = sess[r].sendPQCS
  BY DEF FlagsInv, LifeInv, ServerTypeOK, SessionsOK
<1> QED BY <1>1, <1>2, WakeParts DEF KeepsFlag

LEMMA SendKept ==
  ASSUME FlagsInv, ServerTypeOK', NEW s \in Slots, NEW x, sess' = [sess EXCEPT ![s] = x],
         x.sendFlag = sess[s].sendFlag
  PROVE  KeepsFlag(Sends)
<1>1. DOMAIN sess' = Slots /\ \A r \in Slots : "sendFlag" \in DOMAIN sess'[r]
  BY DEF ServerTypeOK, SessionsOK, SessionOK, Fields
<1>2. \A r \in Slots : sess'[r].sendFlag = sess[r].sendFlag
  BY DEF FlagsInv, LifeInv, ServerTypeOK, SessionsOK
<1> QED BY <1>1, <1>2, WakeParts DEF KeepsFlag

(* sendPQCS is set, with a packet for a worker (l.170-173), *)
LEMMA WakeCASFlags ==
  ASSUME FlagsInv, ServerTypeOK', NEW t \in Threads, WakeCAS(t)
  PROVE  Exact(Sends)' /\ Exact(Wakes)'
<1> USE ThreadsFinite
<1>1. At(t, "wake_cas") /\ Then(t, <<>>) /\ UNCHANGED pending
  BY DEF WakeCAS
<1>2. PICK s : s = Slot(t) /\ s \in Slots /\ SessionOK(sess[s]) /\ SessionsOK
  BY <1>1, SlotOK DEF FlagsInv
<1>3. /\ "wake_cas" \in QuietOps /\ "wake_cas" \notin Sends.holding /\ "wake_cas" \notin Wakes.holding
      /\ Without(Sends, <<>>) /\ Without(Wakes, <<>>)
      /\ FlagSound(Sends) /\ FlagSound(Wakes) /\ Exact(Sends) /\ Exact(Wakes)
  BY QuietHold, QuietLists, ShortLists, FlagsSound DEF QuietOps, FlagsInv
<1>4. CASE UNCHANGED <<sess, port>>
  BY <1>1, <1>3, <1>4, ShortLists, QuietExact DEF Quietly, FlagsKept
<1>5. CASE /\ sess[s].sendPQCS = 0
           /\ sess' = [sess EXCEPT ![s].sendPQCS = 1, ![s].iocpCount = @ + 1]
           /\ port' = Append(port, [s |-> s, op |-> "pqcs", trans |-> 0])
  <2>1. PICK x, e : /\ x = [sess[s] EXCEPT !.sendPQCS = 1, !.iocpCount = @ + 1]
                    /\ e = [s |-> s, op |-> "pqcs", trans |-> 0]
    OBVIOUS
  <2>2. sess' = [sess EXCEPT ![s] = x] /\ port' = Append(port, e)
    BY <1>2, <1>5, <2>1 DEF SessionsOK, SessionOK, Fields
  <2>3. e \in Packets(Slots, Kinds) /\ e.s = s /\ Part(Sends, e.op) = 0 /\ Part(Wakes, e.op) = 1
    BY <1>2, <2>1, Parts, WakeParts DEF Packets, Kinds
  <2>4. /\ IsList(<<>>) /\ Weight(Sends, "wake_cas") = 0 /\ Weight(Wakes, "wake_cas") = 0
        /\ More(Sends, "wake_cas", <<>>) = 0 /\ More(Wakes, "wake_cas", <<>>) = 0
    <3>1. Weight(Sends, "wake_cas") = 0 /\ Weight(Wakes, "wake_cas") = 0
      BY <1>3, TwoFlags DEF Weight
    <3>2. IsList(<<>>) /\ Net(Sends, <<>>) = 0 /\ Net(Wakes, <<>>) = 0
      BY NetEmpty
    <3> QED BY <3>1, <3>2 DEF More
  <2>5. x.sendFlag = sess[s].sendFlag /\ x.sendPQCS = 1
    BY <1>2, <2>1 DEF SessionOK, Fields
  <2>6. KeepsFlag(Sends)
    BY <1>2, <2>2, <2>5, SendKept
  <2>7. Exact(Sends)'
    <3>1. Adds(Sends, Slots, {}, s, 0) /\ SameIndex(Slots, {})
      BY <1>3, <2>6, KeepsAdds
    <3>2. PICK n : n = More(Sends, "wake_cas", <<>>) + Part(Sends, e.op)
      OBVIOUS
    <3>3. n = 0
      BY <2>3, <2>4, <3>2
    <3>4. Adds(Sends, Slots, {}, Slot(t), More(Sends, "wake_cas", <<>>) + Part(Sends, e.op))
      BY <1>2, <3>1, <3>2, <3>3
    <3>5. Sound(Sends, Threads, Slots, Kinds, {})
      BY <1>3 DEF FlagSound
    <3>6. Balanced(Sends, Threads, Slots, Kinds, {})
      BY <1>1, <1>2, <2>2, <2>3, <2>4, <3>1, <3>4, <3>5, PostStep
    <3> QED BY <1>3, <2>6, <3>6, KeptExact
  <2>8. Exact(Wakes)'
    <3>1. /\ \A r \in Slots : sess'[r].sendPQCS = IF r = s THEN 1 ELSE sess[r].sendPQCS
          /\ DOMAIN sess' = Slots
      BY <1>2, <2>2, <2>5 DEF SessionsOK
    <3>2. Adds(Wakes, Slots, {}, s, 1) /\ SameIndex(Slots, {})
      <4>1. \A r \in Slots : "sendPQCS" \in DOMAIN sess'[r]
        BY DEF ServerTypeOK, SessionsOK, SessionOK, Fields
      <4> QED BY <1>5, <3>1, <4>1, WakeParts DEF Adds, SameIndex
    <3>3. PICK n : n = More(Wakes, "wake_cas", <<>>) + Part(Wakes, e.op)
      OBVIOUS
    <3>4. n = 1
      BY <2>3, <2>4, <3>3
    <3>5. Adds(Wakes, Slots, {}, Slot(t), More(Wakes, "wake_cas", <<>>) + Part(Wakes, e.op))
      BY <1>2, <3>2, <3>3, <3>4
    <3>6. Sound(Wakes, Threads, Slots, Kinds, {})
      BY <1>3 DEF FlagSound
    <3>7. Balanced(Wakes, Threads, Slots, Kinds, {})
      BY <1>1, <1>2, <2>2, <2>3, <2>4, <3>2, <3>5, <3>6, PostStep
    <3>8. \A r \in Slots : sess'[r].sendPQCS \in {0, 1}
      BY <1>3, <3>1, WakeParts DEF Exact
    <3> QED BY <1>3, <3>7, <3>8, ExactNext, WakeParts
  <2> QED BY <2>7, <2>8
<1> QED BY <1>2, <1>4, <1>5 DEF WakeCAS

(* and taken off by the worker that got it (l.255). *)
LEMMA PqcsDecFlags ==
  ASSUME FlagsInv, ServerTypeOK', NEW t \in Threads, PqcsDec(t)
  PROVE  Exact(Sends)' /\ Exact(Wakes)'
<1> USE ThreadsFinite
<1>1. At(t, "pqcs_dec") /\ Then(t, <<>>) /\ UNCHANGED <<pending, port>>
  BY DEF PqcsDec, Update, OnlySession, kernel
<1>2. PICK s : s = Slot(t) /\ s \in Slots /\ SessionOK(sess[s]) /\ SessionsOK
  BY <1>1, SlotOK DEF FlagsInv
<1>3. /\ "pqcs_dec" \notin Sends.holding /\ Without(Sends, <<>>)
      /\ FlagSound(Sends) /\ FlagSound(Wakes) /\ Exact(Sends) /\ Exact(Wakes)
  BY QuietLists, ShortLists, FlagsSound DEF Sends, SendOps, FlagsInv
<1>4. PICK x : x = [sess[s] EXCEPT !.sendPQCS = @ - 1]
  OBVIOUS
<1>5. sess' = [sess EXCEPT ![s] = x]
  BY <1>2, <1>4 DEF PqcsDec, Update
<1>6. sess[s].sendPQCS = 1
  BY <1>1, <1>2, WakerCounts
<1>7. x.sendFlag = sess[s].sendFlag /\ x.sendPQCS = 0
  BY <1>2, <1>4, <1>6 DEF SessionOK, Fields
<1>8. KeepsFlag(Sends)
  BY <1>2, <1>5, <1>7, SendKept
<1>9. Exact(Sends)'
  BY <1>1, <1>3, <1>8, TwoFlags, FlagQuiet
<1>10. Exact(Wakes)'
  <2>1. /\ \A r \in Slots : sess'[r].sendPQCS = IF r = s THEN 0 ELSE sess[r].sendPQCS
        /\ DOMAIN sess' = Slots
    BY <1>2, <1>5, <1>7 DEF SessionsOK
  <2>2. Adds(Wakes, Slots, {}, s, -1) /\ SameIndex(Slots, {})
    <3>1. \A r \in Slots : "sendPQCS" \in DOMAIN sess'[r]
      BY DEF ServerTypeOK, SessionsOK, SessionOK, Fields
    <3> QED BY <1>6, <2>1, <3>1, WakeParts DEF Adds, SameIndex
  <2>3. PICK n : n = More(Wakes, "pqcs_dec", <<>>)
    OBVIOUS
  <2>4. n = -1 /\ IsList(<<>>)
    BY <2>3, WakeWeights, MoreNone
  <2>5. Adds(Wakes, Slots, {}, Slot(t), More(Wakes, "pqcs_dec", <<>>))
    BY <1>2, <2>2, <2>3, <2>4
  <2>6. Sound(Wakes, Threads, Slots, Kinds, {})
    BY <1>3 DEF FlagSound
  <2>7. Balanced(Wakes, Threads, Slots, Kinds, {})
    BY <1>1, <2>2, <2>4, <2>5, <2>6, LocalStep
  <2>8. \A r \in Slots : sess'[r].sendPQCS \in {0, 1}
    BY <1>3, <2>1, WakeParts DEF Exact
  <2> QED BY <1>3, <2>7, <2>8, ExactNext, WakeParts
<1> QED BY <1>9, <1>10

LEMMA OneSenderExact ==
  LifeInv => (Exact(Sends) <=> OneSender(Slots))
BY WakeParts DEF Exact, OneSender, Flags

(* sendFlag, over the steps of Sessions. *)
LEMMA SendsExact ==
  ASSUME FlagsInv, Balanced(Sends, Threads, Slots, Kinds, {}), Flags(Slots)'
  PROVE  Exact(Sends)'
BY FlagsSound, WakeParts, ExactNext DEF FlagsInv, Flags

(* sendPQCS, over a step that starts an operation. *)
LEMMA StartedExact ==
  ASSUME FlagSound(Wakes), Exact(Wakes), NEW t \in Threads, NEW op, At(t, op), op \notin Wakes.holding,
         Then(t, <<>>), NEW p, p \notin pending, p.s = Slot(t), p.op \in {"recv", "send"},
         pending' = pending \cup {p}, UNCHANGED port, KeepsFlag(Wakes)
  PROVE  Exact(Wakes)'
<1> USE ThreadsFinite
<1>1. Adds(Wakes, Slots, {}, Slot(t), 0) /\ SameIndex(Slots, {})
  BY KeepsAdds
<1>2. PICK n : n = More(Wakes, op, <<>>) + Part(Wakes, p.op)
  OBVIOUS
<1>3. IsList(<<>>) /\ Net(Wakes, <<>>) = 0 /\ Weight(Wakes, op) = 0 /\ Part(Wakes, p.op) = 0
  BY NetEmpty, TwoFlags, WakeParts DEF Weight
<1>4. n = 0
  BY <1>2, <1>3 DEF More
<1>5. Adds(Wakes, Slots, {}, Slot(t), More(Wakes, op, <<>>) + Part(Wakes, p.op))
  BY <1>1, <1>2, <1>4
<1>6. Sound(Wakes, Threads, Slots, Kinds, {})
  BY DEF FlagSound
<1>7. Balanced(Wakes, Threads, Slots, Kinds, {})
  BY <1>1, <1>3, <1>5, <1>6, StartStep
<1> QED BY <1>7, KeptExact

(* The operations of sendPost do not touch sendPQCS. *)
WakeQuietly(t) ==
  /\ \E op : At(t, op) /\ op \notin Wakes.holding /\ \E ops : Without(Wakes, ops) /\ Then(t, ops)
  /\ UNCHANGED <<pending, port>> /\ KeepsFlag(Wakes)

LEMMA WakeQuietExact ==
  ASSUME FlagsInv, NEW t \in Threads, WakeQuietly(t)
  PROVE  Exact(Wakes)'
<1>1. PICK op, ops : At(t, op) /\ op \notin Wakes.holding /\ Without(Wakes, ops) /\ Then(t, ops)
  BY DEF WakeQuietly
<1> QED BY <1>1, FlagQuiet, FlagsSound, TwoFlags DEF WakeQuietly, FlagsInv

LEMMA SendLists ==
  /\ Without(Wakes, <<>>) /\ Without(Wakes, <<"post_fill">>)
  /\ Without(Wakes, <<"post_unset">>) /\ Without(Wakes, <<"wsa_send">>)
  /\ Without(Wakes, <<"flag", "shutdown", "release">>)
  /\ Without(Wakes, <<"send_failed", "flag", "shutdown", "release">>)
<1>1. PICK S : S = {"post_fill", "post_unset", "wsa_send", "flag", "shutdown", "release", "send_failed"}
  OBVIOUS
<1>2. \A ops \in Seq(S) : Without(Wakes, ops)
  BY <1>1 DEF Without, IsList, Wakes
<1>3. /\ <<>> \in Seq(S) /\ <<"post_fill">> \in Seq(S) /\ <<"post_unset">> \in Seq(S) /\ <<"wsa_send">> \in Seq(S)
      /\ <<"flag", "shutdown", "release">> \in Seq(S)
      /\ <<"send_failed", "flag", "shutdown", "release">> \in Seq(S)
  BY <1>1
<1> QED BY <1>2, <1>3

(* sendPost and its completion (l.377-404, 421, 491). *)
LEMMA SendSteps ==
  ASSUME FlagsInv, ServerTypeOK', NEW t \in Threads,
         PostCAS(t) \/ PostFill(t) \/ PostUnset(t) \/ SendFailed(t) \/ FlagDec(t)
  PROVE  WakeQuietly(t)
<1>1. \A op : At(t, op) => Slot(t) \in Slots /\ SessionOK(sess[Slot(t)]) /\ SessionsOK
  BY SlotOK DEF FlagsInv
<1>2. ASSUME UNCHANGED sess PROVE KeepsFlag(Wakes)
  BY <1>2, BothKept DEF FlagsKept
<1>3. CASE PostCAS(t)
  <2>1. At(t, "post_cas") /\ UNCHANGED <<pending, port>> /\ (Then(t, <<>>) \/ Then(t, <<"post_fill">>))
    BY <1>3 DEF PostCAS, OnlySession, kernel
  <2>2. PICK s : s = Slot(t) /\ s \in Slots /\ SessionOK(sess[s])
    BY <1>1, <2>1
  <2>3. UNCHANGED sess \/ sess' = [sess EXCEPT ![s] = [sess[s] EXCEPT !.sendFlag = 1, !.sendCount = 0]]
    BY <1>1, <1>3, <2>1, <2>2 DEF PostCAS, SessionsOK, SessionOK, Fields
  <2>4. PICK x : x = [sess[s] EXCEPT !.sendFlag = 1, !.sendCount = 0]
    OBVIOUS
  <2>5. x.sendPQCS = sess[s].sendPQCS
    BY <2>2, <2>4 DEF SessionOK, Fields
  <2>6. sess' = [sess EXCEPT ![s] = x] => KeepsFlag(Wakes)
    BY <2>2, <2>5, WakeKept
  <2>7. "post_cas" \notin Wakes.holding
    BY DEF Wakes
  <2> QED BY <1>2, <2>1, <2>3, <2>4, <2>6, <2>7, SendLists DEF WakeQuietly
<1>4. CASE PostFill(t)
  <2>1. PICK g : g = Gather(sess[Slot(t)].sendQ)
    OBVIOUS
  <2>2. At(t, "post_fill") /\ UNCHANGED <<pending, port>> /\ (Then(t, <<"post_unset">>) \/ Then(t, <<"wsa_send">>))
    BY <1>4 DEF PostFill, AfterFill, kernel
  <2>3. PICK s : s = Slot(t) /\ s \in Slots /\ SessionOK(sess[s])
    BY <1>1, <2>2
  <2>4. PICK a, b, c : sess' = [sess EXCEPT ![s].sendQ = a, ![s].completeSendQ = b, ![s].sendCount = c]
    BY <1>4, <2>1, <2>3 DEF PostFill
  <2>5. PICK x : x = [sess[s] EXCEPT !.sendQ = a, !.completeSendQ = b, !.sendCount = c]
    OBVIOUS
  <2>6. sess' = [sess EXCEPT ![s] = x]
    BY <1>1, <2>2, <2>3, <2>4, <2>5 DEF SessionsOK, SessionOK, Fields
  <2>7. x.sendPQCS = sess[s].sendPQCS
    BY <2>3, <2>5 DEF SessionOK, Fields
  <2>8. KeepsFlag(Wakes)
    BY <2>3, <2>6, <2>7, WakeKept
  <2>9. "post_fill" \notin Wakes.holding
    BY DEF Wakes
  <2> QED BY <2>2, <2>8, <2>9, SendLists DEF WakeQuietly
<1>5. ASSUME NEW op, op \notin Wakes.holding, At(t, op), Then(t, <<>>), UNCHANGED <<pending, port>>,
             NEW x, x.sendPQCS = sess[Slot(t)].sendPQCS, sess' = [sess EXCEPT ![Slot(t)] = x]
      PROVE  WakeQuietly(t)
  <2>1. KeepsFlag(Wakes)
    BY <1>1, <1>5, WakeKept
  <2> QED BY <1>5, <2>1, SendLists DEF WakeQuietly
<1>6. CASE PostUnset(t)
  <2>1. /\ At(t, "post_unset") /\ Then(t, <<>>) /\ UNCHANGED <<pending, port>> /\ "post_unset" \notin Wakes.holding
        /\ sess' = [sess EXCEPT ![Slot(t)] = [sess[Slot(t)] EXCEPT !.sendFlag = 0]]
    BY <1>6 DEF PostUnset, Update, OnlySession, kernel, Wakes
  <2>2. [sess[Slot(t)] EXCEPT !.sendFlag = 0].sendPQCS = sess[Slot(t)].sendPQCS
    BY <1>1, <2>1 DEF SessionOK, Fields
  <2> QED BY <1>5, <2>1, <2>2
<1>7. CASE SendFailed(t)
  <2>1. /\ At(t, "send_failed") /\ Then(t, <<>>) /\ UNCHANGED <<pending, port>> /\ "send_failed" \notin Wakes.holding
        /\ sess' = [sess EXCEPT ![Slot(t)] = [sess[Slot(t)] EXCEPT !.sendCount = 0, !.sendFlag = 0]]
    BY <1>7 DEF SendFailed, Update, OnlySession, kernel, Wakes
  <2>2. [sess[Slot(t)] EXCEPT !.sendCount = 0, !.sendFlag = 0].sendPQCS = sess[Slot(t)].sendPQCS
    BY <1>1, <2>1 DEF SessionOK, Fields
  <2> QED BY <1>5, <2>1, <2>2
<1>8. CASE FlagDec(t)
  <2>1. /\ At(t, "flag_dec") /\ Then(t, <<>>) /\ UNCHANGED <<pending, port>> /\ "flag_dec" \notin Wakes.holding
        /\ sess' = [sess EXCEPT ![Slot(t)] = [sess[Slot(t)] EXCEPT !.sendFlag = @ - 1]]
    BY <1>8 DEF FlagDec, Update, OnlySession, kernel, Wakes
  <2>2. [sess[Slot(t)] EXCEPT !.sendFlag = @ - 1].sendPQCS = sess[Slot(t)].sendPQCS
    BY <1>1, <2>1 DEF SessionOK, Fields
  <2> QED BY <1>5, <2>1, <2>2
<1> QED BY <1>3, <1>4, <1>6, <1>7, <1>8

LEMMA SendFlags ==
  ASSUME FlagsInv, ServerTypeOK', NEW t \in Threads,
         PostCAS(t) \/ PostFill(t) \/ PostUnset(t) \/ SendFailed(t) \/ FlagDec(t)
  PROVE  Exact(Sends)' /\ Exact(Wakes)'
<1>1. Sound(Sends, Threads, Slots, Kinds, {}) /\ OneSender(Slots) /\ IsFiniteSet(Threads)
  BY FlagsSound, OneSenderExact, ThreadsFinite DEF FlagSound, FlagsInv
<1>2. Balanced(Sends, Threads, Slots, Kinds, {}) /\ Flags(Slots)'
  BY <1>1, SendsLocal
<1> QED BY <1>2, SendsExact, SendSteps, WakeQuietExact

(* WSARecv and WSASend (l.356-365, 407-422). *)
LEMMA PostFlags ==
  ASSUME FlagsInv, ServerTypeOK', NEW t \in Threads, RecvPost(t) \/ WSASend(t)
  PROVE  Exact(Sends)' /\ Exact(Wakes)'
<1>1. Sound(Sends, Threads, Slots, Kinds, {}) /\ OneSender(Slots) /\ IsFiniteSet(Threads)
  BY FlagsSound, OneSenderExact, ThreadsFinite DEF FlagSound, FlagsInv
<1>2. Balanced(Sends, Threads, Slots, Kinds, {}) /\ Flags(Slots)'
  BY <1>1, SendsRecvPost, SendsWSASend
<1>3. FlagSound(Wakes) /\ Exact(Wakes)
  BY FlagsSound DEF FlagsInv
<1>4. PICK op \in {"recv_post", "wsa_send"} : At(t, op)
  BY DEF RecvPost, WSASend
<1>5. op \notin Wakes.holding /\ UNCHANGED port
  BY DEF Wakes, RecvPost, WSASend
<1>6. PICK s : s = Slot(t) /\ s \in Slots /\ SessionOK(sess[s])
  BY <1>4, SlotOK DEF FlagsInv
<1>7. PICK x : x = [sess[s] EXCEPT !.iocpCount = @ + 1]
  OBVIOUS
<1>8. sess' = [sess EXCEPT ![s] = x] /\ x.sendPQCS = sess[s].sendPQCS
  BY <1>6, <1>7 DEF RecvPost, WSASend, SessionOK, Fields
<1>9. KeepsFlag(Wakes)
  BY <1>6, <1>8, WakeKept
<1>10. CASE \E p : /\ p \notin pending /\ p.s = Slot(t) /\ p.op \in {"recv", "send"}
                   /\ pending' = pending \cup {p} /\ Then(t, <<>>)
  <2>1. Exact(Wakes)'
    BY <1>3, <1>4, <1>5, <1>9, <1>10, StartedExact
  <2> QED BY <1>2, <2>1, SendsExact
<1>11. CASE \E ops : Without(Wakes, ops) /\ Then(t, ops) /\ UNCHANGED pending
  <2>1. WakeQuietly(t)
    BY <1>4, <1>5, <1>9, <1>11 DEF WakeQuietly
  <2> QED BY <1>2, <2>1, SendsExact, WakeQuietExact
<1>12. CASE RecvPost(t)
  <2>1. CASE \E c : /\ pending' = pending \cup {[s |-> Slot(t), c |-> c, op |-> "recv", msgs |-> <<>>]}
                    /\ Then(t, <<>>)
    <3>1. PICK p : p.s = Slot(t) /\ p.op = "recv" /\ pending' = pending \cup {p} /\ Then(t, <<>>)
      BY <2>1
    <3>2. p \notin pending
      BY <1>12, <3>1 DEF RecvPost, Receiving
    <3> QED BY <1>10, <3>1, <3>2
  <2>2. CASE Then(t, <<"flag", "shutdown", "release">>) /\ UNCHANGED pending
    BY <1>11, <2>2, SendLists
  <2> QED BY <1>12, <2>1, <2>2 DEF RecvPost
<1>13. CASE WSASend(t)
  <2>1. CASE \E c, m : /\ pending' = pending \cup {[s |-> Slot(t), c |-> c, op |-> "send", msgs |-> m]}
                       /\ Then(t, <<>>)
    <3>1. PICK p : p.s = Slot(t) /\ p.op = "send" /\ pending' = pending \cup {p} /\ Then(t, <<>>)
      BY <2>1
    <3>2. p \notin pending
      BY <1>13, <3>1 DEF WSASend, Sending
    <3> QED BY <1>10, <3>1, <3>2
  <2>2. CASE Then(t, <<"send_failed", "flag", "shutdown", "release">>) /\ UNCHANGED pending
    BY <1>11, <2>2, SendLists
  <2> QED BY <1>13, <2>1, <2>2 DEF WSASend
<1> QED BY <1>12, <1>13

LEMMA FlagsInit == Init /\ CallsFromCallbacks => FlagsInv
<1> SUFFICES ASSUME Init, CallsFromCallbacks PROVE FlagsInv
  OBVIOUS
<1>1. LifeInv
  BY LifeInit
<1>2. PICK Q, P, R : Q = todo /\ P = pending /\ R = port
  OBVIOUS
<1>3. Q = [t \in Threads |-> <<>>] /\ P = {} /\ R = <<>>
  BY <1>2 DEF Init
<1>4. \A k, r : Tally(k, Q, P, R, r) = 0
  BY <1>3, ThreadsFinite, TallyInit
<1>5. \A s \in Slots : sess[s].sendFlag = 0 /\ sess[s].sendPQCS = 0
  BY DEF Init, EmptySession
<1>6. Exact(Sends) /\ Exact(Wakes)
  BY <1>2, <1>4, <1>5, WakeParts DEF Exact
<1> QED BY <1>1, <1>6 DEF FlagsInv

LEMMA FlagsNext == FlagsInv /\ [Next]_vars => FlagsInv'
<1> SUFFICES ASSUME FlagsInv, [Next]_vars PROVE FlagsInv'
  OBVIOUS
<1>1. LifeInv /\ LifeInv' /\ ServerTypeOK'
  BY LifeNext DEF FlagsInv, LifeInv
<1>2. ASSUME NEW t \in Threads, Quietly(t) PROVE Exact(Sends)' /\ Exact(Wakes)'
  BY <1>1, <1>2, QuietExact
<1>3. ASSUME NEW t \in Threads, Step(t) PROVE Exact(Sends)' /\ Exact(Wakes)'
  <2>1. CASE \/ DiscCount(t) \/ PostTest(t) \/ CutTest(t) \/ CutFlag(t) \/ WakeTest(t) \/ WakeLook(t) \/ PqcsTest(t) \/ PqcsQueue(t)
             \/ CallbackEnds(t) \/ Shutdown(t) \/ AcquireCheckId(t) \/ AcquireCheckFlag(t) \/ Leave(t) \/ PushSlot(t)
             \/ Join(t)
    BY <1>1, <1>2, <2>1, QuietTests
  <2>2. CASE \/ Release(t) \/ Flag(t) \/ DiscCAS(t) \/ Drain(t) \/ Reclaim(t) \/ FreeSent(t) \/ CountReset(t)
             \/ Mark(t) \/ InsertRef(t) \/ AcquireInc(t) \/ Push(t) \/ Insert(t)
    BY <1>1, <1>2, <2>2, QuietUpdates
  <2>3. CASE InsertFlags(t) \/ CutCAS(t) \/ CutNow(t)
    BY <1>1, <1>2, <2>3, QuietInsertFlags, QuietCalls
  <2>4. CASE TestId(t) \/ OnRecv(t) \/ PopSlot(t)
    BY <1>1, <2>4, CrashingFlags, PopSlotFlags
  <2>5. CASE PostCAS(t) \/ PostFill(t) \/ PostUnset(t) \/ SendFailed(t) \/ FlagDec(t)
    BY <1>1, <2>5, SendFlags
  <2>6. CASE RecvPost(t) \/ WSASend(t)
    BY <1>1, <2>6, PostFlags
  <2>7. CASE WakeCAS(t) \/ PqcsDec(t)
    BY <1>1, <2>7, WakeCASFlags, PqcsDecFlags
  <2>8. ~PostQuit(t) /\ ~Wait(t)
    BY <1>1, NoStop
  <2> QED BY <1>3, <2>1, <2>2, <2>3, <2>4, <2>5, <2>6, <2>7, <2>8 DEF Step, SessionStep
<1>4. ASSUME NEW c \in Conns, PeerLeaves(c) PROVE Exact(Sends)' /\ Exact(Wakes)'
  BY <1>4, StillFlags DEF PeerLeaves
<1>5. ASSUME UNCHANGED vars PROVE Exact(Sends)' /\ Exact(Wakes)'
  BY <1>5, StillFlags DEF vars, sessionVars, kernel
<1>6. ~StopBegin /\ \A u \in Users : ~Call(u)
  BY <1>1 DEF LifeInv, CallsFromCallbacks, StopBegin
<1>7. Exact(Sends)' /\ Exact(Wakes)'
  BY <1>1, <1>3, <1>4, <1>5, <1>6, CallBackFlags, AcceptFlags, DequeueFlags, KernelFlags DEF Next
<1> QED BY <1>1, <1>7 DEF FlagsInv

LEMMA FlagsAre == FlagsInv => FlagsExact
<1> SUFFICES ASSUME FlagsInv PROVE FlagsExact
  OBVIOUS
<1>1. PICK Q, P, R : Q = todo /\ P = pending /\ R = port
  OBVIOUS
<1>2. Running(Threads, Slots, Kinds, Q, P, R)
  BY <1>1 DEF FlagsInv, LifeInv, IInv, ServerSound, Sound
<1>3. \A s \in Slots : /\ Senders(Q, P, R, s) = Tally(Sends, Q, P, R, s)
                       /\ Wakers(Q, R, s) = Tally(Wakes, Q, P, R, s)
  BY <1>2, ThreadsFinite, SendersTally, WakersTally
<1> QED BY <1>1, <1>3, WakeParts DEF FlagsInv, Exact, FlagsExact

(* Without application threads, sendFlag is held by exactly one send and      *)
(* sendPQCS by exactly one request to send, over a reuse of the slot too: a   *)
(* session is never silenced by a flag left set, and two sends never run at   *)
(* once (IOCPServer.cpp:170, 255, 286, 377, 491).                             *)
THEOREM FlagsTheorem == CallsFromCallbacks => (Spec => []FlagsExact)
<1>1. CallsFromCallbacks /\ Init => FlagsInv
  BY FlagsInit
<1> QED BY <1>1, FlagsNext, FlagsAre, PTL DEF Spec
-----------------------------------------------------------------------------
(* THE PACKETS OF A BATCH *)

(* A batch of slot s is to be sent, on its way, or to be freed.               *)
BatchOps == {"wsa_send", "free_sent"}

Batching(Q, P, R, s) ==
  \/ \E t \in Threads : \E i \in 1 .. Len(Q[t]) : Q[t][i] \in FramesWith(BatchOps, s)
  \/ \E p \in P : p.s = s /\ p.op = "send"
  \/ \E i \in 1 .. Len(R) : R[i].s = s /\ R[i].op = "send"

(* Then its packets are in completeSendQ.                                     *)
Enough(s) == Len(sess[s].completeSendQ) >= sess[s].sendCount
Batches == \A s \in Slots : Batching(todo, pending, port, s) => Enough(s)

(* A worker frees them first, and gives sendFlag up next (l.482-491).         *)
FreesFirst ==
  \A t \in Threads : \A i \in 1 .. Len(todo[t]) :
    todo[t][i].op = "free_sent" =>
      /\ i = 1 /\ Len(todo[t]) >= 2
      /\ todo[t][2] = Frame("flag_dec", todo[t][1].s)

BatchInv == FlagsInv /\ FreesFirst /\ Batches

(* The thread gets no batch, but to send one of a slot in D: what it has to   *)
(* do with another it had before, and not as the first operation.             *)
NoNewBatch(t, l, D) ==
  \A i \in 1 .. Len(l) : l[i].op \in BatchOps =>
    \/ l[i].op = "wsa_send" /\ l[i].s \in D
    \/ \E j \in 2 .. Len(todo[t]) : l[i] = todo[t][j]

(* The batches of threads Q are those of now, or of slots in D.               *)
OldBatch(Q, D) ==
  \A u \in Threads : \A i \in 1 .. Len(Q[u]) : Q[u][i].op \in BatchOps =>
    Q[u][i].s \in D \/ \E j \in 1 .. Len(todo[u]) : Q[u][i] = todo[u][j]

LEMMA ListsAre ==
  ASSUME LifeInv
  PROVE  \E A : todo \in Queues(Threads, Todo(A, Slots))
BY DEF LifeInv, IInv, ServerSound, Sound, Running

LEMMA NoNewStep ==
  ASSUME LifeInv, FreesFirst, NEW t \in Threads, NEW l, NEW D,
         todo' = [todo EXCEPT ![t] = l], NoNewBatch(t, l, D), NEW Q, Q = todo'
  PROVE  FreesFirst' /\ OldBatch(Q, D)
<1>1. PICK A : todo \in Queues(Threads, Todo(A, Slots))
  BY ListsAre
<1>2. todo'[t] = l /\ \A u \in Threads \ {t} : todo'[u] = todo[u]
  BY <1>1 DEF Queues
<1>3. \A j \in 2 .. Len(todo[t]) : todo[t][j].op # "free_sent"
  <2>1. Len(todo[t]) \in Nat
    BY <1>1 DEF Queues
  <2> QED BY <2>1 DEF FreesFirst
<1>4. \A i \in 1 .. Len(l) : l[i].op # "free_sent"
  BY <1>3 DEF NoNewBatch, BatchOps
<1>5. FreesFirst'
  BY <1>2, <1>4 DEF FreesFirst
<1>6. ASSUME NEW u \in Threads, NEW i \in 1 .. Len(Q[u]), Q[u][i].op \in BatchOps
      PROVE  Q[u][i].s \in D \/ \E j \in 1 .. Len(todo[u]) : Q[u][i] = todo[u][j]
  <2>1. CASE u # t
    BY <1>2, <1>6, <2>1
  <2>2. CASE u = t
    <3>1. l[i].s \in D \/ \E j \in 2 .. Len(todo[t]) : l[i] = todo[t][j]
      BY <1>2, <1>6, <2>2 DEF NoNewBatch
    <3> QED BY <1>2, <2>2, <3>1
  <2> QED BY <2>1, <2>2
<1> QED BY <1>5, <1>6 DEF OldBatch

(* Operations without a batch, put before what the thread still has to do.    *)
LEMMA NoNewFrames ==
  ASSUME LifeInv, NEW t \in Threads, todo[t] # <<>>, NEW r, NEW D, NEW S, NEW ops \in Seq(S),
         "free_sent" \notin S, "wsa_send" \in S => r \in D
  PROVE  NoNewBatch(t, Frames(ops, r) \o Tail(todo[t]), D)
<1>1. PICK A : todo \in Queues(Threads, Todo(A, Slots))
  BY ListsAre
<1>2. PICK q, B : q = todo[t] /\ B = Todo(A, Slots) /\ q \in Seq(B) /\ q # <<>>
  BY <1>1 DEF Queues
<1>3. PICK f, E : f = Frames(ops, r) /\ E = Todo(S, {r})
  OBVIOUS
<1>4. Len(f) = Len(ops) /\ f \in Seq(E) /\ \A i \in 1 .. Len(ops) : f[i].op = ops[i] /\ f[i].s = r
  <2>1. /\ Len(Frames(ops, r)) = Len(ops)
        /\ \A i \in 1 .. Len(ops) : Frames(ops, r)[i] = Frame(ops[i], r)
        /\ Frames(ops, r) \in Seq(Todo(S, {r}))
    BY FramesList
  <2>2. \A i \in 1 .. Len(ops) : f[i] = Frame(ops[i], r)
    BY <1>3, <2>1
  <2>3. \A i \in 1 .. Len(ops) : f[i].op = ops[i] /\ f[i].s = r
    <3>1. \A x : Frame(x, r).op = x /\ Frame(x, r).s = r
      BY DEF Frame
    <3> QED BY <2>2, <3>1
  <2> QED BY <1>3, <2>1, <2>3
<1>5. PICK z : z = Tail(q)
  OBVIOUS
<1>6. z \in Seq(B) /\ Len(q) \in Nat /\ Len(z) = Len(q) - 1 /\ \A i \in 1 .. Len(z) : z[i] = q[i + 1]
  BY <1>2, <1>5, HeadTailProperties
<1>7. PICK l, C : l = f \o z /\ C = E \cup B
  OBVIOUS
<1>8. f \in Seq(C) /\ z \in Seq(C) /\ Len(f) \in Nat /\ Len(z) \in Nat
  <2>1. E \subseteq C /\ B \subseteq C
    BY <1>7
  <2> QED BY <1>4, <1>6, <2>1
<1>9. /\ Len(l) = Len(f) + Len(z)
      /\ \A i \in 1 .. Len(l) : l[i] = IF i <= Len(f) THEN f[i] ELSE z[i - Len(f)]
  BY <1>7, <1>8, ConcatProperties
<1>10. ASSUME NEW i \in 1 .. Len(l), l[i].op \in BatchOps 
      PROVE  (l[i].op = "wsa_send" /\ l[i].s \in D) \/ \E j \in 2 .. Len(q) : l[i] = q[j]
  <2>1. CASE i <= Len(f)
    <3>1. l[i] = f[i] /\ i \in 1 .. Len(ops)
      BY <1>4, <1>8, <1>9, <2>1
    <3>2. l[i].op = ops[i] /\ l[i].s = r /\ ops[i] \in S
      BY <1>4, <3>1
    <3> QED BY <1>10, <3>2 DEF BatchOps
  <2>2. CASE i > Len(f)
    <3>1. PICK k : k = i - Len(f) /\ k \in 1 .. Len(z)
      BY <1>8, <1>9, <2>2
    <3>2. l[i] = q[k + 1]
      BY <1>6, <1>9, <2>2, <3>1
    <3> QED BY SMTT(30), <1>6, <3>1, <3>2
  <2> QED BY <1>8, <2>1, <2>2
<1> QED BY SMTT(30), <1>2, <1>3, <1>5, <1>7, <1>10 DEF NoNewBatch

(* The step leaves the batch of each slot as it is, or with enough packets.   *)
BatchKept ==
  \A s \in Slots :
    \/ Enough(s)'
    \/ /\ sess'[s].completeSendQ = sess[s].completeSendQ
       /\ sess'[s].sendCount = sess[s].sendCount

LEMMA BatchesNext ==
  ASSUME BatchInv, BatchKept, NEW Q, Q = todo', NEW P, P = pending', NEW R, R = port',
         \A s \in Slots : Batching(Q, P, R, s) => Batching(todo, pending, port, s) \/ Enough(s)'
  PROVE  Batches'
<1> SUFFICES ASSUME NEW s \in Slots, Batching(Q, P, R, s) PROVE Enough(s)'
  BY DEF Batches
<1>1. Enough(s) \/ Enough(s)'
  BY DEF BatchInv, Batches
<1> QED BY <1>1 DEF BatchKept, Enough

LEMMA StillBatch ==
  ASSUME BatchInv, UNCHANGED <<sess, todo, pending, port>>
  PROVE  FreesFirst' /\ Batches'
<1>1. FreesFirst'
  BY DEF BatchInv, FreesFirst
<1>2. BatchKept
  BY DEF BatchKept
<1> QED BY <1>1, <1>2, BatchesNext

(* The kernel gets no send, and the port no packet of one, but of slots with  *)
(* enough packets.                                                            *)
NoNewSend == \A p \in pending' : p \in pending \/ p.op # "send" \/ Enough(p.s)'
NoNewSent == \/ UNCHANGED port
             \/ \E e : port' = Append(port, e) /\ (e.op # "send" \/ Enough(e.s)')

LEMMA OldSent ==
  ASSUME LifeInv, NoNewSent, NEW s, NEW R, R = port', \E i \in 1 .. Len(R) : R[i].s = s /\ R[i].op = "send"
  PROVE  Enough(s)' \/ \E i \in 1 .. Len(port) : port[i].s = s /\ port[i].op = "send"
<1>1. CASE UNCHANGED port
  BY <1>1
<1>2. ASSUME ~Enough(s)', NEW e, e.op # "send" \/ Enough(e.s)', port' = Append(port, e)
      PROVE  \E i \in 1 .. Len(port) : port[i].s = s /\ port[i].op = "send"
  <2>1. port \in Seq(Packets(Slots, Kinds))
    BY DEF LifeInv, IInv, ServerSound, Sound, Running
  <2>2. PICK B : port \in Seq(B)
    BY <2>1
  <2>3. Len(R) = Len(port) + 1 /\ R[Len(port) + 1] = e /\ \A i \in 1 .. Len(port) : R[i] = port[i]
    BY <1>2, <2>2
  <2>4. Len(port) \in Nat
    BY <2>2
  <2>5. PICK i \in 1 .. Len(R) : R[i].s = s /\ R[i].op = "send"
    OBVIOUS
  <2>6. i # Len(port) + 1
    BY <1>2, <2>3, <2>5
  <2>7. i \in 1 .. Len(port)
    BY <2>3, <2>4, <2>5, <2>6
  <2> QED BY <2>3, <2>5, <2>7
<1> QED BY <1>1, <1>2 DEF NoNewSent

(* A thread's step that does not get a batch.                                 *)
LEMMA MovesBatch ==
  ASSUME BatchInv, NEW t \in Threads, NEW l, NEW D,
         todo' = [todo EXCEPT ![t] = l], NoNewBatch(t, l, D), \A s \in D : Enough(s)',
         NoNewSend, NoNewSent, BatchKept
  PROVE  FreesFirst' /\ Batches'
<1>1. PICK Q, P, R : Q = todo' /\ P = pending' /\ R = port'
  OBVIOUS
<1>2. LifeInv /\ FreesFirst
  BY DEF BatchInv, FlagsInv
<1>3. FreesFirst' /\ OldBatch(Q, D)
  BY <1>1, <1>2, NoNewStep
<1>4. ASSUME NEW s \in Slots, Batching(Q, P, R, s) PROVE Batching(todo, pending, port, s) \/ Enough(s)'
  <2>1. ASSUME NEW u \in Threads, NEW i \in 1 .. Len(Q[u]), Q[u][i] \in FramesWith(BatchOps, s)
        PROVE  Enough(s)' \/ \E j \in 1 .. Len(todo[u]) : todo[u][j] \in FramesWith(BatchOps, s)
    <3>1. Q[u][i].op \in BatchOps /\ Q[u][i].s = s
      BY <2>1 DEF FramesWith
    <3> QED BY <1>3, <2>1, <3>1 DEF OldBatch
  <2>2. ASSUME NEW p \in P, p.s = s, p.op = "send" PROVE p \in pending \/ Enough(s)'
    BY <1>1, <2>2 DEF NoNewSend
  <2>3. (\E i \in 1 .. Len(R) : R[i].s = s /\ R[i].op = "send")
        => Enough(s)' \/ \E i \in 1 .. Len(port) : port[i].s = s /\ port[i].op = "send"
    BY <1>1, <1>2, OldSent
  <2> QED BY <1>4, <2>1, <2>2, <2>3 DEF Batching
<1> QED BY <1>1, <1>3, <1>4, BatchesNext

LEMMA ThenBatch ==
  ASSUME BatchInv, NEW t \in Threads, NEW op, At(t, op), NEW S, NEW ops \in Seq(S), Then(t, ops),
         NEW r, r = Slot(t), "free_sent" \notin S, "wsa_send" \in S => Enough(r)', NoNewSend, NoNewSent, BatchKept
  PROVE  FreesFirst' /\ Batches'
<1>1. PICK l : l = Frames(ops, Slot(t)) \o Tail(todo[t])
  OBVIOUS
<1>2. todo' = [todo EXCEPT ![t] = l]
  BY <1>1 DEF Then
<1>3. PICK D : D = {s \in {r} : Enough(s)'}
  OBVIOUS
<1>4. NoNewBatch(t, l, D)
  BY <1>1, <1>3, NoNewFrames DEF At, BatchInv, FlagsInv
<1> QED BY <1>2, <1>3, <1>4, MovesBatch

LEMMA QuietBatch ==
  ASSUME BatchInv, NEW t \in Threads, Quietly(t), BatchKept
  PROVE  FreesFirst' /\ Batches'
<1>1. PICK op \in QuietOps \cup {"free_sent"}, ops \in Seq(QuietOps) : At(t, op) /\ Then(t, ops)
  BY DEF Quietly
<1>2. "free_sent" \notin QuietOps /\ "wsa_send" \notin QuietOps
  BY DEF QuietOps
<1>3. UNCHANGED <<pending, port>>
  BY DEF Quietly
<1> QED BY <1>1, <1>2, <1>3, ThenBatch DEF NoNewSend, NoNewSent

LEMMA BatchAt ==
  ASSUME SessionsOK, NEW s \in Slots, NEW x, sess' = [sess EXCEPT ![s] = x],
         \/ Len(x.completeSendQ) >= x.sendCount
         \/ x.completeSendQ = sess[s].completeSendQ /\ x.sendCount = sess[s].sendCount
  PROVE  BatchKept
BY DEF SessionsOK, BatchKept, Enough

(* A field that has nothing to do with batches.                               *)
LEMMA BatchField ==
  ASSUME SessionsOK, NEW s \in Slots, NEW f \in Fields \ {"sendCount", "completeSendQ"}, NEW v,
         sess' = [sess EXCEPT ![s] = [sess[s] EXCEPT ![f] = v]]
  PROVE  BatchKept
<1>1. PICK x : x = [sess[s] EXCEPT ![f] = v]
  OBVIOUS
<1>2. x.completeSendQ = sess[s].completeSendQ /\ x.sendCount = sess[s].sendCount
  BY <1>1 DEF SessionsOK, SessionOK, Fields
<1> QED BY <1>1, <1>2, BatchAt

(* The steps that look, or change something of the session.                   *)
LEMMA BatchSame ==
  ASSUME UNCHANGED sess
  PROVE  BatchKept
BY DEF BatchKept

LEMMA BatchTests ==
  ASSUME NEW t \in Threads,
         \/ DiscCount(t) \/ PostTest(t) \/ CutTest(t) \/ CutFlag(t) \/ WakeTest(t) \/ WakeLook(t) \/ PqcsTest(t) \/ PqcsQueue(t)
         \/ CallbackEnds(t) \/ Shutdown(t) \/ AcquireCheckId(t) \/ AcquireCheckFlag(t) \/ Leave(t) \/ PushSlot(t) \/ Join(t)
         \/ CutNow(t)
  PROVE  BatchKept
<1>1. UNCHANGED sess
  BY DEF DiscCount, PostTest, CutTest, CutFlag, WakeTest, WakeLook, PqcsTest, PqcsQueue, CallbackEnds, Shutdown, AcquireCheckId,
         AcquireCheckFlag, Leave, PushSlot, Join, CutNow, Test, OnlyThread
<1> QED BY <1>1, BatchSame

LEMMA BatchUpdates ==
  ASSUME LifeInv, NEW t \in Threads,
         \/ Release(t) \/ Flag(t) \/ DiscCAS(t) \/ Drain(t) \/ Reclaim(t) \/ CountReset(t) \/ Mark(t) \/ InsertRef(t)
         \/ AcquireInc(t) \/ Push(t) \/ Insert(t) \/ InsertFlags(t) \/ CutCAS(t)
  PROVE  BatchKept
<1>1. PICK op : At(t, op)
  BY DEF Release, Flag, DiscCAS, TakeFlag, Drain, Reclaim, CountReset, Mark, InsertRef, AcquireInc, Push, Insert,
         InsertFlags, CutCAS, Update
<1>2. PICK s : s = Slot(t) /\ s \in Slots /\ SessionOK(sess[s]) /\ SessionsOK
  BY <1>1, SlotOK
<1>3. {"iocpCount", "disconnectFlag", "sendDisconnectFlag", "sendQ", "Sock", "Index", "sendFlag"}
        \subseteq Fields \ {"sendCount", "completeSendQ"}
  BY DEF Fields
<1>4. UNCHANGED sess => BatchKept
  BY BatchSame
<1>5. ASSUME NEW f \in Fields \ {"sendCount", "completeSendQ"}, NEW v,
             sess' = [sess EXCEPT ![s] = [sess[s] EXCEPT ![f] = v]]
      PROVE  BatchKept
  BY <1>2, <1>5, BatchField
<1>6. CASE Release(t)
  <2>1. sess' = [sess EXCEPT ![s] = [sess[s] EXCEPT !["iocpCount"] = @ - 1]]
    BY <1>2, <1>6 DEF Release
  <2> QED BY <1>3, <1>5, <2>1
<1>7. CASE Flag(t) \/ Mark(t) \/ InsertRef(t)
  <2>1. \/ sess' = [sess EXCEPT ![s] = [sess[s] EXCEPT !["disconnectFlag"] = 1]]
        \/ sess' = [sess EXCEPT ![s] = [sess[s] EXCEPT !["sendDisconnectFlag"] = 1]]
        \/ sess' = [sess EXCEPT ![s] = [sess[s] EXCEPT !["iocpCount"] = @ + 1]]
    BY <1>2, <1>7 DEF Flag, Mark, InsertRef, Update
  <2> QED BY <1>3, <1>5, <2>1
<1>8. CASE DiscCAS(t) \/ CutCAS(t)
  <2>1. \/ UNCHANGED sess
        \/ sess' = [sess EXCEPT ![s] = [sess[s] EXCEPT !["disconnectFlag"] = 0]]
        \/ sess' = [sess EXCEPT ![s] = [sess[s] EXCEPT !["disconnectFlag"] = 1]]
    BY <1>2, <1>8 DEF DiscCAS, TakeFlag, CutCAS
  <2> QED BY <1>3, <1>4, <1>5, <2>1
<1>9. CASE AcquireInc(t)
  <2>1. sess' = [sess EXCEPT ![s] = [sess[s] EXCEPT !["iocpCount"] = @ + 1]]
    BY <1>2, <1>9 DEF AcquireInc
  <2> QED BY <1>3, <1>5, <2>1
<1>10. CASE Push(t)
  <2>1. PICK b : sess' = [sess EXCEPT ![s] = [sess[s] EXCEPT !["sendQ"] = b]]
    BY <1>2, <1>10 DEF Push
  <2> QED BY <1>3, <1>5, <2>1
<1>11. CASE Reclaim(t) \/ Insert(t)
  <2>1. PICK a, b : sess' = [sess EXCEPT ![s].Sock = a, ![s].Index = b]
    <3>1. CASE Reclaim(t)
      BY <1>2, <3>1 DEF Reclaim
    <3>2. CASE Insert(t)
      <4>1. sess' = [sess EXCEPT ![s].Index = Id(s, netId), ![s].Sock = clientSock]
        BY <1>2, <3>2 DEF Insert
      <4>2. [sess EXCEPT ![s].Index = Id(s, netId), ![s].Sock = clientSock]
              = [sess EXCEPT ![s].Sock = clientSock, ![s].Index = Id(s, netId)]
        BY <1>2 DEF SessionsOK, SessionOK, Fields
      <4> QED BY <4>1, <4>2
    <3> QED BY <1>11, <3>1, <3>2
  <2>2. PICK x : x = [sess[s] EXCEPT !.Sock = a, !.Index = b]
    OBVIOUS
  <2>3. sess' = [sess EXCEPT ![s] = x]
    BY <1>2, <2>1, <2>2 DEF SessionsOK, SessionOK, Fields
  <2>4. x.completeSendQ = sess[s].completeSendQ /\ x.sendCount = sess[s].sendCount
    BY <1>2, <2>2 DEF SessionOK, Fields
  <2> QED BY <1>2, <2>3, <2>4, BatchAt
<1>12. CASE InsertFlags(t)
  <2>1. PICK x : x = [sess[s] EXCEPT !.sendFlag = 0, !.disconnectFlag = 0] /\ sess' = [sess EXCEPT ![s] = x]
    BY <1>2, <1>12 DEF InsertFlags, Update
  <2>2. x.completeSendQ = sess[s].completeSendQ /\ x.sendCount = sess[s].sendCount
    BY <1>2, <2>1 DEF SessionOK, Fields
  <2> QED BY <1>2, <2>1, <2>2, BatchAt
<1>13. CASE Drain(t)
  <2>1. PICK x : /\ x = [sess[s] EXCEPT !.sendCount = 0, !.completeSendQ = <<>>, !.sendQ = <<>>]
                 /\ sess' = [sess EXCEPT ![s] = x]
    BY <1>2, <1>13 DEF Drain, Update
  <2>2. x.completeSendQ = <<>> /\ x.sendCount = 0
    BY <1>2, <2>1 DEF SessionOK, Fields
  <2>3. Len(x.completeSendQ) >= x.sendCount
    BY <2>2
  <2> QED BY <1>2, <2>1, <2>3, BatchAt
<1>14. CASE CountReset(t)
  <2>1. PICK x : x = [sess[s] EXCEPT !.sendCount = 0] /\ sess' = [sess EXCEPT ![s] = x]
    BY <1>2, <1>14 DEF CountReset, Update
  <2>2. x.completeSendQ = sess[s].completeSendQ /\ x.sendCount = 0
    BY <1>2, <2>1 DEF SessionOK, Fields
  <2>3. Len(x.completeSendQ) \in Nat
    BY <1>2, <2>2 DEF SessionOK
  <2>4. Len(x.completeSendQ) >= x.sendCount
    BY <2>2, <2>3
  <2> QED BY <1>2, <2>1, <2>4, BatchAt
<1> QED BY <1>6, <1>7, <1>8, <1>9, <1>10, <1>11, <1>12, <1>13, <1>14

LEMMA OneOp ==
  ASSUME BatchInv, NEW t \in Threads, NEW op, At(t, op), NEW next, next \notin BatchOps,
         Then(t, <<>>) \/ Then(t, <<next>>),
         NoNewSend, NoNewSent, BatchKept
  PROVE  FreesFirst' /\ Batches'
<1>1. PICK S : S = {next}
  OBVIOUS
<1>2. <<>> \in Seq(S) /\ <<next>> \in Seq(S) /\ "free_sent" \notin S /\ "wsa_send" \notin S
  BY <1>1 DEF BatchOps
<1> QED BY <1>2, ThenBatch

(* sendPost but for the packets gathered, and its end (l.377, 404, 421, 491). *)
LEMMA SendBatch ==
  ASSUME BatchInv, NEW t \in Threads, PostCAS(t) \/ PostUnset(t) \/ SendFailed(t) \/ FlagDec(t) \/ PqcsDec(t)
  PROVE  FreesFirst' /\ Batches'
<1>1. PICK op : At(t, op)
  BY DEF PostCAS, PostUnset, SendFailed, FlagDec, PqcsDec, Update
<1>2. PICK s : s = Slot(t) /\ s \in Slots /\ SessionOK(sess[s]) /\ SessionsOK
  BY <1>1, SlotOK DEF BatchInv, FlagsInv
<1>3. UNCHANGED <<pending, port>> /\ (Then(t, <<>>) \/ Then(t, <<"post_fill">>))
  BY DEF PostCAS, PostUnset, SendFailed, FlagDec, PqcsDec, Update, OnlySession, kernel
<1>4. Len(sess[s].completeSendQ) \in Nat
  BY <1>2 DEF SessionOK
<1>5. BatchKept
  <2>1. CASE PostCAS(t)
    <3>1. PICK x : x = [sess[s] EXCEPT !.sendFlag = 1, !.sendCount = 0]
      OBVIOUS
    <3>2. UNCHANGED sess \/ sess' = [sess EXCEPT ![s] = x]
      BY <1>2, <2>1, <3>1 DEF PostCAS, SessionsOK, SessionOK, Fields
    <3>3. x.completeSendQ = sess[s].completeSendQ /\ x.sendCount = 0
      BY <1>2, <3>1 DEF SessionOK, Fields
    <3>4. Len(x.completeSendQ) >= x.sendCount
      BY <1>4, <3>3
    <3> QED BY <1>2, <3>2, <3>4, BatchAt, BatchSame
  <2>2. CASE SendFailed(t)
    <3>1. PICK x : x = [sess[s] EXCEPT !.sendCount = 0, !.sendFlag = 0] /\ sess' = [sess EXCEPT ![s] = x]
      BY <1>2, <2>2 DEF SendFailed, Update
    <3>2. x.completeSendQ = sess[s].completeSendQ /\ x.sendCount = 0
      BY <1>2, <3>1 DEF SessionOK, Fields
    <3>3. Len(x.completeSendQ) >= x.sendCount
      BY <1>4, <3>2
    <3> QED BY <1>2, <3>1, <3>3, BatchAt
  <2>3. CASE PostUnset(t) \/ FlagDec(t) \/ PqcsDec(t)
    <3>1. \/ sess' = [sess EXCEPT ![s] = [sess[s] EXCEPT !["sendFlag"] = 0]]
          \/ sess' = [sess EXCEPT ![s] = [sess[s] EXCEPT !["sendFlag"] = @ - 1]]
          \/ sess' = [sess EXCEPT ![s] = [sess[s] EXCEPT !["sendPQCS"] = @ - 1]]
      BY <1>2, <2>3 DEF PostUnset, FlagDec, PqcsDec, Update
    <3>2. {"sendFlag", "sendPQCS"} \subseteq Fields \ {"sendCount", "completeSendQ"}
      BY DEF Fields
    <3> QED BY <1>2, <3>1, <3>2, BatchField
  <2> QED BY <2>1, <2>2, <2>3
<1>6. "post_fill" \notin BatchOps
  BY DEF BatchOps
<1> QED BY <1>1, <1>3, <1>5, <1>6, OneOp DEF NoNewSend, NoNewSent

(* The worker is asked to send (l.170-173).                                   *)
LEMMA WakeBatch ==
  ASSUME BatchInv, NEW t \in Threads, WakeCAS(t)
  PROVE  FreesFirst' /\ Batches'
<1>1. At(t, "wake_cas") /\ UNCHANGED pending /\ Then(t, <<>>)
  BY DEF WakeCAS
<1>2. PICK s : s = Slot(t) /\ s \in Slots /\ SessionOK(sess[s]) /\ SessionsOK
  BY <1>1, SlotOK DEF BatchInv, FlagsInv
<1>3. NoNewSent
  <2>1. PICK e : e = [s |-> s, op |-> "pqcs", trans |-> 0]
    OBVIOUS
  <2>2. e.op # "send" /\ (UNCHANGED port \/ port' = Append(port, e))
    BY <1>2, <2>1 DEF WakeCAS
  <2> QED BY <2>2 DEF NoNewSent
<1>4. BatchKept
  <2>1. PICK x : x = [sess[s] EXCEPT !.sendPQCS = 1, !.iocpCount = @ + 1]
    OBVIOUS
  <2>2. UNCHANGED sess \/ sess' = [sess EXCEPT ![s] = x]
    BY <1>2, <2>1 DEF WakeCAS, SessionsOK, SessionOK, Fields
  <2>3. x.completeSendQ = sess[s].completeSendQ /\ x.sendCount = sess[s].sendCount
    BY <1>2, <2>1 DEF SessionOK, Fields
  <2> QED BY <1>2, <2>2, <2>3, BatchAt, BatchSame
<1>5. "post_fill" \notin BatchOps
  BY DEF BatchOps
<1> QED BY <1>1, <1>3, <1>4, <1>5, OneOp DEF NoNewSend

(* WSARecv (l.356-365).                                                       *)
LEMMA RecvBatch ==
  ASSUME BatchInv, NEW t \in Threads, RecvPost(t)
  PROVE  FreesFirst' /\ Batches'
<1>1. At(t, "recv_post") /\ UNCHANGED port
  BY DEF RecvPost
<1>2. PICK s : s = Slot(t) /\ s \in Slots /\ SessionOK(sess[s]) /\ SessionsOK
  BY <1>1, SlotOK DEF BatchInv, FlagsInv
<1>3. PICK ops : Then(t, ops) /\ ops \in {<<>>, <<"flag", "shutdown", "release">>}
  BY DEF RecvPost
<1>4. PICK S : S = {"flag", "shutdown", "release"}
  OBVIOUS
<1>5. "free_sent" \notin S /\ "wsa_send" \notin S
  BY <1>4
<1>6. ops \in Seq(S)
  <2>1. <<>> \in Seq(S) /\ <<"flag", "shutdown", "release">> \in Seq(S)
    BY <1>4
  <2> QED BY <1>3, <2>1
<1>7. NoNewSend
  <2>1. PICK q : q = [s |-> s, c |-> sess[s].Sock, op |-> "recv", msgs |-> <<>>]
    OBVIOUS
  <2>2. UNCHANGED pending \/ pending' = pending \cup {q}
    BY <1>2, <2>1 DEF RecvPost
  <2>3. q.op # "send"
    BY <2>1
  <2> QED BY <2>2, <2>3 DEF NoNewSend
<1>8. BatchKept
  <2>1. sess' = [sess EXCEPT ![s] = [sess[s] EXCEPT !["iocpCount"] = @ + 1]]
    BY <1>2 DEF RecvPost
  <2>2. "iocpCount" \in Fields \ {"sendCount", "completeSendQ"}
    BY DEF Fields
  <2> QED BY <1>2, <2>1, <2>2, BatchField
<1> QED BY <1>1, <1>3, <1>4, <1>5, <1>6, <1>7, <1>8, ThenBatch DEF NoNewSent

(* The packets gathered are put last into completeSendQ (l.385-401).          *)
LEMMA FillBatch ==
  ASSUME BatchInv, NEW t \in Threads, PostFill(t)
  PROVE  FreesFirst' /\ Batches'
<1>1. At(t, "post_fill") /\ UNCHANGED <<pending, port>>
  BY DEF PostFill, kernel
<1>2. PICK s : s = Slot(t) /\ s \in Slots /\ SessionOK(sess[s]) /\ SessionsOK
  BY <1>1, SlotOK DEF BatchInv, FlagsInv
<1>3. PICK q : q = sess[s].sendQ /\ q \in Seq(Outgoing)
  BY <1>2 DEF SessionOK
<1>4. PICK a, b : a = Gather(q).rest /\ b = Gather(q).batch
  OBVIOUS
<1>5. b \in Seq(Outgoing)
  <2>1. b = SubSeq(q, 1, BatchSize(q))
    BY <1>4 DEF Gather
  <2>2. BatchSize(q) \in Nat /\ BatchSize(q) <= Len(q) /\ Len(q) \in Nat
    BY <1>3, BatchAssumption DEF BatchSize
  <2> QED BY <1>3, <2>1, <2>2
<1>6. PICK c : c = sess[s].completeSendQ \o b
  OBVIOUS
<1>7. Len(c) >= Len(b) /\ Len(b) \in Nat
  <2>1. sess[s].completeSendQ \in Seq(Outgoing)
    BY <1>2 DEF SessionOK
  <2>2. PICK k : k = sess[s].completeSendQ /\ k \in Seq(Outgoing)
    BY <2>1
  <2>3. Len(k \o b) = Len(k) + Len(b) /\ Len(k) \in Nat /\ Len(b) \in Nat
    BY <1>5, <2>2
  <2> QED BY <1>6, <2>2, <2>3
<1>8. PICK x : x = [sess[s] EXCEPT !.sendQ = a, !.completeSendQ = c, !.sendCount = Len(b)]
  OBVIOUS
<1>9. sess' = [sess EXCEPT ![s] = x]
  <2>1. sess' = [sess EXCEPT ![s].sendQ = a, ![s].completeSendQ = c, ![s].sendCount = Len(b)]
    BY <1>2, <1>3, <1>4, <1>6 DEF PostFill, Kept
  <2> QED BY <1>2, <1>8, <2>1 DEF SessionsOK, SessionOK, Fields
<1>10. x.completeSendQ = c /\ x.sendCount = Len(b)
  BY <1>2, <1>8 DEF SessionOK, Fields
<1>11. BatchKept
  BY <1>2, <1>7, <1>9, <1>10, BatchAt
<1>12. Enough(s)'
  BY <1>2, <1>7, <1>9, <1>10 DEF Enough, SessionsOK
<1>13. Then(t, <<"post_unset">>) \/ Then(t, <<"wsa_send">>)
  BY DEF PostFill, AfterFill
<1>14. PICK S : S = {"post_unset", "wsa_send"}
  OBVIOUS
<1>15. "free_sent" \notin S /\ <<"post_unset">> \in Seq(S) /\ <<"wsa_send">> \in Seq(S)
  BY <1>14
<1> QED BY <1>1, <1>2, <1>11, <1>12, <1>13, <1>15, ThenBatch DEF NoNewSend, NoNewSent

(* They are there when WSASend has them (l.407-422).                          *)
LEMMA SendingBatch ==
  ASSUME BatchInv, NEW t \in Threads, WSASend(t)
  PROVE  FreesFirst' /\ Batches'
<1>1. At(t, "wsa_send") /\ UNCHANGED port
  BY DEF WSASend
<1>2. PICK s : s = Slot(t) /\ s \in Slots /\ SessionOK(sess[s]) /\ SessionsOK
  BY <1>1, SlotOK DEF BatchInv, FlagsInv
<1>3. Enough(s)
  <2>1. PICK A : todo \in Queues(Threads, Todo(A, Slots))
    BY ListsAre DEF BatchInv, FlagsInv
  <2>2. PICK q, B : q = todo[t] /\ B = Todo(A, Slots) /\ q \in Seq(B) /\ q # <<>>
    BY <1>1, <2>1 DEF Queues, At
  <2>3. 1 \in 1 .. Len(q) /\ q[1] = Head(q) /\ q[1] \in B
    BY <2>2
  <2>4. q[1].op = "wsa_send" /\ q[1].s = s
    BY <1>1, <1>2, <2>2, <2>3 DEF At, Slot
  <2>5. q[1] \in FramesWith(BatchOps, s)
    BY <2>2, <2>3, <2>4 DEF FramesWith, BatchOps, Todo
  <2>6. Batching(todo, pending, port, s)
    BY <2>2, <2>3, <2>5 DEF Batching
  <2> QED BY <1>2, <2>6 DEF BatchInv, Batches
<1>4. PICK x : x = [sess[s] EXCEPT !.iocpCount = @ + 1]
  OBVIOUS
<1>5. sess' = [sess EXCEPT ![s] = x] /\ x.completeSendQ = sess[s].completeSendQ /\ x.sendCount = sess[s].sendCount
  BY <1>2, <1>4 DEF WSASend, SessionOK, Fields
<1>6. BatchKept /\ Enough(s)'
  <2>1. BatchKept
    BY <1>2, <1>5, BatchAt
  <2> QED BY <1>2, <1>3, <2>1 DEF BatchKept, Enough
<1>7. NoNewSend
  <2>1. PICK c, m : UNCHANGED pending \/ pending' = pending \cup {[s |-> s, c |-> c, op |-> "send", msgs |-> m]}
    BY <1>2 DEF WSASend
  <2>2. PICK p : p = [s |-> s, c |-> c, op |-> "send", msgs |-> m]
    OBVIOUS
  <2>3. p.s = s /\ (UNCHANGED pending \/ pending' = pending \cup {p})
    BY <2>1, <2>2
  <2> QED BY <1>6, <2>3 DEF NoNewSend
<1>8. Then(t, <<>>) \/ Then(t, <<"send_failed", "flag", "shutdown", "release">>)
  BY DEF WSASend
<1>9. PICK S : S = {"send_failed", "flag", "shutdown", "release"}
  OBVIOUS
<1>10. /\ "free_sent" \notin S /\ "wsa_send" \notin S
       /\ <<>> \in Seq(S) /\ <<"send_failed", "flag", "shutdown", "release">> \in Seq(S)
  BY <1>9
<1> QED BY <1>1, <1>2, <1>6, <1>7, <1>8, <1>10, ThenBatch DEF NoNewSent

(* Steps that may end the program.                                            *)
LEMMA CrashingBatch ==
  ASSUME BatchInv, NEW t \in Threads, TestId(t) \/ OnRecv(t) \/ PopSlot(t)
  PROVE  FreesFirst' /\ Batches'
<1>1. \A why : Crash(why) => FreesFirst' /\ Batches'
  BY StillBatch DEF Crash, kernel
<1>2. CASE \E why : Crash(why)
  BY <1>1, <1>2
<1>3. CASE ~ \E why : Crash(why)
  <2>1. CASE TestId(t) \/ OnRecv(t)
    <3>1. PICK op : At(t, op)
      BY <2>1 DEF TestId, OnRecv
    <3>2. PICK s : s = Slot(t) /\ s \in Slots /\ SessionOK(sess[s]) /\ SessionsOK
      BY <3>1, SlotOK DEF BatchInv, FlagsInv
    <3>3. Then(t, <<>>) /\ UNCHANGED <<pending, port>>
      BY <1>3, <2>1 DEF TestId, OnRecv, OnlyThread, OnlySession, kernel
    <3>4. UNCHANGED sess \/ \E b : sess' = [sess EXCEPT ![s] = [sess[s] EXCEPT !["recvQ"] = b]]
      BY <1>3, <2>1, <3>2 DEF TestId, OnRecv, OnlyThread
    <3>5. "recvQ" \in Fields \ {"sendCount", "completeSendQ"} /\ "test_id" \notin BatchOps
      BY DEF Fields, BatchOps
    <3>6. BatchKept
      BY <3>2, <3>4, <3>5, BatchField, BatchSame
    <3> QED BY <3>1, <3>3, <3>5, <3>6, OneOp DEF NoNewSend, NoNewSent
  <2>2. CASE PopSlot(t)
    <3>1. todo[t] # <<>> /\ UNCHANGED <<sess, pending, port>>
      BY <1>3, <2>2 DEF PopSlot, At, OnlyThread, OnlySession, kernel
    <3>2. PICK r, l : /\ r = Head(indexStack) /\ l = Frames(NewSession, r) \o Tail(todo[t])
                      /\ todo' = [todo EXCEPT ![t] = l]
      BY <1>3, <2>2 DEF PopSlot
    <3>3. PICK S : S = {"insert", "insert_flags", "insert_ref", "join", "callback"}
      OBVIOUS
    <3>4. NewSession \in Seq(S) /\ "free_sent" \notin S /\ "wsa_send" \notin S
      BY <3>3 DEF NewSession
    <3>5. PICK D : D = {}
      OBVIOUS
    <3>6. NoNewBatch(t, l, D)
      BY <3>1, <3>2, <3>4, NoNewFrames DEF BatchInv, FlagsInv
    <3>7. NoNewSend /\ NoNewSent /\ BatchKept
      BY <3>1, BatchSame DEF NoNewSend, NoNewSent
    <3>8. \A s \in D : Enough(s)'
      BY <3>5
    <3> QED BY <3>2, <3>6, <3>7, <3>8, MovesBatch
  <2> QED BY <2>1, <2>2
<1> QED BY <1>2, <1>3

(* Calls: the operations of the callee are put in front.                      *)
LEMMA CallBatch ==
  ASSUME BatchInv, NEW t \in Threads, NEW op, NEW r, op \notin BatchOps,
         todo' = [todo EXCEPT ![t] = <<Frame(op, r)>> \o todo[t]],
         todo[t] # <<>> => Head(todo[t]).op \notin BatchOps, UNCHANGED <<sess, pending, port>>
  PROVE  FreesFirst' /\ Batches'
<1>1. PICK A : todo \in Queues(Threads, Todo(A, Slots))
  BY ListsAre DEF BatchInv, FlagsInv
<1>2. PICK q, B : q = todo[t] /\ B = Todo(A, Slots) /\ q \in Seq(B)
  BY <1>1 DEF Queues
<1>3. PICK f : f = Frame(op, r)
  OBVIOUS
<1>4. f.op = op
  BY <1>3 DEF Frame
<1>5. PICK l, C : l = <<f>> \o q /\ C = {f} \cup B
  OBVIOUS
<1>6. <<f>> \in Seq(C) /\ q \in Seq(C) /\ Len(<<f>>) = 1 /\ <<f>>[1] = f /\ Len(q) \in Nat
  BY <1>2, <1>5
<1>7. /\ Len(l) = 1 + Len(q)
      /\ \A i \in 1 .. Len(l) : l[i] = IF i <= 1 THEN <<f>>[i] ELSE q[i - 1]
  BY <1>5, <1>6, ConcatProperties
<1>8. ASSUME NEW i \in 1 .. Len(l), l[i].op \in BatchOps PROVE \E j \in 2 .. Len(q) : l[i] = q[j]
  <2>1. i # 1
    BY <1>4, <1>6, <1>7, <1>8
  <2>2. PICK j : j = i - 1 /\ j \in 1 .. Len(q) /\ l[i] = q[j]
    BY <1>6, <1>7, <2>1
  <2>3. j # 1
    <3>1. q # <<>> => q[1] = Head(q)
      BY <1>2
    <3> QED BY <1>2, <1>6, <1>8, <2>2, <3>1
  <2> QED BY <1>6, <2>2, <2>3
<1>9. PICK D : D = {}
  OBVIOUS
<1>10. NoNewBatch(t, l, D)
  BY <1>2, <1>8 DEF NoNewBatch
<1>11. todo' = [todo EXCEPT ![t] = l]
  BY <1>2, <1>3, <1>5
<1>12. NoNewSend /\ NoNewSent /\ BatchKept
  BY BatchSame DEF NoNewSend, NoNewSent
<1>13. \A s \in D : Enough(s)'
  BY <1>9
<1> QED BY <1>10, <1>11, <1>12, <1>13, MovesBatch

LEMMA CallBackBatch ==
  ASSUME BatchInv, NEW t \in Threads, CallBack(t)
  PROVE  FreesFirst' /\ Batches'
<1>1. PICK r : todo' = [todo EXCEPT ![t] = <<Frame("acquire", r)>> \o todo[t]]
  BY DEF CallBack
<1>2. At(t, "callback") /\ UNCHANGED <<sess, pending, port>>
  BY DEF CallBack, Request, OnlyThread, OnlySession, kernel
<1>3. {"acquire", "callback"} \cap BatchOps = {}
  BY DEF BatchOps
<1> QED BY <1>1, <1>2, <1>3, CallBatch DEF At

LEMMA AcceptBatch ==
  ASSUME BatchInv, NEW c \in Conns, Accept(c)
  PROVE  FreesFirst' /\ Batches'
<1>1. UNCHANGED <<sess, pending, port>> /\ todo[Acceptor] = <<>> /\ Acceptor \in Threads
  BY ThreadsFinite DEF Accept, Idle
<1>2. CASE UNCHANGED todo
  BY <1>1, <1>2, StillBatch
<1>3. CASE todo' = [todo EXCEPT ![Acceptor] = <<Frame("pop_slot", 0)>>]
  <2>1. todo' = [todo EXCEPT ![Acceptor] = <<Frame("pop_slot", 0)>> \o todo[Acceptor]]
    BY <1>1, <1>3
  <2>2. "pop_slot" \notin BatchOps
    BY DEF BatchOps
  <2> QED BY <1>1, <2>1, <2>2, CallBatch
<1> QED BY <1>2, <1>3 DEF Accept

(* A send that completes takes its batch to the port.                         *)
LEMMA KernelBatch ==
  ASSUME BatchInv, Kernel
  PROVE  FreesFirst' /\ Batches'
<1>1. PICK p \in pending : \E n : Complete(p, n) /\ BatchKept
  <2>1. ASSUME NEW p \in pending, RecvData(p) PROVE \E n : Complete(p, n) /\ BatchKept
    <3>1. PICK n : Complete(p, n) /\ sess' = [sess EXCEPT ![p.s].recvQ = @ \o [i \in 1 .. n |-> p.c]]
      BY <2>1 DEF RecvData
    <3>2. p.s \in Slots /\ SessionsOK
      BY DEF BatchInv, FlagsInv, LifeInv, IInv, ServerSound, Sound, Running, ServerTypeOK
    <3>3. PICK b : sess' = [sess EXCEPT ![p.s] = [sess[p.s] EXCEPT !["recvQ"] = b]]
      BY <3>1
    <3>4. "recvQ" \in Fields \ {"sendCount", "completeSendQ"}
      BY DEF Fields
    <3>5. BatchKept
      BY <3>2, <3>3, <3>4, BatchField
    <3> QED BY <3>1, <3>5
  <2>2. ASSUME NEW p \in pending, SendDone(p) \/ ZeroBytes(p) PROVE \E n : Complete(p, n) /\ BatchKept
    BY <2>2, BatchSame DEF SendDone, ZeroBytes
  <2> QED BY <2>1, <2>2 DEF Kernel
<1>2. PICK n : Complete(p, n) /\ BatchKept
  BY <1>1
<1>3. UNCHANGED todo /\ pending' \subseteq pending
  BY <1>2 DEF Complete
<1>4. p.s \in Slots
  BY DEF BatchInv, FlagsInv, LifeInv, IInv, ServerSound, Sound, Running
<1>5. NoNewSent
  <2>1. PICK e : e = [s |-> p.s, op |-> p.op, trans |-> n] /\ port' = Append(port, e)
    BY <1>2 DEF Complete
  <2>2. e.op = p.op /\ e.s = p.s
    BY <2>1
  <2>3. ASSUME p.op = "send" PROVE Enough(p.s)'
    <3>1. Enough(p.s)
      BY <1>4, <2>3 DEF Batching, BatchInv, Batches
    <3> QED BY <1>2, <1>4, <3>1 DEF BatchKept, Enough
  <2>4. e.op # "send" \/ Enough(e.s)'
    BY <2>2, <2>3
  <2> QED BY <2>1, <2>4 DEF NoNewSent
<1>6. FreesFirst'
  BY <1>3 DEF BatchInv, FreesFirst
<1>7. PICK Q, P, R : Q = todo' /\ P = pending' /\ R = port'
  OBVIOUS
<1>8. ASSUME NEW s \in Slots, Batching(Q, P, R, s) PROVE Batching(todo, pending, port, s) \/ Enough(s)'
  <2>1. CASE \E i \in 1 .. Len(R) : R[i].s = s /\ R[i].op = "send"
    BY <1>5, <1>7, <2>1, OldSent DEF Batching, BatchInv, FlagsInv
  <2>2. CASE \/ \E t \in Threads : \E i \in 1 .. Len(Q[t]) : Q[t][i] \in FramesWith(BatchOps, s)
             \/ \E q \in P : q.s = s /\ q.op = "send"
    BY <1>3, <1>7, <2>2 DEF Batching
  <2> QED BY <1>8, <2>1, <2>2 DEF Batching
<1> QED BY <1>2, <1>6, <1>7, <1>8, BatchesNext

(* Who frees the packets of a batch holds sendFlag, and so there is no other  *)
(* batch of the slot.                                                         *)
LEMMA OnlyBatch ==
  ASSUME BatchInv, NEW t \in Threads, At(t, "free_sent"), NEW s, s = Slot(t),
         NEW Q, Q = [todo EXCEPT ![t] = Tail(todo[t])]
  PROVE  ~Batching(Q, pending, port, s)
<1>1. PICK A : todo \in Queues(Threads, Todo(A, Slots))
  BY ListsAre DEF BatchInv, FlagsInv
<1>2. PICK B, F, P, R : B = Todo(A, Slots) /\ F = todo /\ P = pending /\ R = port /\ F \in Queues(Threads, B)
  BY <1>1
<1>3. PICK q : q = F[t] /\ q \in Seq(B) /\ q # <<>>
  BY <1>2 DEF Queues, At
<1>4. s \in Slots
  BY SlotOK DEF BatchInv, FlagsInv
<1>5. /\ q[1] = Head(q) /\ q[1].op = "free_sent" /\ q[1].s = s /\ 1 \in 1 .. Len(q) /\ Len(q) \in Nat
      /\ Len(q) >= 2 /\ q[2] = Frame("flag_dec", s)
      /\ \A i \in 1 .. Len(q) : q[i].op = "free_sent" => i = 1
  <2>1. q[1] = Head(q) /\ 1 \in 1 .. Len(q) /\ Len(q) \in Nat
    BY <1>3
  <2>2. q[1].op = "free_sent" /\ q[1].s = s
    BY <1>2, <1>3, <2>1 DEF At, Slot
  <2> QED BY <1>2, <1>3, <2>1, <2>2 DEF BatchInv, FreesFirst
<1>6. PICK z : z = Tail(q)
  OBVIOUS
<1>7. z \in Seq(B) /\ Len(z) = Len(q) - 1 /\ (\A i \in 1 .. Len(z) : z[i] = q[i + 1]) /\ z # <<>>
  BY SMTT(30), <1>3, <1>5, <1>6, HeadTailProperties
<1>8. z[1] = Frame("flag_dec", s) /\ Head(z) = z[1]
  BY <1>5, <1>7
<1>9. PICK y : y = Tail(z)
  OBVIOUS
<1>10. y \in Seq(B) /\ Len(y) = Len(z) - 1 /\ \A i \in 1 .. Len(y) : y[i] = z[i + 1]
  BY <1>7, <1>9, HeadTailProperties
<1>11. PICK M : M = FramesWith(SendOps, s)
  OBVIOUS
<1>12. Head(q) \notin M /\ Head(z) \in M
  BY <1>5, <1>8, <1>11 DEF FramesWith, SendOps, Frame
<1>13. Occ(q, M) = Occ(y, M) + 1 /\ Occ(y, M) \in Nat
  <2>1. Occ(q, M) = Occ(z, M)
    BY <1>3, <1>6, <1>12, OccTail
  <2>2. Occ(z, M) = Occ(y, M) + 1 /\ Occ(y, M) \in Nat
    BY <1>7, <1>9, <1>12, OccTail
  <2> QED BY <2>1, <2>2
<1>14. PICK G : G = [F EXCEPT ![t] = y]
  OBVIOUS
<1>15. ChangesAt(Threads, B, F, G, t) /\ G[t] = y /\ \A u \in Threads \ {t} : G[u] = F[u]
  BY <1>2, <1>10, <1>14 DEF ChangesAt, Queues
<1>16. Total(F, M) \in Nat /\ Total(G, M) = Total(F, M) - 1 /\ Total(G, M) \in Nat
  <2>1. Total(F, M) \in Nat /\ Total(G, M) = Total(F, M) - Occ(F[t], M) + Occ(G[t], M)
    BY <1>15, ThreadsFinite, TotalUpdate
  <2>2. G \in Queues(Threads, B)
    BY <1>15 DEF ChangesAt
  <2>3. Total(G, M) \in Nat
    BY <2>2, ThreadsFinite, TotalAtLeast
  <2> QED BY <1>3, <1>13, <1>15, <2>1, <2>3
<1>17. Running(Threads, Slots, Kinds, F, P, R)
  BY <1>2 DEF BatchInv, FlagsInv, LifeInv, IInv, ServerSound, Sound
<1>18. InFlight(P, {"send"}, s) \in Nat /\ InPort(R, {"send"}, s) \in Nat
  BY <1>17, ThreadsFinite, CountsNat
<1>19. Total(F, M) + InFlight(P, {"send"}, s) + InPort(R, {"send"}, s) \in {0, 1}
  <2>1. Tally(Sends, F, P, R, s) \in {0, 1}
    BY <1>2, <1>4, WakeParts DEF BatchInv, FlagsInv, Exact
  <2>2. Senders(F, P, R, s) = Tally(Sends, F, P, R, s)
    BY <1>17, ThreadsFinite, SendersTally
  <2> QED BY <1>11, <2>1, <2>2 DEF Senders, InThreads
<1>20. Total(G, M) = 0 /\ InFlight(P, {"send"}, s) = 0 /\ InPort(R, {"send"}, s) = 0
  BY <1>16, <1>18, <1>19
<1>21. ASSUME NEW u \in Threads, NEW i \in 1 .. Len(G[u]) PROVE G[u][i] \notin M
  <2>1. G \in Queues(Threads, B) /\ G[u] \in Seq(B)
    BY <1>15 DEF ChangesAt, Queues
  <2>2. Occ(G[u], M) \in Nat /\ Occ(G[u], M) <= Total(G, M)
    BY <2>1, ThreadsFinite, TotalAtLeast
  <2>3. Occ(G[u], M) = 0
    BY <1>20, <2>2
  <2> QED BY <1>21, <2>1, <2>3, PositionsFinite
<1>22. \A e : e \in FramesWith(BatchOps, s) => e.op = "free_sent" \/ e \in M
  BY <1>11 DEF FramesWith, BatchOps, SendOps
<1>23. ASSUME NEW u \in Threads, u # t, NEW i \in 1 .. Len(Q[u]), Q[u][i] \in FramesWith(BatchOps, s) PROVE FALSE
  <2>1. Q[u] = F[u] /\ G[u] = F[u]
    BY <1>2, <1>15, <1>23 DEF Queues
  <2>2. F[u][i].op = "free_sent" /\ F[u][i].s = s
    <3>1. F[u][i].s = s
      BY <1>23, <2>1 DEF FramesWith
    <3> QED BY <1>21, <1>22, <1>23, <2>1, <3>1
  <2>3. Len(F[u]) >= 2 /\ F[u][2] = Frame("flag_dec", s) /\ Len(F[u]) \in Nat
    BY <1>2, <1>23, <2>1, <2>2 DEF BatchInv, FreesFirst, Queues
  <2>4. F[u][2] \in M
    BY <1>11, <2>3 DEF FramesWith, SendOps, Frame
  <2> QED BY <1>21, <2>1, <2>3, <2>4
<1>24. ASSUME NEW i \in 1 .. Len(Q[t]), Q[t][i] \in FramesWith(BatchOps, s) PROVE FALSE
  <2>1. Q[t] = z
    BY <1>2, <1>3, <1>6 DEF Queues
  <2>2. z[i] = q[i + 1] /\ i \in Nat /\ i >= 1 /\ i <= Len(z) /\ i + 1 \in 1 .. Len(q)
    BY <1>5, <1>7, <1>24, <2>1
  <2>3. z[i] \in M
    BY <1>5, <1>22, <1>24, <2>1, <2>2
  <2>4. i # 1
    BY <1>8, <1>24, <2>1 DEF FramesWith, BatchOps, Frame
  <2>5. i - 1 \in 1 .. Len(y) /\ y[i - 1] = z[i]
    BY <1>5, <1>7, <1>10, <2>2, <2>4
  <2> QED BY <1>15, <1>21, <2>3, <2>5
<1>25. ~ \E p \in P : p.s = s /\ p.op = "send"
  <2>1. IsFiniteSet(P)
    BY <1>17 DEF Running
  <2>2. {p \in P : p.s = s /\ p.op \in {"send"}} = {}
    BY <1>20, <2>1, CountNone DEF InFlight
  <2> QED BY <2>2
<1>26. ~ \E i \in 1 .. Len(R) : R[i].s = s /\ R[i].op = "send"
  <2>1. R \in Seq(Packets(Slots, Kinds))
    BY <1>17 DEF Running
  <2>2. \A i \in 1 .. Len(R) : R[i] \notin PacketsWith({"send"}, s)
    BY <1>20, <2>1, PositionsFinite DEF InPort
  <2>3. \A i \in 1 .. Len(R) : R[i] \in Packets(Slots, Kinds)
    BY <2>1
  <2> QED BY <2>2, <2>3 DEF PacketsWith, Packets
<1> QED BY <1>2, <1>23, <1>24, <1>25, <1>26 DEF Batching

(* The packets of the batch are freed: there is no other batch of the slot,   *)
(* and those of the other slots are left alone (l.482-487).                   *)
LEMMA FreeSentBatch ==
  ASSUME BatchInv, NEW t \in Threads, FreeSent(t)
  PROVE  FreesFirst' /\ Batches'
<1>1. /\ At(t, "free_sent") /\ Then(t, <<>>) /\ UNCHANGED <<pending, port>>
      /\ LifeInv /\ FreesFirst /\ todo[t] # <<>>
  BY DEF FreeSent, OnlySession, kernel, BatchInv, FlagsInv, At
<1>2. PICK s : s = Slot(t) /\ s \in Slots /\ SessionsOK
  BY <1>1, SlotOK DEF BatchInv, FlagsInv
<1>3. PICK l : l = Frames(<<>>, s) \o Tail(todo[t])
  OBVIOUS
<1>4. todo' = [todo EXCEPT ![t] = l]
  BY <1>1, <1>2, <1>3 DEF Then
<1>5. PICK D, S : D = {} /\ S = {}
  OBVIOUS
<1>6. <<>> \in Seq(S) /\ "free_sent" \notin S /\ "wsa_send" \notin S
  BY <1>5
<1>7. PICK Q : Q = todo'
  OBVIOUS
<1>8. NoNewBatch(t, l, D)
  BY <1>1, <1>3, <1>6, NoNewFrames
<1>9. FreesFirst' /\ OldBatch(Q, D)
  BY <1>1, <1>4, <1>7, <1>8, NoNewStep
<1>10. l = Tail(todo[t])
  <2>1. PICK A : todo \in Queues(Threads, Todo(A, Slots))
    BY <1>1, ListsAre
  <2>2. PICK q, B : q = todo[t] /\ q \in Seq(B) /\ q # <<>>
    BY <1>1, <2>1 DEF Queues
  <2>3. PICK z : z = Tail(q) /\ z \in Seq(B)
    BY <2>2, HeadTailProperties
  <2>4. Frames(<<>>, s) = <<>>
    BY DEF Frames
  <2>5. <<>> \o z = z
    BY <2>3, ConcatEmptySeq
  <2> QED BY <1>3, <2>2, <2>3, <2>4, <2>5
<1>11. Q = [todo EXCEPT ![t] = Tail(todo[t])]
  BY <1>4, <1>7, <1>10
<1>12. ~Batching(Q, pending, port, s)
  BY <1>1, <1>2, <1>11, OnlyBatch
<1>13. ASSUME NEW r \in Slots \ {s} PROVE sess'[r] = sess[r]
  BY <1>2, <1>13 DEF FreeSent, SessionsOK
<1>14. ASSUME NEW r \in Slots \ {s}, Batching(Q, pending, port, r) PROVE Enough(r)'
  <2>1. Batching(todo, pending, port, r)
    <3>1. ASSUME NEW u \in Threads, NEW i \in 1 .. Len(Q[u]), Q[u][i] \in FramesWith(BatchOps, r)
          PROVE  \E j \in 1 .. Len(todo[u]) : todo[u][j] \in FramesWith(BatchOps, r)
      <4>1. Q[u][i].op \in BatchOps
        BY <3>1 DEF FramesWith
      <4> QED BY <1>5, <1>9, <3>1, <4>1 DEF OldBatch
    <3> QED BY <1>14, <3>1 DEF Batching
  <2>2. Enough(r)
    BY <2>1 DEF BatchInv, Batches
  <2> QED BY <1>13, <2>2 DEF Enough
<1>15. Batches'
  BY <1>1, <1>7, <1>12, <1>14 DEF Batches
<1> QED BY <1>9, <1>15

(* A worker frees packets only for a send that is done.                       *)
LEMMA HandlerBatch ==
  ASSUME NEW e, e.op \in Kinds, e.trans \in Nat
  PROVE  \/ e.op = "send" /\ Handler(e) = OnSent
         \/ \E S : Handler(e) \in Seq(S) /\ "free_sent" \notin S /\ "wsa_send" \notin S
<1>1. PICK S : S = {"post_test", "pqcs_dec", "pqcs_test", "release", "on_recv", "callback", "flag", "shutdown", "flag_dec",
                    "exited"}
  OBVIOUS
<1>2. /\ OnRequest \in Seq(S) /\ OnData \in Seq(S) /\ OnBroken \in Seq(S) /\ <<"exited">> \in Seq(S)
      /\ <<"flag_dec">> \in Seq(S)
  BY <1>1 DEF OnRequest, OnData, OnBroken
<1>3. <<"flag_dec">> \o OnBroken \in Seq(S)
  BY <1>2, ConcatProperties
<1>4. "free_sent" \notin S /\ "wsa_send" \notin S
  BY <1>1
<1>5. Handler(e) \in {OnRequest, OnData, OnBroken, <<"flag_dec">> \o OnBroken, <<"exited">>} \/ (e.op = "send" /\ Handler(e) = OnSent)
  BY DEF Handler, Kinds
<1> QED BY <1>2, <1>3, <1>4, <1>5

(* A worker takes a packet from the port.                                     *)
LEMMA DequeueBatch ==
  ASSUME BatchInv, NEW w \in Workers, Dequeue(w)
  PROVE  FreesFirst' /\ Batches'
<1>1. /\ w \in Threads /\ todo[w] = <<>> /\ port # <<>> /\ port' = Tail(port)
      /\ UNCHANGED <<sess, pending>> /\ LifeInv
  BY DEF Dequeue, TakePacket, Idle, Threads, BatchInv, FlagsInv
<1>2. PICK e, r, ops, l : e = Head(port) /\ r = e.s /\ ops = Handler(e) /\ l = Frames(ops, r)
  OBVIOUS
<1>3. todo' = [todo EXCEPT ![w] = l]
  BY <1>2 DEF Dequeue, TakePacket
<1>4. PICK C : port \in Seq(C) /\ C = Packets(Slots, Kinds)
  BY <1>1 DEF LifeInv, IInv, ServerSound, Sound, Running
<1>5. e \in C /\ r \in Slots /\ e.op \in Kinds /\ e.trans \in Nat
  <2>1. e \in C
    BY <1>1, <1>2, <1>4
  <2> QED BY <1>2, <1>4, <2>1 DEF Packets
<1>6. PICK Q, R : Q = todo' /\ R = port'
  OBVIOUS
<1>7. Q[w] = l /\ \A u \in Threads \ {w} : Q[u] = todo[u]
  <2>1. \E A : todo \in Queues(Threads, Todo(A, Slots))
    BY <1>1, ListsAre
  <2> QED BY <1>1, <1>3, <1>6, <2>1 DEF Queues
<1>8. /\ e = port[1] /\ 1 \in 1 .. Len(port) /\ Len(port) \in Nat /\ Len(R) = Len(port) - 1
      /\ \A i \in 1 .. Len(R) : R[i] = port[i + 1]
  BY <1>1, <1>2, <1>4, <1>6, HeadTailProperties
<1>9. ASSUME NEW i \in 1 .. Len(l), l[i].op \in BatchOps
      PROVE  /\ e.op = "send" /\ l[i].s = r /\ l[i].op = "free_sent" /\ i = 1
             /\ Len(l) >= 2 /\ l[2] = Frame("flag_dec", l[1].s)
  <2>1. \A x : Frame(x, r).op = x /\ Frame(x, r).s = r
    BY DEF Frame
  <2>2. CASE \E S : ops \in Seq(S) /\ "free_sent" \notin S /\ "wsa_send" \notin S
    <3>1. PICK S : ops \in Seq(S) /\ "free_sent" \notin S /\ "wsa_send" \notin S
      BY <2>2
    <3>2. Len(l) = Len(ops) /\ l[i] = Frame(ops[i], r) /\ i \in 1 .. Len(ops)
      <4>1. Len(Frames(ops, r)) = Len(ops) /\ \A j \in 1 .. Len(ops) : Frames(ops, r)[j] = Frame(ops[j], r)
        BY <3>1, FramesList
      <4>2. Len(l) = Len(ops) /\ i \in 1 .. Len(ops)
        BY <1>2, <1>9, <4>1
      <4> QED BY <1>2, <4>1, <4>2
    <3>3. ops[i] \in S
      BY <3>1, <3>2
    <3> QED BY <1>9, <2>1, <3>1, <3>2, <3>3 DEF BatchOps
  <2>3. CASE e.op = "send" /\ ops = OnSent
    <3>1. PICK S : ops \in Seq(S)
      <4>1. PICK S : S = {"free_sent", "flag_dec", "count_reset", "cut_test", "post_test", "release"}
        OBVIOUS
      <4>2. OnSent \in Seq(S)
        BY <4>1 DEF OnSent
      <4> QED BY <2>3, <4>2
    <3>2. /\ Len(l) = Len(ops) /\ l[i] = Frame(ops[i], r) /\ i \in 1 .. Len(ops)
          /\ \A j \in 1 .. Len(ops) : l[j] = Frame(ops[j], r)
      <4>1. Len(Frames(ops, r)) = Len(ops) /\ \A j \in 1 .. Len(ops) : Frames(ops, r)[j] = Frame(ops[j], r)
        BY <3>1, FramesList
      <4>2. Len(l) = Len(ops) /\ i \in 1 .. Len(ops)
        BY <1>2, <1>9, <4>1
      <4> QED BY <1>2, <4>1, <4>2
    <3>3. Len(ops) = 6 /\ ops[1] = "free_sent" /\ ops[2] = "flag_dec" /\ \A j \in 2 .. 6 : ops[j] \notin BatchOps
      BY <2>3 DEF OnSent, BatchOps
    <3>4. i = 1
      BY <1>9, <2>1, <3>2, <3>3
    <3>5. l[1] = Frame("free_sent", r) /\ l[2] = Frame("flag_dec", r)
      BY <3>2, <3>3
    <3> QED BY <2>1, <2>3, <3>2, <3>3, <3>4, <3>5
  <2> QED BY <1>2, <1>5, <2>2, <2>3, HandlerBatch
<1>10. FreesFirst'
  <2>1. ASSUME NEW u \in Threads, NEW i \in 1 .. Len(Q[u]), Q[u][i].op = "free_sent"
        PROVE  i = 1 /\ Len(Q[u]) >= 2 /\ Q[u][2] = Frame("flag_dec", Q[u][1].s)
    <3>1. CASE u = w
      <4>1. l[i].op \in BatchOps
        BY <1>7, <2>1, <3>1 DEF BatchOps
      <4> QED BY <1>7, <1>9, <2>1, <3>1, <4>1
    <3>2. CASE u # w
      BY <1>7, <2>1, <3>2 DEF BatchInv, FreesFirst
    <3> QED BY <3>1, <3>2
  <2> QED BY <1>6, <2>1 DEF FreesFirst
<1>11. ASSUME NEW s \in Slots, Batching(Q, pending, R, s) PROVE Batching(todo, pending, port, s)
  <2>1. ASSUME NEW u \in Threads, NEW i \in 1 .. Len(Q[u]), Q[u][i] \in FramesWith(BatchOps, s)
        PROVE  Batching(todo, pending, port, s)
    <3>1. CASE u = w
      <4>1. l[i].op \in BatchOps /\ l[i].s = s /\ i \in 1 .. Len(l)
        BY <1>7, <2>1, <3>1 DEF FramesWith
      <4>2. e.op = "send" /\ e.s = s
        BY <1>2, <1>9, <4>1
      <4> QED BY <1>8, <4>2 DEF Batching
    <3>2. CASE u # w
      BY <1>7, <2>1, <3>2 DEF Batching
    <3> QED BY <3>1, <3>2
  <2>2. ASSUME NEW i \in 1 .. Len(R), R[i].s = s, R[i].op = "send"
        PROVE  Batching(todo, pending, port, s)
    <3>1. PICK k : k = i + 1 /\ k \in 1 .. Len(port) /\ R[i] = port[k]
      BY <1>8
    <3> QED BY <2>2, <3>1 DEF Batching
  <2> QED BY <1>11, <2>1, <2>2 DEF Batching
<1>12. BatchKept
  BY <1>1, BatchSame
<1> QED BY <1>1, <1>6, <1>10, <1>11, <1>12, BatchesNext

LEMMA BatchInit == Init /\ CallsFromCallbacks => BatchInv
<1> SUFFICES ASSUME Init, CallsFromCallbacks PROVE BatchInv
  OBVIOUS
<1>1. FlagsInv
  BY FlagsInit
<1>2. PICK Q, P, R : Q = todo /\ P = pending /\ R = port
  OBVIOUS
<1>3. Q = [t \in Threads |-> <<>>] /\ P = {} /\ R = <<>>
  BY <1>2 DEF Init
<1>4. \A t \in Threads : Len(Q[t]) = 0
  BY <1>3
<1>5. FreesFirst
  BY <1>2, <1>4 DEF FreesFirst
<1>6. \A s \in Slots : ~Batching(Q, P, R, s)
  BY <1>3, <1>4 DEF Batching
<1> QED BY <1>1, <1>2, <1>5, <1>6 DEF BatchInv, Batches

LEMMA BatchNext == BatchInv /\ [Next]_vars => BatchInv'
<1> SUFFICES ASSUME BatchInv, [Next]_vars PROVE BatchInv'
  OBVIOUS
<1>1. FlagsInv /\ LifeInv /\ FlagsInv' /\ ServerTypeOK'
  BY FlagsNext, LifeNext DEF BatchInv, FlagsInv, LifeInv
<1>2. ASSUME NEW t \in Threads, Quietly(t), BatchKept PROVE FreesFirst' /\ Batches'
  BY <1>2, QuietBatch
<1>3. ASSUME NEW t \in Threads, Step(t) PROVE FreesFirst' /\ Batches'
  <2>1. CASE \/ DiscCount(t) \/ PostTest(t) \/ CutTest(t) \/ CutFlag(t) \/ WakeTest(t) \/ WakeLook(t) \/ PqcsTest(t) \/ PqcsQueue(t)
             \/ CallbackEnds(t) \/ Shutdown(t) \/ AcquireCheckId(t) \/ AcquireCheckFlag(t) \/ Leave(t) \/ PushSlot(t)
             \/ Join(t)
    <3>1. Quietly(t) /\ BatchKept
      BY <1>1, <2>1, QuietTests, BatchTests
    <3> QED BY <1>2, <3>1
  <2>2. CASE \/ Release(t) \/ Flag(t) \/ DiscCAS(t) \/ Drain(t) \/ Reclaim(t) \/ CountReset(t)
             \/ Mark(t) \/ InsertRef(t) \/ AcquireInc(t) \/ Push(t) \/ Insert(t)
    <3>1. Quietly(t) /\ BatchKept
      BY <1>1, <2>2, QuietUpdates, BatchUpdates
    <3> QED BY <1>2, <3>1
  <2>3. CASE InsertFlags(t) \/ CutCAS(t) \/ CutNow(t)
    <3>1. Quietly(t) /\ BatchKept
      BY <1>1, <2>3, QuietInsertFlags, QuietCalls, BatchTests, BatchUpdates
    <3> QED BY <1>2, <3>1
  <2>4. CASE FreeSent(t) \/ TestId(t) \/ OnRecv(t) \/ PopSlot(t)
    BY <2>4, FreeSentBatch, CrashingBatch
  <2>5. CASE PostCAS(t) \/ PostFill(t) \/ PostUnset(t) \/ SendFailed(t) \/ FlagDec(t)
    BY <2>5, SendBatch, FillBatch
  <2>6. CASE RecvPost(t) \/ WSASend(t)
    BY <2>6, RecvBatch, SendingBatch
  <2>7. CASE WakeCAS(t) \/ PqcsDec(t)
    BY <2>7, WakeBatch, SendBatch
  <2>8. ~PostQuit(t) /\ ~Wait(t)
    BY <1>1, NoStop
  <2> QED BY <1>3, <2>1, <2>2, <2>3, <2>4, <2>5, <2>6, <2>7, <2>8 DEF Step, SessionStep
<1>4. ASSUME NEW c \in Conns, PeerLeaves(c) PROVE FreesFirst' /\ Batches'
  BY <1>4, StillBatch DEF PeerLeaves
<1>5. ASSUME UNCHANGED vars PROVE FreesFirst' /\ Batches'
  BY <1>5, StillBatch DEF vars, sessionVars, kernel
<1>6. ~StopBegin /\ \A u \in Users : ~Call(u)
  BY <1>1 DEF LifeInv, CallsFromCallbacks, StopBegin
<1>7. FreesFirst' /\ Batches'
  BY <1>1, <1>3, <1>4, <1>5, <1>6, CallBackBatch, AcceptBatch, DequeueBatch, KernelBatch DEF Next
<1> QED BY <1>1, <1>7 DEF BatchInv

LEMMA BatchAre == BatchInv => SentPacketsKept
<1> SUFFICES ASSUME BatchInv, NEW s \in Slots, NEW t \in Threads, Count(t, {"free_sent"}, s) > 0
             PROVE  Enough(s)
  BY DEF SentPacketsKept, Enough
<1>1. PICK A : todo \in Queues(Threads, Todo(A, Slots))
  BY ListsAre DEF BatchInv, FlagsInv
<1>2. PICK q, B, M : q = todo[t] /\ q \in Seq(B) /\ M = FramesWith({"free_sent"}, s)
  BY <1>1 DEF Queues
<1>3. Occ(q, M) # 0
  BY <1>2 DEF Count
<1>4. PICK i \in 1 .. Len(q) : q[i] \in M
  BY <1>2, <1>3, PositionsFinite
<1>5. q[i] \in FramesWith(BatchOps, s)
  BY <1>2, <1>4 DEF FramesWith, BatchOps
<1>6. Batching(todo, pending, port, s)
  BY <1>2, <1>4, <1>5 DEF Batching
<1> QED BY <1>6 DEF BatchInv, Batches

(* Without application threads, a worker that frees the packets of a send     *)
(* that is done finds all of them in completeSendQ, however the sends of the  *)
(* session, its teardown and the reuse of its slot interleave: the loop at    *)
(* IOCPServer.cpp:482 never waits for a packet nobody will put there.         *)
THEOREM SentPacketsTheorem == CallsFromCallbacks => (Spec => []SentPacketsKept)
<1>1. CallsFromCallbacks /\ Init => BatchInv
  BY BatchInit
<1> QED BY <1>1, BatchNext, BatchAre, PTL DEF Spec
=============================================================================
