--------------------------- MODULE LanClientProofs ---------------------------
(***************************************************************************)
(* iocpCount and sendFlag of the client's session are exact, for any       *)
(* number of worker and application threads, connections and packets.      *)
(***************************************************************************)
EXTENDS LanClient, SessionsProofs

(* The kinds of completion packets. *)
Kinds == {"recv", "send", "quit"}

RefsSound == Sound(Refs, Threads, {user}, Kinds, {})
SendsSound == Sound(Sends, Threads, {user}, Kinds, {})

IInv ==
  /\ RefsSound /\ SendsSound /\ OneSender({user})
  /\ sess[user].iocpCount = Tally(Refs, todo, pending, port, user)

LEMMA ThreadsFinite == IsFiniteSet(Threads) /\ Connector \in Threads /\ Main \in Threads
<1>1. IsFiniteSet({Connector, Main})
  <2>1. IsFiniteSet({Connector}) /\ IsFiniteSet({Main})
    BY FS_Singleton
  <2>2. {Connector, Main} = {Connector} \cup {Main}
    OBVIOUS
  <2> QED BY <2>1, <2>2, FS_Union
<1>2. IsFiniteSet(Workers \cup Users)
  BY ClientAssumption, FS_Union
<1>3. IsFiniteSet((Workers \cup Users) \cup {Connector, Main})
  BY <1>1, <1>2, FS_Union
<1> QED BY <1>3 DEF Threads

LEMMA IInvInit == Init => IInv
<1> SUFFICES ASSUME Init PROVE IInv
  OBVIOUS
<1>1. DOMAIN sess = {user} /\ {"iocpCount", "sendFlag"} \subseteq DOMAIN sess[user]
  BY DEF Init
<1>2. sess[user].iocpCount = 0 /\ sess[user].sendFlag = 0
  BY DEF Init
<1>3. PICK Q, P, R : /\ Q = todo /\ P = pending /\ R = port
                     /\ Q = [t \in Threads |-> <<>>] /\ P = {} /\ R = <<>>
  BY DEF Init
<1>4. Running(Threads, {user}, Kinds, Q, P, R) /\ \A r : Tally(Refs, Q, P, R, r) = 0
  BY <1>3, ThreadsFinite, TallyInit
<1>5. \A r : Tally(Sends, Q, P, R, r) = 0
  BY <1>3, ThreadsFinite, TallyInit
<1>6. RefsSound /\ SendsSound
  BY <1>1, <1>2, <1>3, <1>4, Parts DEF RefsSound, SendsSound, Sound
<1>7. OneSender({user})
  BY <1>2, <1>3, <1>5 DEF OneSender, Flags
<1> QED BY <1>2, <1>3, <1>4, <1>6, <1>7 DEF IInv

LEMMA IInvExact == IInv => CountsExact
<1> SUFFICES ASSUME IInv PROVE CountsExact
  OBVIOUS
<1>1. PICK Q, P, R : Q = todo /\ P = pending /\ R = port
  OBVIOUS
<1>2. Running(Threads, {user}, Kinds, Q, P, R)
  BY <1>1 DEF IInv, SendsSound, Sound
<1>3. References(Q, P, R, user) = Tally(Refs, Q, P, R, user)
  BY ReferencesTally
<1>4. Senders(Q, P, R, user) = Tally(Sends, Q, P, R, user)
  BY <1>2, ThreadsFinite, SendersTally
<1> QED BY <1>1, <1>3, <1>4 DEF IInv, OneSender, Flags, CountsExact

(* A step over which both counts change as what they count. *)
LEMMA IInvStep ==
  ASSUME IInv, Balanced(Refs, Threads, {user}, Kinds, {}), Balanced(Sends, Threads, {user}, Kinds, {}),
         Flags({user})'
  PROVE  IInv'
<1> USE ThreadsFinite DEF IInv, RefsSound, SendsSound
<1>1. OneSender({user})'
  BY OneSenderNext
<1>2. sess'[user].iocpCount = Tally(Refs, todo', pending', port', user)
  <2>1. PICK n : n = 0 /\ n \in Int
    OBVIOUS
  <2>2. Tally(Refs, todo, pending, port, user) \in Int
    BY TallyInt DEF Sound
  <2>3. sess[user][Refs.field] = Tally(Refs, todo, pending, port, user) + n
    BY <2>1, <2>2, Parts
  <2>4. sess'[user][Refs.field] = Tally(Refs, todo', pending', port', user) + n
    BY <2>1, <2>3, BalancedExact
  <2>5. PICK Q, P, R : Q = todo' /\ P = pending' /\ R = port'
    OBVIOUS
  <2>6. Running(Threads, {user}, Kinds, Q, P, R)
    BY <2>5 DEF Balanced, Sound
  <2>7. Tally(Refs, Q, P, R, user) \in Int
    BY <2>6, TallyInt
  <2> QED BY <2>1, <2>4, <2>5, <2>7, Parts
<1> QED BY <1>1, <1>2 DEF Balanced

LEMMA IInvStill ==
  ASSUME IInv, UNCHANGED <<sess, todo, pending, port>>
  PROVE  IInv'
<1>1. Flags({user})'
  BY DEF IInv, OneSender, Flags
<1> QED BY <1>1, StillBalanced, IInvStep DEF IInv, RefsSound, SendsSound

(* The step counts n references, and nothing else. *)
Counting(n) ==
  /\ DOMAIN sess' = {user} /\ {"iocpCount", "sendFlag"} \subseteq DOMAIN sess'[user]
  /\ sess'[user].iocpCount = sess[user].iocpCount + n
  /\ sess'[user].sendFlag = sess[user].sendFlag

LEMMA CountingAdds ==
  ASSUME IInv, NEW n \in Int, Counting(n)
  PROVE  /\ Adds(Refs, {user}, {}, user, n) /\ Adds(Sends, {user}, {}, user, 0)
         /\ SameIndex({user}, {}) /\ Flags({user})'
<1>1. sess[user].sendFlag \in Int
  BY Parts DEF IInv, SendsSound, Sound
<1>2. Adds(Refs, {user}, {}, user, n)
  BY Parts DEF Counting, Adds
<1>3. Adds(Sends, {user}, {}, user, 0)
  BY <1>1, Parts DEF Counting, Adds
<1> QED BY <1>2, <1>3 DEF Counting, SameIndex, IInv, OneSender, Flags

LEMMA CountingNone ==
  ASSUME IInv, UNCHANGED sess
  PROVE  Counting(0)
BY Parts DEF IInv, RefsSound, SendsSound, Sound, Counting

LEMMA ThreadAt ==
  ASSUME IInv, NEW t \in Threads, NEW op, At(t, op)
  PROVE  Slot(t) = user
BY AtOp DEF IInv, RefsSound

(* A thread's step that counts references only. *)
LEMMA ThreadStep ==
  ASSUME IInv, NEW t \in Threads, NEW op, At(t, op), NEW ops, IsList(ops), Then(t, ops),
         UNCHANGED <<pending, port>>, Counting(More(Refs, op, ops)), More(Sends, op, ops) = 0
  PROVE  IInv'
<1> USE ThreadsFinite DEF IInv, RefsSound, SendsSound
<1>1. PICK n : n = More(Refs, op, ops) /\ n \in Int
  BY NetInt, WeightInt DEF More
<1>2. /\ Adds(Refs, {user}, {}, user, n) /\ Adds(Sends, {user}, {}, user, 0)
      /\ SameIndex({user}, {}) /\ Flags({user})'
  BY <1>1, CountingAdds
<1>3. Slot(t) = user
  BY ThreadAt
<1>4. Balanced(Refs, Threads, {user}, Kinds, {})
  BY <1>1, <1>2, <1>3, LocalStep
<1>5. Balanced(Sends, Threads, {user}, Kinds, {})
  BY <1>2, <1>3, LocalStep
<1> QED BY <1>2, <1>4, <1>5, IInvStep

LEMMA NothingHeld ==
  ASSUME NEW k, NEW ops, IsList(ops), Net(k, ops) = 0, NEW new, new = Frames(ops, user), NEW r
  PROVE  IsFrames(new, {user}) /\ Held(k, new, r) = 0
<1>1. PICK D, s : D = {user} /\ s = user /\ s \in D
  OBVIOUS
<1>2. IsFrames(Frames(ops, s), D) /\ Held(k, Frames(ops, s), r) = IF r = s THEN Net(k, ops) ELSE 0
  BY <1>1, HeldFrames
<1> QED BY <1>1, <1>2

(* An idle thread that begins with ops. *)
LEMMA ThreadBegins ==
  ASSUME IInv, NEW t \in Threads, todo[t] = <<>>, NEW ops, IsList(ops),
         todo' = [todo EXCEPT ![t] = Frames(ops, user)],
         UNCHANGED <<sess, pending, port>>, Net(Refs, ops) = 0, Net(Sends, ops) = 0
  PROVE  IInv'
<1> USE ThreadsFinite DEF IInv, RefsSound, SendsSound
<1>1. PICK new : new = Frames(ops, user)
  OBVIOUS
<1>2. IsFrames(new, {user}) /\ \A r : Held(Refs, new, r) = 0
  BY <1>1, NothingHeld
<1>3. \A r : Held(Sends, new, r) = 0
  BY <1>1, NothingHeld
<1>4. PICK n : n = 0 /\ n \in Int
  OBVIOUS
<1>5. Counting(n)
  BY <1>4, CountingNone
<1>6. /\ Adds(Refs, {user}, {}, user, 0) /\ Adds(Sends, {user}, {}, user, 0)
      /\ SameIndex({user}, {}) /\ Flags({user})'
  BY <1>4, <1>5, CountingAdds
<1>7. Balanced(Refs, Threads, {user}, Kinds, {})
  BY <1>1, <1>2, <1>6, BeginStep
<1>8. Balanced(Sends, Threads, {user}, Kinds, {})
  BY <1>1, <1>2, <1>3, <1>6, BeginStep
<1> QED BY <1>6, <1>7, <1>8, IInvStep
-----------------------------------------------------------------------------
(* The steps of Sessions *)

LEMMA SessionSteps ==
  ASSUME IInv, NEW t \in Threads, SessionStep(t), ~SendTest(t)
  PROVE  IInv'
<1> USE ThreadsFinite DEF IInv, RefsSound, SendsSound
<1>1. CASE \/ Release(t) \/ Flag(t) \/ Shutdown(t)
           \/ PostTest(t) \/ PostCAS(t) \/ PostFill(t) \/ PostUnset(t)
           \/ SendFailed(t) \/ FreeSent(t) \/ FlagDec(t) \/ CallbackEnds(t)
  <2>1. Balanced(Refs, Threads, {user}, Kinds, {})
    BY <1>1, LocalBalanced
  <2>2. Balanced(Sends, Threads, {user}, Kinds, {}) /\ Flags({user})'
    BY <1>1, SendsLocal
  <2> QED BY <2>1, <2>2, IInvStep
<1>2. CASE PostAgain(t)
  BY <1>2, IInvStill DEF PostAgain, Crash, kernel
<1>3. CASE RecvPost(t)
  <2>1. Balanced(Refs, Threads, {user}, Kinds, {})
    BY <1>3, RecvPostBalanced
  <2>2. Balanced(Sends, Threads, {user}, Kinds, {}) /\ Flags({user})'
    BY <1>3, SendsRecvPost
  <2> QED BY <2>1, <2>2, IInvStep
<1>4. CASE WSASend(t)
  <2>1. Balanced(Refs, Threads, {user}, Kinds, {})
    BY <1>4, WSASendBalanced
  <2>2. Balanced(Sends, Threads, {user}, Kinds, {}) /\ Flags({user})'
    BY <1>4, SendsWSASend
  <2> QED BY <2>1, <2>2, IInvStep
<1> QED BY <1>1, <1>2, <1>3, <1>4 DEF SessionStep, SendPost

LEMMA DiscCASStep ==
  ASSUME IInv, NEW t \in Threads, DiscCAS(t)  PROVE IInv'
<1> USE ThreadsFinite DEF IInv, RefsSound, SendsSound
<1>1. IsList(Teardown) /\ Net(Refs, Teardown) = 0 /\ Net(Sends, Teardown) = 0
  BY Net4, RefWeights, SendWeights DEF Teardown
<1>2. TakeFlag(t, Teardown)
  BY DEF DiscCAS
<1>3. Balanced(Refs, Threads, {user}, Kinds, {})
  BY <1>1, <1>2, TakeFlagBalanced
<1>4. Balanced(Sends, Threads, {user}, Kinds, {}) /\ Flags({user})'
  BY <1>1, <1>2, SendsTakeFlag
<1> QED BY <1>3, <1>4, IInvStep
-----------------------------------------------------------------------------
(* The steps of the client *)

LEMMA SetFlagStep ==
  ASSUME IInv, NEW t \in Threads, SetFlag(t, "conn_set", TRUE)  PROVE IInv'
<1>1. /\ IsList(<<>>) /\ More(Refs, "conn_set", <<>>) = 0 /\ More(Sends, "conn_set", <<>>) = 0
  BY MoreNone, MoreOne, RefWeights, SendWeights
<1>2. PICK ops : Then(t, ops) /\ IsList(ops) /\ More(Refs, "conn_set", ops) = 0 /\ More(Sends, "conn_set", ops) = 0
  BY <1>1 DEF SetFlag
<1>3. At(t, "conn_set") /\ UNCHANGED <<pending, port>>
  BY DEF SetFlag, OnlyThread, OnlySession, kernel
<1>4. Counting(0)
  BY CountingNone DEF SetFlag, OnlyThread
<1> QED BY <1>2, <1>3, <1>4, ThreadStep

LEMMA SetSockStep ==
  ASSUME IInv, NEW t \in Threads, SetSock(t)  PROVE IInv'
<1>1. /\ IsList(<<>>) /\ More(Refs, "conn_sock", <<>>) = 0 /\ More(Sends, "conn_sock", <<>>) = 0
  BY MoreNone, MoreOne, RefWeights, SendWeights
<1>2. PICK ops : Then(t, ops) /\ IsList(ops) /\ More(Refs, "conn_sock", ops) = 0 /\ More(Sends, "conn_sock", ops) = 0
  BY <1>1 DEF SetSock, Update
<1>3. At(t, "conn_sock") /\ UNCHANGED <<pending, port>>
  BY DEF SetSock, Update, OnlyThread, OnlySession, kernel
<1>4. Counting(0)
  BY <1>3, ThreadAt, Parts DEF SetSock, Update, IInv, RefsSound, SendsSound, Sound, Counting
<1> QED BY <1>2, <1>3, <1>4, ThreadStep

LEMMA ConnectRefStep ==
  ASSUME IInv, NEW t \in Threads, ConnectRef(t)  PROVE IInv'
<1>1. /\ IsList(<<>>) /\ More(Refs, "conn_ref", <<>>) = 1 /\ More(Sends, "conn_ref", <<>>) = 0
  BY MoreNone, MoreOne, RefWeights, SendWeights
<1>2. PICK ops : Then(t, ops) /\ IsList(ops) /\ More(Refs, "conn_ref", ops) = 1 /\ More(Sends, "conn_ref", ops) = 0
  BY <1>1 DEF ConnectRef, Update
<1>3. At(t, "conn_ref") /\ UNCHANGED <<pending, port>>
  BY DEF ConnectRef, Update, OnlyThread, OnlySession, kernel
<1>4. Counting(1)
  BY <1>3, ThreadAt, Parts DEF ConnectRef, Update, IInv, RefsSound, SendsSound, Sound, Counting
<1> QED BY <1>2, <1>3, <1>4, ThreadStep

LEMMA JoinStep ==
  ASSUME IInv, NEW t \in Threads, Tell(t, "join")  PROVE IInv'
<1>1. /\ IsList(<<>>) /\ More(Refs, "join", <<>>) = 0 /\ More(Sends, "join", <<>>) = 0
  BY MoreNone, MoreOne, RefWeights, SendWeights
<1>2. PICK ops : Then(t, ops) /\ IsList(ops) /\ More(Refs, "join", ops) = 0 /\ More(Sends, "join", ops) = 0
  BY <1>1 DEF Tell
<1>3. At(t, "join") /\ UNCHANGED <<pending, port>>
  BY DEF Tell, OnlyThread, OnlySession, kernel
<1>4. Counting(0)
  BY CountingNone DEF Tell, OnlyThread
<1> QED BY <1>2, <1>3, <1>4, ThreadStep

LEMMA LeaveStep ==
  ASSUME IInv, NEW t \in Threads, Tell(t, "leave")  PROVE IInv'
<1>1. /\ IsList(<<>>) /\ More(Refs, "leave", <<>>) = 0 /\ More(Sends, "leave", <<>>) = 0
  BY MoreNone, MoreOne, RefWeights, SendWeights
<1>2. PICK ops : Then(t, ops) /\ IsList(ops) /\ More(Refs, "leave", ops) = 0 /\ More(Sends, "leave", ops) = 0
  BY <1>1 DEF Tell
<1>3. At(t, "leave") /\ UNCHANGED <<pending, port>>
  BY DEF Tell, OnlyThread, OnlySession, kernel
<1>4. Counting(0)
  BY CountingNone DEF Tell, OnlyThread
<1> QED BY <1>2, <1>3, <1>4, ThreadStep

LEMMA DrainStep ==
  ASSUME IInv, NEW t \in Threads, Drain(t)  PROVE IInv'
<1>1. /\ IsList(<<>>) /\ More(Refs, "drain", <<>>) = 0 /\ More(Sends, "drain", <<>>) = 0
  BY MoreNone, MoreOne, RefWeights, SendWeights
<1>2. PICK ops : Then(t, ops) /\ IsList(ops) /\ More(Refs, "drain", ops) = 0 /\ More(Sends, "drain", ops) = 0
  BY <1>1 DEF Drain, Update
<1>3. At(t, "drain") /\ UNCHANGED <<pending, port>>
  BY DEF Drain, Update, OnlyThread, OnlySession, kernel
<1>4. Counting(0)
  BY <1>3, ThreadAt, Parts DEF Drain, Update, IInv, RefsSound, SendsSound, Sound, Counting
<1> QED BY <1>2, <1>3, <1>4, ThreadStep

LEMMA RenewStep ==
  ASSUME IInv, NEW t \in Threads, Renew(t)  PROVE IInv'
<1>1. /\ IsList(<<>>) /\ More(Refs, "renew", <<>>) = 0 /\ More(Sends, "renew", <<>>) = 0
  BY MoreNone, MoreOne, RefWeights, SendWeights
<1>2. PICK ops : Then(t, ops) /\ IsList(ops) /\ More(Refs, "renew", ops) = 0 /\ More(Sends, "renew", ops) = 0
  BY <1>1 DEF Renew
<1>3. At(t, "renew") /\ UNCHANGED <<pending, port>>
  BY DEF Renew, OnlyThread, OnlySession, kernel
<1>4. Counting(0)
  BY <1>3, ThreadAt, Parts DEF Renew, IInv, RefsSound, SendsSound, Sound, Counting
<1> QED BY <1>2, <1>3, <1>4, ThreadStep

LEMMA ClearFlagStep ==
  ASSUME IInv, NEW t \in Threads, SetFlag(t, "conn_clear", FALSE)  PROVE IInv'
<1>1. /\ IsList(<<>>) /\ More(Refs, "conn_clear", <<>>) = 0 /\ More(Sends, "conn_clear", <<>>) = 0
  BY MoreNone, MoreOne, RefWeights, SendWeights
<1>2. PICK ops : Then(t, ops) /\ IsList(ops) /\ More(Refs, "conn_clear", ops) = 0 /\ More(Sends, "conn_clear", ops) = 0
  BY <1>1 DEF SetFlag
<1>3. At(t, "conn_clear") /\ UNCHANGED <<pending, port>>
  BY DEF SetFlag, OnlyThread, OnlySession, kernel
<1>4. Counting(0)
  BY CountingNone DEF SetFlag, OnlyThread
<1> QED BY <1>2, <1>3, <1>4, ThreadStep

LEMMA PushStep ==
  ASSUME IInv, NEW t \in Threads, Push(t)  PROVE IInv'
<1>1. /\ IsList(<<>>) /\ More(Refs, "push", <<>>) = 0 /\ More(Sends, "push", <<>>) = 0
  BY MoreNone, MoreOne, RefWeights, SendWeights
<1>2. PICK ops : Then(t, ops) /\ IsList(ops) /\ More(Refs, "push", ops) = 0 /\ More(Sends, "push", ops) = 0
  BY <1>1 DEF Push, Update
<1>3. At(t, "push") /\ UNCHANGED <<pending, port>>
  BY DEF Push, Update, OnlyThread, OnlySession, kernel
<1>4. Counting(0)
  BY <1>3, ThreadAt, Parts DEF Push, Update, IInv, RefsSound, SendsSound, Sound, Counting
<1> QED BY <1>2, <1>3, <1>4, ThreadStep

LEMMA SendTestStep ==
  ASSUME IInv, NEW t \in Threads, SendTest(t)  PROVE IInv'
<1>1. /\ IsList(<<"post_test">>) /\ More(Refs, "send_test", <<"post_test">>) = 0 /\ More(Sends, "send_test", <<"post_test">>) = 0
      /\ IsList(<<>>) /\ More(Refs, "send_test", <<>>) = 0 /\ More(Sends, "send_test", <<>>) = 0
  BY MoreNone, MoreOne, RefWeights, SendWeights
<1>2. PICK ops : Then(t, ops) /\ IsList(ops) /\ More(Refs, "send_test", ops) = 0 /\ More(Sends, "send_test", ops) = 0
  BY <1>1 DEF SendTest, Test
<1>3. At(t, "send_test") /\ UNCHANGED <<pending, port>>
  BY DEF SendTest, Test, OnlyThread, OnlySession, kernel
<1>4. Counting(0)
  BY CountingNone DEF SendTest, Test, OnlyThread
<1> QED BY <1>2, <1>3, <1>4, ThreadStep

LEMMA ThrowStep ==
  ASSUME IInv, NEW t \in Threads, CallbackThrows(t)  PROVE IInv'
<1>1. /\ IsList(<<"release">>) /\ More(Refs, "callback", <<"release">>) = 0 /\ More(Sends, "callback", <<"release">>) = 0
  BY MoreNone, MoreOne, RefWeights, SendWeights
<1>2. PICK ops : Then(t, ops) /\ IsList(ops) /\ More(Refs, "callback", ops) = 0 /\ More(Sends, "callback", ops) = 0
  BY <1>1 DEF CallbackThrows
<1>3. At(t, "callback") /\ UNCHANGED <<pending, port>>
  BY DEF CallbackThrows, OnlyThread, OnlySession, kernel
<1>4. Counting(0)
  BY CountingNone DEF CallbackThrows, OnlyThread
<1> QED BY <1>2, <1>3, <1>4, ThreadStep

LEMMA CallBackStep ==
  ASSUME IInv, NEW t \in Threads, CallBack(t)  PROVE IInv'
<1> USE ThreadsFinite DEF IInv, RefsSound, SendsSound
<1>1. PICK ops : ops = <<"push", "send_test">>
  OBVIOUS
<1>2. IsList(ops) /\ Net(Refs, ops) = 0 /\ Net(Sends, ops) = 0
  BY <1>1, Net2, RefWeights, SendWeights
<1>3. todo' = [todo EXCEPT ![t] = Frames(ops, user) \o @] /\ UNCHANGED <<sess, pending, port>>
  BY <1>1 DEF CallBack, OnlyThread, OnlySession, kernel
<1>4. PICK n : n = 0 /\ n \in Int /\ Counting(n)
  BY <1>3, CountingNone
<1>5. /\ Adds(Refs, {user}, {}, user, 0) /\ Adds(Sends, {user}, {}, user, 0)
      /\ SameIndex({user}, {}) /\ Flags({user})'
  BY <1>4, CountingAdds
<1>6. Balanced(Refs, Threads, {user}, Kinds, {})
  BY <1>2, <1>3, <1>5, CallbackStep
<1>7. Balanced(Sends, Threads, {user}, Kinds, {})
  BY <1>2, <1>3, <1>5, CallbackStep
<1> QED BY <1>5, <1>6, <1>7, IInvStep

LEMMA BeginSteps ==
  ASSUME IInv, Connect \/ StopBegin \/ \E u \in Users : SendPacket(u)  PROVE IInv'
<1>1. CASE Connect
  <2>1. IsList(Connected) /\ Net(Refs, Connected) = 0 /\ Net(Sends, Connected) = 0
    BY Net5, RefWeights, SendWeights DEF Connected
  <2> QED BY <1>1, <2>1, ThreadBegins, ThreadsFinite DEF Connect, Idle
<1>2. CASE StopBegin
  <2>1. PICK ops : ops = <<"disc_cas", "quits", "wait">>
    OBVIOUS
  <2>2. IsList(ops) /\ Net(Refs, ops) = 0 /\ Net(Sends, ops) = 0
    BY <2>1, Net3, RefWeights, SendWeights
  <2> QED BY <1>2, <2>1, <2>2, ThreadBegins, ThreadsFinite
       DEF StopBegin, Idle, OnlyThread, OnlySession, kernel
<1>3. CASE \E u \in Users : SendPacket(u)
  <2>1. PICK u \in Users : SendPacket(u)
    BY <1>3
  <2>2. PICK ops : ops = <<"push", "send_test">>
    OBVIOUS
  <2>3. IsList(ops) /\ Net(Refs, ops) = 0 /\ Net(Sends, ops) = 0
    BY <2>2, Net2, RefWeights, SendWeights
  <2>4. u \in Threads
    BY DEF Threads
  <2> QED BY <2>1, <2>2, <2>3, <2>4, ThreadBegins
       DEF SendPacket, Idle, OnlyThread, OnlySession, kernel
<1> QED BY <1>1, <1>2, <1>3

(* What a worker does for a packet gives back the packet's reference, and *)
(* sendFlag.                                                              *)
LEMMA DequeueStep ==
  ASSUME IInv, NEW w \in Workers, Dequeue(w)  PROVE IInv'
<1> USE ThreadsFinite DEF IInv, RefsSound, SendsSound
<1>1. PICK e, ops : e = Head(port) /\ ops = Handler(e)
  OBVIOUS
<1>2. TakePacket(w, ops) /\ w \in Threads
  BY <1>1 DEF Dequeue, Threads
<1>3. e.op \in Kinds
  <2>1. port \in Seq(Packets({user}, Kinds)) /\ port # <<>>
    BY <1>2 DEF Sound, Running, TakePacket
  <2>2. e \in Packets({user}, Kinds)
    BY <1>1, <2>1
  <2> QED BY <2>2 DEF Packets
<1>4. /\ IsList(OnBroken) /\ Net(Refs, OnBroken) = 1 /\ Net(Sends, OnBroken) = 0
      /\ IsList(OnSent) /\ Net(Refs, OnSent) = 1 /\ Net(Sends, OnSent) = 1
      /\ IsList(<<"callback">>) /\ Net(Refs, <<"callback">>) = 1 /\ Net(Sends, <<"callback">>) = 0
      /\ IsList(<<"exited">>) /\ Net(Refs, <<"exited">>) = 0 /\ Net(Sends, <<"exited">>) = 0
  BY NetOne, Net3, Net4, RefWeights, SendWeights DEF OnBroken, OnSent
<1>5. IsList(OnSendBroken) /\ Net(Refs, OnSendBroken) = 1 /\ Net(Sends, OnSendBroken) = 1
  <2>1. PICK p, q : p = <<"flag_dec">> /\ q = OnBroken
    OBVIOUS
  <2>2. IsList(p) /\ Net(Refs, p) = 0 /\ Net(Sends, p) = 1
    BY <2>1, NetOne, RefWeights, SendWeights
  <2> QED BY <1>4, <2>1, <2>2, NetConcat DEF OnSendBroken
<1>6. IsList(ops) /\ Net(Refs, ops) = Part(Refs, e.op) /\ Net(Sends, ops) = Part(Sends, e.op)
  BY <1>1, <1>3, <1>4, <1>5, Parts DEF Handler, Kinds
<1>7. Balanced(Refs, Threads, {user}, Kinds, {})
  BY <1>1, <1>2, <1>6, TakePacketBalanced
<1>8. Balanced(Sends, Threads, {user}, Kinds, {})
  BY <1>1, <1>2, <1>6, TakePacketBalanced
<1>9. Flags({user})'
  BY <1>2 DEF TakePacket, OneSender, Flags
<1> QED BY <1>7, <1>8, <1>9, IInvStep

LEMMA KernelSteps ==
  ASSUME IInv, NEW p \in pending, RecvData(p) \/ KernelStep(p)  PROVE IInv'
<1> USE ThreadsFinite DEF IInv, RefsSound, SendsSound
<1>1. {"recv", "send"} \subseteq Kinds
  BY DEF Kinds
<1>2. PICK k \in Nat : Complete(p, k)
  BY DEF RecvData, KernelStep, SendDone, ZeroBytes
<1>3. UNCHANGED sess
  BY DEF RecvData, KernelStep, SendDone, ZeroBytes
<1>4. PICK n : n = 0 /\ n \in Int /\ Counting(n)
  BY <1>3, CountingNone
<1>5. /\ Adds(Refs, {user}, {}, user, 0) /\ Adds(Sends, {user}, {}, user, 0)
      /\ SameIndex({user}, {}) /\ Flags({user})'
  BY <1>4, CountingAdds
<1>6. Balanced(Refs, Threads, {user}, Kinds, {})
  BY <1>1, <1>2, <1>5, CompleteBalanced
<1>7. Balanced(Sends, Threads, {user}, Kinds, {})
  BY <1>1, <1>2, <1>5, CompleteBalanced
<1> QED BY <1>5, <1>6, <1>7, IInvStep

(* The packets that end the workers count for nothing. *)
LEMMA PostQuitsStep ==
  ASSUME IInv, NEW t \in Threads, PostQuits(t)  PROVE IInv'
<1> USE ThreadsFinite DEF IInv, RefsSound, SendsSound
<1>1. PICK q : q = [i \in 1 .. Quits |-> [s |-> user, op |-> "quit", trans |-> 0]]
  OBVIOUS
<1>2. /\ At(t, "quits") /\ Then(t, <<>>) /\ UNCHANGED <<sess, pending>>
      /\ port' = port \o q
  BY <1>1 DEF PostQuits
<1>3. Quits \in Nat
  BY ClientAssumption, FS_CardinalityType DEF Quits
<1>4. q \in Seq(Packets({user}, Kinds)) /\ Len(q) = Quits
  BY <1>1, <1>3 DEF Packets, Kinds
<1>5. \A i \in 1 .. Len(q) : q[i].op \notin Refs.kernel /\ q[i].op \notin Sends.kernel
  BY <1>1, <1>4 DEF Refs, Sends, Referring
<1>6. More(Refs, "quits", <<>>) = 0 /\ More(Sends, "quits", <<>>) = 0
  BY MoreNone, RefWeights, SendWeights
<1>7. PICK n : n = 0 /\ n \in Int /\ Counting(n)
  BY <1>2, CountingNone
<1>8. /\ Adds(Refs, {user}, {}, user, 0) /\ Adds(Sends, {user}, {}, user, 0)
      /\ SameIndex({user}, {}) /\ Flags({user})'
  BY <1>7, CountingAdds
<1>9. Slot(t) = user
  BY <1>2, ThreadAt
<1>10. Balanced(Refs, Threads, {user}, Kinds, {})
  BY <1>2, <1>4, <1>5, <1>6, <1>8, <1>9, QuitStep
<1>11. Balanced(Sends, Threads, {user}, Kinds, {})
  BY <1>2, <1>4, <1>5, <1>6, <1>8, <1>9, QuitStep
<1> QED BY <1>8, <1>10, <1>11, IInvStep
-----------------------------------------------------------------------------
LEMMA IInvNext == IInv /\ [Next]_vars => IInv'
<1> SUFFICES ASSUME IInv, [Next]_vars PROVE IInv'
  OBVIOUS
<1>1. ASSUME NEW t \in Threads, Step(t)  PROVE IInv'
  <2>1. CASE SessionStep(t)
    BY <2>1, SessionSteps, SendTestStep
  <2>2. CASE \/ SetFlag(t, "conn_set", TRUE) \/ SetSock(t) \/ ConnectRef(t) \/ Tell(t, "join")
             \/ DiscCAS(t) \/ Tell(t, "leave") \/ Drain(t) \/ Renew(t)
             \/ SetFlag(t, "conn_clear", FALSE)
             \/ Push(t) \/ PostQuits(t)
    BY <2>2, SetFlagStep, SetSockStep, ConnectRefStep, JoinStep, DiscCASStep, LeaveStep, DrainStep,
       RenewStep, ClearFlagStep, PushStep, PostQuitsStep
  <2> QED BY <1>1, <2>1, <2>2 DEF Step
<1>2. ASSUME NEW w \in Workers, CallbackThrows(w)  PROVE IInv'
  BY <1>2, ThrowStep DEF Threads
<1>3. ASSUME NEW c \in Conns, PeerLeaves(c)  PROVE IInv'
  BY <1>3, IInvStill DEF PeerLeaves
<1>4. CASE StopEnd
  BY <1>4, IInvStill DEF StopEnd, Crash, kernel
<1>5. CASE UNCHANGED vars
  BY <1>5, IInvStill DEF vars, sessionVars, kernel
<1> QED BY <1>1, <1>2, <1>3, <1>4, <1>5, CallBackStep, DequeueStep, BeginSteps, KernelSteps DEF Next

(* For every number of threads, connections and packets the client's        *)
(* iocpCount is the number of references and its sendFlag belongs to        *)
(* exactly one send, over every reconnection (LanClient.cpp:406-426).       *)
THEOREM CountsTheorem == Spec => []CountsExact
<1> QED BY IInvExact, IInvInit, IInvNext, PTL DEF Spec
=============================================================================
