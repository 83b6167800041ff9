----------------------------- MODULE IOCPServer -----------------------------
(***************************************************************************)
(* The session life cycle of IOCPServer (IOCPServer.h/.cpp): the accept    *)
(* thread, the worker threads on the completion port, and the application  *)
(* threads that call SendPacket and clientShutdown with session ids they   *)
(* learned in OnClientJoin and may keep after OnClientLeave.               *)
(*                                                                         *)
(* Sessions has the threads, the kernel and what sessions of every engine  *)
(* do.  The slot stack is external and atomic.                             *)
(***************************************************************************)
EXTENDS Sessions

CONSTANTS
  Workers,    \* the worker threads
  Users,      \* the application's threads
  Acceptor,   \* the accept thread
  Main,       \* the thread that calls Stop
  MaxClient,  \* slots of sessionArr
  Fragments,  \* how many packet halves one receive may bring
  MayStop,    \* whether the application calls Stop
  MaxCalls,   \* bound of the model: calls of SendPacket and clientShutdown
  MaxRecvs    \* bound of the model: receives that bring data

ASSUME ThreadsAssumption ==
  /\ Acceptor \notin Workers \cup Users
  /\ Main \notin Workers \cup Users \cup {Acceptor}
  /\ Workers \cap Users = {}
  /\ IsFiniteSet(Workers) /\ IsFiniteSet(Users)
ASSUME SizesAssumption ==
  /\ MaxClient \in Nat \ {0}
  /\ Fragments \subseteq {1, 2}
  /\ MayStop \in BOOLEAN
  /\ MaxCalls \in Nat /\ MaxRecvs \in Nat

VARIABLES
  indexStack,    \* the free slots
  netId,         \* the next session number
  clientCounter, \* connected clients
  stopping,      \* Stop was called: the listening socket is closed
  arg,           \* local: the id and the kind of the call a thread makes
  clientSock,    \* local of the accept thread: the connection just accepted
  idOf,          \* application: the id OnClientJoin gave for each connection
  left,          \* application: the ids OnClientLeave was called with, in order
  received,      \* application: what OnRecv was called with
  calls,         \* the calls made so far
  pushes,        \* the packets queued so far
  recvs          \* the receives that brought data so far

server == <<indexStack, netId, clientCounter, stopping>>
app == <<idOf, left, received, calls, pushes, recvs>>
serverVars == <<server, arg, clientSock, app>>
vars == <<sessionVars, serverVars>>

Threads == Workers \cup Users \cup {Acceptor, Main}
Slots == 0 .. MaxClient - 1

(* A session id: setID(index, netId).  Index 0 in a free slot is the id of  *)
(* slot 0 and session number 0.                                             *)
Id(s, n) == [slot |-> s, net |-> n]
NoId == Id(0, 0)

NoArg == [id |-> NoId, call |-> "none"]

EmptySession ==
  [Sock |-> NoSock, Index |-> NoId, sendFlag |-> 0, disconnectFlag |-> 0,
   sendCount |-> 0, sendDisconnectFlag |-> 0, sendPQCS |-> 0, iocpCount |-> 0,
   recvQ |-> <<>>, sendQ |-> <<>>, completeSendQ |-> <<>>]

-----------------------------------------------------------------------------
Init ==
  /\ sess = [s \in Slots |-> EmptySession]
  /\ indexStack = [i \in 1 .. MaxClient |-> MaxClient - i]
  /\ netId = 0
  /\ clientCounter = 0
  /\ stopping = FALSE
  /\ crashed = "no"
  /\ todo = [t \in Threads |-> <<>>]
  /\ arg = [t \in Threads |-> NoArg]
  /\ wbuf = [t \in Threads |-> <<>>]
  /\ clientSock = NoSock
  /\ sock = [c \in Conns |-> "backlog"]
  /\ peerGone = {}
  /\ pending = {}
  /\ port = <<>>
  /\ idOf = [c \in Conns |-> NoId]
  /\ left = <<>>
  /\ received = <<>>
  /\ wire = [c \in Conns |-> <<>>]
  /\ calls = 0
  /\ pushes = 0
  /\ recvs = 0
-----------------------------------------------------------------------------
(* Acquiring a session *)

(* The id and the call are not needed any more. *)
Forget(t) == arg' = [arg EXCEPT ![t] = NoArg]
OnlyArg == UNCHANGED <<server, clientSock, app>>

(* A mutant: LanServer's acquirLock, which keeps the reference (l.565-569). *)
RefuseKept == <<"disc_cas">>

(* acquirLock in vain: the reference is given back. *)
Refuse == <<"release">>

(* acquirLock(_Index), l.554: count first, look afterwards. *)
AcquireInc(t) ==
  LET s == Slot(t)
  IN  /\ At(t, "acquire")
      /\ sess' = [sess EXCEPT ![s].iocpCount = @ + 1]
      /\ IF sess[s].iocpCount = 0
         THEN Then(t, Refuse) /\ Forget(t)
         ELSE Then(t, <<"check_id">>) /\ UNCHANGED arg
      /\ OnlySession /\ OnlyArg

(* A mutant: l.561 forgotten. *)
AcquireAnyId(t) ==
  /\ At(t, "check_id")
  /\ Then(t, <<"check_flag">>)
  /\ UNCHANGED arg
  /\ OnlyThread /\ OnlyArg

AcquireCheckId(t) ==
  /\ At(t, "check_id")
  /\ IF sess[Slot(t)].Index # arg[t].id
     THEN Then(t, Refuse) /\ Forget(t)
     ELSE Then(t, <<"check_flag">>) /\ UNCHANGED arg
  /\ OnlyThread /\ OnlyArg

(* What the caller of acquirLock does with the session. *)
Body(call) ==
  CASE call = "shut" -> <<"flag", "shutdown", "release">>
    [] call = "send_cut" -> <<"push", "mark", "cut_now", "wake_test", "release">>
    [] OTHER -> <<"push", "wake_test", "release">>

AcquireCheckFlag(t) ==
  /\ At(t, "check_flag")
  /\ IF sess[Slot(t)].disconnectFlag = 1
     THEN Then(t, Refuse) /\ Forget(t)
     ELSE /\ Then(t, Body(arg[t].call))
          /\ IF arg[t].call = "shut" THEN Forget(t) ELSE UNCHANGED arg
  /\ OnlyThread /\ OnlyArg
-----------------------------------------------------------------------------
(* disconnect of a session *)

(* l.511 *)
DiscCAS(t) == TakeFlag(t, <<"disc_count">>)

(* A mutant: the packets of the queues are not freed (l.518-532 forgotten). *)
TeardownUndrained == <<"leave", "test_id", "reclaim", "push_slot">>

(* l.515-539 *)
Teardown == <<"leave", "drain", "test_id", "reclaim", "push_slot">>

(* l.513 *)
DiscCount(t) == Test(t, "disc_count", LAMBDA ss : ss.iocpCount = 0, Teardown)

Leave(t) ==
  /\ At(t, "leave")
  /\ left' = Append(left, sess[Slot(t)].Index)
  /\ clientCounter' = clientCounter - 1
  /\ Then(t, <<>>)
  /\ OnlyThread
  /\ UNCHANGED <<indexStack, netId, stopping, arg, clientSock, idOf, received, calls,
                 pushes, recvs>>

Drain(t) ==
  Update(t, "drain",
         LAMBDA ss : [ss EXCEPT !.sendCount = 0, !.completeSendQ = <<>>, !.sendQ = <<>>], <<>>)

(* l.533-535: a slot that is already free here is an error in the program. *)
TestId(t) ==
  /\ At(t, "test_id")
  /\ IF sess[Slot(t)].Index.slot = 0 THEN Crash("teardown")
     ELSE Then(t, <<>>) /\ OnlyThread

(* l.536-538 *)
Reclaim(t) ==
  /\ At(t, "reclaim")
  /\ sock' = [c \in Conns |-> IF c = sess[Slot(t)].Sock THEN "closed" ELSE sock[c]]
  /\ sess' = [sess EXCEPT ![Slot(t)].Sock = NoSock, ![Slot(t)].Index = NoId]
  /\ Then(t, <<>>)
  /\ UNCHANGED <<wbuf, crashed, peerGone, pending, port, wire>>

PushSlot(t) ==
  /\ At(t, "push_slot")
  /\ indexStack' = <<Slot(t)>> \o indexStack
  /\ Then(t, <<>>)
  /\ OnlyThread
  /\ UNCHANGED <<netId, clientCounter, stopping, arg, clientSock, app>>
-----------------------------------------------------------------------------
(* Receiving *)

(* The packets complete in recvQ: a packet is two halves, each marked with  *)
(* the connection it came from.                                             *)
Whole(s) == [i \in 1 .. Len(sess[s].recvQ) \div 2 |->
               [id |-> sess[s].Index, data |-> SubSeq(sess[s].recvQ, 2 * i - 1, 2 * i)]]

(* completeRecv: the complete packets go to OnRecv, l.443-466.  One made of *)
(* two connections' bytes does not decode, l.455-458.                       *)
OnRecv(t) ==
  LET s == Slot(t)
      packets == Whole(s)
  IN  /\ At(t, "on_recv")
      /\ IF \E i \in 1 .. Len(packets) : packets[i].data[1] # packets[i].data[2]
         THEN Crash("decode") /\ UNCHANGED serverVars
         ELSE /\ sess' = [sess EXCEPT ![s].recvQ = SubSeq(@, 2 * Len(packets) + 1, Len(@))]
              /\ received' = received \o packets
              /\ Then(t, <<>>)
              /\ OnlySession
              /\ UNCHANGED <<server, arg, clientSock, idOf, left, calls, pushes, recvs>>
-----------------------------------------------------------------------------
(* Sending *)

(* l.492: after sendFlag was given up. *)
CountReset(t) == Update(t, "count_reset", LAMBDA ss : [ss EXCEPT !.sendCount = 0], <<>>)

(* The thread calls clientShutdown(ss->Index). *)
CallShutdown(t, s) ==
  /\ arg' = [arg EXCEPT ![t].id = sess[s].Index, ![t].call = "shut"]
  /\ todo' = [todo EXCEPT ![t] = <<Frame("acquire", sess[s].Index.slot)>> \o Tail(@)]

(* l.494: everything was sent ... *)
CutTest(t) == Test(t, "cut_test", LAMBDA ss : ss.sendQ = <<>>, <<"cut_flag">>)

(* ... and the session is to be cut. *)
CutFlag(t) == Test(t, "cut_flag", LAMBDA ss : ss.sendDisconnectFlag = 1, <<"cut_cas">>)

(* l.496-497 *)
CutCAS(t) ==
  /\ At(t, "cut_cas")
  /\ IF sess[Slot(t)].disconnectFlag = 0
     THEN /\ sess' = [sess EXCEPT ![Slot(t)].disconnectFlag = 1]
          /\ CallShutdown(t, Slot(t))
     ELSE Then(t, <<>>) /\ UNCHANGED <<sess, arg>>
  /\ OnlySession /\ OnlyArg
-----------------------------------------------------------------------------
(* SendPacket, with the session acquired *)

(* l.159: a packet for the session id the caller named. *)
Push(t) ==
  /\ At(t, "push")
  /\ sess' = [sess EXCEPT ![Slot(t)].sendQ = Append(@, [to |-> arg[t].id, no |-> pushes])]
  /\ pushes' = pushes + 1
  /\ Then(t, <<>>)
  /\ Forget(t)
  /\ OnlySession
  /\ UNCHANGED <<server, clientSock, idOf, left, received, calls, recvs>>

(* l.163 *)
Mark(t) == Update(t, "mark", LAMBDA ss : [ss EXCEPT !.sendDisconnectFlag = 1], <<>>)

(* l.164-165 *)
CutNow(t) ==
  /\ At(t, "cut_now")
  /\ IF sess[Slot(t)].sendQ = <<>>
     THEN CallShutdown(t, Slot(t))
     ELSE Then(t, <<>>) /\ UNCHANGED arg
  /\ OnlyThread /\ OnlyArg

(* l.168: nobody sends, ... *)
WakeTest(t) == Test(t, "wake_test", LAMBDA ss : ss.sendFlag = 0, <<"wake_look">>)

(* ... and nobody was asked to. *)
WakeLook(t) == Test(t, "wake_look", LAMBDA ss : ss.sendPQCS = 0, <<"wake_cas">>)

(* l.170-173: a worker is asked to send, by PostQueuedCompletionStatus. *)
WakeCAS(t) ==
  LET s == Slot(t)
  IN  /\ At(t, "wake_cas")
      /\ IF sess[s].sendPQCS = 0
         THEN /\ sess' = [sess EXCEPT ![s].sendPQCS = 1, ![s].iocpCount = @ + 1]
              /\ port' = Append(port, [s |-> s, op |-> "pqcs", trans |-> 0])
         ELSE UNCHANGED <<sess, port>>
      /\ Then(t, <<>>)
      /\ UNCHANGED <<wbuf, crashed, sock, peerGone, pending, wire>>
-----------------------------------------------------------------------------
(* The accept thread *)

(* l.195-208: OnConnectionRequest may refuse the client. *)
Accept(c) ==
  /\ Idle(Acceptor)
  /\ ~stopping
  /\ sock[c] = "backlog"
  /\ \/ /\ clientCounter # MaxClient
        /\ sock' = [sock EXCEPT ![c] = "open"]
        /\ todo' = [todo EXCEPT ![Acceptor] = <<Frame("pop_slot", 0)>>]
        /\ clientSock' = c
     \/ /\ sock' = [sock EXCEPT ![c] = "closed"]
        /\ UNCHANGED <<todo, clientSock>>
  /\ UNCHANGED <<sess, wbuf, crashed, peerGone, pending, port, wire, server, arg, app>>

(* A mutant: the session is announced after its first receive is posted.    *)
NewSessionJoinLate ==
  <<"insert", "insert_flags", "insert_ref", "callback", "join">>

(* l.282-290 and 211-219: with the slot found. *)
NewSession ==
  <<"insert", "insert_flags", "insert_ref", "join", "callback">>

(* l.275-280: pop leaves index uninitialised when the stack is empty. *)
PopSlot(t) ==
  /\ At(t, "pop_slot")
  /\ IF indexStack = <<>> THEN Crash("no_slot") /\ UNCHANGED serverVars
     ELSE IF Head(indexStack) = 0 THEN Crash("slot_0") /\ UNCHANGED serverVars
     ELSE /\ indexStack' = Tail(indexStack)
          /\ todo' = [todo EXCEPT ![t] = Frames(NewSession, Head(indexStack)) \o Tail(@)]
          /\ OnlyThread
          /\ UNCHANGED <<netId, clientCounter, stopping, arg, clientSock, app>>

(* A mutant: l.283 forgotten. *)
SameNetId == netId

NextNetId == netId + 1

(* l.282-284 *)
Insert(t) ==
  /\ At(t, "insert")
  /\ sess' = [sess EXCEPT ![Slot(t)].Index = Id(Slot(t), netId),
                          ![Slot(t)].Sock = clientSock]
  /\ netId' = NextNetId
  /\ clientSock' = NoSock
  /\ Then(t, <<>>)
  /\ OnlySession
  /\ UNCHANGED <<indexStack, clientCounter, stopping, arg, app>>

(* l.286-287: the other fields keep what the slot's last session left. *)
InsertFlags(t) ==
  Update(t, "insert_flags", LAMBDA ss : [ss EXCEPT !.sendFlag = 0, !.disconnectFlag = 0], <<>>)

(* l.288 *)
InsertRef(t) == Update(t, "insert_ref", LAMBDA ss : [ss EXCEPT !.iocpCount = @ + 1], <<>>)

(* l.211-213: OnClientJoin tells the application the id. *)
Join(t) ==
  /\ At(t, "join")
  /\ clientCounter' = clientCounter + 1
  /\ idOf' = [c \in Conns |-> IF c = sess[Slot(t)].Sock THEN sess[Slot(t)].Index ELSE idOf[c]]
  /\ Then(t, <<>>)
  /\ OnlyThread
  /\ UNCHANGED <<indexStack, netId, stopping, arg, clientSock, left, received, calls,
                 pushes, recvs>>
-----------------------------------------------------------------------------
(* The worker threads *)

(* What completion packets make a worker do (l.250-266): a request to send, *)
OnRequest == <<"post_test", "pqcs_dec", "pqcs_test", "release">>

(* a receive with data, *)
OnData == <<"on_recv", "callback">>

(* and a send that is done. *)
OnSent == <<"free_sent", "flag_dec", "count_reset", "cut_test", "post_test", "release">>

Handler(e) ==
  CASE e.op = "pqcs" -> OnRequest
    [] e.op = "recv" /\ e.trans > 0 -> OnData
    [] e.op = "recv" /\ e.trans = 0 -> OnBroken
    [] e.op = "send" /\ e.trans > 0 -> OnSent
    [] e.op = "send" /\ e.trans = 0 -> <<"flag_dec">> \o OnBroken
    [] e.op = "quit" -> <<"exited">>

Dequeue(w) == TakePacket(w, Handler(Head(port))) /\ UNCHANGED serverVars

(* l.255 *)
PqcsDec(t) == Update(t, "pqcs_dec", LAMBDA ss : [ss EXCEPT !.sendPQCS = @ - 1], <<>>)

(* l.256 *)
PqcsTest(t) == Test(t, "pqcs_test", LAMBDA ss : ss.sendFlag = 0, <<"pqcs_queue">>)

(* l.256-257: the send is repeated if the queue is EMPTY. *)
PqcsQueue(t) == Test(t, "pqcs_queue", LAMBDA ss : ss.sendQ = <<>>, <<"post_test">>)
-----------------------------------------------------------------------------
(* The application *)

(* The call of SendPacket or clientShutdown for a session id. *)
Request(t, id) ==
  /\ calls < MaxCalls
  /\ calls' = calls + 1
  /\ \E call \in {"send", "send_cut", "shut"} :
       arg' = [arg EXCEPT ![t] = [id |-> id, call |-> call]]
  /\ OnlyThread
  /\ UNCHANGED <<server, clientSock, idOf, left, received, pushes, recvs>>

(* An application thread uses any id it was told of. *)
Call(u) ==
  /\ Idle(u)
  /\ ~stopping
  /\ \E c \in Conns :
       /\ idOf[c] # NoId
       /\ todo' = [todo EXCEPT ![u] = <<Frame("acquire", idOf[c].slot)>>]
       /\ Request(u, idOf[c])

(* OnClientJoin and OnRecv may make calls for the session they are for, and *)
(* return (CallbackEnds).  What they do for other sessions is as in Call.   *)
CallBack(t) ==
  /\ At(t, "callback")
  /\ todo' = [todo EXCEPT ![t] = <<Frame("acquire", sess[Slot(t)].Index.slot)>> \o @]
  /\ Request(t, sess[Slot(t)].Index)

-----------------------------------------------------------------------------
(* Stopping *)

(* Stop, l.98-113: shutdown and disconnect of every slot in turn; free      *)
(* slots too, INVALID_SOCKET is not NULL.  The application has no call      *)
(* under way, as Stop deletes the sessions.                                 *)
StopBegin ==
  /\ MayStop
  /\ Idle(Main)
  /\ ~stopping
  /\ \A u \in Users : Idle(u)
  /\ stopping' = TRUE
  /\ todo' = [todo EXCEPT ![Main] =
       StopSlots(MaxClient) \o Frames(<<"post_quit", "wait">>, 0)]
  /\ OnlyThread
  /\ UNCHANGED <<indexStack, netId, clientCounter, arg, clientSock, app>>

(* A mutant: LanServer posts to the thread handles, not to the port. *)
QuitElsewhere == <<>>

QuitPackets == [i \in 1 .. Cardinality(Workers) |-> [s |-> 0, op |-> "quit", trans |-> 0]]

(* l.117-120: one quit packet for each worker. *)
PostQuit(t) ==
  /\ At(t, "post_quit")
  /\ port' = port \o QuitPackets
  /\ Then(t, <<>>)
  /\ UNCHANGED <<sess, wbuf, crashed, sock, peerGone, pending, wire>>

(* l.124-132: when every thread has ended the sessions are deleted. *)
Wait(t) ==
  /\ At(t, "wait")
  /\ todo[Acceptor] = <<>>
  /\ \A w \in Workers : At(w, "exited")
  /\ Then(t, <<"exited">>)
  /\ OnlyThread
-----------------------------------------------------------------------------
(* A receive brings one or two halves of a packet, straight into recvQ. *)
RecvData(p) ==
  /\ p.op = "recv" /\ Usable(p.c)
  /\ recvs < MaxRecvs
  /\ recvs' = recvs + 1
  /\ \E k \in Fragments :
       /\ Complete(p, k)
       /\ sess' = [sess EXCEPT ![p.s].recvQ = @ \o [i \in 1 .. k |-> p.c]]
  /\ UNCHANGED <<server, arg, clientSock, idOf, left, received, calls, pushes>>

(* The steps of a thread that change nothing but its session and the kernel, *)
SessionStep(t) ==
  \/ Release(t) \/ Flag(t) \/ Shutdown(t)
  \/ DiscCAS(t) \/ DiscCount(t) \/ Drain(t) \/ TestId(t) \/ Reclaim(t)
  \/ RecvPost(t)
  \/ PostTest(t) \/ PostCAS(t) \/ PostFill(t) \/ PostUnset(t) \/ WSASend(t)
  \/ SendFailed(t) \/ FreeSent(t) \/ FlagDec(t) \/ CountReset(t)
  \/ CutTest(t) \/ CutFlag(t) \/ Mark(t) \/ WakeTest(t) \/ WakeLook(t) \/ WakeCAS(t)
  \/ InsertFlags(t) \/ InsertRef(t)
  \/ PqcsDec(t) \/ PqcsTest(t) \/ PqcsQueue(t)
  \/ CallbackEnds(t) \/ PostQuit(t) \/ Wait(t)

(* and all: a thread goes on with what it has to do. *)
Step(t) ==
  /\ ~Idle(t)
  /\ \/ SessionStep(t) /\ UNCHANGED serverVars
     \/ AcquireInc(t) \/ AcquireCheckId(t) \/ AcquireCheckFlag(t)
     \/ Leave(t) \/ PushSlot(t) \/ OnRecv(t) \/ CutCAS(t) \/ Push(t) \/ CutNow(t)
     \/ PopSlot(t) \/ Insert(t) \/ Join(t)

Kernel ==
  \/ \E p \in pending : RecvData(p)
  \/ \E p \in pending : (SendDone(p) \/ ZeroBytes(p)) /\ UNCHANGED serverVars

Next ==
  \/ \E t \in Threads : Step(t) \/ CallBack(t)
  \/ \E c \in Conns : Accept(c)
  \/ \E c \in Conns : PeerLeaves(c) /\ UNCHANGED serverVars
  \/ \E w \in Workers : Dequeue(w)
  \/ \E u \in Users : Call(u)
  \/ StopBegin
  \/ Kernel

Spec == Init /\ [][Next]_vars

(* Threads inside a function go on, idle workers take packets from the      *)
(* port, and the kernel completes what can only complete with 0 bytes.      *)
FairSpec ==
  /\ Spec
  /\ \A t \in Threads : WF_vars(Step(t))
  /\ WF_vars(\E w \in Workers : Dequeue(w))
  /\ WF_vars(\E p \in pending : (ZeroBytes(p) \/ SendDone(p)) /\ UNCHANGED serverVars)
=============================================================================
