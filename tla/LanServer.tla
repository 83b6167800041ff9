------------------------------ MODULE LanServer ------------------------------
(***************************************************************************)
(* LanServer (LanServer.h/.cpp), the engine for other servers of the same  *)
(* game.  It is IOCPServer with other rules: packets are sent from the     *)
(* thread that queues them and stay in sendQ until they are sent; who      *)
(* finds disconnectFlag set tears the session down at once, and keeps the  *)
(* reference it counted; a callback that throws ends the receiving; Stop   *)
(* posts its quit packets to the threads' handles, not to the port.        *)
(*                                                                         *)
(* A receive brings one whole packet here; RecvQueue has the bytes.        *)
(***************************************************************************)
EXTENDS Sessions

CONSTANTS
  Workers,    \* the worker threads
  Users,      \* the application's threads
  Acceptor,   \* the accept thread
  Main,       \* the thread that calls Stop
  maxCounter, \* slots of sessionArry
  MaxInputs   \* bound of the model: calls of SendPacket and clientShutdown,
              \* and receives that bring data

ASSUME LanAssumption ==
  /\ Acceptor \notin Workers \cup Users
  /\ Main \notin Workers \cup Users \cup {Acceptor}
  /\ Workers \cap Users = {}
  /\ IsFiniteSet(Workers) /\ IsFiniteSet(Users)
  /\ maxCounter \in Nat \ {0}
  /\ MaxInputs \in Nat

VARIABLES
  indexStack,       \* the free slots
  lanId,            \* the next session number
  LANclientCounter, \* connected clients
  stopping,         \* Stop was called
  arg,              \* local: the id and the kind of the call a thread makes
  clientSock,       \* local of the accept thread
  idOf,             \* application: the id onClientJoin gave for each connection
  left,             \* application: the ids onClientLeave was called with
  kept,             \* history: references nobody gives back
  early,            \* history: slots torn down while references were counted, or
                    \* whose session a caller got when it was too late
  inputs, pushes    \* calls and receives, packets queued so far

lan == <<indexStack, lanId, LANclientCounter, stopping, arg, clientSock, idOf, left,
         kept, early, inputs, pushes>>
vars == <<sessionVars, lan>>

Threads == Workers \cup Users \cup {Acceptor, Main}
Slots == 0 .. maxCounter - 1

(* The id of slot 0 and session number 0 is that of a free slot. *)
Id(s, n) == [slot |-> s, net |-> n]
NoId == Id(0, 0)
NoArg == [id |-> NoId, call |-> "none"]

EmptySession ==
  [Sock |-> NoSock, Index |-> NoId, sendFlag |-> 0, disconnectFlag |-> 0,
   sendCount |-> 0, iocpCount |-> 0, sendQ |-> <<>>]

(* Nothing sets iocpCount: its first value is what the memory held.  A      *)
(* value that is not 0 is a reference that nobody gives back.               *)
FirstCount == {0, 1}

(* Start, l.76-90 *)
Init ==
  /\ \E n \in FirstCount :
       /\ sess = [s \in Slots |-> [EmptySession EXCEPT !.iocpCount = n]]
       /\ kept = [s \in Slots |-> n]
  /\ indexStack = [i \in 1 .. maxCounter |-> maxCounter - i]
  /\ lanId = 0
  /\ LANclientCounter = 0
  /\ stopping = FALSE
  /\ todo = [t \in Threads |-> <<>>]
  /\ arg = [t \in Threads |-> NoArg]
  /\ wbuf = [t \in Threads |-> <<>>]
  /\ clientSock = NoSock
  /\ crashed = "no"
  /\ sock = [c \in Conns |-> "backlog"]
  /\ peerGone = {} /\ pending = {} /\ port = <<>>
  /\ wire = [c \in Conns |-> <<>>]
  /\ idOf = [c \in Conns |-> NoId]
  /\ left = <<>> /\ early = {}
  /\ inputs = 0 /\ pushes = 0
-----------------------------------------------------------------------------
(* SendPacket and clientShutdown *)

Forget(t) == arg' = [arg EXCEPT ![t] = NoArg]
OnlyArg == UNCHANGED <<indexStack, lanId, LANclientCounter, stopping, clientSock, idOf, left,
                       kept, early, inputs, pushes>>

(* acquirLock, l.551: count first, look afterwards. *)
AcquireInc(t) ==
  /\ At(t, "acquire")
  /\ sess' = [sess EXCEPT ![Slot(t)].iocpCount = @ + 1]
  /\ IF sess[Slot(t)].iocpCount = 0
     THEN Then(t, <<"release">>) /\ Forget(t)
     ELSE Then(t, <<"check_id">>) /\ UNCHANGED arg
  /\ OnlySession /\ OnlyArg

AcquireCheckId(t) ==
  /\ At(t, "check_id")
  /\ IF sess[Slot(t)].Index # arg[t].id
     THEN Then(t, <<"release">>) /\ Forget(t)
     ELSE Then(t, <<"check_flag">>) /\ UNCHANGED arg
  /\ OnlyThread /\ OnlyArg

(* What the caller of acquirLock does with the session. *)
Body(call) ==
  IF call = "shut" THEN <<"flag", "shutdown", "release">> ELSE <<"push", "send_test", "release">>

(* Frames of a thread that tears the slot down. *)
TeardownOps == {"leave", "drain", "reclaim"}
Tearing(t, s) == Count(t, TeardownOps, s) > 0

(* l.565-569: the session is torn down under those who use it.  A caller    *)
(* gets past the flag also while the session is torn down, or later, when   *)
(* the references of other callers were counted.                            *)
AcquireCheckFlag(t) ==
  LET s == Slot(t)
      late == sess[s].Index # arg[t].id \/ \E u \in Threads : Tearing(u, s)
  IN  /\ At(t, "check_flag")
      /\ IF sess[s].disconnectFlag = 1
         THEN /\ Then(t, <<"disc_cas">>) /\ Forget(t)
              /\ kept' = [kept EXCEPT ![s] = @ + 1]
              /\ UNCHANGED early
         ELSE /\ Then(t, Body(arg[t].call)) /\ UNCHANGED kept
              /\ IF arg[t].call = "shut" THEN Forget(t) ELSE UNCHANGED arg
              /\ early' = IF late THEN early \cup {s} ELSE early
      /\ OnlyThread
      /\ UNCHANGED <<indexStack, lanId, LANclientCounter, stopping, clientSock, idOf, left,
                     inputs, pushes>>

(* l.161-163 *)
Push(t) ==
  /\ At(t, "push")
  /\ sess' = [sess EXCEPT ![Slot(t)].sendQ = Append(@, [to |-> arg[t].id, no |-> pushes])]
  /\ pushes' = pushes + 1
  /\ Forget(t)
  /\ Then(t, <<>>)
  /\ OnlySession
  /\ UNCHANGED <<indexStack, lanId, LANclientCounter, stopping, clientSock, idOf, left,
                 kept, early, inputs>>

(* l.165: the caller sends itself. *)
SendTest(t) == Test(t, "send_test", LAMBDA ss : ss.sendFlag = 0, <<"post_test">>)
-----------------------------------------------------------------------------
(* disconnect, l.514-516, without a look at iocpCount *)

Teardown == <<"leave", "drain", "reclaim">>
DiscCAS(t) ==
  LET ss == sess[Slot(t)]
  IN  /\ TakeFlag(t, Teardown)
      /\ early' = IF ss.disconnectFlag = 1 /\ ss.iocpCount > 0
                  THEN early \cup {Slot(t)} ELSE early
      /\ UNCHANGED <<indexStack, lanId, LANclientCounter, stopping, arg, clientSock, idOf,
                     left, kept, inputs, pushes>>

(* l.518-521; after shutdown(Sock). *)
Leave(t) ==
  /\ At(t, "leave")
  /\ ShutSock(sess[Slot(t)].Sock)
  /\ left' = Append(left, sess[Slot(t)].Index)
  /\ LANclientCounter' = LANclientCounter - 1
  /\ Then(t, <<>>)
  /\ UNCHANGED <<sess, wbuf, crashed, peerGone, pending, port, wire>>
  /\ UNCHANGED <<indexStack, lanId, stopping, arg, clientSock, idOf, kept, early,
                 inputs, pushes>>

Drain(t) == Update(t, "drain", LAMBDA ss : [ss EXCEPT !.sendQ = <<>>], <<>>)

(* l.529-532; the slot to be pushed is that of the id found. *)
Reclaim(t) ==
  LET ss == sess[Slot(t)]
  IN  /\ At(t, "reclaim")
      /\ sock' = [c \in Conns |-> IF c = ss.Sock THEN "closed" ELSE sock[c]]
      /\ sess' = [sess EXCEPT ![Slot(t)].Sock = NoSock, ![Slot(t)].Index = NoId]
      /\ todo' = [todo EXCEPT ![t] = <<Frame("push_slot", ss.Index.slot)>> \o Tail(@)]
      /\ UNCHANGED <<wbuf, crashed, peerGone, pending, port, wire>>

(* l.533 *)
PushSlot(t) ==
  /\ At(t, "push_slot")
  /\ indexStack' = <<Slot(t)>> \o indexStack
  /\ Then(t, <<>>)
  /\ OnlyThread
  /\ UNCHANGED <<lanId, LANclientCounter, stopping, arg, clientSock, idOf, left, kept, early,
                 inputs, pushes>>
-----------------------------------------------------------------------------
(* sendPost and completeSend: packets stay in sendQ (PeekFill) until they are sent *)

(* A mutant: one packet too few is taken off. *)
SentLess(n) == n - 1

Sent(n) == n

(* l.490-498: as many packets are taken off as were sent.  The loop spins   *)
(* when there are fewer.                                                    *)
DequeueSent(t) ==
  LET n == sess[Slot(t)].sendCount
  IN  /\ At(t, "free_sent")
      /\ Len(sess[Slot(t)].sendQ) >= n
      /\ Update(t, "free_sent",
                LAMBDA ss : [ss EXCEPT !.sendQ = SubSeq(@, Sent(n) + 1, Len(@))], <<>>)
-----------------------------------------------------------------------------
(* The accept thread *)

(* l.189-198 *)
Accept(c) ==
  /\ Idle(Acceptor)
  /\ ~stopping
  /\ sock[c] = "backlog"
  /\ IF LANclientCounter # maxCounter
     THEN /\ sock' = [sock EXCEPT ![c] = "open"]
          /\ todo' = [todo EXCEPT ![Acceptor] = <<Frame("pop_slot", 0)>>]
          /\ clientSock' = c
     ELSE /\ sock' = [sock EXCEPT ![c] = "closed"]
          /\ UNCHANGED <<todo, clientSock>>
  /\ UNCHANGED <<sess, wbuf, crashed, peerGone, pending, port, wire>>
  /\ UNCHANGED <<indexStack, lanId, LANclientCounter, stopping, arg, idOf, left, kept, early,
                 inputs, pushes>>

(* A mutant: the reference of insertSession is forgotten (l.290). *)
NewSessionUncounted == <<"insert", "insert_flag", "join", "callback">>

NewSession ==
  <<"insert", "insert_ref", "insert_flag", "join", "callback">>

(* l.279-282: pop leaves index uninitialised when the stack is empty. *)
PopSlot(t) ==
  /\ At(t, "pop_slot")
  /\ IF indexStack = <<>>
     THEN Crash("no_slot") /\ UNCHANGED indexStack
     ELSE /\ indexStack' = Tail(indexStack)
          /\ todo' = [todo EXCEPT ![t] = Frames(NewSession, Head(indexStack)) \o Tail(@)]
          /\ OnlyThread
  /\ UNCHANGED <<lanId, LANclientCounter, stopping, arg, clientSock, idOf, left, kept, early,
                 inputs, pushes>>

(* l.284-289 *)
Insert(t) ==
  /\ At(t, "insert")
  /\ sess' = [sess EXCEPT ![Slot(t)].Index = Id(Slot(t), lanId),
                          ![Slot(t)].Sock = clientSock,
                          ![Slot(t)].sendFlag = 0]
  /\ lanId' = lanId + 1
  /\ clientSock' = NoSock
  /\ Then(t, <<>>)
  /\ OnlySession
  /\ UNCHANGED <<indexStack, LANclientCounter, stopping, arg, idOf, left, kept, early, 
                 inputs, pushes>>

(* l.290 and, after it, l.291 *)
InsertRef(t) == Update(t, "insert_ref", LAMBDA ss : [ss EXCEPT !.iocpCount = @ + 1], <<>>)
InsertFlag(t) == Update(t, "insert_flag", LAMBDA ss : [ss EXCEPT !.disconnectFlag = 0], <<>>)

(* l.206-207 *)
Join(t) ==
  /\ At(t, "join")
  /\ LANclientCounter' = LANclientCounter + 1
  /\ idOf' = [c \in Conns |-> IF c = sess[Slot(t)].Sock THEN sess[Slot(t)].Index ELSE idOf[c]]
  /\ Then(t, <<>>)
  /\ OnlyThread
  /\ UNCHANGED <<indexStack, lanId, stopping, arg, clientSock, left, kept, early, inputs,
                 pushes>>
-----------------------------------------------------------------------------
(* The workers and the application *)

(* completeRecv with data: onRecv, and the next receive, l.449-473 *)
OnData == <<"callback">>

(* completeSend, l.488-501 *)
OnSent == <<"free_sent", "flag_dec", "post_test", "release">>

(* l.229-253; no quit packet comes to the port. *)
Handler(e) ==
  IF e.trans = 0
  THEN IF e.op = "send" THEN <<"flag_dec">> \o OnBroken ELSE OnBroken
  ELSE IF e.op = "send" THEN OnSent ELSE OnData

Dequeue(w) == TakePacket(w, Handler(Head(port))) /\ UNCHANGED lan

Request(t, id) ==
  /\ inputs < MaxInputs
  /\ inputs' = inputs + 1
  /\ \E call \in {"send", "shut"} : arg' = [arg EXCEPT ![t] = [id |-> id, call |-> call]]
  /\ OnlyThread
  /\ UNCHANGED <<indexStack, lanId, LANclientCounter, stopping, clientSock, idOf, left,
                 kept, early, pushes>>

(* An application thread uses any id it was told of, a callback its own. *)
Call(u) ==
  /\ Idle(u)
  /\ ~stopping
  /\ \E c \in Conns :
       /\ idOf[c] # NoId
       /\ todo' = [todo EXCEPT ![u] = <<Frame("acquire", idOf[c].slot)>>]
       /\ Request(u, idOf[c])

CallBack(t) ==
  /\ At(t, "callback")
  /\ todo' = [todo EXCEPT ![t] = <<Frame("acquire", sess[Slot(t)].Index.slot)>> \o @]
  /\ Request(t, sess[Slot(t)].Index)

(* A mutant: the exception ends the worker's round, without l.249. *)
AfterThrowKept == <<>>

AfterThrow == <<"release">>

(* l.466-471: onRecv throws, as operator>> does on a short packet. *)
CallbackThrows(w) ==
  /\ At(w, "callback")
  /\ Then(w, AfterThrow)
  /\ OnlyThread
  /\ UNCHANGED lan

(* Stop, l.112-136: it disconnects every slot, and waits for workers that   *)
(* nobody told to end.                                                      *)
StopBegin ==
  /\ Idle(Main)
  /\ ~stopping
  /\ stopping' = TRUE
  /\ todo' = [todo EXCEPT ![Main] =
       StopSlots(maxCounter) \o Frames(<<"wait">>, 0)]
  /\ OnlyThread
  /\ UNCHANGED <<indexStack, lanId, LANclientCounter, arg, clientSock, idOf, left, kept, early,
                 inputs, pushes>>

(* tpsThread, l.264-266; it may have looked at quit (l.264) before Stop.    *)
TpsCheck ==
  /\ crashed = "no"
  /\ LANclientCounter < 0
  /\ Crash("counter")
  /\ UNCHANGED lan

RecvData(p) ==
  /\ p.op = "recv" /\ Usable(p.c)
  /\ inputs < MaxInputs
  /\ inputs' = inputs + 1
  /\ Complete(p, 1)
  /\ UNCHANGED <<sess, indexStack, lanId, LANclientCounter, stopping, arg, clientSock,
                 idOf, left, kept, early, pushes>>
-----------------------------------------------------------------------------
(* sendPost, with the steps it shares with IOCPServer's, l.367-434 *)
SendPost(t) ==
  PostTest(t) \/ PostCAS(t) \/ PeekFill(t) \/ PostUnset(t) \/ WSASend(t) \/ SendFailed(t)

(* The steps that change nothing but the session and the kernel, *)
SessionStep(t) ==
  \/ Release(t) \/ Flag(t) \/ Shutdown(t) \/ RecvPost(t) \/ PostAgain(t)
  \/ Drain(t) \/ Reclaim(t)
  \/ SendTest(t) \/ SendPost(t) \/ DequeueSent(t) \/ FlagDec(t)
  \/ InsertRef(t) \/ InsertFlag(t) \/ CallbackEnds(t)

Step(t) ==
  /\ ~Idle(t)
  /\ \/ SessionStep(t) /\ UNCHANGED lan
     \/ AcquireInc(t) \/ AcquireCheckId(t) \/ AcquireCheckFlag(t) \/ Push(t)
     \/ DiscCAS(t) \/ Leave(t) \/ PushSlot(t)
     \/ PopSlot(t) \/ Insert(t) \/ Join(t)

KernelStep(p) == (SendDone(p) \/ ZeroBytes(p)) /\ UNCHANGED lan

Next ==
  \/ \E t \in Threads : Step(t) \/ CallBack(t)
  \/ \E w \in Workers : Dequeue(w) \/ CallbackThrows(w)
  \/ \E u \in Users : Call(u)
  \/ \E c \in Conns : Accept(c) \/ (PeerLeaves(c) /\ UNCHANGED lan)
  \/ \E p \in pending : RecvData(p) \/ KernelStep(p)
  \/ StopBegin
  \/ TpsCheck

Spec == Init /\ [][Next]_vars
-----------------------------------------------------------------------------
(* The properties *)

(* iocpCount is the references threads hold, the operations in flight and   *)
(* what acquirLock kept: every path of every handler that counts a          *)
(* reference, l.290, 344, 410, 551, gives it back once, also after a failed *)
(* call, a callback that throws, a lock that was refused or a session taken *)
(* away meanwhile; the early return of l.565-569 is the only one that does  *)
(* not.                                                                     *)
RefCountExact ==
  \A s \in Slots :
    sess[s].iocpCount = References(todo, pending, port, s) + kept[s]

(* onClientLeave is called once for an id, and for none before its          *)
(* onClientJoin (l.206-207, 519): LANclientCounter, which the accept thread *)
(* compares with the limit, counts the sessions there are.                  *)
LeaveOnce ==
  early = {} =>
    /\ IsInjective(left)
    /\ ToSet(left) \subseteq {idOf[c] : c \in Conns}
    /\ LANclientCounter = Cardinality({c \in Conns : idOf[c] # NoId}) - Len(left)

(* The packets of a WSASend in flight are the first of sendQ, and           *)
(* sendCount says how many: l.389-403 leave them there so that completeSend *)
(* (l.490-498) takes off the same ones, although senders and other threads  *)
(* that queue packets run in between.                                       *)
InFlightQueued ==
  early = {} =>
    \A p \in pending :
      p.op = "send" =>
        IsPrefix(p.msgs, sess[p.s].sendQ) /\ Len(p.msgs) = sess[p.s].sendCount

(* A connection carries the packets queued for it (l.161-163, 389-411), in   *)
(* their order and, until it breaks, none twice, as long as no slot was     *)
(* torn down too early.                                                     *)
OwnPackets ==
  early = {} =>
    \A c \in Conns : \A i \in 1 .. Len(wire[c]) :
      /\ wire[c][i].to = idOf[c]
      /\ i > 1 /\ Usable(c) => wire[c][i - 1].no < wire[c][i].no

UseOps == {"flag", "shutdown", "recv_post", "post_test", "post_cas", "post_fill",
           "post_unset", "wsa_send", "send_failed", "free_sent", "flag_dec", "push",
           "send_test", "callback"}
Using(t, s) == t # Main /\ Count(t, UseOps, s) > 0

(* While a thread tears a session down (l.516-533), no other does, no       *)
(* thread uses it and no operation on it is in flight: the flag and the     *)
(* count together are a lock.  What breaks it, and early records: who calls *)
(* disconnect without the last reference, and two callers at once, of whom  *)
(* the second finds the first one's reference counted (l.551).  One slot    *)
(* torn down twice spoils the others: the second time its Index is 0        *)
(* already, and slot 0 is pushed (l.529-533), whoever has it.               *)
TeardownAlone ==
  early = {} =>
    \A s \in Slots, t \in Threads :
      Tearing(t, s) =>
        /\ \A u \in Threads : ~Using(u, s) /\ (u # t => ~Tearing(u, s))
        /\ InKernel({"recv", "send"}, s) = 0
=============================================================================
