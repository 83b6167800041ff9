--------------------------- MODULE VirtualClient ---------------------------
(***************************************************************************)
(* VirtualClient (MMOVirtual_IOCPClient.h/.cpp): many connections to one    *)
(* server, for a load test.  Each has a slot of sessionArray; connectThread *)
(* takes the slots from a queue.  There is no count of references: a worker *)
(* ends a session when it finds recvFlag, sendFlag, lockFlag and            *)
(* calledPQCSSend all clear.                                                *)
(*                                                                         *)
(* lockFlag is never set: l.426 compares with 1 and stores 0.               *)
(* disconnectFlag and disconnectAfterSend are never cleared.                *)
(*                                                                         *)
(* Packets are all the same here.  Statements with nothing in between that  *)
(* another thread could tell are one step.                                  *)
(***************************************************************************)
EXTENDS Sessions

CONSTANTS
  Workers,    \* the worker threads
  Users,      \* the application's threads, Main may be one of them
  Connector,  \* connectThread
  Main,       \* the thread that calls Stop
  maxClient,  \* slots of sessionArray
  MaxInputs   \* bound of the model: sendPacket, clientShutdown, receives

ASSUME VirtualAssumption ==
  /\ Connector \notin Workers \cup Users
  /\ Main \notin Workers \cup {Connector}
  /\ Workers \cap Users = {}
  /\ maxClient \in Nat \ {0} /\ MaxInputs \in Nat

VARIABLES
  indexQueue,            \* the slots to be connected
  connectedClientCount,
  clientShutdownFlag,    \* Stop was called
  newSock,               \* local of connectThread
  unattended,            \* history: the connections whose first receive failed
  inputs                 \* inputs so far

virtual == <<indexQueue, connectedClientCount, clientShutdownFlag, newSock, unattended, inputs>>
vars == <<sessionVars, virtual>>

Threads == Workers \cup Users \cup {Connector, Main}
Slots == 0 .. maxClient - 1

(* The sockets that socket() may return: a closed one again, once nothing   *)
(* of it is pending.                                                        *)
Fresh == {c \in Conns : \/ sock[c] = "none"
                        \/ sock[c] = "closed" /\ \A p \in pending : p.c # c}

(* Session::Session *)
EmptySession ==
  [Sock |-> NoSock, Index |-> -1, recvFlag |-> 0, sendFlag |-> 0, lockFlag |-> 0,
   disconnectFlag |-> 0, sendCount |-> 0, disconnectAfterSend |-> 0,
   calledPQCSSend |-> 0, sendQ |-> <<>>]

(* setConfigData, Start *)
Init ==
  /\ sess = [s \in Slots |-> EmptySession]
  /\ indexQueue = [i \in 1 .. maxClient |-> i - 1]
  /\ connectedClientCount = 0
  /\ clientShutdownFlag = FALSE
  /\ newSock = NoSock
  /\ todo = [t \in Threads |-> <<>>] /\ wbuf = [t \in Threads |-> <<>>]
  /\ crashed = "no"
  /\ sock = [c \in Conns |-> "none"]
  /\ peerGone = {} /\ pending = {} /\ port = <<>>
  /\ wire = [c \in Conns |-> <<>>]
  /\ unattended = {} /\ inputs = 0
-----------------------------------------------------------------------------
(* connectThread, l.91-142 *)

(* A round goes on until the queue is empty: Count is not counted, and the  *)
(* flag of Stop is not looked at in between.                                *)
Round ==
  /\ Idle(Connector)
  /\ ~clientShutdownFlag
  /\ indexQueue # <<>>
  /\ todo' = [todo EXCEPT ![Connector] = Frames(<<"take">>, 0)]
  /\ OnlyThread
  /\ UNCHANGED virtual

RoundOver(t) == indexQueue = <<>> /\ Test(t, "take", LAMBDA ss : TRUE, <<>>)

(* The next slot gets a socket.  The index -1 is used like any other.  When *)
(* socket fails the slot is not put back and the round ends (l.99-104).     *)
TakeIndex(t) ==
  LET s == Head(indexQueue)
  IN  /\ At(t, "take")
      /\ indexQueue # <<>>
      /\ indexQueue' = Tail(indexQueue)
      /\ \/ /\ s \in Slots
            /\ \E c \in Fresh :
                 /\ newSock' = c
                 /\ sock' = [sock EXCEPT ![c] = "made"]
                 /\ peerGone' = peerGone \ {c}
                 /\ unattended' = unattended \ {c}
            /\ sess' = [sess EXCEPT ![s].Index = s]
            /\ todo' = [todo EXCEPT ![t] = <<Frame("connect", s)>> \o @]
            /\ UNCHANGED <<wbuf, crashed, pending, port, wire>>
         \/ s = -1 /\ Crash("index") /\ UNCHANGED <<newSock, unattended>>
         \/ Fresh = {} /\ Then(t, <<>>) /\ OnlyThread /\ UNCHANGED <<newSock, unattended>>
      /\ UNCHANGED <<connectedClientCount, clientShutdownFlag, inputs>>

(* l.137-139 *)
Connected == <<"recv_set", "recv_post", "callback">>

(* l.121-135 *)
Connect(t) ==
  LET s == Slot(t)
  IN  /\ At(t, "connect")
      /\ \/ /\ sock' = [sock EXCEPT ![newSock] = "open"]
            /\ sess' = [sess EXCEPT ![s].Sock = newSock]
            /\ connectedClientCount' = connectedClientCount + 1
            /\ Then(t, Connected)
            /\ UNCHANGED indexQueue
         \/ /\ sess' = [sess EXCEPT ![s].Index = -1]
            /\ indexQueue' = Append(indexQueue, s)
            /\ Then(t, <<>>)
            /\ UNCHANGED <<sock, connectedClientCount>>
      /\ UNCHANGED <<wbuf, crashed, peerGone, pending, port, wire>>
      /\ UNCHANGED <<clientShutdownFlag, newSock, unattended, inputs>>

RecvSet(t) == Update(t, "recv_set", LAMBDA ss : [ss EXCEPT !.recvFlag = 1], <<>>)
-----------------------------------------------------------------------------
(* disconnect, l.379-403: the flag is compared and stored, never cleared *)

Disconnect(t) == Test(t, "disc", LAMBDA ss : ss.disconnectFlag = 1, <<"close">>)

(* The index to be given back is the one found, -1 when someone was faster. *)
Close(t) ==
  LET ss == sess[Slot(t)]
  IN  /\ At(t, "close")
      /\ sock' = [c \in Conns |-> IF c = ss.Sock THEN "closed" ELSE sock[c]]
      /\ sess' = [sess EXCEPT ![Slot(t)].Sock = NoSock, ![Slot(t)].sendQ = <<>>]
      /\ connectedClientCount' = connectedClientCount - 1
      /\ Then(t, IF ss.Index = -1 THEN <<"give_none">> ELSE <<"give_index">>)
      /\ UNCHANGED <<wbuf, crashed, peerGone, pending, port, wire>>
      /\ UNCHANGED <<indexQueue, clientShutdownFlag, newSock, unattended, inputs>>

GiveBack(t, op, index) ==
  /\ Update(t, op, LAMBDA ss : [ss EXCEPT !.Index = -1], <<>>)
  /\ indexQueue' = Append(indexQueue, index)
  /\ UNCHANGED <<connectedClientCount, clientShutdownFlag, newSock, unattended, inputs>>
-----------------------------------------------------------------------------
(* recvPost and sendPost: nothing is counted *)

(* WSARecv at l.221-234.  After a failure in a worker comes the test of     *)
(* l.185; in connectThread nothing does.                                    *)
Recv(t) ==
  LET s == Slot(t)
      c == sess[s].Sock
  IN  /\ At(t, "recv_post") /\ ~Receiving(s)
      /\ \/ /\ MayPend(c)
            /\ pending' = pending \cup {[s |-> s, c |-> c, op |-> "recv", msgs |-> <<>>]}
            /\ Then(t, <<>>)
            /\ UNCHANGED unattended
         \/ /\ MayFail(c)
            /\ Then(t, <<"recv_clear", "flag", "shutdown">>)
            /\ unattended' = IF t = Connector THEN unattended \cup {c} ELSE unattended
            /\ UNCHANGED pending
      /\ UNCHANGED <<sess, wbuf, crashed, sock, peerGone, port, wire>>
      /\ UNCHANGED <<indexQueue, connectedClientCount, clientShutdownFlag, newSock, inputs>>

(* l.285-295: the first sendCount packets are sent; a failure gives         *)
(* sendFlag up after the shutdown.                                          *)
Send(t) ==
  LET s == Slot(t)
      c == sess[s].Sock
      msgs == wbuf[t]
  IN  /\ At(t, "wsa_send") /\ ~Sending(s)
      /\ wbuf' = [wbuf EXCEPT ![t] = <<>>]
      /\ \/ /\ MayPend(c)
            /\ pending' = pending \cup {[s |-> s, c |-> c, op |-> "send", msgs |-> msgs]}
            /\ Then(t, <<>>)
            /\ UNCHANGED sess
         \/ /\ MayFail(c)
            /\ sess' = [sess EXCEPT ![s].sendCount = 0]
            /\ Then(t, <<"flag", "shutdown", "post_unset">>)
            /\ UNCHANGED pending
      /\ UNCHANGED <<crashed, sock, peerGone, port, wire>>

SendPost(t) == PostTest(t) \/ PostCAS(t) \/ PeekFill(t) \/ PostUnset(t) \/ Send(t)

(* completedSend, l.352-360: the packets sent are freed, if they are there. *)
FreePackets(t) ==
  Update(t, "free_sent", LAMBDA ss :
           [ss EXCEPT !.sendQ = SubSeq(@, ss.sendCount + 1, Len(@))], <<>>)

(* l.365: everything was sent ... *)
CutTest(t) == Test(t, "cut_test", LAMBDA ss : ss.sendQ = <<>>, <<"cut_flag">>)

(* ... and the session is to be cut, l.367. *)
CutFlag(t) ==
  Test(t, "cut_flag", LAMBDA ss : ss.disconnectAfterSend = 1, <<"flag", "shutdown">>)
-----------------------------------------------------------------------------
(* sendPacket and clientShutdown, l.594-627 *)

(* acquireLockedSession, l.411-436: the index, and then the flag with       *)
(* lockFlag, which is compared with 1 and not set.                          *)
SendBody == <<"push", "wake_test", "unlock">>

Acquire(t) ==
  /\ At(t, "acquire")
  /\ Then(t, IF sess[Slot(t)].Index = Slot(t) THEN <<"acquire_flag">> ELSE <<"disc">>)
  /\ OnlyThread

AcquireFlag(t) ==
  LET ss == sess[Slot(t)]
  IN  /\ At(t, "acquire_flag")
      /\ Then(t, IF ss.disconnectFlag = 0 /\ ss.lockFlag # 1 THEN SendBody ELSE <<"disc">>)
      /\ OnlyThread

(* releaseLockedSession *)
Unlock(t) == Update(t, "unlock", LAMBDA ss : [ss EXCEPT !.lockFlag = 0], <<"disc">>)

(* l.601-603; the caller asks for a disconnect after it (l.607), or not. *)
Push(t) ==
  \E then \in {<<>>, <<"mark">>} :
    Update(t, "push", LAMBDA ss : [ss EXCEPT !.sendQ = Append(@, "packet")], then)

Mark(t) == Update(t, "mark", LAMBDA ss : [ss EXCEPT !.disconnectAfterSend = 1], <<"cut_now">>)

CutNow(t) == Test(t, "cut_now", LAMBDA ss : ss.sendQ = <<>>, <<"flag", "shutdown">>)

(* l.612 *)
WakeTest(t) == Test(t, "wake_test", LAMBDA ss : ss.sendFlag = 0, <<"wake_look">>)

(* l.614 *)
WakeLook(t) == Test(t, "wake_look", LAMBDA ss : ss.calledPQCSSend = 0, <<"wake_cas">>)

(* A mutant: the compare-and-swap is a plain store. *)
MayWakeAlways(s) == TRUE

MayWake(s) == sess[s].calledPQCSSend = 0

(* l.616-617 *)
WakeCAS(t) ==
  /\ At(t, "wake_cas")
  /\ IF MayWake(Slot(t))
     THEN /\ sess' = [sess EXCEPT ![Slot(t)].calledPQCSSend = 1]
          /\ port' = Append(port, [s |-> Slot(t), op |-> "pqcs", trans |-> 0])
     ELSE UNCHANGED <<sess, port>>
  /\ Then(t, <<>>)
  /\ UNCHANGED <<wbuf, crashed, sock, peerGone, pending, wire>>

Input ==
  /\ inputs < MaxInputs
  /\ inputs' = inputs + 1
  /\ UNCHANGED <<indexQueue, connectedClientCount, clientShutdownFlag, newSock, unattended>>

(* The application uses the indexes it knows, at any time. *)
Call(u, s) ==
  /\ Idle(u)
  /\ \E op \in {"acquire", "shutdown"} : todo' = [todo EXCEPT ![u] = <<Frame(op, s)>>]
  /\ Input
  /\ OnlyThread

(* OnConnect and OnRecv may send. *)
CallBack(t) ==
  /\ At(t, "callback")
  /\ todo' = [todo EXCEPT ![t] = <<Frame("acquire", Slot(t))>> \o @]
  /\ Input
  /\ OnlyThread

CallbackReturns(t) == Test(t, "callback", LAMBDA ss : TRUE, <<>>)

(* l.327-336: OnRecv throws, or the packet does not decode.  No receive is  *)
(* posted and recvFlag stays set.                                           *)
CallbackThrows(w) ==
  /\ At(w, "callback")
  /\ todo' = [todo EXCEPT ![w] = Frames(<<"flag", "shutdown", "end_test">>, Slot(w))]
  /\ OnlyThread
  /\ UNCHANGED virtual
-----------------------------------------------------------------------------
(* The workers, l.147-194 *)

(* A mutant: the test of l.185 is left out after a wake-up. *)
OnPqcsUntested == <<"post_test", "again", "pqcs_dec">>

OnPqcs == <<"post_test", "again", "pqcs_dec", "end_test">>
OnRecv(e) ==
  IF e.trans = 0 THEN <<"flag", "shutdown", "recv_clear", "end_test">>
  ELSE <<"callback", "recv_post", "end_test">>

OnSend(e) ==
  IF e.trans = 0 THEN <<"flag_dec", "flag", "shutdown", "end_test">>
  ELSE <<"free_sent", "flag_dec", "cut_test", "end_test">>

Handler(e) ==
  CASE e.op = "quit" -> <<"exited">>
    [] e.op = "pqcs" -> OnPqcs
    [] e.op = "recv" -> OnRecv(e)
    [] e.op = "send" -> OnSend(e)

Dequeue(w) == TakePacket(w, Handler(Head(port))) /\ UNCHANGED virtual

(* l.176: the flag, and then the queue. *)
Again(t) == Test(t, "again", LAMBDA ss : ss.sendFlag = 0, <<"again_queue">>)
AgainQueue(t) == Test(t, "again_queue", LAMBDA ss : ss.sendQ # <<>>, <<"post_test">>)
PqcsDec(t) ==
  Update(t, "pqcs_dec", LAMBDA ss : [ss EXCEPT !.calledPQCSSend = @ - 1], <<>>)
RecvClear(t) == Update(t, "recv_clear", LAMBDA ss : [ss EXCEPT !.recvFlag = 0], <<>>)

(* l.185-188: one flag after the other.  lockFlag is read with the last, as *)
(* nothing sets it.                                                         *)
EndTest(t) == Test(t, "end_test", LAMBDA ss : ss.recvFlag = 0, <<"end_send">>)
EndSend(t) == Test(t, "end_send", LAMBDA ss : ss.sendFlag = 0, <<"end_wake">>)
EndWake(t) ==
  Test(t, "end_wake", LAMBDA ss : ss.lockFlag = 0 /\ ss.calledPQCSSend = 0, <<"disc">>)

RecvData(p) ==
  /\ p.op = "recv" /\ Usable(p.c)
  /\ Complete(p, 1)
  /\ Input
  /\ UNCHANGED sess
-----------------------------------------------------------------------------
(* Stop, l.565-592 *)

StopBegin ==
  /\ Idle(Main)
  /\ clientShutdownFlag' = TRUE
  /\ todo' = [todo EXCEPT ![Main] =
       [i \in 1 .. maxClient |-> Frame("stop_slot", i - 1)] \o Frames(<<"wait_all", "quits", "wait">>, 0)]
  /\ OnlyThread
  /\ UNCHANGED <<indexQueue, connectedClientCount, newSock, unattended, inputs>>

StopSlot(t) == Test(t, "stop_slot", LAMBDA ss : ss.Sock # NoSock, <<"flag", "shutdown">>)

(* checkAllClientDisconnect *)
WaitAll(t) == connectedClientCount = 0 /\ Test(t, "wait_all", LAMBDA ss : TRUE, <<>>)

PostQuits(t) ==
  /\ At(t, "quits")
  /\ port' = port \o [i \in 1 .. Cardinality(Workers) |-> [s |-> 0, op |-> "quit", trans |-> 0]]
  /\ Then(t, <<>>)
  /\ UNCHANGED <<sess, wbuf, crashed, sock, peerGone, pending, wire>>

StopEnd ==
  /\ At(Main, "wait")
  /\ \A w \in Workers : At(w, "exited")
  /\ Crash("deleted")
  /\ UNCHANGED virtual
-----------------------------------------------------------------------------
SessionStep(t) ==
  \/ Flag(t) \/ Shutdown(t) \/ PostAgain(t) \/ RecvSet(t) \/ RecvClear(t)
  \/ SendPost(t) \/ FreePackets(t) \/ FlagDec(t) \/ CutTest(t) \/ CutFlag(t) \/ Disconnect(t)
  \/ Acquire(t) \/ AcquireFlag(t) \/ Unlock(t) \/ Push(t) \/ Mark(t) \/ CutNow(t)
  \/ WakeTest(t) \/ WakeLook(t) \/ WakeCAS(t)
  \/ Again(t) \/ AgainQueue(t) \/ PqcsDec(t) \/ EndTest(t) \/ EndSend(t) \/ EndWake(t)
  \/ CallbackReturns(t)
  \/ RoundOver(t) \/ StopSlot(t) \/ WaitAll(t) \/ PostQuits(t)

Step(t) ==
  /\ ~Idle(t)
  /\ \/ SessionStep(t) /\ UNCHANGED virtual
     \/ TakeIndex(t) \/ Connect(t) \/ Recv(t) \/ Close(t)
     \/ GiveBack(t, "give_index", Slot(t)) \/ GiveBack(t, "give_none", -1)

KernelStep(p) == (SendDone(p) \/ ZeroBytes(p)) /\ UNCHANGED virtual

Next ==
  \/ \E t \in Threads : Step(t) \/ CallBack(t)
  \/ \E w \in Workers : Dequeue(w) \/ CallbackThrows(w)
  \/ \E u \in Users, s \in Slots : Call(u, s)
  \/ \E c \in Conns : PeerLeaves(c) /\ UNCHANGED virtual
  \/ \E p \in pending : RecvData(p) \/ KernelStep(p)
  \/ Round \/ StopBegin \/ StopEnd

Spec == Init /\ [][Next]_vars
-----------------------------------------------------------------------------
(* The properties *)

(* sendFlag is held by exactly one send of the slot, calledPQCSSend by one  *)
(* wake-up that no worker is through with (l.178, l.616), whatever workers  *)
(* and senders take them at once, and also when the slot is taken for the   *)
(* next connection while those of the last are under way: nothing resets   *)
(* them (l.379-403, l.131-137).                                             *)
FlagsExact ==
  \A s \in Slots :
    /\ sess[s].sendFlag \in {0, 1} /\ sess[s].calledPQCSSend \in {0, 1}
    /\ sess[s].sendFlag = Senders(todo, pending, port, s)
    /\ sess[s].calledPQCSSend = Wakers(todo, port, s)

(* A session that is shut down, with nothing of it under way, is about to   *)
(* be looked at by somebody (l.185-189, l.441): of the workers that clear   *)
(* its flags in any order the last one finds them clear.  The exception:    *)
(* connectThread does not look when the first receive fails (l.138).        *)
Looking ==
  {"end_test", "end_send", "end_wake", "disc", "close", "give_index", "give_none",
   "unlock", "recv_set"}
Over(s) ==
  /\ sess[s].Sock # NoSock /\ sess[s].disconnectFlag = 1
  /\ sess[s].recvFlag = 0 /\ sess[s].sendFlag = 0 /\ sess[s].calledPQCSSend = 0
SomebodyLooks ==
  \A s \in Slots :
    Over(s) =>
      \/ \E t \in Threads : Count(t, Looking, s) > 0
      \/ InKernel({"recv"}, s) > 0
      \/ sess[s].Sock \in unattended
=============================================================================
