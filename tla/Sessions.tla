------------------------------ MODULE Sessions ------------------------------
(***************************************************************************)
(* What IOCPServer, LanServer and LanClient do with a session in the same  *)
(* way, line for line: references, shutdown, receives and sends.  The      *)
(* lines named are IOCPServer.cpp's.  Each of them extends this module and *)
(* adds the rest; the virtual client uses part of it.                      *)
(*                                                                         *)
(* A thread is the list of what it still has to do: todo[t] is a sequence  *)
(* of frames [op, s], an operation and the slot it works on.  A call puts  *)
(* the frames of the callee in front.  One action is one access to state   *)
(* that other threads use.  A thread's frame "release" is a reference it   *)
(* counts in iocpCount.                                                    *)
(*                                                                         *)
(* The kernel is external: sockets, the operations pending on them and the *)
(* completion port, a FIFO.  Queues and the stack of free slots are atomic *)
(* here: boost::lockfree's (IOCPServer, LanClient) are external, LanServer *)
(* has the repository's (LockFreeQueue, LockFreeStack).                    *)
(***************************************************************************)
EXTENDS Integers, FiniteSets, SequencesExt, Occurrences

CONSTANTS
  Conns,      \* the connections
  NoSock,     \* INVALID_SOCKET
  MaxWSABUF   \* packets in one WSASend

ASSUME SockAssumption == NoSock \notin Conns
ASSUME BatchAssumption == MaxWSABUF \in Nat \ {0}

VARIABLES
  sess,       \* the session of each slot
  todo,       \* what each thread still has to do
  wbuf,       \* local of sendPost: the packets gathered
  crashed,    \* what made the program crash, "no" while it runs
  sock,       \* kernel: the state of each connection's socket
  peerGone,   \* kernel: the connections whose other end is gone
  pending,    \* kernel: the operations in flight
  port,       \* kernel: the completion port's queue
  wire        \* the packets WSASend accepted for each connection

kernel == <<sock, peerGone, pending, port>>
sessionVars == <<sess, todo, wbuf, crashed, kernel, wire>>

Frame(op, s) == [op |-> op, s |-> s]
Frames(ops, s) == [i \in 1 .. Len(ops) |-> Frame(ops[i], s)]

(* The thread is at op, and goes on with ops before the rest. *)
At(t, op) == crashed = "no" /\ todo[t] # <<>> /\ Head(todo[t]).op = op
Slot(t) == Head(todo[t]).s
Then(t, ops) == todo' = [todo EXCEPT ![t] = Frames(ops, Slot(t)) \o Tail(@)]

Idle(t) == crashed = "no" /\ todo[t] = <<>>

(* What the step leaves alone, when it changes only a session or nothing. *)
OnlySession == UNCHANGED <<wbuf, crashed, kernel, wire>>
OnlyThread == UNCHANGED sess /\ OnlySession

(* A thread's step that changes fields of its session: f gives the new one. *)
Update(t, op, f(_), ops) ==
  /\ At(t, op)
  /\ sess' = [sess EXCEPT ![Slot(t)] = f(@)]
  /\ Then(t, ops)
  /\ OnlySession

(* A thread's step that looks at its session. *)
Test(t, op, p(_), ops) ==
  /\ At(t, op)
  /\ Then(t, IF p(sess[Slot(t)]) THEN ops ELSE <<>>)
  /\ OnlyThread

(* CCrashDump::Crash(), or the use of an uninitialised slot number. *)
Crash(why) == crashed' = why /\ UNCHANGED <<sess, todo, wbuf, kernel, wire>>

(* Stop: every slot in turn is shut down and disconnected. *)
StopSlots(n) ==
  [i \in 1 .. 2 * n |-> Frame(IF i % 2 = 1 THEN "shutdown" ELSE "disc_cas", (i - 1) \div 2)]

(* The connection still carries data in both directions. *)
Usable(c) == c \in Conns /\ sock[c] = "open" /\ c \notin peerGone
-----------------------------------------------------------------------------
(* References and shutdown *)

(* InterlockedDecrement(&iocpCount), and disconnect by whoever was last:    *)
(* releaseLock and every other place that gives a reference back.           *)
Release(t) ==
  /\ At(t, "release")
  /\ sess' = [sess EXCEPT ![Slot(t)].iocpCount = @ - 1]
  /\ Then(t, IF sess[Slot(t)].iocpCount = 1 THEN <<"disc_cas">> ELSE <<>>)
  /\ OnlySession

(* clientShutdown: first the flag ... *)
Flag(t) == Update(t, "flag", LAMBDA ss : [ss EXCEPT !.disconnectFlag = 1], <<>>)

(* ... then shutdown(Sock, SD_BOTH), of whatever socket the slot has now. *)
ShutSock(c) ==
  sock' = IF c \in Conns /\ sock[c] = "open" THEN [sock EXCEPT ![c] = "shut"] ELSE sock

Shutdown(t) ==
  /\ At(t, "shutdown")
  /\ ShutSock(sess[Slot(t)].Sock)
  /\ Then(t, <<>>)
  /\ UNCHANGED <<sess, wbuf, crashed, peerGone, pending, port, wire>>

(* disconnect, l.511: who takes the flag off goes on with ops. *)
TakeFlag(t, ops) ==
  /\ At(t, "disc_cas")
  /\ IF sess[Slot(t)].disconnectFlag = 1
     THEN /\ sess' = [sess EXCEPT ![Slot(t)].disconnectFlag = 0]
          /\ Then(t, ops)
     ELSE Then(t, <<>>) /\ UNCHANGED sess
  /\ OnlySession
-----------------------------------------------------------------------------
(* Receiving *)

(* WSARecv or WSASend on sock c fails at once, or goes through: on a broken *)
(* connection either may happen, the operation then completes with 0 bytes. *)
MayFail(c) == ~Usable(c)
MayPend(c) == c \in Conns /\ sock[c] \in {"open", "shut"}

(* A receive, a send of the slot is in flight. *)
Receiving(s) == \E p \in pending : p.s = s /\ p.op = "recv"
Sending(s) == \E p \in pending : p.s = s /\ p.op = "send"

(* The session has one OVERLAPPED for each, which is in use then: to pass   *)
(* it to WSARecv or WSASend again is undefined.  LanServer, LanClient and   *)
(* VirtualClient end there (PostAgain).  IOCPServer has no such step: its    *)
(* sendFlag and its one receive keep the runs from getting there.           *)
PostOp(op) == IF op = "recv" THEN "recv_post" ELSE "wsa_send"

PostAgain(t) ==
  /\ \E p \in pending : At(t, PostOp(p.op)) /\ p.s = Slot(t)
  /\ Crash("overlapped")

(* recvPost *)
RecvPost(t) ==
  LET s == Slot(t)
      c == sess[s].Sock
  IN  /\ At(t, "recv_post") /\ ~Receiving(s)
      /\ sess' = [sess EXCEPT ![s].iocpCount = @ + 1]
      /\ \/ /\ MayPend(c)
            /\ pending' = pending \cup {[s |-> s, c |-> c, op |-> "recv", msgs |-> <<>>]}
            /\ Then(t, <<>>)
         \/ /\ MayFail(c)
            /\ Then(t, <<"flag", "shutdown", "release">>)
            /\ UNCHANGED pending
      /\ UNCHANGED <<wbuf, crashed, sock, peerGone, port, wire>>
-----------------------------------------------------------------------------
(* Sending *)

(* sendPost, l.376 *)
PostTest(t) == Test(t, "post_test", LAMBDA ss : ss.sendQ # <<>>, <<"post_cas">>)

(* A mutant: sendFlag is set without looking. *)
MaySendAlways(s) == TRUE

(* l.377: one sender at a time. *)
MaySend(s) == sess[s].sendFlag = 0

PostCAS(t) ==
  /\ At(t, "post_cas")
  /\ IF MaySend(Slot(t))
     THEN /\ sess' = [sess EXCEPT ![Slot(t)].sendFlag = 1, ![Slot(t)].sendCount = 0]
          /\ Then(t, <<"post_fill">>)
     ELSE Then(t, <<>>) /\ UNCHANGED sess
  /\ OnlySession

BatchSize(q) == IF Len(q) < MaxWSABUF THEN Len(q) ELSE MaxWSABUF

(* A mutant: the newest packets first, as with a stack. *)
GatherNewest(q) ==
  LET rest == Len(q) - BatchSize(q)
  IN  [batch |-> SubSeq(q, rest + 1, Len(q)), rest |-> SubSeq(q, 1, rest)]

(* The packets one WSASend takes from sendQ. *)
Gather(q) == [batch |-> SubSeq(q, 1, BatchSize(q)), rest |-> SubSeq(q, BatchSize(q) + 1, Len(q))]

(* A mutant: l.394 forgotten. *)
NotKept(q, batch) == q

(* completeSendQ holds them until they are sent. *)
Kept(q, batch) == q \o batch

AfterFill(batch) == IF batch = <<>> THEN <<"post_unset">> ELSE <<"wsa_send">>

(* l.385-401: the packets move to completeSendQ and into wbuf. *)
PostFill(t) ==
  LET s == Slot(t)
      g == Gather(sess[s].sendQ)
  IN  /\ At(t, "post_fill")
      /\ sess' = [sess EXCEPT ![s].sendQ = g.rest,
                              ![s].completeSendQ = Kept(@, g.batch),
                              ![s].sendCount = Len(g.batch)]
      /\ wbuf' = [wbuf EXCEPT ![t] = g.batch]
      /\ Then(t, AfterFill(g.batch))
      /\ UNCHANGED <<crashed, kernel, wire>>

(* LanServer and the virtual client look at the first packets instead, and  *)
(* leave them in sendQ until they are sent.                                 *)
PeekFill(t) ==
  LET batch == Gather(sess[Slot(t)].sendQ).batch
  IN  /\ At(t, "post_fill")
      /\ sess' = [sess EXCEPT ![Slot(t)].sendCount = Len(batch)]
      /\ wbuf' = [wbuf EXCEPT ![t] = batch]
      /\ Then(t, AfterFill(batch))
      /\ UNCHANGED <<crashed, kernel, wire>>

(* l.404 *)
PostUnset(t) == Update(t, "post_unset", LAMBDA ss : [ss EXCEPT !.sendFlag = 0], <<>>)

(* l.407-412: WSASend sends the first sendCount packets of wbuf. *)
WSASend(t) ==
  LET s == Slot(t)
      c == sess[s].Sock
      msgs == SubSeq(wbuf[t], 1, sess[s].sendCount)
  IN  /\ At(t, "wsa_send") /\ ~Sending(s)
      /\ sess' = [sess EXCEPT ![s].iocpCount = @ + 1]
      /\ wbuf' = [wbuf EXCEPT ![t] = <<>>]
      /\ \/ /\ MayPend(c)
            /\ pending' = pending \cup {[s |-> s, c |-> c, op |-> "send", msgs |-> msgs]}
            /\ wire' = [wire EXCEPT ![c] = @ \o msgs]
            /\ Then(t, <<>>)
         \/ /\ MayFail(c)
            /\ Then(t, <<"send_failed", "flag", "shutdown", "release">>)
            /\ UNCHANGED <<pending, wire>>
      /\ UNCHANGED <<crashed, sock, peerGone, port>>

(* l.421-422: sendFlag is given up before the socket is shut down. *)
SendFailed(t) ==
  Update(t, "send_failed", LAMBDA ss : [ss EXCEPT !.sendCount = 0, !.sendFlag = 0], <<>>)

(* completeSend, l.482-490: the packets sent are freed.  The loop spins     *)
(* while completeSendQ holds fewer than sendCount packets.  It is one step: *)
(* with more than one packet a CountReset could also fall inside the loop.  *)
FreeSent(t) ==
  LET s == Slot(t)
  IN  /\ At(t, "free_sent")
      /\ Len(sess[s].completeSendQ) >= sess[s].sendCount
      /\ sess' = [sess EXCEPT ![s].completeSendQ =
                    SubSeq(@, sess[s].sendCount + 1, Len(@))]
      /\ Then(t, <<>>)
      /\ OnlySession

(* l.474, l.491 *)
FlagDec(t) == Update(t, "flag_dec", LAMBDA ss : [ss EXCEPT !.sendFlag = @ - 1], <<>>)

(* A mutant: completeRecv returns at once when 0 bytes came (l.438). *)
OnBrokenIgnored == <<"release">>

(* What a worker does after an operation that ended with 0 bytes. *)
OnBroken == <<"flag", "shutdown", "release">>

(* A mutant: the reference is given back before the next receive. *)
AfterCallbackReleased == <<"release", "recv_post">>

(* The application's callback returns, l.215-217, 466-467: the next receive  *)
(* is posted.                                                                *)
AfterCallback == <<"recv_post", "release">>

CallbackEnds(t) == At(t, "callback") /\ Then(t, AfterCallback) /\ OnlyThread
-----------------------------------------------------------------------------
(* The kernel *)

(* The other end goes; after a shutdown nothing depends on it any more. *)
PeerLeaves(c) ==
  /\ crashed = "no"
  /\ Usable(c)
  /\ peerGone' = peerGone \cup {c}
  /\ UNCHANGED <<sess, todo, wbuf, crashed, sock, pending, port, wire>>

(* Of the bytes transferred it counts only whether there were any. *)
Complete(p, trans) ==
  /\ crashed = "no"
  /\ p \in pending
  /\ pending' = pending \ {p}
  /\ port' = Append(port, [s |-> p.s, op |-> p.op, trans |-> trans])
  /\ UNCHANGED <<todo, wbuf, crashed, sock, peerGone, wire>>

SendDone(p) ==
  /\ p.op = "send" /\ p.msgs # <<>> /\ sock[p.c] # "closed"
  /\ Complete(p, 1)
  /\ UNCHANGED sess

(* An operation on a broken connection, or a send of nothing. *)
ZeroBytes(p) ==
  /\ ~Usable(p.c) \/ (p.op = "send" /\ p.msgs = <<>>)
  /\ Complete(p, 0)
  /\ UNCHANGED sess

(* GetQueuedCompletionStatus: the worker goes on with the functions    *)
(* in ops.                                                                  *)
TakePacket(w, ops) ==
  /\ Idle(w)
  /\ port # <<>>
  /\ port' = Tail(port)
  /\ todo' = [todo EXCEPT ![w] = Frames(ops, Head(port).s)]
  /\ UNCHANGED <<sess, wbuf, crashed, sock, peerGone, pending, wire>>
-----------------------------------------------------------------------------
(* Counting what is under way, for the properties of the engines *)

(* The frames of slot s with an operation of ops, and the packets of the port. *)
FramesWith(ops, s) == [op : ops, s : {s}]
PacketsWith(ops, s) == [s : {s}, op : ops, trans : Nat]

(* How many there are in a thread, in all threads Q has, in flight and in   *)
(* the port.                                                                *)
Count(t, ops, s) == Occ(todo[t], FramesWith(ops, s))
InThreads(Q, ops, s) == Total(Q, FramesWith(ops, s))
InFlight(P, ops, s) == Cardinality({p \in P : p.s = s /\ p.op \in ops})
InPort(R, ops, s) == Occ(R, PacketsWith(ops, s))
InKernel(ops, s) == InFlight(pending, ops, s) + InPort(port, ops, s)

(* A reference is held by a thread that is to give it back, in a callback   *)
(* or about to look whether it may keep it, and by the kernel; one is       *)
(* missing while a thread is still to count that of a new session.          *)
Holding == {"release", "callback", "check_id", "check_flag"}
Owing == {"insert_ref", "conn_ref"}
Referring == {"recv", "send", "pqcs"}

References(Q, P, R, s) ==
  InThreads(Q, Holding, s) - InThreads(Q, Owing, s)
  + InFlight(P, Referring, s) + InPort(R, Referring, s)

(* sendFlag is held from the compare-and-swap of sendPost to the decrement  *)
(* after the completion.                                                    *)
SendOps == {"post_fill", "post_unset", "wsa_send", "send_failed", "flag_dec"}

Senders(Q, P, R, s) ==
  InThreads(Q, SendOps, s) + InFlight(P, {"send"}, s) + InPort(R, {"send"}, s)

(* A wake-up is under way until a worker is through with it. *)
Wakers(Q, R, s) == InThreads(Q, {"pqcs_dec"}, s) + InPort(R, {"pqcs"}, s)
=============================================================================
