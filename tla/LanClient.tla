------------------------------ MODULE LanClient ------------------------------
(***************************************************************************)
(* LanClient (LanClient.h/.cpp), the end of a LanServer connection that    *)
(* connects.  It has one session, `user`, and connects again whenever the  *)
(* connection is gone.  Nobody takes a reference to send, and there are no *)
(* ids: the session is that of whatever connection there is.               *)
(*                                                                         *)
(* Conns are the sockets that socket() returns, a new one every time.      *)
(* connectThread keeps the first handle in a local and connects that one   *)
(* for ever; Windows may or may not give a new socket the same handle.     *)
(***************************************************************************)
EXTENDS Sessions

CONSTANTS
  Workers,    \* the worker threads
  Users,      \* the application's threads
  Connector,  \* connectThread
  Main,       \* the thread that calls Stop
  MaxInputs   \* bound of the model: calls of SendPacket, receives with data

ASSUME ClientAssumption ==
  /\ Connector \notin Workers \cup Users
  /\ Main \notin Workers \cup Users \cup {Connector}
  /\ Workers \cap Users = {}
  /\ IsFiniteSet(Workers) /\ IsFiniteSet(Users)
  /\ MaxInputs \in Nat

VARIABLES
  connectFlag,   \* connectThread sees a connection
  local,         \* local of connectThread: the socket its handle means
  events,        \* application: the calls of onClientJoin and onClientLeave
  thrown,        \* history: the sockets on which onRecv threw
  inputs, pushes \* inputs and packets queued so far

client == <<connectFlag, local, events, thrown, inputs, pushes>>
vars == <<sessionVars, client>>

Threads == Workers \cup Users \cup {Connector, Main}
user == 0

(* socket(): a socket nobody had yet, if the system has one. *)
Fresh == {c \in Conns : sock[c] = "none"}
NewSocket == IF Fresh = {} THEN {NoSock} ELSE Fresh

First == CHOOSE c \in Conns : TRUE

(* Start, l.10-59 *)
Init ==
  /\ sess = [s \in {user} |-> [Sock |-> First, sendFlag |-> 0, disconnectFlag |-> 0,
                              sendCount |-> 0, iocpCount |-> 0,
                              sendQ |-> <<>>, completeSendQ |-> <<>>]]
  /\ sock = [c \in Conns |-> IF c = First THEN "made" ELSE "none"]
  /\ local = First
  /\ connectFlag = FALSE
  /\ todo = [t \in Threads |-> <<>>] /\ wbuf = [t \in Threads |-> <<>>]
  /\ crashed = "no"
  /\ peerGone = {} /\ pending = {} /\ port = <<>>
  /\ wire = [c \in Conns |-> <<>>]
  /\ events = <<>> /\ thrown = {}
  /\ inputs = 0 /\ pushes = 0
-----------------------------------------------------------------------------
(* connectThread, l.126-152 *)

(* A mutant: the connecting thread counts no reference (l.144). *)
ConnectedUncounted == <<"conn_set", "conn_sock", "join", "callback">>

Connected == <<"conn_set", "conn_sock", "conn_ref", "join", "callback">>

(* connect() succeeds; when it fails the thread tries again at once. *)
Connect ==
  /\ Idle(Connector)
  /\ ~connectFlag
  /\ local \in Conns /\ sock[local] = "made"
  /\ sock' = [sock EXCEPT ![local] = "open"]
  /\ todo' = [todo EXCEPT ![Connector] = Frames(Connected, user)]
  /\ UNCHANGED <<sess, wbuf, crashed, peerGone, pending, port, wire, client>>

(* l.141, l.423 *)
SetFlag(t, op, b) ==
  /\ At(t, op)
  /\ connectFlag' = b
  /\ Then(t, <<>>)
  /\ OnlyThread
  /\ UNCHANGED <<local, events, thrown, inputs, pushes>>

(* l.142: disconnect may have replaced the socket in between. *)
SetSock(t) ==
  /\ Update(t, "conn_sock", LAMBDA ss : [ss EXCEPT !.Sock = local], <<>>)
  /\ UNCHANGED client

ConnectRef(t) ==
  /\ Update(t, "conn_ref", LAMBDA ss : [ss EXCEPT !.iocpCount = @ + 1], <<>>)
  /\ UNCHANGED client

(* onClientJoin, and onClientLeave at l.412 *)
Tell(t, op) ==
  /\ At(t, op)
  /\ events' = Append(events, op)
  /\ Then(t, <<>>)
  /\ OnlyThread
  /\ UNCHANGED <<connectFlag, local, thrown, inputs, pushes>>
-----------------------------------------------------------------------------
(* disconnect, l.406-426 *)

Teardown == <<"leave", "drain", "renew", "conn_clear">>
DiscCAS(t) == TakeFlag(t, Teardown) /\ UNCHANGED client

(* completeSendQ, sendCount and sendFlag stay as they are. *)
Drain(t) ==
  /\ Update(t, "drain", LAMBDA ss : [ss EXCEPT !.sendQ = <<>>], <<>>)
  /\ UNCHANGED client

(* l.421-422: the handle in connectThread means the new socket, when the    *)
(* new one has the same number.                                             *)
Renew(t) ==
  LET old == sess[Slot(t)].Sock
  IN  /\ At(t, "renew")
      /\ \E c \in NewSocket :
           /\ sess' = [sess EXCEPT ![Slot(t)].Sock = c]
           /\ sock' = [d \in Conns |-> IF d = old THEN "closed"
                                       ELSE IF d = c THEN "made" ELSE sock[d]]
           /\ \/ local' = local
              \/ local = old /\ local' = c
      /\ Then(t, <<>>)
      /\ UNCHANGED <<wbuf, crashed, peerGone, pending, port, wire>>
      /\ UNCHANGED <<connectFlag, events, thrown, inputs, pushes>>
-----------------------------------------------------------------------------
(* SendPacket and the workers *)

(* l.112 *)
Push(t) ==
  /\ Update(t, "push", LAMBDA ss : [ss EXCEPT !.sendQ = Append(@, pushes)], <<>>)
  /\ pushes' = pushes + 1
  /\ UNCHANGED <<connectFlag, local, events, thrown, inputs>>

(* l.114 *)
SendTest(t) == Test(t, "send_test", LAMBDA ss : ss.sendFlag = 0, <<"post_test">>)

Input ==
  /\ inputs < MaxInputs
  /\ inputs' = inputs + 1
  /\ UNCHANGED <<connectFlag, local, events, thrown, pushes>>

(* An application thread may send at any time, also without a connection. *)
SendPacket(u) ==
  /\ Idle(u)
  /\ todo' = [todo EXCEPT ![u] = Frames(<<"push", "send_test">>, user)]
  /\ Input
  /\ OnlyThread

CallBack(t) ==
  /\ At(t, "callback")
  /\ todo' = [todo EXCEPT ![t] = Frames(<<"push", "send_test">>, user) \o @]
  /\ Input
  /\ OnlyThread

(* l.364-368: no other receive is posted after an exception. *)
CallbackThrows(w) ==
  /\ At(w, "callback")
  /\ Then(w, <<"release">>)
  /\ thrown' = thrown \cup {sess[user].Sock}
  /\ OnlyThread
  /\ UNCHANGED <<connectFlag, local, events, inputs, pushes>>

(* completeSend, l.376-398: of a send that went through, and of one that did *)
(* not.                                                                     *)
OnSent == <<"free_sent", "flag_dec", "post_test", "release">>
OnSendBroken == <<"flag_dec">> \o OnBroken

(* l.169-192; "exited" is where a worker that left its loop stays. *)
Handler(e) ==
  CASE e.op = "quit" -> <<"exited">>
    [] e.op = "recv" -> IF e.trans = 0 THEN OnBroken ELSE <<"callback">>
    [] e.op = "send" -> IF e.trans = 0 THEN OnSendBroken ELSE OnSent

Dequeue(w) == TakePacket(w, Handler(Head(port))) /\ UNCHANGED client

RecvData(p) ==
  /\ p.op = "recv" /\ Usable(p.c)
  /\ Complete(p, 1)
  /\ Input
  /\ UNCHANGED sess
-----------------------------------------------------------------------------
(* Stop, l.76-106 *)

StopBegin ==
  /\ Idle(Main)
  /\ todo' = [todo EXCEPT ![Main] = Frames(<<"disc_cas", "quits", "wait">>, user)]
  /\ OnlyThread
  /\ UNCHANGED client

(* A mutant: the last worker gets no quit packet. *)
QuitsTooFew == Cardinality(Workers) - 1

Quits == Cardinality(Workers)

PostQuits(t) ==
  /\ At(t, "quits")
  /\ port' = port \o [i \in 1 .. Quits |-> [s |-> user, op |-> "quit", trans |-> 0]]
  /\ Then(t, <<>>)
  /\ UNCHANGED <<sess, wbuf, crashed, sock, peerGone, pending, wire, client>>

(* WaitForMultipleObjects returns, and user is deleted: what connectThread  *)
(* and the application do with it afterwards is not modelled.               *)
StopEnd ==
  /\ At(Main, "wait")
  /\ \A w \in Workers : At(w, "exited")
  /\ Crash("deleted")
  /\ UNCHANGED client
-----------------------------------------------------------------------------
(* sendPost, with the steps it shares with IOCPServer's, l.270-332 *)
SendPost(t) ==
  PostTest(t) \/ PostCAS(t) \/ PostFill(t) \/ PostUnset(t) \/ WSASend(t) \/ SendFailed(t)

SessionStep(t) ==
  \/ Release(t) \/ Flag(t) \/ Shutdown(t) \/ RecvPost(t) \/ PostAgain(t)
  \/ SendTest(t) \/ SendPost(t) \/ FreeSent(t) \/ FlagDec(t) \/ CallbackEnds(t)

Step(t) ==
  /\ ~Idle(t)
  /\ \/ SessionStep(t) /\ UNCHANGED client
     \/ SetFlag(t, "conn_set", TRUE) \/ SetSock(t) \/ ConnectRef(t) \/ Tell(t, "join")
     \/ DiscCAS(t) \/ Tell(t, "leave") \/ Drain(t) \/ Renew(t)
     \/ SetFlag(t, "conn_clear", FALSE)
     \/ Push(t) \/ PostQuits(t)

KernelStep(p) == (SendDone(p) \/ ZeroBytes(p)) /\ UNCHANGED client

Next ==
  \/ \E t \in Threads : Step(t) \/ CallBack(t)
  \/ \E w \in Workers : Dequeue(w) \/ CallbackThrows(w)
  \/ \E u \in Users : SendPacket(u)
  \/ \E c \in Conns : PeerLeaves(c) /\ UNCHANGED client
  \/ \E p \in pending : RecvData(p) \/ KernelStep(p)
  \/ Connect \/ StopBegin \/ StopEnd

Spec ==
  /\ Init /\ [][Next]_vars
  /\ \A t \in Threads : WF_vars(Step(t))
  /\ WF_vars(\E w \in Workers : Dequeue(w))
  /\ WF_vars(\E p \in pending : KernelStep(p))
  /\ WF_vars(StopEnd)
-----------------------------------------------------------------------------
(* The properties *)

(* iocpCount is the references of the threads and the operations in flight, *)
(* and sendFlag is held by exactly one send: also while the socket under    *)
(* them is replaced (l.421-422) and after the early returns of l.341 and    *)
(* l.366.  Nothing resets them for the next connection: a reference too     *)
(* many and the client never connects again, a flag left set and it never   *)
(* sends again.                                                             *)
CountsExact ==
  /\ sess[user].iocpCount = References(todo, pending, port, user)
  /\ sess[user].sendFlag \in {0, 1}
  /\ sess[user].sendFlag = Senders(todo, pending, port, user)

Broken(c) == sock[c] = "shut" \/ (sock[c] = "open" /\ c \in peerGone)

(* A connection that breaks is given up for a new socket (l.421-422),       *)
(* unless onRecv threw on it: after l.366 nobody receives any more, and     *)
(* nobody notices.                                                          *)
SessionEnds ==
  \A c \in Conns :
    connectFlag /\ sess[user].Sock = c /\ Broken(c) ~>
      sess[user].Sock # c \/ c \in thrown \/ crashed # "no"

(* Stop returns: every worker gets a quit packet and none waits for ever    *)
(* before it (l.89-95).                                                     *)
StopReturns == At(Main, "wait") ~> crashed # "no"
=============================================================================
