------------------------ MODULE IOCPServerProperties ------------------------
(***************************************************************************)
(* What must be true of the sessions of IOCPServer.                        *)
(***************************************************************************)
EXTENDS IOCPServer

(* The application was told of the id and not that it is gone. *)
JoinedIds == {idOf[c] : c \in Conns} \ {NoId}
LeftIds == ToSet(left)

(* Frames of a thread that tears the slot down. *)
TeardownOps == {"leave", "drain", "test_id", "reclaim", "push_slot"}
Tearing(t, s) == Count(t, TeardownOps, s) > 0

(* Frames of a thread that reads or writes the session as its own. *)
UseOps == {"flag", "shutdown", "recv_post", "on_recv", "post_test", "post_cas",
           "post_fill", "post_unset", "wsa_send", "send_failed", "free_sent",
           "flag_dec", "count_reset", "cut_test", "cut_flag", "cut_cas", "push",
           "mark", "cut_now", "wake_test", "wake_look", "wake_cas", "pqcs_dec", "pqcs_test",
           "pqcs_queue", "callback"}
Using(t, s) == t # Main /\ Count(t, UseOps, s) > 0

-----------------------------------------------------------------------------
(* iocpCount is the number of references to the session, no more and no    *)
(* less: those of the threads, of the operations in flight, and of the     *)
(* packets in the completion port (IOCPServer.cpp:554-584).  It is what    *)
(* everything else rests on: a session is torn down at zero.               *)
RefCountExact ==
  \A s \in Slots :
    sess[s].iocpCount = References(todo, pending, port, s)

(* sendFlag is held by exactly one send, from the compare-and-swap of       *)
(* sendPost to the completion's decrement (l.377, 491), and sendPQCS by     *)
(* exactly one request to send, until the worker takes it off (l.170, 255), *)
(* over a reuse of the slot too: a flag left set silences a session.  One   *)
(* application thread with the id of an earlier session does not break it.  *)
(* Two of them and a reuse do: the second caller of acquirLock gets into a  *)
(* session being torn down (l.554), and its send meets the reset of         *)
(* sendFlag for the slot's next session (l.286).                            *)
FlagsExact ==
  \A s \in Slots :
    /\ sess[s].sendFlag \in {0, 1} /\ sess[s].sendPQCS \in {0, 1}
    /\ sess[s].sendFlag = Senders(todo, pending, port, s)
    /\ sess[s].sendPQCS = Wakers(todo, port, s)

(* The packets a completion frees are there: the loop at IOCPServer.cpp:482 *)
(* never waits for a packet that nobody will put in completeSendQ.          *)
SentPacketsKept ==
  \A s \in Slots, t \in Threads :
    Count(t, {"free_sent"}, s) > 0 => Len(sess[s].completeSendQ) >= sess[s].sendCount

(* While a session is torn down (IOCPServer.cpp:515-539) nobody else uses   *)
(* it or tears it down, and the kernel has nothing of it in flight.         *)
TeardownAlone ==
  \A s \in Slots, t \in Threads : Tearing(t, s) =>
    /\ \A u \in Threads \ {t} : ~Tearing(u, s) /\ ~Using(u, s)
    /\ ~Using(t, s)
    /\ InKernel({"recv", "send", "pqcs"}, s) = 0

(* A slot on the free stack is there once, and holds nothing of its last   *)
(* session that the next one could send.                                   *)
FreeSlotsClean ==
  /\ IsInjective(indexStack)
  /\ \A s \in ToSet(indexStack) :
       /\ sess[s].Sock = NoSock /\ sess[s].Index = NoId
       /\ sess[s].sendQ = <<>> /\ sess[s].completeSendQ = <<>>
       /\ \A t \in Threads : ~Tearing(t, s) /\ ~Using(t, s)

(* Each session is left once, and only after it joined; GetClientCount is   *)
(* the number of those joined and not left, whichever threads join and tear *)
(* down: what the accept thread's limit is compared with.                   *)
ClientCount ==
  /\ IsInjective(left) /\ LeftIds \subseteq JoinedIds
  /\ clientCounter = Cardinality(JoinedIds \ LeftIds)

(* A connection carries only packets sent to its own session, in the order  *)
(* in which they were queued, none twice (boost::lockfree queues, sendFlag, *)
(* the id that acquirLock compares at l.561 and the drain of the teardown   *)
(* together), also when the caller's session is gone and its slot is        *)
(* another connection's.  Like FlagsExact it fails with two application     *)
(* threads and a reuse: the second caller queues its packet for the slot's  *)
(* next session.                                                            *)
OwnPackets ==
  \A c \in Conns : \A i \in 1 .. Len(wire[c]) :
    /\ wire[c][i].to = idOf[c]
    /\ i > 1 => wire[c][i - 1].no < wire[c][i].no



(* A session whose connection is broken, by the client or by the server,   *)
(* ends: OnClientLeave is called after the disconnect (IOCPServer.h:117).  *)
(* A program that crashed, or is being stopped, owes nothing.              *)
SessionsEnd ==
  \A c \in Conns :
    idOf[c] # NoId /\ ~Usable(c) ~> idOf[c] \in LeftIds \/ stopping \/ crashed # "no"

(* Stop returns: every thread it waits for ends. *)
StopReturns == stopping ~> (todo[Main] = <<Frame("exited", 0)>> \/ crashed # "no")
-----------------------------------------------------------------------------
(* What comments and assertions of the code say, and the code does not do. *)

(* l.534: `if (dummyIndex == 0 || getIndex(dummyIndex) == 0) Crash()`, a    *)
(* session is torn down once.                                              *)
TornDownOnce == crashed # "teardown"

(* IOCPServer.h:35: a session marked to be cut after sending is cut.       *)
CutAfterSending ==
  \A s \in Slots :
    sess[s].sendDisconnectFlag = 1 /\ sess[s].Sock # NoSock
      ~> \/ sess[s].Sock = NoSock \/ sock[sess[s].Sock] # "open"
         \/ crashed # "no"
=============================================================================
