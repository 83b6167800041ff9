-------------------------- MODULE SessionRegistry --------------------------
(***************************************************************************)
(* What IOCPServer promises the application that derives from it: a        *)
(* connection is a session from OnClientJoin to OnClientLeave, and only in *)
(* between does it deliver packets to OnRecv and put packets on the wire.  *)
(***************************************************************************)
EXTENDS Integers, SequencesExt

CONSTANTS Conns

VARIABLES
  status,  \* "out", "in" or "left"
  rcvd,    \* how many packets OnRecv was given
  sent     \* the numbers of the packets on the wire, in order

vars == <<status, rcvd, sent>>

Init ==
  /\ status = [c \in Conns |-> "out"]
  /\ rcvd = [c \in Conns |-> 0]
  /\ sent = [c \in Conns |-> <<>>]

OnClientJoin(c) ==
  /\ status[c] = "out"
  /\ status' = [status EXCEPT ![c] = "in"]
  /\ UNCHANGED <<rcvd, sent>>

OnClientLeave(c) ==
  /\ status[c] = "in"
  /\ status' = [status EXCEPT ![c] = "left"]
  /\ UNCHANGED <<rcvd, sent>>

OnRecv(c) ==
  /\ status[c] = "in"
  /\ rcvd' = [rcvd EXCEPT ![c] = @ + 1]
  /\ UNCHANGED <<status, sent>>

(* Packets go out in the order in which they were queued, none twice. *)
Transmit(c) ==
  /\ status[c] = "in"
  /\ IsStrictPrefix(sent[c], sent'[c])
  /\ \A i \in 2 .. Len(sent'[c]) : sent'[c][i - 1] < sent'[c][i]
  /\ \A d \in Conns \ {c} : sent'[d] = sent[d]
  /\ UNCHANGED <<status, rcvd>>

Next == \E c \in Conns :
  OnClientJoin(c) \/ OnClientLeave(c) \/ OnRecv(c) \/ Transmit(c)

Spec == Init /\ [][Next]_vars
=============================================================================
