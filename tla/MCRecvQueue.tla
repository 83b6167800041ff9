---------------------------- MODULE MCRecvQueue ----------------------------
(***************************************************************************)
(* RecvQueue for TLC: packets whose bytes look like lengths, so that a     *)
(* misread header shows; the longest one does not fit the ring.            *)
(***************************************************************************)
EXTENDS RecvQueue

CONSTANT LongestData

MCBytes == 0 .. LongestData

(* What comes before and after the length in a header. *)
Filler(n) == [i \in 1 .. n |-> 1]
Header(n) == Filler(LengthAt - 1) \o <<n>> \o Filler(HeaderSize - LengthAt)

MCPackets == UNION {{Header(n) \o data : data \in [1 .. n -> {0, LongestData}]} : n \in MCBytes}
=============================================================================
