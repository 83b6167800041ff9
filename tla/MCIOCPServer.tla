---------------------------- MODULE MCIOCPServer ----------------------------
(***************************************************************************)
(* IOCPServer for TLC, with the refinement mapping to SessionRegistry.     *)
(***************************************************************************)
EXTENDS IOCPServerProperties, TLC

Symmetry == Permutations(Workers) \cup Permutations(Users) \cup Permutations(Conns)

Registry == INSTANCE SessionRegistry WITH
  status <- [c \in Conns |-> IF idOf[c] = NoId THEN "out"
                             ELSE IF idOf[c] \in LeftIds THEN "left" ELSE "in"],
  rcvd <- [c \in Conns |-> Len(SelectSeq(received, LAMBDA r : r.id = idOf[c] /\ r.id # NoId))],
  sent <- [c \in Conns |-> [i \in 1 .. Len(wire[c]) |-> wire[c][i].no]]

(* The callbacks and the wire see sessions that begin and end once. *)
ImplementsSessionRegistry == Registry!Spec
=============================================================================
