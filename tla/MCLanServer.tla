---------------------------- MODULE MCLanServer ----------------------------
(***************************************************************************)
(* LanServer for TLC.  Connections, workers and application threads are    *)
(* alike.                                                                  *)
(***************************************************************************)
EXTENDS LanServer

Symmetry == Permutations(Conns) \cup Permutations(Users) \cup Permutations(Workers)

(* Connections, inputs and the call of Stop are three together: one         *)
(* connection and two inputs; two, the second mostly in the first one's     *)
(* slot, and one; three and none.                                          *)
Bound ==
  Cardinality({c \in Conns : sock[c] # "backlog"}) + inputs + (IF stopping THEN 1 ELSE 0) <= 3
=============================================================================
