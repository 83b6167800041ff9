---------------------------- MODULE Occurrences ----------------------------
(***************************************************************************)
(* How often members of a set occur in a sequence, and in all sequences of *)
(* a function.                                                             *)
(***************************************************************************)
EXTENDS Integers, FiniteSets, Sequences

(* Where members of M are in q. *)
Positions(q, M) == {i \in 1 .. Len(q) : q[i] \in M}

Occ(q, M) == Cardinality(Positions(q, M))

(* The same for queues Q[x]. *)
Queues(D, S) == [D -> Seq(S)]

(* A step from Q to R that changes the queue of x at most. *)
ChangesAt(D, S, Q, R, x) ==
  /\ Q \in Queues(D, S) /\ R \in Queues(D, S) /\ x \in D
  /\ \A y \in D \ {x} : R[y] = Q[y]

(* A step that puts e last in it, and one that takes the first off. *)
AppendsAt(D, S, Q, R, x, e) ==
  ChangesAt(D, S, Q, R, x) /\ e \in S /\ R[x] = Append(Q[x], e)

TailsAt(D, S, Q, R, x) ==
  ChangesAt(D, S, Q, R, x) /\ Q[x] # <<>> /\ R[x] = Tail(Q[x])

Places(Q, M) == UNION {{x} \X Positions(Q[x], M) : x \in DOMAIN Q}

Total(Q, M) == Cardinality(Places(Q, M))
=============================================================================
