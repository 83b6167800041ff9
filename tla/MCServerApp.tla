----------------------------- MODULE MCServerApp -----------------------------
(***************************************************************************)
(* IOCPServer with an application thread, for TLC.  A behaviour has two     *)
(* workers and one connection, or one worker and two connections, of which *)
(* the second gets the slot of the first.                                  *)
(***************************************************************************)
EXTENDS IOCPServerProperties, TLC

CONSTANT Together  \* bound of the model: workers and connections, in all

VARIABLES
  crew,   \* the workers that run
  guests  \* the connections that are made

allVars == <<vars, crew, guests>>

MCInit ==
  /\ Init
  /\ crew \in SUBSET Workers /\ guests \in SUBSET Conns
  /\ crew # {} /\ guests # {}
  /\ Cardinality(crew) + Cardinality(guests) = Together

MCNext ==
  /\ Next
  /\ \A w \in Workers \ crew : todo'[w] = <<>>
  /\ \A c \in Conns \ guests : sock'[c] = "backlog"
  /\ UNCHANGED <<crew, guests>>

MCSpec == MCInit /\ [][MCNext]_allVars

Symmetry == Permutations(Workers) \cup Permutations(Conns)
=============================================================================
