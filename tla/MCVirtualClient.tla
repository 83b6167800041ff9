-------------------------- MODULE MCVirtualClient --------------------------
(***************************************************************************)
(* VirtualClient for TLC.  A behaviour has one worker, one input and all of *)
(* the client: its connections end and the socket and the slot are used    *)
(* again.  Or it has two workers and MaxInputs inputs, senders and          *)
(* wake-ups contending for the flags, and is cut where the application      *)
(* shuts the connection down or a worker closes its socket.                 *)
(***************************************************************************)
EXTENDS VirtualClient, TLC

VARIABLE crew  \* the workers that run

allVars == <<vars, crew>>

MCInit == Init /\ crew \in SUBSET Workers \ {{}}

(* The application has not shut the connection down, and no worker has     *)
(* closed it.                                                              *)
Up ==
  /\ ~clientShutdownFlag
  /\ \A s \in Slots : sess[s].disconnectAfterSend = 0
  /\ \A c \in Conns : sock[c] # "closed"
  /\ \A u \in Users, s \in Slots : todo[u] # <<Frame("shutdown", s)>>

MCNext ==
  /\ Next
  /\ \A w \in Workers \ crew : todo'[w] = <<>>
  /\ IF Cardinality(crew) = 1 THEN inputs' <= 1 ELSE Up'
  /\ UNCHANGED crew

MCSpec == MCInit /\ [][MCNext]_allVars

Symmetry == Permutations(Workers)
=============================================================================
