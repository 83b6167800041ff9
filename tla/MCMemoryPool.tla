---------------------------- MODULE MCMemoryPool ----------------------------
(***************************************************************************)
(* MemoryPool for TLC.                                                     *)
(***************************************************************************)
EXTENDS MemoryPool, TLC

Symmetry == Permutations(Threads) \cup Permutations(Nodes)
=============================================================================
