------------------------------ MODULE MCSbuf ------------------------------
(***************************************************************************)
(* Sbuf for TLC.                                                           *)
(***************************************************************************)
EXTENDS Sbuf, TLC

Symmetry == Permutations(Threads) \cup Permutations(Bufs)
=============================================================================
