---------------------------- MODULE MCLanClient ----------------------------
(***************************************************************************)
(* LanClient for TLC.                                                      *)
(***************************************************************************)
EXTENDS LanClient
=============================================================================
