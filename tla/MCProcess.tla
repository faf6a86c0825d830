----------------------------- MODULE MCProcess -----------------------------
(***************************************************************************)
(* Instances of Process for TLC.  Tids are handed out in order, so there   *)
(* is no symmetry to use.                                                  *)
(***************************************************************************)
EXTENDS Process
=============================================================================
