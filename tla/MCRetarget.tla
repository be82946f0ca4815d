----------------------------- MODULE MCRetarget -----------------------------
(***************************************************************************)
(* Retarget for TLC.                                                       *)
(***************************************************************************)
EXTENDS Retarget
=============================================================================
