------------------------------ MODULE MCPoller ------------------------------
(***************************************************************************)
(* Instance of Poller for TLC: three devices, the middle one with two      *)
(* blocks.                                                                 *)
(***************************************************************************)
EXTENDS Poller

MCBlocks == <<1, 2, 1>>
=============================================================================
