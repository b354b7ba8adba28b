---------------------------- MODULE MCStatusState ----------------------------
(***************************************************************************)
(* Instances of StatusState for TLC.                                       *)
(***************************************************************************)
EXTENDS StatusState

CONSTANTS c1, c2
=============================================================================
