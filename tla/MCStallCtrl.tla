------------------------------ MODULE MCStallCtrl ------------------------------
(***************************************************************************)
(* Instances of StallCtrl for TLC.                                         *)
(***************************************************************************)
EXTENDS StallCtrl
=============================================================================
