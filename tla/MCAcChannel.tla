------------------------------ MODULE MCAcChannel ------------------------------
(***************************************************************************)
(* Instances of AcChannel for TLC, one per way to bind it.                 *)
(***************************************************************************)
EXTENDS AcChannel
=============================================================================
