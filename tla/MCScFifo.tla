------------------------------ MODULE MCScFifo ------------------------------
(***************************************************************************)
(* The instance of ScFifo for TLC.  Its processes and values are model     *)
(* values; they are no sets of symmetry, since liveness is checked.        *)
(***************************************************************************)
EXTENDS ScFifo
=============================================================================
