------------------------------ MODULE MCTlmFifo ------------------------------
(***************************************************************************)
(* The instance of TlmFifo for TLC.                                        *)
(***************************************************************************)
EXTENDS TlmFifo
=============================================================================
