----------------------------- MODULE MCP2pChannel -----------------------------
(***************************************************************************)
(* The instance of the channel, in both views, for TLC.                    *)
(***************************************************************************)
EXTENDS P2pChannel
=============================================================================
