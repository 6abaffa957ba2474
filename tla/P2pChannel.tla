------------------------------ MODULE P2pChannel ------------------------------
(***************************************************************************)
(* chan of ccs_p2p_fifo.h in its two views.  Its template parameter        *)
(* impl_abstraction says, for good, whether it is made of signals (SYN),   *)
(* as P2pFifo has it, or holds a tlm_fifo (TLM), as TlmFifo has it.        *)
(*                                                                         *)
(* In the second view read, nb_read, write and nb_write are get, nb_get,   *)
(* put and nb_put, and reset_read is as many nb_get as return true.  The   *)
(* fifo is a public member, so all its other operations are there too.     *)
(***************************************************************************)
EXTENDS P2pFifo, TlmFifo

VARIABLE impl_abstraction

tlm_vars == vars
channel_vars == <<impl_abstraction, p2p_vars, tlm_vars>>

\* The tlm_fifo is constructed with the depth of the channel.
ChannelInit ==
    /\ impl_abstraction \in {"SYN", "TLM"}
    /\ P2pInit
    /\ Init
    /\ impl_abstraction = "TLM" => depth = InitSize

\* The channel is in the one view, and nothing happens in the other.
Syn == impl_abstraction = "SYN" /\ UNCHANGED <<impl_abstraction, tlm_vars>>
Tlm == impl_abstraction = "TLM" /\ UNCHANGED <<impl_abstraction, p2p_vars>>

ChannelNext ==
    \/ Syn /\ P2pNext
    \/ Tlm /\ Next

\* The fairness of both views: the clock runs and the reader reads again and again;
\* the kernel runs every process that can run, and goes on with the cycle.
ChannelSpec ==
    /\ ChannelInit /\ [][ChannelNext]_channel_vars
    /\ WF_channel_vars(Syn /\ ClockEdge) /\ WF_channel_vars(Syn /\ ReadingEdge)
    /\ \A r \in Readers : WF_channel_vars(Tlm /\ ReaderStep(r))
    /\ \A w \in Writers : WF_channel_vars(Tlm /\ WriterStep(w))
    /\ WF_channel_vars(Tlm /\ Update)
    /\ WF_channel_vars(Tlm /\ Deliver /\ UNCHANGED fifoVars)
=============================================================================
