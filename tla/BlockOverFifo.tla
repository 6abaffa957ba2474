----------------------------- MODULE BlockOverFifo -----------------------------
(***************************************************************************)
(* The block with its channels as they really are: on their own, deques    *)
(* that a caller fills between calls, or bound to the ports of two         *)
(* sc_fifos (ac_channel.h), where the block is a process of a simulation,  *)
(* a read of an empty fifo and a write to a full one block, and a source   *)
(* and a sink work while a call is in progress.                            *)
(*                                                                         *)
(* It composes the block (DownSample) with two fifos as DeltaFifo          *)
(* describes them and ScFifo implements them.  image is what can be read   *)
(* of the input fifo in this cycle; down_image is the history of what the  *)
(* block wrote.                                                            *)
(***************************************************************************)
EXTENDS DownSample

CONSTANTS
    InSize, OutSize,
    Streams         \* what the source may feed in all

ASSUME SizesAssumption == {InSize, OutSize} \subseteq Nat \ {0}
ASSUME StreamsAssumption == Streams \subseteq Seq(Pixel)

VARIABLES
    bound,                                  \* whether the channels are bound to ports
    stream,                                 \* what the source feeds
    in_fresh, in_taken, in_got,             \* the rest of the input fifo
    out_visible, out_fresh, out_taken, out_got,
    shown                                   \* history: what the sink got

inFifo == <<in_fresh, in_taken, in_got>>
outFifo == <<out_visible, out_fresh, out_taken, out_got>>
setting == <<bound, stream>>
fifoVars == <<setting, inFifo, outFifo, shown>>
allVars == <<vars, fifoVars>>

In == INSTANCE DeltaFifo WITH
    Size <- InSize, Values <- Pixel, Readers <- {"block"}, NoValue <- 0,
    visible <- image, fresh <- in_fresh, taken <- in_taken,
    got <- in_got

Out == INSTANCE DeltaFifo WITH
    Size <- OutSize, Values <- Pixel, Readers <- {"sink"}, NoValue <- 0,
    visible <- out_visible, fresh <- out_fresh, taken <- out_taken,
    got <- out_got

InitOver ==
    /\ Init
    /\ bound \in BOOLEAN
    /\ stream \in IF bound THEN Streams ELSE {<<>>}
    /\ In!Init
    /\ Out!Init
    /\ shown = <<>>

blockState == <<lnVars, shregVars, down_image, counters, pc, frames>>

-----------------------------------------------------------------------------
(***************************************************************************)
(* Bound to fifos                                                          *)
(***************************************************************************)

Fed == Len(taken) + Len(image) + Len(in_fresh)

\* The source writes the next pixel.
Feed ==
    /\ Fed < Len(stream)
    /\ In!Put(stream[Fed + 1])
    /\ UNCHANGED <<blockState, taken, setting, outFifo, shown>>

\* The call and its guard, num_available() >= 1.
CallOver == bound /\ Call /\ UNCHANGED fifoVars

\* sc_fifo::read once it has a value; without one the block waits in it.
ReadOver ==
    /\ bound
    /\ ReadPixel
    /\ In!Get("block")
    /\ UNCHANGED <<setting, outFifo, shown>>

Due == ln % 2 = 1 /\ px % 2 = 1

\* Mutant: an average that finds no room is dropped, a write that does not block.
EmitOrDrop ==
    /\ bound
    /\ Emit
    /\ IF Due /\ Len(out_visible) + out_taken + Len(out_fresh) < OutSize
         THEN Out!Put(WindowAverage) ELSE UNCHANGED outFifo
    /\ UNCHANGED <<setting, inFifo, shown>>

\* The write of an average waits for room; without one due there is no write.
EmitOver ==
    /\ bound
    /\ Emit
    /\ IF Due THEN Out!Put(WindowAverage) ELSE UNCHANGED outFifo
    /\ UNCHANGED <<setting, inFifo, shown>>

\* The sink reads an average.
Drain ==
    /\ out_visible # <<>>
    /\ shown' = Append(shown, Head(out_visible))
    /\ Out!Get("sink")
    /\ UNCHANGED <<vars, setting, inFifo>>

\* Both fifos are updated at the end of a delta cycle.
EndCycle ==
    /\ bound
    /\ in_fresh # <<>> \/ in_taken > 0 \/ out_fresh # <<>> \/ out_taken > 0
    /\ In!EndCycle
    /\ Out!EndCycle
    /\ UNCHANGED <<blockState, taken, setting, shown>>

-----------------------------------------------------------------------------
(***************************************************************************)
(* On their own, all together                                              *)
(***************************************************************************)

Supply == ~bound /\ (\E s \in Supplies : WritePixels(s)) /\ UNCHANGED fifoVars

BlockFree ==
    /\ ~bound
    /\ Call \/ ReadPixel \/ ReadFails \/ Emit
    /\ UNCHANGED fifoVars

BlockStep == BlockFree \/ CallOver \/ ReadOver \/ EmitOver

\* Everything fed has been through; or the program stopped, or has nothing left.
Finished ==
    IF bound THEN Fed = Len(stream) /\ pc = "idle" /\ image = <<>> /\ in_fresh = <<>>
                  /\ Len(shown) = Len(down_image)
             ELSE pc = "failed" \/ (pc = "idle" /\ image = <<>>)

NextOver ==
    \/ Supply
    \/ BlockStep
    \/ Feed
    \/ Drain
    \/ EndCycle

SpecOver == InitOver /\ [][NextOver]_allVars

\* The block runs to its end once it is called, and is called again while a pixel
\* is left; source and sink go on when they can, and cycles end.
FairSpecOver ==
    /\ SpecOver
    /\ WF_allVars(BlockStep)
    /\ WF_allVars(Feed)
    /\ WF_allVars(Drain)
    /\ WF_allVars(EndCycle)

-----------------------------------------------------------------------------
\* Between source and sink no pixel is lost, invented or overtaken: what the block
\* took and what the input fifo has is, in order, what was fed of the stream; what
\* the sink got and what the output fifo has is, in order, what the block wrote.
NothingLost ==
    bound =>
        /\ taken \o image \o in_fresh = SubSeq(stream, 1, Fed)
        /\ shown \o out_visible \o out_fresh = down_image

\* Again and again everything that was supplied or fed is through.  On their own
\* that is because a call is made while a pixel is left and every call ends: the
\* counters reach their bounds, which their widths must allow.  Where the channel
\* on its own stops the program, the bound block waits: however much smaller than
\* a frame the fifos are, all frames come out, and nobody waits for ever.
AllFramesOut == []<>Finished
=============================================================================
