------------------------------ MODULE Decimator ------------------------------
(***************************************************************************)
(* What the downsampler promises, with no line buffer, no window, no loop  *)
(* counters and no frames: it takes pixels in raster order, remembers all  *)
(* of them, and gives the average of a 2x2 block as soon as the block's    *)
(* last pixel is there, the blocks in raster order too.                    *)
(***************************************************************************)
EXTENDS Pixels, Sequences

VARIABLES
    source,         \* every pixel taken, in order
    sink            \* every average given, in order

\* The block that the next average is of, and its four pixels in source.
Row == Len(sink) \div HalfColumns
Column == Len(sink) % HalfColumns
Upper == 2 * Row * Columns + 2 * Column
Lower == Upper + Columns

BlockComplete == Len(source) >= Lower + 2

Init == source = <<>> /\ sink = <<>>

\* A pixel is taken only when no average is due.
Take ==
    /\ ~BlockComplete
    /\ \E p \in Pixel : source' = Append(source, p)
    /\ UNCHANGED sink

Give ==
    /\ BlockComplete
    /\ sink' = Append(sink,
           (source[Upper + 1] + source[Upper + 2] +
            source[Lower + 1] + source[Lower + 2]) \div 4)
    /\ UNCHANGED source

Next == Take \/ Give

Spec == Init /\ [][Next]_<<source, sink>>
=============================================================================
