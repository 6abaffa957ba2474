---------------------------- MODULE MCDownSample ----------------------------
(***************************************************************************)
(* The instance of the block, in both settings of its channels, for TLC.   *)
(***************************************************************************)
EXTENDS DownSampleInv

\* 4x4 frames whose 2x2 blocks have different averages, dark and saturated
\* ones, the halves of a frame and a frame and a half.
Ramp == [i \in 1 .. 16 |-> (5 * i) % 16]
Slope == [i \in 1 .. 16 |-> (i * i + 3) % 16]
White == [i \in 1 .. 16 |-> PixelLevels - 1]
Black == [i \in 1 .. 16 |-> 0]
WideFrames ==
    {Ramp, Slope, White, Black, SubSeq(Ramp, 1, 9), SubSeq(Slope, 10, 16)}

\* Two frames each.
TwoFrames == {Ramp \o Slope, Slope \o Ramp, White \o Ramp, Slope \o Black}
=============================================================================
