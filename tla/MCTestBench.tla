----------------------------- MODULE MCTestBench -----------------------------
(***************************************************************************)
(* Instances of TestBench for TLC: source images of six lines of four      *)
(* pixels with different averages in their blocks.                         *)
(***************************************************************************)
EXTENDS TestBench

Image(F(_, _)) == [l \in 0 .. Lines - 1 |-> [c \in 0 .. Columns - 1 |-> F(l, c)]]

Gradient(l, c) == (l * Columns + c) % PixelLevels
Checker(l, c) == (13 * l + 7 * c + 5 * ((l \div 2) % 2)) % PixelLevels
Bright(l, c) == PixelLevels - 1 - l

TestImages == {Image(Gradient), Image(Checker), Image(Bright)}
=============================================================================
