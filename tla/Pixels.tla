------------------------------- MODULE Pixels -------------------------------
(***************************************************************************)
(* The values the modules of the downsampler share.                        *)
(***************************************************************************)
EXTENDS Integers

CONSTANTS
    Columns,        \* pixels of an input line (752)
    PixelLevels     \* values of a pixel (256, uint8)

ASSUME ColumnsAssumption == Columns \in Nat \ {0} /\ Columns % 2 = 0
ASSUME PixelLevelsAssumption == PixelLevels \in Nat \ {0}

Pixel == 0 .. PixelLevels - 1
HalfColumns == Columns \div 2

\* Two pixels: a uint8[2], or the two bytes of a uint16, low byte first.
Pair == [{0, 1} -> Pixel]
ZeroPair == [h \in {0, 1} |-> 0]
=============================================================================
