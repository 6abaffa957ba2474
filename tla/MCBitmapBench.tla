---------------------------- MODULE MCBitmapBench ----------------------------
(***************************************************************************)
(* The instance of BitmapBench for TLC.  Some of the bitmaps have a whole  *)
(* frame, and some of these more than one, with rows that need padding and *)
(* rows that do not.                                                       *)
(***************************************************************************)
EXTENDS BitmapBench, MCTestBench, MCBmpFile

LargeFiles ==
    {File(8, 4, 6, 37), File(8, 6, 7, 1), File(24, 4, 6, 1), File(24, 5, 7, 37)}
BenchFiles == AllFiles \cup LargeFiles

\* The k-th byte of the pixel at a place of the file, rows from the bottom up.
PixelByte(f, row, column, k) ==
    LET start == row * RowBytes(f.bitcount, f.width)
    IN  IF f.bitcount = 24 THEN f.data[start + 3 * column + k]
                           ELSE Colour(f.data[start + column + 1])[k]

\* Red of a file, and green, which a 24-bit file may show instead.
FileImages(f) ==
    {Image(LAMBDA l, c : PixelByte(f, f.height - 1 - l, c, k)) :
        k \in IF f.bitcount = 24 THEN {2, 3} ELSE {3}}

\* Among the sources is also a bitmap upside down.
UpsideDown(f) == Image(LAMBDA l, c : PixelByte(f, l, c, 3))

BenchSources ==
    TestImages \cup UNION {FileImages(f) : f \in LargeFiles}
               \cup {UpsideDown(File(24, 4, 6, 1))}
=============================================================================
