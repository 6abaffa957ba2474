----------------------------- MODULE BitmapBench -----------------------------
(***************************************************************************)
(* The Catapult program as a whole (DownSample_catapult/TestBench.cpp):    *)
(* CCS_MAIN constructs a ccs_bmpfile, writes the red of its pixels to din  *)
(* and calls the block until din is empty.  The module composes the bench  *)
(* and its block (TestBench) with the reader (BmpFile).  The OpenCV bench, *)
(* which has its image from imread, is there as it is in TestBench.        *)
(*                                                                         *)
(* The bitmap may be larger than a frame; of a smaller one red would read  *)
(* outside of the array, and the bench is not followed there.  The object  *)
(* may also be written out and read again, which the class offers and the  *)
(* bench does not do: no frame is written after that.                      *)
(*                                                                         *)
(* src is chosen at the start, from Sources, and writing begins only if it *)
(* is what red gives of the bitmap that was loaded.                        *)
(***************************************************************************)
EXTENDS TestBench, BmpFile

bitmap_vars == <<vars, file_vars>>

\* Only the Catapult bench opens a bitmap.
Opens == bench = "Catapult"

\* Where the pixels <<blue, green, red>> have their red.
Red == 3

\* The bitmap is loaded, and src is src->red(ln, px) of it.
SourceIsRed ==
    /\ file_pc = "loaded" /\ original = NoImage
    /\ Lines <= file.height /\ Columns <= file.width
    /\ src = [ln_in \in 0 .. Lines - 1 |->
                 [px_in \in 0 .. Columns - 1 |-> At(ln_in, px_in)[Red]]]

\* Without a bitmap the state of a reader says nothing; it is always the same.
BitmapInit ==
    /\ Init
    /\ FileInit
    /\ Opens \/ <<file, in, order>> =
           CHOOSE x \in Files \X Fresh \X {"left", "right"} : TRUE

\* A step of the constructor, before anything is written to din.
ReadFile ==
    /\ Opens /\ phase = "write"
    /\ Construct \/ ReadPixel24 \/ ReadPixelIndexed
    /\ UNCHANGED vars

\* The other things that can be done with the object.
UseFile ==
    /\ Opens /\ phase = "write"
    /\ Write
    /\ UNCHANGED vars

\* A step of the bench.  It goes on to its loops when the constructor is done.
Drive ==
    /\ Opens /\ phase = "write" => SourceIsRed
    /\ Next
    /\ UNCHANGED file_vars

BitmapNext == ReadFile \/ UseFile \/ Drive

\* One sequential program: it goes on until it returns.
BitmapSpec ==
    /\ BitmapInit /\ [][BitmapNext]_bitmap_vars
    /\ WF_bitmap_vars(ReadFile) /\ WF_bitmap_vars(Drive)

-----------------------------------------------------------------------------
(***************************************************************************)
(* Properties                                                              *)
(***************************************************************************)

\* What red gives of a place of the bitmap: its red, but in a build that runs the
\* right-hand getbyte first the green of a file of 24 bits.
RedOf(row, column) ==
    LET p == FormatPixel(row, column)
    IN  IF file.bitcount = 24 /\ order = "right" THEN p[2] ELSE p[Red]

BitmapAverage(r, c) ==
    (RedOf(2 * r, 2 * c) + RedOf(2 * r, 2 * c + 1) +
     RedOf(2 * r + 1, 2 * c) + RedOf(2 * r + 1, 2 * c + 1)) \div 4

\* When the Catapult bench returns, dout has the bitmap down-sampled, from the
\* top row down, although the file has its rows from the bottom up and padded:
\* of every file of 8 or 24 bits that has all of its rows.
BitmapThrough ==
    Opens /\ phase = "done" /\ Wellformed /\ file.bitcount \in {8, 24} =>
        down_image =
            [k \in 1 .. HalfLines * HalfColumns |->
                BitmapAverage((k - 1) \div HalfColumns, (k - 1) % HalfColumns)]
=============================================================================
