------------------------------ MODULE TestBench ------------------------------
(***************************************************************************)
(* The two programs that drive the downsampler: main of the OpenCV bench   *)
(* and CCS_MAIN of the Catapult bench (TestBench.cpp of each variant).     *)
(*                                                                         *)
(* Both write one source frame to din, call the block while din has a      *)
(* pixel, and stop.  In between the OpenCV bench moves the                 *)
(* averages from dout into an image, at the position that two counters     *)
(* give; the Catapult bench leaves dout as it is.                          *)
(*                                                                         *)
(* The OpenCV bench declares "uint9 ln_out, px_out = 0;": only px_out gets *)
(* a value, and ln_out starts as whatever its storage holds.               *)
(***************************************************************************)
EXTENDS Pixels, Sequences

CONSTANTS
    Lines, LnLevels, PxLevels,  \* as in DownSample
    Sources,    \* the source images, [0 .. Lines - 1 -> [0 .. Columns - 1 -> Pixel]]
    Benches     \* the benches: a subset of {"OpenCV", "Catapult"}

ASSUME LinesAssumption == Lines \in Nat \ {0} /\ Lines % 2 = 0
ASSUME CountersAssumption ==
    /\ LnLevels \in Nat /\ Lines < LnLevels
    /\ PxLevels \in Nat /\ Columns < PxLevels
ASSUME SourcesAssumption ==
    Sources \subseteq [0 .. Lines - 1 -> [0 .. Columns - 1 -> Pixel]]

\* Room for the bound of the bench's own uint9 px_out.
ASSUME OutCountersAssumption == HalfColumns < LnLevels
ASSUME BenchesAssumption == Benches \subseteq {"OpenCV", "Catapult"}

VARIABLES
    line0, wr_buffer, rd_buffer, rd_data, shreg_y0, shreg_y1,
    image, down_image, ln, px, pc, taken, frames,   \* those of DownSample
    bench,          \* which bench it is
    phase,          \* "write", "run", "collect" or "done"
    src,            \* the source image: rgb2grayImg, or the file's red channel
    ln_out, px_out, \* where the next average goes
    mat,            \* the image DownSample of the OpenCV bench
    collected       \* history: the averages read from dout

HalfLines == Lines \div 2
FrameSize == Lines * Columns

\* The pixels of a source image in the order of the two loops that write din.
Raster(f) ==
    [i \in 1 .. FrameSize |-> f[(i - 1) \div Columns][(i - 1) % Columns]]
Frames == {Raster(f) : f \in Sources}

Block == INSTANCE DownSample WITH Supplies <- Frames, MaxPixels <- FrameSize

blockVars == <<line0, wr_buffer, rd_buffer, rd_data, shreg_y0, shreg_y1,
               image, down_image, ln, px, pc, taken, frames>>
benchVars == <<bench, phase, src, ln_out, px_out, mat, collected>>
vars == <<blockVars, benchVars>>

\* Only the OpenCV bench reads dout.
Collects == bench = "OpenCV"

TypeOK ==
    /\ Block!TypeOK
    /\ bench \in Benches
    /\ phase \in {"write", "run", "collect", "done"}
    /\ src \in Sources
    /\ ln_out \in 0 .. LnLevels - 1
    /\ px_out \in 0 .. HalfColumns
    /\ mat \in [0 .. HalfLines - 1 -> [0 .. HalfColumns - 1 -> Pixel]]
    /\ collected \in Seq(Pixel)

Init ==
    /\ Block!Init
    /\ bench \in Benches
    /\ phase = "write"
    /\ src \in Sources
    /\ ln_out \in IF Collects THEN 0 .. LnLevels - 1 ELSE {0}
    /\ px_out = 0
    /\ mat = [r \in 0 .. HalfLines - 1 |-> [c \in 0 .. HalfColumns - 1 |-> 0]]
    /\ collected = <<>>

-----------------------------------------------------------------------------
\* Mutant: the writing loops start at the second pixel.
WriteFrameFromOne ==
    /\ phase = "write"
    /\ Block!WritePixels(Tail(Raster(src)))
    /\ phase' = "run"
    /\ UNCHANGED <<bench, src, ln_out, px_out, mat, collected>>

\* The loops around din.write.
WriteFrame ==
    /\ phase = "write"
    /\ Block!WritePixels(Raster(src))
    /\ phase' = "run"
    /\ UNCHANGED <<bench, src, ln_out, px_out, mat, collected>>

\* while (din.available(1)) inst.run(din, dout), one step of a call at a time.
RunBlock ==
    /\ phase = "run"
    /\ Block!Call \/ Block!ReadPixel \/ Block!ReadFails \/ Block!Emit
    /\ UNCHANGED benchVars

\* Mutant: the loop tests available(0), which always holds.
RunEndsNever ==
    /\ phase = "run"
    /\ pc = "idle"
    /\ ~Block!Available(image, 0)
    /\ phase' = IF Collects THEN "collect" ELSE "done"
    /\ UNCHANGED <<blockVars, bench, src, ln_out, px_out, mat, collected>>

\* Mutant: the loop's condition is inverted.
RunEndsAtOnce ==
    /\ phase = "run"
    /\ pc = "idle"
    /\ Block!Available(image, 1)
    /\ phase' = IF Collects THEN "collect" ELSE "done"
    /\ UNCHANGED <<blockVars, bench, src, ln_out, px_out, mat, collected>>

RunEnds ==
    /\ phase = "run"
    /\ pc = "idle"
    /\ ~Block!Available(image, 1)
    /\ phase' = IF Collects THEN "collect" ELSE "done"
    /\ UNCHANGED <<blockVars, bench, src, ln_out, px_out, mat, collected>>

\* The counters as the two tests of the collecting loop leave them.
LineBreak == px_out >= HalfColumns
Col == IF LineBreak THEN 0 ELSE px_out
\* Mutant: the line counter does not wrap to the first line.
LineNoWrap == IF LineBreak THEN (ln_out + 1) % LnLevels ELSE ln_out

Line ==
    LET l == IF LineBreak THEN (ln_out + 1) % LnLevels ELSE ln_out
    IN  IF l >= HalfLines THEN 0 ELSE l

\* DownSample.at<uchar>(ln_out, px_out) = dout.read()
Collect ==
    /\ phase = "collect"
    /\ Block!Available(down_image, 1)
    /\ ln_out' = Line
    /\ px_out' = (Col + 1) % LnLevels
    /\ mat' = [mat EXCEPT ![Line][Col] = Head(down_image)]
    /\ down_image' = Tail(down_image)
    /\ collected' = Append(collected, Head(down_image))
    /\ UNCHANGED <<line0, wr_buffer, rd_buffer, rd_data, shreg_y0, shreg_y1,
                   image, ln, px, pc, taken, frames, bench, phase, src>>

\* Mutant: the collecting loop stops before the last average.
CollectEndsEarly ==
    /\ phase = "collect"
    /\ ~Block!Available(down_image, 2)
    /\ phase' = "done"
    /\ UNCHANGED <<blockVars, bench, src, ln_out, px_out, mat, collected>>

CollectEnds ==
    /\ phase = "collect"
    /\ ~Block!Available(down_image, 1)
    /\ phase' = "done"
    /\ UNCHANGED <<blockVars, bench, src, ln_out, px_out, mat, collected>>

Next == WriteFrame \/ RunBlock \/ RunEnds \/ Collect \/ CollectEnds

\* The bench is one sequential program: it goes on until it returns.
Spec == Init /\ [][Next]_vars /\ WF_vars(Next)

-----------------------------------------------------------------------------
(***************************************************************************)
(* Properties                                                              *)
(***************************************************************************)

\* The average of a 2x2 block of the source image itself.
Expected(r, c) ==
    (src[2 * r][2 * c] + src[2 * r][2 * c + 1] +
     src[2 * r + 1][2 * c] + src[2 * r + 1][2 * c + 1]) \div 4

\* The image that is shown holds every average once, in raster order, but for
\* a rotation of its lines: ln_out wraps from the last line to the first, so a
\* start anywhere loses no average and overwrites none.
ShownUpToRotation ==
    Collects /\ phase = "done" =>
        \E s \in 0 .. HalfLines - 1 :
            \A r \in 0 .. HalfLines - 1, c \in 0 .. HalfColumns - 1 :
                mat[(r + s) % HalfLines][c] = Expected(r, c)

\* The averages are shown where they belong.  The Catapult bench declares the
\* same counters with "uint9 ln_out = 0;" (TestBench.cpp:17).
ShownInPlace ==
    Collects /\ phase = "done" =>
        \A r \in 0 .. HalfLines - 1, c \in 0 .. HalfColumns - 1 :
            mat[r][c] = Expected(r, c)

\* When the bench returns, din is used up, the block has returned once, and the
\* averages of the frame were all collected or, in the Catapult bench, all
\* still are in dout, in raster order.
OneFrameThrough ==
    phase = "done" =>
        /\ image = <<>> /\ pc = "idle" /\ frames = 1
        /\ (down_image = <<>>) <=> Collects
        /\ collected \o down_image =
               [k \in 1 .. HalfLines * HalfColumns |->
                    Expected((k - 1) \div HalfColumns, (k - 1) % HalfColumns)]

\* The bench returns: no read finds its channel empty, and no loop is endless.
\* Before it runs, the Catapult bench may still be waiting for its image.
BenchReturns == Collects \/ phase = "run" ~> phase = "done"

\* Seen from the block, the bench is a caller as DownSample assumes it: it
\* writes between calls only, whole frames, and reading dout disturbs nothing.
Caller == INSTANCE DownSample WITH
    Supplies <- Frames,
    MaxPixels <- FrameSize,
    down_image <- collected \o down_image
BenchIsCaller == Caller!Spec
=============================================================================
