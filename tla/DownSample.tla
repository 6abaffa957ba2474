----------------------------- MODULE DownSample -----------------------------
(***************************************************************************)
(* The block DownSample and its top function go (class_hier_design.cpp;    *)
(* the same code is a class in the OpenCV variant).  A call halves one     *)
(* frame of Lines x Columns pixels in both directions: it reads the pixels *)
(* in raster order from the channel Image and writes, for every 2x2 block, *)
(* the average of its four pixels to the channel DownImage.                *)
(*                                                                         *)
(* The C++ program is sequential.  A caller writes pixels to Image between *)
(* calls (WritePixels) and calls the block while Image has one (Call).     *)
(* One iteration of the loop body is two steps, split at its only early    *)
(* exit: ReadPixel reads and runs the line buffer and the window, and      *)
(* ReadFails is the assertion of a read from an empty channel; Emit writes *)
(* the average, if there is one, and advances the counters.                *)
(*                                                                         *)
(* The channels are unbound ac_channels, that is, std::deques.  Nothing    *)
(* in this module reads DownImage, so it also is the history of what was   *)
(* written.                                                                *)
(***************************************************************************)
EXTENDS DownLn, DownShreg, Sequences

CONSTANTS
    Lines,          \* lines of an input frame (480)
    LnLevels,       \* values of the counter ln (512, uint9)
    PxLevels,       \* values of the counter px (1024, uint10)
    Supplies,       \* what the caller may write between two calls
    MaxPixels       \* bound: pixels the caller writes in a behaviour

ASSUME LinesAssumption == Lines \in Nat \ {0} /\ Lines % 2 = 0

\* Without room for the bound itself, a counter would wrap before its loop ends.
ASSUME CountersAssumption ==
    /\ LnLevels \in Nat /\ Lines < LnLevels
    /\ PxLevels \in Nat /\ Columns < PxLevels

ASSUME SuppliesAssumption == Supplies \subseteq Seq(Pixel)
ASSUME MaxPixelsAssumption == MaxPixels \in Nat

VARIABLES
    image,          \* the channel Image, oldest pixel first
    down_image,     \* the channel DownImage, oldest pixel first
    ln, px,         \* the loop counters
    pc,             \* "idle" between calls, "read" and "emit" in the loop,
                    \* "failed" once the assertion of a read has fired
    taken,          \* history: the pixels read so far, in order
    frames          \* history: the calls that have returned

channels == <<image, down_image>>
counters == <<ln, px>>
history == <<taken, frames>>
vars == <<lnVars, shregVars, channels, counters, pc, history>>

FrameSize == Lines * Columns

TypeOK ==
    /\ LnTypeOK
    /\ ShregTypeOK
    /\ image \in Seq(Pixel)
    /\ down_image \in Seq(Pixel)
    /\ ln \in 0 .. Lines - 1
    /\ px \in 0 .. Columns - 1
    /\ pc \in {"idle", "read", "emit", "failed"}
    /\ taken \in Seq(Pixel)
    /\ frames \in Nat

Init ==
    /\ LnInit
    /\ ShregInit
    /\ image = <<>>
    /\ down_image = <<>>
    /\ ln = 0
    /\ px = 0
    /\ pc = "idle"
    /\ taken = <<>>
    /\ frames = 0

-----------------------------------------------------------------------------
\* The caller's loop around din.write: no call is in progress.
WritePixels(s) ==
    /\ pc = "idle"
    /\ Len(taken) + Len(image) + Len(s) <= MaxPixels
    /\ image' = image \o s
    /\ UNCHANGED <<lnVars, shregVars, down_image, counters, pc, history>>

\* ac_channel::available
Available(channel, k) == Len(channel) >= k

\* Mutant: no guard, as in FP1_detect (detect.cpp).
CallUnguarded ==
    /\ pc = "idle"
    /\ pc' = "read"
    /\ ln' = 0
    /\ px' = 0
    /\ UNCHANGED <<lnVars, shregVars, channels, history>>

\* while (din.available(1)) go(din, dout), and the guard of the block.
Call ==
    /\ pc = "idle"
    /\ Available(image, 1)
    /\ pc' = "read"
    /\ ln' = 0
    /\ px' = 0
    /\ UNCHANGED <<lnVars, shregVars, channels, history>>

\* The window is fed with the line buffer's output of this very iteration.
ReadPixel ==
    /\ pc = "read"
    /\ image # <<>>
    /\ LnProcess(Head(image), ln, px)
    /\ ShregProcess(rd_data', px)
    /\ image' = Tail(image)
    /\ taken' = Append(taken, Head(image))
    /\ pc' = "emit"
    /\ UNCHANGED <<down_image, counters, frames>>

\* AC_CHANNEL_ASSERT(size(), read_from_empty_channel) ends the program.
ReadFails ==
    /\ pc = "read"
    /\ image = <<>>
    /\ pc' = "failed"
    /\ UNCHANGED <<lnVars, shregVars, channels, counters, history>>

\* Mutant: px is one bit narrower, a uint9 for a bound of 752.
NextPxNarrow == (px + 1) % (PxLevels \div 2)

NextPx == (px + 1) % PxLevels
NextLn == (ln + 1) % LnLevels

\* The increments and tests of the two loops; the last one is the return.
Advance ==
    \/ /\ NextPx < Columns
       /\ px' = NextPx
       /\ pc' = "read"
       /\ UNCHANGED <<ln, frames>>
    \/ /\ ~(NextPx < Columns)
       /\ NextLn < Lines
       /\ ln' = NextLn
       /\ px' = 0
       /\ pc' = "read"
       /\ UNCHANGED frames
    \/ /\ ~(NextPx < Columns)
       /\ ~(NextLn < Lines)
       /\ ln' = 0
       /\ px' = 0
       /\ pc' = "idle"
       /\ frames' = frames + 1

\* Mutant: the line's parity is not tested.
EmitEveryLine ==
    /\ pc = "emit"
    /\ down_image' = IF px % 2 = 1 THEN Append(down_image, WindowAverage)
                                   ELSE down_image
    /\ Advance
    /\ UNCHANGED <<lnVars, shregVars, image, taken>>

\* Mutant: the average is written at the block's even column.
EmitEarly ==
    /\ pc = "emit"
    /\ down_image' = IF ln % 2 = 1 /\ px % 2 = 0
                       THEN Append(down_image, WindowAverage)
                       ELSE down_image
    /\ Advance
    /\ UNCHANGED <<lnVars, shregVars, image, taken>>

Emit ==
    /\ pc = "emit"
    /\ down_image' = IF ln % 2 = 1 /\ px % 2 = 1
                       THEN Append(down_image, WindowAverage)
                       ELSE down_image
    /\ Advance
    /\ UNCHANGED <<lnVars, shregVars, image, taken>>

Next ==
    \/ \E s \in Supplies : WritePixels(s)
    \/ Call
    \/ ReadPixel
    \/ ReadFails
    \/ Emit

\* The block is straight-line code that runs to its end once it is called, and
\* the caller's loop calls it again while a pixel is left.
Fairness == WF_vars(Call) /\ WF_vars(ReadPixel \/ ReadFails \/ Emit)

Spec == Init /\ [][Next]_vars
FairSpec == Spec /\ Fairness
-----------------------------------------------------------------------------
(***************************************************************************)
(* Properties                                                              *)
(***************************************************************************)

\* The pixel of column c of line g, counting lines through all frames.
PixelAt(g, c) == taken[g * Columns + c + 1]

\* The average of the 2x2 block in column c of block row r.
BlockAverage(r, c) ==
    (PixelAt(2 * r, 2 * c) + PixelAt(2 * r, 2 * c + 1) +
     PixelAt(2 * r + 1, 2 * c) + PixelAt(2 * r + 1, 2 * c + 1)) \div 4

\* Every pixel written is the average of the 2x2 block at its own place in the
\* raster, of its own frame: no value that line0, the buffers or the window
\* still hold from an earlier pair, line, frame or call leaks into it.
DownSampled ==
    \A k \in 1 .. Len(down_image) :
        down_image[k] =
            BlockAverage((k - 1) \div HalfColumns, (k - 1) % HalfColumns)

\* A call that has returned has read one frame and written a quarter of it, no
\* pixel more or less, so that the frames of a stream stay aligned.
FramesAligned ==
    pc = "idle" =>
        /\ Len(taken) = frames * FrameSize
        /\ 4 * Len(down_image) = Len(taken)

\* The assertion in ac_channel::read can fire, because the block's guard
\* available(1) covers one read of a whole frame's; but only in a call that
\* began with less than a frame in the channel, and never on the first pixel.
FailsOnlyOnShortFrame ==
    pc = "failed" => Len(taken) % FrameSize # 0 /\ image = <<>>

\* The block implements the decimator that remembers every pixel it took.
Abstract == INSTANCE Decimator WITH source <- taken, sink <- down_image
ImplementsDecimator == Abstract!Spec
=============================================================================
