--------------------------- MODULE TestBench_proofs ---------------------------
(***************************************************************************)
(* Theorems about TestBench, for both benches, every size and content of   *)
(* the source images and every first value of ln_out, and about BmpFile,   *)
(* the reader that the Catapult bench has its image from.                  *)
(*                                                                         *)
(* The argument is the composition: to the block the bench is a caller as  *)
(* DownSample assumes it (IsCaller), so that the invariant proved in       *)
(* DownSample_proofs holds of the pixels that the bench collected together *)
(* with those still in dout.  What remains is the bench's own: its phases, *)
(* and the place that its two counters give to an average.                 *)
(*                                                                         *)
(* The reader is proved about on its own too (FileSpec).  In BitmapSpec    *)
(* every step is one of the bench or one of the reader, so both invariants *)
(* hold, and BitmapDownSampled joins them.                                 *)
(***************************************************************************)
EXTENDS BitmapBench, SequenceTheorems, TLAPS

\* What was written to dout, whether it was read or not.
Written == collected \o down_image

\* The proofs about the block, for the block as the bench drives it.  Its
\* channels are on their own, so what BlockOverFifo adds has no part.
Proved == INSTANCE DownSample_proofs WITH
    Supplies <- Frames, MaxPixels <- FrameSize, down_image <- Written,
    Streams <- {}, InSize <- 1, OutSize <- 1, bound <- FALSE, stream <- <<>>,
    in_fresh <- <<>>, in_taken <- 0, in_got <- 0,
    out_visible <- <<>>, out_fresh <- <<>>, out_taken <- 0, out_got <- 0,
    shown <- <<>>

-----------------------------------------------------------------------------
(***************************************************************************)
(* The constants                                                           *)
(***************************************************************************)

LEMMA SizesFact ==
    /\ Columns \in Nat \ {0} /\ Lines \in Nat \ {0}
    /\ HalfColumns \in Nat \ {0} /\ Columns = 2 * HalfColumns
    /\ HalfLines \in Nat \ {0} /\ Lines = 2 * HalfLines
    /\ FrameSize \in Nat \ {0}
<1>1. Columns \in Nat \ {0} /\ HalfColumns \in Nat \ {0} /\ Columns = 2 * HalfColumns
  BY ColumnsAssumption DEF HalfColumns
<1>2. Lines \in Nat \ {0} /\ HalfLines \in Nat \ {0} /\ Lines = 2 * HalfLines
  BY LinesAssumption DEF HalfLines
<1>3. FrameSize \in Nat \ {0}
  BY <1>1, <1>2 DEF FrameSize
<1> QED
  BY <1>1, <1>2, <1>3

\* The place of a pixel of the frame in its source image.
LEMMA PlaceFact ==
    ASSUME NEW k \in 1 .. FrameSize
    PROVE  /\ (k - 1) \div Columns \in 0 .. Lines - 1
           /\ (k - 1) % Columns \in 0 .. Columns - 1
<1>1. PICK q \in Nat, r \in 0 .. Columns - 1 :
          /\ q = (k - 1) \div Columns /\ r = (k - 1) % Columns
          /\ k - 1 = q * Columns + r
  BY SizesFact, Proved!Division
<1>2. q < Lines
  <2> SUFFICES ASSUME Lines <= q PROVE FALSE
    BY <1>1, SizesFact
  <2>1. Lines * Columns <= q * Columns
    BY SizesFact, Proved!ProductMonotonic
  <2>2. q * Columns \in Nat /\ Lines * Columns \in Nat
    BY SizesFact, Proved!ProductNat
  <2> QED
    BY <1>1, <2>1, <2>2 DEF FrameSize
<1> QED
  BY <1>1, <1>2, SizesFact

\* The frame that a bench writes is a frame of pixels.
LEMMA RasterFact ==
    ASSUME NEW f \in Sources
    PROVE  /\ Raster(f) \in Seq(Pixel) /\ Len(Raster(f)) = FrameSize
           /\ \A k \in 1 .. FrameSize :
                  Raster(f)[k] = f[(k - 1) \div Columns][(k - 1) % Columns]
<1>1. f \in [0 .. Lines - 1 -> [0 .. Columns - 1 -> Pixel]]
  BY SourcesAssumption
<1>2. \A k \in 1 .. FrameSize : f[(k - 1) \div Columns][(k - 1) % Columns] \in Pixel
  BY <1>1, PlaceFact
<1>3. Raster(f) \in [1 .. FrameSize -> Pixel]
  BY <1>2 DEF Raster
<1> QED
  BY <1>3, SizesFact DEF Raster

\* The assumptions that the proofs about the block rest on hold of its instance.
LEMMA AssumptionsHold ==
    /\ Proved!ColumnsAssumption /\ Proved!PixelLevelsAssumption
    /\ Proved!LinesAssumption /\ Proved!CountersAssumption
    /\ Proved!SuppliesAssumption /\ Proved!MaxPixelsAssumption
    /\ Proved!SizesAssumption /\ Proved!StreamsAssumption
<1>1. Proved!SuppliesAssumption
  BY RasterFact DEF Proved!SuppliesAssumption, Frames, Proved!Pixel, Pixel
<1>2. Proved!MaxPixelsAssumption
  BY SizesFact DEF Proved!MaxPixelsAssumption
<1>3. Proved!ColumnsAssumption /\ Proved!PixelLevelsAssumption
  BY ColumnsAssumption, PixelLevelsAssumption
     DEF Proved!ColumnsAssumption, Proved!PixelLevelsAssumption
<1>4. Proved!LinesAssumption /\ Proved!CountersAssumption
  BY LinesAssumption, CountersAssumption
     DEF Proved!LinesAssumption, Proved!CountersAssumption
<1>5. Proved!SizesAssumption /\ Proved!StreamsAssumption
  BY DEF Proved!SizesAssumption, Proved!StreamsAssumption
<1> QED
  BY <1>1, <1>2, <1>3, <1>4, <1>5

-----------------------------------------------------------------------------
(***************************************************************************)
(* The bench as a caller                                                   *)
(***************************************************************************)

\* BenchIsCaller and the proofs name the same behaviours of the block.
LEMMA SameInit == Caller!Init <=> Proved!Init
  BY DEF Caller!Init, Caller!LnInit, Caller!ShregInit, Caller!ZeroPair,
     Caller!Address, Caller!HalfColumns,
     Proved!Init, Proved!LnInit, Proved!ShregInit, Proved!ZeroPair,
     Proved!Address, Proved!HalfColumns, Written

LEMMA SameReadPixel == Caller!ReadPixel <=> Proved!ReadPixel
  BY DEF Caller!ReadPixel, Caller!LnProcess, Caller!LnReadEven, Caller!LnWriteEven,
     Caller!LnReadOdd, Caller!LnWriteOdd, Caller!ShregProcess, Caller!counters,
     Proved!ReadPixel, Proved!LnProcess, Proved!LnReadEven, Proved!LnWriteEven,
     Proved!LnReadOdd, Proved!LnWriteOdd, Proved!ShregProcess, Proved!counters,
     Written

LEMMA SameEmit == Caller!Emit <=> Proved!Emit
  BY DEF Caller!Emit, Caller!Advance, Caller!NextPx, Caller!NextLn,
     Caller!WindowAverage, Caller!lnVars, Caller!shregVars,
     Proved!Emit, Proved!Advance, Proved!NextPx, Proved!NextLn,
     Proved!WindowAverage, Proved!lnVars, Proved!shregVars, Written

LEMMA SameNext == [Caller!Next]_(Caller!vars) <=> [Proved!Next]_(Proved!vars)
<1>1. Caller!vars' = Caller!vars <=> Proved!vars' = Proved!vars
  BY DEF Caller!vars, Caller!lnVars, Caller!shregVars, Caller!channels,
     Caller!counters, Caller!history,
     Proved!vars, Proved!lnVars, Proved!shregVars, Proved!channels,
     Proved!counters, Proved!history, Written
<1>2. \A t : Caller!WritePixels(t) <=> Proved!WritePixels(t)
  BY DEF Caller!WritePixels, Caller!lnVars, Caller!shregVars,
     Caller!counters, Caller!history,
     Proved!WritePixels, Proved!lnVars, Proved!shregVars,
     Proved!counters, Proved!history, Written
<1>3. Caller!Call <=> Proved!Call
  BY DEF Caller!Call, Caller!Available, Caller!lnVars, Caller!shregVars,
     Caller!channels, Caller!history,
     Proved!Call, Proved!Available, Proved!lnVars, Proved!shregVars,
     Proved!channels, Proved!history, Written
<1>4. Caller!ReadFails <=> Proved!ReadFails
  BY DEF Caller!ReadFails, Caller!lnVars, Caller!shregVars,
     Caller!channels, Caller!counters, Caller!history,
     Proved!ReadFails, Proved!lnVars, Proved!shregVars,
     Proved!channels, Proved!counters, Proved!history, Written
<1> QED
  BY <1>1, <1>2, <1>3, <1>4, SameReadPixel, SameEmit DEF Caller!Next, Proved!Next

\* One step of the block in the bench is that step of a block whose dout nobody
\* reads, while the bench itself does nothing.
LEMMA BlockStepSeen ==
    ASSUME collected \in Seq(Pixel), down_image \in Seq(Pixel),
           Proved!WindowAverage \in Pixel, collected' = collected
    PROVE  /\ Block!Call => Proved!Call
           /\ Block!ReadPixel => Proved!ReadPixel
           /\ Block!ReadFails => Proved!ReadFails
           /\ Block!Emit => Proved!Emit
           /\ \A t : Block!WritePixels(t) => Proved!WritePixels(t)
<1>1. Block!Call => Proved!Call
  BY DEF Block!Call, Block!Available, Block!lnVars, Block!shregVars,
     Block!channels, Block!history,
     Proved!Call, Proved!Available, Proved!lnVars, Proved!shregVars,
     Proved!channels, Proved!history, Written
<1>2. Block!ReadPixel => Proved!ReadPixel
  BY DEF Block!ReadPixel, Block!LnProcess, Block!LnReadEven, Block!LnWriteEven,
     Block!LnReadOdd, Block!LnWriteOdd, Block!ShregProcess, Block!counters,
     Proved!ReadPixel, Proved!LnProcess, Proved!LnReadEven, Proved!LnWriteEven,
     Proved!LnReadOdd, Proved!LnWriteOdd, Proved!ShregProcess, Proved!counters,
     Written
<1>3. Block!ReadFails => Proved!ReadFails
  BY DEF Block!ReadFails, Block!lnVars, Block!shregVars,
     Block!channels, Block!counters, Block!history,
     Proved!ReadFails, Proved!lnVars, Proved!shregVars,
     Proved!channels, Proved!counters, Proved!history, Written
<1>4. Block!Emit => Proved!Emit
  <2> SUFFICES ASSUME Block!Emit PROVE Proved!Emit
    OBVIOUS
  <2>1. /\ pc = "emit" /\ Proved!Advance
        /\ UNCHANGED <<Proved!lnVars, Proved!shregVars, image, taken>>
    BY DEF Block!Emit, Block!Advance, Block!NextPx, Block!NextLn,
       Block!lnVars, Block!shregVars,
       Proved!Advance, Proved!NextPx, Proved!NextLn,
       Proved!lnVars, Proved!shregVars
  <2>2. down_image' = IF ln % 2 = 1 /\ px % 2 = 1
                        THEN Append(down_image, Proved!WindowAverage)
                        ELSE down_image
    BY DEF Block!Emit, Block!WindowAverage, Proved!WindowAverage
  <2>3. collected \o Append(down_image, Proved!WindowAverage)
            = Append(collected \o down_image, Proved!WindowAverage)
    BY AssumptionsHold, Proved!GrowAtEnd
  <2>4. Written' = IF ln % 2 = 1 /\ px % 2 = 1
                     THEN Append(Written, Proved!WindowAverage) ELSE Written
    BY <2>2, <2>3 DEF Written
  <2> QED
    BY <2>1, <2>4 DEF Proved!Emit
<1>5. \A t : Block!WritePixels(t) => Proved!WritePixels(t)
  BY DEF Block!WritePixels, Block!lnVars, Block!shregVars,
     Block!counters, Block!history,
     Proved!WritePixels, Proved!lnVars, Proved!shregVars,
     Proved!counters, Proved!history, Written
<1> QED
  BY <1>1, <1>2, <1>3, <1>4, <1>5

-----------------------------------------------------------------------------
(***************************************************************************)
(* The invariant                                                           *)
(***************************************************************************)

BenchTypeOK ==
    /\ bench \in Benches
    /\ phase \in {"write", "run", "collect", "done"}
    /\ src \in Sources
    /\ ln_out \in 0 .. LnLevels - 1
    /\ px_out \in 0 .. HalfColumns
    /\ mat \in [0 .. HalfLines - 1 -> [0 .. HalfColumns - 1 -> Pixel]]
    /\ collected \in Seq(Pixel)
    /\ down_image \in Seq(Pixel)

\* Before the frame is written nothing has happened; from then on it is in din, or
\* has been read, or partly both, so that no read finds din empty.
FramePhase ==
    /\ phase = "write" => pc = "idle" /\ taken = <<>> /\ image = <<>>
    /\ phase # "write" => taken \o image = Raster(src)
    /\ phase \in {"collect", "done"} => pc = "idle" /\ image = <<>>
    /\ pc # "failed"

\* Only the OpenCV bench collects, and only after the block's last call.
CollectPhase ==
    /\ phase \in {"write", "run"} \/ ~Collects => collected = <<>>
    /\ phase = "collect" => Collects
    /\ phase = "done" /\ Collects => down_image = <<>>

\* If the image is shown from line s on, its k-th average is in this line.
LineOf(s, k) == (s + (k - 1) \div HalfColumns) % HalfLines

\* The counters are at the place of the average collected last, or at the first
\* place, and every average is at its own.
PlacedFrom(s) ==
    /\ collected = <<>> =>
           px_out = 0 /\ s = IF ln_out >= HalfLines THEN 0 ELSE ln_out
    /\ collected # <<>> =>
           /\ ln_out = LineOf(s, Len(collected))
           /\ px_out = ((Len(collected) - 1) % HalfColumns) + 1
    /\ \A k \in 1 .. Len(collected) :
           mat[LineOf(s, k)][(k - 1) % HalfColumns] = collected[k]

PlaceInv == \E s \in 0 .. HalfLines - 1 : Collects => PlacedFrom(s)

BenchInv ==
    /\ Proved!IInv
    /\ BenchTypeOK
    /\ FramePhase
    /\ CollectPhase
    /\ PlaceInv

\* Nothing has happened at the beginning.
LEMMA InitBenchInv == Init => BenchInv /\ Proved!Init
<1> SUFFICES ASSUME Init PROVE BenchInv /\ Proved!Init
  OBVIOUS
<1>1. /\ down_image = <<>> /\ collected = <<>> /\ taken = <<>> /\ image = <<>>
      /\ pc = "idle"
  BY DEF Init, Block!Init
<1>2. Written = <<>>
  BY <1>1, ConcatEmptySeq, EmptySeq DEF Written
<1>3. Proved!Init
  BY <1>2 DEF Init, Block!Init, Block!LnInit, Block!ShregInit, Block!ZeroPair,
     Block!Address, Block!HalfColumns,
     Proved!Init, Proved!LnInit, Proved!ShregInit, Proved!ZeroPair,
     Proved!Address, Proved!HalfColumns
<1>4. Proved!IInv
  BY <1>3, AssumptionsHold, Proved!InitInv
<1>5. BenchTypeOK
  <2>1. 0 \in Pixel /\ 0 \in 0 .. LnLevels - 1 /\ 0 \in 0 .. HalfColumns
    BY PixelLevelsAssumption, CountersAssumption, SizesFact DEF Pixel
  <2>2. ln_out \in 0 .. LnLevels - 1
    BY <2>1 DEF Init
  <2> QED
    BY <1>1, <2>1, <2>2 DEF Init, BenchTypeOK
<1>6. FramePhase /\ CollectPhase
  BY <1>1 DEF Init, FramePhase, CollectPhase
<1>7. PlaceInv
  <2> DEFINE first == IF ln_out >= HalfLines THEN 0 ELSE ln_out
  <2>1. first \in 0 .. HalfLines - 1
    BY <1>5, SizesFact, CountersAssumption DEF BenchTypeOK
  <2>2. PlacedFrom(first)
    BY <1>1 DEF Init, PlacedFrom
  <2> QED
    BY <2>1, <2>2 DEF PlaceInv
<1> QED
  BY <1>3, <1>4, <1>5, <1>6, <1>7 DEF BenchInv

\* Steps in which the counters, the image and what was collected stay.
LEMMA PlaceKept ==
    ASSUME PlaceInv, UNCHANGED <<bench, ln_out, px_out, mat, collected>>
    PROVE  PlaceInv'
  BY DEF PlaceInv, PlacedFrom, LineOf, Collects

\* The averages that the block computes are pixels.
LEMMA AveragePixel ==
    ASSUME Proved!IInv
    PROVE  Proved!WindowAverage \in Pixel
<1>1. Proved!ShregTypeOK
  BY DEF Proved!IInv, Proved!TypeOK
<1>2. Proved!WindowAverage \in Proved!Pixel
  BY <1>1, AssumptionsHold, Proved!WindowAveragePixel
<1> QED
  BY <1>2 DEF Proved!Pixel, Pixel

\* The frame is written.
LEMMA WriteFrameStep ==
    ASSUME BenchInv, WriteFrame
    PROVE  BenchInv' /\ Proved!Next
<1> DEFINE f == Raster(src)
<1>1. /\ Block!WritePixels(f) /\ phase = "write" /\ phase' = "run"
      /\ UNCHANGED <<bench, src, ln_out, px_out, mat, collected>>
  BY DEF WriteFrame
<1>2. f \in Frames /\ f \in Seq(Pixel)
  BY RasterFact DEF BenchInv, BenchTypeOK, Frames
<1>3. Proved!WritePixels(f)
  BY <1>1, AveragePixel, BlockStepSeen DEF BenchInv, BenchTypeOK
<1>4. \E t \in Frames : Proved!WritePixels(t)
  BY <1>2, <1>3
<1>5. Proved!IInv'
  BY <1>4, AssumptionsHold, Proved!OtherSteps DEF BenchInv
<1>6. /\ pc' = pc /\ taken' = taken /\ image' = image \o f
      /\ down_image' = down_image
  BY <1>1 DEF Block!WritePixels, Block!history
<1>7. BenchTypeOK'
  BY <1>1, <1>6 DEF BenchInv, BenchTypeOK
<1>8. FramePhase'
  <2>1. taken = <<>> /\ image = <<>> /\ pc = "idle"
    BY <1>1 DEF BenchInv, FramePhase
  <2>2. <<>> \o (<<>> \o f) = f
    BY <1>2, ConcatEmptySeq
  <2> HIDE DEF f
  <2> QED
    BY <1>1, <1>6, <2>1, <2>2 DEF FramePhase, f
<1>9. CollectPhase'
  BY <1>1 DEF BenchInv, CollectPhase
<1>10. PlaceInv'
  BY <1>1, PlaceKept DEF BenchInv
<1> QED
  BY <1>4, <1>5, <1>7, <1>8, <1>9, <1>10 DEF BenchInv, Proved!Next

\* A read that found the frame used up would have come after the whole frame, but
\* the block's reads fail in the middle of one only.
LEMMA NoReadFails ==
    /\ Proved!IInv /\ src \in Sources
    /\ image = <<>> /\ taken \o image = Raster(src)
    => pc # "failed"
<1> SUFFICES ASSUME Proved!IInv, src \in Sources,
                    image = <<>>, taken \o image = Raster(src)
             PROVE  pc # "failed"
  OBVIOUS
<1>1. taken = Raster(src)
  <2>1. taken \in Seq(Proved!Pixel)
    BY DEF Proved!IInv, Proved!TypeOK
  <2> QED
    BY <2>1, ConcatEmptySeq
<1>2. Len(taken) % FrameSize = 0
  <2>1. Len(taken) = 1 * FrameSize + 0 /\ 1 \in Nat /\ 0 \in 0 .. FrameSize - 1
    BY <1>1, RasterFact, SizesFact
  <2>2. (1 * FrameSize + 0) % FrameSize = 0
    BY <2>1, SizesFact, AssumptionsHold, Proved!DivisionUnique
  <2> QED
    BY <2>1, <2>2
<1>3. pc = "failed" => Len(taken) % Proved!FrameSize # 0
  BY AssumptionsHold, Proved!ShortFrameFact DEF Proved!FailsOnlyOnShortFrame
<1> QED
  BY <1>2, <1>3 DEF Proved!FrameSize, FrameSize

\* The block runs.
LEMMA RunBlockStep ==
    ASSUME BenchInv, RunBlock
    PROVE  BenchInv' /\ Proved!Next
<1>1. /\ phase = "run" /\ collected = <<>>
      /\ UNCHANGED <<bench, phase, src, ln_out, px_out, mat, collected>>
  BY DEF RunBlock, benchVars, BenchInv, CollectPhase
<1>2. /\ collected \in Seq(Pixel) /\ down_image \in Seq(Pixel)
      /\ taken \in Seq(Pixel) /\ image \in Seq(Pixel) /\ src \in Sources
      /\ Proved!WindowAverage \in Pixel
  BY AveragePixel
     DEF BenchInv, BenchTypeOK, Proved!IInv, Proved!TypeOK, Proved!Pixel, Pixel
<1>3. \/ Block!Call /\ Proved!Call
      \/ Block!ReadPixel /\ Proved!ReadPixel
      \/ Block!ReadFails /\ Proved!ReadFails
      \/ Block!Emit /\ Proved!Emit
  BY <1>1, <1>2, BlockStepSeen DEF RunBlock
<1>4. Proved!IInv'
  BY <1>3, AssumptionsHold, Proved!OtherSteps, Proved!ReadStep, Proved!EmitStep
     DEF BenchInv
<1>5. down_image' \in Seq(Pixel)
  <2>1. CASE Block!Emit
    <3>1. Block!WindowAverage \in Pixel
      BY <1>2 DEF Block!WindowAverage, Proved!WindowAverage
    <3> QED
      BY <1>2, <2>1, <3>1 DEF Block!Emit
  <2>2. CASE Block!Call \/ Block!ReadPixel \/ Block!ReadFails
    BY <1>2, <2>2 DEF Block!Call, Block!ReadPixel, Block!ReadFails, Block!channels
  <2> QED
    BY <1>3, <2>1, <2>2
<1>6. taken' \o image' = taken \o image
  <2>1. CASE Block!ReadPixel
    <3>1. image # <<>> /\ image' = Tail(image) /\ taken' = Append(taken, Head(image))
      BY <2>1 DEF Block!ReadPixel
    <3> QED
      BY <1>2, <3>1, AssumptionsHold, Proved!MoveAcross
  <2>2. CASE Block!Call \/ Block!ReadFails \/ Block!Emit
    BY <2>2 DEF Block!Call, Block!ReadFails, Block!Emit, Block!channels,
       Block!history
  <2> QED
    BY <1>3, <2>1, <2>2
<1>7. taken' \o image' = Raster(src')
  BY <1>1, <1>6 DEF BenchInv, FramePhase
<1>8. pc' # "failed"
  <2>1. CASE Block!ReadFails
    <3>1. image' = <<>>
      BY <2>1 DEF Block!ReadFails, Block!channels
    <3>2. (/\ Proved!IInv /\ src \in Sources
           /\ image = <<>> /\ taken \o image = Raster(src)
           => pc # "failed")'
      BY NoReadFails, PTL
    <3> QED
      BY <1>1, <1>2, <1>4, <1>7, <3>1, <3>2
  <2>2. CASE Block!Call \/ Block!ReadPixel \/ Block!Emit
    BY <2>2 DEF Block!Call, Block!ReadPixel, Block!Emit, Block!Advance
  <2> QED
    BY <1>3, <2>1, <2>2
<1>9. BenchTypeOK'
  BY <1>1, <1>5 DEF BenchInv, BenchTypeOK
<1>10. FramePhase'
  BY <1>1, <1>7, <1>8 DEF FramePhase
<1>11. CollectPhase' /\ PlaceInv'
  BY <1>1, PlaceKept DEF BenchInv, CollectPhase
<1> QED
  BY <1>3, <1>4, <1>9, <1>10, <1>11 DEF BenchInv, Proved!Next

\* Steps of the bench alone that only change its phase.
LEMMA PhaseStep ==
    ASSUME BenchInv, RunEnds \/ CollectEnds \/ UNCHANGED vars
    PROVE  BenchInv' /\ UNCHANGED Proved!vars
<1>1. UNCHANGED <<blockVars, bench, src, ln_out, px_out, mat, collected>>
  BY DEF RunEnds, CollectEnds, vars, benchVars
<1>2. UNCHANGED Proved!vars
  BY <1>1 DEF blockVars, Proved!vars, Proved!lnVars, Proved!shregVars,
     Proved!channels, Proved!counters, Proved!history, Written
<1>3. Proved!IInv'
  BY <1>2, AssumptionsHold, Proved!OtherSteps DEF BenchInv
<1>4. phase' \in {"write", "run", "collect", "done"}
  BY DEF RunEnds, CollectEnds, vars, benchVars, BenchInv, BenchTypeOK
<1>5. UNCHANGED <<taken, image, pc, down_image>>
  BY <1>1 DEF blockVars
<1>6. BenchTypeOK'
  BY <1>1, <1>4, <1>5 DEF BenchInv, BenchTypeOK
<1>7. /\ image \in Seq(Pixel) /\ down_image \in Seq(Pixel)
      /\ (Len(image) < 1 => image = <<>>) /\ (Len(down_image) < 1 => down_image = <<>>)
  <2>1. image \in Seq(Pixel) /\ down_image \in Seq(Pixel)
    BY DEF BenchInv, BenchTypeOK, Proved!IInv, Proved!TypeOK, Proved!Pixel, Pixel
  <2> QED
    BY <2>1, EmptySeq
<1>8. FramePhase' /\ CollectPhase'
  <2>1. CASE RunEnds
    <3>1. phase = "run" /\ pc = "idle" /\ image = <<>>
      BY <1>7, <2>1 DEF RunEnds, Block!Available
    <3>2. phase' = IF Collects THEN "collect" ELSE "done"
      BY <2>1 DEF RunEnds
    <3> QED
      BY <1>1, <1>5, <3>1, <3>2 DEF BenchInv, FramePhase, CollectPhase, Collects
  <2>2. CASE CollectEnds
    <3>1. phase = "collect" /\ phase' = "done" /\ down_image = <<>>
      BY <1>7, <2>2 DEF CollectEnds, Block!Available
    <3> QED
      BY <1>1, <1>5, <3>1 DEF BenchInv, FramePhase, CollectPhase, Collects
  <2>3. CASE UNCHANGED vars
    BY <2>3 DEF vars, blockVars, benchVars, BenchInv, FramePhase, CollectPhase,
       Collects
  <2> QED
    BY <2>1, <2>2, <2>3
<1>9. PlaceInv'
  BY <1>1, PlaceKept DEF BenchInv
<1> QED
  BY <1>2, <1>3, <1>6, <1>8, <1>9 DEF BenchInv

-----------------------------------------------------------------------------
(***************************************************************************)
(* Where the averages are placed                                           *)
(***************************************************************************)

\* After its last call the block has written the averages of one frame.
LEMMA FullFrame ==
    ASSUME Proved!IInv, src \in Sources, pc = "idle", image = <<>>,
           taken \o image = Raster(src)
    PROVE  /\ taken = Raster(src) /\ frames = 1
           /\ Written \in Seq(Pixel) /\ Len(Written) = HalfLines * HalfColumns
<1>1. taken = Raster(src)
  <2>1. taken \in Seq(Proved!Pixel)
    BY DEF Proved!IInv, Proved!TypeOK
  <2> QED
    BY <2>1, ConcatEmptySeq
<1>2. /\ Len(taken) = frames * FrameSize /\ 4 * Len(Written) = Len(taken)
      /\ frames \in Nat /\ Written \in Seq(Pixel)
  BY AssumptionsHold, Proved!AlignedFact
     DEF Proved!FramesAligned, Proved!FrameSize, FrameSize, Proved!IInv,
         Proved!TypeOK, Proved!Pixel, Pixel
<1>3. Len(taken) = FrameSize
  BY <1>1, RasterFact
<1>4. frames = 1
  <2>1. frames # 0
    BY <1>2, <1>3, SizesFact
  <2>2. ~(2 <= frames)
    <3> SUFFICES ASSUME 2 <= frames PROVE FALSE
      OBVIOUS
    <3>1. 2 * FrameSize <= frames * FrameSize
      BY <1>2, SizesFact, AssumptionsHold, Proved!ProductMonotonic
    <3> QED
      BY <1>2, <1>3, <3>1, SizesFact
  <2> QED
    BY <1>2, <2>1, <2>2
<1>5. Len(Written) = HalfLines * HalfColumns
  <2>1. PICK n \in Nat : n = HalfLines * HalfColumns
    BY SizesFact
  <2>2. FrameSize = 4 * n
    BY <2>1, SizesFact DEF FrameSize
  <2> QED
    BY <1>2, <1>3, <2>1, <2>2
<1> QED
  BY <1>1, <1>2, <1>4, <1>5

\* The place of an average among the lines and columns of the image.
LEMMA AveragePlace ==
    ASSUME NEW k \in 1 .. HalfLines * HalfColumns
    PROVE  /\ (k - 1) \div HalfColumns \in 0 .. HalfLines - 1
           /\ (k - 1) % HalfColumns \in 0 .. HalfColumns - 1
           /\ k - 1 = ((k - 1) \div HalfColumns) * HalfColumns
                          + ((k - 1) % HalfColumns)
<1>1. PICK q \in Nat, r \in 0 .. HalfColumns - 1 :
          /\ q = (k - 1) \div HalfColumns /\ r = (k - 1) % HalfColumns
          /\ k - 1 = q * HalfColumns + r
  <2>1. PICK x \in Nat : x = k - 1
    BY SizesFact
  <2>2. /\ x \div HalfColumns \in Nat /\ x % HalfColumns \in 0 .. HalfColumns - 1
        /\ x = (x \div HalfColumns) * HalfColumns + (x % HalfColumns)
    BY SizesFact, AssumptionsHold, Proved!Division
  <2> QED
    BY <2>1, <2>2
<1>2. q < HalfLines
  <2> SUFFICES ASSUME HalfLines <= q PROVE FALSE
    BY <1>1, SizesFact
  <2>1. HalfLines * HalfColumns <= q * HalfColumns
    BY SizesFact, AssumptionsHold, Proved!ProductMonotonic
  <2>2. q * HalfColumns \in Nat /\ HalfLines * HalfColumns \in Nat
    BY SizesFact, AssumptionsHold, Proved!ProductNat
  <2> QED
    BY <1>1, <2>1, <2>2
<1> QED
  BY <1>1, <1>2, SizesFact

\* A place in the image is that of one average.
LEMMA PlaceOf ==
    ASSUME NEW r \in 0 .. HalfLines - 1, NEW c \in 0 .. HalfColumns - 1
    PROVE  /\ r * HalfColumns + c + 1 \in 1 .. HalfLines * HalfColumns
           /\ (r * HalfColumns + c) \div HalfColumns = r
           /\ (r * HalfColumns + c) % HalfColumns = c
<1>1. (r + 1) * HalfColumns <= HalfLines * HalfColumns
  BY SizesFact, AssumptionsHold, Proved!ProductMonotonic
<1>2. (r + 1) * HalfColumns = r * HalfColumns + HalfColumns
  BY SizesFact, AssumptionsHold, Proved!ProductSuccessor
<1>3. r * HalfColumns \in Nat /\ HalfLines * HalfColumns \in Nat
  BY SizesFact, AssumptionsHold, Proved!ProductNat
<1> QED
  BY <1>1, <1>2, <1>3, SizesFact, AssumptionsHold, Proved!DivisionUnique

\* The lines of the image wrap once at most.
LEMMA LineWraps ==
    ASSUME NEW s \in 0 .. HalfLines - 1, NEW q \in 0 .. HalfLines - 1
    PROVE  (s + q) % HalfLines = IF s + q < HalfLines THEN s + q
                                                     ELSE s + q - HalfLines
<1>1. CASE s + q < HalfLines
  BY <1>1, SizesFact, AssumptionsHold, Proved!SmallRemainder
<1>2. CASE s + q >= HalfLines
  <2>1. PICK r \in 0 .. HalfLines - 1 : s + q = HalfLines + r
    <3>1. s + q - HalfLines \in 0 .. HalfLines - 1
      BY <1>2, SizesFact
    <3> QED
      BY <3>1, SizesFact
  <2>2. (1 * HalfLines + r) % HalfLines = r
    BY <2>1, SizesFact, AssumptionsHold, Proved!DivisionUnique
  <2>3. s + q = 1 * HalfLines + r
    BY <2>1, SizesFact
  <2>4. (s + q) % HalfLines = r
    BY <2>2, <2>3
  <2> QED
    BY <1>2, <2>1, <2>4, SizesFact
<1> QED
  BY <1>1, <1>2, SizesFact

\* The two tests of the collecting loop move the counters to the next place.
LEMMA NextPlace ==
    ASSUME BenchTypeOK, NEW s \in 0 .. HalfLines - 1, PlacedFrom(s),
           NEW n \in Nat, n = Len(collected) + 1, n <= HalfLines * HalfColumns
    PROVE  Line = LineOf(s, n) /\ Col = (n - 1) % HalfColumns
<1>1. PICK q \in 0 .. HalfLines - 1, r \in 0 .. HalfColumns - 1 :
          /\ q = (n - 1) \div HalfColumns /\ r = (n - 1) % HalfColumns
          /\ n - 1 = q * HalfColumns + r
  <2>1. n \in 1 .. HalfLines * HalfColumns
    BY SizesFact DEF BenchTypeOK
  <2> QED
    BY <2>1, AveragePlace
<1>2. /\ LineOf(s, n) = IF s + q < HalfLines THEN s + q ELSE s + q - HalfLines
      /\ (n - 1) % HalfColumns = r
  BY <1>1, LineWraps DEF LineOf
<1>3. CASE collected = <<>>
  <2>1. n = 1 /\ px_out = 0 /\ s = IF ln_out >= HalfLines THEN 0 ELSE ln_out
    BY <1>3 DEF PlacedFrom
  <2>2. q = 0 /\ r = 0
    <3>1. (0 * HalfColumns + 0) \div HalfColumns = 0
          /\ (0 * HalfColumns + 0) % HalfColumns = 0
      BY SizesFact, AssumptionsHold, Proved!DivisionUnique
    <3> QED
      BY <1>1, <2>1, <3>1, SizesFact
  <2>3. ~LineBreak
    BY <2>1, SizesFact DEF LineBreak
  <2> QED
    BY <1>2, <2>1, <2>2, <2>3, SizesFact DEF Line, Col
<1>4. CASE collected # <<>>
  <2>1. Len(collected) \in 1 .. HalfLines * HalfColumns
    BY <1>4, EmptySeq, SizesFact DEF BenchTypeOK
  <2>2. PICK q0 \in 0 .. HalfLines - 1, r0 \in 0 .. HalfColumns - 1 :
            /\ q0 = (Len(collected) - 1) \div HalfColumns
            /\ r0 = (Len(collected) - 1) % HalfColumns
            /\ Len(collected) - 1 = q0 * HalfColumns + r0
    BY <2>1, AveragePlace
  <2>3. ln_out = LineOf(s, Len(collected)) /\ px_out = r0 + 1
    BY <1>4, <2>2 DEF PlacedFrom
  <2>4. ln_out = IF s + q0 < HalfLines THEN s + q0 ELSE s + q0 - HalfLines
    BY <2>2, <2>3, LineWraps DEF LineOf
  <2>5. n - 1 = q0 * HalfColumns + (r0 + 1)
    BY <2>1, <2>2, SizesFact
  <2>6. CASE r0 + 1 < HalfColumns
    <3>1. r0 + 1 \in 0 .. HalfColumns - 1
      BY <2>2, <2>6, SizesFact
    <3>2. q = q0 /\ r = r0 + 1
      <4>1. PICK r1 \in 0 .. HalfColumns - 1 : r1 = r0 + 1
        BY <3>1
      <4>2. /\ (q0 * HalfColumns + r1) \div HalfColumns = q0
            /\ (q0 * HalfColumns + r1) % HalfColumns = r1
        BY PlaceOf
      <4> QED
        BY <1>1, <2>5, <4>1, <4>2
    <3>3. ~LineBreak
      BY <2>2, <2>3, <2>6, SizesFact DEF LineBreak
    <3>4. ln_out < HalfLines
      BY <2>2, <2>4, SizesFact
    <3>5. Line = ln_out /\ Col = px_out
      BY <2>4, <3>3, <3>4, SizesFact DEF Line, Col
    <3> QED
      BY <1>2, <2>3, <2>4, <3>2, <3>5
  <2>7. CASE r0 + 1 >= HalfColumns
    <3>1. r0 + 1 = HalfColumns
      BY <2>2, <2>7, SizesFact
    <3>2. n - 1 = (q0 + 1) * HalfColumns + 0
      BY <2>2, <2>5, <3>1, SizesFact, AssumptionsHold, Proved!ProductSuccessor
    <3>3. q = q0 + 1 /\ r = 0
      <4>1. q0 + 1 \in Nat /\ 0 \in 0 .. HalfColumns - 1
        BY SizesFact
      <4>2. /\ ((q0 + 1) * HalfColumns + 0) \div HalfColumns = q0 + 1
            /\ ((q0 + 1) * HalfColumns + 0) % HalfColumns = 0
        BY <4>1, SizesFact, AssumptionsHold, Proved!DivisionUnique
      <4>3. /\ (n - 1) \div HalfColumns = q0 + 1
            /\ (n - 1) % HalfColumns = 0
        BY <3>2, <4>2
      <4> QED
        BY <1>1, <4>3
    <3>4. LineBreak
      BY <2>3, <3>1, SizesFact DEF LineBreak
    <3>5. ln_out \in 0 .. HalfLines - 1
      BY <2>2, <2>4, SizesFact
    <3>6. (ln_out + 1) % LnLevels = ln_out + 1
      <4>1. ln_out + 1 \in Nat /\ LnLevels \in Nat /\ ln_out + 1 < LnLevels
        BY <3>5, SizesFact, CountersAssumption
      <4> QED
        BY <4>1, AssumptionsHold, Proved!SmallRemainder
    <3>7. Line = IF ln_out + 1 >= HalfLines THEN 0 ELSE ln_out + 1
      BY <3>4, <3>6 DEF Line
    <3>8. Col = 0
      BY <3>4 DEF Col
    <3>9. Line = IF s + (q0 + 1) < HalfLines THEN s + (q0 + 1)
                                           ELSE s + (q0 + 1) - HalfLines
      BY <2>4, <3>7, SizesFact
    <3> QED
      BY <1>2, <3>3, <3>8, <3>9
  <2> QED
    BY <2>2, <2>6, <2>7, SizesFact
<1> QED
  BY <1>3, <1>4

\* No two averages have the same place.
LEMMA DistinctPlaces ==
    ASSUME NEW s \in 0 .. HalfLines - 1,
           NEW k \in 1 .. HalfLines * HalfColumns,
           NEW n \in 1 .. HalfLines * HalfColumns,
           LineOf(s, k) = LineOf(s, n),
           (k - 1) % HalfColumns = (n - 1) % HalfColumns
    PROVE  k = n
<1>1. PICK q \in 0 .. HalfLines - 1 :
          /\ q = (k - 1) \div HalfColumns
          /\ k - 1 = q * HalfColumns + ((k - 1) % HalfColumns)
  BY AveragePlace
<1>2. PICK q0 \in 0 .. HalfLines - 1 :
          /\ q0 = (n - 1) \div HalfColumns
          /\ n - 1 = q0 * HalfColumns + ((n - 1) % HalfColumns)
  BY AveragePlace
<1>3. /\ LineOf(s, k) = IF s + q < HalfLines THEN s + q ELSE s + q - HalfLines
      /\ LineOf(s, n) = IF s + q0 < HalfLines THEN s + q0 ELSE s + q0 - HalfLines
  BY <1>1, <1>2, LineWraps DEF LineOf
<1>4. q = q0
  <2>1. (IF s + q < HalfLines THEN s + q ELSE s + q - HalfLines)
            = (IF s + q0 < HalfLines THEN s + q0 ELSE s + q0 - HalfLines)
    BY <1>3
  <2>2. s + q \in Nat /\ s + q0 \in Nat /\ HalfLines \in Nat
    BY SizesFact
  <2> QED
    BY <2>1, <2>2
<1>5. k - 1 = n - 1
  BY <1>1, <1>2, <1>4
<1> QED
  BY <1>5, SizesFact

\* One average is moved from dout to its place in the image.
LEMMA CollectStep ==
    ASSUME BenchInv, Collect
    PROVE  BenchInv' /\ UNCHANGED Proved!vars
<1>1. /\ phase = "collect" /\ Collects /\ pc = "idle" /\ image = <<>>
      /\ collected \in Seq(Pixel) /\ down_image \in Seq(Pixel)
      /\ src \in Sources /\ taken \o image = Raster(src)
  BY DEF Collect, BenchInv, BenchTypeOK, FramePhase, CollectPhase
<1>2. /\ Len(down_image) >= 1 /\ Head(down_image) \in Pixel
      /\ Tail(down_image) \in Seq(Pixel) /\ down_image # <<>>
  BY <1>1 DEF Collect, Block!Available
<1>3. /\ down_image' = Tail(down_image)
      /\ collected' = Append(collected, Head(down_image))
      /\ UNCHANGED <<line0, wr_buffer, rd_buffer, rd_data, shreg_y0, shreg_y1,
                     image, ln, px, pc, taken, frames, bench, phase, src>>
  BY DEF Collect
<1>4. UNCHANGED Proved!vars
  <2>1. Written' = Written
    BY <1>1, <1>2, <1>3, AssumptionsHold, Proved!MoveAcross DEF Written
  <2> QED
    BY <1>3, <2>1 DEF Proved!vars, Proved!lnVars, Proved!shregVars,
       Proved!channels, Proved!counters, Proved!history
<1>5. Proved!IInv'
  BY <1>4, AssumptionsHold, Proved!OtherSteps DEF BenchInv
<1>6. PICK s \in 0 .. HalfLines - 1 : PlacedFrom(s)
  BY <1>1 DEF BenchInv, PlaceInv
<1>7. PICK n \in 1 .. HalfLines * HalfColumns : n = Len(collected) + 1
  <2>1. Len(Written) = HalfLines * HalfColumns
    BY <1>1, FullFrame DEF BenchInv
  <2>2. Len(Written) = Len(collected) + Len(down_image)
    BY <1>1, ConcatProperties DEF Written
  <2>3. Len(collected) \in Nat /\ Len(down_image) \in Nat
    BY <1>1
  <2> QED
    BY <1>2, <2>1, <2>2, <2>3
<1>8. Line = LineOf(s, n) /\ Col = (n - 1) % HalfColumns
  <2>1. n \in Nat /\ n <= HalfLines * HalfColumns
    BY SizesFact
  <2> QED
    BY <1>6, <1>7, <2>1, NextPlace DEF BenchInv
<1>9. Line \in 0 .. HalfLines - 1 /\ Col \in 0 .. HalfColumns - 1
  <2>1. PICK q \in 0 .. HalfLines - 1 :
            /\ q = (n - 1) \div HalfColumns
            /\ (n - 1) % HalfColumns \in 0 .. HalfColumns - 1
    BY AveragePlace
  <2>2. LineOf(s, n) = IF s + q < HalfLines THEN s + q ELSE s + q - HalfLines
    BY <2>1, LineWraps DEF LineOf
  <2> QED
    BY <1>8, <2>1, <2>2, SizesFact
<1>10. ln_out' = Line /\ px_out' = Col + 1
  <2>1. Col + 1 \in Nat /\ LnLevels \in Nat /\ Col + 1 < LnLevels
    BY <1>9, SizesFact, OutCountersAssumption, CountersAssumption
  <2>2. (Col + 1) % LnLevels = Col + 1
    BY <2>1, AssumptionsHold, Proved!SmallRemainder
  <2> QED
    BY <2>2 DEF Collect
<1>11. BenchTypeOK'
  <2>1. ln_out' \in 0 .. LnLevels - 1 /\ px_out' \in 0 .. HalfColumns
    BY <1>9, <1>10, SizesFact, CountersAssumption
  <2>2. mat' \in [0 .. HalfLines - 1 -> [0 .. HalfColumns - 1 -> Pixel]]
    <3>1. mat \in [0 .. HalfLines - 1 -> [0 .. HalfColumns - 1 -> Pixel]]
      BY DEF BenchInv, BenchTypeOK
    <3>2. mat' = [mat EXCEPT ![Line] =
                      [mat[Line] EXCEPT ![Col] = Head(down_image)]]
      BY DEF Collect
    <3>3. [mat[Line] EXCEPT ![Col] = Head(down_image)]
              \in [0 .. HalfColumns - 1 -> Pixel]
      BY <1>2, <1>9, <3>1
    <3> QED
      BY <1>9, <3>1, <3>2, <3>3
  <2>3. collected' \in Seq(Pixel)
    BY <1>1, <1>2, <1>3
  <2> QED
    BY <1>2, <1>3, <2>1, <2>2, <2>3 DEF BenchInv, BenchTypeOK
<1>12. FramePhase' /\ CollectPhase'
  BY <1>1, <1>3 DEF BenchInv, FramePhase, CollectPhase, Collects
<1>13. PlacedFrom(s)'
  <2>1. /\ Len(collected') = n /\ collected'[n] = Head(down_image)
        /\ \A k \in 1 .. n - 1 : collected'[k] = collected[k]
    BY <1>1, <1>2, <1>3, <1>7, AppendProperties
  <2>2. collected' # <<>>
    BY <1>7, <2>1, SizesFact
  <2>3. ASSUME NEW k \in 1 .. n
        PROVE  mat'[LineOf(s, k)][(k - 1) % HalfColumns] = collected'[k]
    <3>1. mat \in [0 .. HalfLines - 1 -> [0 .. HalfColumns - 1 -> Pixel]]
      BY DEF BenchInv, BenchTypeOK
    <3>2. mat' = [mat EXCEPT ![Line][Col] = Head(down_image)]
      BY DEF Collect
    <3>3. CASE k = n
      BY <1>8, <1>9, <2>1, <3>1, <3>2, <3>3
    <3>4. CASE k # n
      <4>1. k \in 1 .. Len(collected) /\ k \in 1 .. n - 1
            /\ k \in 1 .. HalfLines * HalfColumns
        BY <1>7, <3>4, SizesFact
      <4>2. mat[LineOf(s, k)][(k - 1) % HalfColumns] = collected[k]
        BY <1>6, <4>1 DEF PlacedFrom
      <4>3. ~(LineOf(s, k) = Line /\ (k - 1) % HalfColumns = Col)
        BY <1>8, <3>4, <4>1, DistinctPlaces
      <4>4. LineOf(s, k) \in 0 .. HalfLines - 1
            /\ (k - 1) % HalfColumns \in 0 .. HalfColumns - 1
        <5>1. PICK q \in 0 .. HalfLines - 1 :
                  /\ q = (k - 1) \div HalfColumns
                  /\ (k - 1) % HalfColumns \in 0 .. HalfColumns - 1
          BY <4>1, AveragePlace
        <5>2. LineOf(s, k) = IF s + q < HalfLines THEN s + q
                                                 ELSE s + q - HalfLines
          BY <5>1, LineWraps DEF LineOf
        <5> QED
          BY <5>1, <5>2, SizesFact
      <4>5. mat'[LineOf(s, k)][(k - 1) % HalfColumns]
                = mat[LineOf(s, k)][(k - 1) % HalfColumns]
        BY <1>9, <3>1, <3>2, <4>3, <4>4
      <4> QED
        BY <2>1, <4>1, <4>2, <4>5
    <3> QED
      BY <3>3, <3>4
  <2> QED
    BY <1>8, <1>10, <2>1, <2>2, <2>3 DEF PlacedFrom, LineOf
<1>14. PlaceInv'
  BY <1>13 DEF PlaceInv
<1> QED
  BY <1>4, <1>5, <1>11, <1>12, <1>14 DEF BenchInv

-----------------------------------------------------------------------------
(***************************************************************************)
(* The theorems                                                            *)
(***************************************************************************)

\* Every step of a bench keeps the invariant and is, to the block, a step of its
\* caller or none.
LEMMA BenchStep ==
    BenchInv /\ [Next]_vars => BenchInv' /\ [Proved!Next]_(Proved!vars)
  BY WriteFrameStep, RunBlockStep, PhaseStep, CollectStep DEF Next

\* The invariant of the bench and the block together holds in every reachable state.
THEOREM BenchInvariance == Spec => []BenchInv
  BY InitBenchInv, BenchStep, PTL DEF Spec

\* What the bench does to the block is what DownSample assumes of a caller: it
\* writes whole frames, between calls only, and reading dout disturbs nothing.
THEOREM IsCaller == Spec => BenchIsCaller
<1>1. Init => Caller!Init
  BY InitBenchInv, SameInit
<1>2. BenchInv /\ [Next]_vars => [Caller!Next]_(Caller!vars)
  BY BenchStep, SameNext
<1> QED
  BY <1>1, <1>2, BenchInvariance, PTL DEF Spec, BenchIsCaller, Caller!Spec

\* Every variable of bench and block keeps to its type: px_out, a uint9, never
\* passes the width of the image, and no place is outside of the image.
THEOREM TypeCorrect == Spec => []TypeOK
<1>1. BenchInv => TypeOK
  BY DEF BenchInv, BenchTypeOK, TypeOK, Proved!IInv, Proved!TypeOK, Block!TypeOK,
     Proved!LnTypeOK, Block!LnTypeOK, Proved!ShregTypeOK, Block!ShregTypeOK,
     Proved!Pixel, Block!Pixel, Proved!Pair, Block!Pair,
     Proved!Address, Block!Address, Proved!HalfColumns, Block!HalfColumns, Pixel
<1> QED
  BY <1>1, BenchInvariance, PTL

\* The pixel of column c of line g in the frame of a source image.
LEMMA RasterAt ==
    ASSUME NEW f \in Sources,
           NEW g \in 0 .. Lines - 1, NEW c \in 0 .. Columns - 1
    PROVE  Raster(f)[g * Columns + c + 1] = f[g][c]
<1>1. PICK m \in Nat : m = g * Columns
  BY SizesFact
<1>2. (m + c) \div Columns = g /\ (m + c) % Columns = c
  BY <1>1, SizesFact, AssumptionsHold, Proved!DivisionUnique
<1>3. m + c + 1 \in 1 .. FrameSize
  <2>1. (g + 1) * Columns <= Lines * Columns
    BY SizesFact, AssumptionsHold, Proved!ProductMonotonic
  <2>2. (g + 1) * Columns = g * Columns + Columns
    BY SizesFact, AssumptionsHold, Proved!ProductSuccessor
  <2>3. PICK t \in Nat : t = FrameSize
    BY SizesFact
  <2>4. m + Columns <= t
    BY <1>1, <2>1, <2>2, <2>3 DEF FrameSize
  <2> QED
    BY <2>3, <2>4, SizesFact
<1>4. PICK k \in 1 .. FrameSize : k = m + c + 1 /\ k - 1 = m + c
  BY <1>3, SizesFact
<1>5. Raster(f)[k] = f[(k - 1) \div Columns][(k - 1) % Columns]
  BY RasterFact
<1> QED
  BY <1>1, <1>2, <1>4, <1>5

\* What the block must write of the frame is what is expected of its source.
LEMMA AverageExpected ==
    ASSUME src \in Sources, taken = Raster(src),
           NEW r \in 0 .. HalfLines - 1, NEW c \in 0 .. HalfColumns - 1
    PROVE  Proved!BlockAverage(r, c) = Expected(r, c)
<1>1. /\ 2 * r \in 0 .. Lines - 1 /\ 2 * r + 1 \in 0 .. Lines - 1
      /\ 2 * c \in 0 .. Columns - 1 /\ 2 * c + 1 \in 0 .. Columns - 1
  BY SizesFact
<1>2. /\ Proved!PixelAt(2 * r, 2 * c) = src[2 * r][2 * c]
      /\ Proved!PixelAt(2 * r, 2 * c + 1) = src[2 * r][2 * c + 1]
      /\ Proved!PixelAt(2 * r + 1, 2 * c) = src[2 * r + 1][2 * c]
      /\ Proved!PixelAt(2 * r + 1, 2 * c + 1) = src[2 * r + 1][2 * c + 1]
  BY <1>1, RasterAt DEF Proved!PixelAt
<1> QED
  BY <1>2 DEF Proved!BlockAverage, Expected

\* The averages that were written, when the bench is done with the block.
LEMMA WrittenFact ==
    ASSUME BenchInv, phase = "done"
    PROVE  /\ frames = 1
           /\ Written \in Seq(Pixel) /\ Len(Written) = HalfLines * HalfColumns
           /\ \A k \in 1 .. HalfLines * HalfColumns :
                  Written[k] = Expected((k - 1) \div HalfColumns,
                                        (k - 1) % HalfColumns)
<1>1. /\ src \in Sources /\ pc = "idle" /\ image = <<>>
      /\ taken \o image = Raster(src) /\ Proved!IInv
  BY DEF BenchInv, BenchTypeOK, FramePhase
<1>2. /\ taken = Raster(src) /\ frames = 1
      /\ Written \in Seq(Pixel) /\ Len(Written) = HalfLines * HalfColumns
  BY <1>1, FullFrame
<1>3. ASSUME NEW k \in 1 .. HalfLines * HalfColumns
      PROVE  Written[k] = Expected((k - 1) \div HalfColumns, (k - 1) % HalfColumns)
  <2>1. Written[k] = Proved!BlockAverage((k - 1) \div HalfColumns,
                                         (k - 1) % HalfColumns)
    BY <1>1, <1>2
       DEF Proved!IInv, Proved!DownSampled, Proved!HalfColumns, HalfColumns
  <2> QED
    BY <1>1, <1>2, <2>1, AveragePlace, AverageExpected
<1> QED
  BY <1>2, <1>3

\* What the invariant says of a bench that returned.
LEMMA BenchInvFrame ==
    ASSUME BenchInv PROVE OneFrameThrough
<1> SUFFICES ASSUME phase = "done"
             PROVE  /\ image = <<>> /\ pc = "idle" /\ frames = 1
                    /\ (down_image = <<>>) <=> Collects
                    /\ Written = [k \in 1 .. HalfLines * HalfColumns |->
                                      Expected((k - 1) \div HalfColumns,
                                               (k - 1) % HalfColumns)]
  BY DEF OneFrameThrough, Written
<1>1. image = <<>> /\ pc = "idle" /\ frames = 1
  BY WrittenFact DEF BenchInv, FramePhase
<1>2. (down_image = <<>>) <=> Collects
  <2>1. CASE Collects
    BY <2>1 DEF BenchInv, CollectPhase
  <2>2. CASE ~Collects
    <3>1. collected = <<>> /\ down_image \in Seq(Pixel)
      BY <2>2 DEF BenchInv, BenchTypeOK, CollectPhase
    <3>2. Written = down_image
      BY <3>1, ConcatEmptySeq DEF Written
    <3>3. HalfLines * HalfColumns # 0
      BY SizesFact
    <3>4. down_image # <<>>
      BY <3>2, <3>3, WrittenFact, EmptySeq
    <3> QED
      BY <2>2, <3>4
  <2> QED
    BY <2>1, <2>2
<1>3. Written = [k \in 1 .. HalfLines * HalfColumns |->
                     Expected((k - 1) \div HalfColumns, (k - 1) % HalfColumns)]
  <2>1. Written = [k \in 1 .. Len(Written) |-> Written[k]]
    BY WrittenFact
  <2> QED
    BY <2>1, WrittenFact
<1> QED
  BY <1>1, <1>2, <1>3

\* The bench returns with din used up, one call of the block behind it, and the
\* averages of its whole frame collected or, in the Catapult bench, still in dout.
THEOREM FrameThrough == Spec => []OneFrameThrough
<1>1. BenchInv => OneFrameThrough
  BY BenchInvFrame
<1> QED
  BY <1>1, BenchInvariance, PTL

\* The image shown holds every average once, in order, but for a rotation of its
\* lines, whatever ln_out was before the bench used it.
THEOREM ShownRotated == Spec => []ShownUpToRotation
<1>1. ASSUME BenchInv PROVE ShownUpToRotation
  <2> SUFFICES ASSUME Collects, phase = "done"
               PROVE  \E s \in 0 .. HalfLines - 1 :
                          \A r \in 0 .. HalfLines - 1, c \in 0 .. HalfColumns - 1 :
                              mat[(r + s) % HalfLines][c] = Expected(r, c)
    BY DEF ShownUpToRotation
  <2>1. collected = Written
    <3>1. down_image = <<>> /\ collected \in Seq(Pixel)
      BY <1>1 DEF BenchInv, BenchTypeOK, CollectPhase
    <3> QED
      BY <3>1, ConcatEmptySeq DEF Written
  <2>2. PICK s \in 0 .. HalfLines - 1 : PlacedFrom(s)
    BY <1>1 DEF BenchInv, PlaceInv
  <2>3. ASSUME NEW r \in 0 .. HalfLines - 1, NEW c \in 0 .. HalfColumns - 1
        PROVE  mat[(r + s) % HalfLines][c] = Expected(r, c)
    <3>1. PICK k \in 1 .. HalfLines * HalfColumns :
              /\ (k - 1) \div HalfColumns = r
              /\ (k - 1) % HalfColumns = c
      <4>1. PICK m \in Nat : m = r * HalfColumns + c
        BY SizesFact
      <4>2. m + 1 \in 1 .. HalfLines * HalfColumns /\ (m + 1) - 1 = m
        BY <4>1, PlaceOf
      <4>3. m \div HalfColumns = r /\ m % HalfColumns = c
        BY <4>1, PlaceOf
      <4> QED
        BY <4>2, <4>3
    <3>2. collected[k] = Expected(r, c) /\ Len(collected) = HalfLines * HalfColumns
      BY <1>1, <2>1, <3>1, WrittenFact
    <3>3. mat[LineOf(s, k)][c] = collected[k]
      BY <2>2, <3>1, <3>2 DEF PlacedFrom
    <3>4. LineOf(s, k) = (r + s) % HalfLines
      <4>1. s + r = r + s
        OBVIOUS
      <4> QED
        BY <3>1, <4>1 DEF LineOf
    <3> QED
      BY <3>2, <3>3, <3>4
  <2> QED
    BY <2>3
<1> QED
  BY <1>1, BenchInvariance, PTL
-----------------------------------------------------------------------------
(***************************************************************************)
(* The bitmap that the Catapult bench reads                                *)
(***************************************************************************)

\* A product grows with its factor.
LEMMA ProductMonotonic ==
    ASSUME NEW a \in Nat, NEW b \in Nat, NEW m \in Nat, a <= b
    PROVE  a * m <= b * m
  OBVIOUS

\* The length of a row: its bytes, and what is lacking to a multiple of four.
LEMMA StrideFact ==
    ASSUME FileOK, file.bitcount \in {8, 24}
    PROVE  /\ BytesPerPixel \in {1, 3}
           /\ Stride \in Nat /\ Stride % 4 = 0
           /\ file.width * BytesPerPixel \in Nat
           /\ file.width * BytesPerPixel <= Stride
           /\ Stride < file.width * BytesPerPixel + 4
<1>1. PICK w \in Nat : w = file.width
  BY DEF FileOK
<1>2. CASE file.bitcount = 8
  <2>1. /\ 4 * ((w * 8 + 31) \div 32) \in Nat
        /\ (4 * ((w * 8 + 31) \div 32)) % 4 = 0
        /\ w <= 4 * ((w * 8 + 31) \div 32)
        /\ 4 * ((w * 8 + 31) \div 32) < w + 4
    OBVIOUS
  <2> QED
    BY <1>1, <1>2, <2>1 DEF Stride, BytesPerPixel
<1>3. CASE file.bitcount = 24
  <2>1. /\ 4 * ((w * 24 + 31) \div 32) \in Nat
        /\ (4 * ((w * 24 + 31) \div 32)) % 4 = 0
        /\ w * 3 <= 4 * ((w * 24 + 31) \div 32)
        /\ 4 * ((w * 24 + 31) \div 32) < w * 3 + 4
    OBVIOUS
  <2> QED
    BY <1>1, <1>3, <2>1 DEF Stride, BytesPerPixel
<1> QED
  BY <1>2, <1>3

\* fread gives whole blocks, or what is left of the file.
LEMMA RefillType ==
    ASSUME FileOK, NEW s \in Stream, s.pos <= Len(file.data)
    PROVE  /\ Refill(s) \in Stream /\ Refill(s).pos <= Len(file.data)
           /\ Refill(s).bytesleft # 0
<1>1. CASE s.bytesleft # 0
  BY <1>1 DEF Refill
<1>2. CASE s.bytesleft = 0
  <2> DEFINE pos == IF s.pos + 4 <= Len(file.data) THEN s.pos + 4
                                                   ELSE Len(file.data)
             buffer == [k \in 1 .. 4 |->
                IF s.pos + k <= Len(file.data) THEN file.data[s.pos + k]
                                               ELSE s.buffer[k]]
  <2>1. s.pos \in Nat /\ s.buffer \in [1 .. 4 -> Byte] /\ s.byte \in Byte
    BY DEF Stream
  <2>2. Len(file.data) \in Nat /\ \A k \in 1 .. Len(file.data) : file.data[k] \in Byte
    BY DEF FileOK
  <2>3. pos \in Nat /\ pos <= Len(file.data)
    BY <2>1, <2>2
  <2>4. buffer \in [1 .. 4 -> Byte]
    BY <2>1, <2>2
  <2>5. Refill(s) = [pos |-> pos, bytesleft |-> 4, buffer |-> buffer, byte |-> s.byte]
    BY <1>2 DEF Refill, Stream
  <2> QED
    BY <2>1, <2>3, <2>4, <2>5 DEF Stream
<1> QED
  BY <1>1, <1>2

\* getbyte, field by field.
LEMMA GetByteFields ==
    ASSUME FileOK, NEW s \in Stream, s.pos <= Len(file.data)
    PROVE  /\ GetByte(s) \in Stream /\ GetByte(s).pos = Refill(s).pos
           /\ GetByte(s).pos <= Len(file.data)
           /\ GetByte(s).bytesleft = Refill(s).bytesleft - 1
           /\ GetByte(s).bytesleft < 4
           /\ GetByte(s).byte = Refill(s).buffer[1]
           /\ \A k \in 1 .. 3 : GetByte(s).buffer[k] = Refill(s).buffer[k + 1]
<1> DEFINE r == Refill(s)
<1>1. r \in Stream /\ r.pos <= Len(file.data) /\ r.bytesleft # 0
  BY RefillType
<1> HIDE DEF r
<1>2. r.buffer \in [1 .. 4 -> Byte] /\ r.bytesleft \in 1 .. 4 /\ r.pos \in Nat
  BY <1>1 DEF Stream
<1> DEFINE buffer == [k \in 1 .. 4 |-> IF k = 4 THEN 0 ELSE r.buffer[k + 1]]
<1>3. GetByte(s) = [pos |-> r.pos, bytesleft |-> r.bytesleft - 1,
                    buffer |-> buffer, byte |-> r.buffer[1]]
  BY DEF GetByte, r
<1>4. r.buffer[1] \in Byte
  BY <1>2
<1>5. r.bytesleft - 1 \in 0 .. 4 /\ r.bytesleft - 1 < 4
  BY <1>2
<1>6. buffer \in [1 .. 4 -> Byte] /\ \A k \in 1 .. 3 : buffer[k] = r.buffer[k + 1]
  BY <1>2 DEF Byte
<1> HIDE DEF buffer
<1>7. GetByte(s) \in Stream
  BY <1>2, <1>3, <1>4, <1>5, <1>6 DEF Stream
<1> QED
  BY <1>1, <1>2, <1>3, <1>5, <1>6, <1>7 DEF r

\* A refill at the end of a block takes the next block of the row, which is there.
LEMMA RefillAt ==
    ASSUME FileOK, Complete, NEW s \in Stream, s.pos <= Len(file.data),
           NEW row \in 0 .. file.height - 1, NEW n \in Nat, n < Stride,
           StreamAt(s, row, n)
    PROVE  /\ (n + Refill(s).bytesleft) % 4 = 0
           /\ Refill(s).pos = row * Stride + n + Refill(s).bytesleft
           /\ \A k \in 1 .. Refill(s).bytesleft :
                  Refill(s).buffer[k] = file.data[row * Stride + n + k]
<1>1. CASE s.bytesleft # 0
  BY <1>1 DEF Refill, StreamAt
<1>2. CASE s.bytesleft = 0
  <2>1. PICK w \in Nat, size \in Nat :
            w = Stride /\ w % 4 = 0 /\ size = Len(file.data)
    BY StrideFact DEF Complete, FileOK
  <2>2. PICK m \in Nat : m = row * w
    BY <2>1
  <2>3. s.pos = m + n /\ n % 4 = 0
    BY <1>2, <2>1, <2>2 DEF StreamAt
  <2>4. n + 4 <= w
    BY <2>1, <2>3
  <2>5. m + w <= size
    <3>1. PICK h \in Nat : h = file.height
      BY DEF FileOK
    <3>2. (row + 1) * w <= h * w
      <4>1. row + 1 <= h /\ row + 1 \in Nat
        BY <3>1
      <4> QED
        BY <4>1, ProductMonotonic
    <3>3. (row + 1) * w = m + w
      BY <2>2
    <3>4. h * w <= size
      BY <2>1, <3>1 DEF Complete
    <3> QED
      BY <2>1, <2>2, <3>1, <3>2, <3>3, <3>4
  <2>6. s.pos + 4 <= Len(file.data)
    BY <2>1, <2>2, <2>3, <2>4, <2>5
  <2>7. /\ Refill(s).bytesleft = 4 /\ Refill(s).pos = s.pos + 4
        /\ \A k \in 1 .. 4 : Refill(s).buffer[k] = file.data[s.pos + k]
    <3>1. s.pos \in Nat /\ Len(file.data) \in Nat
      BY <2>1 DEF Stream
    <3>2. \A k \in 1 .. 4 : s.pos + k <= Len(file.data)
      BY <2>6, <3>1
    <3> QED
      BY <1>2, <2>6, <3>2 DEF Refill, Stream
  <2>8. (n + 4) % 4 = 0
    BY <2>3
  <2> QED
    BY <2>1, <2>2, <2>3, <2>7, <2>8
<1> QED
  BY <1>1, <1>2

\* A byte that is read within a row is the next one of the row.
LEMMA GetByteAt ==
    ASSUME FileOK, Complete, NEW s \in Stream, s.pos <= Len(file.data),
           NEW row \in 0 .. file.height - 1, NEW n \in Nat, n < Stride,
           StreamAt(s, row, n)
    PROVE  /\ StreamAt(GetByte(s), row, n + 1)
           /\ GetByte(s).byte = file.data[row * Stride + n + 1]
<1>1. PICK m \in Nat : m = row * Stride
  BY StrideFact DEF Complete
<1>2. PICK b \in 1 .. 4 : b = Refill(s).bytesleft
  BY RefillType DEF Stream
<1>3. /\ (n + b) % 4 = 0 /\ Refill(s).pos = m + n + b
      /\ \A k \in 1 .. b : Refill(s).buffer[k] = file.data[m + n + k]
  BY <1>1, <1>2, RefillAt
<1>4. /\ GetByte(s).bytesleft = b - 1 /\ GetByte(s).pos = m + n + b
      /\ GetByte(s).byte = Refill(s).buffer[1]
      /\ \A k \in 1 .. 3 : GetByte(s).buffer[k] = Refill(s).buffer[k + 1]
  BY <1>2, <1>3, GetByteFields
<1>5. ASSUME NEW k \in 1 .. b - 1
      PROVE  GetByte(s).buffer[k] = file.data[m + (n + 1) + k]
  <2>1. k \in 1 .. 3 /\ k + 1 \in 1 .. b /\ m + n + (k + 1) = m + (n + 1) + k
    OBVIOUS
  <2> QED
    BY <1>3, <1>4, <2>1
<1>6. (n + 1) + (b - 1) = n + b /\ m + (n + 1) + (b - 1) = m + n + b /\ b - 1 < 4
  OBVIOUS
<1>7. GetByte(s).byte = file.data[m + n + 1]
  BY <1>3, <1>4
<1> QED
  BY <1>1, <1>3, <1>4, <1>5, <1>6, <1>7 DEF StreamAt

\* Three bytes that are read within a row are the next three of the row.
LEMMA ThreeBytesAt ==
    ASSUME FileOK, Complete, NEW s \in Stream, s.pos <= Len(file.data),
           NEW row \in 0 .. file.height - 1, NEW n \in Nat, n + 3 <= Stride,
           StreamAt(s, row, n)
    PROVE  LET first == GetByte(s)
               second == GetByte(first)
               third == GetByte(second)
           IN  /\ StreamAt(third, row, n + 3)
               /\ first.byte = file.data[row * Stride + n + 1]
               /\ second.byte = file.data[row * Stride + n + 2]
               /\ third.byte = file.data[row * Stride + n + 3]
<1> DEFINE first == GetByte(s)
           second == GetByte(first)
           third == GetByte(second)
<1>1. PICK n1 \in Nat, n2 \in Nat :
          /\ n1 = n + 1 /\ n2 = n1 + 1 /\ n + 2 = n1 + 1 /\ n + 3 = n2 + 1
          /\ n < Stride /\ n1 < Stride /\ n2 < Stride
  BY StrideFact DEF Complete
<1>2. /\ first \in Stream /\ first.pos <= Len(file.data)
      /\ StreamAt(first, row, n + 1) /\ first.byte = file.data[row * Stride + n + 1]
  BY <1>1, GetByteAt, GetByteFields
<1> HIDE DEF first
<1>3. StreamAt(first, row, n1)
  BY <1>1, <1>2
<1>4. /\ second \in Stream /\ second.pos <= Len(file.data)
      /\ StreamAt(second, row, n1 + 1) /\ second.byte = file.data[row * Stride + n1 + 1]
  BY <1>1, <1>2, <1>3, GetByteAt, GetByteFields
<1> HIDE DEF second
<1>5. StreamAt(second, row, n2)
  BY <1>1, <1>4
<1>6. StreamAt(third, row, n2 + 1) /\ third.byte = file.data[row * Stride + n2 + 1]
  BY <1>1, <1>4, <1>5, GetByteAt
<1> HIDE DEF third
<1>7. PICK m \in Nat : m = row * Stride
  BY StrideFact DEF Complete
<1>8. m + n1 + 1 = m + n + 2 /\ m + n2 + 1 = m + n + 3
  BY <1>1
<1> QED
  BY <1>1, <1>2, <1>4, <1>6, <1>7, <1>8 DEF first, second, third

-----------------------------------------------------------------------------
(***************************************************************************)
(* The loops                                                               *)
(***************************************************************************)

\* A pixel later, row and column are inside or the array is complete.
LEMMA AfterPixel ==
    ASSUME FileInv, file_pc = "reading", UNCHANGED file,
           NEW s \in Stream, s.pos <= Len(file.data),
           NEW b \in 0 .. 8, file.bitcount \in {8, 24} => b = 0,
           file.bitcount = 4 => b \in {0, 4},
           NextPixel(s, b)
    PROVE  /\ in' \in Stream /\ in'.pos \in 0 .. Len(file'.data)
           /\ in'.bytesleft \in 0 .. 4 /\ bitsleft' \in 0 .. 8
           /\ i' \in 0 .. file'.height /\ j' \in 0 .. file'.width
           /\ LoopOK' /\ file_pc' \in {"reading", "loaded"}
           /\ file_pc' = "reading" =>
                  i' * file.width + j' = i * file.width + j + 1
           /\ file_pc' = "loaded" =>
                  file.height * file.width = i * file.width + j + 1
<1>1. PICK w \in Nat, h \in Nat :
          /\ w = file.width /\ h = file.height /\ i \in Nat /\ j \in Nat
          /\ i < h /\ j < w /\ Readable(file)
  BY DEF FileInv, FileOK, FileTypeOK, LoopOK
<1>2. CASE j + 1 < w
  <2>1. j' = j + 1 /\ in' = s /\ bitsleft' = b /\ i' = i /\ file_pc' = file_pc
    BY <1>1, <1>2 DEF NextPixel
  <2>2. s.bytesleft \in 0 .. 4 /\ s.pos \in 0 .. Len(file.data)
    BY DEF Stream, FileInv, FileOK
  <2>3. LoopOK'
    BY <1>1, <1>2, <2>1 DEF LoopOK
  <2>4. i' \in 0 .. h /\ j' \in 0 .. w /\ file_pc' = "reading"
    BY <1>1, <1>2, <2>1
  <2>5. i' * w + j' = i * w + j + 1
    <3>1. PICK m \in Nat : m = i * w
      BY <1>1
    <3>2. m + (j + 1) = m + j + 1
      BY <1>1
    <3> QED
      BY <2>1, <3>1, <3>2
  <2> QED
    BY <1>1, <2>1, <2>2, <2>3, <2>4, <2>5
<1>3. CASE ~(j + 1 < w)
  <2>1. /\ j' = 0 /\ i' = i + 1 /\ in' = [s EXCEPT !.bytesleft = 0]
        /\ bitsleft' = 0
        /\ file_pc' = IF i + 1 < h THEN "reading" ELSE "loaded"
    BY <1>1, <1>3 DEF NextPixel
  <2>2. in' \in Stream /\ in'.pos = s.pos /\ in'.bytesleft = 0
    BY <2>1 DEF Stream
  <2>3. s.pos \in 0 .. Len(file.data)
    BY DEF Stream, FileInv, FileOK
  <2>4. LoopOK'
    BY <1>1, <1>3, <2>1 DEF LoopOK
  <2>5. (i + 1) * w = i * w + w /\ j + 1 = w
    BY <1>1, <1>3
  <2>6. /\ i' \in 0 .. h /\ j' \in 0 .. w /\ bitsleft' \in 0 .. 8
        /\ file_pc' \in {"reading", "loaded"} /\ in'.bytesleft \in 0 .. 4
    BY <1>1, <2>1, <2>2
  <2>7. i' * w + j' = i * w + j + 1
    BY <1>1, <2>1, <2>5
  <2>8. file_pc' = "loaded" => h * w = i * w + j + 1
    <3>1. file_pc' = "loaded" => h = i + 1
      BY <1>1, <2>1
    <3>2. PICK m \in Nat : m = i * w
      BY <1>1
    <3>3. j + 1 = w
      BY <1>1, <1>3
    <3>4. m + w = m + j + 1
      BY <1>1, <3>3
    <3> QED
      BY <2>5, <3>1, <3>2, <3>4
  <2> QED
    BY <1>1, <2>2, <2>3, <2>4, <2>6, <2>7, <2>8
<1> QED
  BY <1>2, <1>3

\* The array never has more pixels than the image.
LEMMA ArrayFits ==
    ASSUME FileOK, PixelsOK, LoopOK, i \in Nat, j \in Nat,
           file_pc \in {"closed", "reading", "loaded", "failed"}
    PROVE  Len(array) <= file.width * file.height
<1>1. PICK w \in Nat, h \in Nat : w = file.width /\ h = file.height
  BY DEF FileOK
<1>2. CASE file_pc = "reading"
  <2>1. i + 1 <= h /\ j < w /\ i + 1 \in Nat
    BY <1>1, <1>2 DEF LoopOK
  <2>2. (i + 1) * w <= h * w
    BY <2>1, ProductMonotonic
  <2>3. (i + 1) * w = i * w + w
    OBVIOUS
  <2>4. i * w + j <= w * h
    BY <2>1, <2>2, <2>3
  <2>5. Len(array) = i * w + j
    BY <1>1, <1>2 DEF PixelsOK
  <2> QED
    BY <1>1, <2>4, <2>5
<1>3. CASE file_pc \in {"closed", "failed"}
  BY <1>1, <1>3, EmptySeq DEF PixelsOK
<1>4. CASE file_pc = "loaded"
  BY <1>1, <1>4 DEF PixelsOK
<1> QED
  BY <1>2, <1>3, <1>4

\* What does not look at the file's bytes: types, counters and sizes.
FileTypes ==
    /\ FileOK /\ in \in Stream /\ FileTypeOK
    /\ PixelsOK /\ LoopOK

\* A pixel is read.
LEMMA PixelTypes ==
    ASSUME FileInv, file_pc = "reading", UNCHANGED <<file, order>>,
           NEW s \in Stream, s.pos <= Len(file.data),
           NEW b \in 0 .. 8, file.bitcount \in {8, 24} => b = 0,
           file.bitcount = 4 => b \in {0, 4},
           NextPixel(s, b),
           NEW x \in [1 .. 3 -> Byte] \cup {Garbage},
           array' = Append(array, x), pixelbuffer' \in Byte
    PROVE  FileTypes'
<1>1. /\ array \in Seq([1 .. 3 -> Byte] \cup {Garbage})
      /\ Len(array) = i * file.width + j
  BY DEF FileInv, PixelsOK
<1>2. array' \in Seq([1 .. 3 -> Byte] \cup {Garbage})
      /\ Len(array') = Len(array) + 1
  BY <1>1
<1>3. PixelsOK'
  BY <1>1, <1>2, AfterPixel DEF PixelsOK
<1>4. FileOK' /\ LoopOK' /\ in' \in Stream
  BY AfterPixel DEF FileInv, FileOK
<1>5. (FileOK /\ PixelsOK /\ LoopOK /\ i \in Nat /\ j \in Nat
         /\ file_pc \in {"closed", "reading", "loaded", "failed"}
         => Len(array) <= file.width * file.height)'
  BY ArrayFits, PTL
<1>6. /\ i' \in 0 .. file'.height /\ j' \in 0 .. file'.width
      /\ file_pc' \in {"reading", "loaded"}
      /\ in'.pos \in 0 .. Len(file'.data) /\ in'.bytesleft \in 0 .. 4
      /\ bitsleft' \in 0 .. 8
  BY AfterPixel
<1>7. i' \in Nat /\ j' \in Nat
  BY <1>6
<1>8. FileTypeOK'
  BY <1>3, <1>4, <1>5, <1>6, <1>7 DEF FileInv, FileTypeOK, Byte
<1> QED
  BY <1>3, <1>4, <1>8 DEF FileTypes

\* When a row ends, the rest of its block is what pads it.
LEMMA RowEnds ==
    ASSUME NEW t \in Nat, NEW n \in Nat, NEW b \in 0 .. 3,
           t % 4 = 0, (n + b) % 4 = 0, n <= t, t < n + 4
    PROVE  n + b = t
  OBVIOUS

\* The stream is at the next pixel.
LEMMA StreamStays ==
    ASSUME FileInv, Complete, file_pc = "reading", UNCHANGED <<file, order>>,
           NEW s \in Stream, StreamAt(s, i, (j + 1) * BytesPerPixel),
           NextPixel(s, 0)
    PROVE  file_pc' = "reading" => StreamAt(in, i, j * BytesPerPixel)'
<1>1. PICK w \in Nat, t \in Nat, B \in {1, 3} :
          /\ w = file.width /\ t = Stride /\ B = BytesPerPixel
          /\ i \in Nat /\ j \in Nat /\ i < file.height /\ j < w
          /\ t % 4 = 0 /\ w * B <= t /\ t < w * B + 4
  BY StrideFact DEF FileInv, FileOK, FileTypeOK, LoopOK, Complete
<1>2. Stride' = Stride /\ BytesPerPixel' = BytesPerPixel
  BY DEF Stride, BytesPerPixel
<1>3. CASE j + 1 < w
  <2>1. j' = j + 1 /\ in' = s /\ i' = i
    BY <1>1, <1>3 DEF NextPixel
  <2> QED
    BY <1>2, <2>1 DEF StreamAt
<1>4. CASE ~(j + 1 < w)
  <2>1. j' = 0 /\ in' = [s EXCEPT !.bytesleft = 0] /\ i' = i + 1
    BY <1>1, <1>4 DEF NextPixel
  <2>2. in'.bytesleft = 0 /\ in'.pos = s.pos
    BY <2>1 DEF Stream
  <2>3. PICK n \in Nat, b \in 0 .. 3 :
            /\ n = w * B /\ b = s.bytesleft
            /\ (n + b) % 4 = 0 /\ s.pos = i * Stride + n + b
    <3>1. j + 1 = w
      BY <1>1, <1>4
    <3>2. w * B \in Nat /\ (j + 1) * BytesPerPixel = w * B
      BY <1>1, <3>1
    <3>3. s.bytesleft \in 0 .. 3
      BY DEF StreamAt, Stream
    <3> QED
      BY <3>2, <3>3 DEF StreamAt
  <2>4. n + b = t
    BY <1>1, <2>3, RowEnds
  <2>5. s.pos = (i + 1) * t + 0 + 0
    <3>1. PICK m \in Nat : m = i * t
      BY <1>1
    <3>2. (i + 1) * t = m + t
      BY <1>1, <3>1
    <3>3. s.pos = m + n + b
      BY <1>1, <2>3, <3>1
    <3> QED
      BY <2>4, <3>2, <3>3
  <2>6. 0 * BytesPerPixel = 0 /\ (0 + 0) % 4 = 0 /\ 0 < 4
    BY <1>1
  <2> QED
    BY <1>1, <1>2, <2>1, <2>2, <2>5, <2>6 DEF StreamAt
<1> QED
  BY <1>3, <1>4

\* A product and its successor.
LEMMA ProductSuccessor ==
    ASSUME NEW a \in Nat, NEW m \in Nat
    PROVE  (a + 1) * m = a * m + m
  OBVIOUS

\* A place in an earlier row, or earlier in this one, is an earlier place.
LEMMA EarlierPlace ==
    ASSUME NEW w \in Nat, NEW a \in Nat, NEW b \in Nat, NEW c \in Nat, NEW d \in Nat,
           c < w, a < b \/ (a = b /\ c < d)
    PROVE  a * w + c + 1 \in 1 .. b * w + d
<1>1. PICK r \in Nat, m \in Nat : r = a * w /\ m = b * w
  OBVIOUS
<1>2. CASE a = b
  <2>1. c < d /\ r = m
    BY <1>1, <1>2
  <2> QED
    BY <1>1, <2>1
<1>3. CASE a < b
  <2>1. a + 1 \in Nat /\ a + 1 <= b
    BY <1>3
  <2>2. r + w <= m
    BY <1>1, <2>1, ProductMonotonic, ProductSuccessor
  <2>3. r + c + 1 \in 1 .. m + d
    BY <2>2
  <2> QED
    BY <1>1, <2>3
<1> QED
  BY <1>2, <1>3

LEMMA AppendKeeps ==
    ASSUME NEW S, NEW s \in Seq(S), NEW x
    PROVE  /\ Append(s, x)[Len(s) + 1] = x
           /\ \A k \in 1 .. Len(s) : Append(s, x)[k] = s[k]
  OBVIOUS

\* The pixel just read joins those read before.
LEMMA PlacesStay ==
    ASSUME FileInv, Complete, file_pc = "reading", UNCHANGED <<file, order>>,
           NEW s, NextPixel(s, 0), array' = Append(array, FilePixel(i, j)),
           NEW row \in FileRows, NEW column \in FileColumns, PlaceRead(row, column)'
    PROVE  array'[row * file.width + column + 1] = FilePixel(row, column)
<1>1. PICK w \in Nat, h \in Nat, m \in Nat :
          /\ w = file.width /\ h = file.height /\ m = i * w
          /\ i \in Nat /\ j \in Nat /\ i < h /\ j < w
          /\ row \in 0 .. h - 1 /\ column \in 0 .. w - 1
  BY DEF FileInv, FileOK, FileTypeOK, LoopOK, FileRows, FileColumns
<1>2. /\ array \in Seq([1 .. 3 -> Byte] \cup {Garbage}) /\ Len(array) = m + j
  BY <1>1 DEF FileInv, PixelsOK
<1>3. /\ array'[m + j + 1] = FilePixel(i, j)
      /\ \A k \in 1 .. m + j : array'[k] = array[k]
  <2> DEFINE x == FilePixel(i, j)
  <2> HIDE DEF x
  <2>1. /\ Append(array, x)[Len(array) + 1] = x
        /\ \A k \in 1 .. Len(array) : Append(array, x)[k] = array[k]
    BY <1>2, AppendKeeps
  <2>2. array' = Append(array, x)
    BY DEF x
  <2> QED
    BY <1>2, <2>1, <2>2 DEF x
<1>4. row < i \/ (row = i /\ column <= j)
  <2>1. CASE j + 1 < w
    <3>1. j' = j + 1 /\ i' = i /\ file_pc' = "reading"
      BY <1>1, <2>1 DEF NextPixel
    <3> QED
      BY <1>1, <3>1 DEF PlaceRead
  <2>2. CASE ~(j + 1 < w)
    <3>1. j' = 0 /\ i' = i + 1 /\ file_pc' = IF i + 1 < h THEN "reading" ELSE "loaded"
      BY <1>1, <2>2 DEF NextPixel
    <3> QED
      BY <1>1, <2>2, <3>1 DEF PlaceRead
  <2> QED
    BY <2>1, <2>2
<1>5. CASE row = i /\ column = j
  BY <1>1, <1>3, <1>5
<1>6. CASE row # i \/ column # j
  <2>1. row \in Nat /\ column \in Nat /\ column < w
    BY <1>1
  <2>2. row < i \/ (row = i /\ column < j)
    BY <1>1, <1>4, <1>6, <2>1
  <2>3. row * w + column + 1 \in 1 .. m + j
    BY <1>1, <2>1, <2>2, EarlierPlace
  <2>4. PlaceRead(row, column)
    BY <2>2 DEF PlaceRead
  <2>5. array[row * file.width + column + 1] = FilePixel(row, column)
    BY <2>4 DEF FileInv, ReadInv
  <2> QED
    BY <1>1, <1>3, <2>3, <2>5
<1> QED
  BY <1>5, <1>6

\* A whole pixel was read from the place of the file where the loops are.
LEMMA PixelRead ==
    ASSUME FileInv, Complete, file_pc = "reading", UNCHANGED <<file, order>>,
           NEW s \in Stream, StreamAt(s, i, (j + 1) * BytesPerPixel),
           NextPixel(s, 0), array' = Append(array, FilePixel(i, j))
    PROVE  ReadInv'
<1>1. FileRows' = FileRows /\ FileColumns' = FileColumns /\ file'.width = file.width
  BY DEF FileRows, FileColumns
<1>2. \A row, column : FilePixel(row, column)' = FilePixel(row, column)
  BY DEF FilePixel, Swapped, Stride
<1>3. \A row \in FileRows, column \in FileColumns :
          PlaceRead(row, column)' =>
              array'[row * file.width + column + 1] = FilePixel(row, column)
  BY PlacesStay
<1>4. file_pc' = "reading" => StreamAt(in, i, j * BytesPerPixel)'
  BY StreamStays
<1> QED
  BY <1>1, <1>2, <1>3, <1>4 DEF ReadInv

-----------------------------------------------------------------------------
(***************************************************************************)
(* The steps                                                               *)
(***************************************************************************)

\* What follows from the types for a file that is read.
LEMMA ReadingFacts ==
    ASSUME FileInv, file_pc = "reading"
    PROVE  /\ FileOK /\ in \in Stream /\ in.pos <= Len(file.data)
           /\ file.width \in Nat /\ file.height \in Nat
           /\ i \in 0 .. file.height - 1 /\ j \in 0 .. file.width - 1
           /\ file.bitcount \in {1, 4, 8, 24}
           /\ bitsleft \in 0 .. 8 /\ pixelbuffer \in Byte
           /\ file.bitcount \in {8, 24} => bitsleft = 0
           /\ file.bitcount = 4 => bitsleft \in {0, 4}
<1>1. in.pos \in 0 .. Len(file.data) /\ Len(file.data) \in Nat
  BY DEF FileInv, FileTypeOK, FileOK
<1> QED
  BY <1>1 DEF FileInv, FileTypeOK, LoopOK, FileOK, Readable, Byte

\* The bytes of a pixel are inside its row.
LEMMA PixelInRow ==
    ASSUME NEW w \in Nat, NEW c \in Nat, NEW B \in {1, 3}, NEW t \in Nat,
           c < w, w * B <= t
    PROVE  /\ c * B \in Nat /\ (c + 1) * B = c * B + B
           /\ c * B + B <= t
  OBVIOUS

\* What was written is not read: the object that wrote it is kept.
LEMMA WrittenStays ==
    ASSUME WrittenInv, UNCHANGED <<file, original>>
    PROVE  WrittenInv'
  BY DEF WrittenInv

\* A pixel of 24 bits.
LEMMA ReadPixel24Keeps ==
    ASSUME FileInv, ReadPixel24
    PROVE  FileInv'
<1> DEFINE first == GetByte(in)
           second == GetByte(first)
           third == GetByte(second)
           x == IF order = "left" THEN <<first.byte, second.byte, third.byte>>
                                  ELSE <<first.byte, third.byte, second.byte>>
<1>1. /\ file_pc = "reading" /\ file.bitcount = 24 /\ UNCHANGED <<file, order, original>>
      /\ pixelbuffer' = first.byte /\ array' = Append(array, x)
      /\ NextPixel(third, 0)
  BY DEF ReadPixel24
<1>2. /\ first \in Stream /\ first.pos <= Len(file.data)
      /\ second \in Stream /\ second.pos <= Len(file.data)
      /\ third \in Stream /\ third.pos <= Len(file.data)
  <2>1. first \in Stream /\ first.pos <= Len(file.data)
    BY <1>1, ReadingFacts, GetByteFields
  <2> HIDE DEF first
  <2>2. second \in Stream /\ second.pos <= Len(file.data)
    BY <1>1, <2>1, ReadingFacts, GetByteFields
  <2> HIDE DEF second
  <2>3. third \in Stream /\ third.pos <= Len(file.data)
    BY <1>1, <2>2, ReadingFacts, GetByteFields
  <2> QED
    BY <2>1, <2>2, <2>3
<1>3. ASSUME Complete
      PROVE  /\ StreamAt(third, i, (j + 1) * BytesPerPixel)
             /\ x = FilePixel(i, j)
  <2>1. PICK w \in Nat, t \in Nat :
            /\ w = file.width /\ t = Stride /\ BytesPerPixel = 3
            /\ j \in Nat /\ j < w /\ w * 3 <= t
    BY <1>1, <1>3, ReadingFacts, StrideFact DEF BytesPerPixel
  <2>2. PICK n \in Nat : n = j * 3 /\ (j + 1) * 3 = n + 3 /\ n + 3 <= t
    BY <2>1, PixelInRow
  <2>3. StreamAt(in, i, n)
    BY <1>1, <1>3, <2>1, <2>2 DEF FileInv, ReadInv
  <2>4. /\ FileOK /\ i \in 0 .. file.height - 1
        /\ in \in Stream /\ in.pos <= Len(file.data)
    BY <1>1, ReadingFacts
  <2>5. /\ StreamAt(third, i, n + 3)
        /\ first.byte = file.data[i * Stride + n + 1]
        /\ second.byte = file.data[i * Stride + n + 2]
        /\ third.byte = file.data[i * Stride + n + 3]
    BY <1>3, <2>1, <2>2, <2>3, <2>4, ThreeBytesAt
  <2> HIDE DEF first, second, third
  <2>6. x = FilePixel(i, j)
    <3>1. PICK m \in Nat : m = i * Stride
      BY <2>1, <2>4
    <3> DEFINE p == [k \in 1 .. 3 |-> file.data[i * Stride + (3 * j + k - 1) + 1]]
    <3>2. p[1] = first.byte /\ p[2] = second.byte /\ p[3] = third.byte
      <4>1. /\ m + (3 * j + 1 - 1) + 1 = m + n + 1
            /\ m + (3 * j + 2 - 1) + 1 = m + n + 2
            /\ m + (3 * j + 3 - 1) + 1 = m + n + 3
        BY <2>1, <2>2
      <4> QED
        BY <2>5, <3>1, <4>1
    <3>3. p = <<p[1], p[2], p[3]>>
      OBVIOUS
    <3>4. FilePixel(i, j) = Swapped(p)
      BY <1>1 DEF FilePixel
    <3> HIDE DEF p
    <3>5. Swapped(p) = IF order = "left" THEN p ELSE <<p[1], p[3], p[2]>>
      BY DEF Swapped
    <3> QED
      BY <3>2, <3>3, <3>4, <3>5
  <2> QED
    BY <2>1, <2>2, <2>5, <2>6
<1>4. /\ first.byte \in Byte /\ second.byte \in Byte /\ third.byte \in Byte
  BY <1>2 DEF Stream
<1> HIDE DEF first, second, third
<1>5. x \in [1 .. 3 -> Byte] \cup {Garbage}
  BY <1>4
<1> HIDE DEF x
<1>6. FileTypes'
  BY <1>1, <1>2, <1>4, <1>5, PixelTypes
<1>7. ReadInv'
  <2>1. CASE Complete
    BY <1>1, <1>2, <1>3, <2>1, PixelRead
  <2>2. CASE ~Complete
    <3>1. ~Complete'
      BY <1>1, <2>2 DEF Complete, Stride
    <3> QED
      BY <3>1 DEF ReadInv
  <2> QED
    BY <2>1, <2>2
<1>8. WrittenInv'
  BY <1>1, WrittenStays DEF FileInv
<1> QED
  BY <1>6, <1>7, <1>8 DEF FileInv, FileTypes

\* The entry of the colour table for the upper bits of a byte.
LEMMA PaletteEntry ==
    ASSUME NEW byte \in Byte, file.bitcount \in {1, 4, 8}
    PROVE  /\ Palette(TopBits(byte, file.bitcount)) \in
                  [1 .. 3 -> Byte] \cup {Garbage}
           /\ file.bitcount = 8 =>
                  Palette(TopBits(byte, file.bitcount)) = Colour(byte)
           /\ byte \div 2 ^ file.bitcount \in Byte
<1> DEFINE bits == file.bitcount
           index == TopBits(byte, bits)
<1>1. /\ index \in Nat /\ (index < 2 ^ bits => index \in Byte)
      /\ bits = 8 => index = byte /\ byte < 2 ^ bits
      /\ byte \div 2 ^ bits \in Byte
  <2>1. /\ 2 ^ 0 = 1 /\ 2 ^ 1 = 2 /\ 2 ^ 4 = 16 /\ 2 ^ 7 = 128 /\ 2 ^ 8 = 256
    OBVIOUS
  <2>2. CASE bits = 1
    BY <2>1, <2>2 DEF TopBits, Byte
  <2>3. CASE bits = 4
    BY <2>1, <2>3 DEF TopBits, Byte
  <2>4. CASE bits = 8
    BY <2>1, <2>4 DEF TopBits, Byte
  <2> QED
    BY <2>2, <2>3, <2>4
<1>2. \A k \in Byte : Colour(k) \in [1 .. 3 -> Byte]
  <2> SUFFICES ASSUME NEW k \in Byte
               PROVE  Colour(k) \in [1 .. 3 -> Byte]
    OBVIOUS
  <2>1. k \in Byte /\ 255 - k \in Byte /\ (k + 128) % 256 \in Byte
    BY DEF Byte
  <2> QED
    BY <2>1 DEF Colour
<1> HIDE DEF index
<1>3. Palette(index) = IF index < 2 ^ bits THEN Colour(index) ELSE Garbage
  BY DEF Palette
<1> QED
  BY <1>1, <1>2, <1>3 DEF index

\* A pixel of up to 8 bits.
LEMMA ReadPixelIndexedKeeps ==
    ASSUME FileInv, ReadPixelIndexed
    PROVE  FileInv'
<1> DEFINE s == IF bitsleft = 0 THEN GetByte(in) ELSE in
           byte == IF bitsleft = 0 THEN s.byte ELSE pixelbuffer
           left == IF bitsleft = 0 THEN 8 ELSE bitsleft
           bits == file.bitcount
           x == Palette(TopBits(byte, bits))
<1>1. /\ file_pc = "reading" /\ bits # 24 /\ UNCHANGED <<file, order, original>>
      /\ array' = Append(array, x)
      /\ pixelbuffer' = IF bits = 8 THEN byte ELSE byte \div 2 ^ bits
      /\ NextPixel(s, left - bits)
  BY DEF ReadPixelIndexed
<1>2. /\ FileOK /\ in \in Stream /\ in.pos <= Len(file.data)
      /\ bits \in {1, 4, 8} /\ bitsleft \in 0 .. 8 /\ pixelbuffer \in Byte
      /\ bits = 8 => bitsleft = 0
      /\ bits = 4 => bitsleft \in {0, 4}
  BY <1>1, ReadingFacts
<1>3. s \in Stream /\ s.pos <= Len(file.data)
  BY <1>2, GetByteFields
<1>4. byte \in Byte
  BY <1>2, <1>3 DEF Stream
<1>5. /\ left - bits \in 0 .. 8 /\ (bits = 8 => left - bits = 0)
      /\ bits = 4 => left - bits \in {0, 4}
  BY <1>2
<1>6. ASSUME Complete
      PROVE  /\ left - bits = 0 /\ x = FilePixel(i, j)
             /\ StreamAt(s, i, (j + 1) * BytesPerPixel)
  <2>1. bits = 8 /\ bitsleft = 0 /\ BytesPerPixel = 1
    BY <1>1, <1>2, <1>6 DEF Complete, BytesPerPixel
  <2>2. PICK w \in Nat, t \in Nat :
            /\ w = file.width /\ t = Stride
            /\ j \in Nat /\ j < w /\ w * 1 <= t
    BY <1>1, <1>6, <2>1, ReadingFacts, StrideFact
  <2>3. j < t /\ j * 1 = j /\ (j + 1) * 1 = j + 1
    BY <2>2
  <2>4. StreamAt(in, i, j)
    BY <1>1, <1>6, <2>1, <2>3 DEF FileInv, ReadInv
  <2>5. i \in 0 .. file.height - 1
    BY <1>1, ReadingFacts
  <2>6. /\ StreamAt(GetByte(in), i, j + 1)
        /\ GetByte(in).byte = file.data[i * Stride + j + 1]
    BY <1>2, <1>6, <2>2, <2>3, <2>4, <2>5, GetByteAt
  <2>7. s = GetByte(in) /\ byte = GetByte(in).byte
    BY <2>1
  <2>8. x = Colour(byte)
    BY <1>2, <1>4, <2>1, PaletteEntry
  <2>9. FilePixel(i, j) = Colour(file.data[i * Stride + j + 1])
    BY <2>1 DEF FilePixel
  <2> QED
    BY <1>5, <2>1, <2>3, <2>6, <2>7, <2>8, <2>9
<1> HIDE DEF s, left
<1>7. x \in [1 .. 3 -> Byte] \cup {Garbage} /\ pixelbuffer' \in Byte
  BY <1>1, <1>2, <1>4, PaletteEntry
<1> HIDE DEF byte, x
<1>8. FileTypes'
  BY <1>1, <1>2, <1>3, <1>5, <1>7, PixelTypes
<1>9. ReadInv'
  <2>1. CASE Complete
    BY <1>1, <1>3, <1>6, <2>1, PixelRead
  <2>2. CASE ~Complete
    <3>1. ~Complete'
      BY <1>1, <2>2 DEF Complete, Stride
    <3> QED
      BY <3>1 DEF ReadInv
  <2> QED
    BY <2>1, <2>2
<1>10. WrittenInv'
  BY <1>1, WrittenStays DEF FileInv
<1> QED
  BY <1>8, <1>9, <1>10 DEF FileInv, FileTypes

\* An object that has read nothing yet.
LEMMA FreshTypes ==
    \A s \in Fresh : s \in Stream /\ s.pos = 0 /\ s.bytesleft = 0
  BY StorageAssumption DEF Fresh, Stream, Byte

\* The invariant holds where no pixel was read yet.
LEMMA FileStarts ==
    ASSUME FileOK, in \in Fresh, bitsleft = 0, i = 0, j = 0, array = <<>>,
           pixelbuffer \in Byte, order \in {"left", "right"},
           file_pc \in {"closed", "failed", "reading", "loaded"},
           file_pc \in {"reading", "loaded"} => Readable(file),
           file_pc = "reading" => file.width > 0 /\ file.height > 0,
           file_pc = "loaded" => file.width * file.height = 0
    PROVE  FileTypes /\ ReadInv
<1>1. PICK w \in Nat, h \in Nat : w = file.width /\ h = file.height
  BY DEF FileOK
<1>2. Len(array) = 0 /\ array \in Seq([1 .. 3 -> Byte] \cup {Garbage})
  BY EmptySeq
<1>3. 0 * w = 0 /\ w * h \in Nat /\ w * h = h * w
  BY <1>1
<1>4. PixelsOK
  BY <1>1, <1>2, <1>3 DEF PixelsOK
<1>5. LoopOK
  BY <1>1, <1>2 DEF LoopOK
<1>6. in \in Stream /\ in.pos \in 0 .. Len(file.data) /\ in.bytesleft \in 0 .. 4
  BY FreshTypes DEF FileOK
<1>7. FileTypeOK
  BY <1>1, <1>2, <1>3, <1>6 DEF FileTypeOK, Byte
<1>8. ReadInv
  <2> SUFFICES ASSUME Complete
               PROVE  /\ file_pc = "reading" => StreamAt(in, i, j * BytesPerPixel)
                      /\ \A row \in FileRows, column \in FileColumns :
                             ~PlaceRead(row, column)
    BY DEF ReadInv
  <2>1. StreamAt(in, i, j * BytesPerPixel)
    <3>1. 0 * BytesPerPixel = 0 /\ 0 * Stride = 0 /\ Stride \in Nat
      BY StrideFact DEF Complete
    <3> QED
      BY <3>1, FreshTypes DEF StreamAt
  <2>2. ASSUME NEW row \in FileRows, NEW column \in FileColumns,
               PlaceRead(row, column)
        PROVE  FALSE
    <3>1. row \in 0 .. h - 1 /\ column \in 0 .. w - 1
      BY <1>1 DEF FileRows, FileColumns
    <3>2. CASE file_pc = "reading"
      BY <2>2, <3>1, <3>2 DEF PlaceRead
    <3>3. CASE file_pc = "loaded"
      <4>1. w * h = 0
        BY <1>1, <3>3
      <4>2. w # 0 /\ h # 0
        BY <1>1, <3>1
      <4>3. \A a, b \in Nat : a # 0 /\ b # 0 => a * b # 0
        OBVIOUS
      <4> QED
        BY <4>1, <4>2, <4>3
    <3> QED
      BY <2>2, <3>2, <3>3 DEF PlaceRead
  <2> QED
    BY <2>1, <2>2
<1> QED
  BY <1>4, <1>5, <1>6, <1>7, <1>8 DEF FileTypes

\* A file whose array is about to be read, or that has no pixel.
FileStart ==
    /\ FileOK /\ in \in Fresh /\ bitsleft = 0 /\ i = 0 /\ j = 0 /\ array = <<>>
    /\ pixelbuffer \in Byte /\ order \in {"left", "right"}
    /\ file_pc \in {"closed", "failed", "reading", "loaded"}
    /\ file_pc \in {"reading", "loaded"} => Readable(file)
    /\ file_pc = "reading" => file.width > 0 /\ file.height > 0
    /\ file_pc = "loaded" => file.width * file.height = 0

LEMMA FileStartInv == FileStart => FileTypes /\ ReadInv
  BY FileStarts DEF FileStart

LEMMA InitFileInv ==
    ASSUME FileInit
    PROVE  FileInv
<1>1. FileOK
  BY FilesAssumption DEF FileInit, FileOK
<1>2. FileStart
  BY <1>1 DEF FileInit, FileStart, Byte
<1>3. WrittenInv
  BY DEF FileInit, WrittenInv
<1> QED
  BY <1>2, <1>3, FileStartInv DEF FileInv, FileTypes

LEMMA ConstructKeeps ==
    ASSUME FileInv, Construct
    PROVE  FileInv'
<1>1. /\ file' = file /\ pixelbuffer' = pixelbuffer /\ order' = order
      /\ original' = original /\ in' \in Fresh /\ bitsleft' = 0 /\ i' = 0 /\ j' = 0
      /\ array' = <<>>
  BY DEF Construct
<1>2. FileOK' /\ pixelbuffer' \in Byte /\ order' \in {"left", "right"}
  BY <1>1 DEF FileInv, FileOK, FileTypeOK, Byte
<1>3. PICK w \in Nat, h \in Nat : w = file.width /\ h = file.height
  BY DEF FileInv, FileOK
<1>4. /\ file_pc' \in {"closed", "failed", "reading", "loaded"}
      /\ file_pc' \in {"reading", "loaded"} => Readable(file)
      /\ file_pc' = "reading" => w * h # 0
      /\ file_pc' = "loaded" => w * h = 0
  BY <1>3 DEF Construct
<1>5. w * h # 0 => w > 0 /\ h > 0
  OBVIOUS
<1>6. FileStart'
  BY <1>1, <1>2, <1>3, <1>4, <1>5 DEF FileStart, Readable
<1>7. (FileStart => FileTypes /\ ReadInv)'
  BY FileStartInv, PTL
<1>8. WrittenInv'
  BY <1>1, WrittenStays DEF FileInv
<1> QED
  BY <1>6, <1>7, <1>8 DEF FileInv, FileTypes

\* The bytes of an array of pixels, one pixel after the other.
LEMMA WrittenBytes ==
    ASSUME NEW pixels \in Seq([1 .. 3 -> Byte]), NEW data,
           data = [k \in 1 .. 3 * Len(pixels) |->
                      pixels[((k - 1) \div 3) + 1][((k - 1) % 3) + 1]]
    PROVE  /\ data \in Seq(Byte) /\ Len(data) = 3 * Len(pixels)
           /\ \A k \in 1 .. Len(pixels), h \in 1 .. 3 :
                  data[3 * (k - 1) + h] = pixels[k][h]
<1>1. PICK n \in Nat : n = Len(pixels)
  OBVIOUS
<1>2. ASSUME NEW k \in 1 .. 3 * n
      PROVE  pixels[((k - 1) \div 3) + 1][((k - 1) % 3) + 1] \in Byte
  <2>1. ((k - 1) \div 3) + 1 \in 1 .. n /\ ((k - 1) % 3) + 1 \in 1 .. 3
    OBVIOUS
  <2> QED
    BY <1>1, <2>1
<1>3. PICK m \in Nat : m = 3 * n
  OBVIOUS
<1>4. data \in Seq(Byte) /\ Len(data) = 3 * n
  <2> DEFINE e(k) == pixels[((k - 1) \div 3) + 1][((k - 1) % 3) + 1]
  <2>1. data = [k \in 1 .. m |-> e(k)] /\ \A k \in 1 .. m : e(k) \in Byte
    BY <1>1, <1>2, <1>3
  <2> HIDE DEF e
  <2>2. data \in [1 .. m -> Byte]
    BY <2>1
  <2>3. data \in Seq(Byte)
    BY <2>2, SeqDef
  <2>4. Len(data) = m
    BY <2>2, <2>3, LenProperties
  <2> QED
    BY <1>3, <2>3, <2>4
<1>5. ASSUME NEW k \in 1 .. n, NEW h \in 1 .. 3
      PROVE  data[3 * (k - 1) + h] = pixels[k][h]
  <2> DEFINE place == 3 * (k - 1) + h
  <2>1. /\ place \in 1 .. 3 * n
        /\ ((place - 1) \div 3) + 1 = k /\ ((place - 1) % 3) + 1 = h
    <3>1. CASE h = 1
      BY <3>1
    <3>2. CASE h = 2
      BY <3>2
    <3>3. CASE h = 3
      BY <3>3
    <3> QED
      BY <3>1, <3>2, <3>3
  <2> QED
    BY <1>1, <2>1
<1> QED
  BY <1>1, <1>4, <1>5

LEMMA WriteKeeps ==
    ASSUME FileInv, Write
    PROVE  FileInv'
<1>1. PICK above \in {0, 1} : file' = WrittenFile(above * 2 ^ 16)
  BY DEF Write
<1>2. /\ original' = [width |-> file.width, height |-> file.height, array |-> array]
      /\ file_pc' = "closed" /\ in' \in Fresh /\ bitsleft' = 0 /\ i' = 0 /\ j' = 0
      /\ array' = <<>> /\ pixelbuffer' = pixelbuffer /\ order' = order
      /\ \A k \in 1 .. Len(array) : array[k] # Garbage
      /\ file_pc = "loaded"
  BY DEF Write
<1>3. /\ array \in Seq([1 .. 3 -> Byte] \cup {Garbage})
      /\ Len(array) = file.height * file.width
  BY <1>2 DEF FileInv, PixelsOK
<1>4. array \in Seq([1 .. 3 -> Byte])
  BY <1>2, <1>3
<1> DEFINE data == [k \in 1 .. 3 * Len(array) |->
                       array[((k - 1) \div 3) + 1][((k - 1) % 3) + 1]]
<1>5. /\ file'.data = data /\ file'.bitcount = 24
      /\ file'.width = file.width /\ file'.height = file.height
  BY <1>1 DEF WrittenFile
<1>6. /\ data \in Seq(Byte) /\ Len(data) = 3 * Len(array)
      /\ \A k \in 1 .. Len(array), h \in 1 .. 3 : data[3 * (k - 1) + h] = array[k][h]
  BY <1>4, WrittenBytes
<1> HIDE DEF data
<1>7. FileOK'
  BY <1>5, <1>6 DEF FileInv, FileOK
<1>8. FileStart'
  BY <1>2, <1>7 DEF FileStart, FileInv, FileTypeOK, Byte
<1>9. (FileStart => FileTypes /\ ReadInv)'
  BY FileStartInv, PTL
<1>10. WrittenInv'
  BY <1>2, <1>3, <1>4, <1>5, <1>6 DEF WrittenInv
<1> QED
  BY <1>8, <1>9, <1>10 DEF FileInv, FileTypes

LEMMA FileStutter ==
    ASSUME FileInv, UNCHANGED file_vars
    PROVE  FileInv'
<1>1. UNCHANGED <<file, in, bitsleft, pixelbuffer, i, j, array, file_pc, order, original>>
  BY DEF file_vars
<1>2. FileOK' /\ (in \in Stream)' /\ FileTypeOK' /\ WrittenInv'
  BY <1>1, WrittenStays DEF FileInv, FileOK, FileTypeOK
<1>3. PixelsOK' /\ LoopOK'
  BY <1>1 DEF FileInv, PixelsOK, LoopOK
<1>4. ReadInv'
  <2>1. /\ Stride' = Stride /\ BytesPerPixel' = BytesPerPixel
        /\ FileRows' = FileRows /\ FileColumns' = FileColumns
    BY <1>1 DEF Stride, BytesPerPixel, FileRows, FileColumns
  <2>2. /\ Complete' = Complete
        /\ StreamAt(in, i, j * BytesPerPixel)' =
               StreamAt(in, i, j * BytesPerPixel)
    BY <1>1, <2>1 DEF Complete, StreamAt
  <2>3. \A row, column :
            /\ PlaceRead(row, column)' = PlaceRead(row, column)
            /\ FilePixel(row, column)' = FilePixel(row, column)
    BY <1>1, <2>1 DEF PlaceRead, FilePixel, Swapped
  <2> QED
    BY <1>1, <2>1, <2>2, <2>3 DEF FileInv, ReadInv
<1> QED
  BY <1>2, <1>3, <1>4 DEF FileInv

LEMMA FileStep ==
    ASSUME FileInv, [FileNext]_file_vars
    PROVE  FileInv'
  BY ConstructKeeps, ReadPixel24Keeps, ReadPixelIndexedKeeps, WriteKeeps, FileStutter
     DEF FileNext

\* The invariant of the loops and of the file written.
THEOREM FileInvariance == FileSpec => []FileInv
<1>1. FileInv /\ [FileNext]_file_vars => FileInv'
  BY FileStep
<1> QED
  BY <1>1, InitFileInv, PTL DEF FileSpec

\* The stream never runs past the end of the file, and the array never has more
\* pixels than the image.
THEOREM FileTypeCorrect == FileSpec => []FileTypeOK
<1>1. FileInv => FileTypeOK
  BY DEF FileInv
<1> QED
  BY <1>1, FileInvariance, PTL

\* Where the rows of a complete file end.
LEMMA InFile ==
    ASSUME FileOK, Complete,
           NEW row \in FileRows, NEW n \in Nat, n < Stride
    PROVE  row * Stride + n + 1 \in 1 .. Len(file.data)
<1>1. PICK t \in Nat, h \in Nat, size \in Nat :
          /\ t = Stride /\ h = file.height /\ size = Len(file.data)
          /\ row \in 0 .. h - 1 /\ h * t <= size
  BY StrideFact DEF FileOK, Complete, FileRows
<1>2. row + 1 \in Nat /\ row + 1 <= h /\ row \in Nat
  BY <1>1
<1>3. (row + 1) * t <= h * t /\ (row + 1) * t = row * t + t
  BY <1>2, ProductMonotonic, ProductSuccessor
<1>4. PICK m \in Nat : m = row * t
  BY <1>2
<1>5. h * t \in Nat
  OBVIOUS
<1>6. m + n + 1 \in 1 .. size
  BY <1>1, <1>3, <1>4, <1>5
<1> QED
  BY <1>1, <1>4, <1>6

\* The pixel the reader puts at a place is the one the format has there.
LEMMA FormatMatch ==
    ASSUME FileOK, Complete, NEW row \in FileRows, NEW column \in FileColumns
    PROVE  LET r == file.height - row - 1 IN
           /\ r \in FileRows
           /\ file.bitcount = 8 =>
                  FilePixel(r, column) = FormatPixel(row, column)
           /\ file.bitcount = 24 =>
                  FilePixel(r, column) = Swapped(FormatPixel(row, column))
<1> DEFINE r == file.height - row - 1
<1>1. PICK w \in Nat, h \in Nat :
          /\ w = file.width /\ h = file.height
          /\ row \in 0 .. h - 1 /\ column \in 0 .. w - 1
  BY DEF FileOK, FileRows, FileColumns
<1>2. r \in FileRows
  BY <1>1 DEF FileRows
<1>3. CASE file.bitcount = 8
  <2>1. column \in Nat /\ column < Stride
    BY <1>1, <1>3, StrideFact DEF BytesPerPixel
  <2> DEFINE b == file.data[r * Stride + column + 1]
  <2>2. b \in Byte
    <3>1. r * Stride + column + 1 \in 1 .. Len(file.data)
      BY <1>2, <2>1, InFile
    <3> QED
      BY <3>1 DEF FileOK
  <2>3. FilePixel(r, column) = Colour(b)
    BY <1>3 DEF FilePixel
  <2>4. FormatByte(row, column) = b
    BY DEF FormatByte
  <2> HIDE DEF b
  <2>5. FormatPixel(row, column) = Colour(b)
    <3>1. /\ 8 \div 8 = 1 /\ column \div 1 = column
          /\ (1 - 1 - (column % 1)) * 8 = 0
      BY <2>1
    <3>2. FormatPixel(row, column) =
              Colour((FormatByte(row, column) \div 2 ^ 0) % 2 ^ 8)
      <4> DEFINE shift(bits) == ((8 \div bits) - 1 - (column % (8 \div bits))) * bits
                 decoded(bits) ==
                     Colour((FormatByte(row, column \div (8 \div bits))
                                 \div 2 ^ shift(bits)) % 2 ^ bits)
      <4>1. FormatPixel(row, column) = decoded(8)
        BY <1>3 DEF FormatPixel
      <4>2. shift(8) = 0
        BY <3>1
      <4> HIDE DEF shift
      <4> QED
        BY <3>1, <4>1, <4>2
    <3>3. 2 ^ 0 = 1 /\ 2 ^ 8 = 256
      OBVIOUS
    <3>4. (b \div 1) % 256 = b
      BY <2>2 DEF Byte
    <3> QED
      BY <2>4, <3>2, <3>3, <3>4
  <2> QED
    BY <1>2, <1>3, <2>3, <2>5
<1>4. CASE file.bitcount = 24
  <2>1. FilePixel(r, column) = Swapped(FormatPixel(row, column))
    BY <1>4 DEF FilePixel, FormatPixel, FormatByte
  <2> QED
    BY <1>2, <1>4, <2>1
<1> QED
  BY <1>2, <1>3, <1>4 DEF Complete

\* What the invariant says of a loaded file.
LEMMA FileInvDecoded ==
    ASSUME FileInv PROVE Decoded
<1> SUFFICES ASSUME file_pc = "loaded", Wellformed, file.bitcount \in {8, 24},
                    NEW row \in FileRows, NEW column \in FileColumns
             PROVE  /\ file.bitcount = 8 =>
                           At(row, column) = FormatPixel(row, column)
                    /\ file.bitcount = 24 =>
                           At(row, column) =
                               Swapped(FormatPixel(row, column))
  BY DEF Decoded
<1> DEFINE r == file.height - row - 1
<1>1. FileOK /\ Complete
  BY DEF FileInv, Wellformed, Complete
<1>2. /\ r \in FileRows
      /\ file.bitcount = 8 => FilePixel(r, column) = FormatPixel(row, column)
      /\ file.bitcount = 24 =>
             FilePixel(r, column) = Swapped(FormatPixel(row, column))
  BY <1>1, FormatMatch
<1>3. At(row, column) = array[r * file.width + column + 1]
  BY DEF At
<1> HIDE DEF r
<1>4. array[r * file.width + column + 1] = FilePixel(r, column)
  BY <1>1, <1>2 DEF FileInv, ReadInv, PlaceRead
<1> QED
  BY <1>2, <1>3, <1>4

\* The image of a file of 8 or 24 bits is the file's, bottom row last.
THEOREM FileDecoded == FileSpec => []Decoded
<1>1. FileInv => Decoded
  BY FileInvDecoded
<1> QED
  BY <1>1, FileInvariance, PTL

\* A number below a product is a quotient and a remainder.
LEMMA RowAndColumn ==
    ASSUME NEW w \in Nat, NEW h \in Nat, NEW k \in 1 .. h * w
    PROVE  \E row \in 0 .. h - 1, column \in 0 .. w - 1 : k = row * w + column + 1
<1>1. w # 0
  OBVIOUS
<1>2. PICK q \in Nat, r \in 0 .. w - 1 : k - 1 = q * w + r
  <2>1. k - 1 \in Nat
    OBVIOUS
  <2>2. /\ (k - 1) \div w \in Nat /\ (k - 1) % w \in 0 .. w - 1
        /\ k - 1 = w * ((k - 1) \div w) + ((k - 1) % w)
    BY <1>1, <2>1
  <2>3. PICK q \in Nat, r \in 0 .. w - 1 : k - 1 = w * q + r
    BY <2>2
  <2>4. w * q = q * w
    OBVIOUS
  <2> QED
    BY <2>3, <2>4
<1>3. q < h
  <2> SUFFICES ASSUME q >= h
               PROVE  FALSE
    OBVIOUS
  <2>1. h * w <= q * w /\ h * w \in Nat /\ q * w \in Nat
    BY ProductMonotonic
  <2> QED
    BY <1>2, <2>1
<1>4. k = q * w + r + 1
  BY <1>2
<1> QED
  BY <1>3, <1>4

\* A file that was written and read again gives the array that was written.
THEOREM FileReread == FileSpec => []RereadSame
<1>1. ASSUME FileInv, Reread, order = "left", (3 * file.width) % 4 = 0
      PROVE  array = original.array
  <2>10. PICK w \in Nat, h \in Nat : w = file.width /\ h = file.height
    BY <1>1 DEF FileInv, FileOK
  <2>1. /\ w = file.width /\ h = file.height /\ FileOK
        /\ file_pc = "loaded" /\ file.bitcount = 24
        /\ original.array \in Seq([1 .. 3 -> Byte])
        /\ Len(original.array) = h * w /\ Len(file.data) = 3 * (h * w)
        /\ \A k \in 1 .. h * w, m \in 1 .. 3 :
               file.data[3 * (k - 1) + m] = original.array[k][m]
    <3>1. FileOK /\ WrittenInv /\ original # NoImage /\ file_pc = "loaded"
      BY <1>1 DEF FileInv, Reread
    <3>2. /\ file.bitcount = 24
          /\ original.array \in Seq([1 .. 3 -> Byte])
          /\ Len(original.array) = file.height * file.width
          /\ Len(file.data) = 3 * Len(original.array)
          /\ \A k \in 1 .. Len(original.array), m \in 1 .. 3 :
                 file.data[3 * (k - 1) + m] = original.array[k][m]
      BY <3>1 DEF WrittenInv
    <3> QED
      BY <2>10, <3>1, <3>2
  <2>2. array \in Seq([1 .. 3 -> Byte] \cup {Garbage}) /\ Len(array) = h * w
    BY <1>1, <2>1 DEF FileInv, PixelsOK
  <2>3. Stride = 3 * w
    <3>1. 4 * ((w * 24 + 31) \div 32) = 3 * w
      <4>1. (3 * w) % 4 = 0
        BY <1>1, <2>1
      <4> QED
        BY <4>1
    <3> QED
      BY <2>1, <3>1 DEF Stride
  <2>4. Complete
    <3>1. h * (3 * w) = 3 * (h * w)
      OBVIOUS
    <3>2. 3 * (h * w) >= 3 * (h * w)
      OBVIOUS
    <3> QED
      BY <2>1, <2>3, <3>1, <3>2 DEF Complete
  <2>5. ASSUME NEW k \in 1 .. h * w
        PROVE  array[k] = original.array[k]
    <3>1. PICK row \in 0 .. h - 1, column \in 0 .. w - 1 : k = row * w + column + 1
      BY RowAndColumn
    <3>2. row \in FileRows /\ column \in FileColumns
      BY <2>1 DEF FileRows, FileColumns
    <3> DEFINE p == [m \in 1 .. 3 |->
                        file.data[row * Stride + (3 * column + m - 1) + 1]]
    <3>3. array[k] = FilePixel(row, column)
      BY <1>1, <2>1, <2>4, <3>1, <3>2 DEF FileInv, ReadInv, PlaceRead
    <3>4. FilePixel(row, column) = p
      BY <1>1, <2>1 DEF FilePixel, Swapped
    <3>5. ASSUME NEW m \in 1 .. 3
          PROVE  p[m] = original.array[k][m]
      <4>1. row * (3 * w) + (3 * column + m - 1) + 1 = 3 * (k - 1) + m
        <5>1. PICK n \in Nat : n = row * w
          OBVIOUS
        <5>2. row * (3 * w) = 3 * n
          BY <5>1
        <5>3. 3 * n + (3 * column + m - 1) + 1 = 3 * (n + column + 1 - 1) + m
          OBVIOUS
        <5> QED
          BY <3>1, <5>1, <5>2, <5>3
      <4>2. file.data[3 * (k - 1) + m] = original.array[k][m]
        BY <2>1
      <4>3. p[m] = file.data[row * Stride + (3 * column + m - 1) + 1]
        OBVIOUS
      <4> QED
        BY <2>3, <4>1, <4>2, <4>3
    <3>6. original.array[k] \in [1 .. 3 -> Byte]
      BY <2>1
    <3>7. p = original.array[k]
      BY <3>5, <3>6
    <3> QED
      BY <3>3, <3>4, <3>7
  <2>6. \A k \in 1 .. Len(array) : array[k] = original.array[k]
    BY <2>2, <2>5
  <2>7. original.array \in Seq([1 .. 3 -> Byte] \cup {Garbage})
    BY <2>1
  <2>8. Len(array) = Len(original.array)
    BY <2>1, <2>2
  <2> QED
    BY <2>2, <2>6, <2>7, <2>8, SeqEqual
<1>2. FileInv => RereadSame
  BY <1>1 DEF RereadSame
<1> QED
  BY <1>2, FileInvariance, PTL

-----------------------------------------------------------------------------
(***************************************************************************)
(* The bench with its bitmap                                               *)
(***************************************************************************)

\* From the first pixel written on, src is the red of the bitmap that was loaded.
SourceInv == Opens /\ phase # "write" => SourceIsRed

LEMMA SourceStep ==
    ASSUME SourceInv, [BitmapNext]_bitmap_vars
    PROVE  SourceInv'
<1> SUFFICES ASSUME Opens', phase' # "write"
             PROVE  SourceIsRed'
  BY DEF SourceInv
<1>1. CASE ReadFile \/ UseFile
  BY <1>1 DEF ReadFile, UseFile, vars, benchVars
<1>2. CASE Drive \/ UNCHANGED bitmap_vars
  <2>1. src' = src /\ bench' = bench
    BY <1>2 DEF Drive, Next, WriteFrame, RunBlock, RunEnds, Collect, CollectEnds,
       benchVars, bitmap_vars, vars
  <2>2. SourceIsRed
    BY <1>2, <2>1 DEF Drive, SourceInv, Opens, bitmap_vars, vars, benchVars
  <2>3. UNCHANGED file_vars
    BY <1>2 DEF Drive, bitmap_vars
  <2> QED
    BY <2>1, <2>2, <2>3 DEF SourceIsRed, At, file_vars
<1> QED
  BY <1>1, <1>2 DEF BitmapNext

\* Every step of the whole is one of the bench or one of the reader.
LEMMA BitmapStep ==
    [BitmapNext]_bitmap_vars => [Next]_vars /\ [FileNext]_file_vars
  BY DEF BitmapNext, ReadFile, UseFile, Drive, FileNext, bitmap_vars

\* The source at a place is what red gives of the bitmap there.
LEMMA SourceAt ==
    ASSUME FileOK, FileTypeOK, Decoded, SourceIsRed,
           Wellformed, file.bitcount \in {8, 24},
           NEW row \in 0 .. Lines - 1, NEW column \in 0 .. Columns - 1
    PROVE  src[row][column] = RedOf(row, column)
<1>1. src[row][column] = At(row, column)[Red]
  BY DEF SourceIsRed
<1>2. row \in FileRows /\ column \in FileColumns
  BY SizesFact DEF SourceIsRed, FileOK, FileRows, FileColumns
<1>3. /\ file.bitcount = 8 => At(row, column) = FormatPixel(row, column)
      /\ file.bitcount = 24 =>
             At(row, column) = Swapped(FormatPixel(row, column))
  BY <1>2 DEF Decoded, SourceIsRed
<1> DEFINE p == FormatPixel(row, column)
<1> HIDE DEF p
<1>4. order = "left" => Swapped(p)[Red] = p[Red]
  BY DEF Swapped
<1>5. order # "left" => Swapped(p)[Red] = p[2]
  BY DEF Swapped, Red
<1>6. order \in {"left", "right"} /\ file.bitcount \in {8, 24}
  BY DEF FileTypeOK, SourceIsRed
<1>7. RedOf(row, column) = IF file.bitcount = 24 /\ order = "right" THEN p[2] ELSE p[Red]
  BY DEF RedOf, p
<1> QED
  BY <1>1, <1>3, <1>4, <1>5, <1>6, <1>7 DEF p

\* What the two invariants together say of a bench that returned.
LEMMA BitmapInvThrough ==
    ASSUME BenchInv, FileInv, SourceInv
    PROVE  BitmapThrough
<1> SUFFICES ASSUME Opens, phase = "done", Wellformed, file.bitcount \in {8, 24}
             PROVE  down_image =
                        [k \in 1 .. HalfLines * HalfColumns |->
                            BitmapAverage((k - 1) \div HalfColumns,
                                          (k - 1) % HalfColumns)]
  BY DEF BitmapThrough
<1>1. down_image =
          [k \in 1 .. HalfLines * HalfColumns |->
              Expected((k - 1) \div HalfColumns, (k - 1) % HalfColumns)]
  <2>1. collected = <<>> /\ down_image \in Seq(Pixel)
    BY DEF BenchInv, BenchTypeOK, CollectPhase, Collects, Opens
  <2>2. collected \o down_image = down_image
    BY <2>1, ConcatEmptySeq
  <2> QED
    BY <2>2, BenchInvFrame DEF OneFrameThrough
<1>2. FileOK /\ FileTypeOK /\ Decoded /\ SourceIsRed
  BY FileInvDecoded DEF FileInv, SourceInv
<1>3. ASSUME NEW r \in 0 .. HalfLines - 1, NEW c \in 0 .. HalfColumns - 1
      PROVE  Expected(r, c) = BitmapAverage(r, c)
  <2>1. /\ 2 * r \in 0 .. Lines - 1 /\ 2 * r + 1 \in 0 .. Lines - 1
        /\ 2 * c \in 0 .. Columns - 1 /\ 2 * c + 1 \in 0 .. Columns - 1
    BY SizesFact
  <2>2. /\ src[2 * r][2 * c] = RedOf(2 * r, 2 * c)
        /\ src[2 * r][2 * c + 1] = RedOf(2 * r, 2 * c + 1)
        /\ src[2 * r + 1][2 * c] = RedOf(2 * r + 1, 2 * c)
        /\ src[2 * r + 1][2 * c + 1] = RedOf(2 * r + 1, 2 * c + 1)
    BY <1>2, <2>1, SourceAt
  <2> QED
    BY <2>2 DEF Expected, BitmapAverage
<1>4. \A k \in 1 .. HalfLines * HalfColumns :
          Expected((k - 1) \div HalfColumns, (k - 1) % HalfColumns) =
          BitmapAverage((k - 1) \div HalfColumns, (k - 1) % HalfColumns)
  BY <1>3, AveragePlace
<1> QED
  BY <1>1, <1>4

\* Reader, bench and block together: whatever the bitmap, its padding and its
\* size, when the Catapult bench returns dout has the averages of its red (or of
\* its green, as the build runs the calls of getbyte) from the top row down.
THEOREM BitmapDownSampled == BitmapSpec => []BitmapThrough
<1> DEFINE Inv == BenchInv /\ FileInv /\ SourceInv
<1>1. BitmapInit => Inv
  BY InitBenchInv, InitFileInv DEF BitmapInit, Init, SourceInv
<1>2. Inv /\ [BitmapNext]_bitmap_vars => Inv'
  BY BitmapStep, BenchStep, FileStep, SourceStep
<1>3. Inv => BitmapThrough
  BY BitmapInvThrough
<1> HIDE DEF Inv
<1> QED
  BY <1>1, <1>2, <1>3, PTL DEF BitmapSpec
=============================================================================
