---------------------------- MODULE DownSampleInv ----------------------------
(***************************************************************************)
(* The inductive invariants of DownSample and of BlockOverFifo.  The runs  *)
(* check them and DownSample_proofs proves them.                           *)
(*                                                                         *)
(* IInv says what the line buffer and the window hold at each point of the *)
(* loop, in terms of the pixels taken; OverInv says that this stays so     *)
(* while source and sink work during a call.                               *)
(*                                                                         *)
(* The loop works on pairs of lines.  PairsDone counts the finished pairs  *)
(* of all frames; Base is the number of pixels in them, so that the upper  *)
(* line of the current pair starts at taken[Base + 1], and its lower line  *)
(* Columns further.                                                        *)
(***************************************************************************)
EXTENDS BlockOverFifo

PairsDone == frames * (Lines \div 2) + ln \div 2
Base == 2 * PairsDone * Columns
UpperAt(c) == taken[Base + c + 1]
LowerAt(c) == taken[Base + Columns + c + 1]

OnLower == ln % 2 = 1
\* The first column of the current pixel pair.
PairStart == 2 * (px \div 2)
\* The pixel at the pair's first column has been processed.
FirstDone == px % 2 = 1 \/ pc = "emit"

\* The counters say how many pixels were read and how many were written.
PositionInv ==
    /\ Len(taken) = Base + (IF OnLower THEN Columns ELSE 0) + px
                         + (IF pc = "emit" THEN 1 ELSE 0)
    /\ Len(down_image) =
           PairsDone * HalfColumns + (IF OnLower THEN px \div 2 ELSE 0)
    /\ pc = "idle" => ln = 0 /\ px = 0

\* The word of a pixel pair of the upper line is in line0 from the moment its
\* second pixel was processed until the pair of lines is done.
LineInv ==
    \A a \in Address :
        (OnLower \/ 2 * a + 1 < px \/ (pc = "emit" /\ 2 * a + 1 = px)) =>
            /\ line0[a][0] = UpperAt(2 * a)
            /\ line0[a][1] = UpperAt(2 * a + 1)

\* Between the two pixels of a pair, the first one waits in wr_buffer ...
PackInv ==
    ~OnLower /\ FirstDone => wr_buffer[0] = UpperAt(PairStart)

\* ... and, on the lower line, in the window, with the upper line's second
\* pixel in rd_buffer.
FetchInv ==
    OnLower /\ FirstDone =>
        /\ rd_buffer[1] = UpperAt(PairStart + 1)
        /\ shreg_y0[0] = UpperAt(PairStart)
        /\ shreg_y1[0] = LowerAt(PairStart)

\* When an average is due, the window holds the whole block.
WindowInv ==
    OnLower /\ px % 2 = 1 /\ pc = "emit" =>
        /\ shreg_y0[1] = UpperAt(px)
        /\ shreg_y1[1] = LowerAt(px)

\* The first read of a call never fails; a failed read found nothing.
SupplyInv ==
    /\ pc = "read" /\ ln = 0 /\ px = 0 => image # <<>>
    /\ pc = "failed" => image = <<>> /\ (ln # 0 \/ px # 0)

IInv ==
    /\ TypeOK
    /\ PositionInv
    /\ LineInv
    /\ PackInv
    /\ FetchInv
    /\ WindowInv
    /\ SupplyInv
    /\ DownSampled

-----------------------------------------------------------------------------
OverTypeOK ==
    /\ bound \in BOOLEAN
    /\ {stream, in_fresh, out_visible, out_fresh, shown} \subseteq Seq(Pixel)
    /\ in_taken \in Nat
    /\ out_taken \in Nat

\* No fifo holds more than its size, places that are freed at the end of the
\* cycle included, and the source has not fed more than it has.
WithinSizes ==
    bound =>
        /\ Len(image) + in_taken + Len(in_fresh) <= InSize
        /\ Len(out_visible) + out_taken + Len(out_fresh) <= OutSize
        /\ Fed <= Len(stream)

\* Where the channels are on their own the fifos have no part; where they are
\* bound, a read waits and the assertion of an empty channel never fires.
OneSetting ==
    /\ ~bound => /\ stream = <<>> /\ in_fresh = <<>>
                 /\ out_visible = <<>> /\ out_fresh = <<>>
    /\ bound => pc # "failed"

OverInv ==
    /\ IInv
    /\ OverTypeOK
    /\ WithinSizes
    /\ OneSetting
    /\ NothingLost
=============================================================================
