-------------------------- MODULE DownSample_proofs --------------------------
(***************************************************************************)
(* Proofs about DownSample, for every frame size, counter width, number of *)
(* pixel values and supply that the assumptions allow, and about           *)
(* BlockOverFifo, for every size of the fifos and every stream.            *)
(***************************************************************************)
EXTENDS DownSampleInv, SequenceTheorems, TLAPS

-----------------------------------------------------------------------------
(***************************************************************************)
(* Products, quotients and remainders of natural numbers, which the index  *)
(* arithmetic rests on                                                     *)
(***************************************************************************)

\* A remainder of a smaller number.
LEMMA SmallRemainder ==
    ASSUME NEW x \in Nat, NEW m \in Nat, x < m
    PROVE  x % m = x
  OBVIOUS

\* Products of naturals are naturals.
LEMMA ProductNat ==
    ASSUME NEW a \in Nat, NEW b \in Nat
    PROVE  a * b \in Nat
  OBVIOUS

\* A product grows with its factor.
LEMMA ProductMonotonic ==
    ASSUME NEW a \in Nat, NEW b \in Nat, NEW m \in Nat, a <= b
    PROVE  a * m <= b * m
  OBVIOUS

\* One more times m is m more.
LEMMA ProductSuccessor ==
    ASSUME NEW a \in Nat, NEW m \in Nat
    PROVE  (a + 1) * m = a * m + m
  OBVIOUS

\* Division with remainder.
LEMMA Division ==
    ASSUME NEW x \in Nat, NEW m \in Nat \ {0}
    PROVE  /\ x \div m \in Nat
           /\ x % m \in 0 .. m - 1
           /\ x = (x \div m) * m + (x % m)
<1>1. x \div m \in Nat /\ x % m \in 0 .. m - 1
  OBVIOUS
<1>2. PICK d \in Nat : d = x \div m
  BY <1>1
<1>3. PICK r \in Nat : r = x % m
  BY <1>1
<1>4. x = m * d + r
  BY <1>2, <1>3
<1> QED
  BY <1>1, <1>2, <1>3, <1>4

\* Quotient and remainder are the only numbers that fit.
LEMMA DivisionUnique ==
    ASSUME NEW m \in Nat \ {0}, NEW q \in Nat, NEW r \in 0 .. m - 1
    PROVE  (q * m + r) \div m = q /\ (q * m + r) % m = r
<1>1. PICK x \in Nat : x = m * q + r
  BY ProductNat
<1>2. x % m = r
  BY <1>1
<1>3. x \div m = q
  BY <1>1
<1> QED
  BY <1>1, <1>2, <1>3

-----------------------------------------------------------------------------
(***************************************************************************)
(* Type correctness                                                        *)
(***************************************************************************)

\* Half of the columns, as the proofs use it: Columns is even and positive.
LEMMA HalfColumnsFact ==
    /\ HalfColumns \in Nat \ {0}
    /\ Columns = 2 * HalfColumns
  BY ColumnsAssumption DEF HalfColumns

\* The four cells are pixels, and so is their average: the assignment to the
\* uint8 down_pixel loses no bit.
LEMMA WindowAveragePixel ==
    ASSUME ShregTypeOK
    PROVE  WindowAverage \in Pixel
<1>1. /\ shreg_y0[0] \in Pixel /\ shreg_y0[1] \in Pixel
      /\ shreg_y1[0] \in Pixel /\ shreg_y1[1] \in Pixel
  BY DEF ShregTypeOK, Pair
<1> QED
  BY <1>1, PixelLevelsAssumption DEF WindowAverage, Pixel

\* One run of the line buffer keeps its type.
LEMMA LnProcessType ==
    ASSUME LnTypeOK, NEW d \in Pixel, NEW l \in Nat, NEW c \in 0 .. Columns - 1,
           LnProcess(d, l, c)
    PROVE  LnTypeOK'
<1>1. c \div 2 \in Address
  BY HalfColumnsFact DEF Address
<1>2. line0[c \div 2] \in Pair
  BY <1>1 DEF LnTypeOK
<1>3. CASE LnReadEven(d, l, c)
  BY <1>2, <1>3 DEF LnReadEven, LnTypeOK, Pair
<1>4. CASE LnWriteEven(d, l, c)
  BY <1>4 DEF LnWriteEven, LnTypeOK, Pair
<1>5. CASE LnReadOdd(d, l, c)
  BY <1>5 DEF LnReadOdd, LnTypeOK, Pair
<1>6. CASE LnWriteOdd(d, l, c)
  <2>1. [wr_buffer EXCEPT ![1] = d] \in Pair
    BY DEF LnTypeOK, Pair
  <2> QED
    BY <1>1, <1>6, <2>1 DEF LnWriteOdd, LnTypeOK
<1> QED
  BY <1>3, <1>4, <1>5, <1>6 DEF LnProcess

\* One run of the window keeps its type.
LEMMA ShregProcessType ==
    ASSUME ShregTypeOK, NEW d \in Pair, NEW c \in Nat, ShregProcess(d, c)
    PROVE  ShregTypeOK'
<1>1. d[0] \in Pixel /\ d[1] \in Pixel
  BY DEF Pair
<1> QED
  BY <1>1 DEF ShregProcess, ShregTypeOK, Pair

\* The counters never wrap: an increment is an increment.
LEMMA CountersFact ==
    ASSUME TypeOK
    PROVE  NextLn = ln + 1 /\ NextPx = px + 1
<1>1. ln + 1 \in Nat /\ ln + 1 < LnLevels /\ LnLevels \in Nat
  BY CountersAssumption, LinesAssumption DEF TypeOK
<1>2. px + 1 \in Nat /\ px + 1 < PxLevels /\ PxLevels \in Nat
  BY CountersAssumption, ColumnsAssumption DEF TypeOK
<1> QED
  BY <1>1, <1>2, SmallRemainder DEF NextLn, NextPx

\* Every step keeps every variable's type.
LEMMA TypeStep ==
    ASSUME TypeOK, [Next]_vars
    PROVE  TypeOK'
<1>1. ASSUME NEW s \in Supplies, WritePixels(s) PROVE TypeOK'
  BY <1>1, SuppliesAssumption DEF WritePixels, TypeOK, lnVars, shregVars,
     counters, history, LnTypeOK, ShregTypeOK
<1>2. CASE Call
  BY <1>2, LinesAssumption, ColumnsAssumption DEF Call, TypeOK, lnVars,
     shregVars, channels, history, LnTypeOK, ShregTypeOK
<1>3. CASE ReadPixel
  <2>1. Head(image) \in Pixel /\ Tail(image) \in Seq(Pixel)
    BY <1>3 DEF ReadPixel, TypeOK
  <2>2. LnTypeOK'
    BY <1>3, <2>1, LnProcessType DEF ReadPixel, TypeOK
  <2>3. ShregTypeOK'
    BY <1>3, <2>2, ShregProcessType DEF ReadPixel, TypeOK, LnTypeOK
  <2> QED
    BY <1>3, <2>1, <2>2, <2>3 DEF ReadPixel, TypeOK, counters
<1>4. CASE ReadFails
  BY <1>4 DEF ReadFails, TypeOK, lnVars, shregVars, channels, counters,
     history, LnTypeOK, ShregTypeOK
<1>5. CASE Emit
  <2>1. down_image' \in Seq(Pixel)
    BY <1>5, WindowAveragePixel DEF Emit, TypeOK
  <2>2. /\ ln' \in 0 .. Lines - 1
        /\ px' \in 0 .. Columns - 1
        /\ pc' \in {"idle", "read", "emit", "failed"}
        /\ frames' \in Nat
    BY <1>5, CountersFact, LinesAssumption, ColumnsAssumption
       DEF Emit, Advance, TypeOK
  <2> QED
    BY <1>5, <2>1, <2>2 DEF Emit, TypeOK, lnVars, shregVars, LnTypeOK,
       ShregTypeOK
<1>6. CASE UNCHANGED vars
  BY <1>6 DEF vars, TypeOK, lnVars, shregVars, channels, counters, history,
     LnTypeOK, ShregTypeOK
<1> QED
  BY <1>1, <1>2, <1>3, <1>4, <1>5, <1>6 DEF Next

\* The zeroed storage of the statics has the type of the variables.
LEMMA TypeInit == Init => TypeOK
<1>1. ZeroPair \in Pair
  BY PixelLevelsAssumption DEF ZeroPair, Pair, Pixel
<1> QED
  BY <1>1, LinesAssumption, ColumnsAssumption
     DEF Init, TypeOK, LnInit, LnTypeOK, ShregInit, ShregTypeOK

\* Every variable keeps its type in every reachable state of the block.
THEOREM TypeCorrect == Spec => []TypeOK
<1>1. TypeOK /\ [Next]_vars => TypeOK'
  BY TypeStep
<1> QED
  BY <1>1, TypeInit, PTL DEF Spec

-----------------------------------------------------------------------------
(***************************************************************************)
(* The positions of the loop                                               *)
(***************************************************************************)

\* Base is the index at which the current pair of lines starts.
LEMMA BaseFact ==
    ASSUME TypeOK
    PROVE  /\ PairsDone \in Nat
           /\ Base \in Nat
           /\ Base = (2 * PairsDone) * Columns
<1>1. Lines \div 2 \in Nat /\ ln \div 2 \in Nat /\ frames \in Nat
  BY LinesAssumption DEF TypeOK
<1>2. frames * (Lines \div 2) \in Nat
  BY <1>1, ProductNat
<1>3. PairsDone \in Nat
  BY <1>1, <1>2 DEF PairsDone
<1>4. (2 * PairsDone) * Columns \in Nat
  BY <1>3, ProductNat, ColumnsAssumption
<1> QED
  BY <1>3, <1>4 DEF Base

\* The three ways out of an iteration: to the next pixel of the line, to the
\* lower line of the same pair, and to the next pair, which may be the first
\* pair of the next frame.
LEMMA AdvanceFact ==
    ASSUME TypeOK, Advance
    PROVE  \/ /\ px' = px + 1 /\ px' < Columns
              /\ ln' = ln /\ frames' = frames /\ pc' = "read"
              /\ PairsDone' = PairsDone
           \/ /\ px = Columns - 1 /\ px' = 0
              /\ ~OnLower /\ OnLower' /\ pc' = "read"
              /\ PairsDone' = PairsDone
           \/ /\ px = Columns - 1 /\ px' = 0
              /\ OnLower /\ ~OnLower' /\ pc' \in {"read", "idle"}
              /\ (pc' = "idle" => ln' = 0)
              /\ (pc' = "read" => ln' # 0)
              /\ PairsDone' = PairsDone + 1
<1> USE LinesAssumption, ColumnsAssumption
<1>1. NextLn = ln + 1 /\ NextPx = px + 1
  BY CountersFact
<1>2. CASE /\ NextPx < Columns
           /\ px' = NextPx
           /\ pc' = "read"
           /\ UNCHANGED <<ln, frames>>
  BY <1>1, <1>2 DEF PairsDone
<1>3. CASE /\ ~(NextPx < Columns)
           /\ NextLn < Lines
           /\ ln' = NextLn
           /\ px' = 0
           /\ pc' = "read"
           /\ UNCHANGED frames
  <2>1. px = Columns - 1
    BY <1>1, <1>3 DEF TypeOK
  <2>2. frames * (Lines \div 2) \in Nat
    BY ProductNat DEF TypeOK
  <2>3. CASE ~OnLower
    <3>1. OnLower' /\ ln' \div 2 = ln \div 2
      BY <1>1, <1>3, <2>3 DEF TypeOK, OnLower
    <3>2. PairsDone' = PairsDone
      BY <1>3, <3>1 DEF PairsDone
    <3> QED
      BY <1>3, <2>1, <2>3, <3>1, <3>2
  <2>4. CASE OnLower
    <3>1. ~OnLower' /\ ln' \div 2 = (ln \div 2) + 1 /\ ln' # 0
      BY <1>1, <1>3, <2>4 DEF TypeOK, OnLower
    <3>2. PairsDone' = PairsDone + 1
      BY <1>3, <2>2, <3>1 DEF PairsDone, TypeOK
    <3> QED
      BY <1>3, <2>1, <2>4, <3>1, <3>2
  <2> QED
    BY <2>3, <2>4
<1>4. CASE /\ ~(NextPx < Columns)
           /\ ~(NextLn < Lines)
           /\ ln' = 0
           /\ px' = 0
           /\ pc' = "idle"
           /\ frames' = frames + 1
  <2>1. px = Columns - 1 /\ ln = Lines - 1
    BY <1>1, <1>4 DEF TypeOK
  <2>2. OnLower /\ ~OnLower' /\ ln \div 2 = (Lines \div 2) - 1
    BY <1>4, <2>1 DEF OnLower
  <2>3. PICK h \in Nat : h = Lines \div 2
    OBVIOUS
  <2>4. (frames + 1) * h = frames * h + h /\ frames * h \in Nat
    BY ProductSuccessor, ProductNat DEF TypeOK
  <2>5. PairsDone' = PairsDone + 1
    BY <1>4, <2>2, <2>3, <2>4 DEF PairsDone
  <2> QED
    BY <1>4, <2>1, <2>2, <2>5
<1> QED
  BY <1>2, <1>3, <1>4 DEF Advance

-----------------------------------------------------------------------------
(***************************************************************************)
(* The inductive invariant                                                 *)
(***************************************************************************)

\* The block of an average that was written has been read completely.
LEMMA BlockTaken ==
    ASSUME TypeOK, PositionInv, NEW k \in 1 .. Len(down_image)
    PROVE  LET r == (k - 1) \div HalfColumns
               c == (k - 1) % HalfColumns
           IN  /\ r \in Nat /\ c \in Nat
               /\ 2 * r * Columns \in Nat
               /\ (2 * r + 1) * Columns = 2 * r * Columns + Columns
               /\ 2 * r * Columns + Columns + 2 * c + 2 <= Len(taken)
<1> DEFINE r == (k - 1) \div HalfColumns
           c == (k - 1) % HalfColumns
<1>1. /\ k - 1 \in Nat /\ Len(taken) \in Nat
      /\ px \in 0 .. Columns - 1 /\ px \div 2 \in 0 .. HalfColumns - 1
      /\ k - 1 < PairsDone * HalfColumns
                     + (IF OnLower THEN px \div 2 ELSE 0)
  <2>1. px \in 0 .. Columns - 1 /\ px \div 2 \in 0 .. HalfColumns - 1
    BY HalfColumnsFact DEF TypeOK
  <2>2. Len(taken) \in Nat /\ Len(down_image) \in Nat
    BY DEF TypeOK
  <2> QED
    BY <2>1, <2>2 DEF PositionInv
<1>2. r \in Nat /\ c \in 0 .. HalfColumns - 1 /\ k - 1 = r * HalfColumns + c
  BY <1>1, HalfColumnsFact, Division
<1>3. PairsDone \in Nat /\ Base \in Nat /\ Base = (2 * PairsDone) * Columns
  BY BaseFact
<1> HIDE DEF r, c
<1>4. r <= PairsDone
  <2>1. SUFFICES ASSUME PairsDone < r PROVE FALSE
    BY <1>2, <1>3
  <2>2. (PairsDone + 1) * HalfColumns <= r * HalfColumns
    BY <1>2, <1>3, <2>1, HalfColumnsFact, ProductMonotonic
  <2>3. (PairsDone + 1) * HalfColumns = PairsDone * HalfColumns + HalfColumns
    BY <1>3, HalfColumnsFact, ProductSuccessor
  <2>4. PairsDone * HalfColumns \in Nat /\ r * HalfColumns \in Nat
    BY <1>2, <1>3, HalfColumnsFact, ProductNat
  <2> QED
    BY <1>1, <1>2, <2>2, <2>3, <2>4, HalfColumnsFact
<1>5. /\ (2 * r) * Columns \in Nat
      /\ (2 * r + 1) * Columns = (2 * r) * Columns + Columns
  BY <1>2, ProductNat, ProductSuccessor, ColumnsAssumption
<1>6. (2 * r) * Columns + Columns + 2 * c + 2 <= Len(taken)
  <2>1. CASE r < PairsDone
    <3>1. (2 * r + 2) * Columns <= (2 * PairsDone) * Columns
      BY <1>2, <1>3, <2>1, ColumnsAssumption, ProductMonotonic
    <3>2. (2 * r + 2) * Columns = (2 * r) * Columns + Columns + Columns
      <4>1. (2 * r + 2) * Columns = (2 * r + 1) * Columns + Columns
        BY <1>2, ColumnsAssumption, ProductSuccessor
      <4> QED
        BY <4>1, <1>5
    <3>3. (2 * r) * Columns + Columns + Columns <= Base
      BY <1>3, <3>1, <3>2
    <3>4. Base <= Len(taken)
      BY <1>1, <1>3, ColumnsAssumption DEF PositionInv
    <3> QED
      BY <1>1, <1>2, <1>3, <1>5, <3>3, <3>4, HalfColumnsFact
  <2>2. CASE r = PairsDone
    <3>1. OnLower /\ c < px \div 2
      <4>1. r * HalfColumns \in Nat
        BY <1>2, HalfColumnsFact, ProductNat
      <4> QED
        BY <1>1, <1>2, <2>2, <4>1
    <3>2. Base + Columns + px <= Len(taken)
      BY <1>1, <1>3, <3>1, ColumnsAssumption DEF PositionInv
    <3>3. Base = (2 * r) * Columns
      BY <1>3, <2>2
    <3>4. 2 * c + 2 <= px
      BY <1>1, <1>2, <3>1
    <3> QED
      BY <1>1, <1>2, <1>3, <1>5, <3>2, <3>3, <3>4, ColumnsAssumption
  <2> QED
    BY <1>2, <1>3, <1>4, <2>1, <2>2
<1> QED
  BY <1>2, <1>5, <1>6 DEF r, c

\* Taking one more pixel does not change the averages that are due already.
LEMMA DownSampledKept ==
    ASSUME TypeOK, PositionInv, DownSampled, UNCHANGED down_image,
           NEW v \in Pixel, taken' = Append(taken, v)
    PROVE  DownSampled'
<1> SUFFICES ASSUME NEW k \in 1 .. Len(down_image)
             PROVE  down_image'[k] =
                        BlockAverage((k - 1) \div HalfColumns,
                                     (k - 1) % HalfColumns)'
  BY DEF DownSampled
<1>1. \A i \in 1 .. Len(taken) : taken'[i] = taken[i]
  BY DEF TypeOK
<1>2. PICK r \in Nat, c \in Nat :
          /\ r = (k - 1) \div HalfColumns
          /\ c = (k - 1) % HalfColumns
          /\ 2 * r * Columns \in Nat
          /\ (2 * r + 1) * Columns = 2 * r * Columns + Columns
          /\ 2 * r * Columns + Columns + 2 * c + 2 <= Len(taken)
  BY BlockTaken
<1>3. Len(taken) \in Nat
  BY DEF TypeOK
<1>4. /\ PixelAt(2 * r, 2 * c)' = PixelAt(2 * r, 2 * c)
      /\ PixelAt(2 * r, 2 * c + 1)' = PixelAt(2 * r, 2 * c + 1)
      /\ PixelAt(2 * r + 1, 2 * c)' = PixelAt(2 * r + 1, 2 * c)
      /\ PixelAt(2 * r + 1, 2 * c + 1)' = PixelAt(2 * r + 1, 2 * c + 1)
  <2>1. PICK b \in Nat : b = 2 * r * Columns /\ (2 * r + 1) * Columns = b + Columns
    BY <1>2
  <2>2. \A x \in Nat : /\ PixelAt(2 * r, x) = taken[b + x + 1]
                       /\ PixelAt(2 * r, x)' = taken'[b + x + 1]
                       /\ PixelAt(2 * r + 1, x) = taken[b + Columns + x + 1]
                       /\ PixelAt(2 * r + 1, x)' = taken'[b + Columns + x + 1]
    BY <2>1 DEF PixelAt
  <2>3. b + Columns + 2 * c + 2 <= Len(taken)
    BY <1>2, <2>1
  <2>4. \A x \in {2 * c, 2 * c + 1} :
            /\ x \in Nat
            /\ b + x + 1 \in 1 .. Len(taken)
            /\ b + Columns + x + 1 \in 1 .. Len(taken)
    BY <1>3, <2>3, ColumnsAssumption
  <2>5. ASSUME NEW x \in {2 * c, 2 * c + 1}
        PROVE  /\ PixelAt(2 * r, x)' = PixelAt(2 * r, x)
               /\ PixelAt(2 * r + 1, x)' = PixelAt(2 * r + 1, x)
    <3>1. /\ taken'[b + x + 1] = taken[b + x + 1]
          /\ taken'[b + Columns + x + 1] = taken[b + Columns + x + 1]
      BY <1>1, <2>4
    <3> QED
      BY <2>2, <2>4, <3>1
  <2> QED
    BY <2>5
<1>5. BlockAverage(r, c)' = BlockAverage(r, c)
  BY <1>4 DEF BlockAverage
<1>6. down_image[k] = BlockAverage(r, c)
  BY <1>2 DEF DownSampled
<1> QED
  BY <1>2, <1>5, <1>6

\* What one read does to the history: everything taken stays where it was, and
\* the pixel is the one the counters point at.
LEMMA TakenStep ==
    ASSUME TypeOK, PositionInv, ReadPixel
    PROVE  /\ PairsDone' = PairsDone /\ Base' = Base
           /\ OnLower' = OnLower /\ PairStart' = PairStart
           /\ px \in 0 .. Columns - 1
           /\ \A c \in Nat : (OnLower /\ c < Columns) \/ c < px
                  => UpperAt(c)' = UpperAt(c)
           /\ \A c \in Nat : OnLower /\ c < px => LowerAt(c)' = LowerAt(c)
           /\ ~OnLower => UpperAt(px)' = Head(image)
           /\ OnLower => LowerAt(px)' = Head(image)
           /\ PositionInv'
<1>1. /\ ln' = ln /\ px' = px /\ frames' = frames
      /\ pc = "read" /\ pc' = "emit"
      /\ taken' = Append(taken, Head(image)) /\ down_image' = down_image
  BY DEF ReadPixel, counters
<1>2. /\ PairsDone' = PairsDone /\ Base' = Base
      /\ OnLower' = OnLower /\ PairStart' = PairStart
  BY <1>1 DEF PairsDone, Base, OnLower, PairStart
<1>3. /\ Len(taken) \in Nat /\ Len(taken') = Len(taken) + 1
      /\ \A i \in 1 .. Len(taken) : taken'[i] = taken[i]
      /\ taken'[Len(taken) + 1] = Head(image)
  BY <1>1 DEF TypeOK, ReadPixel
<1>4. Base \in Nat /\ px \in 0 .. Columns - 1
  BY BaseFact DEF TypeOK
<1>5. Len(taken) = Base + (IF OnLower THEN Columns ELSE 0) + px
  BY <1>1, <1>4, ColumnsAssumption DEF PositionInv
<1>6. ASSUME NEW c \in Nat, (OnLower /\ c < Columns) \/ c < px
      PROVE  UpperAt(c)' = UpperAt(c)
  <2>1. Base + c + 1 \in 1 .. Len(taken)
    BY <1>3, <1>4, <1>5, <1>6, ColumnsAssumption
  <2> QED
    BY <1>2, <1>3, <2>1 DEF UpperAt
<1>7. ASSUME NEW c \in Nat, OnLower /\ c < px
      PROVE  LowerAt(c)' = LowerAt(c)
  <2>1. Base + Columns + c + 1 \in 1 .. Len(taken)
    BY <1>3, <1>4, <1>5, <1>7, ColumnsAssumption
  <2> QED
    BY <1>2, <1>3, <2>1 DEF LowerAt
<1>8. ~OnLower => UpperAt(px)' = Head(image)
  BY <1>1, <1>2, <1>3, <1>4, <1>5 DEF UpperAt
<1>9. OnLower => LowerAt(px)' = Head(image)
  BY <1>1, <1>2, <1>3, <1>4, <1>5, ColumnsAssumption DEF LowerAt
<1>10. PositionInv'
  BY <1>1, <1>2, <1>3, <1>4, <1>5, ColumnsAssumption DEF PositionInv
<1> QED
  BY <1>2, <1>4, <1>6, <1>7, <1>8, <1>9, <1>10

\* Reading and processing a pixel.
LEMMA ReadStep ==
    ASSUME IInv, ReadPixel
    PROVE  IInv'
<1> DEFINE v == Head(image)
<1> USE DEF IInv
<1>1. TypeOK'
  BY TypeStep DEF Next
<1>2. /\ OnLower' = OnLower /\ PairStart' = PairStart
      /\ px \in 0 .. Columns - 1
      /\ PositionInv'
  BY TakenStep
<1>3. \A c \in Nat : (OnLower /\ c < Columns) \/ c < px
          => UpperAt(c)' = UpperAt(c)
  BY TakenStep
<1>4. \A c \in Nat : OnLower /\ c < px => LowerAt(c)' = LowerAt(c)
  BY TakenStep
<1>5. /\ ~OnLower => UpperAt(px)' = v
      /\ OnLower => LowerAt(px)' = v
  BY TakenStep
<1>6. /\ pc = "read" /\ pc' = "emit" /\ px' = px /\ ln' = ln
      /\ LnProcess(v, ln, px)
      /\ ShregProcess(rd_data', px)
      /\ rd_data \in Pair /\ wr_buffer \in Pair /\ line0 \in [Address -> Pair]
      /\ shreg_y0 \in Pair /\ shreg_y1 \in Pair
  BY DEF ReadPixel, counters, TypeOK, LnTypeOK, ShregTypeOK
<1>7. \A a \in Address : /\ a \in Nat /\ 2 * a \in Nat /\ 2 * a + 1 \in Nat
                         /\ 2 * a < Columns /\ 2 * a + 1 < Columns
  BY HalfColumnsFact DEF Address
<1>8. px \div 2 \in Address
  BY <1>2, HalfColumnsFact DEF Address
<1>9. v \in Pixel
  BY DEF ReadPixel, TypeOK
<1> HIDE DEF v
<1>10. SupplyInv'
  BY <1>6 DEF SupplyInv
<1>11. DownSampled'
  BY <1>9, DownSampledKept DEF ReadPixel, v
<1>12. CASE LnWriteEven(v, ln, px)
  <2>1. /\ ~OnLower /\ px % 2 = 0 /\ line0' = line0
        /\ wr_buffer'[0] = v
    BY <1>6, <1>12 DEF LnWriteEven, OnLower, Pair
  <2>2. LineInv'
    <3> SUFFICES ASSUME NEW a \in Address, 2 * a + 1 < px
                 PROVE  /\ line0[a][0] = UpperAt(2 * a)'
                        /\ line0[a][1] = UpperAt(2 * a + 1)'
      BY <1>2, <1>6, <1>7, <2>1 DEF LineInv
    <3>1. UpperAt(2 * a)' = UpperAt(2 * a)
          /\ UpperAt(2 * a + 1)' = UpperAt(2 * a + 1)
      BY <1>2, <1>3, <1>7
    <3> QED
      BY <3>1 DEF LineInv
  <2>3. PackInv'
    BY <1>2, <1>5, <1>6, <2>1 DEF PackInv, PairStart, UpperAt
  <2> QED
    BY <1>1, <1>2, <1>10, <1>11, <2>1, <2>2, <2>3 DEF FetchInv, WindowInv
<1>13. CASE LnWriteOdd(v, ln, px)
  <2>1. /\ ~OnLower /\ px % 2 = 1 /\ px = 2 * (px \div 2) + 1
        /\ wr_buffer' = [wr_buffer EXCEPT ![1] = v]
        /\ line0' = [line0 EXCEPT ![px \div 2] = [wr_buffer EXCEPT ![1] = v]]
    BY <1>2, <1>13 DEF LnWriteOdd, OnLower
  <2>2. wr_buffer'[0] = wr_buffer[0] /\ wr_buffer'[1] = v
    BY <1>6, <2>1 DEF Pair
  <2>3. wr_buffer[0] = UpperAt(PairStart)'
    BY <1>2, <1>3, <2>1 DEF PackInv, FirstDone, PairStart
  <2>4. PackInv'
    BY <1>2, <2>2, <2>3 DEF PackInv
  <2>5. LineInv'
    <3> SUFFICES ASSUME NEW a \in Address, 2 * a + 1 <= px
                 PROVE  /\ line0'[a][0] = UpperAt(2 * a)'
                        /\ line0'[a][1] = UpperAt(2 * a + 1)'
      BY <1>2, <1>6, <1>7, <2>1 DEF LineInv
    <3>1. CASE a = px \div 2
      <4>1. line0'[a] = wr_buffer'
        BY <1>6, <1>8, <2>1, <3>1
      <4>2. 2 * a = PairStart /\ 2 * a + 1 = px
        BY <2>1, <3>1 DEF PairStart
      <4>3. UpperAt(2 * a + 1)' = v
        BY <1>5, <1>6, <2>1, <4>2 DEF UpperAt
      <4>4. UpperAt(2 * a)' = wr_buffer[0]
        BY <1>2, <2>3, <4>2
      <4> QED
        BY <2>2, <4>1, <4>3, <4>4
    <3>2. CASE a # px \div 2
      <4>1. line0'[a] = line0[a]
        BY <1>6, <2>1, <3>2
      <4>2. 2 * a + 1 < px
        BY <1>2, <1>7, <2>1, <3>2
      <4>3. UpperAt(2 * a)' = UpperAt(2 * a)
            /\ UpperAt(2 * a + 1)' = UpperAt(2 * a + 1)
        BY <1>2, <1>3, <1>7, <4>2
      <4> QED
        BY <4>1, <4>2, <4>3 DEF LineInv
    <3> QED
      BY <3>1, <3>2
  <2> QED
    BY <1>1, <1>2, <1>10, <1>11, <2>1, <2>4, <2>5 DEF FetchInv, WindowInv
<1>14. CASE LnReadEven(v, ln, px)
  <2>1. /\ OnLower /\ px % 2 = 0 /\ px = 2 * (px \div 2) /\ line0' = line0
        /\ rd_buffer' = line0[px \div 2]
        /\ rd_data'[0] = line0[px \div 2][0] /\ rd_data'[1] = v
    BY <1>2, <1>6, <1>14 DEF LnReadEven, OnLower, Pair
  <2>2. LineInv'
    <3> SUFFICES ASSUME NEW a \in Address
                 PROVE  /\ line0[a][0] = UpperAt(2 * a)'
                        /\ line0[a][1] = UpperAt(2 * a + 1)'
      BY <2>1 DEF LineInv
    <3> QED
      BY <1>3, <1>7, <2>1 DEF LineInv
  <2>3. PairStart = px
    BY <2>1 DEF PairStart
  <2>4. /\ line0[px \div 2][0] = UpperAt(px)'
        /\ line0[px \div 2][1] = UpperAt(px + 1)'
    <3>1. /\ line0[px \div 2][0] = UpperAt(px)
          /\ line0[px \div 2][1] = UpperAt(px + 1)
      BY <1>8, <2>1 DEF LineInv
    <3>2. px \in Nat /\ px < Columns /\ px + 1 \in Nat /\ px + 1 < Columns
      BY <1>7, <1>8, <2>1
    <3> QED
      BY <1>3, <1>6, <2>1, <3>1, <3>2 DEF UpperAt
  <2>5. shreg_y0'[0] = rd_data'[0] /\ shreg_y1'[0] = rd_data'[1]
    BY <1>6, <2>1 DEF ShregProcess, Pair
  <2>6. FetchInv'
    BY <1>2, <1>5, <1>6, <2>1, <2>3, <2>4, <2>5 DEF FetchInv
  <2> QED
    BY <1>1, <1>2, <1>6, <1>10, <1>11, <2>1, <2>2, <2>6 DEF PackInv, WindowInv
<1>15. CASE LnReadOdd(v, ln, px)
  <2>1. /\ OnLower /\ px % 2 = 1 /\ px = 2 * (px \div 2) + 1
        /\ line0' = line0 /\ rd_buffer' = rd_buffer
        /\ rd_data'[0] = rd_buffer[1] /\ rd_data'[1] = v
    BY <1>2, <1>6, <1>15 DEF LnReadOdd, OnLower, Pair
  <2>2. LineInv'
    <3> SUFFICES ASSUME NEW a \in Address
                 PROVE  /\ line0[a][0] = UpperAt(2 * a)'
                        /\ line0[a][1] = UpperAt(2 * a + 1)'
      BY <2>1 DEF LineInv
    <3> QED
      BY <1>3, <1>7, <2>1 DEF LineInv
  <2>3. PairStart \in Nat /\ PairStart + 1 = px /\ PairStart < px
    BY <1>2, <2>1 DEF PairStart
  <2>4. /\ shreg_y0'[1] = rd_data'[0] /\ shreg_y1'[1] = rd_data'[1]
        /\ shreg_y0'[0] = shreg_y0[0] /\ shreg_y1'[0] = shreg_y1[0]
    BY <1>6, <2>1 DEF ShregProcess, Pair
  <2>5. /\ rd_buffer[1] = UpperAt(PairStart + 1)
        /\ shreg_y0[0] = UpperAt(PairStart)
        /\ shreg_y1[0] = LowerAt(PairStart)
    BY <2>1 DEF FetchInv, FirstDone
  <2>6. /\ UpperAt(PairStart)' = UpperAt(PairStart)
        /\ UpperAt(px)' = UpperAt(px)
        /\ LowerAt(PairStart)' = LowerAt(PairStart)
    <3>1. PICK y \in Nat : y = PairStart /\ y < px
      BY <2>3
    <3>2. PICK x \in Nat : x = px /\ x = px' /\ x < Columns
      BY <1>2, <1>6, ColumnsAssumption
    <3>3. /\ UpperAt(y)' = UpperAt(y) /\ LowerAt(y)' = LowerAt(y)
          /\ UpperAt(x)' = UpperAt(x)
      BY <1>3, <1>4, <2>1, <3>1, <3>2
    <3> QED
      BY <1>2, <3>1, <3>2, <3>3 DEF UpperAt, LowerAt
  <2>7. FetchInv'
    <3>1. UpperAt(PairStart + 1)' = UpperAt(px)'
      BY <1>2, <1>6, <2>3 DEF UpperAt
    <3>2. UpperAt(PairStart + 1) = UpperAt(px)
      BY <2>3
    <3>3. rd_buffer'[1] = UpperAt(PairStart + 1)'
      BY <2>1, <2>5, <2>6, <3>1, <3>2
    <3>4. /\ shreg_y0'[0] = UpperAt(PairStart)'
          /\ shreg_y1'[0] = LowerAt(PairStart)'
      BY <2>4, <2>5, <2>6
    <3> QED
      BY <3>3, <3>4 DEF FetchInv
  <2>8. WindowInv'
    BY <1>2, <1>5, <1>6, <2>1, <2>3, <2>4, <2>5, <2>6 DEF WindowInv
  <2> QED
    BY <1>1, <1>2, <1>10, <1>11, <2>1, <2>2, <2>7, <2>8 DEF PackInv
<1> QED
  BY <1>6, <1>12, <1>13, <1>14, <1>15 DEF LnProcess

\* The average that is due is the one of the block in column px \div 2 of the
\* current pair of lines.
LEMMA WindowIsBlock ==
    ASSUME IInv, pc = "emit", OnLower, px % 2 = 1
    PROVE  WindowAverage = BlockAverage(PairsDone, px \div 2)
<1>1. px \in Nat /\ PairStart = 2 * (px \div 2) /\ PairStart + 1 = px
  BY ColumnsAssumption DEF IInv, TypeOK, PairStart
<1>2. PairsDone \in Nat /\ Base \in Nat /\ Base = (2 * PairsDone) * Columns
  BY BaseFact DEF IInv
<1>3. /\ shreg_y0[0] = UpperAt(PairStart) /\ shreg_y0[1] = UpperAt(px)
      /\ shreg_y1[0] = LowerAt(PairStart) /\ shreg_y1[1] = LowerAt(px)
  BY DEF IInv, FetchInv, WindowInv, FirstDone
<1>4. (2 * PairsDone + 1) * Columns = Base + Columns
  BY <1>2, ProductSuccessor, ColumnsAssumption
<1>5. ASSUME NEW c \in Nat
      PROVE  /\ PixelAt(2 * PairsDone, c) = UpperAt(c)
             /\ PixelAt(2 * PairsDone + 1, c) = LowerAt(c)
  BY <1>2, <1>4 DEF PixelAt, UpperAt, LowerAt
<1>6. PICK y \in Nat : y = px \div 2
  BY <1>1
<1>7. /\ UpperAt(PairStart) = PixelAt(2 * PairsDone, 2 * y)
      /\ LowerAt(PairStart) = PixelAt(2 * PairsDone + 1, 2 * y)
  BY <1>1, <1>5, <1>6
<1>8. /\ UpperAt(px) = PixelAt(2 * PairsDone, 2 * y + 1)
      /\ LowerAt(px) = PixelAt(2 * PairsDone + 1, 2 * y + 1)
  BY <1>1, <1>5, <1>6
<1> QED
  BY <1>3, <1>6, <1>7, <1>8 DEF WindowAverage, BlockAverage

\* Every average written is in its place.
LEMMA EmitDownSampled ==
    ASSUME IInv, Emit
    PROVE  DownSampled'
<1>1. /\ pc = "emit" /\ taken' = taken
      /\ down_image \in Seq(Pixel) /\ Len(down_image) \in Nat
      /\ px \in 0 .. Columns - 1
  BY DEF Emit, IInv, TypeOK
<1>2. \A r, c : BlockAverage(r, c)' = BlockAverage(r, c)
  BY <1>1 DEF BlockAverage, PixelAt
<1>3. CASE OnLower /\ px % 2 = 1
  <2>1. down_image' = Append(down_image, WindowAverage)
    BY <1>3 DEF Emit, OnLower
  <2>2. SUFFICES ASSUME NEW k \in 1 .. Len(down_image')
                 PROVE  down_image'[k] =
                            BlockAverage((k - 1) \div HalfColumns,
                                         (k - 1) % HalfColumns)
    BY <1>2 DEF DownSampled
  <2>3. CASE k \in 1 .. Len(down_image)
    <3>1. down_image'[k] = down_image[k]
      BY <1>1, <2>1, <2>3
    <3> QED
      BY <2>3, <3>1 DEF IInv, DownSampled
  <2>4. CASE k = Len(down_image) + 1
    <3>1. PairsDone \in Nat /\ px \div 2 \in 0 .. HalfColumns - 1
      BY <1>1, BaseFact, HalfColumnsFact DEF IInv
    <3>2. k - 1 = PairsDone * HalfColumns + (px \div 2)
      BY <1>1, <1>3, <2>4 DEF IInv, PositionInv
    <3>3. /\ (k - 1) \div HalfColumns = PairsDone
          /\ (k - 1) % HalfColumns = px \div 2
      BY <3>1, <3>2, HalfColumnsFact, DivisionUnique
    <3>4. down_image'[k] = WindowAverage
      BY <1>1, <2>1, <2>4
    <3> QED
      BY <1>1, <1>3, <3>3, <3>4, WindowIsBlock
  <2> QED
    BY <1>1, <2>1, <2>3, <2>4
<1>4. CASE ~(OnLower /\ px % 2 = 1)
  <2>1. down_image' = down_image
    BY <1>4 DEF Emit, OnLower
  <2> QED
    BY <1>2, <2>1 DEF IInv, DownSampled
<1> QED
  BY <1>3, <1>4

\* Writing the average and advancing the counters.
LEMMA EmitStep ==
    ASSUME IInv, Emit
    PROVE  IInv'
<1>1. TypeOK'
  BY TypeStep DEF Next, IInv
<1>2. DownSampled'
  BY EmitDownSampled
<1>3. /\ pc = "emit" /\ taken' = taken /\ line0' = line0 /\ image' = image
      /\ wr_buffer' = wr_buffer /\ rd_buffer' = rd_buffer
      /\ shreg_y0' = shreg_y0 /\ shreg_y1' = shreg_y1
      /\ px \in 0 .. Columns - 1 /\ ln \in Nat
      /\ Advance
  BY DEF Emit, IInv, TypeOK, lnVars, shregVars
<1>4. PairsDone \in Nat /\ Base \in Nat /\ Base = (2 * PairsDone) * Columns
  BY BaseFact DEF IInv
<1>5. /\ Len(taken) = Base + (IF OnLower THEN Columns ELSE 0) + px + 1
      /\ Len(down_image) =
             PairsDone * HalfColumns + (IF OnLower THEN px \div 2 ELSE 0)
  BY <1>3, <1>4, ColumnsAssumption DEF IInv, PositionInv
<1>6. Len(down_image') =
          PairsDone * HalfColumns + (IF OnLower THEN (px + 1) \div 2 ELSE 0)
  <2>1. down_image \in Seq(Pixel)
    BY DEF IInv, TypeOK
  <2>2. PICK n \in Nat : n = PairsDone * HalfColumns
    BY <1>4, HalfColumnsFact, ProductNat
  <2>3. CASE OnLower /\ px % 2 = 1
    <3>1. Len(down_image') = Len(down_image) + 1
      BY <2>1, <2>3 DEF Emit, OnLower
    <3>2. (px + 1) \div 2 = (px \div 2) + 1
      BY <1>3, <2>3
    <3> QED
      BY <1>3, <1>5, <2>2, <2>3, <3>1, <3>2
  <2>4. CASE ~(OnLower /\ px % 2 = 1)
    <3>1. down_image' = down_image
      BY <2>4 DEF Emit, OnLower
    <3>2. OnLower => (px + 1) \div 2 = px \div 2
      BY <1>3, <2>4
    <3> QED
      BY <1>5, <3>1, <3>2
  <2> QED
    BY <2>3, <2>4
<1>7. pc' # "emit"
  BY <1>3 DEF Advance
<1>8. WindowInv'
  BY <1>7 DEF WindowInv
<1>9. CASE /\ px' = px + 1 /\ px' < Columns
           /\ ln' = ln /\ frames' = frames /\ pc' = "read"
           /\ PairsDone' = PairsDone
  <2>1. Base' = Base /\ (OnLower' <=> OnLower)
    BY <1>9 DEF Base, OnLower
  <2>2. PositionInv'
    BY <1>3, <1>4, <1>5, <1>6, <1>9, <2>1, ColumnsAssumption DEF PositionInv
  <2>3. LineInv'
    <3> SUFFICES ASSUME NEW a \in Address, OnLower \/ 2 * a + 1 < px + 1
                 PROVE  /\ line0[a][0] = UpperAt(2 * a)
                        /\ line0[a][1] = UpperAt(2 * a + 1)
      BY <1>3, <1>9, <2>1 DEF LineInv, UpperAt
    <3>1. OnLower \/ 2 * a + 1 < px \/ 2 * a + 1 = px
      BY <1>3, HalfColumnsFact DEF Address
    <3> QED
      BY <1>3, <3>1 DEF IInv, LineInv
  <2>4. FirstDone' => PairStart' = PairStart
    BY <1>3, <1>9 DEF FirstDone, PairStart
  <2>5. PackInv'
    BY <1>3, <2>1, <2>4 DEF IInv, PackInv, UpperAt, FirstDone
  <2>6. FetchInv'
    BY <1>3, <2>1, <2>4 DEF IInv, FetchInv, UpperAt, LowerAt, FirstDone
  <2>7. SupplyInv'
    BY <1>3, <1>9 DEF SupplyInv
  <2> QED
    BY <1>1, <1>2, <1>8, <2>2, <2>3, <2>5, <2>6, <2>7 DEF IInv
<1>10. CASE /\ px = Columns - 1 /\ px' = 0
            /\ ~OnLower /\ OnLower' /\ pc' = "read"
            /\ PairsDone' = PairsDone
  <2>1. Base' = Base
    BY <1>10 DEF Base
  <2>2. PositionInv'
    BY <1>3, <1>4, <1>5, <1>6, <1>10, <2>1, ColumnsAssumption
       DEF PositionInv
  <2>3. LineInv'
    <3> SUFFICES ASSUME NEW a \in Address
                 PROVE  /\ line0[a][0] = UpperAt(2 * a)
                        /\ line0[a][1] = UpperAt(2 * a + 1)
      BY <1>3, <2>1 DEF LineInv, UpperAt
    <3>1. 2 * a + 1 < px \/ 2 * a + 1 = px
      BY <1>10, HalfColumnsFact DEF Address
    <3> QED
      BY <1>3, <3>1 DEF IInv, LineInv
  <2>4. PackInv' /\ FetchInv'
    BY <1>10 DEF PackInv, FetchInv, FirstDone
  <2>5. SupplyInv'
    BY <1>10 DEF SupplyInv, OnLower
  <2> QED
    BY <1>1, <1>2, <1>8, <2>2, <2>3, <2>4, <2>5 DEF IInv
<1>11. CASE /\ px = Columns - 1 /\ px' = 0
            /\ OnLower /\ ~OnLower' /\ pc' \in {"read", "idle"}
            /\ (pc' = "idle" => ln' = 0)
            /\ (pc' = "read" => ln' # 0)
            /\ PairsDone' = PairsDone + 1
  <2>1. Base' = Base + Columns + Columns
    <3>1. Base' = (2 * (PairsDone + 1)) * Columns
      BY <1>11 DEF Base
    <3>2. /\ (2 * PairsDone + 1) * Columns
                 = (2 * PairsDone) * Columns + Columns
          /\ (2 * PairsDone + 1 + 1) * Columns
                 = (2 * PairsDone + 1) * Columns + Columns
      BY <1>4, ColumnsAssumption, ProductSuccessor
    <3>3. 2 * (PairsDone + 1) = 2 * PairsDone + 1 + 1
      BY <1>4
    <3> QED
      BY <1>4, <3>1, <3>2, <3>3
  <2>2. Len(down_image') = PairsDone' * HalfColumns
    <3>1. (px + 1) \div 2 = HalfColumns
      BY <1>11, HalfColumnsFact
    <3> QED
      BY <1>4, <1>6, <1>11, <3>1, HalfColumnsFact, ProductSuccessor
  <2>3. Len(taken') = Base'
    BY <1>3, <1>4, <1>5, <1>11, <2>1, ColumnsAssumption
  <2>4. PositionInv'
    <3>1. Base' \in Nat
      BY <1>4, <2>1, ColumnsAssumption
    <3>2. PairsDone' * HalfColumns \in Nat
      BY <1>4, <1>11, HalfColumnsFact, ProductNat
    <3>3. Len(taken)' = Base' + (IF OnLower' THEN Columns ELSE 0) + px'
                              + (IF pc' = "emit" THEN 1 ELSE 0)
      <4>1. (IF pc' = "emit" THEN 1 ELSE 0) = 0
        BY <1>7
      <4>2. (IF OnLower' THEN Columns ELSE 0) = 0
        BY <1>11
      <4>3. px' = 0 /\ Len(taken)' = Base'
        BY <1>11, <2>3
      <4> QED
        BY <3>1, <4>1, <4>2, <4>3
    <3>4. Len(down_image)' = PairsDone' * HalfColumns
                                 + (IF OnLower' THEN px' \div 2 ELSE 0)
      BY <1>11, <2>2, <3>2
    <3> QED
      BY <1>11, <3>3, <3>4 DEF PositionInv
  <2>5. LineInv'
    <3>1. \A a \in Address : ~(2 * a + 1 < 0)
      BY HalfColumnsFact DEF Address
    <3> QED
      BY <1>7, <1>11, <3>1 DEF LineInv
  <2>6. PackInv' /\ FetchInv'
    BY <1>7, <1>11 DEF PackInv, FetchInv, FirstDone
  <2>7. SupplyInv'
    BY <1>11 DEF SupplyInv
  <2> QED
    BY <1>1, <1>2, <1>8, <2>4, <2>5, <2>6, <2>7 DEF IInv
<1> QED
  BY <1>3, <1>9, <1>10, <1>11, AdvanceFact DEF IInv

\* The caller's steps and the failing read change nothing the loop relies on.
LEMMA OtherSteps ==
    ASSUME IInv, (\E s \in Supplies : WritePixels(s)) \/ Call \/ ReadFails
                     \/ UNCHANGED vars
    PROVE  IInv'
<1> USE DEF IInv
<1>1. TypeOK'
  BY TypeStep DEF Next
<1>2. /\ UNCHANGED <<lnVars, shregVars, history, down_image>>
      /\ UNCHANGED <<image, pc, counters>>
           \/ (pc = "idle" /\ pc' \in {"idle", "read"} /\ ln' = 0 /\ px' = 0)
           \/ (pc = "read" /\ pc' = "failed" /\ UNCHANGED counters)
  <2>1. CASE \E s \in Supplies : WritePixels(s)
    BY <2>1 DEF WritePixels, PositionInv, counters
  <2>2. CASE Call
    BY <2>2 DEF Call, channels
  <2>3. CASE ReadFails
    BY <2>3 DEF ReadFails, channels
  <2>4. CASE UNCHANGED vars
    BY <2>4 DEF vars, channels
  <2> QED
    BY <2>1, <2>2, <2>3, <2>4
<1>3. /\ ln' = ln /\ px' = px
      /\ (pc' = "emit" <=> pc = "emit")
      /\ (pc' = "idle" => ln' = 0 /\ px' = 0)
  BY <1>2 DEF counters, PositionInv
<1>4. taken' = taken /\ frames' = frames
  BY <1>2 DEF history
<1>5. /\ OnLower' = OnLower /\ PairStart' = PairStart /\ FirstDone' = FirstDone
      /\ PairsDone' = PairsDone /\ Base' = Base
  BY <1>3, <1>4 DEF OnLower, PairStart, FirstDone, PairsDone, Base
<1>6. \A c : UpperAt(c)' = UpperAt(c) /\ LowerAt(c)' = LowerAt(c)
  BY <1>4, <1>5 DEF UpperAt, LowerAt
<1>7. PositionInv'
  BY <1>2, <1>3, <1>4, <1>5 DEF PositionInv
<1>8. LineInv'
  BY <1>2, <1>3, <1>4, <1>5 DEF LineInv, UpperAt, lnVars
<1>9. PackInv' /\ FetchInv' /\ WindowInv'
  BY <1>2, <1>3, <1>4, <1>5
     DEF PackInv, FetchInv, WindowInv, UpperAt, LowerAt, lnVars, shregVars
<1>10. SupplyInv'
  <2>1. CASE \E s \in Supplies : WritePixels(s)
    BY <2>1 DEF WritePixels, SupplyInv
  <2>2. CASE Call
    BY <2>2 DEF Call, Available, SupplyInv, channels, TypeOK
  <2>3. CASE ReadFails
    BY <2>3 DEF ReadFails, SupplyInv, channels, counters
  <2>4. CASE UNCHANGED vars
    BY <2>4 DEF vars, SupplyInv, channels, counters
  <2> QED
    BY <2>1, <2>2, <2>3, <2>4
<1>11. DownSampled'
  BY <1>2, <1>4 DEF DownSampled, BlockAverage, PixelAt
<1> QED
  BY <1>1, <1>7, <1>8, <1>9, <1>10, <1>11

\* Before the first call nothing was read and nothing written.
LEMMA InitInv == Init => IInv
<1> SUFFICES ASSUME Init PROVE IInv
  OBVIOUS
<1>1. TypeOK
  BY TypeInit
<1>2. OnLower = FALSE /\ FirstDone = FALSE
  BY DEF Init, OnLower, FirstDone
<1>3. PairsDone = 0 /\ Base = 0
  BY LinesAssumption, ColumnsAssumption DEF Init, PairsDone, Base
<1>4. PositionInv
  BY <1>2, <1>3, HalfColumnsFact DEF Init, PositionInv
<1>5. LineInv
  BY <1>2, HalfColumnsFact DEF Init, LineInv, Address
<1>6. PackInv /\ FetchInv /\ WindowInv
  BY <1>2 DEF PackInv, FetchInv, WindowInv
<1>7. SupplyInv /\ DownSampled
  BY DEF Init, SupplyInv, DownSampled
<1> QED
  BY <1>1, <1>4, <1>5, <1>6, <1>7 DEF IInv

\* The invariant holds in every reachable state, for every frame size.
THEOREM Invariance == Spec => []IInv
<1>1. IInv /\ [Next]_vars => IInv'
  BY ReadStep, EmitStep, OtherSteps DEF Next
<1> QED
  BY <1>1, InitInv, PTL DEF Spec

-----------------------------------------------------------------------------
(***************************************************************************)
(* The properties                                                          *)
(***************************************************************************)

\* Every pixel written is the average of the block at its place in its frame.
THEOREM WritesDownSampled == Spec => []DownSampled
<1>1. IInv => DownSampled
  BY DEF IInv
<1> QED
  BY <1>1, Invariance, PTL

\* The pixels read before the current call are the frames completed.
LEMMA FrameOffset ==
    ASSUME TypeOK
    PROVE  /\ frames * FrameSize \in Nat
           /\ (2 * (frames * (Lines \div 2))) * Columns = frames * FrameSize
<1>1. PICK h \in Nat : h = Lines \div 2 /\ Lines = 2 * h
  BY LinesAssumption
<1>2. frames \in Nat /\ Columns \in Nat
  BY ColumnsAssumption DEF TypeOK
<1>3. (2 * (frames * h)) * Columns = frames * ((2 * h) * Columns)
  BY <1>1, <1>2
<1>4. frames * ((2 * h) * Columns) \in Nat
  BY <1>1, <1>2, ProductNat
<1> QED
  BY <1>1, <1>3, <1>4 DEF FrameSize

\* Between calls the positions are those of whole frames.
LEMMA AlignedFact == IInv => FramesAligned
<1> SUFFICES ASSUME IInv, pc = "idle"
             PROVE  /\ Len(taken) = frames * FrameSize
                    /\ 4 * Len(down_image) = Len(taken)
  BY DEF FramesAligned
<1>1. ln = 0 /\ px = 0 /\ ~OnLower
  BY DEF IInv, PositionInv, OnLower
<1>2. PICK p \in Nat : p = frames * (Lines \div 2)
  BY LinesAssumption, ProductNat DEF IInv, TypeOK
<1>3. PairsDone = p
  BY <1>1, <1>2 DEF PairsDone
<1>4. Base = (2 * p) * Columns /\ Base = frames * FrameSize /\ Base \in Nat
  BY <1>2, <1>3, BaseFact, FrameOffset DEF IInv
<1>5. Len(taken) = Base
  BY <1>1, <1>4 DEF IInv, PositionInv
<1>6. Len(down_image) = p * HalfColumns
  <2>1. p * HalfColumns \in Nat
    BY HalfColumnsFact, ProductNat
  <2> QED
    BY <1>1, <1>3, <2>1 DEF IInv, PositionInv
<1>7. 4 * (p * HalfColumns) = (2 * p) * Columns
  BY HalfColumnsFact
<1> QED
  BY <1>4, <1>5, <1>6, <1>7

\* Frames stay aligned: a call reads one frame and writes a quarter of it.
THEOREM ReadsWholeFrames == Spec => []FramesAligned
  BY AlignedFact, Invariance, PTL

\* The pixels of the frame in progress are fewer than a frame, and some.
LEMMA ShortFrameFact == IInv => FailsOnlyOnShortFrame
<1> SUFFICES ASSUME IInv, pc = "failed"
             PROVE  Len(taken) % FrameSize # 0 /\ image = <<>>
  BY DEF FailsOnlyOnShortFrame
<1>1. image = <<>> /\ (ln # 0 \/ px # 0)
  BY DEF IInv, SupplyInv
<1>2. /\ ln \in 0 .. Lines - 1 /\ px \in 0 .. Columns - 1 /\ frames \in Nat
      /\ Lines \in Nat \ {0} /\ Columns \in Nat \ {0}
  BY LinesAssumption, ColumnsAssumption DEF IInv, TypeOK
<1>3. PICK r \in Nat : r = ln * Columns + px
  BY <1>2, ProductNat
<1>4. r # 0
  <2>1. ln # 0 => ln * Columns >= Columns
    BY <1>2, ProductMonotonic
  <2>2. ln * Columns \in Nat
    BY <1>2, ProductNat
  <2> QED
    BY <1>1, <1>2, <1>3, <2>1, <2>2
<1>5. r < FrameSize /\ FrameSize \in Nat \ {0}
  <2>1. (ln + 1) * Columns <= Lines * Columns
    BY <1>2, ProductMonotonic
  <2>2. (ln + 1) * Columns = ln * Columns + Columns
    BY <1>2, ProductSuccessor
  <2>3. ln * Columns \in Nat /\ Lines * Columns \in Nat
    BY <1>2, ProductNat
  <2> QED
    BY <1>2, <1>3, <2>1, <2>2, <2>3 DEF FrameSize
<1>6. Len(taken) = frames * FrameSize + r
  <2>1. PICK p \in Nat : p = frames * (Lines \div 2)
    BY LinesAssumption, ProductNat, <1>2
  <2>2. (2 * p) * Columns = frames * FrameSize /\ frames * FrameSize \in Nat
    BY <2>1, FrameOffset DEF IInv
  <2>3. PICK m \in Nat : m = ln \div 2
    BY <1>2
  <2>4. PairsDone = p + m /\ Base = (2 * (p + m)) * Columns /\ Base \in Nat
    BY <2>1, <2>3, BaseFact DEF PairsDone, IInv
  <2>5. Base = (2 * p) * Columns + (2 * m) * Columns
    BY <1>2, <2>4
  <2>6. Len(taken) = Base + (IF OnLower THEN Columns ELSE 0) + px
    BY <1>2, <2>4 DEF IInv, PositionInv
  <2>7. (2 * m) * Columns + (IF OnLower THEN Columns ELSE 0) = ln * Columns
    <3>1. CASE OnLower
      <4>1. ln = 2 * m + 1
        BY <1>2, <2>3, <3>1 DEF OnLower
      <4> QED
        BY <1>2, <3>1, <4>1, ProductSuccessor
    <3>2. CASE ~OnLower
      <4>1. ln = 2 * m
        BY <1>2, <2>3, <3>2 DEF OnLower
      <4>2. (2 * m) * Columns \in Nat
        BY <1>2, ProductNat
      <4> QED
        BY <3>2, <4>1, <4>2
    <3> QED
      BY <3>1, <3>2
  <2>8. (2 * m) * Columns \in Nat /\ ln * Columns \in Nat
    BY <1>2, ProductNat
  <2> QED
    BY <1>2, <1>3, <2>2, <2>5, <2>6, <2>7, <2>8
<1>7. Len(taken) % FrameSize = r
  <2>1. r \in 0 .. FrameSize - 1 /\ frames \in Nat
    BY <1>2, <1>3, <1>5
  <2>2. (frames * FrameSize + r) % FrameSize = r
    BY <1>5, <2>1, DivisionUnique
  <2> QED
    BY <1>6, <2>2
<1> QED
  BY <1>1, <1>4, <1>7

\* A read fails only in the middle of a frame, on an empty channel.
THEOREM FailsOnlyShort == Spec => []FailsOnlyOnShortFrame
  BY ShortFrameFact, Invariance, PTL

-----------------------------------------------------------------------------
(***************************************************************************)
(* The refinement                                                          *)
(***************************************************************************)

\* Where the decimator is, in terms of the loop's position.
LEMMA DecimatorPosition ==
    ASSUME IInv, pc \in {"read", "emit"}
    PROVE  LET c == IF OnLower THEN px \div 2 ELSE 0
           IN  /\ Abstract!Row = PairsDone /\ Abstract!Column = c
               /\ Abstract!Upper = Base + 2 * c
               /\ Abstract!Lower = Base + 2 * c + Columns
<1>1. PICK c \in 0 .. HalfColumns - 1 : c = IF OnLower THEN px \div 2 ELSE 0
  BY HalfColumnsFact DEF IInv, TypeOK
<1>2. PairsDone \in Nat /\ Base \in Nat /\ Base = 2 * PairsDone * Columns
  BY BaseFact DEF IInv
<1>3. Len(down_image) = PairsDone * HalfColumns + c
  BY <1>1 DEF IInv, PositionInv
<1>4. /\ Len(down_image) \div HalfColumns = PairsDone
      /\ Len(down_image) % HalfColumns = c
  BY <1>2, <1>3, HalfColumnsFact, DivisionUnique
<1>5. Abstract!Row = PairsDone /\ Abstract!Column = c
  BY <1>4 DEF Abstract!Row, Abstract!Column, Abstract!HalfColumns, HalfColumns
<1> QED
  BY <1>1, <1>2, <1>5 DEF Abstract!Upper, Abstract!Lower

\* A read is made only when no average is due.
LEMMA ReadIsTake ==
    ASSUME IInv, ReadPixel
    PROVE  Abstract!Take
<1>1. pc = "read" /\ down_image' = down_image /\ Head(image) \in Pixel
      /\ taken' = Append(taken, Head(image))
  BY DEF ReadPixel, IInv, TypeOK
<1>2. /\ px \in 0 .. Columns - 1 /\ Base \in Nat
      /\ Len(taken) = Base + (IF OnLower THEN Columns ELSE 0) + px
  <2>1. px \in 0 .. Columns - 1 /\ Base \in Nat
    BY BaseFact DEF IInv, TypeOK
  <2> QED
    BY <1>1, <2>1, ColumnsAssumption DEF IInv, PositionInv
<1>3. ~(Len(taken) >= Abstract!Lower + 2)
  <2>1. CASE OnLower
    <3>1. Abstract!Lower = Base + 2 * (px \div 2) + Columns
      BY <1>1, <2>1, DecimatorPosition
    <3> QED
      BY <1>2, <2>1, <3>1, ColumnsAssumption
  <2>2. CASE ~OnLower
    <3>1. Abstract!Lower = Base + 2 * 0 + Columns
      BY <1>1, <2>2, DecimatorPosition
    <3> QED
      BY <1>2, <2>2, <3>1, ColumnsAssumption
  <2> QED
    BY <2>1, <2>2
<1>4. ~Abstract!BlockComplete
  BY <1>3 DEF Abstract!BlockComplete
<1> QED
  BY <1>1, <1>4 DEF Abstract!Take, Abstract!Pixel, Pixel

\* An iteration that writes gives the average that is due; one that does not
\* write changes nothing the decimator has.
LEMMA EmitIsGive ==
    ASSUME IInv, Emit
    PROVE  Abstract!Give \/ UNCHANGED <<taken, down_image>>
<1>1. /\ pc = "emit" /\ taken' = taken
      /\ px \in 0 .. Columns - 1 /\ PairsDone \in Nat /\ Base \in Nat
      /\ Base = (2 * PairsDone) * Columns
  BY BaseFact DEF Emit, IInv, TypeOK
<1>2. CASE OnLower /\ px % 2 = 1
  <2>1. down_image' = Append(down_image, BlockAverage(PairsDone, px \div 2))
    BY <1>1, <1>2, WindowIsBlock DEF Emit, OnLower
  <2>2. PICK c \in Nat : c = px \div 2 /\ 2 * c + 1 = px
    BY <1>1, <1>2
  <2>3. /\ Abstract!Upper = Base + 2 * c
        /\ Abstract!Lower = Base + 2 * c + Columns
    BY <1>1, <1>2, <2>2, DecimatorPosition
  <2>4. Len(taken) = Base + Columns + px + 1
    BY <1>1, <1>2, ColumnsAssumption DEF IInv, PositionInv
  <2>5. Abstract!BlockComplete
    BY <1>1, <2>2, <2>3, <2>4, ColumnsAssumption DEF Abstract!BlockComplete
  <2>6. (2 * PairsDone + 1) * Columns = Base + Columns
    BY <1>1, ProductSuccessor, ColumnsAssumption
  <2>7. /\ PixelAt(2 * PairsDone, 2 * c) = taken[Abstract!Upper + 1]
        /\ PixelAt(2 * PairsDone, 2 * c + 1) = taken[Abstract!Upper + 2]
    <3>1. Base + (2 * c + 1) + 1 = Base + 2 * c + 2
      BY <1>1
    <3> QED
      BY <1>1, <2>3, <3>1 DEF PixelAt
  <2>8. /\ PixelAt(2 * PairsDone + 1, 2 * c) = taken[Abstract!Lower + 1]
        /\ PixelAt(2 * PairsDone + 1, 2 * c + 1) = taken[Abstract!Lower + 2]
    <3>1. /\ Base + Columns + 2 * c + 1 = Base + 2 * c + Columns + 1
          /\ Base + Columns + (2 * c + 1) + 1 = Base + 2 * c + Columns + 2
      BY <1>1, ColumnsAssumption
    <3> QED
      BY <2>3, <2>6, <3>1 DEF PixelAt
  <2>9. BlockAverage(PairsDone, c) =
            (taken[Abstract!Upper + 1] + taken[Abstract!Upper + 2] +
             taken[Abstract!Lower + 1] + taken[Abstract!Lower + 2]) \div 4
    BY <2>7, <2>8 DEF BlockAverage
  <2>10. down_image' = Append(down_image,
             (taken[Abstract!Upper + 1] + taken[Abstract!Upper + 2] +
              taken[Abstract!Lower + 1] + taken[Abstract!Lower + 2]) \div 4)
    BY <2>1, <2>2, <2>9
  <2> QED
    BY <1>1, <2>5, <2>10 DEF Abstract!Give
<1>3. CASE ~(OnLower /\ px % 2 = 1)
  BY <1>1, <1>3 DEF Emit, OnLower
<1> QED
  BY <1>2, <1>3

\* The block, with its one line of memory, implements the decimator that
\* remembers everything: same averages, same order, none early, none late.
THEOREM Refinement == Spec => ImplementsDecimator
<1>1. Init => Abstract!Init
  BY DEF Init, Abstract!Init
<1>2. IInv /\ [Next]_vars => [Abstract!Next]_<<taken, down_image>>
  <2> SUFFICES ASSUME IInv, [Next]_vars
               PROVE  [Abstract!Next]_<<taken, down_image>>
    OBVIOUS
  <2>1. ASSUME NEW s \in Supplies, WritePixels(s)
        PROVE  UNCHANGED <<taken, down_image>>
    BY <2>1 DEF WritePixels, history
  <2>2. CASE Call
    BY <2>2 DEF Call, channels, history
  <2>3. CASE ReadPixel
    BY <2>3, ReadIsTake DEF Abstract!Next
  <2>4. CASE ReadFails
    BY <2>4 DEF ReadFails, channels, history
  <2>5. CASE Emit
    BY <2>5, EmitIsGive DEF Abstract!Next
  <2>6. CASE UNCHANGED vars
    BY <2>6 DEF vars, channels, history
  <2> QED
    BY <2>1, <2>2, <2>3, <2>4, <2>5, <2>6 DEF Next
<1> QED
  BY <1>1, <1>2, Invariance, PTL DEF Spec, ImplementsDecimator, Abstract!Spec

-----------------------------------------------------------------------------
(***************************************************************************)
(* The block over fifos                                                    *)
(***************************************************************************)

\* A value that the second of two sequences is given is at the end of both.
LEMMA GrowAtEnd ==
    ASSUME NEW S, NEW s \in Seq(S), NEW t \in Seq(S), NEW v \in S
    PROVE  s \o Append(t, v) = Append(s \o t, v)
<1>1. <<v>> \in Seq(S)
  OBVIOUS
<1>2. s \o t \in Seq(S)
  BY ConcatProperties
<1>3. Append(t, v) = t \o <<v>> /\ Append(s \o t, v) = (s \o t) \o <<v>>
  BY <1>1, <1>2, AppendIsConcat
<1> QED
  BY <1>1, <1>3, ConcatAssociative

\* A value that goes from the second of two sequences to the first stays in place.
LEMMA MoveAcross ==
    ASSUME NEW S, NEW s \in Seq(S), NEW t \in Seq(S), t # <<>>
    PROVE  Append(s, Head(t)) \o Tail(t) = s \o t
<1> DEFINE v == Head(t)
<1>1. v \in S /\ Tail(t) \in Seq(S) /\ <<v>> \in Seq(S)
  OBVIOUS
<1>2. Append(s, v) = s \o <<v>>
  BY <1>1, AppendIsConcat
<1>3. <<v>> \o Tail(t) = t
  <2> DEFINE u == <<v>> \o Tail(t)
  <2>1. u \in Seq(S) /\ Len(u) = Len(t)
    BY <1>1, ConcatProperties
  <2>2. \A i \in 1 .. Len(t) : u[i] = t[i]
    BY <1>1, ConcatProperties
  <2> HIDE DEF u
  <2>3. u = t
    BY <2>1, <2>2, SeqEqual
  <2> QED
    BY <2>3 DEF u
<1>4. (s \o <<v>>) \o Tail(t) = s \o (<<v>> \o Tail(t))
  BY <1>1, ConcatAssociative
<1> QED
  BY <1>2, <1>3, <1>4

\* The last of three sequences joins the one before it.
LEMMA JoinLast ==
    \A s, t, u \in Seq(Pixel) : (s \o (t \o u)) \o <<>> = (s \o t) \o u
<1> SUFFICES ASSUME NEW s \in Seq(Pixel), NEW t \in Seq(Pixel), NEW u \in Seq(Pixel)
             PROVE  (s \o (t \o u)) \o <<>> = (s \o t) \o u
  OBVIOUS
<1>1. t \o u \in Seq(Pixel)
  BY ConcatProperties
<1>2. s \o (t \o u) \in Seq(Pixel)
  BY <1>1, ConcatProperties
<1>3. (s \o (t \o u)) \o <<>> = s \o (t \o u)
  BY <1>2, ConcatEmptySeq
<1> QED
  BY <1>3, ConcatAssociative, SMTT(30)

\* A beginning of a sequence is one longer with the element that follows it.
LEMMA BeginningGrows ==
    ASSUME NEW S, NEW s \in Seq(S), NEW n \in Nat, n < Len(s)
    PROVE  SubSeq(s, 1, n + 1) = Append(SubSeq(s, 1, n), s[n + 1])
<1> DEFINE m == n + 1
<1>1. 1 \in 1 .. Len(s) /\ m \in 1 .. Len(s) /\ m - 1 = n /\ s[m] \in S
  OBVIOUS
<1> HIDE DEF m
<1>2. SubSeq(s, 1, m) = SubSeq(s, 1, m - 1) \o <<s[m]>>
  BY <1>1, SubSeqRecursiveSecond
<1>3. SubSeq(s, 1, m - 1) \in Seq(S)
  BY <1>1, SubSeqProperties
<1>4. Append(SubSeq(s, 1, m - 1), s[m]) = SubSeq(s, 1, m - 1) \o <<s[m]>>
  BY <1>1, <1>3, AppendIsConcat
<1>5. SubSeq(s, 1, m) = Append(SubSeq(s, 1, n), s[m])
  BY <1>1, <1>2, <1>4
<1> QED
  BY <1>5 DEF m

LEMMA SizesFact == InSize \in Nat \ {0} /\ OutSize \in Nat \ {0}
  BY SizesAssumption

\* A sequence that is fed to the input during a call changes nothing the loop
\* relies on, unless the call has failed for the lack of it.
LEMMA ImageGrows ==
    ASSUME IInv, NEW s \in Seq(Pixel), image' = image \o s, pc # "failed",
           UNCHANGED <<blockState, taken>>
    PROVE  IInv'
<1> USE DEF IInv
<1>1. image' \in Seq(Pixel) /\ (image # <<>> => image' # <<>>)
  <2>1. image \in Seq(Pixel)
    BY DEF TypeOK
  <2> QED
    BY <2>1, ConcatProperties, ConcatEqualIffEmpty
<1>2. /\ UNCHANGED <<line0, wr_buffer, rd_buffer, rd_data, shreg_y0, shreg_y1>>
      /\ UNCHANGED <<down_image, ln, px, pc, taken, frames>>
  BY DEF blockState, lnVars, shregVars, counters
<1>3. TypeOK'
  BY <1>1, <1>2 DEF TypeOK, LnTypeOK, ShregTypeOK
<1>4. PositionInv' /\ LineInv' /\ PackInv' /\ FetchInv' /\ WindowInv'
  BY <1>2 DEF PositionInv, LineInv, PackInv, FetchInv, WindowInv, OnLower,
     FirstDone, PairStart, UpperAt, LowerAt, Base, PairsDone
<1>5. SupplyInv'
  BY <1>1, <1>2 DEF SupplyInv
<1>6. DownSampled'
  BY <1>2 DEF DownSampled, BlockAverage, PixelAt
<1> QED
  BY <1>3, <1>4, <1>5, <1>6

\* The averages that the block writes are pixels, and one is added when it is due.
LEMMA EmitWrites ==
    ASSUME IInv, Emit
    PROVE  /\ image' = image /\ taken' = taken /\ pc = "emit" /\ pc' # "failed"
           /\ WindowAverage \in Pixel
           /\ down_image' = IF Due THEN Append(down_image, WindowAverage)
                                   ELSE down_image
<1>1. WindowAverage \in Pixel
  BY WindowAveragePixel DEF IInv, TypeOK
<1> QED
  BY <1>1 DEF Emit, Advance, Due

\* Steps of the block on its own leave the fifos alone.
LEMMA FreeStep ==
    ASSUME OverInv, Supply \/ BlockFree
    PROVE  OverInv'
<1> USE DEF OverInv
<1>1. ~bound /\ UNCHANGED fifoVars /\ Next
  BY DEF Supply, BlockFree, Next
<1>2. IInv'
  BY <1>1, ReadStep, EmitStep, OtherSteps DEF Next
<1>3. UNCHANGED <<bound, stream, in_fresh, in_taken, out_visible, out_fresh,
                  out_taken, shown>>
  BY <1>1 DEF fifoVars, setting, inFifo, outFifo
<1> QED
  BY <1>1, <1>2, <1>3 DEF OverTypeOK, WithinSizes, OneSetting, NothingLost

\* A call begins, and nothing moves.
LEMMA CallStep ==
    ASSUME OverInv, CallOver \/ UNCHANGED allVars
    PROVE  OverInv'
<1> USE DEF OverInv
<1>1. IInv'
  BY OtherSteps DEF CallOver, allVars
<1>2. /\ UNCHANGED <<bound, stream, in_fresh, in_taken, out_visible, out_fresh,
                     out_taken, shown, image, down_image, taken>>
      /\ pc' = pc \/ pc' = "read"
  BY DEF CallOver, Call, allVars, vars, fifoVars, setting, inFifo, outFifo,
     channels, history
<1> QED
  BY <1>1, <1>2 DEF OverTypeOK, WithinSizes, OneSetting, NothingLost, Fed

\* What the block takes leaves the fifo and stays between source and sink.
LEMMA ReadOverStep ==
    ASSUME OverInv, ReadOver
    PROVE  OverInv'
<1> USE DEF OverInv
<1>1. bound /\ ReadPixel /\ IInv'
  BY ReadStep DEF ReadOver
<1>2. /\ image # <<>> /\ image \in Seq(Pixel) /\ taken \in Seq(Pixel)
      /\ in_fresh \in Seq(Pixel) /\ in_taken \in Nat
      /\ image' = Tail(image) /\ taken' = Append(taken, Head(image))
      /\ down_image' = down_image /\ pc' = "emit"
  BY <1>1 DEF ReadPixel, IInv, TypeOK, OverTypeOK
<1>3. /\ in_fresh' = in_fresh /\ in_taken' = in_taken + 1
      /\ UNCHANGED <<bound, stream, out_visible, out_fresh, out_taken, shown>>
  BY DEF ReadOver, In!Get, setting, outFifo
<1>4. /\ Len(image') = Len(image) - 1 /\ Len(taken') = Len(taken) + 1
      /\ Len(image) \in Nat /\ Len(taken) \in Nat /\ Len(in_fresh) \in Nat
  BY <1>2
<1>5. Fed' = Fed
  BY <1>2, <1>3, <1>4 DEF Fed
<1>6. OverTypeOK' /\ OneSetting'
  BY <1>1, <1>2, <1>3 DEF OverTypeOK, OneSetting
<1>7. WithinSizes'
  BY <1>1, <1>2, <1>3, <1>4, <1>5, SizesFact DEF WithinSizes
<1>8. taken' \o image' = taken \o image
  BY <1>2, MoveAcross
<1>9. NothingLost'
  BY <1>1, <1>2, <1>3, <1>5, <1>8 DEF NothingLost
<1> QED
  BY <1>1, <1>6, <1>7, <1>9

\* An average that is written is the newest of the output fifo.
LEMMA EmitOverStep ==
    ASSUME OverInv, EmitOver
    PROVE  OverInv'
<1> USE DEF OverInv
<1>1. bound /\ Emit /\ IInv'
  BY EmitStep DEF EmitOver
<1>2. /\ image' = image /\ taken' = taken /\ pc' # "failed"
      /\ WindowAverage \in Pixel
      /\ down_image' = IF Due THEN Append(down_image, WindowAverage)
                              ELSE down_image
  BY <1>1, EmitWrites
<1>3. UNCHANGED <<bound, stream, in_fresh, in_taken, shown>>
  BY DEF EmitOver, setting, inFifo
<1>4. Fed' = Fed
  BY <1>2, <1>3 DEF Fed
<1>5. /\ out_visible' = out_visible /\ out_taken' = out_taken
      /\ out_fresh' = IF Due THEN Append(out_fresh, WindowAverage) ELSE out_fresh
      /\ Due => Len(out_visible) + out_taken + Len(out_fresh) < OutSize
  BY DEF EmitOver, Out!Put, outFifo
<1>6. /\ out_fresh \in Seq(Pixel) /\ out_visible \in Seq(Pixel)
      /\ shown \in Seq(Pixel) /\ out_taken \in Nat
  BY DEF OverTypeOK
<1>7. out_fresh' \in Seq(Pixel) /\ (Due => Len(out_fresh') = Len(out_fresh) + 1)
  BY <1>2, <1>5, <1>6
<1>8. OverTypeOK' /\ OneSetting'
  BY <1>1, <1>2, <1>3, <1>5, <1>7 DEF OverTypeOK, OneSetting
<1>9. WithinSizes'
  <2>1. Len(out_visible) \in Nat /\ Len(out_fresh) \in Nat
    BY <1>6
  <2>2. Len(out_visible') + out_taken' + Len(out_fresh') <= OutSize
    <3>1. CASE Due
      BY <1>5, <1>6, <1>7, <2>1, <3>1, SizesFact
    <3>2. CASE ~Due
      BY <1>1, <1>5, <3>2 DEF WithinSizes
    <3> QED
      BY <3>1, <3>2
  <2> QED
    BY <1>1, <1>2, <1>3, <1>4, <2>2 DEF WithinSizes
<1>10. NothingLost'
  <2> DEFINE front == shown \o out_visible
  <2>1. front \in Seq(Pixel)
    BY <1>6, ConcatProperties
  <2>2. front \o Append(out_fresh, WindowAverage)
            = Append(front \o out_fresh, WindowAverage)
    BY <1>2, <1>6, <2>1, GrowAtEnd
  <2> QED
    BY <1>1, <1>2, <1>3, <1>4, <1>5, <2>2 DEF NothingLost
<1> QED
  BY <1>1, <1>8, <1>9, <1>10

\* What is fed is the next of the stream and the newest of the input fifo.
LEMMA FeedStep ==
    ASSUME OverInv, Feed
    PROVE  OverInv'
<1>1. /\ Fed < Len(stream) /\ in_fresh' = Append(in_fresh, stream[Fed + 1])
      /\ Len(image) + in_taken + Len(in_fresh) < InSize
      /\ UNCHANGED <<blockState, taken, image, bound, stream, in_taken>>
      /\ UNCHANGED <<out_visible, out_fresh, out_taken, shown>>
  BY DEF Feed, In!Put, setting, outFifo
<1>2. /\ pc' = pc /\ down_image' = down_image /\ UNCHANGED channels
  BY <1>1 DEF blockState, channels
<1>3. /\ image \in Seq(Pixel) /\ taken \in Seq(Pixel) /\ in_fresh \in Seq(Pixel)
      /\ stream \in Seq(Pixel) /\ in_taken \in Nat
  BY DEF OverInv, IInv, TypeOK, OverTypeOK
<1>4. /\ Len(image) \in Nat /\ Len(taken) \in Nat /\ Len(in_fresh) \in Nat
      /\ Fed \in Nat /\ Len(stream) \in Nat
  BY <1>3 DEF Fed
<1>5. bound
  <2> SUFFICES ASSUME ~bound PROVE FALSE
    OBVIOUS
  <2>1. Len(stream) = 0
    BY DEF OverInv, OneSetting
  <2> QED
    BY <1>1, <1>4, <2>1
<1>6. stream[Fed + 1] \in Pixel
  BY <1>1, <1>3, <1>4
<1>7. in_fresh' \in Seq(Pixel) /\ Len(in_fresh') = Len(in_fresh) + 1
  BY <1>1, <1>3, <1>6
<1>8. Fed' = Fed + 1
  BY <1>1, <1>4, <1>7 DEF Fed
<1>9. IInv'
  <2>1. UNCHANGED vars
    BY <1>1, <1>2 DEF vars, blockState, history
  <2> QED
    BY <2>1, OtherSteps DEF OverInv
<1>10. OverTypeOK' /\ OneSetting'
  BY <1>1, <1>2, <1>5, <1>7 DEF OverInv, OverTypeOK, OneSetting
<1>11. WithinSizes'
  <2>1. Len(image') + in_taken' + Len(in_fresh') <= InSize
    BY <1>1, <1>3, <1>4, <1>7, SizesFact
  <2>2. Fed' <= Len(stream')
    BY <1>1, <1>4, <1>8
  <2> QED
    BY <1>1, <1>5, <2>1, <2>2 DEF OverInv, WithinSizes
<1>12. NothingLost'
  <2> DEFINE front == taken \o image
  <2>1. front \in Seq(Pixel)
    BY <1>3, ConcatProperties
  <2>2. front \o in_fresh' = Append(front \o in_fresh, stream[Fed + 1])
    BY <1>1, <1>3, <1>6, <2>1, GrowAtEnd, SMTT(30)
  <2>3. SubSeq(stream, 1, Fed + 1) = Append(SubSeq(stream, 1, Fed), stream[Fed + 1])
    BY <1>1, <1>3, <1>4, BeginningGrows
  <2> QED
    BY <1>1, <1>2, <1>5, <1>8, <2>2, <2>3 DEF OverInv, NothingLost, blockState
<1> QED
  BY <1>9, <1>10, <1>11, <1>12 DEF OverInv

\* What the sink takes leaves the output fifo and stays behind the block.
LEMMA DrainStep ==
    ASSUME OverInv, Drain
    PROVE  OverInv'
<1>1. /\ out_visible # <<>> /\ shown' = Append(shown, Head(out_visible))
      /\ out_visible' = Tail(out_visible) /\ out_taken' = out_taken + 1
      /\ out_fresh' = out_fresh
      /\ UNCHANGED <<vars, bound, stream, in_fresh, in_taken>>
  BY DEF Drain, Out!Get, setting, inFifo
<1>2. UNCHANGED <<taken, image, down_image, pc>> /\ Fed' = Fed
  BY <1>1 DEF vars, channels, history, Fed
<1>3. /\ shown \in Seq(Pixel) /\ out_visible \in Seq(Pixel)
      /\ out_fresh \in Seq(Pixel) /\ out_taken \in Nat
  BY DEF OverInv, OverTypeOK
<1>4. bound
  BY <1>1 DEF OverInv, OneSetting
<1>5. IInv'
  BY <1>1, OtherSteps DEF OverInv
<1>6. /\ shown' \in Seq(Pixel) /\ out_visible' \in Seq(Pixel)
      /\ Len(out_visible') = Len(out_visible) - 1
      /\ Len(out_visible) \in Nat /\ Len(out_fresh) \in Nat
  BY <1>1, <1>3
<1>7. OverTypeOK' /\ OneSetting'
  BY <1>1, <1>2, <1>3, <1>4, <1>6 DEF OverInv, OverTypeOK, OneSetting
<1>8. WithinSizes'
  <2>1. Len(out_visible') + out_taken' + Len(out_fresh')
            = Len(out_visible) + out_taken + Len(out_fresh)
    BY <1>1, <1>3, <1>6
  <2> QED
    BY <1>1, <1>2, <1>4, <2>1 DEF OverInv, WithinSizes
<1>9. shown' \o out_visible' = shown \o out_visible
  BY <1>1, <1>3, MoveAcross
<1>10. NothingLost'
  BY <1>1, <1>2, <1>4, <1>9 DEF OverInv, NothingLost
<1> QED
  BY <1>5, <1>7, <1>8, <1>10 DEF OverInv

\* At the end of a cycle what is new becomes visible, at the end of the queue.
LEMMA CycleStep ==
    ASSUME OverInv, EndCycle
    PROVE  OverInv'
<1>1. /\ bound /\ image' = image \o in_fresh /\ in_fresh' = <<>> /\ in_taken' = 0
      /\ out_visible' = out_visible \o out_fresh /\ out_fresh' = <<>>
      /\ out_taken' = 0
      /\ UNCHANGED <<blockState, taken, bound, stream, shown>>
  BY DEF EndCycle, In!EndCycle, Out!EndCycle, setting
<1>2. pc' = pc /\ down_image' = down_image
  BY <1>1 DEF blockState
<1>3. /\ image \in Seq(Pixel) /\ taken \in Seq(Pixel) /\ in_fresh \in Seq(Pixel)
      /\ shown \in Seq(Pixel) /\ out_visible \in Seq(Pixel)
      /\ out_fresh \in Seq(Pixel) /\ in_taken \in Nat /\ out_taken \in Nat
  BY DEF OverInv, IInv, TypeOK, OverTypeOK
<1>4. /\ image' \in Seq(Pixel) /\ Len(image') = Len(image) + Len(in_fresh)
      /\ out_visible' \in Seq(Pixel)
      /\ Len(out_visible') = Len(out_visible) + Len(out_fresh)
      /\ <<>> \in Seq(Pixel)
  BY <1>1, <1>3, ConcatProperties
<1>5. /\ Len(image) \in Nat /\ Len(in_fresh) \in Nat /\ Len(taken) \in Nat
      /\ Len(out_visible) \in Nat /\ Len(out_fresh) \in Nat
      /\ Len(in_fresh') = 0 /\ Len(out_fresh') = 0
  BY <1>1, <1>3
<1>6. Fed' = Fed
  BY <1>1, <1>4, <1>5 DEF Fed
<1>7. IInv'
  <2>1. pc # "failed"
    BY <1>1 DEF OverInv, OneSetting
  <2> QED
    BY <1>1, <1>3, <2>1, ImageGrows DEF OverInv
<1>8. OverTypeOK' /\ OneSetting'
  BY <1>1, <1>2, <1>4 DEF OverInv, OverTypeOK, OneSetting
<1>9. WithinSizes'
  BY <1>1, <1>3, <1>4, <1>5, <1>6, SizesFact DEF OverInv, WithinSizes
<1>10. NothingLost'
  <2>1. taken \o (image \o in_fresh) \o <<>> = taken \o image \o in_fresh
    <3>1. taken \in Seq(Pixel) /\ image \in Seq(Pixel) /\ in_fresh \in Seq(Pixel)
      BY <1>3
    <3> QED
      BY <3>1, JoinLast, SMTT(30)
  <2>2. shown \o (out_visible \o out_fresh) \o <<>>
            = shown \o out_visible \o out_fresh
    <3>1. /\ shown \in Seq(Pixel) /\ out_visible \in Seq(Pixel)
          /\ out_fresh \in Seq(Pixel)
      BY <1>3
    <3> QED
      BY <3>1, JoinLast, SMTT(30)
  <2> QED
    BY <1>1, <1>2, <1>6, <2>1, <2>2 DEF OverInv, NothingLost
<1> QED
  BY <1>7, <1>8, <1>9, <1>10 DEF OverInv

\* Before the first cycle nothing was fed and nothing written.
LEMMA InitOverInv == InitOver => OverInv
<1> SUFFICES ASSUME InitOver PROVE OverInv
  OBVIOUS
<1> USE DEF InitOver, In!Init, Out!Init
<1>1. IInv /\ pc = "idle" /\ taken = <<>> /\ image = <<>> /\ down_image = <<>>
  BY InitInv DEF Init
<1>2. stream \in Seq(Pixel) /\ <<>> \in Seq(Pixel)
  <2>1. <<>> \in Seq(Pixel)
    OBVIOUS
  <2> QED
    BY <2>1, StreamsAssumption
<1>3. Fed = 0
  BY <1>1 DEF Fed
<1>4. OverTypeOK
  BY <1>2 DEF OverTypeOK
<1>5. WithinSizes
  BY <1>1, <1>2, <1>3, SizesFact DEF WithinSizes
<1>6. OneSetting
  BY <1>1 DEF OneSetting
<1>7. NothingLost
  <2>1. SubSeq(stream, 1, 0) = <<>>
    BY SubSeqEmpty
  <2>2. <<>> \o <<>> \o <<>> = <<>>
    BY ConcatEmptySeq, <1>2
  <2> QED
    BY <1>1, <1>3, <2>1, <2>2 DEF NothingLost
<1> QED
  BY <1>1, <1>4, <1>5, <1>6, <1>7 DEF OverInv

\* While source and sink work during a call, the loop's invariant stays as it is,
\* and no fifo holds more than its size.
THEOREM OverInvariance == SpecOver => []OverInv
<1>1. OverInv /\ [NextOver]_allVars => OverInv'
  BY FreeStep, CallStep, ReadOverStep, EmitOverStep, FeedStep, DrainStep, CycleStep
     DEF NextOver, BlockStep
<1> QED
  BY <1>1, InitOverInv, PTL DEF SpecOver

\* No pixel is lost, invented or overtaken between source, block and sink, however
\* small the fifos are and in whatever order the processes run.
THEOREM NoPixelLost == SpecOver => []NothingLost
<1>1. OverInv => NothingLost
  BY DEF OverInv
<1> QED
  BY <1>1, OverInvariance, PTL

\* What is proved of the block on its own holds over fifos as well.
THEOREM OverPromises ==
    SpecOver => [](DownSampled /\ FramesAligned /\ FailsOnlyOnShortFrame)
<1>1. OverInv => DownSampled /\ FramesAligned /\ FailsOnlyOnShortFrame
  BY AlignedFact, ShortFrameFact DEF OverInv, IInv
<1> QED
  BY <1>1, OverInvariance, PTL

\* Over fifos too the block is the decimator: what goes on during a call does not
\* show in the averages or in when they are due.
THEOREM OverRefinement == SpecOver => ImplementsDecimator
<1>1. InitOver => Abstract!Init
  BY DEF InitOver, Init, Abstract!Init
<1>2. OverInv /\ [NextOver]_allVars => [Abstract!Next]_<<taken, down_image>>
  <2> SUFFICES ASSUME OverInv, [NextOver]_allVars
               PROVE  [Abstract!Next]_<<taken, down_image>>
    OBVIOUS
  <2>1. CASE ReadPixel
    BY <2>1, ReadIsTake DEF Abstract!Next, OverInv
  <2>2. CASE Emit
    BY <2>2, EmitIsGive DEF Abstract!Next, OverInv
  <2>3. CASE Supply \/ Call \/ ReadFails
    BY <2>3 DEF Supply, WritePixels, Call, ReadFails, channels, history
  <2>4. CASE Feed \/ EndCycle
    BY <2>4 DEF Feed, EndCycle, blockState
  <2>5. CASE Drain \/ UNCHANGED allVars
    BY <2>5 DEF Drain, allVars, vars, channels, history
  <2> QED
    BY <2>1, <2>2, <2>3, <2>4, <2>5
       DEF NextOver, BlockStep, BlockFree, CallOver, ReadOver, EmitOver
<1> QED
  BY <1>1, <1>2, OverInvariance, PTL DEF SpecOver, ImplementsDecimator, Abstract!Spec

-----------------------------------------------------------------------------
\* The pixel of column c of line g of the stream, counting through all frames.
StreamAt(g, c) == stream[g * Columns + c + 1]

\* The average of the 2x2 block in column c of block row r of the stream.
StreamAverage(r, c) ==
    (StreamAt(2 * r, 2 * c) + StreamAt(2 * r, 2 * c + 1) +
     StreamAt(2 * r + 1, 2 * c) + StreamAt(2 * r + 1, 2 * c + 1)) \div 4

\* What the sink got, from the source's point of view.
SinkGetsAverages ==
    bound =>
        \A k \in 1 .. Len(shown) :
            shown[k] = StreamAverage((k - 1) \div HalfColumns, (k - 1) % HalfColumns)

\* What was taken is a beginning of the stream, what was shown one of the averages.
LEMMA EndsFact ==
    ASSUME OverInv, bound
    PROVE  /\ Len(taken) <= Len(stream)
           /\ \A k \in 1 .. Len(taken) : taken[k] = stream[k]
           /\ Len(shown) <= Len(down_image)
           /\ \A k \in 1 .. Len(shown) : shown[k] = down_image[k]
<1>1. /\ image \in Seq(Pixel) /\ taken \in Seq(Pixel) /\ in_fresh \in Seq(Pixel)
      /\ shown \in Seq(Pixel) /\ out_visible \in Seq(Pixel)
      /\ out_fresh \in Seq(Pixel) /\ stream \in Seq(Pixel)
  BY DEF OverInv, IInv, TypeOK, OverTypeOK
<1>2. Len(taken) <= Fed /\ Fed <= Len(stream) /\ Fed \in Nat /\ Len(stream) \in Nat
  BY <1>1 DEF OverInv, WithinSizes, Fed
<1>3. \A k \in 1 .. Len(taken) : (taken \o image \o in_fresh)[k] = taken[k]
  <2>1. taken \o image \in Seq(Pixel) /\ Len(taken \o image) = Len(taken) + Len(image)
    BY <1>1, ConcatProperties
  <2>2. \A k \in 1 .. Len(taken) : (taken \o image)[k] = taken[k]
    BY <1>1, ConcatProperties
  <2>3. \A k \in 1 .. Len(taken \o image) :
            ((taken \o image) \o in_fresh)[k] = (taken \o image)[k]
    BY <1>1, <2>1, ConcatProperties
  <2> QED
    BY <1>1, <2>1, <2>2, <2>3
<1>4. \A k \in 1 .. Fed : SubSeq(stream, 1, Fed)[k] = stream[k]
  BY <1>1, <1>2
<1>5. \A k \in 1 .. Len(taken) : taken[k] = stream[k]
  BY <1>1, <1>2, <1>3, <1>4 DEF OverInv, NothingLost
<1>6. /\ Len(shown) <= Len(shown \o out_visible \o out_fresh)
      /\ \A k \in 1 .. Len(shown) : (shown \o out_visible \o out_fresh)[k] = shown[k]
  <2>1. /\ shown \o out_visible \in Seq(Pixel)
        /\ Len(shown \o out_visible) = Len(shown) + Len(out_visible)
    BY <1>1, ConcatProperties
  <2>2. \A k \in 1 .. Len(shown) : (shown \o out_visible)[k] = shown[k]
    BY <1>1, ConcatProperties
  <2>3. /\ Len((shown \o out_visible) \o out_fresh)
                = Len(shown \o out_visible) + Len(out_fresh)
        /\ \A k \in 1 .. Len(shown \o out_visible) :
               ((shown \o out_visible) \o out_fresh)[k] = (shown \o out_visible)[k]
    BY <1>1, <2>1, ConcatProperties
  <2> QED
    BY <1>1, <2>1, <2>2, <2>3
<1>7. shown \o out_visible \o out_fresh = down_image
  BY DEF OverInv, NothingLost
<1>8. Len(taken) <= Len(stream)
  BY <1>1, <1>2
<1> QED
  BY <1>5, <1>6, <1>7, <1>8

\* The k-th value that the sink gets is the average of the k-th 2x2 block of what
\* the source feeds, however the two and the block overlap.
THEOREM EndToEnd == SpecOver => []SinkGetsAverages
<1>1. OverInv => SinkGetsAverages
  <2> SUFFICES ASSUME OverInv, bound, NEW k \in 1 .. Len(shown)
               PROVE  shown[k] = StreamAverage((k - 1) \div HalfColumns,
                                               (k - 1) % HalfColumns)
    BY DEF SinkGetsAverages
  <2>1. k \in 1 .. Len(down_image) /\ shown[k] = down_image[k]
    <3>1. shown \in Seq(Pixel) /\ down_image \in Seq(Pixel)
      BY DEF OverInv, IInv, TypeOK, OverTypeOK
    <3> QED
      BY <3>1, EndsFact
  <2>2. PICK r \in Nat, c \in Nat :
            /\ r = (k - 1) \div HalfColumns /\ c = (k - 1) % HalfColumns
            /\ 2 * r * Columns \in Nat
            /\ (2 * r + 1) * Columns = 2 * r * Columns + Columns
            /\ 2 * r * Columns + Columns + 2 * c + 2 <= Len(taken)
    BY <2>1, BlockTaken DEF OverInv, IInv
  <2>3. shown[k] = BlockAverage(r, c)
    BY <2>1, <2>2 DEF OverInv, IInv, DownSampled
  <2>4. Len(taken) \in Nat /\ \A i \in 1 .. Len(taken) : taken[i] = stream[i]
    BY EndsFact DEF OverInv, IInv, TypeOK
  <2>5. PICK u \in Nat : u = 2 * r * Columns
    BY <2>2
  <2>6. ASSUME NEW d \in {2 * c, 2 * c + 1}
        PROVE  /\ PixelAt(2 * r, d) = StreamAt(2 * r, d)
               /\ PixelAt(2 * r + 1, d) = StreamAt(2 * r + 1, d)
    <3>1. u + d + 1 \in 1 .. Len(taken) /\ u + Columns + d + 1 \in 1 .. Len(taken)
      <4>1. u + Columns + 2 * c + 2 <= Len(taken)
        BY <2>2, <2>5
      <4>2. d \in Nat /\ d <= 2 * c + 1 /\ Columns \in Nat
        BY ColumnsAssumption
      <4> QED
        BY <2>4, <4>1, <4>2
    <3> QED
      BY <2>2, <2>4, <2>5, <3>1 DEF PixelAt, StreamAt
  <2> QED
    BY <2>2, <2>3, <2>6 DEF BlockAverage, StreamAverage
<1> QED
  BY <1>1, OverInvariance, PTL
=============================================================================
