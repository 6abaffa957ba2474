--------------------------- MODULE StallCtrl_proofs ---------------------------
(***************************************************************************)
(* Theorems about StallCtrl, for every number of pairs, every sharing of   *)
(* blocks, a reset at any edge or none, and any choice of the pairs that   *)
(* are ready: no stall is left high, each lasts as long as the others, and *)
(* every pair is stalled as often as every other.                          *)
(***************************************************************************)
EXTENDS StallCtrl, FiniteSetTheorems, TLAPS

LEMMA Constants ==
    /\ LDVDpairs \in Nat /\ LDVDpairs > 0
    /\ CountLevels \in Nat /\ CountLevels > 10
    /\ ShortWidth \in Nat
  BY StallCtrlAssumption DEF StallCtrlAssumption

\* The block of a pair stays the one that was bound.
LEMMA BlocksStay ==
    ASSUME names' = names
    PROVE  map_ldvd2stall' = map_ldvd2stall
  BY DEF map_ldvd2stall

\* A counter that is decremented stays one, and goes down unless it was zero.
LEMMA DecrementedIsCount ==
    ASSUME NEW n \in 0 .. CountLevels - 1
    PROVE  /\ Decremented(n) \in 0 .. CountLevels - 1
           /\ n > 0 => Decremented(n) = n - 1
<1>1. Decremented(n) \in 0 .. CountLevels - 1
  BY Constants DEF Decremented
<1>2. ASSUME n > 0 PROVE Decremented(n) = n - 1
  <2>1. n - 1 \in Nat /\ n - 1 < CountLevels
    BY <1>2, Constants
  <2> QED
    BY <2>1, Constants DEF Decremented
<1> QED
  BY <1>1, <1>2

\* All bits are counted only if all pairs have one.
LEMMA CountIsFull ==
    ASSUME stalled \subseteq Pairs
    PROVE  count \in 0 .. LDVDpairs /\ (count = LDVDpairs => stalled = Pairs)
<1> DEFINE seen == {k \in stalled : k < ShortWidth}
<1>1. IsFiniteSet(Pairs) /\ Cardinality(Pairs) = LDVDpairs
  BY Constants, FS_Interval DEF Pairs
<1>2. seen \in SUBSET Pairs
  OBVIOUS
<1>3. /\ IsFiniteSet(seen) /\ Cardinality(seen) <= LDVDpairs
      /\ Cardinality(seen) = LDVDpairs => seen = Pairs
  BY <1>1, <1>2, FS_Subset
<1>4. Cardinality(seen) \in Nat
  BY <1>3, FS_CardinalityType
<1>5. count = Cardinality(seen)
  BY DEF count
<1> QED
  BY <1>2, <1>3, <1>4, <1>5, Constants

\* A percentage is 100 only of the whole.
LEMMA Percentage ==
    ASSUME NEW c \in 0 .. LDVDpairs
    PROVE  /\ (100 * c) \div LDVDpairs \in 0 .. 100
           /\ (100 * c) \div LDVDpairs = 100 => c = LDVDpairs
<1>1. LDVDpairs \in Nat \ {0} /\ 100 * c \in Nat
  BY Constants
<1>2. PICK q \in Nat, r \in 0 .. LDVDpairs - 1 :
          q = (100 * c) \div LDVDpairs /\ 100 * c = q * LDVDpairs + r
  <2>1. PICK x \in Nat : x = 100 * c
    BY <1>1
  <2>2. /\ x \div LDVDpairs \in Nat /\ x % LDVDpairs \in 0 .. LDVDpairs - 1
        /\ x = (x \div LDVDpairs) * LDVDpairs + (x % LDVDpairs)
    BY <1>1
  <2> QED
    BY <2>1, <2>2
<1>3. q <= 100
  <2> SUFFICES ASSUME q >= 101 PROVE FALSE
    BY <1>2
  <2>1. 101 * LDVDpairs <= q * LDVDpairs
    BY <1>1, <1>2
  <2>2. PICK p \in Nat : p = q * LDVDpairs
    BY <1>1, <1>2
  <2> QED
    BY <1>1, <1>2, <2>1, <2>2
<1>4. ASSUME q = 100 PROVE c = LDVDpairs
  <2>1. 100 * c = 100 * LDVDpairs + r
    BY <1>2, <1>4
  <2> QED
    BY <1>1, <2>1
<1> QED
  BY <1>2, <1>3, <1>4

-----------------------------------------------------------------------------
(***************************************************************************)
(* The steps                                                               *)
(***************************************************************************)

\* What all rising edges share.
Edge == Coverage /\ names' = names /\ reset_done' = reset_done

LEMMA BeginKeeps ==
    ASSUME IInv, Begin, Edge
    PROVE  IInv'
<1>1. TypeOK /\ RoundsCounted /\ CoverageIsTrue /\ HeldOneMore /\ NoStallLeftHigh
  BY DEF IInv
<1>2. /\ cstate = "RESET" /\ cstate' = "INIT" /\ ldvd_pos' = 0 /\ stalled' = {} /\ stall_out' = {}
      /\ intervalcnt' = intervalcnt /\ holdcnt' = holdcnt /\ repetition' = repetition
      /\ times' = times /\ high' = high /\ reset_done' = reset_done /\ names' = names
      /\ stall_coverage' = stall_coverage /\ done' = done
  BY <1>1 DEF Begin, At, counters, Edge, Coverage, TypeOK
<1>3. TypeOK'
  BY <1>1, <1>2, Constants DEF TypeOK, Pairs, States
<1>4. RoundsCounted'
  BY <1>1, <1>2 DEF RoundsCounted, InRound, Rounds, Pairs
<1>5. NoStallLeftHigh' /\ HoldCounted' /\ CoverageIsTrue'
  BY <1>1, <1>2 DEF NoStallLeftHigh, HoldCounted, CoverageIsTrue, Pairs
<1>6. HeldOneMore'
  BY <1>1, <1>2 DEF HeldOneMore, NoStallLeftHigh
<1> QED
  BY <1>2, <1>3, <1>4, <1>5, <1>6 DEF IInv

LEMMA ArmKeeps ==
    ASSUME IInv, Arm, Edge
    PROVE  IInv'
<1>1. TypeOK /\ RoundsCounted /\ CoverageIsTrue /\ HeldOneMore /\ NoStallLeftHigh
  BY DEF IInv
<1>2. /\ cstate = "INIT" /\ cstate' = "WAIT" /\ stall_out' = stall_out /\ stalled' = stalled
      /\ ldvd_pos' = ldvd_pos /\ intervalcnt' = 1 /\ holdcnt' = 3 /\ repetition' = repetition
      /\ times' = times /\ high' = high /\ reset_done' = reset_done /\ names' = names
      /\ stall_coverage' = stall_coverage /\ done' = done
  BY <1>1 DEF Arm, At, Edge, Coverage, TypeOK, interval, hold
<1>3. TypeOK'
  BY <1>1, <1>2, Constants, BlocksStay DEF TypeOK, Pairs, States
<1>4. RoundsCounted'
  BY <1>1, <1>2 DEF RoundsCounted, InRound, Rounds, Pairs
<1>5. NoStallLeftHigh' /\ HoldCounted' /\ CoverageIsTrue'
  BY <1>1, <1>2 DEF NoStallLeftHigh, HoldCounted, CoverageIsTrue, Pairs
<1>6. HeldOneMore'
  BY <1>1, <1>2 DEF HeldOneMore
<1> QED
  BY <1>2, <1>3, <1>4, <1>5, <1>6 DEF IInv

LEMMA WaitKeeps ==
    ASSUME IInv, Wait, Edge
    PROVE  IInv'
<1>1. TypeOK /\ RoundsCounted /\ CoverageIsTrue /\ HeldOneMore /\ NoStallLeftHigh
  BY DEF IInv
<1>2. /\ cstate = "WAIT" /\ cstate' \in {"SEEK", "WAIT"} /\ stall_out' = stall_out
      /\ stalled' = stalled /\ ldvd_pos' = ldvd_pos /\ intervalcnt' = Decremented(intervalcnt)
      /\ holdcnt' = holdcnt /\ repetition' = repetition
      /\ times' = times /\ high' = high /\ reset_done' = reset_done /\ names' = names
      /\ stall_coverage' = stall_coverage /\ done' = done
  BY <1>1 DEF Wait, Edge, Coverage, TypeOK
<1>3. intervalcnt' \in 0 .. CountLevels - 1
  BY <1>1, <1>2, DecrementedIsCount DEF TypeOK
<1>4. TypeOK'
  BY <1>1, <1>2, <1>3, Constants, BlocksStay DEF TypeOK, Pairs, States
<1>5. RoundsCounted'
  BY <1>1, <1>2 DEF RoundsCounted, InRound, Rounds, Pairs
<1>6. NoStallLeftHigh' /\ HoldCounted' /\ CoverageIsTrue'
  BY <1>1, <1>2 DEF NoStallLeftHigh, HoldCounted, CoverageIsTrue, Pairs
<1>7. HeldOneMore'
  BY <1>1, <1>2 DEF HeldOneMore
<1> QED
  BY <1>2, <1>4, <1>5, <1>6, <1>7 DEF IInv

LEMMA HoldKeeps ==
    ASSUME IInv, Hold, Edge
    PROVE  IInv'
<1>1. /\ TypeOK /\ RoundsCounted /\ CoverageIsTrue /\ HeldOneMore /\ NoStallLeftHigh /\ HoldCounted
      /\ ldvd_pos \in Pairs
  BY DEF IInv, Hold
<1>2. /\ cstate = "STALL2" /\ stall_out' = stall_out
      /\ cstate' = IF holdcnt' = 0 THEN "STALL3" ELSE "STALL2"
      /\ stalled' = stalled /\ ldvd_pos' = ldvd_pos /\ holdcnt' = Decremented(holdcnt)
      /\ intervalcnt' = intervalcnt /\ repetition' = repetition
      /\ high' = IF stall_out = {} THEN high ELSE high + 1
      /\ times' = times /\ reset_done' = reset_done /\ names' = names
      /\ stall_coverage' = stall_coverage /\ done' = done
  BY <1>1 DEF Hold, Edge, Coverage, TypeOK
<1>3. holdcnt' \in 0 .. CountLevels - 1 /\ (holdcnt > 0 => holdcnt' = holdcnt - 1)
  BY <1>1, <1>2, DecrementedIsCount DEF TypeOK
<1>4. stall_out # {} => holdcnt + high = 3 /\ holdcnt > 0
  BY <1>1, <1>2 DEF HoldCounted, hold
<1>5. high \in 0 .. 4 /\ holdcnt \in 0 .. CountLevels - 1
  BY <1>1 DEF TypeOK, hold
<1>6. high' \in 0 .. 4
  BY <1>2, <1>4, <1>5, Constants
<1>7. TypeOK'
  BY <1>1, <1>2, <1>3, <1>6, Constants, BlocksStay DEF TypeOK, Pairs, States, hold
<1>8. RoundsCounted'
  BY <1>1, <1>2 DEF RoundsCounted, InRound, Rounds, Pairs
<1>9. HoldCounted'
  BY <1>2, <1>3, <1>4, <1>5, Constants DEF HoldCounted, hold
<1>10. NoStallLeftHigh' /\ CoverageIsTrue'
  BY <1>1, <1>2, BlocksStay DEF NoStallLeftHigh, CoverageIsTrue, Pairs
<1>11. HeldOneMore'
  BY <1>1, <1>2 DEF HeldOneMore
<1> QED
  BY <1>1, <1>2, <1>7, <1>8, <1>9, <1>10, <1>11 DEF IInv, Pairs

LEMMA SeekKeeps ==
    ASSUME IInv, NEW both_high \in SUBSET Pairs, Seek(both_high), Edge
    PROVE  IInv'
<1>1. /\ TypeOK /\ RoundsCounted /\ CoverageIsTrue /\ HeldOneMore /\ NoStallLeftHigh
      /\ cstate = "SEEK" /\ stall_out = {} /\ times \in [Pairs -> Nat] /\ repetition \in Nat
  BY DEF IInv, Seek, TypeOK, NoStallLeftHigh
<1>2. /\ intervalcnt' = intervalcnt /\ repetition' = repetition
      /\ reset_done' = reset_done /\ names' = names
      /\ stall_coverage' = stall_coverage /\ done' = done
  BY <1>1 DEF Seek, Edge, Coverage, TypeOK
<1>3. ASSUME NEW k \in both_high \ stalled,
             ldvd_pos' = k, stalled' = stalled \cup {k},
             stall_out' = stall_out \cup {map_ldvd2stall[k]}, holdcnt' = 3,
             cstate' = "STALL2", times' = [times EXCEPT ![k] = @ + 1], high' = 0
      PROVE  IInv'
  <2>1. k \in Pairs /\ k \notin stalled /\ k \in 0 .. LDVDpairs
    BY <1>3, Constants DEF Pairs
  <2>2. stall_out' = {map_ldvd2stall'[k]}
    BY <1>1, <1>2, <1>3, BlocksStay
  <2>3. TypeOK'
    <3>1. times' \in [Pairs -> Nat]
      BY <1>1, <1>3
    <3>2. stall_out' \subseteq {map_ldvd2stall'[j] : j \in Pairs}
      BY <2>1, <2>2
    <3>3. holdcnt' \in 0 .. CountLevels - 1 /\ high' \in 0 .. 4 /\ cstate' \in States
      BY <1>3, Constants DEF States
    <3>4. stalled' \subseteq Pairs /\ ldvd_pos' \in 0 .. LDVDpairs
      BY <1>1, <1>3, <2>1 DEF TypeOK
    <3> QED
      BY <1>1, <1>2, <3>1, <3>2, <3>3, <3>4 DEF TypeOK, Pairs, hold
  <2>4. RoundsCounted'
    <3>1. ASSUME NEW j \in Pairs
          PROVE  times'[j] + repetition' = Rounds' + InRound(j)'
      <4>1. times[j] + repetition = Rounds + InRound(j) /\ times[j] \in Nat
        BY <1>1 DEF RoundsCounted
      <4>2. Rounds' = Rounds /\ Rounds \in Nat
        BY <1>2 DEF Rounds
      <4>3. CASE j = k
        BY <1>1, <1>2, <1>3, <2>1, <4>1, <4>2, <4>3 DEF InRound
      <4>4. CASE j # k
        <5>1. InRound(j)' = InRound(j) /\ times'[j] = times[j]
          BY <1>1, <1>3, <4>4 DEF InRound
        <5> QED
          BY <1>2, <4>1, <4>2, <5>1
      <4> QED
        BY <4>3, <4>4
    <3>2. repetition' > 0 /\ repetition' <= Rounds' /\ cstate' # "DONE"
      BY <1>1, <1>2, <1>3 DEF RoundsCounted, Rounds
    <3> QED
      BY <3>1, <3>2 DEF RoundsCounted, Pairs
  <2>5. NoStallLeftHigh' /\ HoldCounted' /\ HeldOneMore'
    BY <1>3, <2>2 DEF NoStallLeftHigh, HoldCounted, HeldOneMore, hold
  <2>6. CoverageIsTrue'
    BY <1>1, <1>2, <1>3, <2>1 DEF CoverageIsTrue, Pairs
  <2> QED
    BY <1>3, <2>1, <2>3, <2>4, <2>5, <2>6 DEF IInv, Pairs
<1>4. ASSUME ldvd_pos' = LDVDpairs, UNCHANGED <<cstate, stalled, stall_out, holdcnt, times, high>>
      PROVE  IInv'
  <2>1. TypeOK'
    BY <1>1, <1>2, <1>4, Constants, BlocksStay DEF TypeOK, Pairs
  <2>2. RoundsCounted'
    BY <1>1, <1>2, <1>4 DEF RoundsCounted, InRound, Rounds, Pairs
  <2>3. NoStallLeftHigh' /\ HoldCounted' /\ HeldOneMore' /\ CoverageIsTrue'
    BY <1>1, <1>2, <1>4 DEF NoStallLeftHigh, HoldCounted, HeldOneMore, CoverageIsTrue, Pairs
  <2> QED
    BY <1>1, <1>4, <2>1, <2>2, <2>3 DEF IInv
<1> QED
  BY <1>3, <1>4 DEF Seek, Stall, hold

LEMMA ReleaseKeeps ==
    ASSUME IInv, Release, Edge
    PROVE  IInv'
<1>1. /\ TypeOK /\ RoundsCounted /\ CoverageIsTrue /\ HeldOneMore /\ NoStallLeftHigh /\ HoldCounted
      /\ cstate = "STALL3"
  BY DEF IInv, Release
<1>2. /\ stall_out' = stall_out \ {map_ldvd2stall[ldvd_pos]}
      /\ repetition' = IF count = LDVDpairs THEN Decremented(repetition) ELSE repetition
      /\ cstate' = IF count # LDVDpairs THEN "INIT"
                   ELSE IF repetition' = 0 THEN "DONE" ELSE "RESET"
      /\ high' = IF stall_out = {} THEN high ELSE high + 1
      /\ stalled' = stalled /\ ldvd_pos' = ldvd_pos /\ holdcnt' = holdcnt
      /\ intervalcnt' = intervalcnt
      /\ times' = times /\ reset_done' = reset_done /\ names' = names
  BY DEF Release, Edge
<1>3. count \in 0 .. LDVDpairs /\ (count = LDVDpairs => stalled = Pairs)
  BY <1>1, CountIsFull DEF TypeOK
<1>4. /\ repetition \in 0 .. CountLevels - 1 /\ repetition > 0
      /\ Decremented(repetition) \in 0 .. CountLevels - 1
      /\ Decremented(repetition) = repetition - 1
  BY <1>1, DecrementedIsCount DEF TypeOK, RoundsCounted
<1>5. stall_out' = {}
  BY <1>1, <1>2 DEF NoStallLeftHigh
<1>6. high' \in {0, 4}
  BY <1>1, <1>2 DEF HeldOneMore, HoldCounted, hold
<1>7. /\ stall_coverage' = IF ~done THEN (100 * count) \div LDVDpairs ELSE stall_coverage
      /\ done' \in BOOLEAN
  BY <1>1 DEF Edge, Coverage, TypeOK
<1>8. stall_coverage' \in 0 .. 100
  BY <1>1, <1>3, <1>7, Percentage DEF TypeOK
<1>9. TypeOK'
  BY <1>1, <1>2, <1>4, <1>5, <1>6, <1>7, <1>8, Constants DEF TypeOK, Pairs, States, hold
<1>10. RoundsCounted'
  <2>1. Rounds' = Rounds /\ Rounds \in Nat /\ repetition <= Rounds
    BY <1>1, <1>2 DEF Rounds, RoundsCounted
  <2>2. \A k \in Pairs : times[k] \in Nat /\ times[k] + repetition = Rounds + InRound(k)
    BY <1>1 DEF TypeOK, RoundsCounted
  <2>3. CASE count = LDVDpairs
    <3>1. \A k \in Pairs : InRound(k) = 1 /\ InRound(k)' = 0
      BY <1>1, <1>2, <1>3, <2>3 DEF InRound
    <3>2. repetition' = repetition - 1
      BY <1>2, <1>4, <2>3
    <3>3. \A k \in Pairs : times'[k] + repetition' = Rounds' + InRound(k)'
      BY <1>2, <1>4, <2>1, <2>2, <3>1, <3>2
    <3>4. cstate' = "DONE" <=> repetition' = 0
      BY <1>2, <2>3
    <3>5. repetition' <= Rounds' /\ repetition' \in Nat
      BY <1>4, <2>1, <3>2
    <3> QED
      BY <3>3, <3>4, <3>5 DEF RoundsCounted, Pairs
  <2>4. CASE count # LDVDpairs
    <3>1. \A k \in Pairs : InRound(k)' = InRound(k)
      BY <1>1, <1>2, <2>4 DEF InRound
    <3>2. \A k \in Pairs : times'[k] + repetition' = Rounds' + InRound(k)'
      BY <1>2, <2>1, <2>2, <2>4, <3>1
    <3>3. repetition' <= Rounds' /\ repetition' > 0 /\ cstate' = "INIT"
      BY <1>2, <1>4, <2>1, <2>4
    <3> QED
      BY <3>2, <3>3 DEF RoundsCounted, Pairs
  <2> QED
    BY <2>3, <2>4
<1>11. NoStallLeftHigh' /\ HoldCounted' /\ HeldOneMore'
  BY <1>5, <1>6 DEF NoStallLeftHigh, HoldCounted, HeldOneMore, hold
<1>12. CoverageIsTrue'
  <2>1. CASE ~done /\ count = LDVDpairs
    <3>1. \A k \in Pairs : times[k] \in Nat /\ times[k] + repetition = Rounds + 1
      BY <1>1, <1>3, <2>1 DEF TypeOK, RoundsCounted, InRound
    <3>2. repetition <= Rounds /\ Rounds \in Nat
      BY <1>1 DEF RoundsCounted, Rounds
    <3> QED
      BY <1>2, <1>4, <3>1, <3>2 DEF CoverageIsTrue, Pairs
  <2>2. CASE ~done /\ count # LDVDpairs
    <3>1. stall_coverage' # 100
      BY <1>3, <1>7, <2>2, Percentage
    <3> QED
      BY <3>1 DEF CoverageIsTrue
  <2>3. CASE done
    BY <1>1, <1>2, <1>7, <2>3 DEF CoverageIsTrue, Pairs
  <2> QED
    BY <2>1, <2>2, <2>3
<1>13. cstate' \notin {"STALL2", "STALL3"}
  BY <1>2
<1> QED
  BY <1>9, <1>10, <1>11, <1>12, <1>13 DEF IInv

\* A reset in whatever state the machine is.
LEMMA ResetKeeps ==
    ASSUME IInv, Reset
    PROVE  IInv'
<1>1. TypeOK /\ RoundsCounted
  BY DEF IInv
<1>2. /\ stall_out' = {} /\ stalled' = {} /\ ldvd_pos' = 0
      /\ intervalcnt' = 0 /\ holdcnt' = 0 /\ repetition' = 5
      /\ reset_done' = TRUE /\ done' = FALSE /\ stall_coverage' = 0
      /\ times' = [k \in Pairs |-> 0] /\ high' = 0
      /\ names' = names /\ cstate' = cstate
  BY DEF Reset
<1>3. TypeOK'
  <2>1. times' \in [Pairs -> Nat]
    BY <1>2
  <2>2. /\ {intervalcnt', holdcnt', repetition'} \subseteq 0 .. CountLevels - 1
        /\ ldvd_pos' \in 0 .. LDVDpairs /\ high' \in 0 .. 4 /\ stall_coverage' \in 0 .. 100
    BY <1>2, Constants
  <2>3. stall_out' \subseteq {map_ldvd2stall'[j] : j \in Pairs} /\ stalled' \subseteq Pairs
    BY <1>2
  <2>4. reset_done' \in BOOLEAN /\ done' \in BOOLEAN
    BY <1>2
  <2> QED
    BY <1>1, <1>2, <2>1, <2>2, <2>3, <2>4 DEF TypeOK, Pairs, hold
<1>4. RoundsCounted'
  BY <1>2 DEF RoundsCounted, InRound, Rounds, Pairs
<1>5. NoStallLeftHigh' /\ HoldCounted' /\ HeldOneMore' /\ CoverageIsTrue'
  BY <1>2 DEF NoStallLeftHigh, HoldCounted, HeldOneMore, CoverageIsTrue
<1>6. ldvd_pos' \in Pairs
  BY <1>2, Constants DEF Pairs
<1> QED
  BY <1>3, <1>4, <1>5, <1>6 DEF IInv, Pairs

LEMMA Invariance == Spec => []IInv
<1>1. Init => IInv
  <2> SUFFICES ASSUME Init PROVE IInv
    OBVIOUS
  <2>1. TypeOK
    <3>1. times \in [Pairs -> Nat]
      BY DEF Init
    <3>2. /\ {intervalcnt, holdcnt, repetition} \subseteq 0 .. CountLevels - 1
          /\ ldvd_pos \in 0 .. LDVDpairs /\ high \in 0 .. 4 /\ stall_coverage \in 0 .. 100
      BY Constants DEF Init
    <3>3. reset_done \in BOOLEAN /\ done \in BOOLEAN /\ cstate \in States
      BY DEF Init, States
    <3>4. stall_out \subseteq {map_ldvd2stall[j] : j \in Pairs} /\ stalled \subseteq Pairs
      BY DEF Init
    <3> QED
      BY <3>1, <3>2, <3>3, <3>4 DEF Init, TypeOK, hold
  <2>2. RoundsCounted
    BY DEF Init, RoundsCounted, InRound, Rounds
  <2>3. NoStallLeftHigh /\ HoldCounted /\ HeldOneMore /\ CoverageIsTrue
    BY DEF Init, NoStallLeftHigh, HoldCounted, HeldOneMore, CoverageIsTrue
  <2> QED
    BY <2>1, <2>2, <2>3 DEF IInv, Init
<1>2. IInv /\ [Next]_vars => IInv'
  <2> SUFFICES ASSUME IInv, [Next]_vars PROVE IInv'
    OBVIOUS
  <2>1. CASE Reset
    BY <2>1, ResetKeeps
  <2>2. ASSUME NEW both_high \in SUBSET Pairs, RisingEdge(both_high) PROVE IInv'
    <3>1. Edge
      BY <2>2 DEF RisingEdge, Edge
    <3> QED
      BY <2>2, <3>1, BeginKeeps, ArmKeeps, WaitKeeps, SeekKeeps, HoldKeeps, ReleaseKeeps
         DEF RisingEdge
  <2>3. CASE UNCHANGED vars
    <3>1. map_ldvd2stall' = map_ldvd2stall
      BY <2>3, BlocksStay DEF vars
    <3>2. TypeOK' /\ RoundsCounted'
      BY <2>3, <3>1 DEF vars, counters, IInv, TypeOK, RoundsCounted, InRound, Rounds, Pairs
    <3>3. NoStallLeftHigh' /\ HoldCounted' /\ HeldOneMore' /\ CoverageIsTrue'
      BY <2>3, <3>1 DEF vars, counters, IInv, NoStallLeftHigh, HoldCounted, HeldOneMore,
                        CoverageIsTrue, Pairs
    <3> QED
      BY <2>3, <3>2, <3>3 DEF vars, IInv, Pairs
  <2> QED
    BY <2>1, <2>2, <2>3 DEF Next
<1> QED
  BY <1>1, <1>2, PTL DEF Spec

-----------------------------------------------------------------------------
(***************************************************************************)
(* The theorems                                                            *)
(***************************************************************************)

\* No counter leaves its width although one wraps, and the search position its
\* array (mc_stall_ctrl.h:70-158).
THEOREM TypeCorrect == Spec => []TypeOK
<1>1. IInv => TypeOK
  BY DEF IInv
<1> QED
  BY <1>1, Invariance, PTL

\* The stall that is high is the one of the pair that was chosen, and goes low
\* again (mc_stall_ctrl.h:77, 115-131).
THEOREM StallsEnd == Spec => []NoStallLeftHigh
<1>1. IInv => NoStallLeftHigh
  BY DEF IInv
<1> QED
  BY <1>1, Invariance, PTL

\* Every stall that no reset ends is high for one cycle more than hold, for which
\* the comments would have it (mc_stall_ctrl.h:23, 117-131): that StallsAsCommented is
\* violated is no matter of one behaviour, no stall that ends by itself is as long.
THEOREM StallsLastOneMore == Spec => []HeldOneMore
<1>1. IInv => HeldOneMore
  BY DEF IInv
<1> QED
  BY <1>1, Invariance, PTL

\* No pair is stalled a second time in a round, and the coverage tells the truth
\* (mc_stall_ctrl.h:109-158).
THEOREM FairRounds == Spec => []RoundsAreFair
<1>1. IInv => RoundsAreFair
  <2> SUFFICES ASSUME IInv PROVE RoundsAreFair
    OBVIOUS
  <2>1. \A k \in Pairs : /\ times[k] \in Nat /\ InRound(k) \in {0, 1}
                         /\ times[k] + repetition = Rounds + InRound(k)
    BY DEF IInv, TypeOK, RoundsCounted, InRound
  <2>2. repetition \in Nat /\ Rounds \in Nat
    BY Constants DEF IInv, TypeOK, Rounds
  <2>3. \A j, k \in Pairs : times[j] - times[k] <= 1
    BY <2>1, <2>2
  <2>4. ASSUME cstate \notin {"RESET", "DONE"}, NEW j \in Pairs, NEW k \in Pairs,
               j \in stalled, k \notin stalled
        PROVE  times[j] = times[k] + 1
    <3>1. InRound(j) = 1 /\ InRound(k) = 0
      BY <2>4 DEF InRound
    <3> QED
      BY <2>1, <2>2, <3>1
  <2> QED
    BY <2>3, <2>4 DEF RoundsAreFair, IInv, CoverageIsTrue
<1> QED
  BY <1>1, Invariance, PTL

\* A machine that is done has stalled every pair equally often: ten times without a
\* reset, where the comment says five, and five times or not at all after one
\* (mc_stall_ctrl.h:45, 77-87, 150-158).
THEOREM RepeatsDependOnReset == Spec => []RepeatsAsReset
<1>1. IInv => RepeatsAsReset
  <2> SUFFICES ASSUME IInv, cstate = "DONE"
               PROVE  \E n \in {0, 5, 10} : /\ n = 10 <=> ~reset_done
                                            /\ \A k \in Pairs : times[k] = n
    BY DEF RepeatsAsReset
  <2>1. \A k \in Pairs : times[k] \in Nat /\ times[k] + repetition = Rounds
    BY DEF IInv, TypeOK, RoundsCounted, InRound, Rounds
  <2>2. repetition = 0 \/ (reset_done /\ repetition = 5)
    BY DEF IInv, RoundsCounted
  <2>3. CASE repetition = 0
    <3>1. \A k \in Pairs : times[k] = Rounds
      BY <2>1, <2>3 DEF Rounds
    <3> QED
      BY <3>1 DEF Rounds
  <2>4. CASE reset_done /\ repetition = 5
    <3>1. \A k \in Pairs : times[k] = 0
      BY <2>1, <2>4 DEF Rounds
    <3> QED
      BY <2>4, <3>1
  <2> QED
    BY <2>2, <2>3, <2>4
<1> QED
  BY <1>1, Invariance, PTL
=============================================================================
