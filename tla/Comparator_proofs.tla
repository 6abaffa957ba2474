--------------------------- MODULE Comparator_proofs ---------------------------
(***************************************************************************)
(* Theorems about Comparator, for every set of values, every limit of      *)
(* errors and any number of values on the two sides, and about the         *)
(* transactor in front of it, for every set of blocks.                     *)
(***************************************************************************)
EXTENDS CoVerification, FiniteSetTheorems, TLAPS

-----------------------------------------------------------------------------
(***************************************************************************)
(* Counting in intervals                                                   *)
(***************************************************************************)

\* The ranks with an outcome, and those whose golden value has a mask.
Ranks(outcome) == {k \in Nat : Outcome(k) = outcome}
Masked == {k \in Nat : golden[k].use_mask}

\* A part of an interval of numbers is finite.
LEMMA PartFinite ==
    ASSUME NEW S, NEW c \in Nat, NEW b \in Nat
    PROVE  /\ IsFiniteSet(S \cap (c + 1 .. b)) /\ Cardinality(S \cap (c + 1 .. b)) \in Nat
           /\ IsFiniteSet(S \cap (1 .. b)) /\ Cardinality(S \cap (1 .. b)) \in Nat
<1>1. PICK a \in Int : a = c + 1
  OBVIOUS
<1>2. IsFiniteSet(a .. b) /\ IsFiniteSet(1 .. b)
  BY FS_Interval
<1>3. IsFiniteSet(S \cap (a .. b)) /\ IsFiniteSet(S \cap (1 .. b))
  BY <1>2, FS_Intersection
<1>4. Cardinality(S \cap (a .. b)) \in Nat /\ Cardinality(S \cap (1 .. b)) \in Nat
  BY <1>3, FS_CardinalityType
<1> QED
  BY <1>1, <1>3, <1>4

\* One more place counts for one more at most, and a part for no more.
LEMMA CountOneMore ==
    ASSUME NEW S, NEW c \in Nat, NEW m \in Nat, c <= m
    PROVE  Cardinality(S \cap (c + 1 .. m + 1)) <= Cardinality(S \cap (c + 1 .. m)) + 1
<1> DEFINE A == S \cap (c + 1 .. m)
<1>1. PICK n \in Nat : n = m + 1
  OBVIOUS
<1>2. IsFiniteSet(A) /\ Cardinality(A) \in Nat
  BY PartFinite
<1> HIDE DEF A
<1>3. IsFiniteSet(A \cup {n}) /\ Cardinality(A \cup {n}) <= Cardinality(A) + 1
  BY <1>2, FS_AddElement
<1>4. Cardinality(A \cup {n}) \in Nat
  BY <1>3, FS_CardinalityType
<1>5. S \cap (c + 1 .. n) \in SUBSET (A \cup {n})
  BY <1>1 DEF A
<1>6. Cardinality(S \cap (c + 1 .. n)) <= Cardinality(A \cup {n})
  BY <1>3, <1>5, FS_Subset
<1>7. Cardinality(S \cap (c + 1 .. n)) \in Nat
  BY PartFinite
<1>8. Cardinality(S \cap (c + 1 .. n)) <= Cardinality(A) + 1
  BY <1>2, <1>3, <1>4, <1>6, <1>7
<1> QED
  BY <1>1, <1>8 DEF A

LEMMA CountPart ==
    ASSUME NEW S, NEW c \in Nat, NEW m \in Nat, NEW n \in Nat, m <= n
    PROVE  Cardinality(S \cap (c + 1 .. m)) <= Cardinality(S \cap (c + 1 .. n))
<1>1. IsFiniteSet(S \cap (c + 1 .. n))
  BY PartFinite
<1>2. S \cap (c + 1 .. m) \in SUBSET (S \cap (c + 1 .. n))
  OBVIOUS
<1> QED
  BY <1>1, <1>2, FS_Subset

\* A part of an interval that has with each number all before it is an interval.
LEMMA PrefixIsInterval ==
    ASSUME NEW c \in Nat, NEW M \in Nat, c <= M, NEW K \in SUBSET (c + 1 .. M),
           \A k \in K : \A j \in c + 1 .. k : j \in K
    PROVE  /\ Cardinality(K) \in Nat /\ c + Cardinality(K) <= M
           /\ K = c + 1 .. c + Cardinality(K)
<1>1. IsFiniteSet(c + 1 .. M) /\ Cardinality(c + 1 .. M) = M - c
  <2>1. PICK a \in Int : a = c + 1
    OBVIOUS
  <2>2. IsFiniteSet(a .. M) /\ Cardinality(a .. M) = IF a > M THEN 0 ELSE M - a + 1
    BY FS_Interval
  <2> QED
    BY <2>1, <2>2
<1>2. IsFiniteSet(K) /\ Cardinality(K) <= M - c
  BY <1>1, FS_Subset
<1>3. PICK n \in Nat : n = Cardinality(K)
  BY <1>2, FS_CardinalityType
<1>4. IsFiniteSet(c + 1 .. c + n) /\ Cardinality(c + 1 .. c + n) = n
  <2>1. PICK a \in Int, b \in Int : a = c + 1 /\ b = c + n
    OBVIOUS
  <2>2. IsFiniteSet(a .. b) /\ Cardinality(a .. b) = IF a > b THEN 0 ELSE b - a + 1
    BY FS_Interval
  <2> QED
    BY <2>1, <2>2
<1>5. K \subseteq c + 1 .. c + n
  <2> SUFFICES ASSUME NEW k \in K
               PROVE  k <= c + n
    BY <1>3
  <2>1. k \in Nat /\ k > c
    OBVIOUS
  <2>2. (c + 1 .. k) \in SUBSET K
    OBVIOUS
  <2>3. Cardinality(c + 1 .. k) <= n
    BY <1>2, <1>3, <2>2, FS_Subset
  <2>4. Cardinality(c + 1 .. k) = k - c
    <3>1. PICK a \in Int : a = c + 1
      OBVIOUS
    <3>2. Cardinality(a .. k) = IF a > k THEN 0 ELSE k - a + 1
      BY <2>1, FS_Interval
    <3> QED
      BY <2>1, <3>1, <3>2
  <2> QED
    BY <2>1, <2>3, <2>4
<1>6. K = c + 1 .. c + n
  BY <1>3, <1>4, <1>5, FS_Subset
<1> QED
  BY <1>2, <1>3, <1>6

-----------------------------------------------------------------------------
(***************************************************************************)
(* One activation of compare                                               *)
(***************************************************************************)

LEMMA CountIs ==
    ASSUME NEW K \in SUBSET Nat, NEW o
    PROVE  /\ CountIn(K, o) = Cardinality(Ranks(o) \cap K)
           /\ {k \in K : golden[k].use_mask} = Masked \cap K
<1>1. {k \in K : Outcome(k) = o} = Ranks(o) \cap K
  BY DEF Ranks
<1>2. {k \in K : golden[k].use_mask} = Masked \cap K
  BY DEF Masked
<1> QED
  BY <1>1, <1>2 DEF CountIn

\* The counts by the sets they count in.
CountsBySets ==
    /\ error_cnt = Cardinality(Ranks("_error") \cap (1 .. compare_cnt))
    /\ ignore_cnt = Cardinality(Ranks("_ignore") \cap (1 .. compare_cnt))
    /\ mask_compare_cnt = Cardinality(Masked \cap (1 .. compare_cnt))
    /\ _error_max > 0 => error_cnt <= _error_max
    /\ _error_max > 0 => (aborted <=> error_cnt = _error_max)

LEMMA CountsAreBySets == compare_cnt \in Nat => (CountsAddUp <=> CountsBySets)
<1> SUFFICES ASSUME compare_cnt \in Nat
             PROVE  CountsAddUp <=> CountsBySets
  OBVIOUS
<1>1. (1 .. compare_cnt) \in SUBSET Nat
  OBVIOUS
<1>2. /\ CountIn(1 .. compare_cnt, "_error") = Cardinality(Ranks("_error") \cap (1 .. compare_cnt))
      /\ CountIn(1 .. compare_cnt, "_ignore") = Cardinality(Ranks("_ignore") \cap (1 .. compare_cnt))
      /\ {k \in 1 .. compare_cnt : golden[k].use_mask} = Masked \cap (1 .. compare_cnt)
  BY <1>1, CountIs
<1> QED
  BY <1>2 DEF CountsAddUp, CountsBySets

\* The numbers of the comparator.
LEMMA Numbers ==
    ASSUME TypeOK, GotInStep
    PROVE  /\ compare_cnt \in Nat /\ error_cnt \in Nat /\ ignore_cnt \in Nat
           /\ mask_compare_cnt \in Nat /\ _error_max \in Int /\ MaxSent \in Nat
           /\ \A s \in Sides : /\ visible[s] \in Nat /\ received[s] \in Nat /\ sig[s] \in Nat
                               /\ Sent(s) \in Nat
                               /\ compare_cnt <= visible[s] /\ visible[s] <= MaxSent
<1>1. /\ compare_cnt \in Nat /\ error_cnt \in Nat /\ ignore_cnt \in Nat
      /\ mask_compare_cnt \in Nat /\ _error_max \in Int /\ MaxSent \in Nat
  BY ComparatorAssumption DEF TypeOK, ComparatorAssumption
<1>2. \A s \in Sides : visible[s] \in 0 .. MaxSent /\ received[s] \in 0 .. MaxSent
                      /\ sig[s] \in 0 .. MaxSent
  BY DEF TypeOK
<1>3. \A s \in Sides : Sent(s) \in Nat
  BY DEF TypeOK, Sent
<1>4. \A s \in Sides : compare_cnt <= received[s] /\ received[s] <= visible[s]
  BY <1>1, <1>2 DEF GotInStep
<1> QED
  BY <1>1, <1>2, <1>3, <1>4

Least == Min2(visible["golden"], visible["dut"])

LEMMA LeastIs ==
    ASSUME TypeOK, GotInStep
    PROVE  /\ Least \in Nat /\ compare_cnt <= Least
           /\ Least <= visible["golden"] /\ Least <= visible["dut"]
           /\ Least = visible["golden"] \/ Least = visible["dut"]
  BY Numbers DEF Least, Min2, Sides

\* The pairs follow those compared, without a gap; there are as many as have come,
\* unless the limit of errors stops it, and never more errors than the limit.
LEMMA PairsAre ==
    ASSUME TypeOK, GotInStep, CountsAddUp, ~aborted
    PROVE  \E n \in Nat :
              /\ compare_cnt <= n /\ n <= Least
              /\ Pairs = compare_cnt + 1 .. n /\ Cardinality(Pairs) = n - compare_cnt
              /\ _error_max > 0 => error_cnt + CountIn(Pairs, "_error") <= _error_max
              /\ \/ n = Least
                 \/ _error_max > 0 /\ error_cnt + CountIn(Pairs, "_error") = _error_max
                                   /\ Pairs # {}
<1> DEFINE all == compare_cnt + 1 .. Least
           Errors(m) == Cardinality(Ranks("_error") \cap (compare_cnt + 1 .. m))
<1>1. /\ compare_cnt \in Nat /\ error_cnt \in Nat /\ _error_max \in Int
      /\ Least \in Nat /\ compare_cnt <= Least
  BY Numbers, LeastIs
<1>2. \A j \in all : CountIn({i \in all : i <= j}, "_error") = Errors(j)
  <2> SUFFICES ASSUME NEW j \in all
               PROVE  CountIn({i \in all : i <= j}, "_error") = Errors(j)
    OBVIOUS
  <2>1. {i \in all : i <= j} = compare_cnt + 1 .. j
    BY <1>1
  <2>2. (compare_cnt + 1 .. j) \in SUBSET Nat
    BY <1>1
  <2> QED
    BY <2>1, <2>2, CountIs
<1>3. Pairs = {k \in all : \A j \in all :
                  j < k => _error_max <= 0 \/ error_cnt + Errors(j) < _error_max}
  BY <1>2 DEF Pairs, Least
<1>4. \A m \in Nat : Errors(m) \in Nat
  BY <1>1, PartFinite
<1> HIDE DEF Errors
<1>5. /\ Cardinality(Pairs) \in Nat /\ compare_cnt + Cardinality(Pairs) <= Least
      /\ Pairs = compare_cnt + 1 .. compare_cnt + Cardinality(Pairs)
  <2>1. Pairs \in SUBSET (compare_cnt + 1 .. Least)
    BY <1>3
  <2>2. \A k \in Pairs : \A j \in compare_cnt + 1 .. k : j \in Pairs
    <3> SUFFICES ASSUME NEW k \in Pairs, NEW j \in compare_cnt + 1 .. k
                 PROVE  j \in Pairs
      OBVIOUS
    <3>1. j \in all /\ k \in all /\ j <= k
      BY <1>1, <2>1
    <3>2. \A i \in all : i < j => i < k
      BY <1>1, <3>1
    <3> QED
      BY <1>3, <3>1, <3>2
  <2> QED
    BY <1>1, <2>1, <2>2, PrefixIsInterval
<1>6. PICK n \in Nat : n = compare_cnt + Cardinality(Pairs)
  BY <1>1, <1>5
<1>7. CountIn(Pairs, "_error") = Errors(n)
  <2>1. Pairs \in SUBSET Nat /\ Pairs = compare_cnt + 1 .. n
    BY <1>1, <1>5, <1>6
  <2> QED
    BY <2>1, CountIs DEF Errors
<1>8. _error_max > 0 => error_cnt + Errors(n) <= _error_max
  <2> SUFFICES ASSUME _error_max > 0
               PROVE  error_cnt + Errors(n) <= _error_max
    OBVIOUS
  <2>1. error_cnt < _error_max
    BY <1>1 DEF CountsAddUp
  <2>2. Errors(compare_cnt) = 0
    <3>1. Ranks("_error") \cap (compare_cnt + 1 .. compare_cnt) = {}
      BY <1>1
    <3> QED
      BY <3>1, FS_EmptySet DEF Errors
  <2>3. CASE n = compare_cnt
    BY <1>1, <2>1, <2>2, <2>3
  <2>4. CASE n # compare_cnt
    <3>1. PICK m \in Nat : n = m + 1 /\ compare_cnt <= m
      BY <1>1, <1>5, <1>6, <2>4
    <3>2. Errors(m + 1) <= Errors(m) + 1
      BY <1>1, <3>1, CountOneMore DEF Errors
    <3>3. error_cnt + Errors(m) < _error_max
      <4>1. CASE m = compare_cnt
        BY <1>1, <2>1, <2>2, <4>1
      <4>2. CASE m # compare_cnt
        <5>1. n \in Pairs /\ m \in all /\ m < n
          BY <1>1, <1>5, <1>6, <3>1, <4>2
        <5> QED
          BY <1>1, <1>3, <5>1
      <4> QED
        BY <4>1, <4>2
    <3> QED
      BY <1>1, <1>4, <3>1, <3>2, <3>3
  <2> QED
    BY <2>3, <2>4
<1>9. n = Least \/ (_error_max > 0 /\ error_cnt + Errors(n) = _error_max /\ Pairs # {})
  <2> SUFFICES ASSUME n # Least
               PROVE  _error_max > 0 /\ error_cnt + Errors(n) = _error_max /\ Pairs # {}
    OBVIOUS
  <2>1. PICK k \in Nat : k = n + 1 /\ k \in all /\ k \notin Pairs
    BY <1>1, <1>5, <1>6
  <2>2. PICK j \in all : j < k /\ _error_max > 0 /\ ~(error_cnt + Errors(j) < _error_max)
    BY <1>1, <1>3, <2>1
  <2>3. j \in Nat /\ j <= n /\ j \in Pairs
    BY <1>1, <1>5, <1>6, <2>1, <2>2
  <2>4. Errors(j) <= Errors(n)
    BY <1>1, <2>3, CountPart DEF Errors
  <2> QED
    BY <1>1, <1>4, <1>8, <2>2, <2>3, <2>4
<1>10. Pairs = compare_cnt + 1 .. n /\ Cardinality(Pairs) = n - compare_cnt
       /\ compare_cnt <= n /\ n <= Least
  BY <1>1, <1>5, <1>6
<1> QED
  BY <1>7, <1>8, <1>9, <1>10

-----------------------------------------------------------------------------
(***************************************************************************)
(* The steps                                                               *)
(***************************************************************************)

\* TypeOK by what changes together.
KernelTyped ==
    /\ waits \in [Processes_ -> (SUBSET Events) \cup {Clock}]
    /\ requested \subseteq Sides
    /\ notified \subseteq Events

FifosTyped ==
    /\ golden \in Seq(Golden) /\ dut \in Seq(Values)
    /\ visible \in [Sides -> 0 .. MaxSent]

ResultsTyped ==
    /\ received \in [Sides -> 0 .. MaxSent] /\ sig \in [Sides -> 0 .. MaxSent]
    /\ compare_cnt \in 0 .. MaxSent /\ mask_compare_cnt \in 0 .. MaxSent
    /\ ignore_cnt \in 0 .. MaxSent /\ error_cnt \in 0 .. MaxSent
    /\ announced \in 0 .. MaxSent

FlagsTyped == last_result \in BOOLEAN /\ aborted \in BOOLEAN

LEMMA TypeParts ==
    TypeOK <=> /\ _error_max \in ErrorMaxes
               /\ KernelTyped /\ FifosTyped /\ ResultsTyped /\ FlagsTyped
  BY DEF TypeOK, KernelTypeOK, KernelTyped, FifosTyped, ResultsTyped, FlagsTyped

Announced == announced = compare_cnt \/ "_compare" \in notified

Parts ==
    /\ _error_max \in ErrorMaxes
    /\ KernelTyped /\ FifosTyped /\ ResultsTyped /\ FlagsTyped
    /\ GotInStep /\ WaitsForLacking /\ Announced /\ CountsBySets /\ SignalsOneApart

LEMMA InvIsParts == IInv <=> Parts
<1>1. TypeOK => compare_cnt \in Nat
  BY DEF TypeOK
<1> QED
  BY <1>1, TypeParts, CountsAreBySets DEF IInv, Parts, Announced

\* A count of ranks up to n is n at most.
LEMMA CountBound ==
    ASSUME NEW S, NEW n \in Nat
    PROVE  Cardinality(S \cap (1 .. n)) \in 0 .. n
<1>1. IsFiniteSet(1 .. n) /\ Cardinality(1 .. n) = n
  BY FS_Interval
<1>2. S \cap (1 .. n) \in SUBSET (1 .. n)
  OBVIOUS
<1>3. Cardinality(S \cap (1 .. n)) <= n
  BY <1>1, <1>2, FS_Subset
<1>4. Cardinality(S \cap (1 .. n)) \in Nat
  BY PartFinite
<1> QED
  BY <1>3, <1>4

LEMMA OutcomeIs == \A k : Outcome(k) \in {"_ignore", "_success", "_error"}
  BY DEF Outcome

LEMMA CompareKeeps ==
    ASSUME Parts, Compare
    PROVE  Parts'
<1>1. /\ _error_max \in ErrorMaxes
      /\ KernelTyped /\ FifosTyped /\ ResultsTyped /\ FlagsTyped
      /\ GotInStep /\ WaitsForLacking /\ Announced /\ CountsBySets /\ SignalsOneApart
  BY DEF Parts
<1>2. TypeOK /\ CountsAddUp /\ ~aborted
  BY InvIsParts DEF IInv, Compare
<1>3. PICK n \in Nat :
        /\ compare_cnt <= n /\ n <= Least
        /\ Pairs = compare_cnt + 1 .. n /\ Cardinality(Pairs) = n - compare_cnt
        /\ _error_max > 0 => error_cnt + CountIn(Pairs, "_error") <= _error_max
        /\ \/ n = Least
           \/ _error_max > 0 /\ error_cnt + CountIn(Pairs, "_error") = _error_max /\ Pairs # {}
  BY <1>1, <1>2, PairsAre
<1> DEFINE stop == _error_max > 0 /\ error_cnt + CountIn(Pairs, "_error") = _error_max
                                 /\ Pairs # {}
<1>4. /\ compare_cnt \in Nat /\ error_cnt \in Nat /\ MaxSent \in Nat /\ _error_max \in Int
      /\ \A s \in Sides : visible[s] \in Nat /\ received[s] \in Nat /\ sig[s] \in Nat
                         /\ visible[s] <= MaxSent
  BY <1>1, <1>2, Numbers
<1>5. /\ compare_cnt' = compare_cnt + Cardinality(Pairs)
      /\ mask_compare_cnt' = mask_compare_cnt + Cardinality({k \in Pairs : golden[k].use_mask})
      /\ ignore_cnt' = ignore_cnt + CountIn(Pairs, "_ignore")
      /\ error_cnt' = error_cnt + CountIn(Pairs, "_error")
      /\ last_result' = IF Pairs = {} THEN last_result
                        ELSE Equal(compare_cnt + Cardinality(Pairs))
      /\ received' = Got(compare_cnt + Cardinality(Pairs), stop)
      /\ sig' = IF received'["dut"] > received["dut"]
                  THEN [s \in Sides |-> IF s = "golden" THEN HeldWith(received'["dut"])
                                                        ELSE received'["dut"]]
                  ELSE sig
      /\ aborted' = stop
      /\ notified' = notified \cup NotifiedBy(Pairs)
      /\ waits' = [waits EXCEPT !["compare"] = Lacking(received')]
      /\ _error_max' = _error_max /\ golden' = golden /\ dut' = dut /\ visible' = visible
      /\ requested' = requested /\ announced' = announced
  BY DEF Compare, fifos
<1>6. compare_cnt' = n
  BY <1>3, <1>4, <1>5
<1>7. aborted' <=> stop
  BY <1>5, Zenon
<1>8. ~stop => n = Least
  BY <1>3
<1> HIDE DEF stop
<1>9. /\ error_cnt' = Cardinality(Ranks("_error") \cap (1 .. n))
      /\ ignore_cnt' = Cardinality(Ranks("_ignore") \cap (1 .. n))
      /\ mask_compare_cnt' = Cardinality(Masked \cap (1 .. n))
  <2>1. Pairs \in SUBSET Nat
    BY <1>3, <1>4
  <2>2. /\ CountIn(Pairs, "_error") = Cardinality(Ranks("_error") \cap (compare_cnt + 1 .. n))
        /\ CountIn(Pairs, "_ignore") = Cardinality(Ranks("_ignore") \cap (compare_cnt + 1 .. n))
        /\ Cardinality({k \in Pairs : golden[k].use_mask})
               = Cardinality(Masked \cap (compare_cnt + 1 .. n))
    BY <1>3, <2>1, CountIs
  <2>3. \A S : Cardinality(S \cap (1 .. n)) = Cardinality(S \cap (1 .. compare_cnt))
                                          + Cardinality(S \cap (compare_cnt + 1 .. n))
    <3> SUFFICES ASSUME NEW S
                 PROVE  Cardinality(S \cap (1 .. n)) = Cardinality(S \cap (1 .. compare_cnt))
                                          + Cardinality(S \cap (compare_cnt + 1 .. n))
      OBVIOUS
    <3>1. PICK c \in Nat : c = compare_cnt /\ c <= n
      BY <1>3, <1>4
    <3>2. PICK m \in Nat : m = n
      BY <1>3, <1>4
    <3>3. c \in Nat /\ m \in Nat /\ c <= m
      BY <3>1, <3>2
    <3> DEFINE A == S \cap (1 .. c)
               B == S \cap (c + 1 .. m)
               C == S \cap (1 .. m)
    <3>4. IsFiniteSet(A) /\ IsFiniteSet(B) /\ Cardinality(A) \in Nat /\ Cardinality(B) \in Nat
      BY <3>3, PartFinite
    <3>5. A \cap B = {} /\ C = A \cup B
      BY <3>3
    <3> HIDE DEF A, B, C
    <3>6. Cardinality(A \cup B) = Cardinality(A) + Cardinality(B) - Cardinality(A \cap B)
      BY <3>4, FS_Union
    <3>7. Cardinality(A \cap B) = 0
      BY <3>5, FS_EmptySet
    <3>8. Cardinality(C) = Cardinality(A) + Cardinality(B)
      BY <3>4, <3>5, <3>6, <3>7
    <3> QED
      BY <3>1, <3>2, <3>8 DEF A, B, C
  <2> QED
    BY <1>1, <1>5, <2>2, <2>3 DEF CountsBySets
<1>10. CountsBySets'
  <2>1. Ranks("_error")' = Ranks("_error") /\ Ranks("_ignore")' = Ranks("_ignore")
        /\ Masked' = Masked
    BY <1>5 DEF Ranks, Masked, Outcome, Equal
  <2>2. _error_max > 0 => error_cnt' <= _error_max
    BY <1>3, <1>5
  <2>3. ASSUME _error_max > 0
        PROVE  aborted' <=> error_cnt' = _error_max
    <3>1. CASE Pairs = {}
      <4>1. CountIn(Pairs, "_error") = 0
        <5>1. {k \in Pairs : Outcome(k) = "_error"} = {}
          BY <3>1
        <5> QED
          BY <5>1, FS_EmptySet DEF CountIn
      <4>2. error_cnt' # _error_max
        BY <1>1, <1>2, <1>4, <1>5, <2>3, <4>1 DEF CountsBySets
      <4> QED
        BY <1>7, <3>1, <4>2 DEF stop
    <3>2. CASE Pairs # {}
      BY <1>5, <1>7, <2>3, <3>2 DEF stop
    <3> QED
      BY <3>1, <3>2
  <2> QED
    BY <1>5, <1>6, <1>9, <2>1, <2>2, <2>3 DEF CountsBySets
<1>11. n <= visible["golden"] /\ n <= visible["dut"] /\ n <= MaxSent
       /\ (n = Least => n = visible["golden"] \/ n = visible["dut"])
  BY <1>1, <1>2, <1>3, <1>4, LeastIs DEF Sides
<1>12. \A s \in Sides : received'[s] = IF stop THEN n ELSE IF visible[s] > n THEN n + 1 ELSE n
  BY <1>3, <1>4, <1>5, <1>11 DEF Got, Min2, Sides
<1>13. received' \in [Sides -> 0 .. MaxSent]
  <2>1. received' = [s \in Sides |-> IF stop THEN n ELSE IF visible[s] > n THEN n + 1 ELSE n]
    BY <1>5, <1>12 DEF Got
  <2>2. \A s \in Sides : (IF stop THEN n ELSE IF visible[s] > n THEN n + 1 ELSE n) \in 0 .. MaxSent
    BY <1>4, <1>11
  <2> QED
    BY <2>1, <2>2
<1>14. GotInStep'
  <2>1. \A s \in Sides : received'[s] \in {n, n + 1} /\ received'[s] <= visible[s]
    BY <1>4, <1>11, <1>12 DEF Sides
  <2>2. \E s \in Sides : received'[s] = n
    BY <1>4, <1>8, <1>11, <1>12 DEF Sides
  <2>3. \A s \in Sides : Sent(s)' = Sent(s)
    BY <1>5 DEF Sent
  <2> QED
    BY <1>1, <1>5, <1>6, <2>1, <2>2, <2>3 DEF GotInStep
<1>15. WaitsForLacking'
  <2>1. waits'["compare"] = Lacking(received')
    BY <1>1, <1>5 DEF KernelTyped, Processes_
  <2>2. ASSUME ~aborted', NEW s \in Sides, received'[s] = compare_cnt', visible'[s] > compare_cnt'
        PROVE  FALSE
    BY <1>4, <1>5, <1>6, <1>7, <1>12, <2>2
  <2> QED
    BY <2>1, <2>2 DEF WaitsForLacking, Lacking
<1>16. KernelTyped'
  <2>1. Lacking(received') \in SUBSET Events
    BY DEF Lacking, ok_to_get, Sides, Events
  <2>2. NotifiedBy(Pairs) \subseteq Events
    BY OutcomeIs DEF NotifiedBy, Events
  <2> QED
    BY <1>1, <1>5, <2>1, <2>2 DEF KernelTyped
<1>17. Announced'
  <2>1. CASE Pairs = {}
    <3>1. compare_cnt' = compare_cnt
      BY <1>4, <1>5, <2>1, FS_EmptySet
    <3> QED
      BY <1>1, <1>5, <3>1 DEF Announced
  <2>2. CASE Pairs # {}
    BY <1>5, <2>2 DEF Announced, NotifiedBy
  <2> QED
    BY <2>1, <2>2
<1>18. SignalsOneApart' /\ sig' \in [Sides -> 0 .. MaxSent]
  <2>1. CASE received'["dut"] > received["dut"]
    <3>1. PICK d \in 0 .. MaxSent : d = received'["dut"] /\ d <= n + 1
      BY <1>4, <1>12, <1>13 DEF Sides
    <3>2. HeldWith(d) \in {d, d - 1} /\ HeldWith(d) \in 0 .. MaxSent
      BY <1>4, <1>11, <3>1 DEF HeldWith, Min2, Sides
    <3>3. sig' = [s \in Sides |-> IF s = "golden" THEN HeldWith(d) ELSE d]
      BY <1>5, <2>1, <3>1
    <3> QED
      BY <3>1, <3>2, <3>3 DEF SignalsOneApart, Sides
  <2>2. CASE ~(received'["dut"] > received["dut"])
    BY <1>1, <1>5, <2>2 DEF SignalsOneApart, ResultsTyped
  <2> QED
    BY <2>1, <2>2
<1>19. ResultsTyped'
  <2>1. compare_cnt' \in 0 .. MaxSent
    BY <1>4, <1>6, <1>11
  <2>2. error_cnt' \in 0 .. n /\ ignore_cnt' \in 0 .. n /\ mask_compare_cnt' \in 0 .. n
    BY <1>9, CountBound
  <2>3. error_cnt' \in 0 .. MaxSent /\ ignore_cnt' \in 0 .. MaxSent
        /\ mask_compare_cnt' \in 0 .. MaxSent
    BY <1>4, <1>11, <2>2
  <2> QED
    BY <1>1, <1>5, <1>13, <1>18, <2>1, <2>3 DEF ResultsTyped
<1>20. FlagsTyped'
  <2>1. aborted' \in BOOLEAN
    BY <1>5, Zenon DEF stop
  <2>2. \A k : Equal(k) \in BOOLEAN
    BY DEF Equal
  <2>3. last_result' \in BOOLEAN
    BY <1>1, <1>5, <2>2 DEF FlagsTyped
  <2> QED
    BY <2>1, <2>3 DEF FlagsTyped
<1>21. FifosTyped' /\ _error_max' \in ErrorMaxes
  BY <1>1, <1>5 DEF FifosTyped
<1> QED
  BY <1>10, <1>14, <1>15, <1>16, <1>17, <1>18, <1>19, <1>20, <1>21 DEF Parts

\* Steps that leave the comparison alone, and of the values sent those compared.
LEMMA CountsKeep ==
    ASSUME Parts, UNCHANGED <<_error_max, compare_cnt, mask_compare_cnt, ignore_cnt, error_cnt, aborted>>,
           \A k \in 1 .. compare_cnt : golden'[k] = golden[k] /\ dut'[k] = dut[k]
    PROVE  CountsBySets'
<1>1. compare_cnt \in Nat /\ CountsBySets
  BY DEF Parts, ResultsTyped
<1>2. /\ Ranks("_error")' \cap (1 .. compare_cnt) = Ranks("_error") \cap (1 .. compare_cnt)
      /\ Ranks("_ignore")' \cap (1 .. compare_cnt) = Ranks("_ignore") \cap (1 .. compare_cnt)
      /\ Masked' \cap (1 .. compare_cnt) = Masked \cap (1 .. compare_cnt)
  <2>1. \A k \in 1 .. compare_cnt : /\ Outcome(k)' = Outcome(k)
                                   /\ golden'[k].use_mask = golden[k].use_mask
    BY DEF Outcome, Equal
  <2>2. \A k \in 1 .. compare_cnt : k \in Nat
    BY <1>1
  <2> QED
    BY <2>1, <2>2 DEF Ranks, Masked
<1> QED
  BY <1>1, <1>2 DEF CountsBySets

\* Steps that leave fifos and comparison alone.
LEMMA SchedulingKeeps ==
    ASSUME Parts, KernelTyped', UNCHANGED <<_error_max, fifos, comparison>>,
           announced' \in 0 .. MaxSent, requested' = requested, WaitsForLacking', Announced'
    PROVE  Parts'
<1>1. /\ _error_max \in ErrorMaxes /\ FifosTyped /\ ResultsTyped /\ FlagsTyped
      /\ GotInStep /\ SignalsOneApart
  BY DEF Parts
<1>2. CountsBySets'
  BY CountsKeep DEF fifos, comparison
<1>3. FifosTyped' /\ ResultsTyped' /\ FlagsTyped' /\ SignalsOneApart'
  BY <1>1 DEF FifosTyped, ResultsTyped, FlagsTyped, SignalsOneApart, fifos, comparison
<1>4. GotInStep'
  BY <1>1 DEF GotInStep, Sent, fifos, comparison
<1> QED
  BY <1>1, <1>2, <1>3, <1>4 DEF Parts

LEMMA SendKeeps ==
    ASSUME Parts, NEW s \in Sides, Send(s)
    PROVE  Parts'
<1>1. /\ _error_max \in ErrorMaxes
      /\ KernelTyped /\ FifosTyped /\ ResultsTyped /\ FlagsTyped
      /\ GotInStep /\ WaitsForLacking /\ Announced /\ SignalsOneApart
  BY DEF Parts
<1>2. /\ UNCHANGED <<_error_max, visible, comparison, announced>>
      /\ requested' = requested \cup {s} /\ waits' = waits /\ notified' = notified
  BY DEF Send, Request
<1>3. /\ compare_cnt \in Nat /\ MaxSent \in Nat
      /\ \A t \in Sides : Sent(t) \in Nat /\ compare_cnt <= Sent(t)
  <2>1. TypeOK
    BY <1>1, TypeParts
  <2>2. /\ compare_cnt \in Nat /\ MaxSent \in Nat
        /\ \A t \in Sides : Sent(t) \in Nat /\ visible[t] \in Nat /\ compare_cnt <= visible[t]
    BY <1>1, <2>1, Numbers
  <2>3. \A t \in Sides : visible[t] <= Sent(t)
    BY <1>1 DEF GotInStep
  <2> QED
    BY <2>2, <2>3
<1>4. /\ golden' \in Seq(Golden) /\ dut' \in Seq(Values)
      /\ \A k \in 1 .. compare_cnt : golden'[k] = golden[k] /\ dut'[k] = dut[k]
      /\ \A t \in Sides : Sent(t)' = IF t = s THEN Sent(t) + 1 ELSE Sent(t)
  <2>1. compare_cnt <= Len(golden) /\ compare_cnt <= Len(dut)
    BY <1>3 DEF Sent, Sides
  <2>2. CASE s = "golden"
    <3>1. PICK g \in Golden : golden' = Append(golden, g) /\ dut' = dut
      BY <2>2 DEF Send
    <3>2. golden' \in Seq(Golden) /\ Len(golden') = Len(golden) + 1
          /\ \A k \in 1 .. Len(golden) : golden'[k] = golden[k]
      BY <1>1, <3>1 DEF FifosTyped
    <3>3. \A k \in 1 .. compare_cnt : k \in 1 .. Len(golden)
      BY <1>1, <1>3, <2>1 DEF FifosTyped
    <3> QED
      BY <1>1, <2>2, <3>1, <3>2, <3>3 DEF FifosTyped, Sent, Sides
  <2>3. CASE s = "dut"
    <3>1. PICK v \in Values : dut' = Append(dut, v) /\ golden' = golden
      BY <2>3 DEF Send
    <3>2. dut' \in Seq(Values) /\ Len(dut') = Len(dut) + 1
          /\ \A k \in 1 .. Len(dut) : dut'[k] = dut[k]
      BY <1>1, <3>1 DEF FifosTyped
    <3>3. \A k \in 1 .. compare_cnt : k \in 1 .. Len(dut)
      BY <1>1, <1>3, <2>1 DEF FifosTyped
    <3> QED
      BY <1>1, <2>3, <3>1, <3>2, <3>3 DEF FifosTyped, Sent, Sides
  <2> QED
    BY <2>2, <2>3 DEF Sides
<1>5. CountsBySets'
  BY <1>2, <1>4, CountsKeep DEF comparison
<1>6. KernelTyped' /\ FifosTyped' /\ ResultsTyped' /\ FlagsTyped' /\ SignalsOneApart'
  BY <1>1, <1>2, <1>4 DEF KernelTyped, FifosTyped, ResultsTyped, FlagsTyped, SignalsOneApart,
                          comparison
<1>7. Announced' /\ WaitsForLacking'
  BY <1>1, <1>2 DEF Announced, WaitsForLacking, Runnable, comparison
<1>8. GotInStep'
  <2>1. Sent(s) < MaxSent
    BY DEF Send
  <2>2. \A t \in Sides : visible[t] \in Nat
    BY <1>1 DEF FifosTyped
  <2>3. \A t \in Sides : visible[t] <= Sent(t)' /\ Sent(t)' <= MaxSent
    BY <1>1, <1>3, <1>4, <2>1, <2>2 DEF GotInStep
  <2>4. \A t \in Sides : t \notin requested' => visible[t] = Sent(t)'
    BY <1>1, <1>2, <1>4 DEF GotInStep
  <2> QED
    BY <1>1, <1>2, <2>3, <2>4 DEF GotInStep, comparison
<1> QED
  BY <1>1, <1>2, <1>5, <1>6, <1>7, <1>8 DEF Parts

LEMMA UpdateKeeps ==
    ASSUME Parts, NEW s \in Sides, Update(s)
    PROVE  Parts'
<1>1. /\ _error_max \in ErrorMaxes
      /\ KernelTyped /\ FifosTyped /\ ResultsTyped /\ FlagsTyped
      /\ GotInStep /\ WaitsForLacking /\ Announced /\ SignalsOneApart
  BY DEF Parts
<1>2. /\ UNCHANGED <<_error_max, golden, dut, comparison, announced>>
      /\ visible' = [visible EXCEPT ![s] = Sent(s)]
      /\ requested' = requested \ {s} /\ waits' = waits
      /\ notified' = notified \cup (IF Sent(s) > visible[s] THEN {ok_to_get[s]} ELSE {})
  BY DEF Update, UpdateOf
<1>3. CountsBySets'
  BY <1>2, CountsKeep DEF comparison
<1>4. /\ compare_cnt \in Nat /\ MaxSent \in Nat
      /\ \A t \in Sides : /\ Sent(t) \in Nat /\ visible[t] \in Nat /\ received[t] \in Nat
                          /\ visible[t] <= Sent(t) /\ Sent(t) <= MaxSent
                          /\ received[t] <= visible[t]
  <2>1. TypeOK
    BY <1>1, TypeParts
  <2> QED
    BY <1>1, <2>1, Numbers DEF GotInStep
<1>5. \A t \in Sides : /\ visible'[t] = IF t = s THEN Sent(t) ELSE visible[t]
                      /\ Sent(t)' = Sent(t)
  BY <1>1, <1>2 DEF FifosTyped, Sent
<1>6. FifosTyped' /\ ResultsTyped' /\ FlagsTyped' /\ SignalsOneApart'
  <2>1. Sent(s) \in 0 .. MaxSent
    BY <1>4
  <2> QED
    BY <1>1, <1>2, <2>1 DEF FifosTyped, ResultsTyped, FlagsTyped, SignalsOneApart, comparison
<1>7. KernelTyped'
  <2>1. ok_to_get[s] \in Events
    BY DEF ok_to_get, Sides, Events
  <2> QED
    BY <1>1, <1>2, <2>1 DEF KernelTyped
<1>8. GotInStep'
  <2>1. \A t \in Sides : /\ received[t] <= visible'[t] /\ visible'[t] <= Sent(t)'
                        /\ Sent(t)' <= MaxSent
    BY <1>4, <1>5
  <2>2. \A t \in Sides : t \notin requested' => visible'[t] = Sent(t)'
    BY <1>1, <1>2, <1>5 DEF GotInStep
  <2> QED
    BY <1>1, <1>2, <2>1, <2>2 DEF GotInStep, comparison
<1>9. WaitsForLacking'
  <2> SUFFICES ASSUME ~aborted, ~Runnable("compare")
               PROVE  /\ waits["compare"] = Lacking(received)
                      /\ \A t \in Sides : received[t] = compare_cnt /\ visible'[t] > compare_cnt
                             => ok_to_get[t] \in notified'
    BY <1>2 DEF WaitsForLacking, Runnable, Lacking, comparison
  <2>1. /\ waits["compare"] = Lacking(received)
        /\ \A t \in Sides : received[t] = compare_cnt /\ visible[t] > compare_cnt
               => ok_to_get[t] \in notified
    BY <1>1 DEF WaitsForLacking
  <2>2. ASSUME NEW t \in Sides, received[t] = compare_cnt, visible'[t] > compare_cnt
        PROVE  ok_to_get[t] \in notified'
    <3>1. CASE visible[t] > compare_cnt
      BY <1>2, <2>1, <2>2, <3>1
    <3>2. CASE ~(visible[t] > compare_cnt)
      <4>1. t = s /\ Sent(s) > visible[s]
        BY <1>4, <1>5, <2>2, <3>2
      <4> QED
        BY <1>2, <4>1
    <3> QED
      BY <3>1, <3>2
  <2> QED
    BY <2>1, <2>2
<1>10. Announced'
  BY <1>1, <1>2 DEF Announced, comparison
<1> QED
  BY <1>1, <1>2, <1>3, <1>6, <1>7, <1>8, <1>9, <1>10 DEF Parts

LEMMA PauseKeeps ==
    ASSUME Parts, NEW s \in Sides, Pause(s)
    PROVE  Parts'
<1>1. KernelTyped /\ ResultsTyped /\ WaitsForLacking /\ Announced
  BY DEF Parts
<1>2. /\ waits' = [waits EXCEPT ![s] = Clock] /\ requested' = requested /\ notified' = notified
      /\ UNCHANGED <<_error_max, fifos, comparison>> /\ announced' = announced
  BY DEF Pause, WaitFor
<1>3. KernelTyped' /\ waits'["compare"] = waits["compare"]
  BY <1>1, <1>2 DEF KernelTyped, Processes_, Sides
<1>4. WaitsForLacking' /\ Announced'
  BY <1>1, <1>2, <1>3 DEF WaitsForLacking, Announced, Runnable, Lacking, fifos, comparison
<1> QED
  BY <1>1, <1>2, <1>3, <1>4, SchedulingKeeps DEF ResultsTyped

\* The comparator stays asleep only when nothing came that it lacks.
LEMMA CycleKeeps ==
    ASSUME Parts, Cycle
    PROVE  Parts'
<1>1. KernelTyped /\ ResultsTyped /\ WaitsForLacking /\ Announced /\ GotInStep
  BY DEF Parts
<1>2. Processes = Processes_
  BY <1>1 DEF KernelTyped, Processes
<1>3. /\ waits' = [p \in Processes_ |-> IF waits[p] \cap notified # {} THEN {} ELSE waits[p]]
      /\ requested = {} /\ requested' = {} /\ notified' = {} /\ ~aborted
      /\ announced' = IF "_compare" \in notified THEN compare_cnt ELSE announced
      /\ UNCHANGED <<_error_max, fifos, comparison>>
  BY <1>2 DEF Cycle, Deliver, Wake
<1>4. KernelTyped'
  BY <1>1, <1>3 DEF KernelTyped
<1>5. announced' \in 0 .. MaxSent /\ Announced'
  BY <1>1, <1>3 DEF Announced, ResultsTyped, comparison
<1>6. WaitsForLacking'
  <2> SUFFICES ASSUME waits'["compare"] # {}
               PROVE  /\ waits'["compare"] = Lacking(received)
                      /\ \A s \in Sides : ~(received[s] = compare_cnt /\ visible[s] > compare_cnt)
    BY <1>3 DEF WaitsForLacking, Runnable, Lacking, fifos, comparison
  <2>1. waits'["compare"] = waits["compare"] /\ waits["compare"] \cap notified = {}
        /\ waits["compare"] # {}
    BY <1>3 DEF Processes_
  <2>2. /\ waits["compare"] = Lacking(received)
        /\ \A s \in Sides : received[s] = compare_cnt /\ visible[s] > compare_cnt
               => ok_to_get[s] \in notified
    BY <1>1, <1>3, <2>1 DEF WaitsForLacking, Runnable
  <2>3. ASSUME NEW s \in Sides, received[s] = compare_cnt
        PROVE  ok_to_get[s] \in Lacking(received)
    <3>1. compare_cnt \in Nat /\ \A t \in Sides : received[t] \in {compare_cnt, compare_cnt + 1}
      BY <1>1 DEF GotInStep, ResultsTyped
    <3> QED
      BY <2>3, <3>1 DEF Lacking, Sides
  <2> QED
    BY <2>1, <2>2, <2>3
<1> QED
  BY <1>3, <1>4, <1>5, <1>6, SchedulingKeeps

LEMMA TickKeeps ==
    ASSUME Parts, Tick
    PROVE  Parts'
<1>1. KernelTyped /\ ResultsTyped /\ WaitsForLacking /\ Announced
  BY DEF Parts
<1>2. Processes = Processes_
  BY <1>1 DEF KernelTyped, Processes
<1>3. /\ requested' = requested /\ notified' = notified /\ announced' = announced
      /\ UNCHANGED <<_error_max, fifos, comparison>>
      /\ \E P \in SUBSET Processes_ : waits' = [p \in Processes_ |-> IF p \in P THEN {} ELSE waits[p]]
  BY <1>2 DEF Tick, AdvanceTime, Wake
<1>4. KernelTyped' /\ waits'["compare"] \in {{}, waits["compare"]}
  BY <1>1, <1>3 DEF KernelTyped, Processes_
<1>5. WaitsForLacking' /\ Announced'
  BY <1>1, <1>3, <1>4 DEF WaitsForLacking, Announced, Runnable, Lacking, fifos, comparison
<1> QED
  BY <1>1, <1>3, <1>4, <1>5, SchedulingKeeps DEF ResultsTyped

LEMMA StutterKeeps ==
    ASSUME Parts, UNCHANGED vars
    PROVE  Parts'
<1>1. KernelTyped /\ ResultsTyped /\ WaitsForLacking /\ Announced
  BY DEF Parts
<1>2. /\ waits' = waits /\ requested' = requested /\ notified' = notified
      /\ announced' = announced /\ UNCHANGED <<_error_max, fifos, comparison>>
  BY DEF vars, kernel
<1>3. KernelTyped' /\ WaitsForLacking' /\ Announced'
  BY <1>1, <1>2 DEF KernelTyped, WaitsForLacking, Announced, Runnable, Lacking, fifos, comparison
<1> QED
  BY <1>1, <1>2, <1>3, SchedulingKeeps DEF ResultsTyped

LEMMA InitParts == Init => Parts
<1> SUFFICES ASSUME Init PROVE Parts
  OBVIOUS
<1>1. 0 \in 0 .. MaxSent
  BY ComparatorAssumption DEF ComparatorAssumption
<1>2. KernelTyped /\ FifosTyped /\ ResultsTyped /\ FlagsTyped /\ _error_max \in ErrorMaxes
  <2>1. KernelTyped
    BY DEF Init, KernelInit, KernelTyped
  <2>2. golden \in Seq(Golden) /\ dut \in Seq(Values)
    BY DEF Init
  <2>3. FifosTyped
    BY <1>1, <2>2 DEF Init, FifosTyped
  <2>4. ResultsTyped
    BY <1>1 DEF Init, ResultsTyped
  <2>5. FlagsTyped /\ _error_max \in ErrorMaxes
    BY DEF Init, FlagsTyped
  <2> QED
    BY <2>1, <2>3, <2>4, <2>5
<1>3. GotInStep
  BY <1>1 DEF Init, KernelInit, GotInStep, Sent, Sides
<1>4. WaitsForLacking /\ Announced /\ SignalsOneApart
  BY DEF Init, KernelInit, WaitsForLacking, Runnable, Processes_, Announced, SignalsOneApart, Sides
<1>5. CountsBySets
  <2>1. \A S : Cardinality(S \cap (1 .. 0)) = 0
    <3>1. \A S : S \cap (1 .. 0) = {}
      OBVIOUS
    <3> QED
      BY <3>1, FS_EmptySet
  <2>2. compare_cnt = 0 /\ error_cnt = 0 /\ ignore_cnt = 0 /\ mask_compare_cnt = 0
        /\ aborted = FALSE /\ _error_max \in Int
    BY ComparatorAssumption DEF Init, ComparatorAssumption
  <2> QED
    BY <2>1, <2>2 DEF CountsBySets
<1> QED
  BY <1>2, <1>3, <1>4, <1>5 DEF Parts

LEMMA StepKeeps == Parts /\ [Next]_vars => Parts'
<1> SUFFICES ASSUME Parts, [Next]_vars
             PROVE  Parts'
  OBVIOUS
<1>1. CASE Compare
  BY <1>1, CompareKeeps
<1>2. ASSUME NEW s \in Sides, Send(s) \/ Pause(s) \/ Update(s)
      PROVE  Parts'
  BY <1>2, SendKeeps, PauseKeeps, UpdateKeeps
<1>3. CASE Cycle
  BY <1>3, CycleKeeps
<1>4. CASE Tick
  BY <1>4, TickKeeps
<1>5. CASE Ended \/ UNCHANGED vars
  BY <1>5, StutterKeeps DEF Ended
<1> QED
  BY <1>1, <1>2, <1>3, <1>4, <1>5 DEF Next

-----------------------------------------------------------------------------
(***************************************************************************)
(* The theorems                                                            *)
(***************************************************************************)

\* The invariant that every step of the comparator keeps.
THEOREM Invariance == Spec => []IInv
<1>1. Init => IInv
  BY InitParts, InvIsParts
<1>2. IInv /\ [Next]_vars => IInv'
  <2>1. IInv' <=> Parts'
    BY InvIsParts, PTL
  <2> QED
    BY <2>1, InvIsParts, StepKeeps
<1> QED
  BY <1>1, <1>2, PTL DEF Spec

\* Every variable of the comparator keeps its type.
THEOREM TypeCorrect == Spec => []TypeOK
<1>1. IInv => TypeOK
  BY DEF IInv
<1> QED
  BY <1>1, Invariance, PTL

\* Errors, ignored and masked comparisons are those of the pairs of equal rank, and
\* a limit of errors is never exceeded (mc_comparator.h:267-332).
THEOREM CountsCorrect == Spec => []CountsAddUp
<1>1. IInv => CountsAddUp
  BY DEF IInv
<1> QED
  BY <1>1, Invariance, PTL

\* The signals show values of one rank, or the golden one is one behind.
THEOREM SignalsCorrect == Spec => []SignalsOneApart
<1>1. IInv => SignalsOneApart
  BY DEF IInv
<1> QED
  BY <1>1, Invariance, PTL

\* A passing check means that every captured value met an equal one of its rank, or
\* was to be ignored (mc_comparator.h:150-179).
THEOREM PassingIsEqual == Spec => []PassMeansEqual
<1>1. IInv => PassMeansEqual
  <2> SUFFICES ASSUME IInv, NEW skip_noerr \in BOOLEAN,
                      ~Failed(Len(golden), skip_noerr), NEW k \in DOMAIN golden
               PROVE  k \in DOMAIN dut /\ (Equal(k) \/ golden[k].ignore)
    BY DEF PassMeansEqual
  <2>1. TypeOK /\ GotInStep /\ golden \in Seq(Golden) /\ dut \in Seq(Values)
        /\ compare_cnt \in Nat /\ error_cnt \in Nat
    BY DEF IInv, TypeOK
  <2>2. error_cnt = 0 /\ Len(golden) <= compare_cnt
    BY <2>1 DEF Failed
  <2>3. compare_cnt <= Len(dut)
    <3>1. "dut" \in Sides /\ compare_cnt <= visible["dut"] /\ visible["dut"] \in Nat
      BY <2>1, Numbers DEF Sides
    <3>2. visible["dut"] <= Len(dut)
      BY <2>1, <3>1 DEF GotInStep, Sent
    <3> QED
      BY <2>1, <3>1, <3>2
  <2>4. k \in 1 .. compare_cnt /\ k \in DOMAIN dut
    BY <2>1, <2>2, <2>3
  <2>5. Outcome(k) # "_error"
    <3>1. CountsBySets
      BY <2>1, CountsAreBySets DEF IInv
    <3>2. Cardinality(Ranks("_error") \cap (1 .. compare_cnt)) = 0
      BY <2>2, <3>1 DEF CountsBySets
    <3>3. Ranks("_error") \cap (1 .. compare_cnt) = {}
      BY <2>1, <3>2, PartFinite, FS_EmptySet
    <3> QED
      BY <2>4, <3>3 DEF Ranks
  <2> QED
    BY <2>4, <2>5 DEF Outcome
<1> QED
  BY <1>1, Invariance, PTL

\* When the cycle has ended all pairs that have come are compared and announced
\* (mc_comparator.h:337-343).
THEOREM AllPairsCompared == Spec => []ComparesAllPairs
<1>1. IInv => ComparesAllPairs
  <2> SUFFICES ASSUME IInv, Quiet, ~aborted
               PROVE  /\ compare_cnt = Min2(Len(golden), Len(dut))
                      /\ announced = compare_cnt
    BY DEF ComparesAllPairs
  <2>1. /\ TypeOK /\ GotInStep /\ WaitsForLacking /\ requested = {} /\ notified = {}
        /\ announced = compare_cnt
    BY DEF IInv, Quiet
  <2>2. ~Runnable("compare")
    BY <2>1 DEF Quiet, AllWait, Processes, TypeOK, KernelTypeOK, Processes_
  <2>3. \A s \in Sides : received[s] = compare_cnt => ~(visible[s] > compare_cnt)
    BY <2>1, <2>2 DEF WaitsForLacking
  <2>4. \A s \in Sides : visible[s] = Sent(s) /\ compare_cnt <= visible[s] /\ visible[s] \in Nat
    BY <2>1, Numbers DEF GotInStep
  <2>5. compare_cnt \in Nat /\ \E s \in Sides : received[s] = compare_cnt
    BY <2>1, Numbers DEF GotInStep
  <2>6. \E s \in Sides : visible[s] = compare_cnt
    BY <2>3, <2>4, <2>5
  <2> QED
    BY <2>1, <2>4, <2>5, <2>6 DEF Min2, Sent, Sides
<1> QED
  BY <1>1, Invariance, PTL

-----------------------------------------------------------------------------
(***************************************************************************)
(* The transactor in front of the comparator                               *)
(***************************************************************************)

\* The queue all holds the parts given when block b gives d.
GivenWith(b, d) == [results EXCEPT ![b] = Append(results[b], d)]

Holds(all, given, b, d) ==
    /\ all \in Seq([Blocks -> Contents]) /\ all # <<>>
    /\ given \in [Blocks -> Seq(Contents)]
    /\ given[b] = Append(results[b], d) /\ Len(given[b]) = Len(results[b]) + 1
    /\ \A c \in Blocks : c # b => given[c] = results[c]
    /\ \A c \in Blocks :
        /\ Len(given[c]) <= Len(dut) + Len(all)
        /\ \A i \in 1 .. Len(all) : Len(dut) + i <= Len(given[c]) =>
               all[i][c] = given[c][Len(dut) + i]

LEMMA ReceivedIs ==
    ASSUME Numbered, Gathered, NEW b \in Blocks, NEW d \in Contents, _trans[b] > 0
    PROVE  Holds(Received(b, _trans[b], d), GivenWith(b, d), b, d)
<1>0. PICK all, given : all = Received(b, _trans[b], d) /\ given = GivenWith(b, d)
  OBVIOUS
<1> DEFINE D == Len(dut)
           n == Len(results[b])
           L == Len(_values)
           p == n + 1 - D
           ext == Extended(_trans[b])
<1>1. /\ D \in Nat /\ n \in Nat /\ L \in Nat /\ n >= D /\ n <= D + L
      /\ _trans[b] = n + 1 /\ _trans_begin = D + 1
      /\ results \in [Blocks -> Seq(Contents)] /\ _values \in Seq([Blocks -> Contents])
  <2>1. /\ _trans[b] \in Nat /\ results[b] \in Seq(Contents) /\ dut \in Seq(Values)
        /\ _values \in Seq([Blocks -> Contents]) /\ results \in [Blocks -> Seq(Contents)]
        /\ _trans_begin = D + 1 /\ n >= D /\ n = IF _trans[b] = 0 THEN 0 ELSE _trans[b] - 1
    BY DEF Numbered, Gathered
  <2>2. n <= D + L
    BY DEF Gathered
  <2>3. D \in Nat /\ n \in Nat /\ L \in Nat
    BY <2>1
  <2> QED
    BY <2>1, <2>2, <2>3
<1>2. PICK M \in Nat : M = (IF p > L THEN p ELSE L) /\ p \in 1 .. M /\ L <= M
  BY <1>1
<1>3. ext = [i \in 1 .. M |-> IF i <= L THEN _values[i] ELSE Blank]
  BY <1>1, <1>2 DEF Extended
<1>4. Blank \in [Blocks -> Contents] /\ \A i \in 1 .. L : _values[i] \in [Blocks -> Contents]
  BY <1>1, BlocksAssumption DEF Blank, BlocksAssumption
<1>5. \A i \in 1 .. M : ext[i] \in [Blocks -> Contents]
  <2> SUFFICES ASSUME NEW i \in 1 .. M PROVE ext[i] \in [Blocks -> Contents]
    OBVIOUS
  <2>1. i <= L => i \in 1 .. L
    BY <1>1, <1>2
  <2> QED
    BY <1>3, <1>4, <2>1
<1>6. all = [ext EXCEPT ![p] = [@ EXCEPT ![b] = d]]
  BY <1>0, <1>1 DEF Received
<1> HIDE DEF ext
<1>7. all = [i \in 1 .. M |-> IF i = p THEN [ext[p] EXCEPT ![b] = d] ELSE ext[i]]
  BY <1>2, <1>3, <1>6
<1>8. \A i \in 1 .. M : all[i] \in [Blocks -> Contents]
  BY <1>2, <1>5, <1>7
<1>9. all \in Seq([Blocks -> Contents]) /\ Len(all) = M /\ all # <<>>
  <2>1. all \in [1 .. M -> [Blocks -> Contents]]
    BY <1>7, <1>8
  <2>2. all \in Seq([Blocks -> Contents]) /\ Len(all) = M
    BY <2>1
  <2> QED
    BY <1>2, <2>2
<1>10. /\ given \in [Blocks -> Seq(Contents)]
       /\ given[b] = Append(results[b], d) /\ Len(given[b]) = n + 1
       /\ \A c \in Blocks : c # b => given[c] = results[c]
       /\ given[b][n + 1] = d /\ \A i \in 1 .. n : given[b][i] = results[b][i]
  BY <1>0, <1>1 DEF GivenWith
<1>11. ASSUME NEW c \in Blocks
       PROVE  Len(given[c]) <= D + M
  <2>1. CASE c = b
    BY <1>1, <1>2, <1>10, <2>1
  <2>2. CASE c # b
    <3>1. Len(results[c]) <= D + L /\ Len(results[c]) \in Nat
      BY <1>1 DEF Gathered
    <3> QED
      BY <1>1, <1>2, <1>10, <2>2, <3>1
  <2> QED
    BY <2>1, <2>2
<1>12. ASSUME NEW c \in Blocks, NEW i \in 1 .. M, D + i <= Len(given[c])
       PROVE  all[i][c] = given[c][D + i]
  <2>1. CASE c = b /\ i = p
    <3>1. all[i][c] = d
      BY <1>2, <1>5, <1>7, <2>1
    <3> QED
      BY <1>1, <1>10, <2>1, <3>1
  <2>2. CASE ~(c = b /\ i = p)
    <3>1. D + i <= Len(results[c]) /\ Len(results[c]) \in Nat
      BY <1>1, <1>2, <1>10, <1>12, <2>2
    <3>2. i \in 1 .. L
      BY <1>1, <3>1 DEF Gathered
    <3>3. _values[i][c] = results[c][D + i]
      BY <3>1, <3>2 DEF Gathered
    <3>4. all[i][c] = ext[i][c]
      BY <1>2, <1>5, <1>7, <2>2
    <3>5. ext[i][c] = _values[i][c]
      BY <1>1, <1>3, <3>2
    <3>6. given[c][D + i] = results[c][D + i]
      <4>1. CASE c = b
        <5>1. D + i \in 1 .. n
          BY <1>1, <3>1, <4>1
        <5> QED
          BY <1>10, <4>1, <5>1
      <4> QED
        BY <1>10, <4>1
    <3> QED
      BY <3>3, <3>4, <3>5, <3>6
  <2> QED
    BY <2>1, <2>2
<1> QED
  BY <1>0, <1>9, <1>10, <1>11, <1>12 DEF Holds

\* A block that ends a transaction comes after all first exchanges.
LEMMA ExchangeAfterAll ==
    ASSUME InStep, NEW b \in Blocks, b \in due, _trans[b] # 0
    PROVE  \A c \in Blocks : _trans[c] # 0
  BY DEF InStep

\* A step that leaves the transactor's numbers and values alone.
LEMMA ValuesKeep ==
    ASSUME Gathering, dut' = dut, UNCHANGED <<_trans, _trans_begin, _values, results>>
    PROVE  Numbered' /\ Gathered' /\ DumpsWholeTransactions'
<1>1. Numbered /\ Gathered /\ DumpsWholeTransactions
  BY DEF Gathering
<1>2. Numbered'
  BY <1>1 DEF Numbered
<1>3. Gathered'
  BY <1>1 DEF Gathered
<1>4. DumpsWholeTransactions'
  BY <1>1 DEF DumpsWholeTransactions
<1> QED
  BY <1>2, <1>3, <1>4

LEMMA FirstExchangeKeeps ==
    ASSUME Gathering, NEW b \in Blocks, FirstExchange(b)
    PROVE  Gathering'
<1>1. Numbered /\ Gathered /\ InStep /\ DumpsWholeTransactions
  BY DEF Gathering
<1>2. /\ _trans[b] = 0 /\ b \in due /\ due' = due \ {b} /\ waits["dut"] = {}
      /\ _trans' = [_trans EXCEPT ![b] = 1]
      /\ UNCHANGED <<vars, _trans_begin, _values, results>>
  BY DEF FirstExchange, Edge, Runnable
<1>3. dut' = dut /\ waits' = waits
  BY <1>2 DEF vars, fifos, kernel
<1>4. \A c \in Blocks : _trans'[c] = IF c = b THEN 1 ELSE _trans[c]
  BY <1>1, <1>2 DEF Numbered
<1>5. Numbered'
  <2>1. _trans' \in [Blocks -> Nat]
    BY <1>1, <1>2 DEF Numbered
  <2>2. \A c \in Blocks : Len(results[c]) = IF _trans'[c] = 0 THEN 0 ELSE _trans'[c] - 1
    BY <1>1, <1>2, <1>4 DEF Numbered
  <2> QED
    BY <1>1, <1>2, <1>3, <2>1, <2>2 DEF Numbered
<1>6. Gathered'
  BY <1>1, <1>2, <1>3 DEF Gathered
<1>7. DumpsWholeTransactions'
  BY <1>1, <1>2, <1>3 DEF DumpsWholeTransactions
<1>8. InStep'
  <2>1. \A c \in Blocks : _trans[c] = IF c \in due THEN 0 ELSE 1
    BY <1>1, <1>2 DEF InStep
  <2>2. \A c \in Blocks : _trans'[c] = IF c \in due' THEN 0 ELSE 1
    BY <1>2, <1>4, <2>1
  <2> QED
    BY <1>2, <1>3, <2>2 DEF InStep, Runnable
<1> QED
  BY <1>5, <1>6, <1>7, <1>8 DEF Gathering

LEMMA NoExchangeKeeps ==
    ASSUME Gathering, NEW b \in Blocks, NoExchange(b)
    PROVE  Gathering'
<1>1. /\ _trans[b] # 0 /\ b \in due /\ waits["dut"] = {}
      /\ UNCHANGED <<vars, _trans, _trans_begin, _values, results>>
  <2>1. _trans[b] \in Nat
    BY DEF Gathering, Numbered
  <2> QED
    BY <2>1 DEF NoExchange, Edge, Runnable
<1>2. dut' = dut /\ waits' = waits
  BY <1>1 DEF vars, fifos, kernel
<1>3. InStep'
  <2>1. \A c \in Blocks : _trans[c] # 0
    BY <1>1, ExchangeAfterAll DEF Gathering
  <2> QED
    BY <1>1, <1>2, <2>1 DEF InStep, Runnable
<1> QED
  BY <1>1, <1>2, <1>3, ValuesKeep DEF Gathering

\* The end of a transaction on a block, with the oldest value completed or not.
LEMMA ExchangeKeeps ==
    ASSUME Gathering, NEW b \in Blocks, Exchange(b)
    PROVE  /\ Gathering'
           /\ OldestCompletedBy(b) => Send("dut")
           /\ ~OldestCompletedBy(b) => UNCHANGED vars
<1>1. Numbered /\ Gathered /\ InStep /\ DumpsWholeTransactions
  BY DEF Gathering
<1>2. PICK d \in Contents :
        LET all == Received(b, _trans[b], d)
        IN  /\ Edge(b)
            /\ _trans' = [_trans EXCEPT ![b] = @ + 1]
            /\ results' = [results EXCEPT ![b] = Append(@, d)]
            /\ \/ /\ OldestCompletedBy(b)
                  /\ dut' = Append(dut, value_of[Head(all)])
                  /\ _values' = Tail(all)
                  /\ _trans_begin' = _trans_begin + 1
                  /\ Request({"dut"})
                  /\ UNCHANGED <<_error_max, golden, visible, comparison, announced>>
               \/ /\ ~OldestCompletedBy(b)
                  /\ _values' = all
                  /\ UNCHANGED <<vars, _trans_begin>>
  BY DEF Exchange
<1>3. /\ b \in due /\ due' = due \ {b} /\ Runnable("dut") /\ ~aborted
      /\ _trans[b] \in 1 .. MaxSent
  BY <1>2 DEF Edge, Exchange
<1>4. \A c \in Blocks : _trans[c] # 0
  BY <1>1, <1>3, ExchangeAfterAll
<1>5. PICK all : all = Received(b, _trans[b], d)
  OBVIOUS
<1> DEFINE D == Len(dut)
<1>6. /\ all \in Seq([Blocks -> Contents]) /\ all # <<>>
      /\ results' \in [Blocks -> Seq(Contents)]
      /\ Len(results'[b]) = Len(results[b]) + 1
      /\ results'[b] = Append(results[b], d)
      /\ \A c \in Blocks : c # b => results'[c] = results[c]
      /\ \A c \in Blocks :
           /\ Len(results'[c]) <= D + Len(all)
           /\ \A i \in 1 .. Len(all) : D + i <= Len(results'[c]) =>
                  all[i][c] = results'[c][D + i]
  <2>1. d \in Contents /\ _trans[b] > 0 /\ results' = GivenWith(b, d)
    BY <1>2, <1>3 DEF GivenWith
  <2>2. Holds(Received(b, _trans[b], d), GivenWith(b, d), b, d)
    BY <1>1, <2>1, ReceivedIs
  <2> QED
    BY <1>5, <2>1, <2>2 DEF Holds
<1>7. /\ D \in Nat /\ dut \in Seq(Values) /\ MaxSent \in Nat /\ _trans_begin = D + 1
      /\ \A c \in Blocks : /\ Len(results[c]) \in Nat /\ Len(results[c]) >= D
                           /\ _trans[c] = Len(results[c]) + 1
                           /\ results[c] \in Seq(Contents)
  <2>1. dut \in Seq(Values) /\ MaxSent \in Nat
    BY <1>1, ComparatorAssumption DEF Numbered, ComparatorAssumption
  <2>2. ASSUME NEW c \in Blocks
        PROVE  /\ Len(results[c]) \in Nat /\ Len(results[c]) >= D
               /\ _trans[c] = Len(results[c]) + 1 /\ results[c] \in Seq(Contents)
    <3>1. /\ _trans[c] \in Nat /\ results[c] \in Seq(Contents) /\ Len(results[c]) >= D
          /\ Len(results[c]) = IF _trans[c] = 0 THEN 0 ELSE _trans[c] - 1
      BY <1>1 DEF Numbered
    <3> QED
      BY <1>4, <3>1
  <2> QED
    BY <1>1, <2>1, <2>2 DEF Numbered
<1>8. \A c \in Blocks : /\ _trans'[c] = Len(results'[c]) + 1 /\ Len(results'[c]) \in Nat
                       /\ Len(results'[c]) >= D
                       /\ \A k \in 1 .. D : k \in DOMAIN results'[c] /\ results'[c][k] = results[c][k]
  <2> SUFFICES ASSUME NEW c \in Blocks
               PROVE  /\ _trans'[c] = Len(results'[c]) + 1 /\ Len(results'[c]) \in Nat
                      /\ Len(results'[c]) >= D
                      /\ \A k \in 1 .. D : k \in DOMAIN results'[c] /\ results'[c][k] = results[c][k]
    OBVIOUS
  <2>1. _trans' = [_trans EXCEPT ![b] = @ + 1] /\ _trans \in [Blocks -> Nat]
    BY <1>1, <1>2 DEF Numbered
  <2>2. CASE c = b
    <3>1. _trans'[c] = Len(results'[c]) + 1 /\ Len(results'[c]) \in Nat /\ Len(results'[c]) >= D
      BY <1>6, <1>7, <2>1, <2>2
    <3>2. \A k \in 1 .. Len(results[b]) : k \in DOMAIN results'[b] /\ results'[b][k] = results[b][k]
      BY <1>6, <1>7
    <3>3. \A k \in 1 .. D : k \in 1 .. Len(results[b])
      BY <1>7
    <3> QED
      BY <2>2, <3>1, <3>2, <3>3
  <2>3. CASE c # b
    <3>1. results'[c] = results[c] /\ _trans'[c] = _trans[c]
      BY <1>6, <2>1, <2>3
    <3> QED
      BY <1>7, <3>1
  <2> QED
    BY <2>2, <2>3
<1>9. _trans' \in [Blocks -> Nat]
  BY <1>1, <1>2 DEF Numbered
<1>10. \A c \in Blocks : _trans'[c] # 0
  BY <1>8
<1>11. CASE OldestCompletedBy(b)
  <2>1. /\ dut' = Append(dut, value_of[Head(all)]) /\ _values' = Tail(all)
        /\ _trans_begin' = _trans_begin + 1 /\ Request({"dut"})
        /\ UNCHANGED <<_error_max, golden, visible, comparison, announced>>
    BY <1>2, <1>5, <1>11, Zenon
  <2>2. \A c \in Blocks : Len(results'[c]) >= D + 1
    <3> SUFFICES ASSUME NEW c \in Blocks PROVE Len(results'[c]) >= D + 1
      OBVIOUS
    <3>1. CASE c = b
      BY <1>6, <1>7, <3>1
    <3>2. CASE c # b
      <4>1. _trans[c] # _trans_begin
        BY <1>11, <3>2 DEF OldestCompletedBy
      <4> QED
        BY <1>6, <1>7, <3>2, <4>1
    <3> QED
      BY <3>1, <3>2
  <2>3. Len(results'[b]) = D + 1
    BY <1>6, <1>7, <1>11 DEF OldestCompletedBy
  <2>4. /\ Head(all) = all[1] /\ all[1] \in [Blocks -> Contents] /\ Len(all) \in Nat /\ Len(all) >= 1
        /\ Tail(all) \in Seq([Blocks -> Contents]) /\ Len(Tail(all)) = Len(all) - 1
        /\ \A i \in 1 .. Len(Tail(all)) : Tail(all)[i] = all[i + 1]
    BY <1>6
  <2>5. all[1] = [c \in Blocks |-> results'[c][D + 1]]
    <3>1. \A c \in Blocks : all[1][c] = results'[c][D + 1]
      BY <1>6, <1>7, <2>2, <2>4
    <3> QED
      BY <2>4, <3>1
  <2>6. value_of[all[1]] \in Values
    BY <2>4, BlocksAssumption DEF BlocksAssumption
  <2>7. /\ dut' \in Seq(Values) /\ Len(dut') = D + 1
        /\ dut'[D + 1] = value_of[all[1]]
        /\ \A k \in 1 .. D : dut'[k] = dut[k]
    BY <1>7, <2>1, <2>4, <2>6
  <2>8. Numbered'
    <3>1. \A c \in Blocks : Len(results'[c]) = IF _trans'[c] = 0 THEN 0 ELSE _trans'[c] - 1
      BY <1>8
    <3>2. _trans_begin' = Len(dut') + 1
      BY <1>7, <2>1, <2>7
    <3>3. \E c \in Blocks : Len(results'[c]) = Len(dut')
      BY <2>3, <2>7
    <3>4. \A c \in Blocks : Len(results'[c]) >= Len(dut')
      BY <2>2, <2>7
    <3> QED
      BY <1>6, <1>9, <2>7, <3>1, <3>2, <3>3, <3>4 DEF Numbered
  <2>9. Gathered'
    <3> SUFFICES ASSUME NEW c \in Blocks
                 PROVE  /\ Len(results'[c]) <= Len(dut') + Len(Tail(all))
                        /\ \A i \in 1 .. Len(Tail(all)) : Len(dut') + i <= Len(results'[c]) =>
                               Tail(all)[i][c] = results'[c][Len(dut') + i]
      BY <2>1, <2>4 DEF Gathered
    <3>1. Len(results'[c]) <= Len(dut') + Len(Tail(all))
      BY <1>6, <1>7, <1>8, <2>4, <2>7
    <3>2. ASSUME NEW i \in 1 .. Len(Tail(all)), Len(dut') + i <= Len(results'[c])
          PROVE  Tail(all)[i][c] = results'[c][Len(dut') + i]
      <4>1. i + 1 \in 1 .. Len(all) /\ D + (i + 1) = Len(dut') + i
        BY <1>7, <2>4, <2>7
      <4>2. all[i + 1][c] = results'[c][D + (i + 1)]
        BY <1>6, <3>2, <4>1
      <4> QED
        BY <2>4, <4>1, <4>2
    <3> QED
      BY <3>1, <3>2
  <2>10. DumpsWholeTransactions'
    <3>1. ASSUME NEW k \in DOMAIN dut'
          PROVE  /\ \A c \in Blocks : k \in DOMAIN results'[c]
                 /\ dut'[k] = value_of[[c \in Blocks |-> results'[c][k]]]
      <4>1. k \in 1 .. D \/ k = D + 1
        BY <1>7, <2>7, <3>1
      <4>2. CASE k \in 1 .. D
        <5>1. k \in DOMAIN dut
          BY <1>7, <4>2
        <5>2. dut[k] = value_of[[c \in Blocks |-> results[c][k]]]
          BY <1>1, <5>1 DEF DumpsWholeTransactions
        <5>3. [c \in Blocks |-> results[c][k]] = [c \in Blocks |-> results'[c][k]]
          BY <1>8, <4>2
        <5> QED
          BY <1>8, <2>7, <4>2, <5>2, <5>3
      <4>3. CASE k = D + 1
        <5>1. \A c \in Blocks : results'[c] \in Seq(Contents) /\ k \in 1 .. Len(results'[c])
          BY <1>6, <1>7, <1>8, <2>2, <4>3
        <5> QED
          BY <2>5, <2>7, <4>3, <5>1
      <4> QED
        BY <4>1, <4>2, <4>3
    <3>2. \E c \in Blocks : Len(results'[c]) = Len(dut')
      BY <2>3, <2>7
    <3> QED
      BY <3>1, <3>2 DEF DumpsWholeTransactions
  <2>11. InStep'
    <3>1. Runnable("dut")'
      BY <1>3, <2>1 DEF Request, Runnable
    <3> QED
      BY <1>10, <3>1 DEF InStep
  <2>12. Send("dut")
    <3>1. Sent("dut") < MaxSent
      BY <1>3, <1>7, <1>11 DEF Sent, OldestCompletedBy
    <3>2. \E v \in Values : dut' = Append(dut, v)
      BY <2>1, <2>4, <2>6
    <3> QED
      BY <1>3, <2>1, <3>1, <3>2 DEF Send
  <2> QED
    BY <1>11, <2>8, <2>9, <2>10, <2>11, <2>12 DEF Gathering
<1>12. CASE ~OldestCompletedBy(b)
  <2>1. _values' = all /\ UNCHANGED <<vars, _trans_begin>>
    BY <1>2, <1>5, <1>12, Zenon
  <2>2. dut' = dut /\ waits' = waits
    BY <2>1 DEF vars, fifos, kernel
  <2>3. \E c \in Blocks : Len(results'[c]) = D
    <3>1. PICK a \in Blocks : Len(results[a]) = D
      BY <1>1 DEF Numbered
    <3>2. CASE a # b
      BY <1>6, <3>1, <3>2
    <3>3. CASE a = b
      <4>1. PICK c \in Blocks \ {b} : _trans[c] = _trans_begin
        BY <1>7, <1>12, <3>1, <3>3 DEF OldestCompletedBy
      <4>2. Len(results[c]) = D
        BY <1>7, <4>1
      <4> QED
        BY <1>6, <4>1, <4>2
    <3> QED
      BY <3>2, <3>3
  <2>4. Numbered'
    <3>1. \A c \in Blocks : Len(results'[c]) = IF _trans'[c] = 0 THEN 0 ELSE _trans'[c] - 1
      BY <1>8
    <3> QED
      BY <1>1, <1>6, <1>8, <1>9, <2>1, <2>2, <2>3, <3>1 DEF Numbered
  <2>5. Gathered'
    BY <1>6, <2>1, <2>2 DEF Gathered
  <2>6. DumpsWholeTransactions'
    <3>1. ASSUME NEW k \in DOMAIN dut
          PROVE  /\ \A c \in Blocks : k \in DOMAIN results'[c]
                 /\ dut[k] = value_of[[c \in Blocks |-> results'[c][k]]]
      <4>1. k \in 1 .. D
        BY <1>7, <3>1
      <4>2. dut[k] = value_of[[c \in Blocks |-> results[c][k]]]
        BY <1>1, <3>1 DEF DumpsWholeTransactions
      <4>3. [c \in Blocks |-> results[c][k]] = [c \in Blocks |-> results'[c][k]]
        BY <1>8, <4>1
      <4> QED
        BY <1>8, <4>1, <4>2, <4>3
    <3> QED
      BY <2>2, <2>3, <3>1 DEF DumpsWholeTransactions
  <2>7. InStep'
    BY <1>3, <1>10, <2>2 DEF InStep, Runnable
  <2> QED
    BY <1>12, <2>1, <2>4, <2>5, <2>6, <2>7 DEF Gathering
<1> QED
  BY <1>11, <1>12

\* A block's edge starts when its clock ticks, and the others leave it alone.
LEMMA TickGathers ==
    ASSUME Gathering, KernelTyped, CoTick
    PROVE  Gathering'
<1>1. /\ \A p \in Processes_ : waits[p] # {}
      /\ dut' = dut
      /\ due' = IF waits'["dut"] = {} THEN Blocks ELSE due
      /\ UNCHANGED <<_trans, _trans_begin, _values, results>>
  BY DEF CoTick, Tick, AdvanceTime, Quiet, AllWait, Runnable, Processes, KernelTyped, fifos
<1>2. due = {} /\ InStep
  BY <1>1 DEF Gathering, InStep, Runnable, Processes_
<1>3. InStep'
  BY <1>1, <1>2 DEF InStep, Runnable
<1> QED
  BY <1>1, <1>3, ValuesKeep DEF Gathering

LEMMA EdgeDoneGathers ==
    ASSUME Gathering, EdgeDone
    PROVE  Gathering'
<1>1. due = {} /\ dut' = dut /\ UNCHANGED <<_trans, _trans_begin, _values, due, results>>
  BY DEF EdgeDone, Pause, fifos, transactor
<1>2. InStep'
  BY <1>1 DEF Gathering, InStep
<1> QED
  BY <1>1, <1>2, ValuesKeep DEF Gathering

LEMMA EnvironmentGathers ==
    ASSUME Gathering, KernelTyped, Environment \/ UNCHANGED covars
    PROVE  Gathering'
<1>1. UNCHANGED <<_trans, _trans_begin, _values, due, results>>
  BY DEF Environment, transactor, covars
<1>2. dut' = dut /\ (waits'["dut"] = waits["dut"] \/ waits'["dut"] = {})
  <2>1. CASE Compare
    BY <2>1 DEF Compare, fifos, KernelTyped, Processes_
  <2>2. CASE Send("golden")
    BY <2>2 DEF Send, Request
  <2>3. CASE Pause("golden")
    BY <2>3 DEF Pause, WaitFor, fifos, KernelTyped, Processes_
  <2>4. ASSUME NEW s \in Sides, Update(s)
        PROVE  dut' = dut /\ waits' = waits
    BY <2>4 DEF Update, UpdateOf
  <2>5. CASE Cycle
    <3>1. waits' = [p \in Processes_ |-> IF waits[p] \cap notified # {} THEN {} ELSE waits[p]]
      <4>1. Processes = Processes_
        BY DEF KernelTyped, Processes
      <4> QED
        BY <2>5, <4>1 DEF Cycle, Deliver, Wake
    <3> QED
      BY <2>5, <3>1 DEF Cycle, fifos, Processes_
  <2>6. CASE UNCHANGED vars
    BY <2>6 DEF vars, fifos, kernel
  <2> QED
    BY <2>1, <2>2, <2>3, <2>4, <2>5, <2>6 DEF Environment, Ended, covars
<1>3. InStep'
  BY <1>1, <1>2 DEF Gathering, InStep, Runnable
<1> QED
  BY <1>1, <1>2, <1>3, ValuesKeep DEF Gathering

\* Every step of the composition is one of the comparator and its fifos.
LEMMA CoStepImplements ==
    ASSUME Gathering, [CoNext]_covars
    PROVE  [Next]_vars
<1>1. ASSUME NEW b \in Blocks, FirstExchange(b) \/ NoExchange(b)
      PROVE  UNCHANGED vars
  BY <1>1 DEF FirstExchange, NoExchange
<1>2. ASSUME NEW b \in Blocks, Exchange(b)
      PROVE  [Next]_vars
  BY <1>2, ExchangeKeeps DEF Next, Sides
<1>3. CASE EdgeDone
  BY <1>3 DEF EdgeDone, Next, Sides
<1>4. CASE CoTick
  BY <1>4 DEF CoTick, Next
<1>5. CASE Environment
  BY <1>5 DEF Environment, Next, Sides
<1>6. CASE UNCHANGED covars
  BY <1>6 DEF covars
<1> QED
  BY <1>1, <1>2, <1>3, <1>4, <1>5, <1>6 DEF CoNext

LEMMA CoStepGathers ==
    ASSUME Gathering, KernelTyped, [CoNext]_covars
    PROVE  Gathering'
<1>1. ASSUME NEW b \in Blocks, FirstExchange(b) \/ NoExchange(b) \/ Exchange(b)
      PROVE  Gathering'
  BY <1>1, FirstExchangeKeeps, NoExchangeKeeps, ExchangeKeeps
<1>2. CASE EdgeDone
  BY <1>2, EdgeDoneGathers
<1>3. CASE CoTick
  BY <1>3, TickGathers
<1>4. CASE Environment \/ UNCHANGED covars
  BY <1>4, EnvironmentGathers
<1> QED
  BY <1>1, <1>2, <1>3, <1>4 DEF CoNext

LEMMA CoInitGathers == CoInit => Gathering
<1> SUFFICES ASSUME CoInit PROVE Gathering
  OBVIOUS
<1>1. /\ dut = <<>> /\ _trans = [b \in Blocks |-> 0] /\ _trans_begin = 1 /\ _values = <<>>
      /\ due = {} /\ results = [b \in Blocks |-> <<>>]
  BY DEF CoInit, Init
<1>2. Blocks # {}
  BY BlocksAssumption DEF BlocksAssumption
<1>3. Numbered
  BY <1>1, <1>2 DEF Numbered
<1>4. Gathered
  BY <1>1 DEF Gathered
<1>5. InStep
  BY <1>1 DEF InStep
<1>6. DumpsWholeTransactions
  BY <1>1, <1>2 DEF DumpsWholeTransactions
<1> QED
  BY <1>3, <1>4, <1>5, <1>6 DEF Gathering

\* The transactor's and the comparator's invariant hold together.
THEOREM CoInvariance == CoSpec => [](IInv /\ Gathering)
<1>1. CoInit => IInv /\ Gathering
  BY InitParts, InvIsParts, CoInitGathers DEF CoInit
<1>2. IInv /\ Gathering /\ [CoNext]_covars => IInv' /\ Gathering'
  <2> SUFFICES ASSUME IInv, Gathering, [CoNext]_covars
               PROVE  IInv' /\ Gathering'
    OBVIOUS
  <2>1. IInv' <=> Parts'
    BY InvIsParts, PTL
  <2>2. Parts /\ [Next]_vars
    BY InvIsParts, CoStepImplements
  <2>3. KernelTyped
    BY <2>2 DEF Parts
  <2> QED
    BY <2>1, <2>2, <2>3, StepKeeps, CoStepGathers
<1> QED
  BY <1>1, <1>2, PTL DEF CoSpec

\* To the comparator the transactor is a process that puts values into the dut
\* fifo: what holds of the comparator holds of the composition.
THEOREM Composition == CoSpec => Spec
<1>1. CoInit => Init
  BY DEF CoInit
<1>2. Gathering /\ [CoNext]_covars => [Next]_vars
  BY CoStepImplements
<1> QED
  BY <1>1, <1>2, CoInvariance, PTL DEF CoSpec, Spec

\* A value in the dut fifo has the parts that the blocks held at the ends of the
\* transactions of its rank, and none is kept back (mc_transactors.h:705-748).
THEOREM WholeTransactions == CoSpec => []DumpsWholeTransactions
<1>1. Gathering => DumpsWholeTransactions
  BY DEF Gathering
<1> QED
  BY <1>1, CoInvariance, PTL

\* get_value is never asked for a transaction that is gone (mc_transactors.h:643).
THEOREM AssertionHolds == CoSpec => []NotGone
<1>1. Gathering => NotGone
  <2> SUFFICES ASSUME Gathering, NEW b \in Blocks
               PROVE  IF _trans[b] = 0 THEN _trans_begin = 1 ELSE _trans[b] >= _trans_begin
    BY DEF NotGone
  <2>1. /\ _trans[b] \in Nat /\ dut \in Seq(Values) /\ _trans_begin = Len(dut) + 1
        /\ Len(results[b]) = (IF _trans[b] = 0 THEN 0 ELSE _trans[b] - 1)
        /\ Len(results[b]) >= Len(dut)
    BY DEF Gathering, Numbered
  <2>2. Len(dut) \in Nat
    BY <2>1
  <2> QED
    BY <2>1, <2>2
<1> QED
  BY <1>1, CoInvariance, PTL
=============================================================================
