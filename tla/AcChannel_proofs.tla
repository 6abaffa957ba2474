--------------------------- MODULE AcChannel_proofs ---------------------------
(***************************************************************************)
(* Theorems about AcChannel, for every type of values, every size of the   *)
(* sc_fifo and every reset size: what available promises is there, and a   *)
(* reset leaves its values.                                                *)
(***************************************************************************)
EXTENDS AcChannel, SequenceTheorems, TLAPS

LEMMA Constants ==
    InitSizes \subseteq Nat /\ Size \in Nat /\ MaxSize \in Nat /\ MaxCalls \in Nat
  BY AcChannelAssumption DEF AcChannelAssumption

\* A value put into the second of two sequences is at the end of both.
LEMMA PutAtEnd ==
    \A s, t \in Seq(Values), v \in Values :
        /\ s \o Append(t, v) = Append(s \o t, v)
        /\ s \o t \in Seq(Values)
        /\ Len(s \o t) = Len(s) + Len(t)
<1> SUFFICES ASSUME NEW s \in Seq(Values), NEW t \in Seq(Values), NEW v \in Values
             PROVE  /\ s \o Append(t, v) = Append(s \o t, v)
                    /\ s \o t \in Seq(Values)
                    /\ Len(s \o t) = Len(s) + Len(t)
  OBVIOUS
<1>1. <<v>> \in Seq(Values)
  OBVIOUS
<1>2. s \o t \in Seq(Values) /\ Len(s \o t) = Len(s) + Len(t)
  BY ConcatProperties
<1>3. Append(t, v) = t \o <<v>> /\ Append(s \o t, v) = (s \o t) \o <<v>>
  BY <1>2, AppendIsConcat
<1>4. (s \o t) \o <<v>> = s \o (t \o <<v>>)
  BY <1>1, ConcatAssociative
<1> QED
  BY <1>2, <1>3, <1>4

-----------------------------------------------------------------------------
(***************************************************************************)
(* The steps                                                               *)
(***************************************************************************)

\* Steps that leave the content, the promise and the reset as they are.
LEMMA SameKeeps ==
    ASSUME IInv,
           UNCHANGED <<ch, sc_fifo, bound, rSz, rVal, resetting, promised>>,
           got' \in [{"owner", "peer"} -> Values \cup {NoValue}],
           stopped' \in Assertions \cup {"no"}, size_call_count' \in 0 .. MaxCalls
    PROVE  IInv'
<1>1. TypeOK'
  BY DEF IInv, TypeOK, sc_fifo
<1>2. size' = size /\ AvailableCovers'
  BY DEF IInv, AvailableCovers, size, sc_fifo
<1>3. ResetWrote'
  BY DEF IInv, ResetWrote, Inside, sc_fifo
<1> QED
  BY <1>1, <1>2, <1>3 DEF IInv, sc_fifo

\* What a write does.
LEMMA GiveMoves ==
    ASSUME IInv, NEW v \in Values, Give(v), bound' = bound
    PROVE  /\ ch' \in Seq(Values) /\ fresh' \in Seq(Values)
           /\ visible' = visible /\ taken' = taken /\ got' = got
           /\ Len(visible') + taken' + Len(fresh') <= Size
           /\ size' >= size
           /\ bound \in {{}, {"in", "out"}} => Inside' = Append(Inside, v)
<1>1. /\ ch \in Seq(Values) /\ fresh \in Seq(Values) /\ visible \in Seq(Values)
      /\ taken \in Nat /\ Len(visible) + taken + Len(fresh) <= Size
  BY DEF IInv, TypeOK
<1>2. CASE "out" \in bound
  <2>1. /\ Len(visible) + taken + Len(fresh) < Size
        /\ fresh' = Append(fresh, v) /\ visible' = visible /\ taken' = taken /\ got' = got
        /\ ch' = ch
    BY <1>2 DEF Give, Fifo!Put
  <2>2. Len(fresh') = Len(fresh) + 1 /\ fresh' \in Seq(Values)
    BY <1>1, <2>1
  <2>3. bound # {} /\ Inside' = Append(Inside, v)
    BY <1>1, <1>2, <2>1, PutAtEnd DEF Inside
  <2>4. size' = size /\ size \in Nat
    BY <1>1, <2>1 DEF size
  <2>5. Len(visible) \in Nat /\ Len(fresh) \in Nat /\ Size \in Nat
    BY <1>1, Constants
  <2> QED
    BY <1>1, <2>1, <2>2, <2>3, <2>4, <2>5
<1>3. CASE "out" \notin bound
  <2>1. ch' = Append(ch, v) /\ visible' = visible /\ fresh' = fresh /\ taken' = taken /\ got' = got
    BY <1>3 DEF Give, sc_fifo
  <2>2. Len(ch') = Len(ch) + 1 /\ ch' \in Seq(Values)
    BY <1>1, <2>1
  <2>3. bound = {} => Inside' = Append(Inside, v)
    BY <2>1 DEF Inside
  <2>4. size' >= size
    BY <1>1, <2>1, <2>2 DEF size
  <2>5. bound # {"in", "out"}
    BY <1>3
  <2> QED
    BY <1>1, <2>1, <2>2, <2>3, <2>4, <2>5
<1> QED
  BY <1>2, <1>3

LEMMA WriteKeeps ==
    ASSUME IInv, NEW v \in Values, Give(v), resetting = 0,
           UNCHANGED <<control, promised>>, size_call_count' \in 0 .. MaxCalls
    PROVE  IInv'
<1>1. /\ bound' = bound /\ resetting' = 0 /\ promised' = promised /\ rSz' = rSz
      /\ rVal' = rVal /\ stopped' = stopped /\ TypeOK /\ AvailableCovers /\ promised \in Nat
  BY DEF control, IInv, TypeOK
<1>2. /\ ch' \in Seq(Values) /\ fresh' \in Seq(Values)
      /\ visible' = visible /\ taken' = taken /\ got' = got
      /\ Len(visible') + taken' + Len(fresh') <= Size /\ size' >= size
  BY <1>1, GiveMoves
<1>3. TypeOK'
  BY <1>1, <1>2 DEF TypeOK
<1>4. size \in Nat /\ size' \in Nat
  BY <1>1, <1>3 DEF TypeOK, size
<1>5. AvailableCovers'
  BY <1>1, <1>2, <1>4 DEF AvailableCovers
<1> QED
  BY <1>1, <1>2, <1>3, <1>5 DEF IInv, ResetWrote

LEMMA TakeKeeps ==
    ASSUME IInv, Take, size > 0, resetting = 0, size_call_count' \in 0 .. MaxCalls
    PROVE  IInv'
<1>1. /\ bound' = bound /\ resetting' = 0 /\ rSz' = rSz
      /\ rVal' = rVal /\ stopped' = stopped /\ TypeOK /\ AvailableCovers
      /\ promised' = IF promised > 0 THEN promised - 1 ELSE 0
  BY DEF Take, control, IInv
<1>2. /\ ch \in Seq(Values) /\ fresh \in Seq(Values) /\ visible \in Seq(Values)
      /\ taken \in Nat /\ Len(visible) + taken + Len(fresh) <= Size
      /\ promised \in Nat /\ got \in [{"owner", "peer"} -> Values \cup {NoValue}]
  BY DEF IInv, TypeOK
<1>3. /\ ch' \in Seq(Values) /\ visible' \in Seq(Values) /\ fresh' = fresh
      /\ taken' \in 0 .. Size /\ Len(visible') + taken' + Len(fresh') <= Size
      /\ got' \in [{"owner", "peer"} -> Values \cup {NoValue}]
      /\ size' = size - 1 /\ size \in Nat
  <2>1. CASE "in" \in bound
    <3>1. /\ visible # <<>> /\ got' = [got EXCEPT !["owner"] = Head(visible)]
          /\ visible' = Tail(visible) /\ taken' = taken + 1 /\ fresh' = fresh /\ ch' = ch
      BY <2>1 DEF Take, Fifo!Get
    <3>2. Head(visible) \in Values /\ visible' \in Seq(Values) /\ Len(visible') = Len(visible) - 1
      BY <1>2, <3>1
    <3>3. Len(visible) \in Nat /\ Len(fresh) \in Nat /\ Len(visible) > 0 /\ Size \in Nat
      BY <1>2, <3>1, Constants
    <3>4. size = Len(visible) /\ size' = Len(visible')
      BY <1>1, <2>1 DEF size
    <3> QED
      BY <1>2, <3>1, <3>2, <3>3, <3>4
  <2>2. CASE "in" \notin bound
    <3>1. /\ got' = [got EXCEPT !["owner"] = Head(ch)] /\ ch' = Tail(ch)
          /\ visible' = visible /\ fresh' = fresh /\ taken' = taken
      BY <2>2 DEF Take, sc_fifo
    <3>2. size = Len(ch) /\ size' = Len(ch') /\ ch # <<>>
      BY <1>1, <1>2, <2>2 DEF size
    <3>3. Head(ch) \in Values /\ ch' \in Seq(Values) /\ Len(ch') = Len(ch) - 1
      BY <1>2, <3>1, <3>2
    <3>4. taken \in 0 .. Size
      BY <1>1 DEF TypeOK
    <3> QED
      BY <1>2, <3>1, <3>2, <3>3, <3>4
  <2> QED
    BY <2>1, <2>2
<1>4. promised' \in Nat
  BY <1>1, <1>2
<1>5. TypeOK'
  BY <1>1, <1>2, <1>3, <1>4 DEF TypeOK
<1>6. AvailableCovers'
  BY <1>1, <1>2, <1>3 DEF AvailableCovers
<1> QED
  BY <1>1, <1>3, <1>5, <1>6 DEF IInv, ResetWrote

LEMMA InsertKeeps ==
    ASSUME IInv, NEW pos \in Nat, NEW v \in Values, insert(pos, v)
    PROVE  IInv'
<1>1. /\ bound = {} /\ pos <= Len(ch) /\ ch' = InsertAt(ch, pos + 1, v) /\ resetting = 0
      /\ UNCHANGED <<sc_fifo, got, control, promised, size_call_count>>
      /\ ch \in Seq(Values) /\ TypeOK /\ AvailableCovers
  BY DEF insert, Running, NotCounted, IInv, TypeOK
<1>2. ch' \in Seq(Values) /\ Len(ch') = Len(ch) + 1
  <2> DEFINE front == SubSeq(ch, 1, pos)
             back == SubSeq(ch, pos + 1, Len(ch))
  <2>1. front \in Seq(Values) /\ Len(front) = pos
    BY <1>1
  <2>2. back \in Seq(Values) /\ Len(back) = Len(ch) - pos
    BY <1>1
  <2>3. <<v>> \in Seq(Values) /\ Len(<<v>>) = 1
    OBVIOUS
  <2>4. ch' = (front \o <<v>>) \o back
    <3>1. (pos + 1) - 1 = pos
      OBVIOUS
    <3>2. InsertAt(ch, pos + 1, v) = (SubSeq(ch, 1, (pos + 1) - 1) \o <<v>>) \o back
      BY DEF InsertAt
    <3> QED
      BY <1>1, <3>1, <3>2
  <2> HIDE DEF front, back
  <2>5. front \o <<v>> \in Seq(Values) /\ Len(front \o <<v>>) = pos + 1
    BY <2>1, <2>3, ConcatProperties
  <2>6. ch' \in Seq(Values) /\ Len(ch') = (pos + 1) + (Len(ch) - pos)
    <3>1. PICK f \in Seq(Values) : f = front \o <<v>>
      BY <2>5
    <3>2. f \o back \in Seq(Values) /\ Len(f \o back) = Len(f) + Len(back)
      BY <2>2, ConcatProperties
    <3> QED
      BY <2>2, <2>4, <2>5, <3>1, <3>2
  <2>7. Len(ch) \in Nat
    BY <1>1
  <2> QED
    BY <2>6, <2>7
<1>3. TypeOK'
  BY <1>1, <1>2 DEF TypeOK, sc_fifo, control
<1>4. AvailableCovers'
  BY <1>1, <1>2, LenProperties DEF AvailableCovers, size, control, TypeOK
<1> QED
  BY <1>1, <1>3, <1>4 DEF IInv, ResetWrote, control, sc_fifo

\* The beginning of a reset.
LEMMA ResetKeeps ==
    ASSUME IInv, reset
    PROVE  IInv'
<1>1. /\ TypeOK /\ AvailableCovers /\ UNCHANGED size_call_count /\ resetting = 0 /\ stopped = "no"
  BY DEF IInv, reset, Running, NotCounted
<1>2. CASE "out" \in bound /\ size # 0
  <2>1. /\ UNCHANGED <<ch, sc_fifo, bound, rSz, rVal, resetting, promised>> /\ got' = got
        /\ stopped' \in Assertions
    BY <1>2 DEF reset, Stop, Assertions
  <2> QED
    BY <1>1, <2>1, SameKeeps DEF TypeOK
<1>3. CASE ~("out" \in bound /\ size # 0)
  <2>1. /\ resetting' = rSz /\ UNCHANGED <<sc_fifo, got, bound, rSz, rVal, stopped>>
        /\ ch' \in Seq(Values)
        /\ promised' = 0 \/ (bound = {"in"} /\ promised' = promised)
        /\ bound = {} => ch' = <<>>
    <3>1. CASE "out" \in bound
      BY <1>1, <1>3, <3>1 DEF reset, TypeOK
    <3>2. CASE "out" \notin bound
      <4>1. "in" \in bound => bound = {"in"}
        BY <1>1, <3>2 DEF TypeOK
      <4>2. <<>> \in Seq(Values)
        OBVIOUS
      <4> QED
        BY <3>2, <4>1, <4>2 DEF reset
    <3> QED
      BY <3>1, <3>2
  <2>2. rSz \in Nat /\ rSz \in InitSizes /\ promised \in Nat
    BY <1>1, Constants DEF TypeOK
  <2>3. TypeOK'
    <3>1. resetting' \in 0 .. rSz' /\ promised' \in Nat
      BY <2>1, <2>2
    <3> QED
      BY <1>1, <2>1, <3>1 DEF TypeOK, sc_fifo
  <2>4. AvailableCovers'
    BY <1>1, <2>1 DEF AvailableCovers, size, sc_fifo
  <2>5. ResetWrote'
    <3>1. rSz' - resetting' = 0
      BY <2>1, <2>2
    <3>2. bound' = {} => ch' = <<>> /\ Inside' = <<>>
      BY <2>1 DEF Inside
    <3>3. Len(Inside') \in Nat
      <4>1. visible' \o fresh' \in Seq(Values)
        BY <2>3, ConcatProperties DEF TypeOK
      <4> QED
        BY <2>1, <4>1, LenProperties DEF Inside
    <3> QED
      BY <3>1, <3>2, <3>3 DEF ResetWrote
  <2> QED
    BY <2>1, <2>3, <2>4, <2>5 DEF IInv, sc_fifo
<1> QED
  BY <1>2, <1>3

\* A write of a reset adds one reset value to those at the end.
LEMMA RewriteAdds ==
    ASSUME IInv, Rewrite
    PROVE  /\ IInv'
           /\ bound \in {{}, {"in", "out"}} =>
                  LET written == rSz - resetting' IN
                  /\ \A k \in 1 .. written : Inside'[Len(Inside') - k + 1] = rVal
                  /\ bound = {} => Len(ch') = written
<1>1. /\ TypeOK /\ AvailableCovers /\ ResetWrote /\ Give(rVal) /\ resetting > 0
      /\ resetting' = resetting - 1
      /\ UNCHANGED <<bound, rSz, rVal, stopped, size_call_count, promised>>
  BY DEF IInv, Rewrite
<1>2. rSz \in Nat /\ resetting \in 0 .. rSz /\ rVal \in Values /\ promised \in Nat
  BY <1>1, Constants DEF TypeOK
<1>3. /\ ch' \in Seq(Values) /\ fresh' \in Seq(Values)
      /\ visible' = visible /\ taken' = taken /\ got' = got
      /\ Len(visible') + taken' + Len(fresh') <= Size /\ size' >= size
      /\ bound \in {{}, {"in", "out"}} => Inside' = Append(Inside, rVal)
  BY <1>1, <1>2, GiveMoves
<1>4. TypeOK'
  <2>1. resetting' \in 0 .. rSz
    BY <1>1, <1>2
  <2> QED
    BY <1>1, <1>3, <2>1 DEF TypeOK
<1>5. AvailableCovers'
  <2>1. size \in Nat /\ size' \in Nat
    BY <1>1, <1>4 DEF TypeOK, size
  <2> QED
    BY <1>1, <1>2, <1>3, <2>1 DEF AvailableCovers
<1>6. ASSUME bound \in {{}, {"in", "out"}}
      PROVE  /\ rSz - resetting' <= Len(Inside')
             /\ \A k \in 1 .. rSz - resetting' : Inside'[Len(Inside') - k + 1] = rVal
             /\ bound = {} => Len(ch') = rSz - resetting'
  <2>1. PICK s \in Seq(Values) : s = Inside
    <3>1. visible \o fresh \in Seq(Values)
      BY <1>1, ConcatProperties DEF TypeOK
    <3> QED
      BY <1>1, <3>1 DEF Inside, TypeOK
  <2>2. PICK n \in Nat : n = rSz - resetting /\ rSz - resetting' = n + 1
    BY <1>1, <1>2
  <2>3. /\ n <= Len(s) /\ \A k \in 1 .. n : s[Len(s) - k + 1] = rVal
        /\ bound = {} => Len(ch) = n
    BY <1>1, <1>6, <2>1, <2>2 DEF ResetWrote
  <2>4. Inside' = Append(s, rVal)
    BY <1>3, <1>6, <2>1
  <2>5. PICK m \in Nat : m = Len(s)
    BY <2>1
  <2>6. Len(Append(s, rVal)) = m + 1
    BY <2>1, <2>5
  <2>7. ASSUME NEW k \in 1 .. n + 1 PROVE Append(s, rVal)[(m + 1) - k + 1] = rVal
    <3>1. CASE k = 1
      BY <2>1, <2>5, <3>1
    <3>2. CASE k # 1
      <4>0. k - 1 \in 1 .. n
        BY <2>2, <2>7, <3>2
      <4>1. s[m - (k - 1) + 1] = rVal
        BY <2>3, <2>5, <4>0
      <4>2. (m + 1) - k + 1 = m - (k - 1) + 1 /\ (m + 1) - k + 1 \in 1 .. m
        BY <2>2, <2>3, <2>5, <2>7, <3>2
      <4> QED
        BY <1>2, <2>1, <2>5, <4>1, <4>2
    <3> QED
      BY <3>1, <3>2
  <2>8. bound = {} => Len(ch') = n + 1
    <3>1. bound = {} => Inside' = ch' /\ Inside = ch
      BY <1>1 DEF Inside
    <3> QED
      BY <2>1, <2>3, <2>4, <2>5, <2>6, <3>1
  <2> QED
    BY <2>2, <2>3, <2>4, <2>5, <2>6, <2>7, <2>8
<1>7. ResetWrote'
  BY <1>1, <1>6 DEF ResetWrote
<1> QED
  BY <1>1, <1>3, <1>4, <1>5, <1>6, <1>7 DEF IInv

\* The peer has an end that the owner has not, so it reads nothing that was
\* promised and nothing that a reset of a channel with both ends wrote.
LEMMA PeerKeeps ==
    ASSUME IInv, Peer
    PROVE  IInv'
<1>1. /\ ch' = ch /\ size_call_count' = size_call_count /\ bound' = bound /\ rSz' = rSz
      /\ rVal' = rVal /\ resetting' = resetting /\ stopped' = stopped /\ promised' = promised
      /\ TypeOK /\ AvailableCovers /\ Len(visible) + taken + Len(fresh) <= Size
  BY DEF Peer, control, IInv
<1>0. bound \notin {{}, {"in", "out"}}
  <2>1. bound \in {{"in"}, {"out"}}
    BY DEF Peer
  <2>2. "in" \notin bound \/ "out" \notin bound
    BY <2>1
  <2>3. bound # {}
    BY <2>1
  <2> QED
    BY <2>2, <2>3
<1>2. ResetWrote'
  BY <1>0, <1>1 DEF ResetWrote
<1>3. CASE bound = {"in"} /\ \E v \in Values : Fifo!Put(v)
  <2>1. PICK v \in Values : /\ Len(visible) + taken + Len(fresh) < Size
                            /\ fresh' = Append(fresh, v)
                            /\ visible' = visible /\ taken' = taken /\ got' = got
    BY <1>3 DEF Fifo!Put
  <2>2. Len(fresh') = Len(fresh) + 1 /\ fresh' \in Seq(Values)
    BY <1>1, <2>1 DEF TypeOK
  <2>3. /\ Len(visible) \in Nat /\ Len(fresh) \in Nat /\ Size \in Nat /\ taken \in Nat
    BY <1>1, Constants DEF TypeOK
  <2>4. Len(visible') + taken' + Len(fresh') <= Size
    BY <2>1, <2>2, <2>3
  <2>5. TypeOK'
    BY <1>1, <2>1, <2>2 DEF TypeOK
  <2>6. AvailableCovers'
    BY <1>1, <2>1 DEF AvailableCovers, size
  <2> QED
    BY <1>2, <2>4, <2>5, <2>6 DEF IInv
<1>4. CASE bound = {"out"} /\ Fifo!Get("peer")
  <2>1. /\ visible # <<>> /\ got' = [got EXCEPT !["peer"] = Head(visible)]
        /\ visible' = Tail(visible) /\ taken' = taken + 1 /\ fresh' = fresh
    BY <1>4 DEF Fifo!Get
  <2>2. /\ Head(visible) \in Values /\ visible' \in Seq(Values)
        /\ Len(visible') = Len(visible) - 1 /\ Len(visible) > 0
    BY <1>1, <2>1 DEF TypeOK
  <2>3. Len(visible) \in Nat /\ Len(fresh) \in Nat /\ Size \in Nat /\ taken \in Nat
    BY <1>1, Constants DEF TypeOK
  <2>4. Len(visible') + taken' + Len(fresh') <= Size /\ taken' \in 0 .. Size
    BY <1>1, <2>1, <2>2, <2>3
  <2>5. got' \in [{"owner", "peer"} -> Values \cup {NoValue}]
    BY <1>1, <2>1, <2>2 DEF TypeOK
  <2>6. TypeOK'
    BY <1>1, <2>1, <2>2, <2>4, <2>5 DEF TypeOK
  <2>7. AvailableCovers'
    BY <1>1, <1>4 DEF AvailableCovers, size
  <2> QED
    BY <1>2, <2>4, <2>6, <2>7 DEF IInv
<1> QED
  BY <1>3, <1>4 DEF Peer

\* The end of a cycle moves no value past another.
LEMMA EndCycleKeeps ==
    ASSUME IInv, EndCycle
    PROVE  IInv'
<1>1. /\ ch' = ch /\ size_call_count' = size_call_count /\ bound' = bound /\ rSz' = rSz
      /\ rVal' = rVal /\ resetting' = resetting /\ stopped' = stopped /\ promised' = promised
      /\ visible' = visible \o fresh /\ fresh' = <<>> /\ taken' = 0 /\ got' = got
      /\ TypeOK /\ AvailableCovers /\ Len(visible) + taken + Len(fresh) <= Size
      /\ ResetWrote /\ bound # {}
  BY DEF EndCycle, Fifo!EndCycle, control, IInv
<1>2. /\ visible' \in Seq(Values) /\ Len(visible') = Len(visible) + Len(fresh)
      /\ Len(visible) \in Nat /\ Len(fresh) \in Nat /\ taken \in Nat /\ Size \in Nat
  BY <1>1, ConcatProperties, Constants DEF TypeOK
<1>3. fresh' \in Seq(Values) /\ Len(fresh') = 0
  BY <1>1
<1>4. Len(visible') + taken' + Len(fresh') <= Size /\ taken' \in 0 .. Size
  BY <1>1, <1>2, <1>3
<1>5. TypeOK'
  BY <1>1, <1>2, <1>3, <1>4 DEF TypeOK
<1>6. AvailableCovers'
  <2>1. size' >= size
    BY <1>1, <1>2, LenProperties DEF size, TypeOK
  <2>2. promised \in Nat /\ size \in Nat /\ size' \in Nat
    BY <1>1, <1>5 DEF TypeOK, size
  <2> QED
    BY <1>1, <2>1, <2>2 DEF AvailableCovers
<1>7. Inside' = Inside
  <2>1. visible' \o <<>> = visible'
    BY <1>2, ConcatEmptySeq
  <2> QED
    BY <1>1, <2>1 DEF Inside
<1>8. ResetWrote'
  BY <1>1, <1>7 DEF ResetWrote
<1> QED
  BY <1>4, <1>5, <1>6, <1>8 DEF IInv

\* A step of the owner, by what it calls.
LEMMA OwnerKeeps ==
    ASSUME IInv, Owner
    PROVE  IInv'
<1>1. TypeOK /\ size_call_count \in 0 .. MaxCalls /\ MaxCalls \in Nat /\ size \in Nat
  BY Constants DEF IInv, TypeOK, size
<1>2. NotCounted => size_call_count' \in 0 .. MaxCalls
  BY <1>1 DEF NotCounted
<1>3. Counted => size_call_count' \in 0 .. MaxCalls
  BY <1>1 DEF Counted
<1>4. CASE read
  <2>1. CASE size = 0 /\ "in" \notin bound
    BY <1>1, <1>2, <1>4, <2>1, SameKeeps DEF read, Stop, Assertions, TypeOK
  <2>2. CASE ~(size = 0 /\ "in" \notin bound)
    BY <1>2, <1>4, <2>2, TakeKeeps DEF read, Running
  <2> QED
    BY <2>1, <2>2
<1>5. CASE nb_read
  <2>1. CASE size # 0
    BY <1>1, <1>3, <1>5, <2>1, TakeKeeps DEF nb_read, Running
  <2>2. CASE size = 0
    BY <1>1, <1>3, <1>5, <2>2, SameKeeps DEF nb_read, control, TypeOK
  <2> QED
    BY <2>1, <2>2
<1>6. ASSUME NEW v \in Values, write(v) PROVE IInv'
  BY <1>2, <1>6, WriteKeeps DEF write, Running
<1>7. ASSUME NEW v \in Values, nb_write(v) PROVE IInv'
  <2>1. CASE num_free > 0
    BY <1>3, <1>7, <2>1, WriteKeeps DEF nb_write, Running
  <2>2. CASE ~(num_free > 0)
    BY <1>1, <1>3, <1>7, <2>2, SameKeeps DEF nb_write, control, TypeOK
  <2> QED
    BY <2>1, <2>2
<1>8. ASSUME NEW k \in 1 .. MaxSize, Available(k) PROVE IInv'
  <2>1. /\ UNCHANGED <<ch, sc_fifo, got, control>> /\ promised' = k /\ size >= k
        /\ size_call_count' \in 0 .. MaxCalls /\ resetting = 0
    BY <1>2, <1>8 DEF Available, available, Running
  <2>2. TypeOK' /\ size' = size
    BY <1>1, <1>8, <2>1, Constants DEF TypeOK, size, control, sc_fifo
  <2>3. AvailableCovers'
    BY <2>1, <2>2 DEF AvailableCovers
  <2> QED
    BY <2>1, <2>2, <2>3 DEF IInv, ResetWrote, control, sc_fifo
<1>9. CASE SizeCalled
  BY <1>1, <1>3, <1>9, SameKeeps DEF SizeCalled, control, TypeOK
<1>10. CASE get_size_call_count
  BY <1>1, <1>10, SameKeeps DEF get_size_call_count, control, TypeOK
<1>11. CASE operator_sb
  BY <1>1, <1>2, <1>11, SameKeeps DEF operator_sb, Stop, Assertions, TypeOK
<1>12. ASSUME NEW v \in Values, NEW pos \in 0 .. MaxSize, insert(pos, v) PROVE IInv'
  BY <1>12, InsertKeeps, Constants
<1> QED
  BY <1>4, <1>5, <1>6, <1>7, <1>8, <1>9, <1>10, <1>11, <1>12, ResetKeeps, RewriteAdds DEF Owner

LEMMA Invariance == Spec => []IInv
<1>1. Init => IInv
  <2> SUFFICES ASSUME Init PROVE IInv
    OBVIOUS
  <2>1. /\ bound \subseteq {"in", "out"} /\ rSz \in InitSizes /\ rSz \in Nat /\ rVal \in Values
        /\ ch \in [1 .. rSz -> Values] /\ size_call_count = 0
        /\ visible = <<>> /\ fresh = <<>> /\ taken = 0
        /\ got = [r \in {"owner", "peer"} |-> NoValue]
        /\ resetting = 0 /\ stopped = "no" /\ promised = 0
    BY Constants DEF Init, Fifo!Init
  <2>2. ch \in Seq(Values) /\ <<>> \in Seq(Values) /\ Len(<<>>) = 0
    BY <2>1
  <2>3. taken \in 0 .. Size /\ size_call_count \in 0 .. MaxCalls /\ resetting \in 0 .. rSz
    BY <2>1, Constants
  <2>4. TypeOK
    BY <2>1, <2>2, <2>3 DEF TypeOK
  <2> QED
    BY <2>1, <2>2, <2>4, Constants DEF IInv, AvailableCovers, ResetWrote
<1>2. IInv /\ [Next]_vars => IInv'
  <2> SUFFICES ASSUME IInv, [Next]_vars PROVE IInv'
    OBVIOUS
  <2>1. CASE UNCHANGED vars
    BY <2>1, SameKeeps DEF vars, control, IInv, TypeOK
  <2> QED
    BY <2>1, OwnerKeeps, PeerKeeps, EndCycleKeeps DEF Next
<1> QED
  BY <1>1, <1>2, PTL DEF Spec

-----------------------------------------------------------------------------
(***************************************************************************)
(* The theorems                                                            *)
(***************************************************************************)

\* The variables keep their types, and the sc_fifo its size (ac_channel.h:206-298).
THEOREM TypeCorrect == Spec => []TypeOK
<1>1. IInv => TypeOK
  BY DEF IInv
<1> QED
  BY <1>1, Invariance, PTL

\* The k reads that follow available(k) find a value each, in every mode
\* (ac_channel.h:141, 257-261).
THEOREM PromisesKept == Spec => []AvailableCovers
<1>1. IInv => AvailableCovers
  BY DEF IInv
<1> QED
  BY <1>1, Invariance, PTL

\* A reset ends with all its values in the channel (ac_channel.h:269-281).
THEOREM ResetLeavesValues == Spec => ResetRewrites
<1> DEFINE Rewritten == resetting = 1 /\ resetting' = 0 /\ bound \in {{}, {"in", "out"}} =>
                /\ \A k \in 1 .. rSz : Inside'[Len(Inside') - k + 1] = rVal
                /\ bound = {} => Len(ch') = rSz
<1>1. IInv /\ [Next]_vars => Rewritten
  <2> SUFFICES ASSUME IInv, [Next]_vars, resetting = 1, resetting' = 0,
                      bound \in {{}, {"in", "out"}}
               PROVE  /\ \A k \in 1 .. rSz : Inside'[Len(Inside') - k + 1] = rVal
                      /\ bound = {} => Len(ch') = rSz
    OBVIOUS
  <2>1. rSz \in Nat
    BY Constants DEF IInv, TypeOK
  <2>2. Rewrite
    BY DEF Next, vars, Owner, Peer, EndCycle, control, Running, read, nb_read, write, nb_write,
           Available, SizeCalled, get_size_call_count, operator_sb, insert, reset
  <2>3. rSz - resetting' = rSz
    BY <2>1
  <2> QED
    BY <2>2, <2>3, RewriteAdds
<1> QED
  BY <1>1, Invariance, PTL DEF Spec, ResetRewrites
=============================================================================
