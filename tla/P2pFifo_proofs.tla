---------------------------- MODULE P2pFifo_proofs ----------------------------
(***************************************************************************)
(* What the point-to-point channel promises, for every depth and every     *)
(* number of values: no value is lost, doubled or overtaken, and the flags *)
(* offer and ask for exactly what there is and what there is room for.     *)
(***************************************************************************)
EXTENDS P2pFifo, SequenceTheorems, TLAPS

USE P2pFifoAssumption DEF P2pFifoAssumption

\* The two halves of a queue's step keep what came in before what went out.
LEMMA QueuePut ==
    \A a, r, q \in Seq(Payloads), v \in Payloads :
        a = r \o q => /\ Append(a, v) = r \o Append(q, v)
                      /\ Append(a, v) \in Seq(Payloads) /\ Append(q, v) \in Seq(Payloads)
<1> SUFFICES ASSUME NEW a \in Seq(Payloads), NEW r \in Seq(Payloads), NEW q \in Seq(Payloads),
                    NEW v \in Payloads, a = r \o q
             PROVE  /\ Append(a, v) = r \o Append(q, v)
                    /\ Append(a, v) \in Seq(Payloads) /\ Append(q, v) \in Seq(Payloads)
  OBVIOUS
<1>1. <<v>> \in Seq(Payloads)
  OBVIOUS
<1>2. Append(a, v) = a \o <<v>> /\ Append(q, v) = q \o <<v>>
  BY AppendIsConcat
<1>3. (r \o q) \o <<v>> = r \o (q \o <<v>>)
  BY <1>1, ConcatAssociative
<1> QED
  BY <1>1, <1>2, <1>3, ConcatProperties

LEMMA QueueGet ==
    ASSUME NEW S, NEW a \in Seq(S), NEW r \in Seq(S), NEW q \in Seq(S),
           a = r \o q, q # <<>>
    PROVE  /\ a = Append(r, Head(q)) \o Tail(q)
           /\ Append(r, Head(q)) \in Seq(S) /\ Tail(q) \in Seq(S)
  OBVIOUS

-----------------------------------------------------------------------------
(***************************************************************************)
(* What an edge moves                                                      *)
(***************************************************************************)

In == i_vld /\ o_rdy
Out == i_rdy /\ o_vld
Rest == IF Out THEN Tail(held) ELSE held

\* A value leaves at the front, another comes at the back.
Moves ==
    /\ Out => held # <<>> /\ o_dat = Head(held)
    /\ held' = IF In THEN Append(Rest, i_dat) ELSE Rest

\* The call that drives vld drives a value.
LEMMA DrivesValue ==
    ASSUME P2pTypeOK, i_vld
    PROVE  i_dat \in Payloads
  BY DEF P2pTypeOK, i_vld, i_dat, WriteCalls, NoCall

\* The single register.
LEMMA OneRegisterMoves ==
    ASSUME P2pInv, OneRegister, depth' = depth
    PROVE  Moves /\ vld' \in BOOLEAN /\ dat' \in Word
<1>1. held = IF vld THEN <<dat>> ELSE <<>>
  BY DEF OneRegister, held
<1>0. held' = IF vld' THEN <<dat'>> ELSE <<>>
  BY DEF OneRegister, held
<1>2. (o_rdy <=> ~vld \/ i_rdy) /\ (o_vld <=> vld) /\ o_dat = dat
  BY DEF OneRegister, o_rdy, o_vld, o_dat
<1>3. P2pTypeOK
  BY DEF P2pInv
<1>5. dat' = IF i_vld /\ o_rdy THEN i_dat ELSE dat
  BY DEF OneRegister
<1>6. vld' <=> IF o_rdy THEN i_vld ELSE vld
  BY DEF OneRegister
<1>7. vld' \in BOOLEAN /\ dat' \in Word
  <2>1. i_vld => i_dat \in Word
    BY <1>3, DrivesValue DEF Word
  <2>2. vld \in BOOLEAN /\ i_vld \in BOOLEAN
    BY <1>3 DEF P2pTypeOK, i_vld
  <2>3. vld' = IF o_rdy THEN i_vld ELSE vld
    BY DEF OneRegister
  <2> QED
    BY <1>3, <1>5, <2>1, <2>2, <2>3 DEF P2pTypeOK
<1>8. Out => held # <<>> /\ o_dat = Head(held)
  BY <1>1, <1>2 DEF Out
<1>9. held' = IF In THEN Append(Rest, i_dat) ELSE Rest
  <2>1. CASE vld /\ i_rdy
    <3>1. In <=> i_vld
      BY <1>2, <2>1 DEF In
    <3>2. Rest = <<>>
      BY <1>1, <1>2, <2>1 DEF Rest, Out
    <3>3. CASE i_vld
      BY <1>0, <1>2, <1>5, <1>6, <2>1, <3>1, <3>2, <3>3
    <3>4. CASE ~i_vld
      BY <1>0, <1>2, <1>6, <2>1, <3>1, <3>2, <3>4
    <3> QED
      BY <3>3, <3>4
  <2>2. CASE vld /\ ~i_rdy
    <3>1. ~In /\ ~Out
      BY <1>2, <2>2 DEF In, Out
    <3>2. dat' = dat /\ vld'
      BY <1>2, <1>5, <1>6, <2>2
    <3> QED
      BY <1>1, <1>0, <2>2, <3>1, <3>2 DEF Rest
  <2>3. CASE ~vld
    <3>1. (In <=> i_vld) /\ Rest = <<>>
      BY <1>1, <1>2, <2>3 DEF In, Rest, Out
    <3>2. (vld' <=> i_vld) /\ (i_vld => dat' = i_dat)
      BY <1>2, <1>5, <1>6, <2>3
    <3> QED
      BY <1>0, <3>1, <3>2
  <2> QED
    BY <2>1, <2>2, <2>3
<1> QED
  BY <1>7, <1>8, <1>9 DEF Moves

\* The shift register: an edge pushes where a value comes in, pops where one goes out.
LEMMA FlagsTell ==
    ASSUME P2pInv, depth >= 2
    PROVE  /\ push <=> In
           /\ pop <=> Out
           /\ full <=> write_index = depth
           /\ empty <=> write_index = 0
           /\ push => write_index < depth /\ i_dat \in Payloads
           /\ pop => write_index > 0
<1>1. P2pTypeOK /\ depth \in Nat /\ write_index \in 0 .. depth
  BY DEF P2pInv, P2pTypeOK
<1>2. /\ full <=> write_index = depth
      /\ empty <=> write_index = 0
      /\ rdy <=> ~full
      /\ vld <=> ~empty
  BY <1>1 DEF P2pInv, RegistersAgree, P2pTypeOK
<1>3. o_rdy = rdy /\ o_vld = vld
  BY <1>1 DEF o_rdy, o_vld
<1>4. (push <=> In) /\ (pop <=> Out)
  BY <1>2, <1>3 DEF push, pop, In, Out
<1>5. push => ~full /\ i_vld
  BY DEF push
<1>6. pop => ~empty
  BY DEF pop
<1>7. push => write_index < depth /\ i_dat \in Payloads
  BY <1>1, <1>2, <1>5, DrivesValue
<1>8. pop => write_index > 0
  BY <1>1, <1>2, <1>6
<1> QED
  BY <1>2, <1>4, <1>7, <1>8

LEMMA ShiftRegisterRegisters ==
    ASSUME P2pInv, ShiftRegister
    PROVE  /\ storage' \in [Cells -> Word]
           /\ write_index' \in 0 .. depth
           /\ {full', empty', rdy', vld'} \subseteq BOOLEAN
           /\ full' <=> write_index' = depth
           /\ empty' <=> write_index' = 0
           /\ (rdy' <=> ~full') /\ (vld' <=> ~empty')
           /\ dat' = storage'[0] /\ dat' \in Word
<1>1. P2pTypeOK /\ depth \in Nat /\ depth >= 2
  BY DEF P2pInv, P2pTypeOK, ShiftRegister
<1>2. Shifted \in [Cells -> Word]
  BY <1>1 DEF Shifted, Cells, Word, P2pTypeOK
<1>3. storage' \in [Cells -> Word]
  BY <1>1, <1>2, FlagsTell DEF ShiftRegister, StorageNext, P2pTypeOK, Word, Cells
<1>4. /\ write_index' \in 0 .. depth
      /\ full' <=> write_index' = depth
      /\ empty' <=> write_index' = 0
  <2>1. PICK n \in Nat : n = write_index /\ n <= depth
    BY <1>1 DEF P2pTypeOK
  <2>2. /\ full <=> n = depth
        /\ empty <=> n = 0
        /\ push => n < depth
        /\ pop => n > 0
    BY <1>1, <2>1, FlagsTell
  <2>3. /\ write_index' = n + (IF push THEN 1 ELSE 0) - (IF pop THEN 1 ELSE 0)
        /\ full' <=> IF push /\ ~pop THEN full \/ n = depth - 1 ELSE full /\ ~pop
        /\ empty' <=> IF pop /\ ~push THEN n = 1 ELSE empty /\ ~push
    BY <2>1 DEF ShiftRegister, FullNext, EmptyNext
  <2>4. CASE push /\ pop
    BY <1>1, <2>1, <2>2, <2>3, <2>4
  <2>5. CASE push /\ ~pop
    BY <1>1, <2>1, <2>2, <2>3, <2>5
  <2>6. CASE ~push /\ pop
    BY <1>1, <2>1, <2>2, <2>3, <2>6
  <2>7. CASE ~push /\ ~pop
    BY <1>1, <2>1, <2>2, <2>3, <2>7
  <2> QED
    BY <2>4, <2>5, <2>6, <2>7
<1>5. rdy' = ~full' /\ vld' = ~empty' /\ dat' = storage'[0]
  BY DEF ShiftRegister
<1>6. {full', empty', rdy', vld'} \subseteq BOOLEAN
  <2>1. full \in BOOLEAN /\ empty \in BOOLEAN
    BY <1>1 DEF P2pTypeOK
  <2>2. FullNext \in BOOLEAN /\ EmptyNext \in BOOLEAN
    BY <2>1 DEF FullNext, EmptyNext
  <2> QED
    BY <2>2 DEF ShiftRegister
<1>7. 0 \in Cells
  BY <1>1 DEF Cells
<1> QED
  BY <1>3, <1>4, <1>5, <1>6, <1>7

LEMMA ShiftRegisterMoves ==
    ASSUME P2pInv, ShiftRegister, depth' = depth
    PROVE  Moves
<1>1. P2pTypeOK /\ depth \in Nat /\ depth >= 2
  BY DEF P2pInv, P2pTypeOK, ShiftRegister
<1>2. PICK n \in Nat : n = write_index /\ n <= depth
  BY <1>1 DEF P2pTypeOK
<1>3. held = [k \in 1 .. n |-> storage[k - 1]]
  BY <1>1, <1>2 DEF held
<1>4. held' = [k \in 1 .. write_index' |-> storage'[k - 1]]
  BY <1>1 DEF held
<1>5. (push <=> In) /\ (pop <=> Out) /\ (push => n < depth) /\ (pop => n > 0)
  BY <1>1, <1>2, FlagsTell
<1>6. o_vld => o_dat = storage[0]
  BY <1>1 DEF P2pInv, RegistersAgree, o_vld, o_dat
<1>7. Out => held # <<>> /\ o_dat = Head(held)
  <2> SUFFICES ASSUME Out PROVE held # <<>> /\ o_dat = Head(held)
    OBVIOUS
  <2>1. n > 0 /\ o_dat = storage[0]
    BY <1>5, <1>6 DEF Out
  <2> QED
    BY <1>3, <2>1
<1>8. held' = IF In THEN Append(Rest, i_dat) ELSE Rest
  <2>1. CASE push /\ pop
    <3>1. write_index' = n /\ Rest = Tail(held) /\ In
      BY <1>2, <1>5, <2>1 DEF ShiftRegister, Rest
    <3>2. storage' = [Shifted EXCEPT ![n - 1] = i_dat, ![depth - 1] = i_dat]
      BY <1>2, <2>1 DEF ShiftRegister, StorageNext
    <3>3. ASSUME NEW i \in 0 .. n - 2 PROVE storage'[i] = storage[i + 1]
      <4>1. i \in Cells /\ i # n - 1 /\ i # depth - 1
        BY <1>1, <1>5, <2>1 DEF Cells
      <4> QED
        BY <3>2, <4>1 DEF Shifted
    <3>4. storage'[n - 1] = i_dat
      BY <1>1, <1>2, <1>5, <2>1, <3>2 DEF Shifted, Cells
    <3>5. Tail(held) = [k \in 1 .. n - 1 |-> storage[k]]
      BY <1>3, <1>5, <2>1
    <3>6. Append(Tail(held), i_dat) = [k \in 1 .. n |-> storage'[k - 1]]
      <4>1. PICK s : s = storage'
        OBVIOUS
      <4>2. [k \in 1 .. n - 1 |-> storage[k]] = [k \in 1 .. n - 1 |-> s[k - 1]]
        BY <3>3, <4>1
      <4>3. Append([k \in 1 .. n - 1 |-> s[k - 1]], s[n - 1]) = [k \in 1 .. n |-> s[k - 1]]
        BY <1>5, <2>1
      <4> QED
        BY <3>4, <3>5, <4>1, <4>2, <4>3
    <3> QED
      BY <1>4, <3>1, <3>6
  <2>2. CASE push /\ ~pop
    <3>1. write_index' = n + 1 /\ Rest = held /\ In
      BY <1>2, <1>5, <2>2 DEF ShiftRegister, Rest
    <3>2. storage' = [storage EXCEPT ![n] = i_dat]
      BY <1>2, <2>2 DEF ShiftRegister, StorageNext
    <3>3. \A i \in 0 .. n - 1 : storage'[i] = storage[i]
      BY <1>1, <1>2, <1>5, <2>2, <3>2 DEF P2pTypeOK, Cells
    <3>4. storage'[n] = i_dat
      BY <1>1, <1>2, <1>5, <2>2, <3>2 DEF P2pTypeOK, Cells
    <3>5. Append(held, i_dat) = [k \in 1 .. n + 1 |-> storage'[k - 1]]
      BY <1>3, <3>3, <3>4
    <3> QED
      BY <1>4, <3>1, <3>5
  <2>3. CASE ~push /\ pop
    <3>1. write_index' = n - 1 /\ Rest = Tail(held) /\ ~In
      BY <1>2, <1>5, <2>3 DEF ShiftRegister, Rest
    <3>2. storage' = Shifted
      BY <2>3 DEF ShiftRegister, StorageNext
    <3>3. \A i \in 0 .. n - 2 : storage'[i] = storage[i + 1]
      BY <1>1, <1>2, <3>2 DEF Shifted, Cells
    <3>4. Tail(held) = [k \in 1 .. n - 1 |-> storage'[k - 1]]
      BY <1>3, <1>5, <2>3, <3>3
    <3> QED
      BY <1>4, <3>1, <3>4
  <2>4. CASE ~push /\ ~pop
    <3>1. write_index' = n /\ Rest = held /\ ~In
      BY <1>2, <1>5, <2>4 DEF ShiftRegister, Rest
    <3>2. storage' = storage
      BY <2>4 DEF ShiftRegister, StorageNext
    <3> QED
      BY <1>3, <1>4, <3>1, <3>2
  <2> QED
    BY <2>1, <2>2, <2>3, <2>4
<1> QED
  BY <1>7, <1>8 DEF Moves
-----------------------------------------------------------------------------
(***************************************************************************)
(* The invariant                                                           *)
(***************************************************************************)

Calls == WriteCalls \cup {NoCall}
Readings == {"none", "read", "nb_read"}

\* Both threads record what the edge moved.
LEMMA ThreadsRecord ==
    ASSUME NEW w, NEW r, Edge(w, r)
    PROVE  /\ accepted' = IF In THEN Append(accepted, i_dat) ELSE accepted
           /\ returned' = IF Out THEN Append(returned, o_dat) ELSE returned
  BY DEF Edge, WriterEdge, ReaderEdge, In, Out

\* What was recorded on the one side is what was recorded on the other and what
\* lies between: through registers,
LEMMA MovesKeepOrder ==
    ASSUME P2pInv, NEW w, NEW r, Edge(w, r), Moves
    PROVE  /\ FirstInFirstOut' /\ held' \in Seq(Payloads)
           /\ accepted' \in Seq(Payloads) /\ returned' \in Seq(Payloads)
<1> DEFINE next == IF Out THEN Append(returned, Head(held)) ELSE returned
<1>1. /\ accepted \in Seq(Payloads) /\ returned \in Seq(Payloads)
      /\ held \in Seq(Payloads) /\ accepted = returned \o held
  BY DEF P2pInv, P2pTypeOK, FirstInFirstOut
<1>2. returned' = next
  BY ThreadsRecord DEF Moves
<1>3. accepted = next \o Rest /\ next \in Seq(Payloads) /\ Rest \in Seq(Payloads)
  <2>1. CASE Out
    <3>1. held # <<>>
      BY <2>1 DEF Moves
    <3> QED
      BY <1>1, <2>1, <3>1, QueueGet DEF Rest
  <2>2. CASE ~Out
    BY <1>1, <2>2 DEF Rest
  <2> QED
    BY <2>1, <2>2
<1>4. CASE In
  <2>1. i_dat \in Payloads
    BY <1>4, DrivesValue DEF In, P2pInv
  <2>2. accepted' = Append(accepted, i_dat) /\ held' = Append(Rest, i_dat)
    BY <1>4, ThreadsRecord DEF Moves
  <2>3. /\ Append(accepted, i_dat) = next \o Append(Rest, i_dat)
        /\ Append(accepted, i_dat) \in Seq(Payloads) /\ Append(Rest, i_dat) \in Seq(Payloads)
    <3> HIDE DEF next
    <3> QED
      BY <1>1, <1>3, <2>1, QueuePut, Zenon
  <2> QED
    BY <1>2, <1>3, <2>2, <2>3 DEF FirstInFirstOut
<1>5. CASE ~In
  <2>1. accepted' = accepted /\ held' = Rest
    BY <1>5, ThreadsRecord DEF Moves
  <2> QED
    BY <1>1, <1>2, <1>3, <2>1 DEF FirstInFirstOut
<1> QED
  BY <1>4, <1>5

\* and through wires, where both sides take part in the same edges.
LEMMA WiresKeepOrder ==
    ASSUME P2pInv, NEW w, NEW r, Edge(w, r), Wires
    PROVE  /\ FirstInFirstOut' /\ held' \in Seq(Payloads)
           /\ accepted' \in Seq(Payloads) /\ returned' \in Seq(Payloads)
<1>1. held = <<>> /\ held' = <<>>
  BY DEF Edge, Wires, held
<1>2. /\ accepted \in Seq(Payloads) /\ returned \in Seq(Payloads)
      /\ accepted = returned
  BY <1>1 DEF P2pInv, P2pTypeOK, FirstInFirstOut
<1>3. (In <=> Out) /\ o_dat = i_dat
  BY DEF Wires, In, Out, o_rdy, o_vld, o_dat
<1>4. In => i_dat \in Payloads
  BY DrivesValue DEF In, P2pInv
<1>5. accepted' = returned' /\ accepted' \in Seq(Payloads)
  BY <1>2, <1>3, <1>4, ThreadsRecord
<1> QED
  BY <1>1, <1>5 DEF FirstInFirstOut

LEMMA EdgeKeeps ==
    ASSUME P2pInv, NEW w \in Calls, NEW r \in Readings, Edge(w, r)
    PROVE  P2pInv'
<1>1. depth' = depth /\ P2pTypeOK /\ depth \in Nat
  BY DEF Edge, P2pInv, P2pTypeOK
<1>2. writing' \in Calls /\ reading' \in Readings
  BY <1>1 DEF Edge, WriterEdge, ReaderEdge, P2pTypeOK, Calls, Readings
<1>3. /\ FirstInFirstOut' /\ held' \in Seq(Payloads)
      /\ accepted' \in Seq(Payloads) /\ returned' \in Seq(Payloads)
  <2>1. CASE ShiftRegister
    BY <1>1, <2>1, ShiftRegisterMoves, MovesKeepOrder
  <2>2. CASE OneRegister
    BY <1>1, <2>2, OneRegisterMoves, MovesKeepOrder
  <2>3. CASE Wires
    BY <2>3, WiresKeepOrder
  <2> QED
    BY <2>1, <2>2, <2>3 DEF Edge
<1>4. /\ storage' \in [Cells -> Word] /\ write_index' \in 0 .. depth
      /\ {full', empty', rdy', vld'} \subseteq BOOLEAN /\ dat' \in Word
  <2>1. CASE ShiftRegister
    BY <2>1, ShiftRegisterRegisters
  <2>2. CASE OneRegister
    BY <1>1, <2>2, OneRegisterMoves DEF OneRegister, P2pTypeOK
  <2>3. CASE Wires
    BY <1>1, <2>3 DEF Wires, registers, P2pTypeOK
  <2> QED
    BY <2>1, <2>2, <2>3 DEF Edge
<1>5. RegistersAgree'
  <2>1. CASE ShiftRegister
    <3>1. /\ full' <=> write_index' = depth
          /\ empty' <=> write_index' = 0
          /\ (rdy' <=> ~full') /\ (vld' <=> ~empty')
          /\ dat' = storage'[0]
      BY <2>1, ShiftRegisterRegisters
    <3> QED
      BY <1>1, <3>1 DEF RegistersAgree
  <2>2. CASE OneRegister
    BY <1>1, <2>2 DEF OneRegister, RegistersAgree
  <2>3. CASE Wires
    BY <1>1, <2>3 DEF Wires, RegistersAgree
  <2> QED
    BY <2>1, <2>2, <2>3 DEF Edge
<1>6. P2pTypeOK'
  BY <1>1, <1>2, <1>3, <1>4 DEF P2pTypeOK, Cells, Calls, Readings
<1> QED
  BY <1>3, <1>5, <1>6 DEF P2pInv

\* A reset leaves an empty fifo.
LEMMA EmptyIsCorrect == P2pInit => P2pInv
<1> SUFFICES ASSUME P2pInit PROVE P2pInv
  OBVIOUS
<1>1. depth \in Depths /\ depth \in Nat
  BY DEF P2pInit
<1>2. accepted = <<>> /\ returned = <<>> /\ write_index = 0 /\ ~full /\ empty /\ rdy /\ ~vld
  BY DEF P2pInit
<1>3. {full, empty, rdy, vld} \subseteq BOOLEAN
  BY DEF P2pInit
<1>4. storage \in [Cells -> Word] /\ dat \in Word
  BY DEF P2pInit, Word
<1>5. held = <<>>
  BY <1>1, <1>2 DEF held
<1>6. write_index \in 0 .. depth
  BY <1>1, <1>2
<1>7. P2pTypeOK
  BY <1>1, <1>2, <1>3, <1>4, <1>6 DEF P2pInit, P2pTypeOK
<1>8. RegistersAgree
  BY <1>1, <1>2 DEF RegistersAgree
<1> QED
  BY <1>2, <1>5, <1>7, <1>8 DEF P2pInv, FirstInFirstOut

LEMMA ResetIsCorrect ==
    ASSUME P2pInv, Reset
    PROVE  P2pInv'
<1>1. depth' = depth /\ depth \in Depths /\ depth \in Nat
  BY DEF Reset, P2pInv, P2pTypeOK
<1>2. /\ accepted' = <<>> /\ returned' = <<>> /\ write_index' = 0
      /\ ~full' /\ empty' /\ rdy' /\ ~vld'
  BY DEF Reset
<1>3. {full', empty', rdy', vld'} \subseteq BOOLEAN
  BY DEF Reset
<1>4. storage' \in [Cells -> Word] /\ dat' \in Word
  BY DEF Reset, Word
<1>5. held' = <<>>
  BY <1>1, <1>2 DEF held
<1>6. write_index' \in 0 .. depth
  BY <1>1, <1>2
<1>7. writing' = NoCall /\ reading' = "none"
  BY DEF Reset
<1>8. P2pTypeOK'
  BY <1>1, <1>2, <1>3, <1>4, <1>6, <1>7 DEF P2pTypeOK, Cells
<1>9. RegistersAgree'
  BY <1>1, <1>2 DEF RegistersAgree
<1> QED
  BY <1>2, <1>5, <1>8, <1>9 DEF P2pInv, FirstInFirstOut

LEMMA Invariance == P2pSpec => []P2pInv
<1>1. P2pInit => P2pInv
  BY EmptyIsCorrect
<1>2. P2pInv /\ [P2pNext]_p2p_vars => P2pInv'
  <2> SUFFICES ASSUME P2pInv, [P2pNext]_p2p_vars PROVE P2pInv'
    OBVIOUS
  <2>1. ASSUME ClockEdge PROVE P2pInv'
    BY <2>1, EdgeKeeps DEF ClockEdge, Calls, Readings
  <2>2. ASSUME Reset PROVE P2pInv'
    BY <2>2, ResetIsCorrect
  <2>3. ASSUME UNCHANGED p2p_vars PROVE P2pInv'
    BY <2>3 DEF p2p_vars, registers, P2pInv, P2pTypeOK, Cells, RegistersAgree, FirstInFirstOut, held
  <2> QED
    BY <2>1, <2>2, <2>3 DEF P2pNext
<1> QED
  BY <1>1, <1>2, PTL DEF P2pSpec

-----------------------------------------------------------------------------
(***************************************************************************)
(* The theorems                                                            *)
(***************************************************************************)

\* The registers keep their types and write_index its bound, the depth
\* (ccs_p2p_fifo.h:72-80, 228-252).
THEOREM TypeCorrect == P2pSpec => []P2pTypeOK
<1>1. P2pInv => P2pTypeOK
  BY DEF P2pInv
<1> QED
  BY <1>1, Invariance, PTL

\* Reads return what writes were told is written, once each and in order, and the
\* rest is in the fifo (ccs_p2p_fifo.h:118-260, 309-327, 366-368, 640-693).
THEOREM NothingLost == P2pSpec => []FirstInFirstOut
<1>1. P2pInv => FirstInFirstOut
  BY DEF P2pInv
<1> QED
  BY <1>1, Invariance, PTL

\* A value is refused only by a full fifo and withheld only by an empty one
\* (ccs_p2p_fifo.h:254-260, 324-327).
THEOREM FlagsCorrect == P2pSpec => []FlagsMatchContents
<1>1. P2pInv => FlagsMatchContents
  <2> SUFFICES ASSUME P2pInv, depth > 0
               PROVE  /\ ~o_rdy => Len(held) = depth
                      /\ o_vld <=> held # <<>>
                      /\ o_vld => o_dat = held[1]
    BY DEF FlagsMatchContents
  <2>1. depth \in Nat /\ vld \in BOOLEAN /\ write_index \in 0 .. depth
    BY DEF P2pInv, P2pTypeOK
  <2>2. CASE depth = 1
    <3>1. held = IF vld THEN <<dat>> ELSE <<>>
      BY <2>2 DEF held
    <3>2. (o_rdy <=> ~vld \/ i_rdy) /\ (o_vld <=> vld) /\ o_dat = dat
      BY <2>2 DEF o_rdy, o_vld, o_dat
    <3> QED
      BY <2>2, <3>1, <3>2
  <2>3. CASE depth >= 2
    <3>1. held = [k \in 1 .. write_index |-> storage[k - 1]]
      BY <2>1, <2>3 DEF held
    <3>2. (o_rdy <=> rdy) /\ (o_vld <=> vld) /\ o_dat = dat
      BY <2>1, <2>3 DEF o_rdy, o_vld, o_dat
    <3>3. /\ rdy <=> write_index # depth
          /\ vld <=> write_index # 0
          /\ vld => dat = storage[0]
      BY <2>3 DEF P2pInv, RegistersAgree
    <3> QED
      BY <2>1, <3>1, <3>2, <3>3
  <2> QED
    BY <2>1, <2>2, <2>3
<1> QED
  BY <1>1, Invariance, PTL
=============================================================================
