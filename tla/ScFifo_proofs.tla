---------------------------- MODULE ScFifo_proofs ----------------------------
(***************************************************************************)
(* Theorems about ScFifo, for every size, every type of values and any     *)
(* processes on its ports.                                                 *)
(***************************************************************************)
EXTENDS ScFifo, TLAPS

\* An index moved on by at most one round.
LEMMA Wrap ==
    ASSUME NEW x \in Nat, x < 2 * Size
    PROVE  x % Size = IF x < Size THEN x ELSE x - Size
<1>1. Size \in Nat \ {0}
  BY SizeAssumption DEF SizeAssumption
<1>2. CASE x < Size
  BY <1>1, <1>2
<1>3. CASE x >= Size
  <2>1. x - Size \in 0 .. Size - 1
    BY <1>1, <1>3
  <2>2. (1 * Size + (x - Size)) % Size = x - Size
    BY <1>1, <2>1
  <2>3. 1 * Size + (x - Size) = x
    BY <1>1
  <2> QED
    BY <1>1, <1>3, <2>2, <2>3
<1> QED
  BY <1>1, <1>2, <1>3

\* The slots of the ring from the reading index on.
Slot(k) == IF m_ri + k < Size THEN m_ri + k ELSE m_ri + k - Size

LEMMA SlotIs ==
    ASSUME TypeOK, NEW k \in 0 .. Size
    PROVE  (m_ri + k) % Size = Slot(k)
<1>1. m_ri \in 0 .. Size - 1
  BY DEF TypeOK
<1>2. PICK x \in Nat : x = m_ri + k /\ x < 2 * Size
  BY <1>1, SizeAssumption DEF SizeAssumption
<1>3. x % Size = IF x < Size THEN x ELSE x - Size
  BY <1>2, Wrap
<1> QED
  BY <1>1, <1>2, <1>3, SizeAssumption DEF SizeAssumption, Slot

\* The initial state.
LEMMA InitIInv == Init => IInv
<1> SUFFICES ASSUME Init PROVE IInv
  OBVIOUS
<1> USE SizeAssumption DEF SizeAssumption
<1>1. TypeOK
  <2>1. /\ m_buf \in [0 .. Size - 1 -> Values \cup {NoValue}]
        /\ notified \subseteq Events
        /\ waits \in [Processes -> {"no", "clock"} \cup Events]
        /\ got \in [Readers -> Values \cup {NoValue}]
    BY DEF Init
  <2>2. call \in [Processes -> {None, Reading} \cup {Writing(v) : v \in Values}]
    BY DEF Init
  <2>3. /\ m_free = Size /\ m_ri = 0 /\ m_wi = 0 /\ m_num_readable = 0
        /\ m_num_read = 0 /\ m_num_written = 0 /\ update_requested = FALSE
    BY DEF Init
  <2>4. /\ m_free \in 0 .. Size /\ m_ri \in 0 .. Size - 1
        /\ m_wi \in 0 .. Size - 1 /\ m_num_readable \in 0 .. Size
        /\ m_num_read \in 0 .. Size /\ m_num_written \in 0 .. Size
    BY <2>3
  <2>5. update_requested \in BOOLEAN
    BY <2>3
  <2> QED
    BY <2>1, <2>2, <2>4, <2>5 DEF TypeOK
<1>2. RingMatchesCounts
  <2>1. /\ m_free = Size /\ m_ri = 0 /\ m_wi = 0 /\ m_num_readable = 0
        /\ m_num_read = 0 /\ m_num_written = 0
    BY DEF Init
  <2>2. used = 0 /\ num_available = 0 /\ num_free = Size
    BY <2>1 DEF used, num_available, num_free
  <2>3. (m_ri + used) % Size = m_wi
    BY <2>1, <2>2
  <2>4. ASSUME NEW k \in 0 .. Size - 1
        PROVE  m_buf[(m_ri + k) % Size] = NoValue <=> k >= used
    <3>1. k % Size = k
      OBVIOUS
    <3>2. m_buf[k] = NoValue
      BY DEF Init
    <3> QED
      BY <2>1, <2>2, <3>1, <3>2
  <2> QED
    BY <2>1, <2>2, <2>3, <2>4 DEF RingMatchesCounts
<1>3. WakeupsPending
  BY DEF Init, WakeupsPending
<1> QED
  BY <1>1, <1>2, <1>3 DEF IInv

\* A read that finds a value takes the first and keeps the ring.
LEMMA TakeKeepsRing ==
    ASSUME IInv, NEW r \in Readers, num_available # 0, Take(r)
    PROVE  /\ m_buf' \in [0 .. Size - 1 -> Values \cup {NoValue}]
           /\ m_free' \in 0 .. Size /\ m_ri' \in 0 .. Size - 1
           /\ m_wi' \in 0 .. Size - 1
           /\ m_num_readable' \in 0 .. Size /\ m_num_read' \in 0 .. Size
           /\ m_num_written' \in 0 .. Size
           /\ update_requested' \in BOOLEAN /\ notified' \subseteq Events
           /\ got' \in [Readers -> Values \cup {NoValue}]
           /\ RingMatchesCounts'
           /\ num_available' = num_available - 1 /\ num_free' = num_free
<1> USE SizeAssumption DEF SizeAssumption
<1> DEFINE next == IF m_ri + 1 < Size THEN m_ri + 1 ELSE 0
<1>1. m_free # Size
  BY DEF IInv, TypeOK, RingMatchesCounts, used, num_available
<1>2. /\ got' = [got EXCEPT ![r] = m_buf[m_ri]]
      /\ m_buf' = [m_buf EXCEPT ![m_ri] = NoValue]
      /\ m_ri' = next /\ m_free' = m_free + 1 /\ m_wi' = m_wi
      /\ m_num_read' = m_num_read + 1
      /\ m_num_readable' = m_num_readable /\ m_num_written' = m_num_written
      /\ update_requested' = TRUE /\ notified' = notified
  <2>1. (m_ri + 1) % Size = next
    BY SlotIs, 1 \in 0 .. Size DEF IInv, TypeOK, Slot
  <2> QED
    BY <1>1, <2>1 DEF Take, buf_read
<1>3. TypeOK /\ RingMatchesCounts
  BY DEF IInv
<1>4. /\ m_buf' \in [0 .. Size - 1 -> Values \cup {NoValue}]
      /\ got' \in [Readers -> Values \cup {NoValue}]
      /\ update_requested' \in BOOLEAN /\ notified' \subseteq Events
  BY <1>2, <1>3 DEF TypeOK
<1>5. /\ m_free' \in 0 .. Size /\ m_ri' \in 0 .. Size - 1
      /\ m_wi' \in 0 .. Size - 1
      /\ m_num_readable' \in 0 .. Size /\ m_num_read' \in 0 .. Size
      /\ m_num_written' \in 0 .. Size
  BY <1>1, <1>2, <1>3 DEF TypeOK, RingMatchesCounts, used, num_available
<1>6. /\ used' = used - 1
      /\ num_available' = num_available - 1 /\ num_free' = num_free
  BY <1>2, <1>3 DEF TypeOK, used, num_available, num_free
<1>7. /\ used' = num_available' + m_num_written'
      /\ num_available' >= 0 /\ num_free' >= 0
  BY <1>2, <1>3, <1>6
  DEF TypeOK, RingMatchesCounts, used, num_available, num_free
<1>8. (m_ri' + used') % Size = m_wi'
  <2>1. (m_ri + used) % Size = Slot(used)
    BY <1>3, SlotIs DEF TypeOK, used
  <2>2. Slot(used) = m_wi
    BY <1>3, <2>1 DEF RingMatchesCounts
  <2>3. PICK x \in Nat : x = m_ri' + used' /\ x < 2 * Size
    <3>1. PICK a \in 0 .. Size - 1 : a = m_ri'
      BY <1>5
    <3>2. PICK b \in 0 .. Size - 1 : b = used'
      BY <1>1, <1>3, <1>6 DEF TypeOK, used
    <3>3. a + b \in Nat /\ a + b < 2 * Size
      OBVIOUS
    <3> QED
      BY <3>1, <3>2, <3>3
  <2>4. x % Size = IF x < Size THEN x ELSE x - Size
    BY <2>3, Wrap
  <2>5. x % Size = m_wi
    <3>1. m_ri \in 0 .. Size - 1 /\ used \in 1 .. Size /\ Size \in Nat
      BY <1>1, <1>3 DEF TypeOK, used
    <3>2. m_ri' = next /\ used' = used - 1
      BY <1>2, <1>6
    <3> QED
      BY <2>2, <2>3, <2>4, <3>1, <3>2 DEF Slot
  <2> QED
    BY <1>2, <2>3, <2>5
<1>9. ASSUME NEW k \in 0 .. Size - 1
      PROVE  m_buf'[(m_ri' + k) % Size] = NoValue <=> k >= used'
  <2>0. PICK x \in Nat : x = m_ri' + k /\ x < 2 * Size
    <3>1. PICK a \in 0 .. Size - 1 : a = m_ri'
      BY <1>5
    <3>2. a + k \in Nat /\ a + k < 2 * Size
      OBVIOUS
    <3> QED
      BY <3>1, <3>2
  <2>1. x % Size = IF x < Size THEN x ELSE x - Size
    BY <2>0, Wrap
  <2>2. CASE k = Size - 1
    <3>1. (m_ri' + k) % Size = m_ri
      BY <1>2, <1>3, <2>0, <2>1, <2>2 DEF TypeOK
    <3>2. k >= used'
      BY <1>3, <1>6, <2>2 DEF TypeOK, used
    <3> QED
      BY <1>2, <1>3, <3>1, <3>2 DEF TypeOK
  <2>3. CASE k < Size - 1
    <3>1. k + 1 \in 0 .. Size - 1
      BY <2>3
    <3>2. (m_ri' + k) % Size = Slot(k + 1)
      BY <1>2, <1>3, <2>0, <2>1, <3>1 DEF TypeOK, Slot
    <3>3. Slot(k + 1) \in 0 .. Size - 1 /\ Slot(k + 1) # m_ri
      BY <1>3, <3>1 DEF TypeOK, Slot
    <3>4. m_buf[Slot(k + 1)] = NoValue <=> k + 1 >= used
      <4>1. (m_ri + (k + 1)) % Size = Slot(k + 1)
        BY <1>3, <3>1, SlotIs
      <4>2. m_buf[(m_ri + (k + 1)) % Size] = NoValue <=> k + 1 >= used
        BY <1>3, <3>1 DEF RingMatchesCounts
      <4> QED
        BY <4>1, <4>2
    <3>5. m_buf'[Slot(k + 1)] = m_buf[Slot(k + 1)]
      BY <1>2, <1>3, <3>3 DEF TypeOK
    <3> QED
      BY <1>3, <1>6, <3>2, <3>4, <3>5 DEF TypeOK, used
  <2> QED
    BY <2>2, <2>3
<1> QED
  BY <1>4, <1>5, <1>6, <1>7, <1>8, <1>9 DEF RingMatchesCounts

\* A write that finds room stores behind the last value and keeps the ring.
LEMMA GiveKeepsRing ==
    ASSUME IInv, NEW v \in Values, num_free # 0, Give(v)
    PROVE  /\ m_buf' \in [0 .. Size - 1 -> Values \cup {NoValue}]
           /\ m_free' \in 0 .. Size /\ m_ri' \in 0 .. Size - 1
           /\ m_wi' \in 0 .. Size - 1
           /\ m_num_readable' \in 0 .. Size /\ m_num_read' \in 0 .. Size
           /\ m_num_written' \in 0 .. Size
           /\ update_requested' \in BOOLEAN /\ notified' \subseteq Events
           /\ got' \in [Readers -> Values \cup {NoValue}]
           /\ RingMatchesCounts'
           /\ num_available' = num_available /\ num_free' = num_free - 1
<1> USE SizeAssumption DEF SizeAssumption
<1> DEFINE next == IF m_wi + 1 < Size THEN m_wi + 1 ELSE 0
<1>1. TypeOK /\ RingMatchesCounts
  BY DEF IInv
<1>2. m_free # 0
  BY <1>1 DEF TypeOK, RingMatchesCounts, used, num_available, num_free
<1>3. /\ m_buf' = [m_buf EXCEPT ![m_wi] = v]
      /\ m_wi' = next /\ m_free' = m_free - 1 /\ m_ri' = m_ri /\ got' = got
      /\ m_num_written' = m_num_written + 1
      /\ m_num_readable' = m_num_readable /\ m_num_read' = m_num_read
      /\ update_requested' = TRUE /\ notified' = notified
  <2>1. PICK x \in 0 .. Size - 1 : x = m_wi
    BY <1>1 DEF TypeOK
  <2>2. x + 1 \in Nat /\ x + 1 < 2 * Size
    OBVIOUS
  <2>3. (x + 1) % Size = IF x + 1 < Size THEN x + 1 ELSE x + 1 - Size
    BY <2>2, Wrap
  <2>4. (m_wi + 1) % Size = next
    BY <2>1, <2>3
  <2> QED
    BY <1>2, <2>4 DEF Give, buf_write
<1>4. /\ m_buf' \in [0 .. Size - 1 -> Values \cup {NoValue}]
      /\ got' \in [Readers -> Values \cup {NoValue}]
      /\ update_requested' \in BOOLEAN /\ notified' \subseteq Events
  BY <1>1, <1>3 DEF TypeOK
<1>5. /\ m_free' \in 0 .. Size /\ m_ri' \in 0 .. Size - 1
      /\ m_wi' \in 0 .. Size - 1
      /\ m_num_readable' \in 0 .. Size /\ m_num_read' \in 0 .. Size
      /\ m_num_written' \in 0 .. Size
  BY <1>1, <1>2, <1>3
  DEF TypeOK, RingMatchesCounts, used, num_available
<1>6. /\ used' = used + 1
      /\ num_available' = num_available /\ num_free' = num_free - 1
  BY <1>1, <1>3 DEF TypeOK, used, num_available, num_free
<1>7. /\ used' = num_available' + m_num_written'
      /\ num_available' >= 0 /\ num_free' >= 0
  BY <1>1, <1>3, <1>6
  DEF TypeOK, RingMatchesCounts, used, num_available, num_free
<1>8. used \in 0 .. Size - 1 /\ m_ri \in 0 .. Size - 1
  BY <1>1, <1>2 DEF TypeOK, used
<1>9. Slot(used) = m_wi
  <2>1. (m_ri + used) % Size = Slot(used)
    BY <1>1, <1>8, SlotIs
  <2> QED
    BY <1>1, <2>1 DEF RingMatchesCounts
<1>10. (m_ri' + used') % Size = m_wi'
  <2>1. (m_ri + (used + 1)) % Size = Slot(used + 1)
    BY <1>1, <1>8, SlotIs
  <2>2. Slot(used + 1) = next
    BY <1>8, <1>9 DEF Slot
  <2> QED
    BY <1>3, <1>6, <2>1, <2>2
<1>11. ASSUME NEW k \in 0 .. Size - 1
       PROVE  m_buf'[(m_ri' + k) % Size] = NoValue <=> k >= used'
  <2>1. (m_ri + k) % Size = Slot(k) /\ Slot(k) \in 0 .. Size - 1
    <3>1. (m_ri + k) % Size = Slot(k)
      BY <1>1, SlotIs
    <3> QED
      BY <1>8, <3>1 DEF Slot
  <2>2. m_buf[Slot(k)] = NoValue <=> k >= used
    BY <1>1, <2>1 DEF RingMatchesCounts
  <2>3. CASE k = used
    <3>1. m_buf'[Slot(k)] = v
      BY <1>1, <1>3, <1>9, <2>3 DEF TypeOK
    <3>2. ~(k >= used')
      BY <1>6, <1>8, <2>3
    <3> QED
      BY <1>3, <2>1, <3>1, <3>2, NoValueAssumption DEF NoValueAssumption
  <2>4. CASE k # used
    <3>1. Slot(k) # m_wi
      BY <1>8, <1>9, <2>4 DEF Slot
    <3>2. m_buf'[Slot(k)] = m_buf[Slot(k)]
      BY <1>1, <1>3, <2>1, <3>1 DEF TypeOK
    <3>3. k >= used' <=> k >= used
      BY <1>6, <1>8, <2>4
    <3> QED
      BY <1>3, <2>1, <2>2, <3>2, <3>3
  <2> QED
    BY <2>3, <2>4
<1> QED
  BY <1>4, <1>5, <1>6, <1>7, <1>10, <1>11 DEF RingMatchesCounts

ProcessTypes ==
    /\ waits \in [Processes -> {"no", "clock"} \cup Events]
    /\ call \in [Processes -> {None, Reading} \cup {Writing(v) : v \in Values}]

\* A call that finds nothing to do waits for the event that will tell it.
LEMMA WaitForKeepsIInv ==
    ASSUME IInv, NEW p \in Processes, NEW event \in Events,
           NEW resumed \in {None, Reading} \cup {Writing(v) : v \in Values},
           WaitFor(p, event, resumed),
           event = "data_written" => num_available = 0,
           event = "data_read" => num_free = 0
    PROVE  IInv'
<1>1. UNCHANGED <<ring, counts, kernel, got>>
  BY DEF WaitFor
<1>2. /\ waits' = [waits EXCEPT ![p] = event]
      /\ call' = [call EXCEPT ![p] = resumed]
  BY DEF WaitFor
<1>3. ProcessTypes'
  BY <1>2 DEF IInv, TypeOK, ProcessTypes
<1>4. TypeOK'
  BY <1>1, <1>3 DEF IInv, TypeOK, ProcessTypes, ring, counts, kernel
<1>5. RingMatchesCounts'
  BY <1>1
  DEF IInv, RingMatchesCounts, used, num_available, num_free, ring, counts
<1>6. WakeupsPending'
  <2>1. num_available' = num_available /\ num_free' = num_free
          /\ notified' = notified
    BY <1>1 DEF num_available, num_free, counts, kernel
  <2>2. \A q \in Processes : q # p => waits'[q] = waits[q]
    BY <1>2 DEF IInv, TypeOK
  <2>3. waits'[p] = event
    BY <1>2 DEF IInv, TypeOK
  <2> QED
    BY <2>1, <2>2, <2>3 DEF IInv, WakeupsPending
<1> QED
  BY <1>4, <1>5, <1>6 DEF IInv

\* A read or a write that is done takes away no reason to wait but gives one.
LEMMA DoneKeepsIInv ==
    ASSUME IInv, NEW p \in Processes,
           UNCHANGED waits,
           call' = call \/ call' = [call EXCEPT ![p] = None],
           \/ \E r \in Readers : num_available # 0 /\ Take(r)
           \/ \E v \in Values : num_free # 0 /\ Give(v)
    PROVE  IInv'
<1>1. ProcessTypes'
  BY DEF IInv, TypeOK, ProcessTypes
<1>2. CASE \E r \in Readers : num_available # 0 /\ Take(r)
  <2>1. PICK r \in Readers : num_available # 0 /\ Take(r)
    BY <1>2
  <2>2. TypeOK' /\ RingMatchesCounts'
    BY <1>1, <2>1, TakeKeepsRing DEF TypeOK, ProcessTypes
  <2>3. WakeupsPending'
    <3>1. num_free' = num_free /\ notified' = notified
      BY <2>1, TakeKeepsRing DEF Take
    <3>2. \A q \in Processes : waits[q] = "data_written" =>
              "data_written" \in notified
      BY <2>1 DEF IInv, WakeupsPending
    <3> QED
      BY <3>1, <3>2 DEF IInv, WakeupsPending
  <2> QED
    BY <2>2, <2>3 DEF IInv
<1>3. CASE \E v \in Values : num_free # 0 /\ Give(v)
  <2>1. PICK v \in Values : num_free # 0 /\ Give(v)
    BY <1>3
  <2>2. TypeOK' /\ RingMatchesCounts'
    BY <1>1, <2>1, GiveKeepsRing DEF TypeOK, ProcessTypes
  <2>3. WakeupsPending'
    <3>1. num_available' = num_available /\ notified' = notified
      BY <2>1, GiveKeepsRing DEF Give
    <3>2. \A q \in Processes : waits[q] = "data_read" =>
              "data_read" \in notified
      BY <2>1 DEF IInv, WakeupsPending
    <3> QED
      BY <3>1, <3>2 DEF IInv, WakeupsPending
  <2> QED
    BY <2>2, <2>3 DEF IInv
<1> QED
  BY <1>2, <1>3

\* A step that only wakes or pauses processes.
LEMMA WaitsKeepIInv ==
    ASSUME IInv, waits' \in [Processes -> {"no", "clock"} \cup Events],
           UNCHANGED <<ring, counts, update_requested, call, got>>,
           notified' \subseteq Events,
           \A p \in Processes : waits'[p] \in Events =>
               waits'[p] = waits[p] /\ (waits[p] \in notified => waits[p] \in notified')
    PROVE  IInv'
<1>1. TypeOK'
  <2>1. ProcessTypes'
    BY DEF IInv, TypeOK, ProcessTypes
  <2> QED
    BY <2>1 DEF IInv, TypeOK, ProcessTypes, ring, counts
<1>2. RingMatchesCounts'
  BY DEF IInv, RingMatchesCounts, used, num_available, num_free, ring, counts
<1>3. WakeupsPending'
  <2>1. num_available' = num_available /\ num_free' = num_free
    BY DEF num_available, num_free, counts
  <2> QED
    BY <2>1 DEF IInv, WakeupsPending, Events
<1> QED
  BY <1>1, <1>2, <1>3 DEF IInv

\* The update: the counts are taken from the ring, the events from the counts.
LEMMA UpdateKeepsIInv ==
    ASSUME IInv, Update
    PROVE  IInv'
<1> USE SizeAssumption DEF SizeAssumption
<1>1. /\ m_num_readable' = Size - m_free
      /\ m_num_read' = 0 /\ m_num_written' = 0 /\ update_requested' = FALSE
      /\ UNCHANGED <<ring, waits, call, got>>
  BY DEF Update, UpdateNotifying
<1>2. /\ notified' \subseteq notified \cup Events
      /\ notified \subseteq notified'
      /\ m_num_read > 0 => "data_read" \in notified'
      /\ m_num_written > 0 => "data_written" \in notified'
  BY DEF Update, UpdateNotifying, ReadEvent, WrittenEvent, Events
<1>3. TypeOK /\ RingMatchesCounts /\ WakeupsPending
  BY DEF IInv
<1>4. /\ m_num_readable' \in 0 .. Size /\ m_num_read' \in 0 .. Size
      /\ m_num_written' \in 0 .. Size
  BY <1>1, <1>3 DEF TypeOK
<1>5. TypeOK'
  <2>1. ProcessTypes'
    BY <1>1, <1>3 DEF TypeOK, ProcessTypes
  <2>2. update_requested' \in BOOLEAN /\ notified' \subseteq Events
    BY <1>1, <1>2, <1>3 DEF TypeOK
  <2> QED
    BY <1>1, <1>3, <1>4, <2>1, <2>2 DEF TypeOK, ProcessTypes, ring
<1>6. used' = used /\ num_available' = used /\ num_free' = m_free
  BY <1>1, <1>3 DEF TypeOK, used, num_available, num_free, ring
<1>7. RingMatchesCounts'
  <2>1. /\ used' = num_available' + m_num_written'
        /\ num_available' >= 0 /\ num_free' >= 0
    BY <1>1, <1>3, <1>6 DEF TypeOK, used
  <2>2. /\ (m_ri' + used') % Size = m_wi'
        /\ \A k \in 0 .. Size - 1 :
               m_buf'[(m_ri' + k) % Size] = NoValue <=> k >= used'
    BY <1>1, <1>3, <1>6 DEF RingMatchesCounts, ring
  <2> QED
    BY <2>1, <2>2 DEF RingMatchesCounts
<1>8. WakeupsPending'
  <2>1. m_num_written > 0 \/ num_available' = num_available
    BY <1>3, <1>6 DEF TypeOK, RingMatchesCounts, used, num_available
  <2>2. m_num_read > 0 \/ num_free' = num_free
    BY <1>3, <1>6
    DEF TypeOK, RingMatchesCounts, used, num_available, num_free
  <2>3. waits' = waits
    BY <1>1
  <2> QED
    BY <1>2, <1>3, <2>1, <2>2, <2>3 DEF WakeupsPending
<1> QED
  BY <1>5, <1>7, <1>8 DEF IInv

\* Every step keeps the invariant.
LEMMA NextKeepsIInv == IInv /\ [Next]_vars => IInv'
<1> SUFFICES ASSUME IInv, [Next]_vars PROVE IInv'
  OBVIOUS
<1>1. ASSUME NEW r \in Readers, Read(r) PROVE IInv'
  <2>1. CASE num_available = 0
    <3>1. WaitFor(r, "data_written", Reading)
      BY <1>1, <2>1 DEF Read
    <3> QED
      BY <2>1, <3>1, WaitForKeepsIInv DEF Processes, Events
  <2>2. CASE num_available # 0
    <3>1. Take(r) /\ call' = [call EXCEPT ![r] = None] /\ UNCHANGED waits
      BY <1>1, <2>2 DEF Read
    <3> QED
      BY <2>2, <3>1, DoneKeepsIInv DEF Processes
  <2> QED
    BY <2>1, <2>2
<1>2. ASSUME NEW r \in Readers, NbRead(r) PROVE IInv'
  BY <1>2, DoneKeepsIInv DEF NbRead, Processes
<1>3. ASSUME NEW w \in Writers, NEW v \in Values, Write(w, v) PROVE IInv'
  <2>1. CASE num_free = 0
    <3>1. WaitFor(w, "data_read", Writing(v))
      BY <1>3, <2>1 DEF Write
    <3>2. Writing(v) \in {None, Reading} \cup {Writing(u) : u \in Values}
      OBVIOUS
    <3> QED
      BY <2>1, <3>1, <3>2, WaitForKeepsIInv DEF Processes, Events
  <2>2. CASE num_free # 0
    <3>1. Give(v) /\ call' = [call EXCEPT ![w] = None] /\ UNCHANGED waits
      BY <1>3, <2>2 DEF Write
    <3> QED
      BY <2>2, <3>1, DoneKeepsIInv DEF Processes
  <2> QED
    BY <2>1, <2>2
<1>4. ASSUME NEW w \in Writers, NEW v \in Values, NbWrite(w, v) PROVE IInv'
  BY <1>4, DoneKeepsIInv DEF NbWrite, Processes
<1>5. ASSUME NEW p \in Processes, Pause(p) PROVE IInv'
  <2>1. /\ waits' = [waits EXCEPT ![p] = "clock"]
        /\ UNCHANGED <<ring, counts, update_requested, call, got, notified>>
    BY <1>5 DEF Pause, kernel
  <2>2. /\ waits' \in [Processes -> {"no", "clock"} \cup Events]
        /\ notified' \subseteq Events
    BY <2>1 DEF IInv, TypeOK
  <2>3. \A q \in Processes : waits'[q] \in Events => waits'[q] = waits[q]
    BY <2>1 DEF IInv, TypeOK, Events
  <2> QED
    BY <2>1, <2>2, <2>3, WaitsKeepIInv
<1>6. ASSUME Update PROVE IInv'
  BY <1>6, UpdateKeepsIInv
<1>7. ASSUME Deliver PROVE IInv'
  <2>1. /\ UNCHANGED <<ring, counts, update_requested, call, got>>
        /\ notified' = {}
        /\ waits' = [q \in Processes |->
               IF q \in {p \in Processes : waits[p] \in notified}
               THEN "no" ELSE waits[q]]
    BY <1>7 DEF Deliver, Wake
  <2>2. waits' \in [Processes -> {"no", "clock"} \cup Events]
    BY <2>1 DEF IInv, TypeOK
  <2>3. \A q \in Processes : waits'[q] \in Events =>
            waits'[q] = waits[q] /\ waits[q] \notin notified
    BY <2>1 DEF Events
  <2> QED
    BY <2>1, <2>2, <2>3, WaitsKeepIInv
<1>8. ASSUME AdvanceTime PROVE IInv'
  <2>1. PICK P \in SUBSET {p \in Processes : waits[p] = "clock"} : Wake(P)
    BY <1>8 DEF AdvanceTime
  <2>2. /\ UNCHANGED <<ring, counts, update_requested, call, got, notified>>
        /\ notified' \subseteq Events
    BY <1>8 DEF AdvanceTime, kernel, IInv, TypeOK
  <2>3. waits' \in [Processes -> {"no", "clock"} \cup Events]
    BY <2>1 DEF Wake, IInv, TypeOK
  <2>4. \A q \in Processes : waits'[q] \in Events => waits'[q] = waits[q]
    BY <2>1 DEF Wake, Events
  <2> QED
    BY <2>2, <2>3, <2>4, WaitsKeepIInv
<1>9. ASSUME UNCHANGED vars PROVE IInv'
  <2>1. UNCHANGED <<ring, counts, update_requested, notified, waits, call, got>>
    BY <1>9 DEF vars, kernel
  <2>2. waits' \in [Processes -> {"no", "clock"} \cup Events]
    BY <2>1 DEF IInv, TypeOK
  <2>3. notified' \subseteq Events
    BY <2>1 DEF IInv, TypeOK
  <2> QED
    BY <2>1, <2>2, <2>3, WaitsKeepIInv
<1> QED
  BY <1>1, <1>2, <1>3, <1>4, <1>5, <1>6, <1>7, <1>8, <1>9
  DEF Next, ReaderStep, WriterStep, Processes

\* IInv is an invariant of sc_fifo under any calls in any order.
LEMMA Invariance == Spec => []IInv
<1>1. Init => IInv
  BY InitIInv
<1>2. IInv /\ [Next]_vars => IInv'
  BY NextKeepsIInv
<1> QED
  BY <1>1, <1>2, PTL DEF Spec

\* Every variable of the fifo keeps its type: no index leaves the buffer and no
\* count the size (sc_fifo.h:341-418).
THEOREM TypeCorrect == Spec => []TypeOK
<1>1. IInv => TypeOK
  BY DEF IInv
<1> QED
  BY <1>1, Invariance, PTL

\* The ring and the counts of the cycle agree: buf_write never meets a full ring
\* and buf_read never an empty one, so that no value is lost although their
\* callers ignore what they return (sc_fifo.h:226, 251, 268, 283).
THEOREM RingCorrect == Spec => []RingMatchesCounts
<1>1. IInv => RingMatchesCounts
  BY DEF IInv
<1> QED
  BY <1>1, Invariance, PTL

\* No process waits in read or write for an event that has gone by
\* (sc_fifo.h:223, 265, 343-349).
THEOREM NoWakeupLost == Spec => []NoLostWakeup
<1>1. IInv => NoLostWakeup
  BY DEF IInv, WakeupsPending, NoLostWakeup
<1> QED
  BY <1>1, Invariance, PTL

-----------------------------------------------------------------------------
(***************************************************************************)
(* The fifo implements DeltaFifo                                           *)
(***************************************************************************)

\* The values that can be read and those written in this cycle, by their slots.
Visible == [k \in 1 .. num_available |-> m_buf[Slot(k - 1)]]
Fresh == [k \in 1 .. m_num_written |-> m_buf[Slot(num_available + k - 1)]]

\* The counts as numbers.
LEMMA CountsAre ==
    ASSUME IInv
    PROVE  /\ num_available \in Nat /\ m_num_written \in Nat
           /\ used = num_available + m_num_written
           /\ num_available + m_num_written <= Size
<1>1. used \in 0 .. Size /\ m_num_written \in Nat /\ num_available \in Int
  BY SizeAssumption DEF SizeAssumption, IInv, TypeOK, used, num_available
<1>2. num_available >= 0 /\ used = num_available + m_num_written
  BY DEF IInv, RingMatchesCounts
<1> QED
  BY <1>1, <1>2, SizeAssumption DEF SizeAssumption

\* They are the sequences that the refinement maps to.
Mapped == /\ SubSeq(contents, 1, num_available) = Visible
          /\ SubSeq(contents, num_available + 1, used) = Fresh

LEMMA Mapping == IInv => Mapped
<1> SUFFICES ASSUME IInv PROVE Mapped
  OBVIOUS
<1> USE SizeAssumption DEF SizeAssumption
<1>1. PICK a \in Nat, w \in Nat :
          a = num_available /\ w = m_num_written /\ used = a + w /\ a + w <= Size
  BY CountsAre
<1>2. \A k \in 1 .. a + w : m_buf[(m_ri + k - 1) % Size] = m_buf[Slot(k - 1)]
  <2> SUFFICES ASSUME NEW k \in 1 .. a + w
               PROVE  (m_ri + k - 1) % Size = Slot(k - 1)
    OBVIOUS
  <2>1. k - 1 \in 0 .. Size /\ m_ri + (k - 1) = m_ri + k - 1
    BY <1>1 DEF IInv, TypeOK
  <2> QED
    BY <2>1, SlotIs DEF IInv
<1>3. PICK c : c = contents
  OBVIOUS
<1>4. c = [k \in 1 .. a + w |-> m_buf[Slot(k - 1)]]
  BY <1>1, <1>2, <1>3 DEF contents
<1>5. SubSeq(c, 1, a) = [k \in 1 .. a |-> m_buf[Slot(k - 1)]]
  BY <1>4
<1>6. SubSeq(c, a + 1, a + w) = [k \in 1 .. w |-> m_buf[Slot(a + k - 1)]]
  BY <1>4
<1> QED
  BY <1>1, <1>3, <1>5, <1>6 DEF Visible, Fresh, Mapped

\* After a read every slot is one nearer, and keeps its value.
LEMMA TakeMoves ==
    ASSUME IInv, NEW r \in Readers, num_available # 0, Take(r)
    PROVE  /\ got' = [got EXCEPT ![r] = m_buf[Slot(0)]]
           /\ \A k \in 0 .. Size - 2 :
                  Slot(k)' = Slot(k + 1) /\ m_buf'[Slot(k + 1)] = m_buf[Slot(k + 1)]
<1> USE SizeAssumption DEF SizeAssumption
<1>1. TypeOK /\ m_free # Size
  BY DEF IInv, TypeOK, RingMatchesCounts, used, num_available
<1>2. Slot(0) = m_ri
  BY <1>1 DEF TypeOK, Slot
<1>3. m_ri' = Slot(1)
  BY <1>1, SlotIs, 1 \in 0 .. Size DEF Take, buf_read
<1>4. /\ got' = [got EXCEPT ![r] = m_buf[m_ri]]
      /\ m_buf' = [m_buf EXCEPT ![m_ri] = NoValue]
  BY <1>1 DEF Take, buf_read
<1>5. ASSUME NEW k \in 0 .. Size - 2
      PROVE  Slot(k)' = Slot(k + 1) /\ m_buf'[Slot(k + 1)] = m_buf[Slot(k + 1)]
  <2>1. Slot(k)' = Slot(k + 1)
    BY <1>1, <1>3 DEF TypeOK, Slot
  <2>2. Slot(k + 1) # m_ri /\ Slot(k + 1) \in 0 .. Size - 1
    BY <1>1 DEF TypeOK, Slot
  <2> QED
    BY <1>1, <1>4, <2>1, <2>2 DEF TypeOK
<1> QED
  BY <1>2, <1>4, <1>5

\* A read is a Get of the fifo that is promised.
LEMMA TakeIsGet ==
    ASSUME IInv, IInv', NEW r \in Readers, num_available # 0, Take(r)
    PROVE  Abstract!Get(r)
<1> USE SizeAssumption DEF SizeAssumption
<1>1. PICK a \in Nat, w \in Nat :
          a = num_available /\ w = m_num_written /\ a + w <= Size
  BY CountsAre
<1>2. a # 0 /\ num_available' = a - 1 /\ m_num_written' = w
  BY <1>1, TakeKeepsRing DEF Take
<1>3. PICK b : b = [k \in 0 .. Size - 1 |-> m_buf[Slot(k)]]
  OBVIOUS
<1>4. \A k \in 0 .. Size - 2 : m_buf'[Slot(k)'] = b[k + 1]
  BY <1>3, TakeMoves
<1>5. Visible = [k \in 1 .. a |-> b[k - 1]]
  BY <1>1, <1>3 DEF Visible
<1>6. Visible' = [k \in 1 .. a - 1 |-> b[k]]
  <2>1. Visible' = [k \in 1 .. a - 1 |-> m_buf'[Slot(k - 1)']]
    BY <1>2 DEF Visible
  <2>2. \A k \in 1 .. a - 1 : m_buf'[Slot(k - 1)'] = b[k]
    BY <1>1, <1>4
  <2> QED
    BY <2>1, <2>2
<1>7. Fresh' = Fresh
  <2>1. Fresh = [k \in 1 .. w |-> b[a + k - 1]]
    BY <1>1, <1>3 DEF Fresh
  <2>2. Fresh' = [k \in 1 .. w |-> m_buf'[Slot((a - 1) + k - 1)']]
    BY <1>2 DEF Fresh
  <2>3. \A k \in 1 .. w : m_buf'[Slot((a - 1) + k - 1)'] = b[a + k - 1]
    BY <1>1, <1>2, <1>4
  <2> QED
    BY <2>1, <2>2, <2>3
<1>8. Visible # <<>> /\ Head(Visible) = m_buf[Slot(0)] /\ Visible' = Tail(Visible)
  <2>1. Visible # <<>>
    BY <1>2, <1>5
  <2>2. Head(Visible) = b[0] /\ b[0] = m_buf[Slot(0)]
    BY <1>1, <1>2, <1>3, <1>5
  <2>3. Tail(Visible) = [k \in 1 .. a - 1 |-> b[k]]
    BY <1>2, <1>5
  <2> QED
    BY <1>6, <2>1, <2>2, <2>3
<1>9. Mapped /\ Mapped'
  BY Mapping, PTL
<1>10. m_num_read' = m_num_read + 1 /\ got' = [got EXCEPT ![r] = m_buf[Slot(0)]]
  BY TakeMoves DEF Take
<1> QED
  BY <1>7, <1>8, <1>9, <1>10 DEF Abstract!Get, Mapped

\* A write fills the first free slot and leaves those before it.
LEMMA GiveStores ==
    ASSUME IInv, NEW v \in Values, num_free # 0, Give(v)
    PROVE  /\ used < Size /\ m_ri' = m_ri /\ m_buf'[Slot(used)] = v
           /\ \A k \in 0 .. used - 1 : m_buf'[Slot(k)] = m_buf[Slot(k)]
<1> USE SizeAssumption DEF SizeAssumption
<1>1. TypeOK /\ m_free # 0 /\ used \in 0 .. Size - 1
  BY DEF IInv, TypeOK, RingMatchesCounts, used, num_available, num_free
<1>2. Slot(used) = m_wi
  <2>1. (m_ri + used) % Size = Slot(used)
    BY <1>1, SlotIs
  <2> QED
    BY <2>1 DEF IInv, RingMatchesCounts
<1>3. m_ri' = m_ri /\ m_buf' = [m_buf EXCEPT ![m_wi] = v]
  BY <1>1 DEF Give, buf_write
<1>4. m_buf'[Slot(used)] = v
  BY <1>1, <1>2, <1>3 DEF TypeOK
<1>5. ASSUME NEW k \in 0 .. used - 1
      PROVE  m_buf'[Slot(k)] = m_buf[Slot(k)]
  <2>1. Slot(k) # m_wi /\ Slot(k) \in 0 .. Size - 1
    BY <1>1, <1>2 DEF TypeOK, Slot
  <2> QED
    BY <1>1, <1>3, <2>1 DEF TypeOK
<1> QED
  BY <1>1, <1>3, <1>4, <1>5

\* A write is a Put.
LEMMA GiveIsPut ==
    ASSUME IInv, IInv', NEW v \in Values, num_free # 0, Give(v)
    PROVE  Abstract!Put(v)
<1> USE SizeAssumption DEF SizeAssumption
<1>1. PICK a \in Nat, w \in Nat :
          a = num_available /\ w = m_num_written /\ used = a + w /\ a + w < Size
  BY CountsAre, GiveStores
<1>2. num_available' = a /\ m_num_written' = w + 1
  BY <1>1, GiveKeepsRing DEF Give
<1>3. PICK b : b = [k \in 0 .. Size - 1 |-> m_buf[Slot(k)]]
  OBVIOUS
<1>4. /\ \A k \in 0 .. a + w - 1 : m_buf'[Slot(k)'] = b[k]
      /\ m_buf'[Slot(a + w)'] = v
  <2>1. \A k \in 0 .. a + w : Slot(k)' = Slot(k)
    BY GiveStores DEF Slot
  <2>2. m_buf'[Slot(a + w)] = v
    BY <1>1, GiveStores
  <2>3. \A k \in 0 .. a + w - 1 : m_buf'[Slot(k)] = b[k]
    BY <1>1, <1>3, GiveStores
  <2> QED
    BY <1>1, <2>1, <2>2, <2>3
<1>5. Visible = [k \in 1 .. a |-> b[k - 1]] /\ Visible' = Visible
  <2>1. Visible = [k \in 1 .. a |-> b[k - 1]]
    BY <1>1, <1>3 DEF Visible
  <2>2. Visible' = [k \in 1 .. a |-> m_buf'[Slot(k - 1)']]
    BY <1>2 DEF Visible
  <2>3. \A k \in 1 .. a : m_buf'[Slot(k - 1)'] = b[k - 1]
    BY <1>1, <1>4
  <2> QED
    BY <2>1, <2>2, <2>3
<1>6. Fresh = [k \in 1 .. w |-> b[a + k - 1]]
  BY <1>1, <1>3 DEF Fresh
<1>7. Fresh' = Append(Fresh, v)
  <2>1. Fresh' = [k \in 1 .. w + 1 |-> m_buf'[Slot(a + k - 1)']]
    BY <1>2 DEF Fresh
  <2>2. \A k \in 1 .. w : m_buf'[Slot(a + k - 1)'] = b[a + k - 1]
    BY <1>1, <1>4
  <2>3. m_buf'[Slot(a + (w + 1) - 1)'] = v
    BY <1>1, <1>4
  <2>4. Fresh' = [k \in 1 .. w + 1 |-> IF k = w + 1 THEN v ELSE b[a + k - 1]]
    <3>1. \A k \in 1 .. w + 1 : k # w + 1 => k \in 1 .. w
      BY <1>1
    <3>2. \A k \in 1 .. w + 1 : m_buf'[Slot(a + k - 1)']
                                   = IF k = w + 1 THEN v ELSE b[a + k - 1]
      BY <2>2, <2>3, <3>1
    <3> QED
      BY <2>1, <3>2
  <2> QED
    BY <1>6, <2>4
<1>8. Len(Visible) + m_num_read + Len(Fresh) < Size
  <2>1. Len(Visible) = a /\ Len(Fresh) = w
    BY <1>5, <1>6
  <2>2. a + m_num_read = m_num_readable /\ m_num_readable + w < Size
    BY <1>1 DEF IInv, TypeOK, RingMatchesCounts, num_available, num_free
  <2>3. m_num_read \in Nat /\ m_num_readable \in Nat
    BY DEF IInv, TypeOK
  <2> QED
    BY <2>1, <2>2, <2>3
<1>9. Mapped /\ Mapped'
  BY Mapping, PTL
<1> QED
  BY <1>5, <1>7, <1>8, <1>9 DEF Abstract!Put, Mapped, Give

\* An update ends the cycle.
LEMMA UpdateIsEndCycle ==
    ASSUME IInv, IInv', Update
    PROVE  Abstract!EndCycle
<1> USE SizeAssumption DEF SizeAssumption
<1>1. PICK a \in Nat, w \in Nat :
          a = num_available /\ w = m_num_written /\ used = a + w /\ a + w <= Size
  BY CountsAre
<1>2. /\ m_num_readable' = Size - m_free
      /\ m_num_read' = 0 /\ m_num_written' = 0
      /\ m_buf' = m_buf /\ m_ri' = m_ri /\ got' = got
  BY DEF Update, UpdateNotifying, ring
<1>3. num_available' = a + w
  BY <1>1, <1>2 DEF num_available, used, IInv, TypeOK
<1>4. PICK b : b = [k \in 0 .. Size - 1 |-> m_buf[Slot(k)]]
  OBVIOUS
<1>5. Visible = [k \in 1 .. a |-> b[k - 1]]
  BY <1>1, <1>4 DEF Visible
<1>6. Fresh = [k \in 1 .. w |-> b[a + k - 1]]
  BY <1>1, <1>4 DEF Fresh
<1>7. Visible' = [k \in 1 .. a + w |-> b[k - 1]]
  <2>1. Visible' = [k \in 1 .. a + w |-> m_buf[Slot(k - 1)]]
    BY <1>2, <1>3 DEF Visible, Slot
  <2> QED
    BY <1>1, <1>4, <2>1
<1>8. Visible' = Visible \o Fresh
  BY <1>5, <1>6, <1>7
<1>9. Fresh' = <<>>
  BY <1>2 DEF Fresh
<1>10. Mapped /\ Mapped'
  BY Mapping, PTL
<1> QED
  BY <1>2, <1>8, <1>9, <1>10 DEF Abstract!EndCycle, Mapped

abstractVars ==
    <<SubSeq(contents, 1, num_available), SubSeq(contents, num_available + 1, used),
      m_num_read, got>>

\* What a step that moves no value leaves alone.
LEMMA Stutter ==
    ASSUME UNCHANGED <<ring, counts, got>>
    PROVE  UNCHANGED abstractVars
  BY DEF abstractVars, contents, used, num_available, ring, counts

\* Whatever the processes call and in whatever order the kernel runs them, the
\* fifo is a DeltaFifo: a value comes out once, in the order of the writes, from
\* the cycle after its write on (sc_fifo.h:219-418).
THEOREM Refinement == Spec => ImplementsDeltaFifo
<1>1. Init => Abstract!Init
  <2> SUFFICES ASSUME Init PROVE Abstract!Init
    OBVIOUS
  <2>1. m_num_readable = 0 /\ m_num_read = 0 /\ m_num_written = 0
          /\ got = [r \in Readers |-> NoValue]
    BY DEF Init
  <2>2. Visible = <<>> /\ Fresh = <<>>
    BY <2>1 DEF Visible, Fresh, num_available
  <2>3. Mapped
    BY InitIInv, Mapping
  <2> QED
    BY <2>1, <2>2, <2>3 DEF Abstract!Init, Mapped
<1>2. IInv /\ IInv' /\ [Next]_vars => [Abstract!Next]_abstractVars
  <2> SUFFICES ASSUME IInv, IInv', [Next]_vars
               PROVE  [Abstract!Next]_abstractVars
    OBVIOUS
  <2>1. ASSUME NEW r \in Readers, Read(r) PROVE [Abstract!Next]_abstractVars
    <3>1. CASE num_available = 0
      BY <2>1, <3>1, Stutter DEF Read, WaitFor
    <3>2. CASE num_available # 0
      BY <2>1, <3>2, TakeIsGet DEF Read, Abstract!Next
    <3> QED
      BY <3>1, <3>2
  <2>2. ASSUME NEW r \in Readers, NbRead(r) PROVE [Abstract!Next]_abstractVars
    BY <2>2, TakeIsGet DEF NbRead, Abstract!Next
  <2>3. ASSUME NEW w \in Writers, NEW v \in Values, Write(w, v)
        PROVE  [Abstract!Next]_abstractVars
    <3>1. CASE num_free = 0
      BY <2>3, <3>1, Stutter DEF Write, WaitFor
    <3>2. CASE num_free # 0
      BY <2>3, <3>2, GiveIsPut DEF Write, Abstract!Next
    <3> QED
      BY <3>1, <3>2
  <2>4. ASSUME NEW w \in Writers, NEW v \in Values, NbWrite(w, v)
        PROVE  [Abstract!Next]_abstractVars
    BY <2>4, GiveIsPut DEF NbWrite, Abstract!Next
  <2>5. ASSUME NEW p \in Processes, Pause(p) PROVE [Abstract!Next]_abstractVars
    BY <2>5, Stutter DEF Pause
  <2>6. ASSUME Update PROVE [Abstract!Next]_abstractVars
    BY <2>6, UpdateIsEndCycle DEF Abstract!Next
  <2>7. ASSUME Deliver PROVE [Abstract!Next]_abstractVars
    BY <2>7, Stutter DEF Deliver
  <2>8. ASSUME AdvanceTime PROVE [Abstract!Next]_abstractVars
    BY <2>8, Stutter DEF AdvanceTime
  <2>9. ASSUME UNCHANGED vars PROVE [Abstract!Next]_abstractVars
    BY <2>9, Stutter DEF vars
  <2> QED
    BY <2>1, <2>2, <2>3, <2>4, <2>5, <2>6, <2>7, <2>8, <2>9
    DEF Next, ReaderStep, WriterStep, Processes
<1>3. IInv /\ IInv' /\ [Next]_vars => [Abstract!Next]_(Abstract!vars)
  BY <1>2 DEF abstractVars, Abstract!vars
<1> QED
  BY <1>1, <1>3, Invariance, PTL DEF Spec, ImplementsDeltaFifo, Abstract!Spec
=============================================================================
