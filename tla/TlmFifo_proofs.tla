---------------------------- MODULE TlmFifo_proofs ----------------------------
(***************************************************************************)
(* Theorems about TlmFifo, for every initial size, every type of values,   *)
(* any processes, and any changes of the size.                             *)
(***************************************************************************)
EXTENDS TlmFifo, TLAPS, SequenceTheorems

Word == Values \cup {NoValue}
N == Len(m_buf)

\* The cells of the buffer from the reading index on.
Place(k) == IF m_ri + k < N THEN m_ri + k + 1 ELSE m_ri + k - N + 1
Value(k) == m_buf[Place(k)]

\* The buffer, apart from the counts.
RingTyped ==
    /\ N \in Nat /\ N > 0 /\ m_buf \in [1 .. N -> Word]
    /\ m_used \in 0 .. N /\ m_ri \in 0 .. N - 1 /\ m_wi \in 0 .. N - 1

Ring ==
    /\ RingTyped
    /\ m_wi = IF m_ri + m_used < N THEN m_ri + m_used ELSE m_ri + m_used - N
    /\ \A k \in 0 .. m_used - 1 : Value(k) \in Values
    /\ \A k \in m_used .. N - 1 : Value(k) = NoValue

LEMMA NoValueIsNone == NoValue \notin Values
  BY TlmFifoAssumption DEF TlmFifoAssumption

\* An index moved on by at most one round.
LEMMA Wrap ==
    \A n \in Nat \ {0}, x \in Nat : x < 2 * n => x % n = IF x < n THEN x ELSE x - n
<1> SUFFICES ASSUME NEW n \in Nat \ {0}, NEW x \in Nat, x < 2 * n
             PROVE  x % n = IF x < n THEN x ELSE x - n
  OBVIOUS
<1>1. CASE x < n
  BY <1>1
<1>2. CASE x >= n
  <2>1. x - n \in 0 .. n - 1
    BY <1>2
  <2>2. (1 * n + (x - n)) % n = x - n
    BY <2>1
  <2>3. 1 * n + (x - n) = x
    OBVIOUS
  <2> QED
    BY <1>2, <2>2, <2>3
<1> QED
  BY <1>1, <1>2

LEMMA CellOfSum ==
    ASSUME RingTyped, NEW i \in 0 .. N - 1, NEW k \in 0 .. N
    PROVE  Cell(i + k) = IF i + k < N THEN i + k + 1 ELSE i + k - N + 1
<1>1. PICK x \in Nat : x = i + k /\ x < 2 * N
  BY DEF RingTyped
<1>2. N \in Nat \ {0}
  BY DEF RingTyped
<1>3. x % N = IF x < N THEN x ELSE x - N
  BY <1>1, <1>2, Wrap
<1> QED
  BY <1>1, <1>2, <1>3 DEF Cell, N

LEMMA PeekIsValue ==
    ASSUME RingTyped, NEW k \in 0 .. N
    PROVE  peek_data(k) = Value(k)
<1>1. Cell(m_ri + k) = Place(k)
  BY CellOfSum DEF RingTyped, Place
<1> QED
  BY <1>1 DEF peek_data, Value

PeeksAgree == \A k \in 0 .. N : peek_data(k) = Value(k)

LEMMA PeeksAreValues == RingTyped => PeeksAgree
  BY PeekIsValue DEF PeeksAgree

\* Places are cells, and different for different values.
LEMMA PlacesDiffer ==
    ASSUME RingTyped
    PROVE  /\ \A k \in 0 .. N - 1 : Place(k) \in 1 .. N
           /\ \A j, k \in 0 .. N - 1 : Place(j) = Place(k) => j = k
  BY DEF RingTyped, Place

\* A read takes the first value, and every other is one nearer.
LEMMA ReadRing ==
    ASSUME Ring, m_used > 0, buf_read
    PROVE  /\ Ring' /\ m_used' = m_used - 1
           /\ \A k \in 0 .. m_used - 2 : Value(k)' = Value(k + 1)
<1>1. RingTyped
  BY DEF Ring
<1>2. Cell(m_ri) = m_ri + 1
  <2>1. m_ri + 0 = m_ri
    BY <1>1 DEF RingTyped
  <2>2. Cell(m_ri + 0) = m_ri + 1
    BY <1>1, CellOfSum DEF RingTyped
  <2> QED
    BY <2>1, <2>2
<1>3. (m_ri + 1) % N = IF m_ri + 1 < N THEN m_ri + 1 ELSE 0
  <2>1. PICK x \in Nat : x = m_ri + 1 /\ x <= N
    BY <1>1 DEF RingTyped
  <2>2. x % N = IF x < N THEN x ELSE x - N
    BY <1>1, <2>1, Wrap DEF RingTyped
  <2> QED
    BY <1>1, <2>1, <2>2 DEF RingTyped
<1>4. /\ m_buf' = [m_buf EXCEPT ![m_ri + 1] = NoValue]
      /\ m_ri' = IF m_ri + 1 < N THEN m_ri + 1 ELSE 0
      /\ m_used' = m_used - 1 /\ m_wi' = m_wi
  BY <1>2, <1>3 DEF buf_read, N
<1>5. m_buf' \in [1 .. N -> Word] /\ N' = N
  <2>1. m_buf' \in [1 .. N -> Word]
    BY <1>1, <1>4 DEF RingTyped, Word
  <2>2. PICK n \in Nat : n = N
    BY <1>1 DEF RingTyped
  <2>3. m_buf \in Seq(Word) /\ m_buf' \in Seq(Word) /\ DOMAIN m_buf' = 1 .. n /\ DOMAIN m_buf = 1 .. n
    BY <1>1, <2>1, <2>2 DEF RingTyped
  <2>4. Len(m_buf') = n
    BY <2>2, <2>3
  <2> QED
    BY <2>1, <2>2, <2>4 DEF N
<1>6. RingTyped'
  BY <1>1, <1>4, <1>5 DEF RingTyped, Ring
<1>7. m_wi' = IF m_ri' + m_used' < N THEN m_ri' + m_used' ELSE m_ri' + m_used' - N
  BY <1>1, <1>4 DEF Ring, RingTyped
<1>8. ASSUME NEW k \in 0 .. N - 2
      PROVE  Value(k)' = Value(k + 1)
  <2>1. Place(k)' = Place(k + 1)
    BY <1>1, <1>4, <1>5 DEF RingTyped, Place
  <2>2. Place(k + 1) # m_ri + 1 /\ Place(k + 1) \in 1 .. N
    BY <1>1 DEF RingTyped, Place
  <2> QED
    BY <1>1, <1>4, <2>1, <2>2 DEF RingTyped, Value
<1>9. ASSUME NEW k \in 0 .. N - 1, k = N - 1
      PROVE  Value(k)' = NoValue
  <2>1. Place(k)' = m_ri + 1
    BY <1>1, <1>4, <1>5, <1>9 DEF RingTyped, Place
  <2> QED
    BY <1>1, <1>4, <2>1 DEF RingTyped, Value
<1>10. \A k \in 0 .. m_used' - 1 : Value(k)' \in Values
  BY <1>1, <1>4, <1>8 DEF Ring, RingTyped
<1>11. ASSUME NEW k \in m_used' .. N - 1
       PROVE  Value(k)' = NoValue
  <2>1. CASE k = N - 1
    BY <1>1, <1>4, <1>9, <2>1 DEF RingTyped
  <2>2. CASE k # N - 1
    <3>1. k \in 0 .. N - 2 /\ k + 1 \in m_used .. N - 1
      BY <1>1, <1>4, <1>11, <2>2 DEF RingTyped
    <3> QED
      BY <1>8, <3>1 DEF Ring
  <2> QED
    BY <2>1, <2>2
<1>12. Ring'
  BY <1>5, <1>6, <1>7, <1>10, <1>11 DEF Ring
<1> QED
  BY <1>1, <1>4, <1>8, <1>12 DEF RingTyped

\* The copy that a resize makes.
LEMMA ResizedIs ==
    ASSUME Ring, NEW n \in Nat, n >= m_used, n > 0
    PROVE  /\ Resized(n) \in [1 .. n -> Word] /\ Len(Resized(n)) = n
           /\ \A k \in 1 .. n : Resized(n)[k] = IF k <= m_used THEN Value(k - 1) ELSE NoValue
<1>1. RingTyped
  BY DEF Ring
<1>2. \A k \in 1 .. n : Resized(n)[k] = IF k <= m_used THEN Value(k - 1) ELSE NoValue
  <2> SUFFICES ASSUME NEW k \in 1 .. n, k <= m_used
               PROVE  peek_data(k - 1) = Value(k - 1)
    BY DEF Resized
  <2>1. k - 1 \in 0 .. N
    BY <1>1 DEF RingTyped
  <2> QED
    BY <1>1, <2>1, PeekIsValue
<1>3. \A k \in 1 .. n : Resized(n)[k] \in Word
  BY <1>1, <1>2 DEF Ring, RingTyped, Word
<1>4. Resized(n) \in [1 .. n -> Word]
  BY <1>3 DEF Resized
<1>5. Len(Resized(n)) = n
  BY DEF Resized
<1> QED
  BY <1>2, <1>4, <1>5

\* A larger buffer has the same values, from its first cell on.
LEMMA ResizeRing ==
    ASSUME Ring, NEW n \in Nat, n > N, resize(n)
    PROVE  /\ Ring' /\ m_used' = m_used
           /\ \A k \in 0 .. m_used - 1 : Value(k)' = Value(k)
<1>1. RingTyped
  BY DEF Ring
<1>2. n > 0 /\ n > m_used /\ m_used \in Nat
  BY <1>1 DEF RingTyped
<1>3. /\ m_buf' \in [1 .. n -> Word] /\ N' = n
      /\ \A k \in 1 .. n : m_buf'[k] = IF k <= m_used THEN Value(k - 1) ELSE NoValue
  BY <1>2, ResizedIs DEF resize, N
<1>4. m_used' = m_used /\ m_ri' = 0 /\ m_wi' = m_used
  BY <1>2 DEF resize
<1>5. RingTyped'
  BY <1>2, <1>3, <1>4 DEF RingTyped
<1>6. \A k \in 0 .. n - 1 : Value(k)' = IF k < m_used THEN Value(k) ELSE NoValue
  <2> SUFFICES ASSUME NEW k \in 0 .. n - 1
               PROVE  Value(k)' = IF k < m_used THEN Value(k) ELSE NoValue
    OBVIOUS
  <2>1. Place(k)' = k + 1
    BY <1>3, <1>4 DEF Place
  <2>2. m_buf'[k + 1] = IF k < m_used THEN Value(k) ELSE NoValue
    <3>1. k + 1 \in 1 .. n /\ (k + 1) - 1 = k /\ (k + 1 <= m_used <=> k < m_used)
      BY <1>2
    <3>2. PICK j \in 1 .. n : j = k + 1 /\ j - 1 = k
      BY <3>1
    <3> QED
      BY <1>3, <3>1, <3>2
  <2> QED
    BY <2>1, <2>2 DEF Value
<1>7. m_wi' = IF m_ri' + m_used' < N' THEN m_ri' + m_used' ELSE m_ri' + m_used' - N'
  BY <1>2, <1>3, <1>4
<1>8. \A k \in 0 .. m_used' - 1 : Value(k)' \in Values
  BY <1>2, <1>4, <1>6 DEF Ring
<1>9. \A k \in m_used' .. N' - 1 : Value(k)' = NoValue
  BY <1>2, <1>3, <1>4, <1>6
<1>10. \A k \in 0 .. m_used - 1 : Value(k)' = Value(k)
  BY <1>2, <1>6
<1> QED
  BY <1>4, <1>5, <1>7, <1>8, <1>9, <1>10 DEF Ring

\* A write stores behind the last value, in a buffer that is large enough then.
LEMMA WriteRing ==
    ASSUME Ring, NEW v \in Values, buf_write(v)
    PROVE  /\ Ring' /\ m_used' = m_used + 1
           /\ \A k \in 0 .. m_used : Value(k)' = IF k = m_used THEN v ELSE Value(k)
<1>1. RingTyped
  BY DEF Ring
<1>2. CASE m_used < N
  <2>1. Cell(m_wi) = m_wi + 1
    <3>1. m_wi + 0 = m_wi
      BY <1>1 DEF RingTyped
    <3>2. Cell(m_wi + 0) = m_wi + 1
      BY <1>1, CellOfSum DEF RingTyped
    <3> QED
      BY <3>1, <3>2
  <2>2. (m_wi + 1) % N = IF m_wi + 1 < N THEN m_wi + 1 ELSE 0
    <3>1. PICK x \in Nat : x = m_wi + 1 /\ x <= N
      BY <1>1 DEF RingTyped
    <3>2. x % N = IF x < N THEN x ELSE x - N
      BY <1>1, <3>1, Wrap DEF RingTyped
    <3> QED
      BY <1>1, <3>1, <3>2 DEF RingTyped
  <2>3. /\ m_buf' = [m_buf EXCEPT ![m_wi + 1] = v]
        /\ m_wi' = IF m_wi + 1 < N THEN m_wi + 1 ELSE 0
        /\ m_used' = m_used + 1 /\ m_ri' = m_ri
    BY <1>2, <2>1, <2>2 DEF buf_write, N
  <2>4. m_buf' \in [1 .. N -> Word] /\ N' = N
    <3>1. m_buf' \in [1 .. N -> Word]
      BY <1>1, <2>3 DEF RingTyped, Word
    <3>2. PICK n \in Nat : n = N
      BY <1>1 DEF RingTyped
    <3>3. m_buf' \in Seq(Word) /\ DOMAIN m_buf' = 1 .. n
      BY <1>1, <3>1, <3>2 DEF RingTyped
    <3>4. Len(m_buf') = n
      BY <3>2, <3>3
    <3> QED
      BY <3>1, <3>2, <3>4 DEF N
  <2>5. RingTyped'
    BY <1>1, <1>2, <2>3, <2>4 DEF RingTyped
  <2>6. m_wi' = IF m_ri' + m_used' < N THEN m_ri' + m_used' ELSE m_ri' + m_used' - N
    BY <1>1, <1>2, <2>3 DEF Ring, RingTyped
  <2>7. m_wi + 1 = Place(m_used) /\ Place(m_used) \in 1 .. N
    BY <1>1, <1>2 DEF Ring, RingTyped, Place
  <2>8. ASSUME NEW k \in 0 .. N - 1
        PROVE  Value(k)' = IF k = m_used THEN v ELSE Value(k)
    <3>1. Place(k)' = Place(k) /\ Place(k) \in 1 .. N
      BY <1>1, <2>3, <2>4, PlacesDiffer DEF Place
    <3>2. CASE k = m_used
      BY <1>1, <2>3, <2>7, <3>1, <3>2 DEF RingTyped, Value
    <3>3. CASE k # m_used
      <4>1. m_used \in 0 .. N - 1
        BY <1>1, <1>2 DEF RingTyped
      <4>2. Place(k) # m_wi + 1
        BY <1>1, <2>7, <3>3, <4>1, PlacesDiffer
      <4> QED
        BY <1>1, <2>3, <3>1, <3>3, <4>2 DEF RingTyped, Value
    <3> QED
      BY <3>2, <3>3
  <2>9. \A k \in 0 .. m_used' - 1 : Value(k)' \in Values
    BY <1>1, <1>2, <2>3, <2>8 DEF Ring, RingTyped
  <2>10. \A k \in m_used' .. N - 1 : Value(k)' = NoValue
    BY <1>1, <1>2, <2>3, <2>8 DEF Ring, RingTyped
  <2>11. Ring'
    BY <2>4, <2>5, <2>6, <2>9, <2>10 DEF Ring
  <2> QED
    BY <1>1, <1>2, <2>3, <2>8, <2>11 DEF RingTyped
<1>3. CASE ~(m_used < N)
  <2>1. m_used = N /\ N \in Nat /\ N > 0
    BY <1>1, <1>3 DEF RingTyped
  <2>2. PICK n \in Nat : n = 2 * N /\ n >= m_used /\ n > 0 /\ m_used + 1 \in 1 .. n
    BY <2>1
  <2>3. /\ Resized(n) \in [1 .. n -> Word] /\ Len(Resized(n)) = n
        /\ \A k \in 1 .. n : Resized(n)[k] = IF k <= m_used THEN Value(k - 1) ELSE NoValue
    BY <2>2, ResizedIs
  <2>4. /\ m_buf' = [Resized(n) EXCEPT ![m_used + 1] = v]
        /\ m_wi' = (m_used + 1) % Len(m_buf')
        /\ m_used' = m_used + 1 /\ m_ri' = 0
    BY <1>3, <2>2 DEF buf_write, N
  <2>5. m_buf' \in [1 .. n -> Word] /\ N' = n
    <3>1. m_buf' \in [1 .. n -> Word]
      BY <2>3, <2>4 DEF Word
    <3>2. m_buf' \in Seq(Word) /\ DOMAIN m_buf' = 1 .. n
      BY <2>2, <3>1
    <3>3. Len(m_buf') = n
      BY <2>2, <3>2
    <3> QED
      BY <3>1, <3>3 DEF N
  <2>6. m_wi' = IF m_used + 1 < n THEN m_used + 1 ELSE 0
    <3>1. PICK x \in Nat : x = m_used + 1 /\ x <= n
      BY <2>1, <2>2
    <3>2. x % n = IF x < n THEN x ELSE x - n
      BY <2>2, <3>1, Wrap
    <3> QED
      BY <2>2, <2>4, <2>5, <3>1, <3>2 DEF N
  <2>7. RingTyped'
    BY <2>1, <2>2, <2>4, <2>5, <2>6 DEF RingTyped
  <2>8. m_wi' = IF m_ri' + m_used' < N' THEN m_ri' + m_used' ELSE m_ri' + m_used' - N'
    BY <2>1, <2>2, <2>4, <2>5, <2>6
  <2>9. ASSUME NEW k \in 0 .. n - 1
        PROVE  Value(k)' = IF k = m_used THEN v ELSE IF k < m_used THEN Value(k) ELSE NoValue
    <3>1. Place(k)' = k + 1
      BY <2>4, <2>5 DEF Place
    <3>2. PICK j \in 1 .. n : j = k + 1 /\ j - 1 = k
      BY <2>2
    <3>3. Resized(n)[j] = IF k < m_used THEN Value(k) ELSE NoValue
      BY <2>1, <2>3, <3>2
    <3>4. m_buf'[j] = IF j = m_used + 1 THEN v ELSE Resized(n)[j]
      BY <2>3, <2>4
    <3> QED
      BY <2>1, <3>1, <3>2, <3>3, <3>4 DEF Value
  <2>10. \A k \in 0 .. m_used' - 1 : Value(k)' \in Values
    BY <2>1, <2>2, <2>4, <2>9 DEF Ring
  <2>11. \A k \in m_used' .. N' - 1 : Value(k)' = NoValue
    BY <2>1, <2>2, <2>4, <2>5, <2>9
  <2>12. Ring'
    BY <2>7, <2>8, <2>10, <2>11 DEF Ring
  <2> QED
    BY <2>1, <2>2, <2>4, <2>9, <2>12
<1> QED
  BY <1>2, <1>3

\* A poke changes at most the value that it reaches past all free cells.
LEMMA PokeRing ==
    ASSUME Ring, NEW v \in Values, NEW n \in 0 .. m_used - 1,
           m_buf' = [m_buf EXCEPT ![Cell(m_wi + n)] = IF @ = NoValue THEN NoValue ELSE v],
           UNCHANGED <<m_used, m_ri, m_wi>>
    PROVE  /\ Ring'
           /\ \A k \in 0 .. m_used - 1 :
                 Value(k)' = IF k = n - (N - m_used) THEN v ELSE Value(k)
<1>1. RingTyped
  BY DEF Ring
<1>2. Cell(m_wi + n) = IF m_wi + n < N THEN m_wi + n + 1 ELSE m_wi + n - N + 1
  <2>1. m_wi \in 0 .. N - 1 /\ n \in 0 .. N
    BY <1>1 DEF RingTyped
  <2> QED
    BY <1>1, <2>1, CellOfSum
<1>3. PICK c \in 1 .. N : /\ c = Cell(m_wi + n)
                          /\ c = IF m_wi + n < N THEN m_wi + n + 1 ELSE m_wi + n - N + 1
  BY <1>1, <1>2 DEF RingTyped
<1>4. m_buf' = [m_buf EXCEPT ![c] = IF m_buf[c] = NoValue THEN NoValue ELSE v]
  BY <1>1, <1>3 DEF RingTyped
<1>5. m_buf' \in [1 .. N -> Word] /\ N' = N
  <2>1. m_buf' \in [1 .. N -> Word]
    BY <1>1, <1>4 DEF RingTyped, Word
  <2>2. PICK s \in Nat : s = N
    BY <1>1 DEF RingTyped
  <2>3. m_buf' \in Seq(Word) /\ DOMAIN m_buf' = 1 .. s
    BY <1>1, <2>1, <2>2 DEF RingTyped
  <2>4. Len(m_buf') = s
    BY <2>2, <2>3
  <2> QED
    BY <2>1, <2>2, <2>4 DEF N
<1>6. RingTyped'
  BY <1>1, <1>5 DEF RingTyped
<1>7. ASSUME NEW k \in 0 .. N - 1
      PROVE  Value(k)' = IF Place(k) = c /\ Value(k) # NoValue THEN v ELSE Value(k)
  <2>1. Place(k)' = Place(k) /\ Place(k) \in 1 .. N
    BY <1>1, <1>5, PlacesDiffer DEF Place
  <2> QED
    BY <1>1, <1>4, <2>1 DEF RingTyped, Value
<1>8. ASSUME NEW k \in 0 .. m_used - 1
      PROVE  Place(k) = c <=> k = n - (N - m_used)
  BY <1>1, <1>3 DEF Ring, RingTyped, Place
<1>9. ASSUME NEW k \in 0 .. m_used - 1
      PROVE  Value(k)' = IF k = n - (N - m_used) THEN v ELSE Value(k)
  <2>1. k \in 0 .. N - 1 /\ Value(k) # NoValue
    BY <1>1, NoValueIsNone DEF Ring, RingTyped
  <2> QED
    BY <1>7, <1>8, <2>1
<1>10. \A k \in 0 .. m_used' - 1 : Value(k)' \in Values
  BY <1>9 DEF Ring
<1>11. \A k \in m_used' .. N' - 1 : Value(k)' = NoValue
  <2> SUFFICES ASSUME NEW k \in m_used .. N - 1
               PROVE  Value(k)' = NoValue
    BY <1>5
  <2>1. k \in 0 .. N - 1
    BY <1>1 DEF RingTyped
  <2> QED
    BY <1>7, <2>1 DEF Ring
<1>12. Ring'
  BY <1>5, <1>6, <1>10, <1>11 DEF Ring
<1> QED
  BY <1>9, <1>12

-----------------------------------------------------------------------------
(***************************************************************************)
(* The inductive invariant, part by part                                   *)
(***************************************************************************)
Procs == Readers \cup Writers
Calls == {None, Getting, Peeking} \cup {Putting(v) : v \in Values}

CountsAgree ==
    /\ m_num_readable \in Nat /\ m_num_read \in Nat /\ m_num_written \in Nat
    /\ m_num_read <= m_num_readable
    /\ m_used = m_num_readable - m_num_read + m_num_written

CallTyped == call \in [Procs -> Calls]

GotTyped == got \in [Readers -> Word]

FlagsTyped == m_expand \in BOOLEAN /\ unannounced \in BOOLEAN

KernelTyped ==
    /\ waits \in [Procs -> (SUBSET (Data \cup Space)) \cup {Clock}]
    /\ requested \subseteq {"fifo"}
    /\ notified \subseteq Data \cup Space

Parts ==
    /\ Ring /\ CountsAgree /\ m_size \in Int
    /\ CallTyped /\ GotTyped /\ FlagsTyped /\ KernelTyped
    /\ WakeupsPending

LEMMA RingFromBuffer ==
    ASSUME TypeOK, BufferMatchesCounts
    PROVE  Ring
<1>1. RingTyped
  <2>1. m_buf \in Seq(Word) /\ N \in Nat /\ m_buf \in [1 .. N -> Word]
    BY DEF TypeOK, N, Word
  <2>2. N # 0
    <3>1. m_buf \in Seq(Word) /\ m_buf # <<>>
      BY DEF TypeOK, Word
    <3> QED
      BY <3>1, EmptySeq DEF N
  <2> QED
    BY <2>1, <2>2 DEF TypeOK, N, RingTyped
<1>2. (m_ri + m_used) % N = IF m_ri + m_used < N THEN m_ri + m_used ELSE m_ri + m_used - N
  <2>1. PICK x \in Nat : x = m_ri + m_used /\ x < 2 * N
    BY <1>1 DEF RingTyped
  <2>2. N \in Nat \ {0}
    BY <1>1 DEF RingTyped
  <2>3. x % N = IF x < N THEN x ELSE x - N
    BY <2>1, <2>2, Wrap
  <2> QED
    BY <1>1, <2>1, <2>3 DEF RingTyped
<1>3. m_wi = IF m_ri + m_used < N THEN m_ri + m_used ELSE m_ri + m_used - N
  BY <1>2 DEF BufferMatchesCounts, N
<1>4. ASSUME NEW k \in 0 .. N - 1
      PROVE  (Value(k) = NoValue <=> k >= m_used) /\ Value(k) \in Word
  <2>1. k \in 0 .. N
    BY <1>1 DEF RingTyped
  <2>2. peek_data(k) = Value(k)
    BY <1>1, <2>1, PeekIsValue
  <2>3. peek_data(k) = NoValue <=> k >= m_used
    BY DEF BufferMatchesCounts, N
  <2>4. Value(k) \in Word
    BY <1>1, PlacesDiffer DEF RingTyped, Value
  <2> QED
    BY <2>2, <2>3, <2>4
<1> QED
  BY <1>1, <1>3, <1>4 DEF Ring, RingTyped, Word

LEMMA BufferFromRing ==
    ASSUME Ring, CountsAgree
    PROVE  /\ BufferMatchesCounts
           /\ m_buf \in Seq(Values \cup {NoValue}) /\ m_buf # <<>>
           /\ m_used \in 0 .. Len(m_buf)
           /\ {m_ri, m_wi} \subseteq 0 .. Len(m_buf) - 1
<1>1. RingTyped
  BY DEF Ring
<1>2. m_buf \in Seq(Values \cup {NoValue}) /\ m_buf # <<>>
  <2>1. m_buf \in Seq(Word)
    BY <1>1 DEF RingTyped
  <2>2. m_buf # <<>>
    BY <1>1, EmptySeq DEF RingTyped, N
  <2> QED
    BY <2>1, <2>2 DEF Word
<1>3. /\ m_used \in 0 .. Len(m_buf)
      /\ {m_ri, m_wi} \subseteq 0 .. Len(m_buf) - 1
  BY <1>1 DEF RingTyped, N
<1>4. (m_ri + m_used) % Len(m_buf) = m_wi
  <2>1. PICK x \in Nat : x = m_ri + m_used /\ x < 2 * N
    BY <1>1 DEF RingTyped
  <2>2. N \in Nat \ {0}
    BY <1>1 DEF RingTyped
  <2>3. x % N = IF x < N THEN x ELSE x - N
    BY <2>1, <2>2, Wrap
  <2> QED
    BY <1>1, <2>1, <2>3 DEF Ring, RingTyped, N
<1>5. ASSUME NEW k \in 0 .. Len(m_buf) - 1
      PROVE  peek_data(k) = NoValue <=> k >= m_used
  <2>1. k \in 0 .. N /\ k \in 0 .. N - 1
    BY <1>1 DEF RingTyped, N
  <2>2. peek_data(k) = Value(k)
    BY <1>1, <2>1, PeekIsValue
  <2>3. CASE k >= m_used
    <3>1. k \in m_used .. N - 1
      BY <1>1, <2>1, <2>3 DEF RingTyped
    <3> QED
      BY <2>2, <2>3, <3>1 DEF Ring
  <2>4. CASE ~(k >= m_used)
    <3>1. k \in 0 .. m_used - 1
      BY <1>1, <2>1, <2>4 DEF RingTyped
    <3> QED
      BY <2>2, <2>4, <3>1, NoValueIsNone DEF Ring
  <2> QED
    BY <2>3, <2>4
<1>6. m_used = used + m_num_written /\ used >= 0
  BY DEF CountsAgree, used
<1> QED
  BY <1>2, <1>3, <1>4, <1>5, <1>6 DEF BufferMatchesCounts

LEMMA InvIsParts == IInv <=> Parts
<1>1. ASSUME IInv
      PROVE  Parts
  <2>1. Ring
    BY <1>1, RingFromBuffer DEF IInv
  <2>2. CountsAgree /\ m_size \in Int
    BY <1>1 DEF IInv, TypeOK, BufferMatchesCounts, used, CountsAgree
  <2>3. KernelTyped /\ DOMAIN waits = Procs
    BY <1>1 DEF IInv, TypeOK, KernelTypeOK, KernelTyped, Procs
  <2>4. CallTyped /\ GotTyped /\ FlagsTyped
    BY <1>1, <2>3 DEF IInv, TypeOK, CallTyped, GotTyped, FlagsTyped, Calls, Word, Processes, Procs
  <2> QED
    BY <1>1, <2>1, <2>2, <2>3, <2>4 DEF IInv, Parts
<1>2. ASSUME Parts
      PROVE  IInv
  <2>1. Ring /\ CountsAgree /\ m_size \in Int /\ WakeupsPending
    BY <1>2 DEF Parts
  <2>2. KernelTypeOK(Readers \cup Writers, {"fifo"}, Data \cup Space) /\ Processes = Procs
    BY <1>2 DEF Parts, KernelTyped, KernelTypeOK, Processes, Procs
  <2>3. {m_num_readable, m_num_read, m_num_written} \subseteq Nat
    BY <2>1 DEF CountsAgree
  <2>4. /\ m_expand \in BOOLEAN /\ unannounced \in BOOLEAN
        /\ got \in [Readers -> Values \cup {NoValue}]
        /\ call \in [Processes -> {None, Getting, Peeking} \cup {Putting(v) : v \in Values}]
    BY <1>2, <2>2 DEF Parts, FlagsTyped, GotTyped, CallTyped, Word, Calls
  <2> QED
    BY <2>1, <2>2, <2>3, <2>4, BufferFromRing DEF IInv, TypeOK
<1> QED
  BY <1>1, <1>2

\* The first state: an empty buffer.
LEMMA InitParts == Init => Parts
<1> SUFFICES ASSUME Init PROVE Parts
  OBVIOUS
<1>1. PICK n \in Nat : n > 0 /\ m_buf = [k \in 1 .. n |-> NoValue]
  <2>1. (IF InitSize = 0 THEN 16 ELSE IF InitSize < 0 THEN -InitSize ELSE InitSize) \in Nat \ {0}
    BY TlmFifoAssumption DEF TlmFifoAssumption
  <2> QED
    BY <2>1 DEF Init
<1>2. N = n
  BY <1>1 DEF N
<1>3. m_used = 0 /\ m_ri = 0 /\ m_wi = 0
  BY DEF Init
<1>4. Ring
  BY <1>1, <1>2, <1>3 DEF Ring, RingTyped, Value, Place, Word
<1>5. CountsAgree /\ m_size \in Int
  BY TlmFifoAssumption DEF Init, CountsAgree, TlmFifoAssumption
<1>6. CallTyped /\ GotTyped /\ FlagsTyped /\ KernelTyped
  BY DEF Init, KernelInit, CallTyped, GotTyped, FlagsTyped, KernelTyped, Calls, Word, Procs
<1>7. m_num_read = 0 /\ m_num_written = 0 /\ m_expand = FALSE
  BY DEF Init
<1>8. \A p \in Processes : waits[p] # Data /\ waits[p] # Space
  BY DEF Init, KernelInit, Processes, Data, Space
<1>9. WakeupsPending
  BY <1>7, <1>8 DEF WakeupsPending
<1> QED
  BY <1>4, <1>5, <1>6, <1>9 DEF Parts

-----------------------------------------------------------------------------
(***************************************************************************)
(* The steps                                                               *)
(***************************************************************************)

\* The two sets of events differ from each other and from the other waits.
LEMMA EventsDiffer == Data # Space /\ Data # Clock /\ Space # Clock /\ Data # {} /\ Space # {}
  BY DEF Data, Space, Clock

\* What a return or a wait leaves in call has its type.
LEMMA CallStep ==
    ASSUME CallTyped, NEW p \in Procs, NEW c \in Calls, call' = [call EXCEPT ![p] = c]
    PROVE  CallTyped'
  BY DEF CallTyped

\* A request leaves the kernel typed, and who waits where it is.
LEMMA RequestTyped ==
    ASSUME KernelTyped, Request({"fifo"})
    PROVE  KernelTyped' /\ "fifo" \in requested' /\ waits' = waits /\ notified' = notified
  BY DEF KernelTyped, Request

LEMMA TakeKeeps ==
    ASSUME Parts, NEW r \in Readers, ~is_empty, Take(r), CallTyped'
    PROVE  Parts'
<1>1. /\ Ring /\ CountsAgree /\ m_size \in Int /\ GotTyped /\ FlagsTyped /\ KernelTyped
      /\ WakeupsPending
  BY DEF Parts
<1>2. m_used > 0 /\ m_num_read < m_num_readable
  BY <1>1 DEF CountsAgree, is_empty, used
<1>3. Ring' /\ m_used' = m_used - 1
  BY <1>1, <1>2, ReadRing DEF Take
<1>4. /\ m_num_read' = m_num_read + 1 /\ m_num_readable' = m_num_readable
      /\ m_num_written' = m_num_written /\ m_size' = m_size
      /\ m_expand' = m_expand /\ unannounced' = unannounced
  BY DEF Take
<1>5. CountsAgree' /\ m_size' \in Int /\ m_num_read' > 0
  BY <1>1, <1>2, <1>3, <1>4 DEF CountsAgree, Ring, RingTyped
<1>6. GotTyped'
  <2>1. peek_data(0) \in Word
    <3>1. 0 \in 0 .. N /\ 0 \in 0 .. N - 1 /\ RingTyped
      BY <1>1 DEF Ring, RingTyped
    <3> QED
      BY <3>1, PeekIsValue, PlacesDiffer DEF RingTyped, Value
  <2> QED
    BY <1>1, <2>1 DEF Take, GotTyped
<1>7. KernelTyped' /\ "fifo" \in requested' /\ waits' = waits /\ notified' = notified
  BY <1>1, RequestTyped DEF Take
<1>8. FlagsTyped'
  BY <1>1, <1>4 DEF FlagsTyped
<1>9. \A p \in Processes' : waits'[p] = Data => Data \subseteq notified'
  BY <1>1, <1>7 DEF WakeupsPending, Processes
<1>10. WakeupsPending'
  BY <1>5, <1>7, <1>9 DEF WakeupsPending
<1> QED
  BY <1>3, <1>5, <1>6, <1>7, <1>8, <1>10 DEF Parts

LEMMA GiveKeeps ==
    ASSUME Parts, NEW v \in Values, Give(v), CallTyped'
    PROVE  Parts'
<1>1. /\ Ring /\ CountsAgree /\ m_size \in Int /\ GotTyped /\ FlagsTyped /\ KernelTyped
      /\ WakeupsPending
  BY DEF Parts
<1>2. Ring' /\ m_used' = m_used + 1
  BY <1>1, WriteRing DEF Give
<1>3. /\ m_num_read' = m_num_read /\ m_num_readable' = m_num_readable
      /\ m_num_written' = m_num_written + 1 /\ m_size' = m_size
      /\ m_expand' = m_expand /\ unannounced' = unannounced /\ got' = got
  BY DEF Give
<1>4. CountsAgree' /\ m_size' \in Int
  BY <1>1, <1>2, <1>3 DEF CountsAgree
<1>5. KernelTyped' /\ "fifo" \in requested' /\ waits' = waits /\ notified' = notified
  BY <1>1, RequestTyped DEF Give
<1>6. GotTyped' /\ FlagsTyped'
  BY <1>1, <1>3 DEF FlagsTyped, GotTyped
<1>7. is_empty' <=> is_empty
  BY <1>3 DEF is_empty, used
<1>8. is_full => is_full'
  BY <1>1, <1>3 DEF is_full, CountsAgree
<1>9. m_num_read > 0 => m_num_read' > 0
  BY <1>3
<1>10. \A p \in Processes' :
        /\ waits'[p] = Data => is_empty' \/ Data \subseteq notified'
        /\ waits'[p] = Space => \/ is_full' \/ unannounced' \/ Space \subseteq notified'
                                \/ m_num_read' > 0 \/ m_expand'
  BY <1>1, <1>3, <1>5, <1>7, <1>8, <1>9 DEF WakeupsPending, Processes
<1>11. WakeupsPending'
  BY <1>5, <1>10 DEF WakeupsPending
<1> QED
  BY <1>2, <1>4, <1>5, <1>6, <1>11 DEF Parts

\* Steps that leave buffer, counts and size alone.
LEMMA SameFifo ==
    ASSUME Parts, UNCHANGED <<buffer, counts, m_size, m_expand, unannounced>>
    PROVE  /\ Ring' /\ CountsAgree' /\ m_size' \in Int /\ FlagsTyped'
           /\ (is_empty' <=> is_empty) /\ (is_full' <=> is_full)
  BY DEF Parts, buffer, counts, Ring, RingTyped, N, Place, Value, CountsAgree, FlagsTyped,
         is_empty, is_full, used

LEMMA BlockKeeps ==
    ASSUME Parts, NEW p \in Procs, NEW event \in {Data, Space}, NEW c \in Calls,
           Block(p, event, c), event = Data => is_empty, event = Space => is_full
    PROVE  Parts'
<1>1. /\ CallTyped /\ GotTyped /\ KernelTyped /\ WakeupsPending
  BY DEF Parts
<1>2. /\ waits' = [waits EXCEPT ![p] = event] /\ requested' = requested /\ notified' = notified
      /\ call' = [call EXCEPT ![p] = c] /\ got' = got
      /\ UNCHANGED <<buffer, counts, m_size, m_expand, unannounced>>
  BY DEF Block, WaitFor
<1>3. /\ Ring' /\ CountsAgree' /\ m_size' \in Int /\ FlagsTyped'
      /\ (is_empty' <=> is_empty) /\ (is_full' <=> is_full)
  BY <1>2, SameFifo
<1>4. CallTyped' /\ GotTyped'
  BY <1>1, <1>2, CallStep DEF GotTyped
<1>5. event \in (SUBSET (Data \cup Space)) \cup {Clock}
  OBVIOUS
<1>6. KernelTyped'
  BY <1>1, <1>2, <1>5 DEF KernelTyped
<1>7. Processes = Procs /\ Processes' = Procs
  BY <1>1, <1>6 DEF KernelTyped, Processes
<1>8. \A q \in Procs : waits'[q] = waits[q] \/ (q = p /\ waits'[q] = event)
  BY <1>1, <1>2 DEF KernelTyped
<1>9. \A q \in Procs : waits'[q] = Data => is_empty' \/ Data \subseteq notified'
  BY <1>1, <1>2, <1>3, <1>7, <1>8 DEF WakeupsPending
<1>10. \A q \in Procs : waits'[q] = Space =>
         \/ is_full' \/ unannounced' \/ Space \subseteq notified'
         \/ m_num_read' > 0 \/ m_expand'
  BY <1>1, <1>2, <1>3, <1>7, <1>8 DEF WakeupsPending, counts
<1>11. m_num_read' > 0 \/ m_num_written' > 0 \/ m_expand' => "fifo" \in requested'
  BY <1>1, <1>2 DEF WakeupsPending, counts
<1>12. WakeupsPending'
  BY <1>7, <1>9, <1>10, <1>11 DEF WakeupsPending
<1> QED
  BY <1>3, <1>4, <1>6, <1>12 DEF Parts

\* Steps after which the same processes wait, for the same or for a reason less.
LEMMA QuietKeeps ==
    ASSUME Parts, UNCHANGED <<buffer, counts, m_size, m_expand, unannounced>>,
           CallTyped', GotTyped', KernelTyped',
           requested' = requested, notified' = notified,
           \A q \in Procs : waits'[q] = waits[q] \/ waits'[q] \in {{}, Clock}
    PROVE  Parts'
<1>1. KernelTyped /\ WakeupsPending
  BY DEF Parts
<1>2. /\ Ring' /\ CountsAgree' /\ m_size' \in Int /\ FlagsTyped'
      /\ (is_empty' <=> is_empty) /\ (is_full' <=> is_full)
  BY SameFifo
<1>3. Processes = Procs /\ Processes' = Procs
  BY <1>1 DEF KernelTyped, Processes
<1>4. \A q \in Procs : waits'[q] = Data => is_empty' \/ Data \subseteq notified'
  BY <1>1, <1>2, <1>3, EventsDiffer DEF WakeupsPending
<1>5. \A q \in Procs : waits'[q] = Space =>
         \/ is_full' \/ unannounced' \/ Space \subseteq notified'
         \/ m_num_read' > 0 \/ m_expand'
  BY <1>1, <1>2, <1>3, EventsDiffer DEF WakeupsPending, counts
<1>6. m_num_read' > 0 \/ m_num_written' > 0 \/ m_expand' => "fifo" \in requested'
  BY <1>1 DEF WakeupsPending, counts
<1>7. WakeupsPending'
  BY <1>3, <1>4, <1>5, <1>6 DEF WakeupsPending
<1> QED
  BY <1>2, <1>7 DEF Parts

\* A value or raw memory, at every place that a peek can reach.
LEMMA PeekTyped ==
    ASSUME Ring, NEW k \in 0 .. N - 1
    PROVE  peek_data(k) \in Word
<1>1. RingTyped /\ k \in 0 .. N
  BY DEF Ring, RingTyped
<1> QED
  BY <1>1, PeekIsValue, PlacesDiffer DEF RingTyped, Value

LEMMA LookKeeps ==
    ASSUME Parts, NEW r \in Readers, NEW v \in Word, Look(r, v), CallTyped'
    PROVE  Parts'
<1>1. GotTyped /\ KernelTyped
  BY DEF Parts
<1>2. /\ got' = [got EXCEPT ![r] = v]
      /\ UNCHANGED <<buffer, counts, m_size, m_expand, unannounced>>
      /\ waits' = waits /\ requested' = requested /\ notified' = notified
  BY DEF Look, kernel
<1>3. GotTyped' /\ KernelTyped'
  BY <1>1, <1>2 DEF GotTyped, KernelTyped
<1> QED
  BY <1>2, <1>3, QuietKeeps

LEMMA PauseKeeps ==
    ASSUME Parts, NEW p \in Procs, Pause(p)
    PROVE  Parts'
<1>1. KernelTyped /\ CallTyped /\ GotTyped
  BY DEF Parts
<1>2. /\ waits' = [waits EXCEPT ![p] = Clock] /\ requested' = requested /\ notified' = notified
      /\ call' = call /\ got' = got
      /\ UNCHANGED <<buffer, counts, m_size, m_expand, unannounced>>
  BY DEF Pause, WaitFor, fifoVars
<1>3. KernelTyped' /\ CallTyped' /\ GotTyped'
  BY <1>1, <1>2 DEF KernelTyped, CallTyped, GotTyped
<1>4. \A q \in Procs : waits'[q] = waits[q] \/ waits'[q] \in {{}, Clock}
  BY <1>1, <1>2 DEF KernelTyped
<1> QED
  BY <1>2, <1>3, <1>4, QuietKeeps

LEMMA ReaderKeeps ==
    ASSUME Parts, NEW r \in Readers, ReaderStep(r)
    PROVE  Parts'
<1>1. Ring /\ CountsAgree /\ CallTyped /\ RingTyped
  BY DEF Parts, Ring
<1>2. r \in Procs /\ None \in Calls /\ Getting \in Calls /\ Peeking \in Calls
  BY DEF Procs, Calls
<1>3. Return(r) => CallTyped'
  BY <1>1, <1>2, CallStep DEF Return
<1>4. UNCHANGED call => CallTyped'
  BY <1>1 DEF CallTyped
<1>5. Data \in {Data, Space} /\ (Data = Space => is_full)
  BY EventsDiffer
<1>6. CASE get(r)
  <2>1. CASE is_empty
    <3>1. Block(r, Data, Getting)
      BY <1>6, <2>1 DEF get
    <3> QED
      BY <1>2, <1>5, <2>1, <3>1, BlockKeeps
  <2>2. CASE ~is_empty
    BY <1>3, <1>6, <2>2, TakeKeeps DEF get
  <2> QED
    BY <2>1, <2>2
<1>7. CASE nb_get(r)
  BY <1>4, <1>7, TakeKeeps DEF nb_get
<1>8. CASE peek(r)
  <2>1. CASE is_empty
    <3>1. Block(r, Data, Peeking)
      BY <1>8, <2>1 DEF peek
    <3> QED
      BY <1>2, <1>5, <2>1, <3>1, BlockKeeps
  <2>2. CASE ~is_empty
    <3>1. Look(r, peek_data(0)) /\ CallTyped'
      BY <1>3, <1>8, <2>2 DEF peek
    <3>2. peek_data(0) \in Word
      BY <1>1, PeekTyped DEF RingTyped
    <3> QED
      BY <3>1, <3>2, LookKeeps
  <2> QED
    BY <2>1, <2>2
<1>9. CASE \E n \in -1 .. MaxUsed : nb_peek(r, n)
  <2>1. PICK n \in Int : nb_peek(r, n)
    BY <1>9
  <2>2. Look(r, peek_data(IF n = -1 THEN used - 1 ELSE n)) /\ CallTyped'
    BY <1>4, <2>1 DEF nb_peek
  <2>3. -1 <= n /\ n < used /\ used # 0
    BY <2>1 DEF nb_peek, is_empty
  <2>4. (IF n = -1 THEN used - 1 ELSE n) \in 0 .. N - 1
    BY <1>1, <2>3 DEF used, CountsAgree, RingTyped
  <2>5. PICK k \in 0 .. N - 1 : k = IF n = -1 THEN used - 1 ELSE n
    BY <2>4
  <2> QED
    BY <1>1, <2>2, <2>5, PeekTyped, LookKeeps
<1>10. CASE nb_peek_empty(r)
  BY <1>4, <1>10, LookKeeps DEF nb_peek_empty, Word
<1>11. CASE Pause(r)
  BY <1>2, <1>11, PauseKeeps
<1> QED
  BY <1>6, <1>7, <1>8, <1>9, <1>10, <1>11 DEF ReaderStep

LEMMA WriterKeeps ==
    ASSUME Parts, NEW w \in Writers, WriterStep(w)
    PROVE  Parts'
<1>1. CallTyped /\ w \in Procs /\ None \in Calls
  BY DEF Parts, Procs, Calls
<1>2. Return(w) => CallTyped'
  BY <1>1, CallStep DEF Return
<1>3. UNCHANGED call => CallTyped'
  BY <1>1 DEF CallTyped
<1>4. ASSUME NEW v \in Values, put(w, v)
      PROVE  Parts'
  <2>1. CASE is_full
    <3>1. Block(w, Space, Putting(v)) /\ Putting(v) \in Calls
      BY <1>4, <2>1 DEF put, Calls
    <3>2. Space \in {Data, Space} /\ (Space = Data => is_empty)
      BY EventsDiffer
    <3> QED
      BY <1>1, <2>1, <3>1, <3>2, BlockKeeps
  <2>2. CASE ~is_full
    BY <1>2, <1>4, <2>2, GiveKeeps DEF put
  <2> QED
    BY <2>1, <2>2
<1>5. ASSUME NEW v \in Values, nb_put(w, v)
      PROVE  Parts'
  BY <1>3, <1>5, GiveKeeps DEF nb_put
<1>6. CASE Pause(w)
  BY <1>1, <1>6, PauseKeeps
<1> QED
  BY <1>4, <1>5, <1>6 DEF WriterStep

\* A size that the fifo announces at the next update.
LEMMA AnnouncedKeeps ==
    ASSUME Parts, m_expand' = TRUE, m_size' \in Int, Request({"fifo"}),
           Ring', m_used' = m_used, UNCHANGED <<counts, call, got, unannounced>>
    PROVE  Parts'
<1>1. CountsAgree /\ CallTyped /\ GotTyped /\ FlagsTyped /\ KernelTyped /\ WakeupsPending
  BY DEF Parts
<1>2. CountsAgree' /\ CallTyped' /\ GotTyped' /\ FlagsTyped'
  BY <1>1 DEF counts, CountsAgree, CallTyped, GotTyped, FlagsTyped
<1>3. KernelTyped' /\ "fifo" \in requested' /\ waits' = waits /\ notified' = notified
  BY <1>1, RequestTyped
<1>4. is_empty' <=> is_empty
  BY DEF is_empty, used, counts
<1>5. WakeupsPending'
  BY <1>1, <1>3, <1>4 DEF WakeupsPending, Processes
<1> QED
  BY <1>2, <1>3, <1>5 DEF Parts

LEMMA BoundKeeps ==
    ASSUME Parts, NEW n \in Int, nb_bound(n)
    PROVE  Parts'
<1>1. /\ Ring /\ CountsAgree /\ m_size \in Int /\ CallTyped /\ GotTyped /\ FlagsTyped
      /\ KernelTyped /\ WakeupsPending
  BY DEF Parts
<1>2. /\ m_size' = IF n < used THEN used ELSE n
      /\ unannounced' = (unannounced \/ (m_size >= 0 /\ m_size' > m_size))
      /\ m_buf' = m_buf /\ m_used' = m_used /\ m_ri' = m_ri /\ m_wi' = m_wi
      /\ m_num_readable' = m_num_readable /\ m_num_read' = m_num_read
      /\ m_num_written' = m_num_written
      /\ m_expand' = m_expand /\ call' = call /\ got' = got
      /\ waits' = waits /\ requested' = requested /\ notified' = notified
  BY DEF nb_bound, buffer, counts, kernel
<1>3. /\ Ring' /\ CountsAgree' /\ CallTyped' /\ GotTyped' /\ KernelTyped'
  BY <1>1, <1>2 DEF Ring, RingTyped, N, Place, Value, CountsAgree, CallTyped, GotTyped, KernelTyped
<1>4. m_size' \in Int /\ m_size' >= 0
  BY <1>1, <1>2 DEF CountsAgree, used
<1>5. unannounced' <=> unannounced \/ (m_size >= 0 /\ m_size' > m_size)
  BY <1>2, Zenon
<1>6. FlagsTyped'
  <2>1. unannounced' \in BOOLEAN
    BY <1>2, Zenon
  <2> QED
    BY <1>1, <1>2, <2>1 DEF FlagsTyped
<1>7. is_full => is_full' \/ unannounced'
  <2>1. CASE m_size' > m_size
    BY <1>5, <2>1 DEF is_full
  <2>2. CASE ~(m_size' > m_size)
    BY <1>1, <1>2, <1>4, <2>2 DEF is_full, CountsAgree
  <2> QED
    BY <2>1, <2>2
<1>8. is_empty' <=> is_empty
  BY <1>2 DEF is_empty, used
<1>9. WakeupsPending'
  BY <1>1, <1>2, <1>5, <1>7, <1>8 DEF WakeupsPending, Processes
<1> QED
  BY <1>3, <1>4, <1>6, <1>9 DEF Parts

LEMMA ResizeKeeps ==
    ASSUME Parts, Resize
    PROVE  Parts'
<1>1. Ring /\ m_size \in Int /\ RingTyped
  BY DEF Parts, Ring
<1>2. ASSUME NEW n \in Nat, nb_expand(n)
      PROVE  Parts'
  <2>1. Ring' /\ m_used' = m_used /\ m_size' \in Int
    BY <1>1, <1>2 DEF nb_expand, buffer, Ring, RingTyped, N, Place, Value
  <2> QED
    BY <1>2, <2>1, AnnouncedKeeps DEF nb_expand
<1>3. ASSUME NEW n \in Nat, nb_unbound(n)
      PROVE  Parts'
  <2>1. m_size' \in Int
    BY <1>3 DEF nb_unbound
  <2>2. CASE N < n
    <3>1. resize(n) /\ n > N
      BY <1>1, <1>3, <2>2 DEF nb_unbound, N, RingTyped
    <3>2. Ring' /\ m_used' = m_used
      BY <1>1, <3>1, ResizeRing
    <3> QED
      BY <1>3, <2>1, <3>2, AnnouncedKeeps DEF nb_unbound
  <2>3. CASE ~(N < n)
    <3>1. UNCHANGED buffer
      BY <1>3, <2>3 DEF nb_unbound, N
    <3>2. Ring' /\ m_used' = m_used
      BY <1>1, <3>1 DEF buffer, Ring, RingTyped, N, Place, Value
    <3> QED
      BY <1>3, <2>1, <3>2, AnnouncedKeeps DEF nb_unbound
  <2> QED
    BY <2>2, <2>3
<1>4. ASSUME NEW n \in Nat, nb_reduce(n)
      PROVE  Parts'
  <2>1. PICK k \in Int : k = m_size - n
    BY <1>1
  <2> QED
    BY <1>4, <2>1, BoundKeeps DEF nb_reduce
<1>5. ASSUME NEW n \in Nat, nb_bound(n)
      PROVE  Parts'
  BY <1>5, BoundKeeps
<1>6. PICK n \in 1 .. MaxSize : nb_expand(n) \/ nb_unbound(n) \/ nb_reduce(n) \/ nb_bound(n)
  BY DEF Resize
<1>7. n \in Nat
  OBVIOUS
<1> QED
  BY <1>2, <1>3, <1>4, <1>5, <1>6, <1>7

LEMMA PokeKeeps ==
    ASSUME Parts, NEW v \in Values, NEW n \in Nat, nb_poke(v, n)
    PROVE  /\ Parts'
           /\ \A k \in 0 .. m_used - 1 : Value(k)' = IF k = n - (N - m_used) THEN v ELSE Value(k)
<1>1. Ring /\ CountsAgree
  BY DEF Parts
<1>2. n \in 0 .. m_used - 1
  BY <1>1 DEF nb_poke, CountsAgree, used
<1>3. /\ m_buf' = [m_buf EXCEPT ![Cell(m_wi + n)] = IF @ = NoValue THEN NoValue ELSE v]
      /\ UNCHANGED <<m_used, m_ri, m_wi>>
  BY DEF nb_poke
<1>4. /\ Ring'
      /\ \A k \in 0 .. m_used - 1 : Value(k)' = IF k = n - (N - m_used) THEN v ELSE Value(k)
  BY <1>1, <1>2, <1>3, PokeRing
<1>5. Parts'
  BY <1>4 DEF nb_poke, Parts, counts, kernel, CountsAgree, CallTyped, GotTyped, FlagsTyped,
              KernelTyped, WakeupsPending, is_empty, is_full, used, Processes
<1> QED
  BY <1>4, <1>5

LEMMA UpdateKeeps ==
    ASSUME Parts, Update
    PROVE  Parts'
<1>1. /\ Ring /\ CountsAgree /\ m_size \in Int /\ CallTyped /\ GotTyped /\ FlagsTyped
      /\ KernelTyped /\ WakeupsPending
  BY DEF Parts
<1>2. /\ m_expand' = FALSE /\ m_num_read' = 0 /\ m_num_written' = 0 /\ m_num_readable' = m_used
      /\ m_buf' = m_buf /\ m_used' = m_used /\ m_ri' = m_ri /\ m_wi' = m_wi
      /\ m_size' = m_size /\ call' = call /\ got' = got
      /\ unannounced' = (unannounced /\ m_num_read = 0 /\ ~m_expand)
      /\ waits' = waits /\ requested' = requested \ {"fifo"}
      /\ notified' = notified \cup (IF m_num_read > 0 \/ m_expand THEN Space ELSE {})
                             \cup (IF m_num_written > 0 THEN Data ELSE {})
  BY DEF Update, UpdateOf, buffer
<1>3. Ring' /\ CallTyped' /\ GotTyped' /\ m_size' \in Int
  BY <1>1, <1>2 DEF Ring, RingTyped, N, Place, Value, CallTyped, GotTyped
<1>4. CountsAgree'
  BY <1>1, <1>2 DEF CountsAgree, Ring, RingTyped
<1>5. KernelTyped'
  BY <1>1, <1>2 DEF KernelTyped
<1>6. unannounced' <=> unannounced /\ m_num_read = 0 /\ ~m_expand
  BY <1>2, Zenon
<1>7. FlagsTyped'
  <2>1. unannounced' \in BOOLEAN
    BY <1>2, Zenon
  <2> QED
    BY <1>2, <2>1 DEF FlagsTyped
<1>8. is_empty => is_empty' \/ Data \subseteq notified'
  <2>1. CASE m_num_written > 0
    BY <1>2, <2>1
  <2>2. CASE ~(m_num_written > 0)
    BY <1>1, <1>2, <2>2 DEF is_empty, used, CountsAgree
  <2> QED
    BY <2>1, <2>2
<1>9. m_num_read > 0 \/ m_expand => Space \subseteq notified'
  BY <1>2
<1>10. is_full => is_full' \/ Space \subseteq notified'
  <2>1. CASE m_num_read > 0
    BY <1>9, <2>1
  <2>2. CASE ~(m_num_read > 0)
    BY <1>1, <1>2, <2>2 DEF is_full, CountsAgree
  <2> QED
    BY <2>1, <2>2
<1>11. unannounced => unannounced' \/ Space \subseteq notified'
  <2>1. m_num_read = 0 \/ m_num_read > 0
    BY <1>1 DEF CountsAgree
  <2> QED
    BY <1>6, <1>9, <2>1
<1>12. notified \subseteq notified'
  BY <1>2
<1>13. \A p \in Processes' : waits'[p] = Data => is_empty' \/ Data \subseteq notified'
  BY <1>1, <1>2, <1>8, <1>12 DEF WakeupsPending, Processes
<1>14. \A p \in Processes' : waits'[p] = Space =>
          is_full' \/ unannounced' \/ Space \subseteq notified'
  BY <1>1, <1>2, <1>9, <1>10, <1>11, <1>12 DEF WakeupsPending, Processes
<1>15. ~(m_num_read' > 0) /\ ~(m_num_written' > 0) /\ ~m_expand'
  BY <1>2
<1>16. WakeupsPending'
  BY <1>13, <1>14, <1>15 DEF WakeupsPending
<1> QED
  BY <1>3, <1>4, <1>5, <1>7, <1>16 DEF Parts

\* Who is woken waits for nothing; who is not waited for another event.
LEMMA DeliverKeeps ==
    ASSUME Parts, Deliver, UNCHANGED fifoVars
    PROVE  Parts'
<1>1. /\ CallTyped /\ GotTyped /\ KernelTyped /\ WakeupsPending
  BY DEF Parts
<1>2. /\ UNCHANGED <<buffer, counts, m_size, m_expand, unannounced>>
      /\ call' = call /\ got' = got
  BY DEF fifoVars
<1>3. /\ Ring' /\ CountsAgree' /\ m_size' \in Int /\ FlagsTyped'
      /\ (is_empty' <=> is_empty) /\ (is_full' <=> is_full)
  BY <1>2, SameFifo
<1>4. Processes = Procs
  BY <1>1 DEF KernelTyped, Processes
<1>5. /\ waits' = [p \in Procs |-> IF waits[p] \cap notified # {} THEN {} ELSE waits[p]]
      /\ requested = {} /\ requested' = {} /\ notified' = {}
  BY <1>4 DEF Deliver, Wake
<1>6. KernelTyped' /\ CallTyped' /\ GotTyped'
  BY <1>1, <1>2, <1>5 DEF KernelTyped, CallTyped, GotTyped
<1>7. Processes' = Procs
  BY <1>6 DEF KernelTyped, Processes
<1>8. ~(m_num_read > 0) /\ ~(m_num_written > 0) /\ ~m_expand
  BY <1>1, <1>5 DEF WakeupsPending
<1>9. ASSUME NEW p \in Procs, waits'[p] = Data
      PROVE  is_empty'
  <2>1. waits[p] = Data /\ ~(Data \subseteq notified)
    BY <1>5, <1>9, EventsDiffer
  <2> QED
    BY <1>1, <1>3, <1>4, <2>1 DEF WakeupsPending
<1>10. ASSUME NEW p \in Procs, waits'[p] = Space
       PROVE  is_full' \/ unannounced'
  <2>1. waits[p] = Space /\ ~(Space \subseteq notified)
    BY <1>5, <1>10, EventsDiffer
  <2> QED
    BY <1>1, <1>2, <1>3, <1>4, <1>8, <2>1 DEF WakeupsPending
<1>11. ~(m_num_read' > 0) /\ ~(m_num_written' > 0) /\ ~m_expand'
  BY <1>2, <1>8 DEF counts
<1>12. WakeupsPending'
  BY <1>7, <1>9, <1>10, <1>11 DEF WakeupsPending
<1> QED
  BY <1>3, <1>6, <1>12 DEF Parts

LEMMA AdvanceTimeKeeps ==
    ASSUME Parts, AdvanceTime, UNCHANGED fifoVars
    PROVE  Parts'
<1>1. KernelTyped /\ CallTyped /\ GotTyped
  BY DEF Parts
<1>2. Processes = Procs
  BY <1>1 DEF KernelTyped, Processes
<1>3. PICK P \in SUBSET Procs : waits' = [p \in Procs |-> IF p \in P THEN {} ELSE waits[p]]
  BY <1>2 DEF AdvanceTime, Wake
<1>4. requested' = requested /\ notified' = notified
  BY DEF AdvanceTime
<1>5. /\ UNCHANGED <<buffer, counts, m_size, m_expand, unannounced>>
      /\ call' = call /\ got' = got
  BY DEF fifoVars
<1>6. KernelTyped' /\ CallTyped' /\ GotTyped'
  BY <1>1, <1>3, <1>4, <1>5 DEF KernelTyped, CallTyped, GotTyped
<1>7. \A q \in Procs : waits'[q] = waits[q] \/ waits'[q] \in {{}, Clock}
  BY <1>3
<1> QED
  BY <1>4, <1>5, <1>6, <1>7, QuietKeeps

LEMMA StepKeeps == Parts /\ [Next]_vars => Parts'
<1> SUFFICES ASSUME Parts, [Next]_vars
             PROVE  Parts'
  OBVIOUS
<1>1. ASSUME NEW r \in Readers, ReaderStep(r)
      PROVE  Parts'
  BY <1>1, ReaderKeeps
<1>2. ASSUME NEW w \in Writers, WriterStep(w)
      PROVE  Parts'
  BY <1>2, WriterKeeps
<1>3. CASE Resize
  BY <1>3, ResizeKeeps
<1>4. CASE Poke
  <2>1. PICK v \in Values, n \in 0 .. MaxUsed : nb_poke(v, n)
    BY <1>4 DEF Poke
  <2>2. n \in Nat
    OBVIOUS
  <2> QED
    BY <2>1, <2>2, PokeKeeps
<1>5. CASE Update
  BY <1>5, UpdateKeeps
<1>6. CASE Deliver /\ UNCHANGED fifoVars
  BY <1>6, DeliverKeeps
<1>7. CASE AdvanceTime /\ UNCHANGED fifoVars
  BY <1>7, AdvanceTimeKeeps
<1>8. CASE UNCHANGED vars
  <2>1. KernelTyped /\ CallTyped /\ GotTyped
    BY DEF Parts
  <2>2. /\ UNCHANGED <<buffer, counts, m_size, m_expand, unannounced>>
        /\ call' = call /\ got' = got
        /\ waits' = waits /\ requested' = requested /\ notified' = notified
    BY <1>8 DEF vars, fifoVars, kernel
  <2>3. KernelTyped' /\ CallTyped' /\ GotTyped'
    BY <2>1, <2>2 DEF KernelTyped, CallTyped, GotTyped
  <2> QED
    BY <2>2, <2>3, QuietKeeps
<1> QED
  BY <1>1, <1>2, <1>3, <1>4, <1>5, <1>6, <1>7, <1>8 DEF Next

-----------------------------------------------------------------------------
(***************************************************************************)
(* The theorems                                                            *)
(***************************************************************************)

\* The invariant that every step of tlm_fifo keeps: types, buffer against counts,
\* and a reason to wait or a wakeup on its way for everyone who waits.
THEOREM Invariance == Spec => []IInv
<1>1. Init => IInv
  BY InitParts, InvIsParts
<1>2. IInv /\ [Next]_vars => IInv'
  <2>1. IInv' <=> Parts'
    BY InvIsParts, PTL
  <2> QED
    BY <2>1, InvIsParts, StepKeeps
<1> QED
  BY <1>1, <1>2, PTL DEF Spec

\* Every variable of tlm_fifo keeps its type: no index leaves the buffer, however
\* often it grows.
THEOREM TypeCorrect == Spec => []TypeOK
<1>1. IInv => TypeOK
  BY DEF IInv
<1> QED
  BY <1>1, Invariance, PTL

\* Buffer and counts agree, so no get reads raw memory and no put overwrites a
\* value, whatever sizes are asked for in between.
THEOREM BufferCorrect == Spec => []BufferMatchesCounts
<1>1. IInv => BufferMatchesCounts
  BY DEF IInv
<1> QED
  BY <1>1, Invariance, PTL

\* When a cycle has ended, who waits in get, peek or put has a reason to, but for
\* the room that nb_bound made.
THEOREM NoWakeupLost == Spec => []NoLostWakeup
<1>1. IInv => NoLostWakeup
  <2> SUFFICES ASSUME IInv, requested = {}, notified = {}, NEW p \in Processes
               PROVE  /\ waits[p] = Data => is_empty
                      /\ waits[p] = Space => is_full \/ unannounced
    BY DEF NoLostWakeup
  <2>1. ~(m_num_read > 0) /\ ~m_expand
    BY DEF IInv, WakeupsPending
  <2>2. ~(Data \subseteq notified) /\ ~(Space \subseteq notified)
    BY EventsDiffer
  <2> QED
    BY <2>1, <2>2 DEF IInv, WakeupsPending
<1> QED
  BY <1>1, Invariance, PTL

\* nb_poke(t, n) changes no value but the one that the index reaches past all the
\* free cells of the buffer, counted from the oldest.  The index is documented to
\* count from the newest (tlm_fifo_ifs.h:47-49), which IndexFromNewest refutes.
THEOREM PokesMiss == Spec => PokeBeyondFree
<1>1. IInv /\ [Next]_vars =>
        [\A v \in Values, n \in 0 .. MaxUsed : nb_poke(v, n) =>
           \A k \in 0 .. m_used - 1 :
               peek_data(k)' # peek_data(k) => k = n - (Len(m_buf) - m_used)]_vars
  <2> SUFFICES ASSUME IInv, NEW v \in Values, NEW n \in 0 .. MaxUsed, nb_poke(v, n),
                      NEW k \in 0 .. m_used - 1, k # n - (Len(m_buf) - m_used)
               PROVE  peek_data(k)' = peek_data(k)
    BY DEF PokeBeyondFree
  <2>1. Parts /\ Ring /\ RingTyped /\ n \in Nat
    BY InvIsParts DEF Parts, Ring
  <2>2. Parts' /\ Value(k)' = Value(k)
    BY <2>1, PokeKeeps DEF N
  <2>3. RingTyped' /\ m_used' = m_used
    BY <2>2 DEF Parts, Ring, nb_poke
  <2>4. k \in 0 .. N /\ k \in 0 .. N'
    BY <2>1, <2>3 DEF RingTyped
  <2>5. peek_data(k) = Value(k)
    BY <2>1, <2>4, PeekIsValue
  <2>6. PeeksAgree'
    BY <2>3, PeeksAreValues, PTL
  <2>7. peek_data(k)' = Value(k)'
    BY <2>4, <2>6 DEF PeeksAgree
  <2> QED
    BY <2>2, <2>5, <2>7
<1> QED
  BY <1>1, Invariance, PTL DEF Spec, PokeBeyondFree

-----------------------------------------------------------------------------
(***************************************************************************)
(* The fifo implements ResizableFifo                                       *)
(***************************************************************************)

\* The values that can be got and those put in this cycle, by their places.
Visible == [k \in 1 .. used |-> Value(k - 1)]
Fresh == [k \in 1 .. m_num_written |-> Value(used + k - 1)]

abstractVars ==
    <<SubSeq(contents, 1, used), SubSeq(contents, used + 1, m_used), m_num_read, m_size, got>>

\* The counts as numbers.
LEMMA CountsAre ==
    ASSUME Parts
    PROVE  /\ used \in Nat /\ m_num_written \in Nat /\ m_num_read \in Nat
           /\ m_used = used + m_num_written /\ used + m_num_written <= N /\ N \in Nat
  BY DEF Parts, CountsAgree, used, Ring, RingTyped

\* They are the sequences that the refinement maps to.
Mapped == /\ SubSeq(contents, 1, used) = Visible
          /\ SubSeq(contents, used + 1, m_used) = Fresh

LEMMA Mapping == Parts => Mapped
<1> SUFFICES ASSUME Parts PROVE Mapped
  OBVIOUS
<1>1. PICK a \in Nat, w \in Nat : a = used /\ w = m_num_written /\ m_used = a + w
  BY CountsAre
<1>2. \A k \in 1 .. a + w : peek_data(k - 1) = Value(k - 1)
  <2> SUFFICES ASSUME NEW k \in 1 .. a + w
               PROVE  peek_data(k - 1) = Value(k - 1)
    OBVIOUS
  <2>1. k - 1 \in 0 .. N /\ RingTyped
    BY <1>1, CountsAre DEF Parts, Ring
  <2> QED
    BY <2>1, PeekIsValue
<1>3. PICK c : c = contents
  OBVIOUS
<1>4. c = [k \in 1 .. a + w |-> Value(k - 1)]
  BY <1>1, <1>2, <1>3 DEF contents
<1>5. SubSeq(c, 1, a) = [k \in 1 .. a |-> Value(k - 1)]
  BY <1>4
<1>6. SubSeq(c, a + 1, a + w) = [k \in 1 .. w |-> Value(a + k - 1)]
  BY <1>4
<1> QED
  BY <1>1, <1>3, <1>5, <1>6 DEF Visible, Fresh, Mapped

\* A get takes the head.
LEMMA TakeIsGet ==
    ASSUME Parts, Parts', NEW r \in Readers, ~is_empty, Take(r)
    PROVE  Abstract!Get(r)
<1>1. PICK a \in Nat, w \in Nat :
          a = used /\ w = m_num_written /\ m_used = a + w /\ a > 0 /\ a + w <= N
  BY CountsAre DEF is_empty
<1>2. used' = a - 1 /\ m_num_written' = w /\ m_num_read' = m_num_read + 1 /\ m_size' = m_size
  BY <1>1 DEF Take, used, Parts, CountsAgree
<1>3. got' = [got EXCEPT ![r] = Value(0)]
  <2>1. 0 \in 0 .. N /\ RingTyped
    BY <1>1, CountsAre DEF Parts, Ring
  <2>2. peek_data(0) = Value(0)
    BY <2>1, PeekIsValue
  <2> QED
    BY <2>2 DEF Take
<1>4. PICK b : b = [k \in 0 .. a + w |-> Value(k)]
  OBVIOUS
<1>5. \A k \in 0 .. (a + w) - 2 : Value(k)' = b[k + 1]
  <2>1. \A k \in 0 .. (a + w) - 2 : Value(k)' = Value(k + 1)
    BY <1>1, ReadRing DEF Parts, Take
  <2> QED
    BY <1>1, <1>4, <2>1
<1>6. Visible = [k \in 1 .. a |-> b[k - 1]] /\ Fresh = [k \in 1 .. w |-> b[a + k - 1]]
  BY <1>1, <1>4 DEF Visible, Fresh
<1>7. Visible' = Tail(Visible)
  <2>1. Visible' = [k \in 1 .. a - 1 |-> Value(k - 1)']
    BY <1>2 DEF Visible
  <2>2. \A k \in 1 .. a - 1 : Value(k - 1)' = b[k]
    <3> SUFFICES ASSUME NEW k \in 1 .. a - 1 PROVE Value(k - 1)' = b[k]
      OBVIOUS
    <3>1. PICK j \in 0 .. (a + w) - 2 : j = k - 1 /\ j + 1 = k
      BY <1>1
    <3> QED
      BY <1>5, <3>1
  <2>3. Visible' = [k \in 1 .. a - 1 |-> b[k]]
    BY <2>1, <2>2
  <2> QED
    BY <1>1, <1>6, <2>3
<1>8. Fresh' = Fresh
  <2>1. Fresh' = [k \in 1 .. w |-> Value((a - 1) + k - 1)']
    BY <1>2 DEF Fresh
  <2>2. \A k \in 1 .. w : Value((a - 1) + k - 1)' = b[a + k - 1]
    <3> SUFFICES ASSUME NEW k \in 1 .. w PROVE Value((a - 1) + k - 1)' = b[a + k - 1]
      OBVIOUS
    <3>1. PICK j \in 0 .. (a + w) - 2 : j = (a - 1) + k - 1 /\ j + 1 = a + k - 1
      BY <1>1
    <3> QED
      BY <1>5, <3>1
  <2> QED
    BY <1>6, <2>1, <2>2
<1>9. Visible # <<>> /\ Head(Visible) = Value(0)
  <2>1. Visible # <<>> /\ Head(Visible) = b[0]
    <3>1. 1 \in 1 .. a /\ 1 - 1 = 0
      BY <1>1
    <3>2. Visible[1] = b[0]
      BY <1>6, <3>1
    <3>3. Visible # <<>>
      BY <1>6, <3>1
    <3>4. Head(Visible) = Visible[1]
      BY <1>6, <3>1
    <3> QED
      BY <3>2, <3>3, <3>4
  <2>2. 0 \in 0 .. a + w
    BY <1>1
  <2> QED
    BY <1>4, <2>1, <2>2
<1>10. Mapped /\ Mapped'
  BY Mapping, PTL
<1> QED
  BY <1>2, <1>3, <1>7, <1>8, <1>9, <1>10 DEF Abstract!Get, Mapped

\* A put appends.
LEMMA GiveIsPut ==
    ASSUME Parts, Parts', NEW v \in Values, ~is_full, Give(v)
    PROVE  Abstract!Put(v)
<1>1. PICK a \in Nat, w \in Nat :
          a = used /\ w = m_num_written /\ m_used = a + w /\ a + w <= N
  BY CountsAre
<1>2. used' = a /\ m_num_written' = w + 1 /\ m_num_read' = m_num_read /\ m_size' = m_size
      /\ got' = got
  BY <1>1 DEF Give, used
<1>3. PICK b : b = [k \in 0 .. a + w |-> Value(k)]
  OBVIOUS
<1>4. \A k \in 0 .. a + w : Value(k)' = IF k = a + w THEN v ELSE b[k]
  <2>1. \A k \in 0 .. a + w : Value(k)' = IF k = a + w THEN v ELSE Value(k)
    BY <1>1, WriteRing DEF Parts, Give
  <2> QED
    BY <1>3, <2>1
<1>5. Visible = [k \in 1 .. a |-> b[k - 1]] /\ Fresh = [k \in 1 .. w |-> b[a + k - 1]]
  BY <1>1, <1>3 DEF Visible, Fresh
<1>6. Visible' = Visible
  <2>1. Visible' = [k \in 1 .. a |-> Value(k - 1)']
    BY <1>2 DEF Visible
  <2>2. \A k \in 1 .. a : Value(k - 1)' = b[k - 1]
    <3> SUFFICES ASSUME NEW k \in 1 .. a PROVE Value(k - 1)' = b[k - 1]
      OBVIOUS
    <3>1. PICK j \in 0 .. a + w : j = k - 1 /\ j # a + w
      BY <1>1
    <3> QED
      BY <1>4, <3>1
  <2> QED
    BY <1>5, <2>1, <2>2
<1>7. Fresh' = Append(Fresh, v)
  <2>1. Fresh' = [k \in 1 .. w + 1 |-> Value(a + k - 1)']
    BY <1>2 DEF Fresh
  <2>2. \A k \in 1 .. w + 1 : Value(a + k - 1)' = IF k = w + 1 THEN v ELSE b[a + k - 1]
    <3> SUFFICES ASSUME NEW k \in 1 .. w + 1
                 PROVE  Value(a + k - 1)' = IF k = w + 1 THEN v ELSE b[a + k - 1]
      OBVIOUS
    <3>1. PICK j \in 0 .. a + w : j = a + k - 1 /\ (j = a + w <=> k = w + 1)
      BY <1>1
    <3> QED
      BY <1>4, <3>1
  <2>3. Fresh' = [k \in 1 .. w + 1 |-> IF k = w + 1 THEN v ELSE b[a + k - 1]]
    BY <2>1, <2>2
  <2> QED
    BY <1>5, <2>3
<1>8. m_size < 0 \/ Len(Visible) + m_num_read + Len(Fresh) < m_size
  <2>1. Len(Visible) = a /\ Len(Fresh) = w
    BY <1>5
  <2>2. a + m_num_read = m_num_readable
    BY <1>1 DEF Parts, CountsAgree, used
  <2>3. m_size < 0 \/ m_num_readable + w < m_size
    BY <1>1 DEF is_full, Parts, CountsAgree
  <2> QED
    BY <1>1, <2>1, <2>2, <2>3 DEF Parts, CountsAgree
<1>9. Mapped /\ Mapped'
  BY Mapping, PTL
<1> QED
  BY <1>2, <1>6, <1>7, <1>8, <1>9 DEF Abstract!Put, Mapped

\* What a step that moves no value leaves alone.
LEMMA Stutter ==
    ASSUME UNCHANGED <<buffer, counts, m_size, got>>
    PROVE  UNCHANGED abstractVars
  BY DEF abstractVars, contents, peek_data, Cell, used, buffer, counts

\* A look at a value that is there, or at raw memory when none is.
LEMMA LookIsPeek ==
    ASSUME Parts, Parts', NEW r \in Readers, NEW v,
           \/ \E k \in 0 .. used - 1 : v = peek_data(k)
           \/ is_empty /\ v \in Word,
           Look(r, v)
    PROVE  Abstract!Peek(r)
<1>1. PICK a \in Nat, w \in Nat :
          a = used /\ w = m_num_written /\ m_used = a + w /\ a + w <= N /\ N \in Nat
  BY CountsAre
<1>2. got' = [got EXCEPT ![r] = v] /\ UNCHANGED <<buffer, counts, m_size>>
  BY DEF Look
<1>3. Mapped
  BY Mapping
<1>4. Visible = [k \in 1 .. a |-> Value(k - 1)]
  BY <1>1 DEF Visible
<1>5. /\ SubSeq(contents, 1, used)' = SubSeq(contents, 1, used)
      /\ SubSeq(contents, used + 1, m_used)' = SubSeq(contents, used + 1, m_used)
      /\ m_num_read' = m_num_read /\ m_size' = m_size
  BY <1>2 DEF contents, peek_data, Cell, used, buffer, counts
<1>6. CASE \E k \in 0 .. used - 1 : v = peek_data(k)
  <2>1. PICK k \in 0 .. a - 1 : v = peek_data(k)
    BY <1>1, <1>6
  <2>2. k \in 0 .. N /\ RingTyped
    BY <1>1 DEF Parts, Ring
  <2>3. v = Value(k)
    BY <2>1, <2>2, PeekIsValue
  <2>4. PICK j \in 1 .. a : j = k + 1 /\ j - 1 = k
    BY <1>1
  <2>5. j \in DOMAIN Visible /\ Visible[j] = v
    BY <1>4, <2>3, <2>4
  <2> QED
    BY <1>2, <1>3, <1>5, <2>5 DEF Abstract!Peek, Mapped
<1>7. CASE is_empty /\ v \in Word
  <2>1. Visible = <<>>
    BY <1>1, <1>4, <1>7 DEF is_empty
  <2> QED
    BY <1>2, <1>3, <1>5, <1>7, <2>1 DEF Abstract!Peek, Mapped, Word
<1> QED
  BY <1>6, <1>7

\* Any change of the size that leaves the values, in whatever buffer.
LEMMA SizeIsResize ==
    ASSUME Parts, Parts', m_size' \in Int, m_used' = m_used,
           UNCHANGED <<counts, got>>,
           \A k \in 0 .. m_used - 1 : Value(k)' = Value(k)
    PROVE  Abstract!Resize
<1>1. PICK a \in Nat, w \in Nat : a = used /\ w = m_num_written /\ m_used = a + w
  BY CountsAre
<1>2. used' = a /\ m_num_written' = w /\ m_num_read' = m_num_read
  BY <1>1 DEF used, counts
<1>3. Visible' = Visible
  <2>1. \A k \in 1 .. a : Value(k - 1)' = Value(k - 1)
    <3> SUFFICES ASSUME NEW k \in 1 .. a PROVE Value(k - 1)' = Value(k - 1)
      OBVIOUS
    <3>1. PICK j \in 0 .. m_used - 1 : j = k - 1
      BY <1>1
    <3> QED
      BY <3>1
  <2> QED
    BY <1>1, <1>2, <2>1 DEF Visible
<1>4. Fresh' = Fresh
  <2>1. \A k \in 1 .. w : Value(a + k - 1)' = Value(a + k - 1)
    <3> SUFFICES ASSUME NEW k \in 1 .. w PROVE Value(a + k - 1)' = Value(a + k - 1)
      OBVIOUS
    <3>1. PICK j \in 0 .. m_used - 1 : j = a + k - 1
      BY <1>1
    <3> QED
      BY <3>1
  <2>2. Fresh' = [k \in 1 .. w |-> Value(a + k - 1)']
    BY <1>2 DEF Fresh
  <2> QED
    BY <1>1, <2>1, <2>2 DEF Fresh
<1>5. Mapped /\ Mapped'
  BY Mapping, PTL
<1> QED
  BY <1>2, <1>3, <1>4, <1>5 DEF Abstract!Resize, Mapped

\* A poke that reaches a value changes one that can be got.
LEMMA PokeIsPoke ==
    ASSUME Parts, Parts', NEW v \in Values, NEW n \in Nat, nb_poke(v, n)
    PROVE  Abstract!Poke \/ UNCHANGED abstractVars
<1>1. PICK a \in Nat, w \in Nat, s \in Nat :
          a = used /\ w = m_num_written /\ m_used = a + w /\ a + w <= s /\ N = s
  BY CountsAre
<1>2. /\ used' = a /\ m_num_written' = w /\ m_num_read' = m_num_read /\ m_size' = m_size
      /\ got' = got /\ n < a
  BY <1>1 DEF nb_poke, used, counts
<1>3. PICK j \in Int : j = n - (s - (a + w)) /\ j < a
  BY <1>1, <1>2
<1>4. PICK b : b = [k \in 0 .. a + w |-> Value(k)]
  OBVIOUS
<1>5. \A k \in 0 .. (a + w) - 1 : Value(k)' = IF k = j THEN v ELSE b[k]
  <2>1. \A k \in 0 .. m_used - 1 : Value(k)' = IF k = n - (N - m_used) THEN v ELSE Value(k)
    BY PokeKeeps
  <2> QED
    BY <1>1, <1>3, <1>4, <2>1
<1>6. Visible = [k \in 1 .. a |-> b[k - 1]] /\ Fresh = [k \in 1 .. w |-> b[a + k - 1]]
  BY <1>1, <1>4 DEF Visible, Fresh
<1>7. Fresh' = Fresh
  <2>1. Fresh' = [k \in 1 .. w |-> Value(a + k - 1)']
    BY <1>2 DEF Fresh
  <2>2. \A k \in 1 .. w : Value(a + k - 1)' = b[a + k - 1]
    <3> SUFFICES ASSUME NEW k \in 1 .. w PROVE Value(a + k - 1)' = b[a + k - 1]
      OBVIOUS
    <3>1. PICK i \in 0 .. (a + w) - 1 : i = a + k - 1 /\ i # j
      BY <1>1, <1>3
    <3> QED
      BY <1>5, <3>1
  <2> QED
    BY <1>6, <2>1, <2>2
<1>8. Visible' = [k \in 1 .. a |-> IF k = j + 1 THEN v ELSE b[k - 1]]
  <2>1. Visible' = [k \in 1 .. a |-> Value(k - 1)']
    BY <1>2 DEF Visible
  <2>2. \A k \in 1 .. a : Value(k - 1)' = IF k = j + 1 THEN v ELSE b[k - 1]
    <3> SUFFICES ASSUME NEW k \in 1 .. a PROVE Value(k - 1)' = IF k = j + 1 THEN v ELSE b[k - 1]
      OBVIOUS
    <3>1. PICK i \in 0 .. (a + w) - 1 : i = k - 1 /\ (i = j <=> k = j + 1)
      BY <1>1, <1>3
    <3> QED
      BY <1>5, <3>1
  <2> QED
    BY <2>1, <2>2
<1>9. Mapped /\ Mapped'
  BY Mapping, PTL
<1>10. CASE j >= 0
  <2>1. PICK i \in 1 .. a : i = j + 1
    BY <1>3, <1>10
  <2>2. i \in DOMAIN Visible /\ Visible' = [Visible EXCEPT ![i] = v]
    BY <1>6, <1>8, <2>1
  <2> QED
    BY <1>2, <1>7, <1>9, <2>2 DEF Abstract!Poke, Mapped
<1>11. CASE ~(j >= 0)
  <2>1. \A k \in 1 .. a : k # j + 1
    BY <1>3, <1>11
  <2>2. Visible' = Visible
    BY <1>6, <1>8, <2>1
  <2> QED
    BY <1>2, <1>7, <1>9, <2>2 DEF abstractVars, Mapped
<1> QED
  BY <1>10, <1>11

\* An update ends the cycle.
LEMMA UpdateIsEndCycle ==
    ASSUME Parts, Parts', Update
    PROVE  Abstract!EndCycle
<1>1. PICK a \in Nat, w \in Nat :
          a = used /\ w = m_num_written /\ m_used = a + w
  BY CountsAre
<1>2. /\ m_num_readable' = m_used /\ m_num_read' = 0 /\ m_num_written' = 0 /\ m_size' = m_size
      /\ m_buf' = m_buf /\ m_ri' = m_ri /\ got' = got
  BY DEF Update, buffer
<1>3. used' = a + w
  BY <1>1, <1>2 DEF used
<1>4. PICK b : b = [k \in 0 .. a + w |-> Value(k)]
  OBVIOUS
<1>5. Visible = [k \in 1 .. a |-> b[k - 1]] /\ Fresh = [k \in 1 .. w |-> b[a + k - 1]]
  BY <1>1, <1>4 DEF Visible, Fresh
<1>6. Visible' = [k \in 1 .. a + w |-> b[k - 1]]
  <2>1. Visible' = [k \in 1 .. a + w |-> Value(k - 1)]
    BY <1>2, <1>3 DEF Visible, Value, Place, N
  <2> QED
    BY <1>1, <1>4, <2>1
<1>7. Visible' = Visible \o Fresh
  BY <1>5, <1>6
<1>8. Fresh' = <<>>
  BY <1>2 DEF Fresh
<1>9. Mapped /\ Mapped'
  BY Mapping, PTL
<1> QED
  BY <1>2, <1>7, <1>8, <1>9 DEF Abstract!EndCycle, Mapped

LEMMA ReaderMaps ==
    ASSUME Parts, Parts', NEW r \in Readers, ReaderStep(r)
    PROVE  Abstract!Get(r) \/ Abstract!Peek(r) \/ UNCHANGED abstractVars
<1>1. CASE get(r)
  <2>1. CASE is_empty
    BY <1>1, <2>1, Stutter DEF get, Block
  <2>2. CASE ~is_empty
    BY <1>1, <2>2, TakeIsGet DEF get
  <2> QED
    BY <2>1, <2>2
<1>2. CASE nb_get(r)
  BY <1>2, TakeIsGet DEF nb_get
<1>3. CASE peek(r)
  <2>1. CASE is_empty
    BY <1>3, <2>1, Stutter DEF peek, Block
  <2>2. CASE ~is_empty
    <3>1. 0 \in 0 .. used - 1
      BY <2>2, CountsAre DEF is_empty
    <3> QED
      BY <1>3, <2>2, <3>1, LookIsPeek DEF peek
  <2> QED
    BY <2>1, <2>2
<1>4. CASE \E n \in -1 .. MaxUsed : nb_peek(r, n)
  <2>1. PICK n \in Int : nb_peek(r, n)
    BY <1>4
  <2>2. Look(r, peek_data(IF n = -1 THEN used - 1 ELSE n))
    BY <2>1 DEF nb_peek
  <2>3. -1 <= n /\ n < used /\ used # 0
    BY <2>1 DEF nb_peek, is_empty
  <2>4. (IF n = -1 THEN used - 1 ELSE n) \in 0 .. used - 1
    BY <2>3, CountsAre
  <2>5. PICK k \in 0 .. used - 1 : k = IF n = -1 THEN used - 1 ELSE n
    BY <2>4
  <2> QED
    BY <2>2, <2>5, LookIsPeek
<1>5. CASE nb_peek_empty(r)
  BY <1>5, LookIsPeek DEF nb_peek_empty, Word
<1>6. CASE Pause(r)
  BY <1>6, Stutter DEF Pause, fifoVars
<1> QED
  BY <1>1, <1>2, <1>3, <1>4, <1>5, <1>6 DEF ReaderStep

LEMMA WriterMaps ==
    ASSUME Parts, Parts', NEW w \in Writers, WriterStep(w)
    PROVE  (\E v \in Values : Abstract!Put(v)) \/ UNCHANGED abstractVars
<1>1. ASSUME NEW v \in Values, put(w, v)
      PROVE  Abstract!Put(v) \/ UNCHANGED abstractVars
  <2>1. CASE is_full
    BY <1>1, <2>1, Stutter DEF put, Block
  <2>2. CASE ~is_full
    BY <1>1, <2>2, GiveIsPut DEF put
  <2> QED
    BY <2>1, <2>2
<1>2. ASSUME NEW v \in Values, nb_put(w, v)
      PROVE  Abstract!Put(v)
  BY <1>2, GiveIsPut DEF nb_put
<1>3. CASE Pause(w)
  BY <1>3, Stutter DEF Pause, fifoVars
<1> QED
  BY <1>1, <1>2, <1>3 DEF WriterStep

LEMMA ResizeMaps ==
    ASSUME Parts, Parts', Resize
    PROVE  Abstract!Resize
<1>1. m_size' \in Int /\ Ring /\ RingTyped
  BY DEF Parts, Ring
<1>2. ASSUME UNCHANGED buffer
      PROVE  m_used' = m_used /\ \A k \in 0 .. m_used - 1 : Value(k)' = Value(k)
  BY <1>2 DEF buffer, Value, Place, N
<1>3. PICK n \in 1 .. MaxSize : nb_expand(n) \/ nb_unbound(n) \/ nb_reduce(n) \/ nb_bound(n)
  BY DEF Resize
<1>4. CASE nb_expand(n)
  BY <1>1, <1>2, <1>4, SizeIsResize DEF nb_expand
<1>5. CASE nb_unbound(n)
  <2>1. CASE N < n
    <3>1. resize(n) /\ n > N /\ n \in Nat
      BY <1>1, <1>5, <2>1 DEF nb_unbound, N, RingTyped
    <3>2. m_used' = m_used /\ \A k \in 0 .. m_used - 1 : Value(k)' = Value(k)
      BY <1>1, <3>1, ResizeRing
    <3> QED
      BY <1>1, <1>5, <3>2, SizeIsResize DEF nb_unbound
  <2>2. CASE ~(N < n)
    <3>1. UNCHANGED buffer
      BY <1>5, <2>2 DEF nb_unbound, N
    <3> QED
      BY <1>1, <1>2, <1>5, <3>1, SizeIsResize DEF nb_unbound
  <2> QED
    BY <2>1, <2>2
<1>6. CASE nb_reduce(n) \/ nb_bound(n)
  BY <1>1, <1>2, <1>6, SizeIsResize DEF nb_reduce, nb_bound
<1> QED
  BY <1>3, <1>4, <1>5, <1>6

\* Whatever is put, got, peeked, poked and resized, the fifo is a ResizableFifo:
\* each value comes out once, in order, from the cycle after its put on, and no
\* put goes through beyond the size of the moment (tlm_fifo_put_get.h, tlm_fifo_resize.h).
THEOREM Refinement == Spec => ImplementsResizableFifo
<1>1. Init => Abstract!Init
  <2> SUFFICES ASSUME Init PROVE Abstract!Init
    OBVIOUS
  <2>1. Parts /\ Mapped
    BY InitParts, Mapping
  <2>2. m_num_readable = 0 /\ m_num_read = 0 /\ m_num_written = 0
        /\ got = [r \in Readers |-> NoValue] /\ m_size \in Int
    BY <2>1 DEF Init, Parts
  <2>3. Visible = <<>> /\ Fresh = <<>>
    BY <2>2 DEF Visible, Fresh, used
  <2> QED
    BY <2>1, <2>2, <2>3 DEF Abstract!Init, Mapped
<1>2. Parts /\ Parts' /\ [Next]_vars => [Abstract!Next]_abstractVars
  <2> SUFFICES ASSUME Parts, Parts', [Next]_vars
               PROVE  Abstract!Next \/ UNCHANGED abstractVars
    OBVIOUS
  <2>1. ASSUME NEW r \in Readers, ReaderStep(r)
        PROVE  Abstract!Next \/ UNCHANGED abstractVars
    BY <2>1, ReaderMaps DEF Abstract!Next
  <2>2. ASSUME NEW w \in Writers, WriterStep(w)
        PROVE  Abstract!Next \/ UNCHANGED abstractVars
    BY <2>2, WriterMaps DEF Abstract!Next
  <2>3. CASE Resize
    BY <2>3, ResizeMaps DEF Abstract!Next
  <2>4. CASE Poke
    <3>1. PICK v \in Values, n \in 0 .. MaxUsed : nb_poke(v, n)
      BY <2>4 DEF Poke
    <3>2. n \in Nat
      OBVIOUS
    <3> QED
      BY <3>1, <3>2, PokeIsPoke DEF Abstract!Next
  <2>5. CASE Update
    BY <2>5, UpdateIsEndCycle DEF Abstract!Next
  <2>6. CASE (Deliver \/ AdvanceTime) /\ UNCHANGED fifoVars
    BY <2>6, Stutter DEF fifoVars
  <2>7. CASE UNCHANGED vars
    BY <2>7, Stutter DEF vars, fifoVars
  <2> QED
    BY <2>1, <2>2, <2>3, <2>4, <2>5, <2>6, <2>7 DEF Next
<1>3. IInv /\ IInv' /\ [Next]_vars => [Abstract!Next]_(Abstract!vars)
  <2>1. (IInv => Parts) /\ (IInv' => Parts')
    BY InvIsParts, PTL
  <2> QED
    BY <1>2, <2>1 DEF abstractVars, Abstract!vars
<1> QED
  BY <1>1, <1>3, Invariance, PTL DEF Spec, ImplementsResizableFifo, Abstract!Spec
=============================================================================
