------------------------------- MODULE TlmFifo -------------------------------
(***************************************************************************)
(* The fifo of the co-verification side: tlm_fifo with its circular_buffer *)
(* (tlm_core/tlm_1/tlm_req_rsp/tlm_channels/tlm_fifo/), whose logical size *)
(* can be changed while processes wait in put, get and peek.  The buffer   *)
(* has a physical size of its own, and grows when a put finds it full.     *)
(*                                                                         *)
(* Any process that runs may change the size or use the debug interface.   *)
(* m_free of the buffer is its size less m_used, in every operation.       *)
(* m_num_read_no_notify is 0 throughout: nothing counts in it.             *)
(***************************************************************************)
EXTENDS Integers, Sequences, DeltaKernel

CONSTANTS
    InitSize,       \* the size given to the constructor
    Values,         \* the type T
    NoValue,        \* raw memory, or a destroyed value
    Readers, Writers,
    MaxSize,        \* bound of the sizes asked for
    MaxUsed         \* bound of the content while the size has no limit

ASSUME TlmFifoAssumption ==
    /\ InitSize \in Int
    /\ Readers \cap Writers = {}
    /\ NoValue \notin Values

VARIABLES
    m_buf, m_used, m_ri, m_wi,                      \* the buffer
    m_size,                                         \* the logical size
    m_num_readable, m_num_read, m_num_written,      \* the counts of this cycle
    m_expand,
    call,           \* per process: what a blocked call will do
    got,            \* per reader: the value it got or peeked last
    unannounced     \* history: nb_bound made room since the last event of a get

buffer == <<m_buf, m_used, m_ri, m_wi>>
counts == <<m_num_readable, m_num_read, m_num_written>>

Data == {"data_written"}
Space == {"data_read"}

fifoVars == <<buffer, counts, m_size, m_expand, call, got, unannounced>>
vars == <<fifoVars, kernel>>

None == [op |-> "none"]
Getting == [op |-> "get"]
Peeking == [op |-> "peek"]
Putting(v) == [op |-> "put", value |-> v]

TypeOK ==
    /\ KernelTypeOK(Readers \cup Writers, {"fifo"}, Data \cup Space)
    /\ m_buf \in Seq(Values \cup {NoValue}) /\ m_buf # <<>>
    /\ m_used \in 0 .. Len(m_buf)
    /\ {m_ri, m_wi} \subseteq 0 .. Len(m_buf) - 1
    /\ m_size \in Int
    /\ {m_num_readable, m_num_read, m_num_written} \subseteq Nat
    /\ m_expand \in BOOLEAN
    /\ call \in [Processes -> {None, Getting, Peeking} \cup {Putting(v) : v \in Values}]
    /\ got \in [Readers -> Values \cup {NoValue}]
    /\ unannounced \in BOOLEAN

\* tlm_fifo::init: a size of zero has a buffer of 16.
Init ==
    /\ m_buf = [k \in 1 .. (IF InitSize = 0 THEN 16 ELSE IF InitSize < 0 THEN -InitSize
                                                    ELSE InitSize) |-> NoValue]
    /\ m_used = 0 /\ m_ri = 0 /\ m_wi = 0
    /\ m_size = InitSize
    /\ m_num_readable = 0 /\ m_num_read = 0 /\ m_num_written = 0
    /\ m_expand = FALSE
    /\ call = [p \in Readers \cup Writers |-> None]
    /\ got = [r \in Readers |-> NoValue]
    /\ unannounced = FALSE
    /\ KernelInit(Readers \cup Writers)

-----------------------------------------------------------------------------
(***************************************************************************)
(* circular_buffer                                                         *)
(***************************************************************************)

Cell(i) == (i % Len(m_buf)) + 1     \* the cell of an index that wraps

peek_data(i) == m_buf[Cell(m_ri + i)]

\* What resize leaves: the oldest values, as many as fit, from index 0 on.
Resized(n) == [k \in 1 .. n |-> IF k <= m_used THEN peek_data(k - 1) ELSE NoValue]

\* Mutant: the cells are copied as they lie.
resize_in_place(n) ==
    /\ m_buf' = [k \in 1 .. n |-> IF k <= Len(m_buf) THEN m_buf[k] ELSE NoValue]
    /\ UNCHANGED <<m_used, m_ri, m_wi>>

resize(n) ==
    /\ m_buf' = Resized(n)
    /\ m_used' = IF m_used < n THEN m_used ELSE n
    /\ m_ri' = 0
    /\ m_wi' = m_used' % n

buf_read ==
    /\ m_buf' = [m_buf EXCEPT ![Cell(m_ri)] = NoValue]
    /\ m_ri' = (m_ri + 1) % Len(m_buf)
    /\ m_used' = m_used - 1
    /\ UNCHANGED m_wi

\* A put doubles a buffer that is full before it writes.
buf_write(v) ==
    IF m_used < Len(m_buf)
      THEN /\ m_buf' = [m_buf EXCEPT ![Cell(m_wi)] = v]
           /\ m_wi' = (m_wi + 1) % Len(m_buf)
           /\ m_used' = m_used + 1
           /\ UNCHANGED m_ri
      ELSE /\ m_buf' = [Resized(2 * Len(m_buf)) EXCEPT ![m_used + 1] = v]
           /\ m_ri' = 0
           /\ m_wi' = (m_used + 1) % Len(m_buf')
           /\ m_used' = m_used + 1

-----------------------------------------------------------------------------
(***************************************************************************)
(* Put, get and peek                                                       *)
(***************************************************************************)

used == m_num_readable - m_num_read

is_empty == used = 0

\* Mutant: the condition that the source keeps as a comment.
full_when_equal == m_size = m_num_readable + m_num_written

is_full == m_size >= 0 /\ m_size <= m_num_readable + m_num_written

Idle(p) == Runnable(p) /\ call[p] = None

Return(p) == call' = [call EXCEPT ![p] = None]

\* The process waits for the event and will test again.
Block(p, event, resumed) ==
    /\ WaitFor(p, event)
    /\ call' = [call EXCEPT ![p] = resumed]
    /\ UNCHANGED <<buffer, counts, m_size, m_expand, got, unannounced>>

Take(r) ==
    /\ m_num_read' = m_num_read + 1
    /\ got' = [got EXCEPT ![r] = peek_data(0)]
    /\ buf_read
    /\ Request({"fifo"})
    /\ UNCHANGED <<m_num_readable, m_num_written, m_size, m_expand, unannounced>>

get(r) ==
    /\ Runnable(r) /\ call[r] \in {None, Getting}
    /\ IF is_empty THEN Block(r, Data, Getting) ELSE Take(r) /\ Return(r)

\* nb_get that returns true; one that returns false changes nothing.
nb_get(r) == Idle(r) /\ ~is_empty /\ Take(r) /\ UNCHANGED call

Look(r, v) ==
    /\ got' = [got EXCEPT ![r] = v]
    /\ UNCHANGED <<buffer, counts, m_size, m_expand, unannounced, kernel>>

peek(r) ==
    /\ Runnable(r) /\ call[r] \in {None, Peeking}
    /\ IF is_empty THEN Block(r, Data, Peeking) ELSE Look(r, peek_data(0)) /\ Return(r)

\* nb_peek(t, n) of a value inside; nb_peek(t) is the one with 0.
nb_peek(r, n) ==
    /\ Idle(r) /\ -1 <= n /\ n < used /\ ~is_empty
    /\ Look(r, peek_data(IF n = -1 THEN used - 1 ELSE n))
    /\ UNCHANGED call

\* With -1 on an empty fifo it returns true too, and reads outside the data.
nb_peek_empty(r) ==
    /\ Idle(r) /\ is_empty
    /\ \E v \in Values \cup {NoValue} : Look(r, v)
    /\ UNCHANGED call

Give(v) ==
    /\ m_num_written' = m_num_written + 1
    /\ buf_write(v)
    /\ Request({"fifo"})
    /\ UNCHANGED <<m_num_readable, m_num_read, m_size, m_expand, got, unannounced>>

put(w, v) ==
    /\ Runnable(w) /\ call[w] \in {None, Putting(v)}
    /\ call[w] = None => m_used < MaxUsed
    /\ IF is_full THEN Block(w, Space, Putting(v)) ELSE Give(v) /\ Return(w)

nb_put(w, v) == Idle(w) /\ m_used < MaxUsed /\ ~is_full /\ Give(v) /\ UNCHANGED call

-----------------------------------------------------------------------------
(***************************************************************************)
(* The resize interface, and nb_poke of the debug interface                *)
(***************************************************************************)

\* Mutant: a larger size is nobody's event.
nb_expand_silent(n) ==
    /\ m_size >= 0
    /\ m_size' = m_size + n
    /\ UNCHANGED <<buffer, counts, m_expand, call, got, unannounced, kernel>>

nb_expand(n) ==
    /\ m_size >= 0
    /\ m_expand' = TRUE
    /\ m_size' = m_size + n
    /\ Request({"fifo"})
    /\ UNCHANGED <<buffer, counts, call, got, unannounced>>

nb_unbound(n) ==
    /\ m_expand' = TRUE
    /\ m_size' = -n
    /\ IF Len(m_buf) < n THEN resize(n) ELSE UNCHANGED buffer
    /\ Request({"fifo"})
    /\ UNCHANGED <<counts, call, got, unannounced>>

nb_bound(new_size) ==
    /\ m_size' = IF new_size < used THEN used ELSE new_size
    /\ unannounced' = (unannounced \/ (m_size >= 0 /\ m_size' > m_size))
    /\ UNCHANGED <<buffer, counts, m_expand, call, got, kernel>>

nb_reduce(n) == m_size >= 0 /\ nb_bound(m_size - n)

\* What it leaves in a free cell nobody reads: the cell stays NoValue.
nb_poke(v, n) ==
    /\ 0 <= n /\ n < used
    /\ m_buf' = [m_buf EXCEPT ![Cell(m_wi + n)] = IF @ = NoValue THEN NoValue ELSE v]
    /\ UNCHANGED <<m_used, m_ri, m_wi, counts, m_size, m_expand, call, got, unannounced, kernel>>

Resize ==
    \E n \in 1 .. MaxSize :
        \/ m_size + n <= MaxSize /\ nb_expand(n)
        \/ nb_unbound(n)
        \/ nb_reduce(n)
        \/ nb_bound(n)

Poke == \E v \in Values, n \in 0 .. MaxUsed : nb_poke(v, n)

-----------------------------------------------------------------------------
\* Mutant: readers are told only when there was nothing to get.
UpdateWhenEmpty ==
    /\ UpdateOf("fifo",
           (IF m_num_read > 0 \/ m_expand THEN Space ELSE {})
           \cup (IF m_num_written > 0 /\ m_num_readable = 0 THEN Data ELSE {}))
    /\ m_expand' = FALSE
    /\ m_num_read' = 0
    /\ m_num_written' = 0
    /\ m_num_readable' = m_used
    /\ UNCHANGED <<buffer, m_size, call, got>>
    /\ unannounced' = (unannounced /\ m_num_read = 0 /\ ~m_expand)

\* tlm_fifo::update.
Update ==
    /\ UpdateOf("fifo",
           (IF m_num_read > 0 \/ m_expand THEN Space ELSE {})
           \cup (IF m_num_written > 0 THEN Data ELSE {}))
    /\ m_expand' = FALSE
    /\ m_num_read' = 0
    /\ m_num_written' = 0
    /\ m_num_readable' = m_used
    /\ UNCHANGED <<buffer, m_size, call, got>>
    /\ unannounced' = (unannounced /\ m_num_read = 0 /\ ~m_expand)

\* The process waits for its clock.
Pause(p) ==
    /\ Idle(p)
    /\ WaitFor(p, Clock)
    /\ UNCHANGED fifoVars

ReaderStep(r) ==
    \/ get(r) \/ nb_get(r) \/ peek(r)
    \/ (\E n \in -1 .. MaxUsed : nb_peek(r, n)) \/ nb_peek_empty(r)
    \/ Pause(r)

WriterStep(w) == (\E v \in Values : put(w, v) \/ nb_put(w, v)) \/ Pause(w)

Next ==
    \/ \E r \in Readers : ReaderStep(r)
    \/ \E w \in Writers : WriterStep(w)
    \/ (\E p \in Processes : Idle(p)) /\ (Resize \/ Poke)
    \/ Update
    \/ (Deliver \/ AdvanceTime) /\ UNCHANGED fifoVars

Spec == Init /\ [][Next]_vars

\* The kernel runs every process that can run, and goes on with the cycle.
FairSpec ==
    /\ Spec
    /\ \A r \in Readers : WF_vars(ReaderStep(r))
    /\ \A w \in Writers : WF_vars(WriterStep(w))
    /\ WF_vars(Update)
    /\ WF_vars(Deliver /\ UNCHANGED fifoVars)

-----------------------------------------------------------------------------
(***************************************************************************)
(* Properties                                                              *)
(***************************************************************************)

\* Buffer and counts tell the same, whatever was resized: exactly the cells
\* between the indices hold values, as many as can be got or were put in this
\* cycle.  Then no get reads raw memory and no put writes over a value.
BufferMatchesCounts ==
    /\ m_used = used + m_num_written
    /\ used >= 0
    /\ (m_ri + m_used) % Len(m_buf) = m_wi
    /\ \A k \in 0 .. Len(m_buf) - 1 : peek_data(k) = NoValue <=> k >= m_used

\* Who waits in get, peek or put has a reason to, once the cycle has ended; but a
\* writer may sleep beside the room that nb_bound made, which tells nobody.
NoLostWakeup ==
    requested = {} /\ notified = {} =>
        \A p \in Processes :
            /\ waits[p] = Data => is_empty
            /\ waits[p] = Space => is_full \/ unannounced

\* Within a cycle, who waits has a reason to, or what will wake it is on its way.
WakeupsPending ==
    /\ m_num_read > 0 \/ m_num_written > 0 \/ m_expand => "fifo" \in requested
    /\ \A p \in Processes :
        /\ waits[p] = Data => is_empty \/ Data \subseteq notified
        /\ waits[p] = Space => \/ is_full \/ unannounced \/ Space \subseteq notified
                               \/ m_num_read > 0 \/ m_expand

\* The invariant that every step keeps.
IInv == TypeOK /\ BufferMatchesCounts /\ WakeupsPending

contents == [k \in 1 .. m_used |-> peek_data(k - 1)]

Abstract == INSTANCE ResizableFifo
    WITH visible <- SubSeq(contents, 1, used),
         fresh <- SubSeq(contents, used + 1, m_used),
         taken <- m_num_read,
         size <- m_size

\* Through every change of the logical and the physical size, values come out
\* once each and in order, a peek shows what is inside, and a put never goes
\* through beyond the size of the moment.
ImplementsResizableFifo == Abstract!Spec

\* A get that waits when a value is put is woken, whatever is resized meanwhile.
DataWakes ==
    \A r \in Readers : waits[r] = Data /\ m_num_written > 0 ~> Runnable(r)

(***************************************************************************)
(* What the interface says of the index of a peek and a poke, and what a   *)
(* poke does instead.                                                      *)
(***************************************************************************)

\* The value that index n names by tlm_fifo_ifs.h:47-49: "0 <= n < size(), where 0
\* is most recently written, and size() - 1 is oldest ie the one about to be read".
FromNewest(n) == peek_data(used - 1 - n)

\* nb_peek returns the value of its index, and nb_poke changes it.  Violated:
\* nb_peek counts from the oldest value, and nb_poke from the cell to be written
\* next.
IndexFromNewest ==
    [][\A n \in 0 .. MaxUsed :
          /\ \A r \in Readers : nb_peek(r, n) => got'[r] = FromNewest(n)
          /\ \A v \in Values : nb_poke(v, n) => FromNewest(n)' = v]_vars

\* What a poke does reach: it misses the data unless its index goes past all the
\* free cells, and then it counts from the oldest value.
PokeBeyondFree ==
    [][\A v \in Values, n \in 0 .. MaxUsed : nb_poke(v, n) =>
           \A k \in 0 .. m_used - 1 :
               peek_data(k)' # peek_data(k) => k = n - (Len(m_buf) - m_used)]_vars
=============================================================================
