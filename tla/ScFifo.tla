------------------------------- MODULE ScFifo -------------------------------
(***************************************************************************)
(* The bounded fifo that an ac_channel can be bound to in a SystemC        *)
(* simulation: class sc_fifo (sysc/communication/sc_fifo.h), with the      *)
(* processes that call it through its one reading and its one writing      *)
(* port.  Several processes of a module may share a port.                  *)
(*                                                                         *)
(* The kernel runs one process at a time, until it waits: everything       *)
(* between two waits is one action.  When no process can run, it updates   *)
(* the channels that asked for it, then it delivers the notifications and  *)
(* a new delta cycle begins; when there are none, time goes on.            *)
(*                                                                         *)
(* The kernel (Runnable, Pause, Deliver, AdvanceTime) is not in the        *)
(* repository but for its headers, and is modelled as sc_fifo uses it.     *)
(* A process makes any calls of its side in any order, and waits for its   *)
(* clock (Pause) when it likes.                                            *)
(***************************************************************************)
EXTENDS Integers, Sequences

CONSTANTS
    Size,           \* the size given to the constructor
    Values,         \* the type T
    NoValue,        \* T()
    Readers,        \* the processes that read
    Writers         \* the processes that write

ASSUME SizeAssumption == Size \in Nat \ {0}
ASSUME ProcessesAssumption == Readers \cap Writers = {}
ASSUME NoValueAssumption == NoValue \notin Values

Processes == Readers \cup Writers
Events == {"data_read", "data_written"}

VARIABLES
    m_buf, m_free, m_ri, m_wi,                      \* the ring
    m_num_readable, m_num_read, m_num_written,      \* the counts of this cycle
    update_requested,
    notified,       \* the events that will be delivered next
    waits,          \* per process: "no", "clock", or the event it waits for
    call,           \* per process: what a blocked call will do, "none" if none
    got             \* per reader: the value of its last read

ring == <<m_buf, m_free, m_ri, m_wi>>
counts == <<m_num_readable, m_num_read, m_num_written>>
kernel == <<update_requested, notified>>
vars == <<ring, counts, kernel, waits, call, got>>

Reading == [op |-> "read"]
Writing(v) == [op |-> "write", value |-> v]
None == [op |-> "none"]

TypeOK ==
    /\ m_buf \in [0 .. Size - 1 -> Values \cup {NoValue}]
    /\ m_free \in 0 .. Size
    /\ m_ri \in 0 .. Size - 1
    /\ m_wi \in 0 .. Size - 1
    /\ m_num_readable \in 0 .. Size
    /\ m_num_read \in 0 .. Size
    /\ m_num_written \in 0 .. Size
    /\ update_requested \in BOOLEAN
    /\ notified \subseteq Events
    /\ waits \in [Processes -> {"no", "clock"} \cup Events]
    /\ call \in [Processes -> {None, Reading} \cup {Writing(v) : v \in Values}]
    /\ got \in [Readers -> Values \cup {NoValue}]

Init ==
    /\ m_buf = [k \in 0 .. Size - 1 |-> NoValue]
    /\ m_free = Size
    /\ m_ri = 0
    /\ m_wi = 0
    /\ m_num_readable = 0
    /\ m_num_read = 0
    /\ m_num_written = 0
    /\ update_requested = FALSE
    /\ notified = {}
    /\ waits = [p \in Processes |-> "no"]
    /\ call = [p \in Processes |-> None]
    /\ got = [r \in Readers |-> NoValue]

\* Mutant: a value can be read in the cycle that wrote it.
AvailableAtOnce == Size - m_free

num_available == m_num_readable - m_num_read
\* Mutant: what this cycle wrote is forgotten.
FreeBeforeCycle == Size - m_num_readable

num_free == Size - m_num_readable - m_num_written

-----------------------------------------------------------------------------
(***************************************************************************)
(* The ring.  The result of buf_write and buf_read is ignored by their     *)
(* callers; when it is false nothing was done.                             *)
(***************************************************************************)

buf_write(v) ==
    IF m_free = 0 THEN UNCHANGED ring
    ELSE /\ m_buf' = [m_buf EXCEPT ![m_wi] = v]
         /\ m_wi' = (m_wi + 1) % Size
         /\ m_free' = m_free - 1
         /\ UNCHANGED m_ri

buf_read(r) ==
    IF m_free = Size THEN UNCHANGED <<ring, got>>
    ELSE /\ got' = [got EXCEPT ![r] = m_buf[m_ri]]
         /\ m_buf' = [m_buf EXCEPT ![m_ri] = NoValue]
         /\ m_ri' = (m_ri + 1) % Size
         /\ m_free' = m_free + 1
         /\ UNCHANGED m_wi

\* What read and nb_read do when there is a value to read.
Take(r) ==
    /\ m_num_read' = m_num_read + 1
    /\ buf_read(r)
    /\ update_requested' = TRUE
    /\ UNCHANGED <<m_num_readable, m_num_written, notified>>

\* What write and nb_write do when there is room.
Give(v) ==
    /\ m_num_written' = m_num_written + 1
    /\ buf_write(v)
    /\ update_requested' = TRUE
    /\ UNCHANGED <<m_num_readable, m_num_read, notified, got>>

(***************************************************************************)
(* The calls                                                               *)
(***************************************************************************)

Runnable(p) == waits[p] = "no"

WaitFor(p, event, resumed) ==
    /\ waits' = [waits EXCEPT ![p] = event]
    /\ call' = [call EXCEPT ![p] = resumed]
    /\ UNCHANGED <<ring, counts, kernel, got>>

\* sc_fifo::read, called or woken: the loop tests num_available again.
Read(r) ==
    /\ Runnable(r)
    /\ call[r] \in {None, Reading}
    /\ IF num_available = 0
         THEN WaitFor(r, "data_written", Reading)
         ELSE /\ Take(r)
              /\ call' = [call EXCEPT ![r] = None]
              /\ UNCHANGED waits

\* nb_read that returns true; one that returns false changes nothing.
NbRead(r) ==
    /\ Runnable(r)
    /\ call[r] = None
    /\ num_available # 0
    /\ Take(r)
    /\ UNCHANGED <<waits, call>>

\* sc_fifo::write, called or woken.
Write(w, v) ==
    /\ Runnable(w)
    /\ call[w] \in {None, Writing(v)}
    /\ IF num_free = 0
         THEN WaitFor(w, "data_read", Writing(v))
         ELSE /\ Give(v)
              /\ call' = [call EXCEPT ![w] = None]
              /\ UNCHANGED waits

\* nb_write that returns true.
NbWrite(w, v) ==
    /\ Runnable(w)
    /\ call[w] = None
    /\ num_free # 0
    /\ Give(v)
    /\ UNCHANGED <<waits, call>>

\* The process waits for its clock.
Pause(p) ==
    /\ Runnable(p)
    /\ call[p] = None
    /\ waits' = [waits EXCEPT ![p] = "clock"]
    /\ UNCHANGED <<ring, counts, kernel, call, got>>

(***************************************************************************)
(* The delta cycle                                                         *)
(***************************************************************************)

AllWait == \A p \in Processes : ~Runnable(p)

\* sc_fifo::update, for the events that it notifies.
UpdateNotifying(events) ==
    /\ AllWait
    /\ update_requested
    /\ notified' = notified \cup events
    /\ m_num_readable' = Size - m_free
    /\ m_num_read' = 0
    /\ m_num_written' = 0
    /\ update_requested' = FALSE
    /\ UNCHANGED <<ring, waits, call, got>>

ReadEvent(condition) == IF condition THEN {"data_read"} ELSE {}
WrittenEvent(condition) == IF condition THEN {"data_written"} ELSE {}

\* Mutant: one event in a cycle.
UpdateOneEvent ==
    UpdateNotifying(ReadEvent(m_num_read > 0)
        \cup WrittenEvent(m_num_written > 0 /\ m_num_read = 0))

\* Mutant: the readers are told when the fifo was empty before the cycle.
UpdateWhenEmpty ==
    UpdateNotifying(ReadEvent(m_num_read > 0)
        \cup WrittenEvent(m_num_written > 0 /\ m_num_readable = 0))

\* sc_fifo::update, once in a cycle in which it was requested.
Update ==
    UpdateNotifying(ReadEvent(m_num_read > 0) \cup WrittenEvent(m_num_written > 0))

Wake(P) == waits' = [p \in Processes |-> IF p \in P THEN "no" ELSE waits[p]]

\* The notifications of the update wake all who wait for them.
Deliver ==
    /\ AllWait
    /\ ~update_requested
    /\ notified # {}
    /\ Wake({p \in Processes : waits[p] \in notified})
    /\ notified' = {}
    /\ UNCHANGED <<ring, counts, update_requested, call, got>>

\* Nothing is left to do at this time: a clock ticks for some processes.
AdvanceTime ==
    /\ AllWait
    /\ ~update_requested
    /\ notified = {}
    /\ \E P \in SUBSET {p \in Processes : waits[p] = "clock"} :
           P # {} /\ Wake(P)
    /\ UNCHANGED <<ring, counts, kernel, call, got>>

ReaderStep(r) == Read(r) \/ NbRead(r) \/ Pause(r)
WriterStep(w) == (\E v \in Values : Write(w, v) \/ NbWrite(w, v)) \/ Pause(w)

Next ==
    \/ \E r \in Readers : ReaderStep(r)
    \/ \E w \in Writers : WriterStep(w)
    \/ Update
    \/ Deliver
    \/ AdvanceTime

\* The kernel runs every process that can run, and goes on with the cycle.
Fairness ==
    /\ \A r \in Readers : WF_vars(ReaderStep(r))
    /\ \A w \in Writers : WF_vars(WriterStep(w))
    /\ WF_vars(Update)
    /\ WF_vars(Deliver)

Spec == Init /\ [][Next]_vars
FairSpec == Spec /\ Fairness

-----------------------------------------------------------------------------
(***************************************************************************)
(* Properties                                                              *)
(***************************************************************************)

used == Size - m_free

\* The ring and the counts tell the same: the values between the indices are
\* those that can be read and those written in this cycle, every other place is
\* cleared, and a written value never meets a full ring nor a read an empty one,
\* which buf_write and buf_read would pass over in silence.
RingMatchesCounts ==
    /\ used = num_available + m_num_written
    /\ num_available >= 0
    /\ num_free >= 0
    /\ (m_ri + used) % Size = m_wi
    /\ \A k \in 0 .. Size - 1 :
           m_buf[(m_ri + k) % Size] = NoValue <=> k >= used

\* A process that waits in read or write has a reason to: when no update and no
\* notification is under way, there is nothing to read, or no room to write.
NoLostWakeup ==
    ~update_requested /\ notified = {} =>
        \A p \in Processes :
            /\ waits[p] = "data_written" => num_available = 0
            /\ waits[p] = "data_read" => num_free = 0

\* What makes NoLostWakeup inductive: within a cycle too, a process that waits
\* has its reason, or the event it waits for is about to be delivered.
WakeupsPending ==
    \A p \in Processes :
        /\ waits[p] = "data_written" =>
               num_available = 0 \/ "data_written" \in notified
        /\ waits[p] = "data_read" =>
               num_free = 0 \/ "data_read" \in notified

IInv == TypeOK /\ RingMatchesCounts /\ WakeupsPending

\* A value written while a reader waits wakes it, also when the same cycle reads,
\* and a value read while a writer waits wakes that one.
WaitersWake ==
    /\ \A r \in Readers :
        waits[r] = "data_written" /\ m_num_written > 0 ~> Runnable(r)
    /\ \A w \in Writers :
        waits[w] = "data_read" /\ m_num_read > 0 ~> Runnable(w)

contents == [k \in 1 .. used |-> m_buf[(m_ri + k - 1) % Size]]

Abstract == INSTANCE DeltaFifo
    WITH visible <- SubSeq(contents, 1, num_available),
         fresh <- SubSeq(contents, num_available + 1, used),
         taken <- m_num_read

\* Values come out once each, in the order they were written, no earlier than
\* in the next cycle, and no more than Size of them are ever inside.
ImplementsDeltaFifo == Abstract!Spec
=============================================================================
