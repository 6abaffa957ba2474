------------------------------- MODULE P2pFifo -------------------------------
(***************************************************************************)
(* The point-to-point channel of two clocked blocks, at the level of its   *)
(* signals: p2p_fifo (ccs_p2p_fifo.h), a shift register with registered    *)
(* flags for a depth of two or more, a register with an unregistered       *)
(* feedback path for a depth of one, and wires for a depth of zero, which  *)
(* p2p (ccs_p2p_wire.h) and p2p_sync (ccs_p2p_sync.h) are as well.         *)
(*                                                                         *)
(* A step is a clock edge: the writing thread, the reading thread and the  *)
(* fifo are all triggered by it and see the signals as they were before,   *)
(* and what they drive has settled before the next edge.  vld and dat are  *)
(* driven during a write, rdy during a read, so the calls in progress are  *)
(* the signals of the two threads.                                         *)
(*                                                                         *)
(* A depth of one is taken with clk_neg = rst_neg: its template parameters *)
(* are declared in the other order (ccs_p2p_fifo.h:270), so that with the  *)
(* two different, as they are by default, the polarities are exchanged.    *)
(***************************************************************************)
EXTENDS Integers, Sequences

CONSTANTS
    Depths, Payloads,
    NoPayload,      \* what a default constructor leaves in a register
    MaxSent         \* bound of the values taken since a reset

ASSUME P2pFifoAssumption ==
    Depths \subseteq Nat /\ MaxSent \in Nat /\ NoPayload \notin Payloads

VARIABLES
    depth,
    storage, write_index, full, empty, rdy, vld, dat,   \* the fifo's registers
    writing,        \* the call of the writing thread, NoCall if none
    reading,        \* that of the reading thread, "none" if none
    accepted,       \* history: values whose write returned, nb_write with true
    returned        \* history: values that a read returned, nb_read with true

registers == <<storage, write_index, full, empty, rdy, vld, dat>>
p2p_vars == <<depth, registers, writing, reading, accepted, returned>>

NoCall == [op |-> "none", value |-> NoPayload]
WriteCalls == [op : {"write", "nb_write"}, value : Payloads]
Word == Payloads \cup {NoPayload}
Cells == 0 .. depth - 1

P2pTypeOK ==
    /\ depth \in Depths
    /\ storage \in [Cells -> Word]
    /\ write_index \in 0 .. depth
    /\ {full, empty, rdy, vld} \subseteq BOOLEAN
    /\ dat \in Word
    /\ writing \in WriteCalls \cup {NoCall}
    /\ reading \in {"none", "read", "nb_read"}
    /\ accepted \in Seq(Payloads) /\ returned \in Seq(Payloads)

\* What the first reset leaves: of the fifo, and of the threads, which start with
\* reset_write and reset_read.
P2pInit ==
    /\ depth \in Depths
    /\ storage = [i \in Cells |-> NoPayload]
    /\ write_index = 0 /\ full = FALSE /\ empty = TRUE
    /\ rdy = TRUE /\ vld = FALSE /\ dat = NoPayload
    /\ writing = NoCall /\ reading = "none"
    /\ accepted = <<>> /\ returned = <<>>

-----------------------------------------------------------------------------
(***************************************************************************)
(* The signals between the threads and the fifo                            *)
(***************************************************************************)

i_vld == writing # NoCall
i_dat == writing.value
i_rdy == reading # "none"

\* back_pressure of depth 1, assign_o_rdy of depth 0.
o_rdy == CASE depth = 0 -> i_rdy
           [] depth = 1 -> ~vld \/ i_rdy
           [] OTHER -> rdy
o_vld == IF depth = 0 THEN i_vld ELSE vld
o_dat == IF depth = 0 THEN i_dat ELSE dat

\* The three switches on rw_condition agree on what an edge does.
push == i_vld /\ ~full
pop == i_rdy /\ ~empty

\* Mutant: a read does not end being full.
FullNextSticky == full \/ (push /\ ~pop /\ write_index = depth - 1)

FullNext == IF push /\ ~pop THEN full \/ write_index = depth - 1
            ELSE full /\ ~pop

\* Mutant: the fifo is empty one value late.
EmptyNextLate == IF pop /\ ~push THEN write_index = 0
                 ELSE empty /\ ~push

EmptyNext == IF pop /\ ~push THEN write_index = 1
             ELSE empty /\ ~push

Shifted == [i \in Cells |-> IF i = depth - 1 THEN NoPayload ELSE storage[i + 1]]

\* Mutant: together with a shift the value is stored where it would be without.
StorageNextUnshifted ==
    IF push /\ pop THEN [Shifted EXCEPT ![write_index] = i_dat, ![depth - 1] = i_dat]
    ELSE IF push THEN [storage EXCEPT ![write_index] = i_dat]
    ELSE IF pop THEN Shifted
    ELSE storage

StorageNext ==
    IF push /\ pop THEN [Shifted EXCEPT ![write_index - 1] = i_dat, ![depth - 1] = i_dat]
    ELSE IF push THEN [storage EXCEPT ![write_index] = i_dat]
    ELSE IF pop THEN Shifted
    ELSE storage

\* rtl of a depth of two or more.
ShiftRegister ==
    /\ depth >= 2
    /\ storage' = StorageNext
    /\ write_index' = write_index + (IF push THEN 1 ELSE 0) - (IF pop THEN 1 ELSE 0)
    /\ full' = FullNext
    /\ empty' = EmptyNext
    /\ rdy' = ~FullNext
    /\ vld' = ~EmptyNext
    /\ dat' = storage'[0]

\* rtl of depth 1.
OneRegister ==
    /\ depth = 1
    /\ dat' = IF i_vld /\ o_rdy THEN i_dat ELSE dat
    /\ vld' = IF o_rdy THEN i_vld ELSE vld
    /\ UNCHANGED <<storage, write_index, full, empty, rdy>>

Wires == depth = 0 /\ UNCHANGED registers

-----------------------------------------------------------------------------
(***************************************************************************)
(* The threads                                                             *)
(***************************************************************************)

\* write asks again until it sees rdy, nb_write asks once; then the thread is
\* idle or makes its next call.
WriterEdge(next) ==
    /\ accepted' = IF i_vld /\ o_rdy THEN Append(accepted, i_dat) ELSE accepted
    /\ writing' = IF writing.op = "write" /\ ~o_rdy THEN writing ELSE next
    /\ next # NoCall => Len(accepted') < MaxSent

ReaderEdge(next) ==
    /\ returned' = IF i_rdy /\ o_vld THEN Append(returned, o_dat) ELSE returned
    /\ reading' = IF reading = "read" /\ ~o_vld THEN reading ELSE next

Edge(nextWrite, nextRead) ==
    /\ ShiftRegister \/ OneRegister \/ Wires
    /\ WriterEdge(nextWrite)
    /\ ReaderEdge(nextRead)
    /\ UNCHANGED depth

\* A later reset, at any time; it starts the threads again.
Reset ==
    /\ storage' = [i \in Cells |-> NoPayload]
    /\ write_index' = 0 /\ full' = FALSE /\ empty' = TRUE
    /\ rdy' = TRUE /\ vld' = FALSE /\ dat' = NoPayload
    /\ writing' = NoCall /\ reading' = "none"
    /\ accepted' = <<>> /\ returned' = <<>>
    /\ UNCHANGED depth

ClockEdge ==
    \E w \in WriteCalls \cup {NoCall}, r \in {"none", "read", "nb_read"} : Edge(w, r)

\* An edge after which the reader reads.
ReadingEdge == \E w \in WriteCalls \cup {NoCall}, r \in {"read", "nb_read"} : Edge(w, r)

P2pNext == ClockEdge \/ Reset

P2pSpec == P2pInit /\ [][P2pNext]_p2p_vars

-----------------------------------------------------------------------------
(***************************************************************************)
(* Properties                                                              *)
(***************************************************************************)

held == CASE depth = 0 -> <<>>
              [] depth = 1 -> IF vld THEN <<dat>> ELSE <<>>
              [] OTHER -> [k \in 1 .. write_index |-> storage[k - 1]]

\* What the writer was told is written is, in order and once each, what reads
\* returned followed by what the fifo holds: both threads take the same edges for
\* transfers, however their calls meet.
FirstInFirstOut == accepted = returned \o held

\* "data is transmitted in any cycle where vld and rdy are active": a value is
\* refused only where there is no room and withheld only where there is none, so
\* blocks that call in every cycle move a value in every cycle.
FlagsMatchContents ==
    depth > 0 => /\ ~o_rdy => Len(held) = depth
                 /\ o_vld <=> held # <<>>
                 /\ o_vld => o_dat = held[1]

\* The flags of a shift register are what its index says, and its outputs what
\* the flags and the first cell say.
RegistersAgree ==
    depth >= 2 => /\ full <=> write_index = depth
                  /\ empty <=> write_index = 0
                  /\ (rdy <=> ~full) /\ (vld <=> ~empty)
                  /\ vld => dat = storage[0]

\* The invariant that every step keeps: with the two above, what is shown and
\* what is held are values, not the leftovers of a reset.
P2pInv == P2pTypeOK /\ RegistersAgree /\ FirstInFirstOut /\ held \in Seq(Payloads)

\* A write that blocks is let through, and so returns at the next edge, whatever else
\* is in the fifo and however the reader reads, unless a reset ends it.
WriteReturns == writing.op = "write" ~> o_rdy \/ writing = NoCall
=============================================================================
