------------------------------ MODULE AcChannel ------------------------------
(***************************************************************************)
(* The channel between a block and its caller: class ac_channel            *)
(* (ac_channel.h), with all its operations and both its modes.  On its own *)
(* it is a deque without a limit, and a read of an empty one stops the     *)
(* program.  bound to the reading port of an sc_fifo, its writing port, or *)
(* both, it reads and writes there, and blocks.  ac_sync (ac_sync.h) is    *)
(* the channel of one value: sync_in is read, sync_out is write, their     *)
(* non-blocking forms are nb_read and nb_write.                            *)
(*                                                                         *)
(* The sc_fifo is the one that DeltaFifo describes and ScFifo implements:  *)
(* a call that blocks is an action that is not enabled yet.  The process   *)
(* that owns the channel is the only one that uses its ports; a peer has   *)
(* the other end of the sc_fifo when only one port is bound.               *)
(***************************************************************************)
EXTENDS Integers, Sequences, SequencesExt

CONSTANTS
    InitSizes,      \* arguments init of the constructor
    Values, NoValue,
    Size,           \* the size of the sc_fifo
    MaxSize,        \* bound of the deque
    MaxCalls        \* bound of size_call_count

ASSUME AcChannelAssumption ==
    /\ InitSizes \subseteq Nat /\ {Size, MaxSize, MaxCalls} \subseteq Nat
    /\ NoValue \notin Values

VARIABLES
    bound,          \* the ports that are bound: a subset of {"in", "out"}
    ch, rSz, rVal, size_call_count,
    visible, fresh, taken,  \* the sc_fifo
    got,            \* what the owner ("owner") and the peer ("peer") read last
    resetting,      \* the writes that reset has still to do
    stopped,        \* the assertion that stopped the program, "no" if none
    promised        \* reads that the last available(k) still covers

Fifo == INSTANCE DeltaFifo WITH Readers <- {"owner", "peer"}

sc_fifo == <<visible, fresh, taken>>
control == <<bound, rSz, rVal, resetting, stopped>>
vars == <<ch, size_call_count, sc_fifo, got, control, promised>>

Assertions == {"read_from_empty_channel", "fifo_not_empty_when_reset", "no_operator_sb"}

TypeOK ==
    /\ bound \subseteq {"in", "out"}
    /\ ch \in Seq(Values)
    /\ rSz \in InitSizes
    /\ rVal \in Values
    /\ size_call_count \in 0 .. MaxCalls
    /\ visible \in Seq(Values) /\ fresh \in Seq(Values) /\ taken \in 0 .. Size
    /\ got \in [{"owner", "peer"} -> Values \cup {NoValue}]
    /\ resetting \in 0 .. rSz
    /\ stopped \in Assertions \cup {"no"}
    /\ promised \in Nat

\* The constructors write before any port is bound, so to the deque.  Without
\* val the values are uninitialised, and so is rVal.
Init ==
    /\ bound \in SUBSET {"in", "out"}
    /\ rSz \in InitSizes
    /\ rVal \in Values
    /\ ch \in [1 .. rSz -> Values]
    /\ size_call_count = 0
    /\ Fifo!Init
    /\ resetting = 0
    /\ stopped = "no"
    /\ promised = 0

-----------------------------------------------------------------------------
\* Mutant: the deque, whatever is bound.
size_of_deque == Len(ch)

size == IF "in" \in bound THEN Len(visible) ELSE Len(ch)

num_free == IF "out" \in bound THEN Size - Len(visible) - taken - Len(fresh)
                               ELSE MaxSize - Len(ch)

\* Mutant: one entry less than asked for will do.
available_off_by_one(k) == size + 1 >= k

available(k) == size >= k

Running == stopped = "no" /\ resetting = 0

Counted == size_call_count < MaxCalls /\ size_call_count' = size_call_count + 1
NotCounted == UNCHANGED size_call_count

Stop(assertion) ==
    /\ stopped' = assertion
    /\ UNCHANGED <<ch, sc_fifo, got, bound, rSz, rVal, resetting, promised>>

\* fifo::read with something to read.
Take ==
    /\ IF "in" \in bound
         THEN Fifo!Get("owner") /\ UNCHANGED ch
         ELSE /\ got' = [got EXCEPT !["owner"] = Head(ch)]
              /\ ch' = Tail(ch)
              /\ UNCHANGED sc_fifo
    /\ promised' = IF promised > 0 THEN promised - 1 ELSE 0
    /\ UNCHANGED control

\* A read of an empty channel blocks when it is bound, else it is an assertion.
read ==
    /\ Running /\ NotCounted
    /\ IF size = 0 /\ "in" \notin bound THEN Stop("read_from_empty_channel")
                                         ELSE size > 0 /\ Take

nb_read ==
    /\ Running /\ Counted
    /\ IF size # 0 THEN Take ELSE UNCHANGED <<ch, sc_fifo, got, control, promised>>

\* fifo::write; on a full sc_fifo it blocks.
Give(v) ==
    IF "out" \in bound
      THEN Fifo!Put(v) /\ UNCHANGED ch
      ELSE /\ num_free > 0
           /\ ch' = Append(ch, v)
           /\ UNCHANGED <<sc_fifo, got>>

write(v) == Running /\ NotCounted /\ Give(v) /\ UNCHANGED <<control, promised>>

nb_write(v) ==
    /\ Running /\ Counted
    /\ IF num_free > 0 THEN Give(v) ELSE UNCHANGED <<ch, sc_fifo, got>>
    /\ UNCHANGED <<control, promised>>

\* available(k) that returns true; k counts up, as for the reads that follow.
Available(k) ==
    /\ Running /\ NotCounted
    /\ k > promised /\ available(k)
    /\ promised' = k
    /\ UNCHANGED <<ch, sc_fifo, got, control>>

\* size and empty.
SizeCalled == Running /\ Counted /\ UNCHANGED <<ch, sc_fifo, got, control, promised>>

get_size_call_count ==
    /\ Running /\ size_call_count' = 0
    /\ UNCHANGED <<ch, sc_fifo, got, control, promised>>

\* operator[] and the insert of the obsolete iterators: of a deque only.
operator_sb ==
    /\ Running /\ NotCounted /\ bound # {}
    /\ Stop("no_operator_sb")

insert(pos, v) ==
    /\ Running /\ NotCounted
    /\ bound = {} /\ pos <= Len(ch) /\ Len(ch) < MaxSize
    /\ ch' = InsertAt(ch, pos + 1, v)
    /\ UNCHANGED <<sc_fifo, got, control, promised>>

\* Mutant: what is in the channel stays there.
reset_keeps ==
    /\ Running /\ NotCounted
    /\ resetting' = rSz
    /\ promised' = 0
    /\ UNCHANGED <<ch, sc_fifo, got, bound, rSz, rVal, stopped>>

\* reset up to its loop: with a writing port it demands a size of zero.
reset ==
    /\ Running /\ NotCounted
    /\ IF "out" \in bound
         THEN IF size # 0 THEN Stop("fifo_not_empty_when_reset")
              ELSE /\ resetting' = rSz
                   /\ promised' = 0
                   /\ UNCHANGED <<ch, sc_fifo, got, bound, rSz, rVal, stopped>>
         ELSE /\ ch' = <<>>
              /\ resetting' = rSz
              /\ promised' = IF "in" \in bound THEN promised ELSE 0
              /\ UNCHANGED <<sc_fifo, got, bound, rSz, rVal, stopped>>

\* Mutant: the reset value was never stored.
RewriteAny ==
    /\ stopped = "no" /\ resetting > 0
    /\ \E v \in Values : Give(v)
    /\ resetting' = resetting - 1
    /\ UNCHANGED <<bound, rSz, rVal, stopped, size_call_count, promised>>

\* Mutant: it waits for the room of all values first.
RewriteWhenRoom ==
    /\ stopped = "no" /\ resetting > 0
    /\ num_free >= resetting
    /\ Give(rVal)
    /\ resetting' = resetting - 1
    /\ UNCHANGED <<bound, rSz, rVal, stopped, size_call_count, promised>>

\* A write of the loop of reset.
Rewrite ==
    /\ stopped = "no" /\ resetting > 0
    /\ Give(rVal)
    /\ resetting' = resetting - 1
    /\ UNCHANGED <<bound, rSz, rVal, stopped, size_call_count, promised>>

Owner ==
    \/ read \/ nb_read \/ reset \/ Rewrite
    \/ \E v \in Values : write(v) \/ nb_write(v) \/ (\E pos \in 0 .. MaxSize : insert(pos, v))
    \/ \E k \in 1 .. MaxSize : Available(k)
    \/ SizeCalled \/ get_size_call_count \/ operator_sb

\* The other end of the sc_fifo.
Peer ==
    /\ stopped = "no"
    /\ \/ bound = {"in"} /\ \E v \in Values : Fifo!Put(v)
       \/ bound = {"out"} /\ Fifo!Get("peer")
    /\ UNCHANGED <<ch, size_call_count, control, promised>>

EndCycle ==
    /\ bound # {} /\ stopped = "no"
    /\ Fifo!EndCycle
    /\ UNCHANGED <<ch, size_call_count, control, promised>>

Next == Owner \/ Peer \/ EndCycle

Spec == Init /\ [][Next]_vars

\* The kernel runs the owner within reset and a peer that reads, and ends cycles.
FairSpec == Spec /\ WF_vars(Rewrite) /\ WF_vars(Peer) /\ WF_vars(EndCycle)

-----------------------------------------------------------------------------
(***************************************************************************)
(* Properties                                                              *)
(***************************************************************************)

\* What available(k) promises holds in every mode: the k reads that follow find
\* a value each, whatever is written, asked or done by others in between.
AvailableCovers == promised > 0 => size >= promised

Inside == IF bound = {} THEN ch ELSE visible \o fresh

\* What can be read after a reset ends with the reset values, all of them, and
\* on its own the channel holds nothing else.  (Where a peer reads, it may have
\* got some already; where only the reading port is bound, they are lost.)
ResetRewrites ==
    [][resetting = 1 /\ resetting' = 0 /\ bound \in {{}, {"in", "out"}} =>
          /\ \A k \in 1 .. rSz : Inside'[Len(Inside') - k + 1] = rVal
          /\ bound = {} => Len(ch') = rSz]_vars

\* In the middle of a reset, where nobody but the owner reads: what was written
\* so far is at the end, and on its own there is nothing before it.
ResetWrote ==
    LET written == rSz - resetting IN
    resetting > 0 /\ bound \in {{}, {"in", "out"}} =>
        /\ written <= Len(Inside)
        /\ \A k \in 1 .. written : Inside[Len(Inside) - k + 1] = rVal
        /\ bound = {} => Len(ch) = written

\* The invariant that every step keeps.
IInv ==
    /\ TypeOK
    /\ Len(visible) + taken + Len(fresh) <= Size
    /\ AvailableCovers
    /\ ResetWrote

\* A reset that writes more than the sc_fifo has room for ends all the same,
\* as long as its peer reads.
ResetEnds == resetting > 0 /\ bound = {"out"} ~> resetting = 0
=============================================================================
