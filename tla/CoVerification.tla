---------------------------- MODULE CoVerification ----------------------------
(***************************************************************************)
(* The side of the design under test in a co-verification, in front of its *)
(* comparator: memory blocks (mc_rsc_memory) that hold the parts of one    *)
(* output variable, and the transactor (mc_output_transactor over          *)
(* mc_transactor, mc_transactors.h) that gathers the parts of a            *)
(* transaction and puts the value into the dut fifo of Comparator.         *)
(*                                                                         *)
(* At every active edge each block runs once, in any order.  The design    *)
(* says with a transaction signal (triosy) of the block's own when it is   *)
(* done with a transaction there: one block may be several transactions    *)
(* ahead of another.  What a block holds is looked at only then, and is    *)
(* any part, as the design may have written anything up to that edge.      *)
(*                                                                         *)
(* The memory blocks call exchange_value(false) and need no bus transfer,  *)
(* so that _pending_triosy stays low: waiting blocks, which the library's  *)
(* headers leave to others, and the insertion of waits are left out, and   *)
(* so are the transactors of inputs.                                       *)
(*                                                                         *)
(* The dut fifo belongs to the generated module around both and is taken   *)
(* without a limit, so nb_put does not fail: the branch of                 *)
(* send_value_to_tb that reports MC_TRANSACTOR_FULL is left out.           *)
(***************************************************************************)
EXTENDS Comparator

CONSTANTS
    Blocks,     \* the blocks with a part of the variable
    Contents,   \* what a block can hold
    value_of    \* vector_to_type: the value of the parts

ASSUME BlocksAssumption ==
    /\ Blocks # {}
    /\ 0 \in Contents
    /\ value_of \in [[Blocks -> Contents] -> Values]

VARIABLES
    _trans,         \* per block: the transaction it is in, 0 before the first edge
    _trans_begin,   \* the transaction of the oldest value in _values
    _values,        \* the values that still lack a part
    due,            \* the blocks that have not run at this edge yet
    results         \* history, per block: what it held when a transaction ended

transactor == <<_trans, _trans_begin, _values, due, results>>
covars == <<vars, transactor>>

\* start_of_simulation of the transactor and of the blocks.
CoInit ==
    /\ Init
    /\ _trans = [b \in Blocks |-> 0]
    /\ _trans_begin = 1
    /\ _values = <<>>
    /\ due = {}
    /\ results = [b \in Blocks |-> <<>>]

-----------------------------------------------------------------------------
\* at_active_clock_edge of a block, up to the exchange.
Edge(b) ==
    /\ Runnable("dut") /\ ~aborted
    /\ b \in due
    /\ due' = due \ {b}

\* The first exchange of a block only numbers its transaction.
FirstExchange(b) ==
    /\ _trans[b] = 0
    /\ Edge(b)
    /\ _trans' = [_trans EXCEPT ![b] = 1]
    /\ UNCHANGED <<vars, _trans_begin, _values, results>>

\* An exchange without a transaction signal.
NoExchange(b) ==
    /\ _trans[b] > 0
    /\ Edge(b)
    /\ UNCHANGED <<vars, _trans, _trans_begin, _values, results>>

Blank == [b \in Blocks |-> 0]

\* get_value: the queue has a place for each transaction up to k.
Extended(k) ==
    [i \in 1 .. IF k - _trans_begin >= Len(_values) THEN k - _trans_begin + 1
                                                     ELSE Len(_values) |->
        IF i <= Len(_values) THEN _values[i] ELSE Blank]

\* receive_value_from_objblock: block b's part of transaction k is d.
Received(b, k, d) ==
    [Extended(k) EXCEPT ![k - _trans_begin + 1] = [@ EXCEPT ![b] = d]]

\* Mutant: a value is sent as soon as one block has given its part.
OldestAlone(b) == _trans[b] = _trans_begin

\* The part that b gives is the last one that the oldest value lacks.
OldestCompletedBy(b) ==
    /\ _trans[b] = _trans_begin
    /\ \A c \in Blocks \ {b} : _trans[c] # _trans_begin

\* exchange_value when the block's transaction is over: the transactor takes
\* the part and, with the last one, puts the value into the fifo.
Exchange(b) ==
    /\ _trans[b] \in 1 .. MaxSent
    /\ \E d \in Contents :
        LET all == Received(b, _trans[b], d)
        IN  /\ Edge(b)
            /\ _trans' = [_trans EXCEPT ![b] = @ + 1]
            /\ results' = [results EXCEPT ![b] = Append(@, d)]
            /\ \/ /\ OldestCompletedBy(b)
                  /\ dut' = Append(dut, value_of[Head(all)])
                  /\ _values' = Tail(all)
                  /\ _trans_begin' = _trans_begin + 1
                  /\ Request({"dut"})
                  /\ UNCHANGED <<_error_max, golden, visible, comparison, announced>>
               \/ /\ ~OldestCompletedBy(b)
                  /\ _values' = all
                  /\ UNCHANGED <<vars, _trans_begin>>

\* All blocks have run: the design waits for the next edge.
EdgeDone == due = {} /\ Pause("dut") /\ UNCHANGED transactor

CoTick ==
    /\ Tick
    /\ due' = IF waits'["dut"] = {} THEN Blocks ELSE due
    /\ UNCHANGED <<_trans, _trans_begin, _values, results>>

\* What the others do.
Environment ==
    /\ \/ Compare
       \/ Send("golden") \/ Pause("golden")
       \/ \E s \in Sides : Update(s)
       \/ Cycle
       \/ Ended
    /\ UNCHANGED transactor

CoNext ==
    \/ \E b \in Blocks : FirstExchange(b) \/ NoExchange(b) \/ Exchange(b)
    \/ EdgeDone
    \/ CoTick
    \/ Environment

CoSpec == CoInit /\ [][CoNext]_covars

-----------------------------------------------------------------------------
\* A value in the dut fifo consists of the parts that each block held at the end
\* of the transaction of its rank, however far the blocks were apart; and none is
\* kept back when all its parts have come.
DumpsWholeTransactions ==
    /\ \A k \in DOMAIN dut :
        /\ \A b \in Blocks : k \in DOMAIN results[b]
        /\ dut[k] = value_of[[b \in Blocks |-> results[b][k]]]
    /\ \E b \in Blocks : Len(results[b]) = Len(dut)

\* The assertion of get_value: the transaction that a block is in is not gone.
NotGone == \A b \in Blocks : IF _trans[b] = 0 THEN _trans_begin = 1
                                               ELSE _trans[b] >= _trans_begin

\* The numbers of the transactor are those of the parts given and values sent,
\* and the oldest value lacks the part of a block.
Numbered ==
    /\ results \in [Blocks -> Seq(Contents)]
    /\ dut \in Seq(Values)
    /\ _trans_begin = Len(dut) + 1
    /\ _trans \in [Blocks -> Nat]
    /\ \A b \in Blocks : Len(results[b]) = IF _trans[b] = 0 THEN 0 ELSE _trans[b] - 1
    /\ \A b \in Blocks : Len(results[b]) >= Len(dut)
    /\ \E b \in Blocks : Len(results[b]) = Len(dut)

\* The queue has a place for each part given, with that part.
Gathered ==
    /\ _values \in Seq([Blocks -> Contents])
    /\ \A b \in Blocks :
        /\ Len(results[b]) <= Len(dut) + Len(_values)
        /\ \A i \in 1 .. Len(_values) : Len(dut) + i <= Len(results[b]) =>
               _values[i][b] = results[b][Len(dut) + i]

\* All blocks have had their first exchange before one ends a transaction.
InStep ==
    /\ ~Runnable("dut") => due = {}
    /\ \/ \A b \in Blocks : _trans[b] # 0
       \/ due = {} /\ \A b \in Blocks : _trans[b] = 0
       \/ \A b \in Blocks : _trans[b] = IF b \in due THEN 0 ELSE 1

\* What every step of the transactor keeps, besides the comparator's IInv.
Gathering == Numbered /\ Gathered /\ InStep /\ DumpsWholeTransactions
=============================================================================
