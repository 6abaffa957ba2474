----------------------------- MODULE ResizableFifo -----------------------------
(***************************************************************************)
(* What tlm_fifo promises: a fifo in a delta-cycle simulation, whose size  *)
(* can change at any time.  What a cycle puts can be got in the next one,  *)
(* what it gets makes room in the next one.  A size below zero is no limit. *)
(***************************************************************************)
EXTENDS Integers, Sequences

CONSTANTS Values, NoValue, Readers

VARIABLES
    visible,    \* the values that can be got in this cycle
    fresh,      \* the values put in this cycle
    taken,      \* how many values this cycle got
    size,       \* the size, as it is now
    got         \* per reader: the value it got or peeked last

vars == <<visible, fresh, taken, size, got>>

Init ==
    /\ visible = <<>>
    /\ fresh = <<>>
    /\ taken = 0
    /\ size \in Int
    /\ got = [r \in Readers |-> NoValue]

Put(v) ==
    /\ size < 0 \/ Len(visible) + taken + Len(fresh) < size
    /\ fresh' = Append(fresh, v)
    /\ UNCHANGED <<visible, taken, size, got>>

Get(r) ==
    /\ visible # <<>>
    /\ got' = [got EXCEPT ![r] = Head(visible)]
    /\ visible' = Tail(visible)
    /\ taken' = taken + 1
    /\ UNCHANGED <<fresh, size>>

\* A peek of an empty fifo by the index -1 shows anything.
Peek(r) ==
    /\ \/ \E k \in DOMAIN visible : got' = [got EXCEPT ![r] = visible[k]]
       \/ visible = <<>> /\ \E v \in Values \cup {NoValue} : got' = [got EXCEPT ![r] = v]
    /\ UNCHANGED <<visible, fresh, taken, size>>

\* A poke changes at most one value.
Poke ==
    /\ \E k \in DOMAIN visible, v \in Values : visible' = [visible EXCEPT ![k] = v]
    /\ UNCHANGED <<fresh, taken, size, got>>

Resize ==
    /\ size' \in Int
    /\ UNCHANGED <<visible, fresh, taken, got>>

EndCycle ==
    /\ visible' = visible \o fresh
    /\ fresh' = <<>>
    /\ taken' = 0
    /\ UNCHANGED <<size, got>>

Next ==
    \/ \E v \in Values : Put(v)
    \/ \E r \in Readers : Get(r) \/ Peek(r)
    \/ Poke
    \/ Resize
    \/ EndCycle

Spec == Init /\ [][Next]_vars
=============================================================================
