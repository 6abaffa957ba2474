------------------------------ MODULE DeltaFifo ------------------------------
(***************************************************************************)
(* What a bounded fifo promises to the processes of a SystemC simulation:  *)
(* the abstract specification that ScFifo implements.                      *)
(*                                                                         *)
(* Time goes by in delta cycles.  A value that is put can be got from the  *)
(* next cycle on, in the order of the puts; the place of a value that is   *)
(* got is free from the next cycle on.  So what a process sees of the      *)
(* other side does not depend on which of them the kernel runs first.      *)
(***************************************************************************)
EXTENDS Naturals, Sequences

CONSTANTS Size, Values, Readers, NoValue

VARIABLES
    visible,    \* the values that can be got in this cycle
    fresh,      \* the values that were put in this cycle
    taken,      \* how many values were got in this cycle
    got         \* for each reader the value it got last

vars == <<visible, fresh, taken, got>>

Init ==
    /\ visible = <<>>
    /\ fresh = <<>>
    /\ taken = 0
    /\ got = [r \in Readers |-> NoValue]

Put(v) ==
    /\ Len(visible) + taken + Len(fresh) < Size
    /\ fresh' = Append(fresh, v)
    /\ UNCHANGED <<visible, taken, got>>

Get(r) ==
    /\ visible # <<>>
    /\ got' = [got EXCEPT ![r] = Head(visible)]
    /\ visible' = Tail(visible)
    /\ taken' = taken + 1
    /\ UNCHANGED fresh

EndCycle ==
    /\ visible' = visible \o fresh
    /\ fresh' = <<>>
    /\ taken' = 0
    /\ UNCHANGED got

Next == (\E v \in Values : Put(v)) \/ (\E r \in Readers : Get(r)) \/ EndCycle

Spec == Init /\ [][Next]_vars
=============================================================================
