------------------------------- MODULE StallCtrl -------------------------------
(***************************************************************************)
(* The controller that stalls the handshakes of a design under test, so    *)
(* that each is seen to survive it: class mc_stall_ctrl2                   *)
(* (mc_stall_ctrl.h).  It watches pairs of signals ld and vd, each of      *)
(* which belongs to a block with a stall input, and stalls every pair once *)
(* in a round, at a moment when both its signals are high.                 *)
(*                                                                         *)
(* All ports are bound, which the simulator demands before it starts, so   *)
(* the guard at the top of generate passes.                                *)
(***************************************************************************)
EXTENDS Integers, FiniteSets

CONSTANTS
    LDVDpairs,      \* how many pairs there are
    Names,          \* the names of the blocks
    CountLevels,    \* how many values a counter has (2^32 in the code)
    ShortWidth,     \* bits of the unsigned short that counts pairs (16 in the code)
    ResetHappens    \* whether rst is ever high

ASSUME StallCtrlAssumption ==
    /\ LDVDpairs \in Nat \ {0}
    /\ CountLevels \in Nat /\ CountLevels > 10 /\ ShortWidth \in Nat \ {0}
    /\ ResetHappens \in BOOLEAN

Pairs == 0 .. LDVDpairs - 1
interval == 1
hold == 3

States == {"RESET", "INIT", "WAIT", "SEEK", "STALL2", "STALL3", "DONE"}

VARIABLES
    names,          \* per pair the name of its block, as bound
    stall_out,      \* the blocks whose stall is high
    reset_done, stalled, ldvd_pos, cstate, intervalcnt, holdcnt, repetition, done,
    stall_coverage,
    times,          \* per pair: how often it was stalled since the reset
    high            \* how many clock cycles the stall has been high

counters == <<intervalcnt, holdcnt, repetition>>
vars == <<names, stall_out, reset_done, stalled, ldvd_pos, cstate, counters, done,
          stall_coverage, times, high>>

\* bind_ld_vd_stall: names get numbers in the order in which they come.
map_ldvd2stall ==
    [k \in Pairs |->
        LET first == CHOOSE j \in Pairs : names[j] = names[k]
                         /\ \A i \in 0 .. j - 1 : names[i] # names[k]
        IN  Cardinality({names[i] : i \in 0 .. first - 1})]

Decremented(n) == (n - 1) % CountLevels

TypeOK ==
    /\ names \in [Pairs -> Names]
    /\ stall_out \subseteq {map_ldvd2stall[k] : k \in Pairs}
    /\ reset_done \in BOOLEAN
    /\ stalled \subseteq Pairs
    /\ ldvd_pos \in 0 .. LDVDpairs
    /\ cstate \in States
    /\ {intervalcnt, holdcnt, repetition} \subseteq 0 .. CountLevels - 1
    /\ done \in BOOLEAN
    /\ stall_coverage \in 0 .. 100
    /\ times \in [Pairs -> Nat]
    /\ high \in 0 .. hold + 1

\* The constructor; intervalcnt and the coverage signal have no value yet.
Init ==
    /\ names \in [Pairs -> Names]
    /\ stall_out = {}
    /\ reset_done = FALSE
    /\ stalled = {} /\ ldvd_pos = 0 /\ cstate = "RESET"
    /\ intervalcnt \in {0, 1} /\ holdcnt = 0 /\ repetition = 10
    /\ done = FALSE
    /\ stall_coverage = 0
    /\ times = [k \in Pairs |-> 0]
    /\ high = 0

\* Mutant: the reset leaves the stalls as they are.
ResetKeepsStall ==
    /\ ResetHappens
    /\ ~reset_done
    /\ stalled' = {} /\ ldvd_pos' = 0
    /\ intervalcnt' = 0 /\ holdcnt' = 0 /\ repetition' = 5
    /\ reset_done' = TRUE
    /\ done' = FALSE
    /\ stall_coverage' = 0
    /\ times' = [k \in Pairs |-> 0]
    /\ high' = 0
    /\ UNCHANGED <<names, cstate, stall_out>>

\* An edge of the clock with rst high: only the first one resets, and it leaves
\* the state of the machine.
Reset ==
    /\ ResetHappens
    /\ ~reset_done
    /\ stall_out' = {}
    /\ stalled' = {} /\ ldvd_pos' = 0
    /\ intervalcnt' = 0 /\ holdcnt' = 0 /\ repetition' = 5
    /\ reset_done' = TRUE
    /\ done' = FALSE
    /\ stall_coverage' = 0
    /\ times' = [k \in Pairs |-> 0]
    /\ high' = 0
    /\ UNCHANGED <<names, cstate>>

(***************************************************************************)
(* The rising edges, by the state of the machine                           *)
(***************************************************************************)
At(from, to) == cstate = from /\ cstate' = to

\* Mutant: a round begins with the pairs of the last one.
BeginKeepsRound ==
    /\ At("RESET", "INIT")
    /\ ldvd_pos' = 0 /\ stall_out' = {}
    /\ UNCHANGED <<stalled, counters, times, high>>

Begin ==
    /\ At("RESET", "INIT")
    /\ ldvd_pos' = 0 /\ stalled' = {} /\ stall_out' = {}
    /\ UNCHANGED <<counters, times, high>>

\* INIT while stalls are enabled; while they are not it sets the same again.
Arm ==
    /\ At("INIT", "WAIT")
    /\ intervalcnt' = interval /\ holdcnt' = hold
    /\ UNCHANGED <<stall_out, stalled, ldvd_pos, repetition, times, high>>

Wait ==
    /\ cstate = "WAIT"
    /\ intervalcnt' = Decremented(intervalcnt)
    /\ cstate' = IF intervalcnt' = 0 THEN "SEEK" ELSE "WAIT"
    /\ UNCHANGED <<stall_out, stalled, ldvd_pos, holdcnt, repetition, times, high>>

\* The first of these pairs is stalled.
Stall(viable) ==
    \E k \in viable :
        /\ \A j \in viable : k <= j
        /\ ldvd_pos' = k
        /\ stalled' = stalled \cup {k}
        /\ stall_out' = stall_out \cup {map_ldvd2stall[k]}
        /\ holdcnt' = hold
        /\ cstate' = "STALL2"
        /\ times' = [times EXCEPT ![k] = @ + 1]
        /\ high' = 0

\* Mutant: the bits of the round are set and never looked at.
SeekAny(both_high) ==
    /\ cstate = "SEEK"
    /\ Stall(both_high)
    /\ UNCHANGED <<intervalcnt, repetition>>

\* The first pair that was not stalled in this round and has both signals high.
Seek(both_high) ==
    LET viable == both_high \ stalled IN
    /\ cstate = "SEEK"
    /\ \/ Stall(viable)
       \/ /\ viable = {}
          /\ ldvd_pos' = LDVDpairs
          /\ UNCHANGED <<cstate, stalled, stall_out, holdcnt, times, high>>
    /\ UNCHANGED <<intervalcnt, repetition>>

Hold ==
    /\ cstate = "STALL2"
    /\ holdcnt' = Decremented(holdcnt)
    /\ cstate' = IF holdcnt' = 0 THEN "STALL3" ELSE "STALL2"
    /\ high' = IF stall_out = {} THEN high ELSE high + 1
    /\ UNCHANGED <<stall_out, stalled, ldvd_pos, intervalcnt, repetition, times>>

\* The pairs whose bits are left in the unsigned short.
count == Cardinality({k \in stalled : k < ShortWidth})

Release ==
    /\ cstate = "STALL3"
    /\ stall_out' = stall_out \ {map_ldvd2stall[ldvd_pos]}
    /\ repetition' = IF count = LDVDpairs THEN Decremented(repetition) ELSE repetition
    /\ cstate' = IF count # LDVDpairs THEN "INIT"
                 ELSE IF repetition' = 0 THEN "DONE" ELSE "RESET"
    /\ high' = IF stall_out = {} THEN high ELSE high + 1
    /\ UNCHANGED <<stalled, ldvd_pos, intervalcnt, holdcnt, times>>

\* Only STALL3 touches the coverage, and only in the first round.
Coverage ==
    /\ stall_coverage' = IF cstate = "STALL3" /\ ~done
                           THEN (100 * count) \div LDVDpairs ELSE stall_coverage
    /\ done' = (done \/ (cstate = "STALL3" /\ count = LDVDpairs))

RisingEdge(both_high) ==
    /\ Begin \/ Arm \/ Wait \/ Seek(both_high) \/ Hold \/ Release
    /\ Coverage
    /\ UNCHANGED <<names, reset_done>>

Next == Reset \/ \E both_high \in SUBSET Pairs : RisingEdge(both_high)

Spec == Init /\ [][Next]_vars

\* The clock runs, stalls are enabled, and the design does not starve a pair:
\* again and again all pairs have their signals high when the controller seeks.
FairSpec ==
    /\ Spec
    /\ WF_vars(\E both_high \in SUBSET Pairs : RisingEdge(both_high))
    /\ SF_vars(RisingEdge(Pairs) /\ cstate = "SEEK")

-----------------------------------------------------------------------------
(***************************************************************************)
(* Properties                                                              *)
(***************************************************************************)

\* The block that is stalled is the one of the pair that was chosen, and only
\* while the machine holds it: no stall is ever left high, whenever a reset comes.
NoStallLeftHigh ==
    stall_out # {} => /\ cstate \in {"STALL2", "STALL3"}
                      /\ stall_out = {map_ldvd2stall[ldvd_pos]}

\* The coverage is 100 only when every pair was stalled.
CoverageIsTrue == stall_coverage = 100 => \A k \in Pairs : times[k] > 0

\* Rounds are fair: no pair is stalled a second time before all others were
\* stalled as often, the bits of the round tell which were, and the coverage is 100 only
\* when every pair was.
RoundsAreFair ==
    /\ \A j, k \in Pairs : times[j] - times[k] <= 1
    /\ cstate \notin {"RESET", "DONE"} =>
           \A j, k \in Pairs : j \in stalled /\ k \notin stalled => times[j] = times[k] + 1
    /\ CoverageIsTrue

\* The machine ends, whenever the reset came, even if a counter wrapped.
Ends == <>[](cstate = "DONE")

(***************************************************************************)
(* What the source's comments say, and what the code does instead.         *)
(***************************************************************************)

\* "repeat each stall five times" (mc_stall_ctrl.h:45), "number of cycles to assert
\* stall" (:23), "hold stal for 'hold' clock cycles" (:125): a machine that is done
\* has stalled every pair five times, and the stall that it released last was high
\* for hold cycles.  Violated, the one and the other: the initialiser on line 45 is
\* ten, and only a reset makes it five; the countdown takes hold cycles, and the
\* release has a state of its own after it.
StallsAsCommented ==
    cstate = "DONE" =>
        /\ \A k \in Pairs : times[k] = 5
        /\ high = hold

\* The code repeats ten times if no reset comes, five times since a reset, in the
\* middle of whatever it came, and not at all if it came when the machine was done.
RepeatsAsReset ==
    cstate = "DONE" =>
        \E n \in {0, 5, 10} :
            /\ n = 10 <=> ~reset_done
            /\ \A k \in Pairs : times[k] = n

\* A stall that has ended was cut short by a reset (0), or the code held it for one
\* cycle more than hold, never for another number of cycles.
HeldOneMore == stall_out = {} => high \in {0, hold + 1}

\* How often the pair was stalled in the round that goes on.
InRound(k) == IF k \in stalled /\ cstate \notin {"RESET", "DONE"} THEN 1 ELSE 0

\* How many rounds the machine makes.
Rounds == IF reset_done THEN 5 ELSE 10

\* In every round each pair is stalled once: rounds, repetitions and the bits of
\* the round agree, and a machine that is done has none to make, but for a reset
\* that came when it was.
RoundsCounted ==
    /\ \A k \in Pairs : times[k] + repetition = Rounds + InRound(k)
    /\ repetition <= Rounds
    /\ cstate = "DONE" => repetition = 0 \/ (reset_done /\ repetition = 5)
    /\ cstate # "DONE" => repetition > 0

\* A stall is high while the countdown goes on.
HoldCounted ==
    /\ cstate = "STALL2" /\ stall_out # {} => holdcnt + high = hold /\ holdcnt > 0
    /\ cstate = "STALL3" /\ stall_out # {} => high = hold

\* The invariant that every step keeps.
IInv ==
    /\ TypeOK
    /\ cstate \in {"STALL2", "STALL3"} => ldvd_pos \in Pairs
    /\ NoStallLeftHigh
    /\ RoundsCounted
    /\ HoldCounted /\ HeldOneMore
    /\ CoverageIsTrue
=============================================================================
