------------------------------ MODULE Comparator ------------------------------
(***************************************************************************)
(* The comparison of an output of the design under test with its golden    *)
(* values: class mc_comparator (mc_comparator.h), between the two fifos it *)
(* gets from.  The test bench captures golden values, the design produces  *)
(* its own, in any order of time.                                          *)
(*                                                                         *)
(* Values are numbers, a mask keeps their lowest bit.  Each side has a     *)
(* history of all it put; a fifo has a limit on neither side, and what     *)
(* can be got from it is given by the number of values visible.  Data that *)
(* is not scalar, and its partial comparison, are left out, and the        *)
(* channel factor is 1.                                                    *)
(***************************************************************************)
EXTENDS Integers, Sequences, FiniteSets, DeltaKernel

CONSTANTS
    Values,
    ErrorMaxes,     \* arguments max_error_cnt of the constructor
    MaxSent         \* bound of the values on each side

ASSUME ComparatorAssumption ==
    Values \subseteq Nat /\ ErrorMaxes \subseteq Int /\ MaxSent \in Nat

Sides == {"golden", "dut"}

VARIABLES
    _error_max,     \* the limit of errors, none if not positive
    golden, dut,    \* all values put into the two fifos
    visible,        \* per side: how many of them an earlier cycle put
    received,       \* per side: how many of them the comparator got
    compare_cnt, mask_compare_cnt, ignore_cnt, error_cnt,
    last_result,
    sig,            \* per side: the rank of the value that its signal shows
    aborted,        \* the limit of errors was reached and reported
    announced       \* history: compare_cnt when _compare was last delivered

fifos == <<golden, dut, visible>>
comparison == <<received, compare_cnt, mask_compare_cnt, ignore_cnt, error_cnt,
                last_result, sig, aborted>>
vars == <<_error_max, fifos, comparison, announced, kernel>>

Golden == [data : Values, use_mask : BOOLEAN, ignore : BOOLEAN]
ok_to_get == [s \in Sides |-> IF s = "golden" THEN "golden_written" ELSE "dut_written"]
Processes_ == {"compare", "golden", "dut"}
Events == {"golden_written", "dut_written", "_compare", "_ignore", "_success", "_error"}

TypeOK ==
    /\ _error_max \in ErrorMaxes
    /\ KernelTypeOK(Processes_, Sides, Events)
    /\ golden \in Seq(Golden) /\ dut \in Seq(Values)
    /\ {visible, received} \subseteq [Sides -> 0 .. MaxSent]
    /\ sig \in [Sides -> 0 .. MaxSent]
    /\ {compare_cnt, mask_compare_cnt, ignore_cnt, error_cnt, announced}
           \subseteq 0 .. MaxSent
    /\ {last_result, aborted} \subseteq BOOLEAN

\* start_of_simulation; _last_result has no initial value.
Init ==
    /\ _error_max \in ErrorMaxes
    /\ golden = <<>> /\ dut = <<>>
    /\ visible = [s \in Sides |-> 0]
    /\ received = [s \in Sides |-> 0]
    /\ compare_cnt = 0 /\ mask_compare_cnt = 0 /\ ignore_cnt = 0 /\ error_cnt = 0
    /\ last_result \in BOOLEAN
    /\ sig = [s \in Sides |-> 0]
    /\ aborted = FALSE
    /\ announced = 0
    /\ KernelInit(Processes_)

Sent(s) == IF s = "golden" THEN Len(golden) ELSE Len(dut)

-----------------------------------------------------------------------------
\* The outcome of the comparison of the k-th values.
Equal(k) ==
    IF golden[k].use_mask THEN golden[k].data % 2 = dut[k] % 2
                               ELSE golden[k].data = dut[k]

Outcome(k) == IF golden[k].ignore THEN "_ignore"
              ELSE IF Equal(k) THEN "_success" ELSE "_error"

CountIn(K, outcome) == Cardinality({k \in K : Outcome(k) = outcome})

Min2(a, b) == IF a < b THEN a ELSE b

(***************************************************************************)
(* compare: gets and compares pairs until a side has nothing more to get,  *)
(* or the error that is one too many ends the simulation.  Each iteration  *)
(* gets from a side unless it holds a value of it already; the dut value   *)
(* that is got writes the signals, with what _golden holds.                *)
(***************************************************************************)

\* Mutant: errors have no limit.
PairsUnlimited == compare_cnt + 1 .. Min2(visible["golden"], visible["dut"])

\* The pairs that this activation compares.
Pairs ==
    LET all == compare_cnt + 1 .. Min2(visible["golden"], visible["dut"])
        errors(k) == error_cnt + CountIn({j \in all : j <= k}, "_error")
    IN  {k \in all : \A j \in all : j < k => _error_max <= 0 \/ errors(j) < _error_max}

\* Mutant: it waits for the side that it holds a value of.
LackingSwapped(got) ==
    IF got["dut"] > got["golden"] THEN {ok_to_get["dut"]}
    ELSE IF got["golden"] > got["dut"] THEN {ok_to_get["golden"]}
    ELSE {ok_to_get["golden"], ok_to_get["dut"]}

\* Who it waits for next.
Lacking(got) ==
    IF got["dut"] > got["golden"] THEN {ok_to_get["golden"]}
    ELSE IF got["golden"] > got["dut"] THEN {ok_to_get["dut"]}
    ELSE {ok_to_get["golden"], ok_to_get["dut"]}

NotifiedBy(K) == IF K = {} THEN {} ELSE {"_compare"} \cup {Outcome(k) : k \in K}

\* What it has got when it returns: one value more than compared if there is one.
Got(n, stop) ==
    [s \in Sides |-> IF stop THEN n ELSE Min2(n + 1, visible[s])]

\* Mutant: the signals are written before the golden value is got.
HeldBefore(d) == compare_cnt

\* The rank that _golden holds when the dut value of rank d is got: its own if
\* it has come, else the one compared before.
HeldWith(d) == Min2(d, visible["golden"])

Compare ==
    LET K == Pairs
        n == compare_cnt + Cardinality(K)
        errors == error_cnt + CountIn(K, "_error")
        stop == _error_max > 0 /\ errors = _error_max /\ K # {}
    IN  /\ Runnable("compare") /\ ~aborted
        /\ compare_cnt' = n
        /\ mask_compare_cnt' = mask_compare_cnt
               + Cardinality({k \in K : golden[k].use_mask})
        /\ ignore_cnt' = ignore_cnt + CountIn(K, "_ignore")
        /\ error_cnt' = errors
        /\ last_result' = IF K = {} THEN last_result ELSE Equal(n)
        /\ received' = Got(n, stop)
        /\ sig' = IF received'["dut"] > received["dut"]
                    THEN [s \in Sides |-> IF s = "golden" THEN HeldWith(received'["dut"])
                                                          ELSE received'["dut"]]
                    ELSE sig
        /\ aborted' = stop
        /\ notified' = notified \cup NotifiedBy(K)
        /\ waits' = [waits EXCEPT !["compare"] = Lacking(received')]
        /\ UNCHANGED <<_error_max, fifos, requested, announced>>

\* A side puts a value into its fifo, or waits for its clock.
Send(s) ==
    /\ Runnable(s) /\ ~aborted
    /\ Sent(s) < MaxSent
    /\ \/ s = "golden" /\ (\E g \in Golden : golden' = Append(golden, g)) /\ UNCHANGED dut
       \/ s = "dut" /\ (\E v \in Values : dut' = Append(dut, v)) /\ UNCHANGED golden
    /\ Request({s})
    /\ UNCHANGED <<_error_max, visible, comparison, announced>>

Pause(s) ==
    /\ Runnable(s) /\ ~aborted
    /\ WaitFor(s, Clock)
    /\ UNCHANGED <<_error_max, fifos, comparison, announced>>

\* The update of a fifo; only puts are told.
Update(s) ==
    /\ UpdateOf(s, IF Sent(s) > visible[s] THEN {ok_to_get[s]} ELSE {})
    /\ visible' = [visible EXCEPT ![s] = Sent(s)]
    /\ UNCHANGED <<_error_max, golden, dut, comparison, announced>>

Cycle ==
    /\ ~aborted
    /\ Deliver
    /\ announced' = IF "_compare" \in notified THEN compare_cnt ELSE announced
    /\ UNCHANGED <<_error_max, fifos, comparison>>

Tick == ~aborted /\ AdvanceTime /\ UNCHANGED <<_error_max, fifos, comparison, announced>>

\* SC_REPORT_ERROR at the limit ends the simulation.
Ended == aborted /\ UNCHANGED vars

Next ==
    \/ Compare
    \/ \E s \in Sides : Send(s) \/ Pause(s) \/ Update(s)
    \/ Cycle
    \/ Tick
    \/ Ended

Spec == Init /\ [][Next]_vars

-----------------------------------------------------------------------------
(***************************************************************************)
(* check_results, at the end of a simulation: it fails when there were     *)
(* errors, fewer comparisons than captured values, or nothing captured     *)
(* and nothing that excuses it (skip_noerr).                               *)
(***************************************************************************)

\* Mutant: values that were never compared are no failure.
FailedOnErrors(capture_count, skip_noerr) ==
    \/ capture_count = 0 /\ ~skip_noerr
    \/ error_cnt > 0

Failed(capture_count, skip_noerr) ==
    \/ capture_count = 0 /\ ~skip_noerr
    \/ error_cnt > 0
    \/ compare_cnt < capture_count

\* A check that passes means that every captured value met the dut value of its
\* rank and was equal to it as far as its mask goes, or was to be ignored: no
\* lateness of a side shifts the pairs.  A dut that produced more passes too.
PassMeansEqual ==
    \A skip_noerr \in BOOLEAN : ~Failed(Len(golden), skip_noerr) =>
        \A k \in DOMAIN golden :
            k \in DOMAIN dut /\ (Equal(k) \/ golden[k].ignore)

\* When the cycle has ended all pairs that have come are compared and announced:
\* the comparator never waits for the side that is ahead.
ComparesAllPairs ==
    Quiet /\ ~aborted =>
        /\ compare_cnt = Min2(Len(golden), Len(dut))
        /\ announced = compare_cnt

\* The counts are those of the pairs compared, and errors stay below the limit
\* until the last one ends the simulation.
CountsAddUp ==
    /\ error_cnt = CountIn(1 .. compare_cnt, "_error")
    /\ ignore_cnt = CountIn(1 .. compare_cnt, "_ignore")
    /\ mask_compare_cnt = Cardinality({k \in 1 .. compare_cnt : golden[k].use_mask})
    /\ _error_max > 0 => error_cnt <= _error_max /\ (aborted <=> error_cnt = _error_max)

\* The two signals show values of one rank, or, when the dut value came first,
\* the golden value compared before.
SignalsOneApart == sig["golden"] \in {sig["dut"], sig["dut"] - 1}

\* Between the fifos: each side has given the values compared and at most one
\* more, not both have, and an update is due for what was put.
GotInStep ==
    /\ \A s \in Sides :
        /\ received[s] \in {compare_cnt, compare_cnt + 1}
        /\ received[s] <= visible[s] /\ visible[s] <= Sent(s) /\ Sent(s) <= MaxSent
        /\ s \notin requested => visible[s] = Sent(s)
    /\ \E s \in Sides : received[s] = compare_cnt

\* The comparator waits for the sides it holds nothing of, and what comes there
\* is told to it.
WaitsForLacking ==
    ~aborted /\ ~Runnable("compare") =>
        /\ waits["compare"] = Lacking(received)
        /\ \A s \in Sides : received[s] = compare_cnt /\ visible[s] > compare_cnt
               => ok_to_get[s] \in notified

\* The invariant that every step keeps.
IInv ==
    /\ TypeOK
    /\ GotInStep
    /\ WaitsForLacking
    /\ announced = compare_cnt \/ "_compare" \in notified
    /\ CountsAddUp
    /\ SignalsOneApart
=============================================================================
