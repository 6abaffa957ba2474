------------------------------ MODULE DeltaKernel ------------------------------
(***************************************************************************)
(* The scheduler that the fifos and channels of a SystemC simulation rely  *)
(* on.  It runs one process at a time, until the process waits: what a     *)
(* process does between two waits is one action of the modules that extend *)
(* this one.  When every process waits, the channels that asked for it are *)
(* updated; then the notified events wake their processes and a new delta  *)
(* cycle begins; when there are none, time goes on.                        *)
(*                                                                         *)
(* The repository has only the headers of the kernel: it is modelled as    *)
(* the channels use it.  A process may wait for several events, of which   *)
(* the first wakes it.                                                     *)
(***************************************************************************)
VARIABLES
    waits,          \* per process: the events it waits for, {} when it can run
    requested,      \* the channels that have requested an update
    notified        \* the events to be delivered

kernel == <<waits, requested, notified>>

Clock == {"clock"}

Processes == DOMAIN waits

KernelTypeOK(processes, channels, events) ==
    /\ waits \in [processes -> (SUBSET events) \cup {Clock}]
    /\ requested \subseteq channels
    /\ notified \subseteq events

KernelInit(processes) ==
    /\ waits = [p \in processes |-> {}]
    /\ requested = {}
    /\ notified = {}

Runnable(p) == waits[p] = {}

AllWait == \A p \in Processes : ~Runnable(p)

\* What a step of a running process does to the kernel: the process goes on,
\* or waits for events, and a channel may ask for its update.
Request(channels) ==
    /\ requested' = requested \cup channels
    /\ UNCHANGED <<waits, notified>>

WaitFor(p, events) ==
    /\ waits' = [waits EXCEPT ![p] = events]
    /\ UNCHANGED <<requested, notified>>

\* The update of a channel, with the notifications it makes.
UpdateOf(channel, events) ==
    /\ AllWait
    /\ channel \in requested
    /\ requested' = requested \ {channel}
    /\ notified' = notified \cup events
    /\ UNCHANGED waits

Wake(P) == waits' = [p \in Processes |-> IF p \in P THEN {} ELSE waits[p]]

\* All processes that wait for a notified event run in the next delta cycle.
Deliver ==
    /\ AllWait
    /\ requested = {}
    /\ notified # {}
    /\ Wake({p \in Processes : waits[p] \cap notified # {}})
    /\ notified' = {}
    /\ UNCHANGED requested

Quiet == AllWait /\ requested = {} /\ notified = {}

\* Nothing is left to do at this time: a clock ticks for some processes.
AdvanceTime ==
    /\ Quiet
    /\ \E P \in SUBSET {p \in Processes : waits[p] = Clock} : P # {} /\ Wake(P)
    /\ UNCHANGED <<requested, notified>>
=============================================================================
