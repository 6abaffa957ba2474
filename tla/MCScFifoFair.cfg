\* Two processes on each port, with fairness and the refinement.
SPECIFICATION FairSpec
CONSTANTS
    Size = 3
    Values = {v1, v2}
    NoValue = NoValue
    Readers = {r1, r2}
    Writers = {w1, w2}
INVARIANTS RingMatchesCounts NoLostWakeup
PROPERTIES WaitersWake ImplementsDeltaFifo
