\* The documented index of nb_peek and nb_poke.
SPECIFICATION Spec
CONSTANTS
    InitSize = 1
    Values = {v1, v2}
    NoValue = NoValue
    Readers = {r1}
    Writers = {w1}
    MaxSize = 2
    MaxUsed = 3
\* A fifo of size zero is full and empty: everybody waits.
CHECK_DEADLOCK FALSE
PROPERTY IndexFromNewest
