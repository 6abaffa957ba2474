\* As signals: wires, the register, and shift registers of two and three values.
\* As a tlm_fifo: every change of the size and every poke.
SPECIFICATION ChannelSpec
CONSTANTS
    Depths = {0, 1, 2, 3}
    Payloads = {a, b}
    NoPayload = NoPayload
    MaxSent = 5
    InitSize = 1
    Values = {v1, v2}
    NoValue = NoValue
    Readers = {r1}
    Writers = {w1}
    MaxSize = 2
    MaxUsed = 3
\* A tlm_fifo of size zero is full and empty: everybody waits.
CHECK_DEADLOCK FALSE
INVARIANTS FirstInFirstOut FlagsMatchContents BufferMatchesCounts NoLostWakeup
PROPERTIES WriteReturns ImplementsResizableFifo DataWakes
