\* Every choice of ports, none, some and more reset values than places.
SPECIFICATION FairSpec
CONSTANTS
    InitSizes = {0, 2, 3}
    Values = {v1, v2}
    NoValue = NoValue
    Size = 2
    MaxSize = 4
    MaxCalls = 2
\* An assertion stops the program; a bound read or write may wait for ever.
CHECK_DEADLOCK FALSE
INVARIANTS AvailableCovers
PROPERTIES ResetRewrites ResetEnds
