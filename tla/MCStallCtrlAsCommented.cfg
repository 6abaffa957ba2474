\* The comments on the number and the length of the stalls, without a reset.
SPECIFICATION Spec
CONSTANTS
    LDVDpairs = 2
    Names = {"a", "b"}
    CountLevels = 16
    ShortWidth = 4
    ResetHappens = FALSE
\* The machine stops when it is done.
CHECK_DEADLOCK FALSE
INVARIANT StallsAsCommented
