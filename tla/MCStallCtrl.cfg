\* A reset at any moment.
SPECIFICATION FairSpec
CONSTANTS
    LDVDpairs = 4
    Names = {"a", "b"}
    CountLevels = 16
    ShortWidth = 4
    ResetHappens = TRUE
\* The machine stops when it is done.
CHECK_DEADLOCK FALSE
INVARIANTS NoStallLeftHigh RoundsAreFair
PROPERTIES Ends
