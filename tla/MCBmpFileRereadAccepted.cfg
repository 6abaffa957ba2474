SPECIFICATION FileSpec
CONSTANTS
    Files <- AllFiles
    Storage <- MCStorage
INVARIANT RereadAccepted
CHECK_DEADLOCK FALSE
