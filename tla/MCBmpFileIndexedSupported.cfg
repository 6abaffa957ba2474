SPECIFICATION FileSpec
CONSTANTS
    Files <- AllFiles
    Storage <- MCStorage
INVARIANT IndexedSupported
CHECK_DEADLOCK FALSE
