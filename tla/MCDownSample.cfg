\* Channels on their own: chosen 4x4 frames, three in a row, split at places that
\* are no frame ends.  Bound: two frames through fifos much smaller than a frame.
\* The program ends when there is nothing more to supply; who waits for ever is
\* caught by AllFramesOut.
CHECK_DEADLOCK FALSE
SPECIFICATION FairSpecOver
CONSTANTS
    Columns = 4
    Lines = 4
    PixelLevels = 16
    LnLevels = 8
    PxLevels = 8
    MaxPixels = 48
    Supplies <- WideFrames
    Streams <- TwoFrames
    InSize = 2
    OutSize = 1
INVARIANTS OverInv DownSampled FramesAligned FailsOnlyOnShortFrame NothingLost
PROPERTIES ImplementsDecimator AllFramesOut
