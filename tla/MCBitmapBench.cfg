\* Both benches, from every initial value of ln_out.  Bitmaps of every supported
\* bit count, of widths with and without padding, whole and truncated.
SPECIFICATION BitmapSpec
CONSTANTS
    Columns = 4
    Lines = 6
    PixelLevels = 256
    LnLevels = 8
    PxLevels = 16
    Sources <- BenchSources
    Benches = {"OpenCV", "Catapult"}
    Files <- BenchFiles
    Storage <- MCStorage
\* A bench that returned does nothing more.
CHECK_DEADLOCK FALSE
INVARIANTS OneFrameThrough ShownUpToRotation BitmapThrough FileInv Decoded RereadSame
PROPERTIES BenchReturns BenchIsCaller ConstructorEnds
