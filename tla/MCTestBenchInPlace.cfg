SPECIFICATION Spec
CONSTANTS
    Columns = 4
    Lines = 6
    PixelLevels = 32
    LnLevels = 8
    PxLevels = 16
    Sources <- TestImages
    Benches = {"OpenCV"}
INVARIANT ShownInPlace
CHECK_DEADLOCK FALSE
