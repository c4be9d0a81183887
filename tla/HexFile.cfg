SPECIFICATION Spec
CONSTANTS
    Byte = 8
    LineSize = 4
    Images <- MCImages
    Fragile <- MCFragile
    LineEnd = 7
    Blank = 6
    Pages = {0, 1, 64}
INVARIANT WrittenIsRead
CHECK_DEADLOCK FALSE
