CONSTANTS
    Byte = {0, 1}
    Zero = 0
    kCheapPrepend = 2
    kInitialSize = 3
    MaxChunk = 3
    MaxContent = 5
SPECIFICATION MCSpec
INVARIANTS ContentIsRight AssertionsHold
