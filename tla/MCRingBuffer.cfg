CONSTANTS
    Byte = {0, 1}
    Zero = 0
    kCheapPrepend = 2
    kInitialSize = 6
    MaxChunk = 3
    MaxContent = 8
SPECIFICATION MCSpec
INVARIANTS RingAssertionsHold
