SPECIFICATION BufferSpec
CONSTANTS
    Byte = {0, 1}
    kCheapPrependSize = 2
    kDefaultInitialSize = 3
    MaxLen = 4
    MaxSize = 8
INVARIANTS ReadsBack
CHECK_DEADLOCK FALSE
