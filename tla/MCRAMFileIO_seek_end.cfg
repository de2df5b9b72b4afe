CONSTANTS
    b0 = b0
    b1 = b1
    Byte = {b0, b1}
    Undef = Undef
    BlockSize = 2
    MaxLength = 4
    MaxWrite = 3
    MaxRead = 4
    SeekToEnd = TRUE
    ReadPastEnd = FALSE
SPECIFICATION Spec
CHECK_DEADLOCK FALSE
INVARIANT NoCrash
