CONSTANTS
    b0 = b0
    b1 = b1
    Byte = {b0, b1}
    Undef = Undef
    BlockSize = 2
    MaxLength = 4
    MaxWrite = 3
    MaxRead = 4
    SeekToEnd = FALSE
    ReadPastEnd = FALSE
SPECIFICATION Spec
\* A file closed empty is never read: the system stops there.
CHECK_DEADLOCK FALSE
INVARIANT PosTracks
