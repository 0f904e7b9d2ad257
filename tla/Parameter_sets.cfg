SPECIFICATION Spec
CONSTANTS
    WordBits = 3
    ByteBits = 2
    Header = 1
    MaxFields = 2
    MaxUnits = 2
    SeiMessages <- MCSeiMessages
    MaxMessages = 2
    Headers <- MCHeaders
INVARIANTS
    UnitsAreKept
    ReadsWhatWasWritten
    HeadersAreRead
CHECK_DEADLOCK FALSE
