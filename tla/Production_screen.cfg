SPECIFICATION FairSpec
CONSTANTS
    Second = 3
    Numerator = 1
    Denominator = 1
    RtpClockRate = 5
    TimestampSpace = 64
    InitialTimestamp = 55
    Screen = TRUE
    FirstTimeout = 2
    Duration = 4
    Capacity = 1
    LateTime = 5
INVARIANTS
    MailboxHoldsNewest
    NothingProducedIsLost
    PaceIsKept
PROPERTIES
    SenderEnds
CHECK_DEADLOCK FALSE
