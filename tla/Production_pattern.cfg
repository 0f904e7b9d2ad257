SPECIFICATION Spec
CONSTANTS
    Second = 1
    Numerator = 4
    Denominator = 7
    RtpClockRate = 1
    TimestampSpace = 16
    InitialTimestamp = 12
    Screen = FALSE
    FirstTimeout = 0
    Duration = 7
    Capacity = 2
    LateTime = 8
INVARIANTS
    SkipsAreCounted
    TimestampsFollowNominal
PROPERTIES
    SlotIsPresent
CHECK_DEADLOCK FALSE
