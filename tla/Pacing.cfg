SPECIFICATION Spec
CONSTANTS
    Second = 1000
    Cmax = 3
    DrainInterval = 2
    MaxSpacing = 3
    MaxDrift = 7
    MaxTime = 200
    SrDelay = 0
    EncoderDelay = 1
    AuOffset = 1
    Spacings = {1, 3}
    MaxPackets = 4
    MaxAge = 1
    MaxLateness = 2
    MaxWork = 1
    Horizon = 12
INVARIANTS
    NcmCompliance
    BitrateCompliance
    ReportThenMedia
PROPERTIES
    NoOverdelay
CHECK_DEADLOCK FALSE
