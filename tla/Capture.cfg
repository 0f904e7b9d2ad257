SPECIFICATION FairSpec
CONSTANTS
    MaxQueuedPackets = 2
    BufferPackets = 2
    MaxDatagrams = 6
INVARIANTS
    NothingSilentlyLost
    CleanCloseIsComplete
PROPERTIES
    CaptureEnds
CHECK_DEADLOCK FALSE
