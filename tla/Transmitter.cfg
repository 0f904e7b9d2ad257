SPECIFICATION FairSpec
CONSTANTS
    c1 = c1
    c2 = c2
    c3 = c3
    f1 = f1
    f2 = f2
    f3 = f3
    Clients = {c1, c2, c3}
    Frames = {f1, f2, f3}
    NoFrame = NoFrame
    Packets <- MCPackets
    Bytes <- MCBytes
    MaxQueuedFrames = 1
INVARIANTS
    TypeOK
    CpbAccounting
    PublishedOccupancy
    NoLostWakeup
    ReportCountsMatchWire
    ReportLeadsItsFrame
PROPERTIES
    CloseMeansDrained
    FailureIsSurfaced
    CallsEnd
    ImplementsFairHandoff
