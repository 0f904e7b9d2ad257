SPECIFICATION Spec
CONSTANTS
    SequenceSpace = 6
    LastPacket = 13
    Duplicates = 1
    DuplicateSpan = 14
    Displacement = 2
INVARIANTS
    NoStaleMarker
CHECK_DEADLOCK FALSE
