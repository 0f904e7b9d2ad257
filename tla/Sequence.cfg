SPECIFICATION Spec
CONSTANTS
    SequenceSpace = 8
    LastPacket = 13
    Duplicates = 2
    DuplicateSpan = 8
    Displacement = 3
INVARIANTS
    LossIsExact
CHECK_DEADLOCK FALSE
