SPECIFICATION Spec
CONSTANTS
    SequenceSpace = 16
    MaxPayload = 7
    MaxNalUnits = 12
    MaxAuUnits = 20
    MaxNals = 4
    Sessions <- MCSessions
    FirstSequences = {13}
    NextSequences = {0, 1, 3, 12, 13, 14, 15}
    Strays <- MCStrays
INVARIANTS
    TypeOK
    CompletedAreTails
    CleanVerdictIsSound
    PacketsAreWellFormed
PROPERTIES
    IntactIsCompleted
CHECK_DEADLOCK FALSE
