SPECIFICATION Spec
CONSTANTS
    MaxPending = 2
    MaxLatency = 1
    Visible <- MCVisible
    Transforms <- MCTransforms
    MaxUnits = 4
    MaxTime = 3
INVARIANTS
    PicturesAreTheirOwn
    CleanMeansOnTime
CHECK_DEADLOCK FALSE
