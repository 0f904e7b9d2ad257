SPECIFICATION Spec
CONSTANTS
    Options <- MCOptions
    Documents <- MCDocuments
    Second = 10000
    MaxTime = 100000000
    MaxRuns = 2
INVARIANTS
    JoinsADescribedSession
    OrderDoesNotMatter
    CompleteIsAccepted
    ChecksSuffice
    ReportIsReadable
CHECK_DEADLOCK FALSE
