SPECIFICATION Spec
CONSTANTS
    People = {1}
    IdentifyEvery = 2
    MaxSessions = 3
    MaxTicks = 3
    MaxAnswers = 4
    None = None
INVARIANTS
    TypeOK
    SavedAsShown
    CaptureIsShown
    StoppedIsClean
CHECK_DEADLOCK FALSE
