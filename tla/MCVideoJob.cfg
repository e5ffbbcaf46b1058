SPECIFICATION Spec
CONSTANTS
    Videos <- MCVideos
    FrameMs = 10
    SlotMs = 20
    BatchSizes = {1, 3}
    MinHits = 2
    MaxAgeMs = 20
    MaxRuns = 3
    MaxDecisions = 1
INVARIANTS
    TypeOK
    OneFacePerFrame
    ConfirmedSurvives
    NoFlickerMatched
    DoneIsMatched
    GridHolds
    CountsAreTrue
PROPERTIES
    RowsStand
CHECK_DEADLOCK FALSE
