SPECIFICATION FairSpec
CONSTANTS
    Contents = {photo}
    Requests = {q1, q2}
    MaxMedia = 2
    MaxJobs = 2
    MaxCrashes = 1
    None = None
INVARIANTS
    TypeOK
    RunningIsClaimed
    StoredOnce
    MediaAccounted
    ProcessedIsMatched
PROPERTIES
    KeepsThePromise
    EveryJobSettles
CHECK_DEADLOCK FALSE
