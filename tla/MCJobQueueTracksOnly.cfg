SPECIFICATION Spec
CONSTANTS
    Contents = {photo}
    Requests = {q1, q2}
    MaxMedia = 2
    MaxJobs = 1
    MaxCrashes = 1
    None = None
INVARIANT NoTracksOnlyResult
CHECK_DEADLOCK FALSE
