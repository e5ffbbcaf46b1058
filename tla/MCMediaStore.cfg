SPECIFICATION Spec
CONSTANTS
    case1 = case1
    case2 = case2
    photo = photo
    broken = broken
    clip = clip
    Job = Job
    crop = crop
    q1 = q1
    q2 = q2
    None = None
    Cases = {case1, case2}
    Contents = {photo, broken, clip}
    Readable = {photo}
    Videos = {clip}
    Crops = {crop}
    CropsOf <- MCCropsOf
    Requests = {q1, q2}
    MaxMedia = 2
    MaxCrashes = 1
SYMMETRY Symmetry
INVARIANTS
    TypeOK
    BytesKept
    NothingLeftBehind
CHECK_DEADLOCK FALSE
