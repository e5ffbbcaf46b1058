SPECIFICATION FairSpec
CONSTANTS
    MaxPersons = 2
    t1 = t1
    t2 = t2
    f1 = f1
    f2 = f2
    seeded = seeded
    calibrated = calibrated
    None = None
    Tracks = {t1, t2}
    Files = {f1, f2}
    FileOf <- MCFileOf
    Score <- MCScore
    ThresholdSets = {seeded, calibrated}
    ThresholdRow <- MCThresholdRow
    ScoreMode = "max"
    TopK = 3
    MaxRequests = 2
    MaxCrashes = 1
PROPERTY RescoreHappens
CHECK_DEADLOCK FALSE
