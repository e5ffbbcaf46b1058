SPECIFICATION Spec
CONSTANTS
    People = {1, 2}
    Sources = {1, 2, 3, 4, 5}
    Scores <- MCScores
    MaxOthers = 4
    ThresholdSets <- MCThresholdSets
    Modes = {"max", "mean_top3"}
    TopK = 1
INVARIANT AcceptedIsClear
CHECK_DEADLOCK FALSE
