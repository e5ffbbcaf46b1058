SPECIFICATION Spec
CONSTANTS
    People = {1, 2}
    Sources = {1, 2, 3, 4, 5}
    Scores <- MCScores
    MaxOthers = 4
    ThresholdSets <- MCThresholdSets
    Modes = {"max", "mean_top3"}
    TopK = 2
INVARIANTS
    ThresholdsKeepTheirPromise
    AcceptedIsClear
PROPERTIES
    RivalNeverPromotes
    WarnsBeforeItShuts
CHECK_DEADLOCK FALSE
