SPECIFICATION TrainSpec
CONSTANTS
    Values = {0, 1, 3, 4}
    Lengths = {6}
    Features <- MCFeatures
    MaxIterations = 3
CHECK_DEADLOCK FALSE
INVARIANTS
    BufferVectorIsLastTrained
    BlindOnTwoVectors
PROPERTY
    CostNeverGrows
