SPECIFICATION Spec
CONSTANTS
    Half <- MCHalf
    Deltas <- MCDeltas
    ValueBits = 4
    MaxLeading = 1
    MaxPoints = 4
INVARIANTS
    ValuesInSync
    ExactTimesInSync
CHECK_DEADLOCK FALSE
