SPECIFICATION Spec
CONSTANTS
    Keys <- MCKeys
    Matches <- MCMatches
    PerSecond = 2
    Interval = 2
    Slots = 2
    ChunkSeconds = 2
    RemoteSeconds = 2
    MaxDelay = 1
    MaxTime = 5
    MaxSamples = 3
    MaxFaults = 1
CHECK_DEADLOCK FALSE
INVARIANTS
    ReadOnceUnlessSplit
    MissedForAReason
    KeptInOrder
PROPERTY
    EventuallyTaken
