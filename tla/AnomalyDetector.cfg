SPECIFICATION Spec
CONSTANTS
    Keys <- MCKeys
    DirOrder <- MCDirOrder
    Matches <- MCMatches
    Sources <- MCSources
    Feeds <- MCFeeds
    Ages <- MCAges
    Need = 1
    ModelCount = 1
    Fanout = 2
    Window = 2
    Slots = 2
    ChunkSeconds = 1
    MaxTime = 2
    MaxSamples = 4
    MaxFaults = 1
INVARIANTS
    AlertsHearAll
    BufferIsAsStored
    JudgedByThePast
    VisitedEachRound
PROPERTY
    EventuallyTrained
