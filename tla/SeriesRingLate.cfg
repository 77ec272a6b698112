SPECIFICATION Spec
CONSTANTS
    Half <- MCHalf
    Seconds <- MCSeconds
    Readings <- MCReadings
    Flags <- MCFlags
    ValueBits = 1
    MaxLeading = 0
    Slots = 2
    TicksPerSecond = 1
    Interval = 1
    Retention = 4
    MaxChunkPoints = 3
INVARIANT
    DiscardsOnlyStaleChunks
