SPECIFICATION Spec
CONSTANTS
    Producers = {p1}
    Tiers = {"minute"}
    Width <- MCWidth
    Slots = 4
    ChunkBuckets = 1
    Readings <- MCReadings
    MaxSamples = 4
    MaxFaults = 1
INVARIANT
    RowsAreBuckets
