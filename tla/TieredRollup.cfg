SPECIFICATION Spec
CONSTANTS
    Producers = {p1, p2}
    Tiers = {"minute", "hour"}
    Width <- MCWidth
    Slots = 2
    ChunkBuckets = 1
    Readings <- MCReadings
    MaxSamples = 3
    MaxFaults = 1
SYMMETRY MCSymmetry
INVARIANTS
    TypeOK
    AggregatesExact
    ClosedBucketsOnDisk
    RowsAlignedDuringFlush
PROPERTY
    FlushBeforeMove
