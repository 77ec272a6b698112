SPECIFICATION Spec
CONSTANTS
    SeriesCount = 2
    Matches <- MCMatches
    LastMinute = 2
    Cycles = {"c1", "c2"}
    MaxFaults = 1
INVARIANTS
    TypeOK
    NothingSkipped
    ExportedOncePerQuery
PROPERTIES
    ImplementsFeed
    EventuallyExported
