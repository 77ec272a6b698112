SPECIFICATION Spec
CONSTANTS
    Producers = {"p1", "p2"}
    Series <- MCSeries
    Feeds <- MCFeeds
    Rules <- MCRules
    Notifiers = {"hook", "slack"}
    Readings <- MCReadings
    MaxSamples = 4
INVARIANTS
    TypeOK
    AlertsAreLongRuns
    EveryTransitionNotified
    NoticesInOrder
    RateSeesWholeWindow
CHECK_DEADLOCK FALSE
