SPECIFICATION TelemetrySpec
CONSTANTS
    TelLoads <- MCCrowdLoads
    SegmentMax = 2
    SegmentAge = 2
    BlockRecords = 1
    QueueMax = 2
    EvictedSpans = 1
    TelCrashes = 0
INVARIANTS WithinLimit
CHECK_DEADLOCK FALSE
