SPECIFICATION Spec
CONSTANTS
    SchedLoads <- MCSchedLoads
    MaxTime = 4
    MaxCrashes = 1
    LateStart = 1
    Downtime = 1
    AlertLoads <- MCAlertLoads
    MaxTicks = 5
    MaxRestarts = 1
    Minute = 2
    PerChannel = 1
    Retries = 1
    EventResolve = 2
    DroppingClear = 1
    TelLoads <- MCTelLoads
    SegmentMax = 2
    SegmentAge = 2
    BlockRecords = 1
    QueueMax = 2
    EvictedSpans = 1
    TelCrashes = 1
    IngestLoads <- MCIngestLoads
    MaxResume = 2
    AgentBurst = 3
    ContainerBurst = 2
    NoticeEvery = 1
    PemLines = 3
    MinuteSecs = 3
    MaxHosts = 3
    WaitSecs = 2
    MaxWaiting = 2
    MaxTemplates = 1
    StagingLoads <- MCStagingLoads
    MaxFiles = 4
    MaxFileSize = 3
    MaxSetSize = 7
    MaxSets = 2
    Lifetime = 1
    StreamLoads <- MCStreamLoads
    Retained = 2
    LiveBuffer = 2
    OpBuffer = 2
    Silence = 1
    MaxTracked = 1
    CallLoads <- MCCallLoads
    MaxShells = 2
    SubmitLimit = 2
    HostLimit = 1
    Window = 1
    IdleTime = 2
    Grace = 1
    MaxTtl = 4
    Frames = 2
INVARIANTS
         LocalStreamsHold 
PROPERTIES TelemetryIsRecordLog
CHECK_DEADLOCK FALSE
