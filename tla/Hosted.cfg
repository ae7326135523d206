SPECIFICATION Spec
CONSTANTS
    AppLoads <- MCAppLoads
    BkLoads <- MCBkLoads
    Projects = {"web"}
    NameMatches <- MCOne
    NumVersions = 2
    Tasks = {1, 2}
    MaxTries = 2
    MaxDowns = 1
    Faults = 2
    Uses = {"a", "b", "c", "d"}
    KeyOf <- MCKeyOf
    PrefixOf <- MCPrefixOf
    NumKeys = 3
    Paths = 3
    Limit = 4
    CacheLoads <- MCCacheLoads
    SpoolLoads <- MCSpoolLoads
    MaxBytes = 3
    MaxSegment = 2
    BatchMax = 2
    MetricLoads <- MCMetricLoads
    MaxRoutes = 2
    MaxSamples = 1
    MaxDomains = 1
    MaxTop = 1
    MaxResults = 2
    GatewayLoads <- MCGatewayLoads
    Retention = 1
    IdentityLoads <- MCIdentityLoads
    MaxBinary = 3
INVARIANTS
    AppFilesHold     
    
 
CHECK_DEADLOCK FALSE
