SPECIFICATION SchedSpec
CONSTANTS SchedLoads <- MCOverlapLoads
 MaxTime = 2
 MaxCrashes = 0
 LateStart = 1
 Downtime = 1
INVARIANTS OneRunPerServer
CHECK_DEADLOCK FALSE
