SPECIFICATION MCSpec
CONSTANTS
  d1 = d1
  d2 = d2
  s1 = s1
  s2 = s2
  c1 = c1
  c2 = c2
  Deliveries = {d1, d2}
  Services = {s1, s2}
  Commits = {c1, c2}
  Rules = {1, 2}
  CommitOf <- TwoCommits
  CommitTime <- Times
  ServicesOf <- OneAndBoth
  Specs = {s1, s2}
  STALE = 1
  TTL = 2
  HOUR = 1
  MAX_QUEUED_BUILDS = 1
  Reproducible = FALSE
  Loads <- HookLoads
  Jobs <- Two
  MAX_ALLOWED_CHAINS = 2
  DOWNTIME = 1
  Backoff = 1
  Plans <- TwoPlans
  JobOf <- FirstJob
  Expiry = 1
  Outcomes = {"succeeded", "failed"}
  Refuses = FALSE
  MaxTime = 3
  CronLoads <- CronEverything
INVARIANTS
  HookDeploysHold HookDeliveriesHold HookRecordsHold CronFiresHold CronSlotsHold
