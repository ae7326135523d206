SPECIFICATION MCSpec
CONSTANTS
  Plans <- MCPlans
  Lifetime = 2
  Skew = 1
  Quarantine = 5
  ResetWhileRunning = FALSE
  LossInBootstrap = FALSE
  MaxTime = 9
  MaxRequests = 2
  k1 = k1
  k2 = k2
  k3 = k3
  NoKey = NoKey
  Keys = {k1, k2, k3}
  Owners = {k1, k2, k3}
  Flights = {1, 2}
  TrustLoads <- MCTrustLoads
SYMMETRY OwnerSymmetry
INVARIANTS TypeOK NothingForgotten AtMostOnce NothingBeforeUnquarantined TrustFileHolds
PROPERTIES NoAdmissionInQuarantine
