SPECIFICATION FairExecSpec
CONSTANTS
  p1 = p1
  p2 = p2
  c1 = c1
  r1 = r1
  r2 = r2
  NoRule = NoRule
  NoPlan = NoPlan
  Plans = {p1, p2}
  Scopes = {c1}
  Rules = {r1, r2}
  Forced = {p1, p2}
  Scope <- OneScope
  Loads <- CancelledRestart
  Base <- AnyBase
  Invokes <- NoInvocation
  Ops <- OpNames
  Reported = {"succeeded", "failed", "rolled_back", "cancelled", "expired"}
  Window = 1
  MaxLog = 14
  Earlier = {p1}
  CancelFails = FALSE
PROPERTIES EveryPlanEnds
CHECK_DEADLOCK FALSE
