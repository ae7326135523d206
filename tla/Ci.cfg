SPECIFICATION FairSpec
CONSTANTS
    Deliveries = {"w1", "w2"}
    Loads <- MCJobLoads
    None = None
    Commands = {"j", "w"}
    Kinds <- MCKinds
    MaxPermits = 1
    MaxDispatch <- MCDispatch
    MaxBreaks = 1
    MaxCancels = 2
    AckFails = TRUE
INVARIANTS  JobResultsHold StreamHolds
PROPERTIES StartedJobEnds CommandsAreAnswered
CHECK_DEADLOCK FALSE
