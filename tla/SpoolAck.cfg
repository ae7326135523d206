SPECIFICATION SpoolSpec
CONSTANTS
    SpoolLoads <- MCFullLoads
    MaxBytes = 3
    MaxSegment = 2
    BatchMax = 2
INVARIANTS AckOnlyConsumed
CHECK_DEADLOCK FALSE
