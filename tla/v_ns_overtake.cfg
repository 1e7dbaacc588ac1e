SPECIFICATION FairSpec
CONSTANTS
    MaxOps = 2
    MaxRounds = 1
    Faults = FALSE
INVARIANTS
    NothingRunsSuspended
CHECK_DEADLOCK FALSE
