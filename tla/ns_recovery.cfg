SPECIFICATION FairSpec
CONSTANTS
    MaxOps = 4
    MaxRounds = 3
    Faults = TRUE
INVARIANTS
    OperatorListens
PROPERTIES
    RecoverySpec
    CallsAnswered
CHECK_DEADLOCK FALSE
