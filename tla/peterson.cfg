SPECIFICATION FairSpec
CONSTANTS
    CopyFails = TRUE
    MaxOvertaken = 3
INVARIANTS
    MutualExclusion
    OvertakenOnce
PROPERTIES
    NoStarvation
    LockReturns
