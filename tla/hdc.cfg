SPECIFICATION FairSpec
CONSTANTS
    Writers = {w1, w2}
    Readers = {r1}
    Words = {cmd, flag}
    MaxPuts = 2
    Faults = TRUE
    Reorders = TRUE
INVARIANTS
    ReturnedWasPut
PROPERTIES
    RegSpec
    GetReturns
    GetNeverHangs
CHECK_DEADLOCK FALSE
