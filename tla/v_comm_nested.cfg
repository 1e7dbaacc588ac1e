SPECIFICATION FairSpec
CONSTANTS
    Threads = {t1, t2}
    Groups = {g1}
    None = None
    MaxGens = 2
    MaxKernels = 3
    Faults = FALSE
PROPERTIES
    PollEnds
CHECK_DEADLOCK FALSE
