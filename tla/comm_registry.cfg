SPECIFICATION FairSpec
CONSTANTS
    Threads = {t1, t2}
    Groups = {g1}
    None = None
    MaxGens = 2
    MaxKernels = 2
    Faults = TRUE
INVARIANTS
    WriterIsAlone
    UsedIsAlive
PROPERTIES
    LifeSpec
    KernelsReturn
    DestroyedGoes
CHECK_DEADLOCK FALSE
