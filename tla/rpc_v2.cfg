SPECIFICATION FairSpec
CONSTANTS
    NGroups = 2
    MsgCnt = 4
    MaxHandle = 3
    Repeats = {1}
    SeqMod = 256
    MaxRetry = 10
    FinalizeCnt = 1999999999
    Launches = 2
    MaxTasks = 4
    CarefulTasks = 2
    SyncModes = {TRUE, FALSE}
    Exts = {FALSE}
    FinalizeLast = FALSE
    DependentsFirst = TRUE
    ExcessPrepare = FALSE
INVARIANTS
    ExecutedIsCommitted
    CarefulLeavesClean
PROPERTIES
    CarefulApi
    CarefulReturns
