SPECIFICATION FairSpec
CONSTANTS
    NGroups = 2
    MsgCnt = 4
    MaxHandle = 3
    Repeats = {1}
    SeqMod = 256
    MaxRetry = 10
    FinalizeCnt = 1999999999
    Launches = 2
    MaxTasks = 2
    SyncModes = {TRUE}
    Exts = {FALSE}
    FinalizeLast = TRUE
    DependentsFirst = TRUE
    ExcessPrepare = FALSE
    Legacy = FALSE
    TimeoutsFire = FALSE
PROPERTIES
    CallsReturn
    ServerReturns
    CommittedRun
