SPECIFICATION Spec
CONSTANTS
    NGroups = 2
    MsgCnt = 3
    MaxHandle = 2
    Repeats = {1}
    SeqMod = 256
    MaxRetry = 1
    FinalizeCnt = 1999999999
    Launches = 1
    MaxTasks = 3
    SyncModes = {FALSE}
    Exts = {FALSE}
    FinalizeLast = TRUE
    DependentsFirst = TRUE
    ExcessPrepare = TRUE
    Legacy = TRUE
    TimeoutsFire = TRUE
INVARIANTS
    FinishedIsExecuted
PROPERTIES
    ApiSpec
