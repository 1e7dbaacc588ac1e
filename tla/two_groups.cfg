SPECIFICATION Spec
CONSTANTS
    NGroups = 2
    MsgCnt = 4
    MaxHandle = 3
    Repeats = {1, 2}
    SeqMod = 256
    MaxRetry = 10
    FinalizeCnt = 1999999999
    Launches = 2
    MaxTasks = 2
    SyncModes = {TRUE}
    Exts = {FALSE}
    FinalizeLast = TRUE
    DependentsFirst = TRUE
    ExcessPrepare = FALSE
    Legacy = FALSE
    TimeoutsFire = FALSE
INVARIANTS
    NothingLeftBehind
    FinishedIsExecuted
    ServerOutlivesWork
    CleanForNextLaunch
    ServerDoesNotFail
PROPERTIES
    ApiSpec
