SPECIFICATION Spec
CONSTANTS
    NGroups = 1
    MsgCnt = 3
    MaxHandle = 2
    Repeats = {1, 2}
    SeqMod = 2
    MaxRetry = 10
    FinalizeCnt = 1999999999
    Launches = 3
    MaxTasks = 3
    SyncModes = {TRUE, FALSE}
    Exts = {TRUE, FALSE}
    FinalizeLast = TRUE
    DependentsFirst = TRUE
    ExcessPrepare = FALSE
    Legacy = FALSE
    TimeoutsFire = FALSE
CHECK_DEADLOCK FALSE
INVARIANTS
    TypeOK
    ExtensionFirst
    NothingLeftBehind
    ExecutedIsCommitted
