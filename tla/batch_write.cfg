SPECIFICATION FairSpec
CONSTANTS
    MaxThreads = 2
    Capacity = 2
    NumBlocks = 3
    CntMod = 256
    SlowPeek = FALSE
    Ranks = {1, 2}
    MaxItems = 2
    MaxMsgs = 3
    Launches = 2
INVARIANTS
    CompletedIsPosted
    PostedOnce
PROPERTIES
    BatchCompletes
    SlavesReturn
