SPECIFICATION ThreadFairSpec
CONSTANTS
    Threads = {owner, t1}
    Owner = owner
    Funcs = {f1, f2}
    EarlyFuncs = {f1}
    NoFunc = NoFunc
    Nothing = Nothing
    Something = Something
INVARIANTS NoLostWakeup PublishedLoopIsAlive
PROPERTIES EveryFuncRuns QuitEndsLoop
CHECK_DEADLOCK FALSE
