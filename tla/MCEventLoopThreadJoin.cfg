SPECIFICATION ThreadTimedSpec
CONSTANTS
    Threads = {owner}
    Owner = owner
    Funcs = {f1, f2}
    EarlyFuncs = {f1}
    NoFunc = NoFunc
    Nothing = Nothing
    Something = Something
PROPERTIES DestructEnds
CHECK_DEADLOCK FALSE
