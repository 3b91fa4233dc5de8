CONSTANTS
    MaxWorkProcs = 1
    NoProc = NoProc
    Calls = {c1, c2}
    Valid = {c1}
SPECIFICATION RpcSpec
INVARIANTS RunningIsComplete WaitedForAll 
PROPERTIES EveryCallEnds WaitReturns
CHECK_DEADLOCK FALSE
