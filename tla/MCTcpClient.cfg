SPECIFICATION ClientFairSpec
CONSTANTS
    Threads = {t1, t2}
    Socks = {s1, s2}
    NoSock = NoSock
    kInitRetryDelayMs = 1
    kMaxRetryDelayMs = 3
    MaxConnects = 1
    MaxPending = 2
INVARIANTS StartIsSafe SocketsOwned StopReaches
PROPERTIES Reconnects
