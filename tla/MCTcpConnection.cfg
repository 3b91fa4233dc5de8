SPECIFICATION ConnFairSpec
CONSTANTS
    t1 = t1
    t2 = t2
    m1 = m1
    m2 = m2
    m3 = m3
    NoMsg = NoMsg
    Threads = {t1, t2}
    Setups <- MCSetups
    Msgs = {m1, m2, m3}
    MsgLen = 2
    HighWaterMark = 3
    MaxPending = 2
    MaxDowns = 1
INVARIANTS WireInOrder FinIsLast PendingIsWatched DestroyedOnce CleanEnd
PROPERTIES ShutdownSendsFin ClosedIsDestroyed
CHECK_DEADLOCK FALSE
