\* A thread adds tasks and stops the processor, and so do the tasks; two
\* coroutines for the tasks and one socket.
SPECIFICATION ProcSpec
CONSTANTS
    Threads = {t1}
    Tasks = {a, b}
    NoTask = NoTask
    Workers = {c1, c2}
    NoCo = NoCo
    Socks = {s1}
    NoFd = NoFd
INVARIANTS OnePlace
PROPERTIES EveryTaskRuns Resumes StopEndsRun
\* run() ends.
CHECK_DEADLOCK FALSE
