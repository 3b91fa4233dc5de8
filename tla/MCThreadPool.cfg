SPECIFICATION PoolFairSpec
CONSTANTS
    Workers = {w1, w2}
    Producers = {p1, p2, p3}
    Tasks = {a, b, c, d}
    Spawners = {a}
    MaxQueueSize = 2
    NoTask = NoTask
INVARIANTS WorkIsClaimed SpaceIsClaimed
PROPERTIES AcceptedTaskRuns StopReturns
