SPECIFICATION Spec
CONSTANTS
    p1 = p1
    p2 = p2
    q1 = q1
    s1 = s1
    NoFiber = NoFiber
    NoTask = NoTask
INVARIANTS TypeOK OnePlaceEach NoLostWakeup StallIsWatched
PROPERTY EveryTaskRuns
CHECK_DEADLOCK FALSE
