SPECIFICATION BehindSpec
CONSTANTS
    p1 = p1
    p2 = p2
    q1 = q1
    s1 = s1
    NoFiber = NoFiber
    NoTask = NoTask
INVARIANT StallIsWatched
CHECK_DEADLOCK FALSE
