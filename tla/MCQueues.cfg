CONSTANTS
    Cap = 2
    MaxItems = 4
    Thief = {x1, x2}
    Producer = {x1, x2}
    Consumer = {y1, y2}
    Waiter = {x1, x2, x3}
    Sender = {x1, x2}
    Receiver = {x1, x2}
    s0 = s0
    r0 = r0
    Systems = {"deque", "mpmc", "proxy", "takers", "givers", "meet", "soft"}
    Overlap = {TRUE, FALSE}
SPECIFICATION MCSpec
SYMMETRY Symmetry
INVARIANTS TypesOK OnceOnly KeepsOrder ParksNobodyIdly
PROPERTY RefusalsAreHonest
