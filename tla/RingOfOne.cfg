CONSTANTS
    Cap = 1
    MaxItems = 3
    Thief = {p1}
    Producer = {q1}
    Consumer = {c1}
    Waiter = {w1}
    Sender = {s1}
    Receiver = {r1}
    s0 = s0
    r0 = r0
    Systems = {"mpmc"}
    Overlap = {FALSE}
SPECIFICATION MCSpec
INVARIANT NeverOverfull
