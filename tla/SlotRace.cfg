CONSTANTS
    u1 = u1
    u2 = u2
    u3 = u3
    ow = ow
    Nobody = Nobody
    Conn = {u1, u2}
    Raw = {u1}
    Num = {1, 2}
    MaxArms = 3
    Op = {u1, u2}
    Closer = {k1}
    MaxFiles = 2
    MaxDeferred = 1
    MaxUses = 3
    Systems = {"socket"}
SPECIFICATION MCSpec
INVARIANT NeverClosedUnderUse
CHECK_DEADLOCK FALSE
