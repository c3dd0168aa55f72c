CONSTANTS
    Nobody = Nobody
    Req = {r1}
    Pooled = {}
    Idempotent = {}
    Conn = {c1}
    Host = {h1}
    MaxIdle = 1
    MaxHosts = 1
    MaxAge = 0
    MaxInterim = 1
    MaxClock = 0
    MaxPieces = 3
SPECIFICATION Spec
INVARIANT CutIsAnError
CHECK_DEADLOCK FALSE
