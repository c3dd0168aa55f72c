CONSTANTS
    a1 = a1
    Addr = {a1}
    MaxJoins = 2
SPECIFICATION Spec
INVARIANT ParkedIsRegistered
CHECK_DEADLOCK FALSE
