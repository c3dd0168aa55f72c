CONSTANTS
    Task = {t1, t2, t3}
    None = None
    Permits = 1
    MaxTotal = 2
    Writer = {t1}
    N = 2
    b1 = b1
    b2 = b2
    b3 = b3
    a1 = a1
    Nobody = Nobody
SPECIFICATION MCSpec
INVARIANTS MutualExclusion MutexInv TypesOK NobodyParkedIdly NothingLost OutcomeComplete ChainIsThere
PROPERTIES ImplementsFifoLock StepsAreSafe EverybodyReturns
CHECK_DEADLOCK FALSE
