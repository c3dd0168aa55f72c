CONSTANTS
    Handle = {h1, h2}
    PollHandle = {h1}
    Duration = {1, 2}
    MaxNow = 3
    MaxFaults = 1
    Fd = {1}
    MaxCloses = 1
    Scoped = {h1}
    Chained = {h1}
SPECIFICATION MCSpec
INVARIANTS TypesOK ProxiesAreAccounted TimerNeverLate NoLostReadiness
PROPERTIES NoForeignWake ImplementsService BackendsImplementService WaitersWake
CHECK_DEADLOCK FALSE
