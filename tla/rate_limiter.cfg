SPECIFICATION Spec
CONSTANTS
    Pod = {p1, p2}
    Limit = 2
    Window = 2
    CheckEvery = 2
    Faults = {"redis_gone", "redis_late", "redis_restart", "pod_restart"}
INVARIANTS
    TypeOK
    LimitPerStore
    NoCounterRunsAhead
PROPERTIES
    Rejoins
