SPECIFICATION UseSpec
CONSTANTS
    Pod = {p1, p2}
    e1 = e1
    e2 = e2
    e3 = e3
    t1 = t1
    Entity = {e1, e2, e3, t1}
    Token = {t1}
    Whitelisted = {e3}
    Id = {a1, a2}
    NoId = NoId
    Duration <- MCDuration
    MaxDuration = 2
    Faults = {"pod_restart", "redis_unreachable", "redis_restart"}
    Use <- MCUse
    Come <- MCCome
SYMMETRY Symmetry
INVARIANTS
    OnlyLiveActionsBlock
    
    NothingLeftBehind
CHECK_DEADLOCK FALSE
