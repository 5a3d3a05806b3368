SPECIFICATION GuardSpec
CONSTANTS
    Pod = {p1, p2}
    Op = {o1, o2}
    Key = {k1}
    NoKey = NoKey
    MaxSkew = 2
    Faults = {"redis_unreachable", "redis_restart", "pod_restart"}
SYMMETRY Symmetry
INVARIANTS
    RefusedWasPassed
PROPERTIES
    SingleUse
    StampedOnce
