SPECIFICATION HFairSpec
CONSTANTS
    Request = {r1, r2, r3}
    FailureThreshold = 2
    RecoveryTimeout = 2
    HalfOpenSuccessThreshold = 2
    CountCap = 3
PROPERTIES
    NoCallDuringCooldown
    TripsOnConsecutiveFailures
    ClosesOnConsecutiveSuccesses
    ImplementsAbstractBreaker
    Recovers
