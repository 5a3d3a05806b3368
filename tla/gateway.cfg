SPECIFICATION FairSpec
CONSTANTS
    Request = {r1, r2}
    Client = {c1}
    User = {u1}
    Served = {"login", "orders", "sap", "users_page"}
    Severity = {50, 60, 80}
    FailureThreshold = 2
    History = 1
    Nothing = Nothing
INVARIANTS
    CountedFailuresBounded
    NothingFlaggedForwarded
    AuditTellsTheOutcome
    OnlyThreatsAreRefused
PROPERTIES
    LockoutEnds
    
