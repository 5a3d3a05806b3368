SPECIFICATION Spec
CONSTANTS
    Pod = {p1}
    Incident = {i1, i2}
    Entity = {e1}
    Subject = {e1}
    Token = {}
    Whitelisted = {}
    Id <- MCId
    NoId = NoId
    Duration <- MCDuration
    MaxDuration = 1
    Faults = {"redis_unreachable", "redis_restart", "pod_restart"}
    Alert <- WorkflowAlerts
    Handled = {"quarantine_ip_temp", "suspend_account"}
SYMMETRY Symmetry
INVARIANTS
    SuspendsOnlyApproved
    HoldsWhereApplied
    ShowsNothingRevoked
CHECK_DEADLOCK FALSE
