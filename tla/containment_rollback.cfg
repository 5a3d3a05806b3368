SPECIFICATION Spec
CONSTANTS
    Pod = {p1}
    Incident = {i1, i2}
    Entity = {e1}
    Subject = {e1}
    Token = {}
    Whitelisted = {}
    Id <- MCId
    NoId = NoId
    Duration <- MCDuration
    MaxDuration = 1
    Faults = {}
    Alert <- OneAlert
    Handled = {"quarantine_ip_temp"}
PROPERTY RollbackPurgesOnlyItsAction
CHECK_DEADLOCK FALSE
