SPECIFICATION Spec
CONSTANTS
    Ruleset = {full, other}
    None = None
    MaxTrainings = 2
INVARIANTS
    TypeOK
    ChangesAreSeen
    ReadyScores
PROPERTIES
    UpdateTakesEffect
