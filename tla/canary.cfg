SPECIFICATION CanarySpec
CONSTANTS
    Client = {"early", "late"}
    Hash <- MCHash
    Route = {"read", "mutation"}
    Budget <- MCBudget
    Global <- MCGlobal
    Latency = {0, 1, 2}
    MinSamples = 2
    WindowSize = 3
    WeightInput <- MCWeightInput
    MaxTotal = 4
    MaxFlight = 1
INVARIANTS
    UnhealthyIsOff
PROPERTIES
    OffRoutesNothing
    TakenOutForCause
CHECK_DEADLOCK FALSE
