SPECIFICATION FairSpec
CONSTANTS
    Event <- MCEvent
    MaxEvents = 3
    Capacity = 1
    Faults = {"disk_full", "restart"}
    Nothing = Nothing
INVARIANTS
    AccountedFor
    OnlyAllowedIsLearned
PROPERTIES
    WrittenInTheEnd
