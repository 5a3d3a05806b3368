SPECIFICATION Spec
CONSTANTS
    Worker = {w1, w2}
    Event = {x, y}
    NoEvent = NoEvent
    Faults = {"write_error", "torn_write", "tail_lost", "altered"}
    MaxLines = 3
    MaxCalls = 4
SYMMETRY Symmetry
INVARIANTS
    ChainIntact
    ResumesAtTail
    RecordsWhatItReturned
    AlterationIsDetected
    WhatVerifiesHappened
PROPERTIES
    ImplementsLog
CHECK_DEADLOCK FALSE
