SPECIFICATION Spec
CONSTANTS
    Length = 3
    Begins = {0}
    Targets = {1}
    Chunk = 1
    Capacity = 2
    Prefill = 1
    Buffers = {1}
    Faults <- AllFaults
    SeekMayFail = TRUE
    Deadlines <- AllDeadlines
    MaxCalls = 3
    MaxSince = 2
INVARIANTS
    TypeOK
    WorkWakesTheDecoder
PROPERTIES
    RunEndsAtTheEnd
CHECK_DEADLOCK FALSE
