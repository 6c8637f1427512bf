SPECIFICATION ProcSpec
CONSTANTS
    Length = 6
    Begins = {0}
    Targets = {2}
    Chunk = 2
    Capacity = 4
    Prefill = 3
    Buffers = {3}
    Faults = {"repack"}
    SeekMayFail = FALSE
    Deadlines = {}
    MaxCalls = 3
    MaxSince = 5
    Ratio = 2
    Holds <- MCHolds
    FlushMayFail = TRUE
INVARIANTS
    PlaysWhatTheChainGives
PROPERTIES
    ComesToItsEnd
CHECK_DEADLOCK FALSE
