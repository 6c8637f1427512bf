SPECIFICATION FairSpec
CONSTANTS
    Length = 3
    Begins = {0}
    Targets = {1}
    Chunk = 2
    Capacity = 3
    Prefill = 2
    Buffers = {2}
    Faults = {}
    SeekMayFail = FALSE
    Deadlines = {}
    MaxCalls = 5
    MaxSince = 4
INVARIANTS
    SeekOwnsTheRing
    PlaysFromWhereItIs
PROPERTIES
    PlaysOn
    CallsReturn
    IsPlayback
CHECK_DEADLOCK FALSE
