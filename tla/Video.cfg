SPECIFICATION FairSpec
CONSTANTS
    Length = 2
    Syncs = {0}
    Targets = {1}
    Delay = 1
    FaultSets <- MCFaultSets
    MaxCalls = 3
INVARIANTS
    TypeOK
    LoopIsTheirs
    ShowsWhereItIs
PROPERTIES
    PrerollHoldsTheClock
    CallsReturn
CHECK_DEADLOCK FALSE
