SPECIFICATION FairSpec
CONSTANTS
    s1 = s1
    s2 = s2
    Shells = {s1, s2}
    Limit = 1
    PipeSize = 1
    Attempts = 1
    Faults = {"reader", "writer", "pipe"}
    Requests <- MCRequests
    LoneRequests <- MCLone
INVARIANTS
    TypeOK
    ClientsAreLetGo
    AnswersInOrder
PROPERTY
    NobodyIsHeldUp
CHECK_DEADLOCK FALSE
