SPECIFICATION FairSpec
CONSTANTS
    Files <- MCFiles
    Streams <- MCStreams
    Limits <- MCLimits
    OneThread = TRUE
    MaySeekFail = TRUE
    MaxSeeks = 2
INVARIANTS
    EachGetsItsOwn
    CapsHold
PROPERTIES
    EndIsReached
