SPECIFICATION FairSpec
CONSTANTS
    Playlists <- MCPlaylists
    Ahead = 3
    Grace = 1
    Targets <- MCTargets
    MayGiveUp = TRUE
    MaxCalls = 3
INVARIANTS
    TypeOK
    MarksAreRight
    JoinsOrSaysWhy
PROPERTIES
    NextIsTheTrackAfter
    RunEndsAtLast
CHECK_DEADLOCK FALSE
