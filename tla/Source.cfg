SPECIFICATION Spec
CONSTANTS
    Cuts = {0, 2, 3, 6}
    Flushed = 1
    Edits <- MCEdits
    Rate = 4
    Targets = {0, 1, 3}
    ReadSizes = {1, 2, 5}
    MayBeBusy = TRUE
    MayFail = TRUE
    MaxSeeks = 2
INVARIANTS
    TypeOK
    HandsOverTheAudio
PROPERTY
    NothingMeansTheEnd
