SPECIFICATION FairSpec
CONSTANTS
    Shells = {s1, s2}
    Files <- MCFiles
    Kind <- MCKind
    Lists <- MCLists
    AskSets <- MCAskSets
    MaxEvents = 3
    None = None
INVARIANTS
    TypeOK
    PublishedIsAlive
    RunsTheSettings
    CommandsAreMinded
PROPERTIES
    PictureFollows
    RequestsAreServed
CHECK_DEADLOCK FALSE
