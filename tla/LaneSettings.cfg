SPECIFICATION FairSpec
CONSTANTS
    VideoWidth = 6
    Settings <- MCSettings
    LeftLines <- MCLeftFar
    RightLines <- MCNone
    Modes <- MCBothModes
    MissBound = 3
INVARIANTS
    TypeOK
    StopsWhenLaneLost
    SentInRange
    LostKeepsDirection
PROPERTIES
    EventuallyNeutral
