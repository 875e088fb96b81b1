SPECIFICATION Spec
CONSTANTS
    VideoWidth = 6
    Settings <- MCOneSetting
    LeftLines <- MCLeft
    RightLines <- MCRight
    Modes <- MCNormal
    MissBound = 3
INVARIANTS
    LateSendBound
    ReferencePairsLast
