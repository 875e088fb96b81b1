SPECIFICATION Spec
CONSTANTS
    MaxConnects = 2
    MaxShots = 2
CHECK_DEADLOCK FALSE
INVARIANTS
    TypeOK
    FrameUntouched
    NoCrashWhileStarted
    ClosedWhenConfigured
PROPERTIES
    FrameIsTaken
    StopReturns
    ServesListener
