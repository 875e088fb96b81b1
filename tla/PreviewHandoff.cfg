SPECIFICATION Spec
CONSTANTS
    MaxFrame = 2
    MaxShots = 3
    MaxSwaps = 1
CHECK_DEADLOCK FALSE
INVARIANTS
    TypeOK
    BuffersAccounted
    StopEndsThreads
PROPERTIES
    PictureIsServed
    StopHangsOnlyOnWait
    HandsOffInOrder
