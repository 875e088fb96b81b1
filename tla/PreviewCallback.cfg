SPECIFICATION Spec
CONSTANTS
    MaxFrame = 2
    MaxShots = 2
    MaxSwaps = 0
CHECK_DEADLOCK FALSE
INVARIANT FinishedCapturing
