SPECIFICATION Spec
CONSTANTS
    Transfers <- TwoTransfers
    Packets = 2
    MaxFrames = 1
    MaxBad = 0
    MaxLost = 0
CHECK_DEADLOCK FALSE
INVARIANTS
    FreedAlone
