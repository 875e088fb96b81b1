SPECIFICATION Spec
CONSTANTS
    Transfers <- TwoTransfers
    Packets = 2
    MaxFrames = 4
    MaxBad = 1
    MaxLost = 3
CHECK_DEADLOCK FALSE
INVARIANTS
    TypeOK
    ClosedAlone
    MixedOnlyByLoss
PROPERTIES
    RepeatsOnlyAfterError
    StopReturns
