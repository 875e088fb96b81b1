SPECIFICATION Spec
CONSTANTS
    Chunk = 4
    Lengths <- MCLengths
    Ids <- MCIds
    MaxFrames = 3
    MaxFaults = 3
    MaxInFlight = 3
CHECK_DEADLOCK FALSE
INVARIANTS
    ShownInPlace
    SingleFaultTolerated
    ResyncAfterOneFrame
